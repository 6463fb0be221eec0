------------------------------- MODULE MCJit --------------------------------
(* The compiler's three questions side by side, each in behaviours of its    *)
(* own: which flags a block may leave out, what the flags are, and where the  *)
(* cache keeps the blocks.                                                   *)
EXTENDS BlockCompiler, FlagMath, JitCache

\* Blocks: one instruction for every way flags are written, kept or read.
insn(kind, op, byte, mem, by, cc) ==
  [kind |-> kind, op |-> op, byte |-> byte, mem |-> mem, by |-> by, cc |-> cc]

MCInsns == {
  insn("ALU", "mov", FALSE, TRUE, "count", 0),
  insn("ALU", "add", FALSE, FALSE, "count", 0),
  insn("ALU", "sub", TRUE, FALSE, "count", 0),
  insn("ALU", "inc", FALSE, FALSE, "count", 0),
  insn("ALU", "logic", FALSE, FALSE, "count", 0),
  insn("SHIFT", "mov", FALSE, FALSE, "cl", 0),
  insn("SHIFT", "mov", FALSE, FALSE, "count", 0),
  insn("COMIS", "mov", FALSE, FALSE, "count", 0),
  insn("SETCC", "mov", FALSE, FALSE, "count", 1),
  insn("JCC", "mov", FALSE, FALSE, "count", 7),
  insn("JMP", "mov", FALSE, FALSE, "count", 0) }

\* Arithmetic: registers of four bits, bytes of two, an operation width between
\* them, and flags that were all off or all on before.
MCInline == {3, 4}
MCWide == {2, 3}
MCBefore == {{}, FlagNames}

\* The cache: two slots; two addresses that share one, one alone in the other,
\* and a stub.  The arena holds two or three small blocks.
MCAddrs == 0 .. 4
MCSlots == {"s", "t"}
MCSlotOf == [a \in MCAddrs |-> IF a \in {0, 1, 2} THEN "s" ELSE "t"]
MCStubs == {4}

VARIABLE part   \* the question that a behaviour is about

jitVars == <<part, vars, mathVars, cacheVars>>

JitInit ==
  /\ part \in {"block", "flags", "cache"}
  /\ Init
  /\ MathInit /\ (part # "flags" => flags = {})
  /\ CacheInit /\ (part # "cache" => exec = {} /\ rip = 0)
Block == part = "block" /\ Next /\ UNCHANGED <<part, mathVars, cacheVars>>
Arithmetic == part = "flags" /\ MathNext /\ UNCHANGED <<part, vars, cacheVars>>
Cache == part = "cache" /\ CacheNext /\ UNCHANGED <<part, vars, mathVars>>

JitSpec == JitInit /\ [][Block \/ Arithmetic \/ Cache]_jitVars
=============================================================================
