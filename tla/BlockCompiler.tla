---------------------------- MODULE BlockCompiler ----------------------------
(***************************************************************************)
(* How rsd_jit_lookup() of jit.c turns guest instructions into a block, and *)
(* which flags the block computes.  The instructions are decoded first; the *)
(* block is then walked backwards to find the flags each instruction must   *)
(* produce; then code is emitted, and when it does not fit the block is cut *)
(* short and both are done again.                                           *)
(*                                                                         *)
(* A compiled block runs here beside the interpreter, on the same           *)
(* instructions.  The value of a flag is the number of the instruction that *)
(* computed it, 0 for the value it had when the block was entered, so two   *)
(* engines agree on a flag exactly when it has the same value in both.      *)
(***************************************************************************)
EXTENDS Integers, Sequences

CONSTANTS
  Insns,      \* decoded instructions the guest code is made of
  MaxInsns    \* MAX_INSNS: 48

Flags == {"CF", "PF", "AF", "ZF", "SF", "OF"}
FL_ALL == Flags
FL_LOGIC == FL_ALL \ {"AF"}
FL_INC == FL_ALL \ {"CF"}

\* The kinds of decode(): the ALU forms K_RR .. K_MI are one kind here, the
\* kinds that touch no flags another, and the terminators are K_JCC and the
\* rest.  `by` tells the three kinds of shift count apart.
Terminators == {"JCC", "JMP"}
Kinds == {"ALU", "IMUL", "SHIFT", "SETCC", "COMIS", "OTHER"} \cup Terminators
Insn == [kind : Kinds,
         op   : {"mov", "add", "sub", "inc", "dec", "logic"},
         byte : BOOLEAN,                     \* size == 1
         mem  : BOOLEAN,                     \* accesses memory, so may fault
         by   : {"cl", "zero", "count"},
         cc   : 0 .. 7]                      \* the condition, without its sense

ASSUME BlockAssumption == Insns \subseteq Insn /\ MaxInsns \in Nat

VARIABLES
  phase,   \* what rsd_jit_lookup() or the engines are doing
  v,       \* the instructions of the block: v[0 .. count-1]
  ended,   \* whether the last one is a terminator
  i,       \* the instruction the present loop is at
  live,    \* live[k]: the flags live after instruction k
  need,    \* need[k]: v[k].fneed
  code,    \* the fneed each emitted instruction was compiled with
  jf, nf   \* the flags, as compiled code and as the interpreter have them

vars == <<phase, v, ended, i, live, need, code, jf, nf>>
count == Len(v)

-----------------------------------------------------------------------------
(* What an instruction does to the flags.                                  *)

terminates(o) == o.kind \in Terminators

cc_reads(cc) ==
  CASE cc = 0 -> {"OF"}
    [] cc = 1 -> {"CF"}
    [] cc = 2 -> {"ZF"}
    [] cc = 3 -> {"CF", "ZF"}
    [] cc = 4 -> {"SF"}
    [] cc = 5 -> {"PF"}
    [] cc = 6 -> {"SF", "OF"}
    [] OTHER -> {"ZF", "SF", "OF"}

\* The flags an instruction is certain to overwrite.
ALUWrites(op) ==
  CASE op = "mov" -> {}
    [] op \in {"add", "sub"} -> FL_ALL
    [] op \in {"inc", "dec"} -> FL_INC
    [] OTHER -> FL_LOGIC
flags_written_ByCl(o) ==
  CASE o.kind = "ALU" -> ALUWrites(o.op)
    [] o.kind = "IMUL" -> FL_LOGIC
    [] o.kind = "SHIFT" -> IF o.by = "zero" THEN {} ELSE FL_LOGIC
    [] OTHER -> {}
flags_written(o) ==
  CASE o.kind = "ALU" -> ALUWrites(o.op)
    [] o.kind = "IMUL" -> FL_LOGIC
    [] o.kind = "SHIFT" -> IF o.by \in {"cl", "zero"} THEN {} ELSE FL_LOGIC
    [] OTHER -> {}

flags_read(o) == IF o.kind \in {"JCC", "SETCC"} THEN cc_reads(o.cc) ELSE {}

\* What the interpreter overwrites; cl tells whether the count in cl is not 0.
InterpWrites(o, cl) ==
  CASE o.kind = "SHIFT" /\ o.by = "cl" -> IF cl THEN FL_LOGIC ELSE {}
    [] o.kind = "COMIS" -> FL_ALL
    [] OTHER -> flags_written(o)

\* What the code put_insn() emitted for it overwrites: put_flags() nothing
\* when no flag is needed, all of them through the helper for bytes, only the
\* needed ones in line; shifts and comis always go to the helper.
CompiledWrites(o, needed, cl) ==
  CASE o.kind \in {"ALU", "IMUL"} /\ ~ o.byte -> needed
    [] o.kind \in {"ALU", "IMUL"} /\ o.byte -> IF needed = {} THEN {} ELSE flags_written(o)
    [] OTHER -> InterpWrites(o, cl)

-----------------------------------------------------------------------------
(* Compiling.                                                              *)

\* The decoding loop: until a terminator, an instruction decode() does not
\* understand, code that is not executable, or MAX_INSNS of them.
Decode ==
  /\ phase = "decode" /\ count < MaxInsns
  /\ \E o \in Insns :
       /\ v' = Append(v, o)
       /\ ended' = terminates(o)
       /\ phase' = IF terminates(o) THEN "liveness" ELSE "decode"
  /\ i' = count + 1
  /\ live' = [k \in 0 .. (count + 1) |-> FL_ALL]
  /\ UNCHANGED <<need, code, jf, nf>>

DecodeStops ==
  /\ phase = "decode"
  /\ phase' = "liveness"
  /\ UNCHANGED <<v, ended, i, live, need, code, jf, nf>>

\* flag_liveness(): one iteration of the loop from the last instruction to
\* the first.  Everything is live where the block ends.
FlagLiveness_NoKill ==
  /\ phase = "liveness" /\ i > 0
  /\ need' = [k \in 1 .. count |->
                IF k = i THEN flags_written(v[i]) \cap live[i]
                ELSE IF k \in DOMAIN need THEN need[k] ELSE {}]
  /\ live' = [live EXCEPT ![i - 1] = live[i] \cup flags_read(v[i])]
  /\ i' = i - 1
  /\ UNCHANGED <<phase, v, ended, code, jf, nf>>
FlagLiveness ==
  /\ phase = "liveness" /\ i > 0
  /\ need' = [k \in 1 .. count |->
                IF k = i THEN flags_written(v[i]) \cap live[i]
                ELSE IF k \in DOMAIN need THEN need[k] ELSE {}]
  /\ live' = [live EXCEPT ![i - 1] = (live[i] \ flags_written(v[i])) \cup flags_read(v[i])]
  /\ i' = i - 1
  /\ UNCHANGED <<phase, v, ended, code, jf, nf>>

FlagLivenessEnds ==
  /\ phase = "liveness" /\ i = 0
  /\ phase' = "emit" /\ i' = 1 /\ code' = << >>
  /\ UNCHANGED <<v, ended, live, need, jf, nf>>

\* put_insn(): the code of instruction i fits.
Emit ==
  /\ phase = "emit" /\ i <= count
  /\ code' = Append(code, need[i])
  /\ i' = i + 1
  /\ UNCHANGED <<phase, v, ended, live, need, jf, nf>>

\* It does not fit: the block is cut before it, and now falls through; since
\* everything is live where it is cut, the flags are worked out again.
EmitOverflows_StaleFlags ==
  /\ phase = "emit" /\ i <= count
  /\ v' = SubSeq(v, 1, i - 1) /\ ended' = FALSE
  /\ live' = [k \in 0 .. (i - 1) |-> FL_ALL]
  /\ UNCHANGED <<phase, i, need, code, jf, nf>>
EmitOverflows_StillEnded ==
  /\ phase = "emit" /\ i <= count
  /\ v' = SubSeq(v, 1, i - 1)
  /\ live' = [k \in 0 .. (i - 1) |-> FL_ALL]
  /\ phase' = "liveness" /\ i' = i - 1
  /\ UNCHANGED <<ended, need, code, jf, nf>>
EmitOverflows ==
  /\ phase = "emit" /\ i <= count
  /\ v' = SubSeq(v, 1, i - 1) /\ ended' = FALSE
  /\ live' = [k \in 0 .. (i - 1) |-> FL_ALL]
  /\ phase' = "liveness" /\ i' = i - 1
  /\ UNCHANGED <<need, code, jf, nf>>

\* All emitted.  Blocks of fewer than two instructions, and ones whose exits
\* do not fit after all, are declined; the rest go to the cache.
Compiled ==
  /\ phase = "emit" /\ i = count + 1
  /\ \/ phase' = "declined"
     \/ count >= 2 /\ phase' = "compiled"
  /\ UNCHANGED <<v, ended, i, live, need, code, jf, nf>>

-----------------------------------------------------------------------------
(* Running.                                                                *)

Clean == [f \in Flags |-> 0]

\* run_block() enters the block; the interpreter would start where it does.
Enter ==
  /\ phase \in {"compiled", "left"}
  /\ phase' = "run" /\ i' = 1
  /\ jf' = Clean /\ nf' = Clean
  /\ UNCHANGED <<v, ended, live, need, code>>

Written(fl, W, k) == [f \in Flags |-> IF f \in W THEN k ELSE fl[f]]

\* One instruction, in both engines.
Run ==
  /\ phase = "run" /\ i <= count
  /\ \E cl \in BOOLEAN :
       /\ jf' = Written(jf, CompiledWrites(v[i], code[i], cl), i)
       /\ nf' = Written(nf, InterpWrites(v[i], cl), i)
  /\ i' = i + 1
  /\ UNCHANGED <<phase, v, ended, live, need, code>>

\* A memory access is refused: put_fault_check() leaves the block at once.
RunFaults ==
  /\ phase = "run" /\ i <= count /\ v[i].mem
  /\ phase' = "faulted"
  /\ UNCHANGED <<v, ended, i, live, need, code, jf, nf>>

Leave ==
  /\ phase = "run" /\ i = count + 1
  /\ phase' = "left"
  /\ UNCHANGED <<v, ended, i, live, need, code, jf, nf>>

Init ==
  /\ phase = "decode" /\ v = << >> /\ ended = FALSE /\ i = 0
  /\ live = [k \in 0 .. 0 |-> FL_ALL] /\ need = << >> /\ code = << >>
  /\ jf = Clean /\ nf = Clean

Next ==
  \/ Decode \/ DecodeStops \/ FlagLiveness \/ FlagLivenessEnds \/ Emit \/ EmitOverflows
  \/ Compiled \/ Enter \/ Run \/ RunFaults \/ Leave

Spec == Init /\ [][Next]_vars

-----------------------------------------------------------------------------
(* Properties.                                                             *)

\* The variables have their types.
TypeOK ==
  /\ phase \in {"decode", "liveness", "emit", "compiled", "declined", "run", "faulted", "left"}
  /\ v \in Seq(Insns) /\ count <= MaxInsns /\ ended \in BOOLEAN
  /\ i \in 0 .. (count + 1)
  /\ live \in [0 .. count -> SUBSET Flags]
  /\ code \in Seq(SUBSET Flags)
  /\ jf \in [Flags -> Nat] /\ nf \in [Flags -> Nat]

\* A conditional jump or a setcc decides on the same flags in compiled code
\* as in the interpreter, however many instructions skipped theirs before.
ReadersAgree ==
  phase = "run" /\ i <= count => \A f \in flags_read(v[i]) : jf[f] = nf[f]

\* Where the block ends every flag is as the interpreter would have left it,
\* for the next block or the interpreter may read any.
ExitAgrees == phase = "left" => jf = nf

\* No flag is computed that nothing can read: instruction k produces a flag
\* exactly when some later reader, or the end of the block, comes before the
\* next instruction that is certain to overwrite it.
NeedExact ==
  phase = "compiled" =>
    \A k \in 1 .. count :
      code[k] = {f \in flags_written(v[k]) :
                   \E j \in (k + 1) .. (count + 1) :
                     /\ j = count + 1 \/ f \in flags_read(v[j])
                     /\ \A l \in (k + 1) .. (j - 1) : f \notin flags_written(v[l])}

\* A block knows how it ends: it has a terminator exactly when `ended` says
\* so, in last place; otherwise it gets code to go on after its last
\* instruction.  A cut must not lose this.
EndKnown ==
  phase = "compiled" => \A k \in 1 .. count : terminates(v[k]) <=> (k = count /\ ended)

=============================================================================
