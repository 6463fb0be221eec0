----------------------------- MODULE GuestInsns -----------------------------
(***************************************************************************)
(* What a guest instruction does to memory when step() of cpu.c executes    *)
(* it.                                                                     *)
(*                                                                         *)
(* A byte is a number below Base.  The registers are one byte, the flags    *)
(* are left out, and instructions work byte by byte: what is told apart is  *)
(* which bytes are read and written, in which order, and from what.         *)
(***************************************************************************)
EXTENDS Integers, Sequences

CONSTANTS
  Top,        \* guest memory is the addresses below Top
  Base,       \* the number of values of a byte
  Half,       \* bytes in half an xmm register: 8
  readable,   \* addresses that access_ok() lets be read
  writable,   \* addresses that access_ok() lets be written
  Insns       \* the instructions of guest programs

Addr == 0 .. (Top - 1)
Byte == 0 .. (Base - 1)

\* load: reg = [addr];  mov: [addr] = reg by an opcode that shares its case
\* with the ALU instructions;  rmw: [addr] += reg;  put: a plain st(), as of
\* push, call, setcc and movsd;  put2: a st128().
Kinds == {"load", "mov", "rmw", "put", "put2"}
Insn == [kind : Kinds, addr : Addr, size : 1 .. (2 * Half)]

ASSUME InsnsAssumption ==
  /\ Top \in Nat \ {0} /\ Base \in Nat \ {0} /\ Half \in Nat \ {0}
  /\ readable \subseteq Addr /\ writable \subseteq Addr
  /\ Insns \subseteq Insn
  /\ \A o \in Insns : o.kind = "put2" => o.size = 2 * Half

-----------------------------------------------------------------------------
Bytes(a, n) == a .. (a + n - 1)

\* Of accesses that stay inside the regions; GuestMemory has the ones that run
\* out of them, which the code lets through.
access_ok(o, allowed) == Bytes(o.addr, o.size) \subseteq allowed

st(m, a, new) == [b \in Addr |-> IF b \in Bytes(a, Len(new)) THEN new[b - a + 1] ELSE m[b]]

\* Which instructions read their memory operand, and which write it.  A mov
\* reads the bytes it is about to overwrite, since its case in step() reads
\* the destination for all of its opcodes.
Reads(o) == o.kind \in {"load", "mov", "rmw"}
Writes(o) == o.kind # "load"

\* The bytes that o stores.  What could not be read counts as zero.
NewBytes(o, m, r) ==
  [k \in 1 .. o.size |->
     IF o.kind = "rmw" /\ access_ok(o, readable) THEN (m[o.addr + k - 1] + r) % Base ELSE r]

\* memfault() stops the guest but not the instruction, which goes on with a
\* zero for what it could not read, and may still write.
Stores(o) == Writes(o) /\ access_ok(o, writable)
Faults(o) == \/ Reads(o) /\ ~ access_ok(o, readable)
             \/ Writes(o) /\ ~ access_ok(o, writable)

MemAfter(o, m, r) == IF Stores(o) THEN st(m, o.addr, NewBytes(o, m, r)) ELSE m
RegAfter(o, m, r) == IF o.kind # "load" THEN r
                     ELSE IF access_ok(o, readable) THEN m[o.addr] ELSE 0
=============================================================================
