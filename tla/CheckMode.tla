----------------------------- MODULE CheckMode -----------------------------
(***************************************************************************)
(* rashid -J: run_block() of cpu.c runs the compiled block, undoes what it  *)
(* wrote, runs the interpreter over the same instructions from the same     *)
(* state, and compares registers, logged writes and the bytes around them.  *)
(*                                                                         *)
(* Compiled code may be wrong: it may do other instructions than the        *)
(* guest's, and store more bytes than it logs (slip).                       *)
(***************************************************************************)
EXTENDS GuestInsns

CONSTANTS
  Window,     \* the bytes kept from the address of a write: 16
  guest,      \* addresses in regions of the guest's, for rsd_as_ok()
  LogMax,     \* RSD_WLOG_MAX
  MaxInsns,   \* MAX_INSNS
  Code        \* what compiled code may do for one instruction

ASSUME CheckAssumption ==
  /\ Window \in Nat /\ Window >= 2 * Half
  /\ guest \subseteq readable
  /\ MaxInsns \in Nat /\ LogMax \in Nat /\ LogMax >= 2 * MaxInsns
  /\ Code \subseteq [kind : Kinds, addr : Addr, size : 1 .. (2 * Half), slip : Nat]
  /\ \A o \in Code : o.kind = "put2" => o.size = 2 * Half

VARIABLES
  mem, reg, fault,  \* as in Interpreter
  phase,            \* where run_block() is
  insns, code,      \* the block, and its translation
  i,                \* instructions done, or log entries still to undo
  jit_log, int_log, \* the write logs
  jit_over,         \* jit_log.overflow
  int_over,         \* int_log.overflow
  before,           \* rsd_cpu before
  after,            \* rsd_cpu after
  windows,          \* the "after" bytes of jit_log
  mem0, mem1        \* history: memory before the block and as compiled code left it

vars == <<mem, reg, fault, phase, insns, code, i, jit_log, int_log, jit_over,
          int_over, before, after, windows, mem0, mem1>>

-----------------------------------------------------------------------------
(* log_write()                                                             *)

\* The bytes kept around a write: as many as are all guest memory, or its own.
span(a, size) == IF Bytes(a, Window) \subseteq guest THEN Window ELSE size

Slice(m, a, n) == [k \in 1 .. n |-> m[a + k - 1]]

Entry(m, a, size, val) ==
  [addr |-> a, size |-> size, val |-> val, before |-> Slice(m, a, span(a, size))]

log_write(log, e) == IF Len(log) >= LogMax THEN log ELSE Append(log, e)

\* st() logs one write, st128() one for each half before it writes either.
Logged(log, o, m, new) ==
  IF o.kind = "put2"
  THEN log_write(log_write(log, Entry(m, o.addr, Half, SubSeq(new, 1, Half))),
                 Entry(m, o.addr + Half, Half, SubSeq(new, Half + 1, 2 * Half)))
  ELSE log_write(log, Entry(m, o.addr, o.size, new))

Entries(o) == IF o.kind = "put2" THEN 2 ELSE 1
Overflows(log, o) == Len(log) + Entries(o) > LogMax

-----------------------------------------------------------------------------
(* The compiled block: a load or store that is refused leaves the block at *)
(* once, and a mov does not read what it overwrites.                       *)

JitReads(o) == o.kind \in {"load", "rmw"}
JitFaults(o) == \/ JitReads(o) /\ ~ access_ok(o, readable)
                \/ Writes(o) /\ ~ access_ok(o, writable)

\* The store that is emitted, with the bytes it writes beyond the logged ones.
JitMem(o, m, r) ==
  LET wide == st(m, o.addr, NewBytes(o, m, r))
  IN  [b \in Addr |-> IF b \in Bytes(o.addr + o.size, o.slip) THEN r ELSE wide[b]]

\* Compiled code stores nothing outside the bytes kept for its log entry.
Contained(o) == o.slip > 0 => o.kind # "put2" /\ o.size + o.slip <= span(o.addr, o.size)

Enter(block, emitted) ==
  /\ phase = "idle" /\ ~ fault
  /\ phase' = "compiled" /\ insns' = block /\ code' = emitted /\ i' = 0
  /\ before' = reg /\ mem0' = mem
  /\ jit_log' = <<>> /\ jit_over' = FALSE
  /\ UNCHANGED <<mem, reg, fault, int_log, int_over, after, windows, mem1>>

JitStep ==
  /\ phase = "compiled" /\ i < Len(code) /\ ~ fault
  /\ LET o == code[i + 1]
         writes == Writes(o) /\ ~ JitFaults(o)
     IN  /\ fault' = JitFaults(o)
         /\ reg' = IF JitFaults(o) THEN reg ELSE RegAfter(o, mem, reg)
         /\ mem' = IF writes THEN JitMem(o, mem, reg) ELSE mem
         /\ jit_log' = IF writes THEN Logged(jit_log, o, mem, NewBytes(o, mem, reg)) ELSE jit_log
         /\ jit_over' = (jit_over \/ (writes /\ Overflows(jit_log, o)))
  /\ i' = i + 1
  /\ UNCHANGED <<phase, insns, code, int_log, int_over, before, after, windows, mem0, mem1>>

\* The block is left; what it did is kept for the comparison.
JitLeave ==
  /\ phase = "compiled" /\ (i = Len(code) \/ fault)
  /\ phase' = "undo" /\ i' = Len(jit_log)
  /\ after' = [reg |-> reg, fault |-> fault]
  /\ windows' = [k \in 1 .. Len(jit_log) |->
                   Slice(mem, jit_log[k].addr, Len(jit_log[k].before))]
  /\ mem1' = mem
  /\ UNCHANGED <<mem, reg, fault, insns, code, jit_log, int_log, jit_over, int_over,
                 before, mem0>>

-----------------------------------------------------------------------------
(* undo_writes(), from the last write to the first, and "*c = before".     *)

Undone_OwnBytes(e) == st(mem, e.addr, SubSeq(e.before, 1, e.size))
Undone(e) == st(mem, e.addr, e.before)

UndoWrite_Forward ==
  /\ phase = "undo" /\ i > 0
  /\ mem' = Undone(jit_log[Len(jit_log) + 1 - i])
  /\ i' = i - 1
  /\ UNCHANGED <<reg, fault, phase, insns, code, jit_log, int_log, jit_over, int_over,
                 before, after, windows, mem0, mem1>>
UndoWrite ==
  /\ phase = "undo" /\ i > 0
  /\ mem' = Undone(jit_log[i])
  /\ i' = i - 1
  /\ UNCHANGED <<reg, fault, phase, insns, code, jit_log, int_log, jit_over, int_over,
                 before, after, windows, mem0, mem1>>

Rewind_KeepsReg ==
  /\ phase = "undo" /\ i = 0
  /\ phase' = "replay"
  /\ fault' = FALSE
  /\ int_log' = <<>> /\ int_over' = FALSE
  /\ UNCHANGED <<mem, reg, insns, code, i, jit_log, jit_over, before, after, windows, mem0, mem1>>
Rewind ==
  /\ phase = "undo" /\ i = 0
  /\ phase' = "replay"
  /\ reg' = before /\ fault' = FALSE
  /\ int_log' = <<>> /\ int_over' = FALSE
  /\ UNCHANGED <<mem, insns, code, i, jit_log, jit_over, before, after, windows, mem0, mem1>>

-----------------------------------------------------------------------------
(* The interpreter over the same instructions, and the comparison.         *)

Replay ==
  /\ phase = "replay" /\ i < Len(insns) /\ ~ fault
  /\ LET o == insns[i + 1]
     IN  /\ mem' = MemAfter(o, mem, reg)
         /\ reg' = RegAfter(o, mem, reg)
         /\ fault' = Faults(o)
         /\ int_log' = IF Stores(o) THEN Logged(int_log, o, mem, NewBytes(o, mem, reg)) ELSE int_log
         /\ int_over' = (int_over \/ (Stores(o) /\ Overflows(int_log, o)))
  /\ i' = i + 1
  /\ UNCHANGED <<phase, insns, code, jit_log, jit_over, before, after, windows, mem0, mem1>>

SameRegisters ==
  \/ after.fault /\ fault
  \/ ~ after.fault /\ ~ fault /\ reg = after.reg

\* The logs are compared entry by entry, and the bytes around each write as
\* each engine left them, unless the log of the compiled block is incomplete.
SameWrites ==
  /\ jit_over \/ int_over \/ Len(jit_log) = Len(int_log)
  /\ ~ jit_over => \A k \in 1 .. Len(jit_log) :
       /\ jit_log[k].addr = int_log[k].addr
       /\ jit_log[k].size = int_log[k].size
       /\ jit_log[k].val = int_log[k].val

SameWindows_Unchecked == TRUE
SameWindows ==
  ~ jit_over => \A k \in 1 .. Len(jit_log) :
    windows[k] = Slice(mem, jit_log[k].addr, Len(windows[k]))

Compare ==
  /\ phase = "replay" /\ (i = Len(insns) \/ fault)
  /\ phase' = IF SameRegisters /\ SameWrites /\ SameWindows THEN "agree" ELSE "disagree"
  /\ UNCHANGED <<mem, reg, fault, insns, code, i, jit_log, int_log, jit_over, int_over,
                 before, after, windows, mem0, mem1>>

\* run_block() returns; its locals are gone, and the logs mean nothing until
\* the next block resets them.
Return ==
  /\ phase = "agree"
  /\ phase' = "idle" /\ insns' = <<>> /\ code' = <<>> /\ i' = 0
  /\ jit_log' = <<>> /\ int_log' = <<>> /\ jit_over' = FALSE /\ int_over' = FALSE
  /\ before' = reg /\ after' = [reg |-> reg, fault |-> FALSE] /\ windows' = <<>>
  /\ mem0' = mem /\ mem1' = mem
  /\ UNCHANGED <<mem, reg, fault>>

-----------------------------------------------------------------------------
Init ==
  /\ mem \in [Addr -> Byte] /\ reg \in Byte /\ fault = FALSE
  /\ phase = "idle" /\ insns = <<>> /\ code = <<>> /\ i = 0
  /\ jit_log = <<>> /\ int_log = <<>> /\ jit_over = FALSE /\ int_over = FALSE
  /\ before = reg /\ after = [reg |-> reg, fault |-> FALSE] /\ windows = <<>>
  /\ mem0 = mem /\ mem1 = mem

\* A block is as many instructions as the code that was compiled from it.
RunBlock ==
  \E n \in 1 .. MaxInsns :
    \E block \in [1 .. n -> Insns], emitted \in [1 .. n -> {o \in Code : Contained(o)}] :
      Enter(block, emitted)

Next == RunBlock \/ JitStep \/ JitLeave \/ UndoWrite \/ Rewind \/ Replay \/ Compare \/ Return

Spec == Init /\ [][Next]_vars

-----------------------------------------------------------------------------
(* Properties.                                                             *)

\* undo_writes() gives back the memory the block found, byte for byte, however
\* its writes overlapped, and whatever they wrote beyond the logged bytes.
UndoExact == phase = "undo" /\ i = 0 => mem = mem0

\* A block that passes the comparison left memory exactly as the interpreter
\* does, stores that were wider than their log entries included.
AgreeMeansEqual == phase = "agree" => mem = mem1

\* Code that does what the guest's instructions say is reported only in one
\* case: memory the guest may write and not read.  There the interpreter
\* faults on reading what a mov or an ALU instruction overwrites.
WriteOnly(o) == o.kind \in {"mov", "rmw"} /\ access_ok(o, writable) /\ ~ access_ok(o, readable)
RightCode ==
  \A k \in 1 .. Len(code) :
    code[k] = [kind |-> insns[k].kind, addr |-> insns[k].addr, size |-> insns[k].size, slip |-> 0]
NoFalseAlarm ==
  phase = "disagree" /\ RightCode => \E k \in 1 .. Len(insns) : WriteOnly(insns[k])

\* Checking is invisible: but for stopping when the engines disagree, the guest
\* runs as if the interpreter executed it one instruction at a time.
Checking == phase \in {"compiled", "undo"}
Interp == INSTANCE Interpreter WITH
  mem <- IF Checking THEN mem0 ELSE mem,
  reg <- IF Checking THEN before ELSE reg,
  fault <- ~ Checking /\ fault,
  stopped <- (phase = "disagree")
Invisible == Interp!Spec
=============================================================================
