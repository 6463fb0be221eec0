------------------------------- MODULE Engine -------------------------------
(***************************************************************************)
(* The run loop of cpu.c and the two ways out of it and back: a guest call *)
(* to an import enters a native function, and a native function that was   *)
(* given a trampoline calls the guest back, which runs a second loop on    *)
(* the same rsd_cpu inside the first.                                      *)
(*                                                                         *)
(* Guest code is any code that keeps to the stack discipline of the ABI:   *)
(* it computes, calls, returns, exits, faults.  Registers are one value r  *)
(* and the flags another; the stack is a row of 8-byte slots that holds    *)
(* the return addresses.  Native functions do anything of their own, then  *)
(* return; meanwhile they may call every trampoline they were ever given.  *)
(***************************************************************************)
EXTENDS Integers, Sequences, SequencesExt

CONSTANTS
  Code,          \* addresses of guest instructions
  Imports,       \* stubs of imports that have a thunk
  Missing,       \* stubs of imports that have none
  CallbackMagic, \* RSD_CALLBACK_MAGIC
  ReturnMagic,   \* RSD_RETURN_MAGIC
  Wild,          \* any address that is not executable guest memory
  Values,        \* what the registers, or the flags, may hold
  Top,           \* the guest stack is slots 0 .. Top
  Gap,           \* 256 bytes, in slots: what a callback leaves below rsp
  TrampCount,    \* RSD_TRAMP_COUNT: 512
  Budget,        \* the instruction budget, 0 when there is none
  MaxBlock,      \* MAX_INSNS: instructions in a compiled block
  UseJit,        \* -j
  CallsBack,     \* whether native functions call trampolines
  MaxNative      \* bound: native calls nested in one another

Targets == Code \cup Imports \cup Missing \cup {CallbackMagic, ReturnMagic, Wild}
Machine == [r : Values, fl : Values, sp : Int, rip : Targets]

\* Where guest code may go of its own: code, stubs, and by mistake anywhere else.
Places == Code \cup Imports \cup Missing
Goals == Places \cup {Wild}

Faults == {"memory", "import", "opcode", "budget"}

ASSUME EngineAssumption ==
  /\ Top \in Nat /\ Gap \in Nat \ {0} /\ TrampCount \in Nat /\ MaxNative \in Nat
  /\ Budget \in Nat /\ MaxBlock \in Nat \ {0}
  /\ UseJit \in BOOLEAN /\ CallsBack \in BOOLEAN

ASSUME AddressAssumption ==
  /\ CallbackMagic # ReturnMagic /\ Wild \notin {CallbackMagic, ReturnMagic}
  /\ \A a \in Code \cup Imports \cup Missing : a \notin {CallbackMagic, ReturnMagic, Wild}
  /\ Code \cap (Imports \cup Missing) = {} /\ Imports \cap Missing = {}

VARIABLES
  m,        \* r, xmm, flags, rip and rsp of rsd_cpu
  mem,      \* the guest stack
  running,  \* c->running
  fault,    \* c->fault, "none" for NULL
  exited,   \* whether the guest has called exit or returned from main
  icount,   \* c->icount, as far as a block can take it past the budget
  targets,  \* the trampolines handed out: targets[0 .. used-1] of callback.c
  given,    \* history: the functions passed to native code, each with the number
            \* of the trampoline that took its place
  nat,      \* native functions on the host stack; each remembers the machine
            \* and the return address the guest called it with
  cbs       \* activations of rsd_guest_call on the host stack: what each saved

vars == <<m, mem, running, fault, exited, icount, targets, given, nat, cbs>>

\* The host stack alternates: rsd_cpu_run, a native function, rsd_guest_call,
\* a native function...  Guest code runs when a loop is on top.
InGuest == Len(nat) = Len(cbs)
Outer == nat = << >>
Stopped == Outer /\ ~ running

-----------------------------------------------------------------------------
(* Memory and faults.                                                      *)

\* ld() and st() on the stack.  Below slot 0 lies memory that refuses both.
InStack(a) == a \in 0 .. Top
Loaded(a) == IF InStack(a) THEN mem[a] ELSE Wild
Stored_Unchecked(a, v) == [k \in (0 .. Top) \cup {a} |-> IF k = a THEN v ELSE mem[k]]
Stored(a, v) == IF InStack(a) THEN [mem EXCEPT ![a] = v] ELSE mem

\* memfault() keeps the first fault; the other aborts overwrite it.
memfault == IF fault = "none" THEN "memory" ELSE fault

-----------------------------------------------------------------------------
(* The two loops.  After step() both count the instruction; only the outer *)
(* one looks at the budget, and when interpreting only for equality.       *)

\* Bound: counting stops where neither engine should ever get.
Capped(n) == IF n > Budget + MaxBlock THEN Budget + MaxBlock ELSE n

\* `ok` and `why` are c->running and c->fault as step() left them.
Tally_Late(ok, why) ==
  LET out == cbs = << >> /\ Budget # 0 /\ icount = Budget
  IN  /\ icount' = Capped(icount + 1)
      /\ running' = (ok /\ ~ out)
      /\ fault' = IF out THEN "budget" ELSE why
Tally_NoBudget(ok, why) ==
  icount' = Capped(icount + 1) /\ running' = ok /\ fault' = why
Tally(ok, why) ==
  LET out == cbs = << >> /\ Budget # 0 /\ icount + 1 = Budget
  IN  /\ icount' = Capped(icount + 1)
      /\ running' = (ok /\ ~ out)
      /\ fault' = IF out THEN "budget" ELSE why

Interpreting == InGuest /\ running

\* step(): a guest callback finished.
StepCallbackMagic ==
  /\ Interpreting /\ m.rip = CallbackMagic
  /\ Tally(FALSE, fault)
  /\ UNCHANGED <<m, mem, exited, targets, given, nat, cbs>>

\* step(): main() returned.
StepReturnMagic ==
  /\ Interpreting /\ m.rip = ReturnMagic
  /\ exited' = TRUE
  /\ Tally(FALSE, fault)
  /\ UNCHANGED <<m, mem, targets, given, nat, cbs>>

\* rsd_callback_for(): the trampoline of g, a new one when it has none yet;
\* NULL, and nothing recorded, when all are taken.
rsd_callback_for_Reuse(g) ==
  IF Contains(targets, g) THEN targets
  ELSE IF Len(targets) = TrampCount THEN ReplaceAt(targets, 1, g) ELSE Append(targets, g)
rsd_callback_for(g) ==
  IF Contains(targets, g) \/ Len(targets) = TrampCount THEN targets ELSE Append(targets, g)
Trampolines(s, g) == {i \in 1 .. Len(s) : s[i] = g}

\* step() on a stub with a thunk: call_native().  One argument may be a guest
\* function, or a stub, which is replaced by its trampoline, or by NULL when there
\* are none left; then the native code runs.
StepImport ==
  /\ Interpreting /\ m.rip \in Imports
  /\ Len(nat) < MaxNative
  /\ \/ UNCHANGED <<targets, given>>
     \/ CallsBack /\ \E g \in Goals :
          /\ targets' = rsd_callback_for(g)
          /\ given' = given \cup [fn : {g}, tramp : Trampolines(targets', g)]
  /\ nat' = Append(nat, [m |-> m, ret |-> Loaded(m.sp)])
  /\ UNCHANGED <<m, mem, running, fault, exited, icount, cbs>>

\* call_native_variadic() on a call it cannot forward: the format string is
\* not readable, by ld() or at all, or asks for what is not supported, which
\* stops the guest only when no fault has been recorded before.
StepCannotForward ==
  /\ Interpreting /\ m.rip \in Imports
  /\ \/ Tally(FALSE, memfault)
     \/ Tally(FALSE, "import")
     \/ fault # "none" /\ Tally(TRUE, fault)
  /\ UNCHANGED <<m, mem, exited, targets, given, nat, cbs>>

\* step() on a stub without one, and outside executable guest memory.
StepMissing ==
  /\ Interpreting /\ m.rip \in Missing
  /\ Tally(FALSE, "import")
  /\ UNCHANGED <<m, mem, exited, targets, given, nat, cbs>>

StepNotExecutable ==
  /\ Interpreting /\ m.rip = Wild
  /\ Tally(FALSE, memfault)
  /\ UNCHANGED <<m, mem, exited, targets, given, nat, cbs>>

-----------------------------------------------------------------------------
(* What one instruction does to the machine, by either engine.             *)

Compute == \E v \in Values, w \in Values, a \in Goals : m' = [m EXCEPT !.r = v, !.fl = w, !.rip = a]
Called(to) == [m EXCEPT !.sp = m.sp - 1, !.rip = to]
Returned == [m EXCEPT !.sp = m.sp + 1, !.rip = Loaded(m.sp)]

\* Moves, arithmetic, jumps, the system calls that come back.
StepCompute ==
  /\ Interpreting /\ m.rip \in Code
  /\ Compute
  /\ Tally(TRUE, fault)
  /\ UNCHANGED <<mem, exited, targets, given, nat, cbs>>

\* call: the return address is stored below rsp.
StepCall ==
  /\ Interpreting /\ m.rip \in Code
  /\ \E to \in Goals, back \in Code :
       /\ m' = Called(to)
       /\ mem' = Stored(m.sp - 1, back)
  /\ IF InStack(m.sp - 1) THEN Tally(TRUE, fault) ELSE Tally(FALSE, memfault)
  /\ UNCHANGED <<exited, targets, given, nat, cbs>>

StepRet ==
  /\ Interpreting /\ m.rip \in Code
  /\ m' = Returned
  /\ IF InStack(m.sp) THEN Tally(TRUE, fault) ELSE Tally(FALSE, memfault)
  /\ UNCHANGED <<mem, exited, targets, given, nat, cbs>>

\* An opcode or a system call that is not implemented, or a data access that
\* is refused, after which the rest of the instruction is carried out.
StepFault ==
  /\ Interpreting /\ m.rip \in Code
  /\ \/ Tally(FALSE, "opcode") /\ UNCHANGED m
     \/ Tally(FALSE, memfault) /\ Compute
  /\ UNCHANGED <<mem, exited, targets, given, nat, cbs>>

\* do_syscall(): exit.  rip is behind the instruction by then.
StepExit ==
  /\ Interpreting /\ m.rip \in Code
  /\ exited' = TRUE
  /\ \E a \in Goals : m' = [m EXCEPT !.rip = a]
  /\ Tally(FALSE, fault)
  /\ UNCHANGED <<mem, targets, given, nat, cbs>>

\* run_block(): the outer loop enters compiled code, which computes and may
\* end in a call or a return, or leaves at a fault; a call has moved rsp before
\* its store is refused.  All instructions of the block are counted, and only
\* then is the budget looked at, with >=.
RunBlock ==
  /\ UseJit /\ Outer /\ running /\ m.rip \in Code
  /\ \E n \in 2 .. MaxBlock, faults \in BOOLEAN :
       LET out == Budget # 0 /\ icount + n >= Budget
           why == IF faults THEN memfault ELSE fault
       IN  /\ icount' = Capped(icount + n)
           /\ running' = (~ faults /\ ~ out)
           /\ fault' = IF out THEN "budget" ELSE why
           /\ \/ Compute /\ UNCHANGED mem
              \/ /\ faults = ~ InStack(m.sp - 1)
                 /\ \E to \in Goals, back \in Code :
                      m' = Called(to) /\ mem' = Stored(m.sp - 1, back)
              \/ InStack(m.sp) /\ ~ faults /\ m' = Returned /\ UNCHANGED mem
  /\ UNCHANGED <<exited, targets, given, nat, cbs>>

-----------------------------------------------------------------------------
(* Native code.                                                            *)

\* Where the frame of a callback goes: below the guest's stack pointer, with
\* 16-byte alignment, one slot holding the return address.
CallbackSp_AtRsp(sp) == sp
CallbackSp(sp) == (sp - Gap) - ((sp - Gap) % 2) - 1

\* rsd_guest_call(), up to its loop: everything is saved, the arguments are
\* loaded, the return address stored; c->running is set whatever happened.
GuestCall_ReturnMagic ==
  /\ CallsBack /\ ~ InGuest
  /\ \E h \in given, arg \in Values :
       LET sp == CallbackSp(m.sp)
       IN  /\ m' = [m EXCEPT !.r = arg, !.sp = sp, !.rip = targets[h.tramp]]
           /\ mem' = Stored(sp, ReturnMagic)
           /\ fault' = IF InStack(sp) THEN fault ELSE memfault
  /\ running' = TRUE
  /\ cbs' = Append(cbs, m)
  /\ UNCHANGED <<exited, icount, targets, given, nat>>
GuestCall ==
  /\ CallsBack /\ ~ InGuest
  /\ \E h \in given, arg \in Values :
       LET sp == CallbackSp(m.sp)
       IN  /\ m' = [m EXCEPT !.r = arg, !.sp = sp, !.rip = targets[h.tramp]]
           /\ mem' = Stored(sp, CallbackMagic)
           /\ fault' = IF InStack(sp) THEN fault ELSE memfault
  /\ running' = TRUE
  /\ cbs' = Append(cbs, m)
  /\ UNCHANGED <<exited, icount, targets, given, nat>>

\* rsd_guest_call(), after its loop: the machine is put back, and only a
\* fault keeps the guest stopped.
GuestCallEnd_FlagsKept ==
  /\ InGuest /\ cbs # << >> /\ ~ running
  /\ m' = [Last(cbs) EXCEPT !.fl = m.fl]
  /\ running' = (fault = "none")
  /\ cbs' = Front(cbs)
  /\ UNCHANGED <<mem, fault, exited, icount, targets, given, nat>>
GuestCallEnd_Running ==
  /\ InGuest /\ cbs # << >> /\ ~ running
  /\ m' = Last(cbs)
  /\ running' = TRUE
  /\ cbs' = Front(cbs)
  /\ UNCHANGED <<mem, fault, exited, icount, targets, given, nat>>
GuestCallEnd ==
  /\ InGuest /\ cbs # << >> /\ ~ running
  /\ m' = Last(cbs)
  /\ running' = (fault = "none")
  /\ cbs' = Front(cbs)
  /\ UNCHANGED <<mem, fault, exited, icount, targets, given, nat>>

\* The native function returns: finish_native_call() sets the result
\* registers and returns to the guest's caller, and step() is over.
NativeReturn ==
  /\ ~ InGuest
  /\ \E v \in Values : m' = [m EXCEPT !.r = v, !.sp = m.sp + 1, !.rip = Loaded(m.sp)]
  /\ nat' = Front(nat)
  /\ IF InStack(m.sp) THEN Tally(running, fault) ELSE Tally(FALSE, memfault)
  /\ UNCHANGED <<mem, exited, targets, given, cbs>>

-----------------------------------------------------------------------------
\* rsd_cpu_init() for an image with LC_MAIN: main() returns to a sentinel.
Init ==
  /\ mem = [a \in 0 .. Top |-> IF a = Top THEN ReturnMagic ELSE Wild]
  /\ m \in [r : Values, fl : Values, sp : {Top}, rip : Code]
  /\ running = TRUE /\ fault = "none" /\ exited = FALSE /\ icount = 0
  /\ targets = << >> /\ given = {} /\ nat = << >> /\ cbs = << >>

Next ==
  \/ StepCallbackMagic \/ StepReturnMagic \/ StepImport \/ StepCannotForward \/ StepMissing
  \/ StepNotExecutable \/ StepCompute \/ StepCall \/ StepRet \/ StepFault
  \/ StepExit \/ RunBlock \/ GuestCall \/ GuestCallEnd \/ NativeReturn

Spec == Init /\ [][Next]_vars

\* The host runs the loop as long as there is work, and native functions
\* that make no callbacks come back.
FairSpec == Spec /\ WF_vars(Next)

-----------------------------------------------------------------------------
(* Properties.                                                             *)

\* The variables have their types, and the host stack alternates.
TypeOK ==
  /\ m \in Machine /\ mem \in [0 .. Top -> Targets]
  /\ running \in BOOLEAN /\ fault \in Faults \cup {"none"} /\ exited \in BOOLEAN
  /\ icount \in Nat
  /\ targets \in Seq(Goals) /\ given \subseteq [fn : Goals, tramp : 1 .. Len(targets)]
  /\ cbs \in Seq(Machine)
  /\ nat \in Seq([m : Machine, ret : Targets])
  /\ Len(nat) - Len(cbs) \in 0 .. 1

\* A fault inside a callback is carried back and stops the outer run: back in
\* rsd_cpu_run, however many native functions and callbacks were in between,
\* a machine with a fault does not run.
FaultStopsOuterRun == Outer /\ fault # "none" => ~ running

\* A native function finds the machine, flags included, exactly as the guest
\* left it when it called, whatever callbacks it made meanwhile.
NativeUndisturbed == ~ InGuest => m = Last(nat).m

\* No callback overwrites the return address of a native call that is still
\* in progress, at any depth of nesting: it is there for finish_native_call.
ReturnsIntact == \A i \in 1 .. Len(nat) : nat[i].ret = Loaded(nat[i].m.sp)

\* Finishing a callback is not mistaken for the program finishing: the
\* sentinel of a callback is reached only inside one, that of main() never.
MagicMatchesLoop ==
  InGuest => /\ m.rip = CallbackMagic => cbs # << >>
             /\ m.rip = ReturnMagic => cbs = << >>

\* A trampoline leads to the function it was made for, for good: native code may
\* call any it was ever given, also after the pool has run out.  It runs out
\* only when TrampCount different functions were passed.
PoolSound ==
  /\ \A h \in given : targets[h.tramp] = h.fn
  /\ IsInjective(targets) /\ Len(targets) <= TrampCount

\* With a budget, and no callbacks, the outer run is over once it has counted so
\* many instructions.  The last turn of the loop may take it past the budget, by
\* less than a block; the interpreter alone never passes it.
BudgetStops ==
  Budget # 0 =>
    /\ Outer /\ running => icount < Budget
    /\ icount < Budget + MaxBlock
    /\ ~ UseJit => icount <= Budget

\* Once the guest has exited, the outer run is over.
ExitStops == Outer /\ exited => ~ running

\* With a budget, and native functions that do not call back, the run ends.
Terminates == <>Stopped

=============================================================================
