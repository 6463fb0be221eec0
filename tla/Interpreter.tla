---------------------------- MODULE Interpreter ----------------------------
(***************************************************************************)
(* The abstract machine: the guest's instructions, executed one by one by   *)
(* step() of cpu.c, and nothing else.  A run may be ended at any time.      *)
(* CheckMode is shown to implement this.                                   *)
(***************************************************************************)
EXTENDS GuestInsns

VARIABLES
  mem,      \* guest memory
  reg,      \* the registers
  fault,    \* c->fault # NULL
  stopped   \* the run was ended

vars == <<mem, reg, fault, stopped>>

Init == mem \in [Addr -> Byte] /\ reg \in Byte /\ fault = FALSE /\ stopped = FALSE

\* One turn of the loop in rsd_cpu_run() that interprets.
Step(o) ==
  /\ ~ fault /\ ~ stopped
  /\ mem' = MemAfter(o, mem, reg)
  /\ reg' = RegAfter(o, mem, reg)
  /\ fault' = Faults(o)
  /\ UNCHANGED stopped

Stop == ~ stopped /\ stopped' = TRUE /\ UNCHANGED <<mem, reg, fault>>

Next == Stop \/ \E o \in Insns : Step(o)

Spec == Init /\ [][Next]_vars
=============================================================================
