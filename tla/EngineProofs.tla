---------------------------- MODULE EngineProofs ----------------------------
(***************************************************************************)
(* Theorems about Engine, for every guest, stack size, gap, budget, pool   *)
(* and depth of nesting.                                                   *)
(***************************************************************************)
EXTENDS Engine, SequenceTheorems, TLAPS

-----------------------------------------------------------------------------
(* Types.                                                                  *)

\* Taking the last element off a sequence, and putting one on.
LEMMA FrontLast ==
  ASSUME NEW S, NEW s \in Seq(S), s # << >>
  PROVE  /\ Front(s) \in Seq(S) /\ Len(Front(s)) = Len(s) - 1 /\ Len(s) >= 1
         /\ \A i \in 1 .. (Len(s) - 1) : Front(s)[i] = s[i]
         /\ Last(s) = s[Len(s)] /\ Last(s) \in S
<1>1. Len(s) \in Nat /\ Len(s) >= 1
  BY EmptySeq
<1>2. Front(s) = [i \in 1 .. (Len(s) - 1) |-> s[i]]
  BY <1>1 DEF Front
<1> QED
  BY <1>1, <1>2 DEF Last

\* Loads and stores of the stack stay within their types.
LEMMA StackType ==
  ASSUME TypeOK, NEW a \in Int, NEW v \in Targets
  PROVE  Loaded(a) \in Targets /\ Stored(a, v) \in [0 .. Top -> Targets]
BY DEF TypeOK, Loaded, Stored, InStack, Targets

LEMMA TallyType ==
  ASSUME TypeOK, NEW ok \in BOOLEAN, NEW why \in Faults \cup {"none"}, Tally(ok, why)
  PROVE  icount' \in Nat /\ running' \in BOOLEAN /\ fault' \in Faults \cup {"none"}
BY EngineAssumption DEF TypeOK, Tally, Capped, Faults

\* So do the effects of one instruction on the machine.
LEMMA EffectType ==
  ASSUME TypeOK
  PROVE  /\ m.sp \in Int /\ m.rip \in Targets /\ Loaded(m.sp) \in Targets
         /\ Compute => m' \in Machine
         /\ \A a \in Goals : [m EXCEPT !.rip = a] \in Machine
         /\ \A to \in Goals : Called(to) \in Machine
         /\ Returned \in Machine
         /\ \A v \in Values : [m EXCEPT !.r = v, !.sp = m.sp + 1, !.rip = Loaded(m.sp)] \in Machine
<1>1. m \in Machine
  BY DEF TypeOK
<1>2. m.sp \in Int /\ m.rip \in Targets /\ m.sp + 1 \in Int /\ m.sp - 1 \in Int
  BY <1>1 DEF Machine
<1>3. Loaded(m.sp) \in Targets
  BY <1>2, StackType DEF Targets
<1>4. \A a \in Goals : a \in Targets
  BY DEF Goals, Places, Targets
<1>5. ASSUME Compute PROVE m' \in Machine
  <2>1. PICK v \in Values, w \in Values, a \in Goals : m' = [m EXCEPT !.r = v, !.fl = w, !.rip = a]
    BY <1>5 DEF Compute
  <2> QED
    BY <1>1, <1>4, <2>1 DEF Machine
<1>9. ASSUME NEW a \in Goals PROVE [m EXCEPT !.rip = a] \in Machine
  BY <1>1, <1>4 DEF Machine
<1>6. ASSUME NEW to \in Goals PROVE Called(to) \in Machine
  BY <1>1, <1>2, <1>4 DEF Called, Machine
<1>7. Returned \in Machine
  BY <1>1, <1>2, <1>3 DEF Returned, Machine
<1>8. ASSUME NEW v \in Values
      PROVE  [m EXCEPT !.r = v, !.sp = m.sp + 1, !.rip = Loaded(m.sp)] \in Machine
  BY <1>1, <1>2, <1>3 DEF Machine
<1> QED
  BY <1>2, <1>3, <1>5, <1>6, <1>7, <1>8, <1>9

\* A trampoline that was handed out stays where it is.
LEMMA PoolGrows ==
  ASSUME TypeOK, NEW g \in Goals
  PROVE  LET s == rsd_callback_for(g)
         IN  /\ s \in Seq(Goals) /\ Len(s) \in Nat /\ Len(s) >= Len(targets)
             /\ \A i \in 1 .. Len(targets) : s[i] = targets[i]
<1>0. targets \in Seq(Goals) /\ Len(targets) \in Nat
  BY DEF TypeOK
<1>1. CASE Contains(targets, g) \/ Len(targets) = TrampCount
  BY <1>0, <1>1 DEF rsd_callback_for
<1>2. CASE ~ (Contains(targets, g) \/ Len(targets) = TrampCount)
  <2>1. rsd_callback_for(g) = Append(targets, g)
    BY <1>2 DEF rsd_callback_for
  <2> QED
    BY <1>0, <2>1, AppendProperties
<1> QED
  BY <1>1, <1>2

LEMMA CallbackSpBelow ==
  ASSUME NEW sp \in Int
  PROVE  CallbackSp(sp) \in Int /\ CallbackSp(sp) + 1 < sp
<1>1. Gap \in Int /\ Gap >= 1
  BY EngineAssumption
<1> DEFINE x == sp - Gap
<1>2. x \in Int /\ x < sp
  BY <1>1
<1> HIDE DEF x
<1>3. x % 2 \in 0 .. 1
  BY <1>2
<1>4. CallbackSp(sp) = x - (x % 2) - 1
  BY DEF CallbackSp, x
<1> QED
  BY <1>2, <1>3, <1>4

\* A trampoline that was passed on is one of the pool's.
LEMMA GivenLeads ==
  ASSUME TypeOK, NEW h \in given
  PROVE  h.tramp \in 1 .. Len(targets) /\ targets[h.tramp] \in Goals
<1>1. targets \in Seq(Goals) /\ h \in [fn : Goals, tramp : 1 .. Len(targets)]
  BY DEF TypeOK
<1>2. h.tramp \in 1 .. Len(targets)
  BY <1>1
<1> QED
  BY <1>1, <1>2, ElementOfSeq

LEMMA EngineTypeInductive == TypeOK /\ [Next]_vars => TypeOK'
<1> SUFFICES ASSUME TypeOK, [Next]_vars PROVE TypeOK'
  OBVIOUS
<1>m. memfault \in Faults \cup {"none"} /\ memfault # "none" /\ fault \in Faults \cup {"none"}
  BY DEF TypeOK, memfault, Faults
<1>p. /\ Goals \subseteq Targets /\ Code \subseteq Targets /\ Code \subseteq Places
      /\ CallbackMagic \in Targets /\ Wild \in Targets
  BY DEF Goals, Places, Targets
<1>0. CASE UNCHANGED vars
  BY <1>0 DEF TypeOK, vars
<1>1. CASE StepCallbackMagic \/ StepReturnMagic \/ StepMissing \/ StepNotExecutable \/ StepFault \/ StepExit
  <2>1. /\ UNCHANGED <<mem, targets, given, nat, cbs>> /\ exited' \in BOOLEAN
        /\ \E why \in Faults \cup {"none"} : Tally(FALSE, why)
    BY <1>1, <1>m DEF StepCallbackMagic, StepReturnMagic, StepMissing, StepNotExecutable,
                      StepFault, StepExit, TypeOK, Faults
  <2>2. m' = m \/ Compute \/ \E a \in Goals : m' = [m EXCEPT !.rip = a]
    BY <1>1 DEF StepCallbackMagic, StepReturnMagic, StepMissing, StepNotExecutable,
                StepFault, StepExit
  <2>3. m' \in Machine
    BY <2>2, EffectType DEF TypeOK
  <2> QED
    BY <2>1, <2>3, TallyType DEF TypeOK
<1>10. CASE StepCannotForward
  <2>1. /\ UNCHANGED <<m, mem, exited, targets, given, nat, cbs>>
        /\ \E ok \in BOOLEAN, why \in Faults \cup {"none"} : Tally(ok, why)
    BY <1>10, <1>m DEF StepCannotForward, Faults
  <2> QED
    BY <2>1, TallyType DEF TypeOK
<1>2. CASE StepImport
  <2>1. /\ UNCHANGED <<m, mem, running, fault, exited, icount, cbs>>
        /\ Len(nat) = Len(cbs)
        /\ nat' = Append(nat, [m |-> m, ret |-> Loaded(m.sp)])
        /\ \/ UNCHANGED <<targets, given>>
           \/ \E g \in Goals :
                /\ targets' = rsd_callback_for(g)
                /\ given' = given \cup [fn : {g}, tramp : Trampolines(targets', g)]
    BY <1>2 DEF StepImport, Interpreting, InGuest
  <2>2. /\ targets' \in Seq(Goals)
        /\ given' \subseteq [fn : Goals, tramp : 1 .. Len(targets')]
    <3>1. CASE UNCHANGED <<targets, given>>
      BY <3>1 DEF TypeOK
    <3>2. CASE \E g \in Goals :
                 /\ targets' = rsd_callback_for(g)
                 /\ given' = given \cup [fn : {g}, tramp : Trampolines(targets', g)]
      <4>1. PICK g \in Goals :
              /\ targets' = rsd_callback_for(g)
              /\ given' = given \cup [fn : {g}, tramp : Trampolines(targets', g)]
        BY <3>2
      <4>2. targets' \in Seq(Goals) /\ Len(targets') \in Nat /\ Len(targets') >= Len(targets)
        BY <4>1, PoolGrows
      <4>3. Len(targets) \in Nat /\ given \subseteq [fn : Goals, tramp : 1 .. Len(targets)]
        BY DEF TypeOK
      <4>4. 1 .. Len(targets) \subseteq 1 .. Len(targets')
        BY <4>2, <4>3
      <4>5. Trampolines(targets', g) \subseteq 1 .. Len(targets')
        BY DEF Trampolines
      <4>6. given' \subseteq [fn : Goals, tramp : 1 .. Len(targets')]
        <5> HIDE DEF Trampolines
        <5> QED
          BY <4>1, <4>3, <4>4, <4>5
      <4> QED
        BY <4>2, <4>6
    <3> QED
      BY <2>1, <3>1, <3>2
  <2>3. [m |-> m, ret |-> Loaded(m.sp)] \in [m : Machine, ret : Targets]
    BY StackType DEF TypeOK, Machine
  <2>4. nat' \in Seq([m : Machine, ret : Targets]) /\ Len(nat') = Len(nat) + 1 /\ Len(nat) \in Nat
    BY <2>1, <2>3 DEF TypeOK
  <2> QED
    BY <2>1, <2>2, <2>4 DEF TypeOK
<1>3. CASE StepCompute
  <2>1. m' \in Machine
    BY <1>3, EffectType DEF StepCompute
  <2>2. Tally(TRUE, fault) /\ UNCHANGED <<mem, exited, targets, given, nat, cbs>>
    BY <1>3 DEF StepCompute
  <2> QED
    BY <1>m, <2>1, <2>2, TallyType DEF TypeOK
<1>4. CASE StepCall
  <2>1. PICK to \in Goals, back \in Code : m' = Called(to) /\ mem' = Stored(m.sp - 1, back)
    BY <1>4 DEF StepCall
  <2>2. m.sp \in Int /\ m.sp - 1 \in Int
    BY DEF TypeOK, Machine
  <2>3. m' \in Machine
    BY <1>p, <2>1, <2>2 DEF Called, TypeOK, Machine
  <2>4. mem' \in [0 .. Top -> Targets]
    BY <1>p, <2>1, <2>2, StackType
  <2>5. \E ok \in BOOLEAN, why \in Faults \cup {"none"} : Tally(ok, why)
    BY <1>4, <1>m DEF StepCall
  <2>6. UNCHANGED <<exited, targets, given, nat, cbs>>
    BY <1>4 DEF StepCall
  <2> QED
    BY <2>3, <2>4, <2>5, <2>6, TallyType DEF TypeOK
<1>5. CASE StepRet
  <2>1. m' \in Machine
    BY <1>5, EffectType DEF StepRet
  <2>2. \E ok \in BOOLEAN, why \in Faults \cup {"none"} : Tally(ok, why)
    BY <1>5, <1>m DEF StepRet
  <2>3. UNCHANGED <<mem, exited, targets, given, nat, cbs>>
    BY <1>5 DEF StepRet
  <2> QED
    BY <2>1, <2>2, <2>3, TallyType DEF TypeOK
<1>6. CASE RunBlock
  <2>1. PICK n \in 2 .. MaxBlock, faults \in BOOLEAN :
          LET out == Budget # 0 /\ icount + n >= Budget
              why == IF faults THEN memfault ELSE fault
          IN  /\ icount' = Capped(icount + n)
              /\ running' = (~ faults /\ ~ out)
              /\ fault' = IF out THEN "budget" ELSE why
              /\ \/ Compute /\ UNCHANGED mem
                 \/ /\ faults = ~ InStack(m.sp - 1)
                    /\ \E to \in Goals, back \in Code :
                         m' = Called(to) /\ mem' = Stored(m.sp - 1, back)
                 \/ InStack(m.sp) /\ ~ faults /\ m' = Returned /\ UNCHANGED mem
    BY <1>6 DEF RunBlock
  <2>2. icount' \in Nat
    BY <2>1, EngineAssumption DEF TypeOK, Capped
  <2>3. running' \in BOOLEAN /\ fault' \in Faults \cup {"none"}
    BY <1>m, <2>1 DEF Faults
  <2>4. m.sp \in Int /\ m.sp - 1 \in Int
    BY DEF TypeOK, Machine
  <2>5. m' \in Machine /\ mem' \in [0 .. Top -> Targets]
    <3>1. CASE Compute /\ UNCHANGED mem
      BY <3>1, EffectType DEF TypeOK
    <3>2. CASE \E to \in Goals, back \in Code : m' = Called(to) /\ mem' = Stored(m.sp - 1, back)
      <4>1. PICK to \in Goals, back \in Code : m' = Called(to) /\ mem' = Stored(m.sp - 1, back)
        BY <3>2
      <4>2. m' \in Machine
        BY <1>p, <2>4, <4>1 DEF Called, TypeOK, Machine
      <4> QED
        BY <1>p, <2>4, <4>1, <4>2, StackType
    <3>3. CASE m' = Returned /\ UNCHANGED mem
      BY <3>3, EffectType DEF TypeOK
    <3> QED
      BY <2>1, <3>1, <3>2, <3>3
  <2>6. UNCHANGED <<exited, targets, given, nat, cbs>>
    BY <1>6 DEF RunBlock
  <2> QED
    BY <2>2, <2>3, <2>5, <2>6 DEF TypeOK
<1>7. CASE GuestCall
  <2>1. PICK h \in given, arg \in Values :
          /\ m' = [m EXCEPT !.r = arg, !.sp = CallbackSp(m.sp), !.rip = targets[h.tramp]]
          /\ mem' = Stored(CallbackSp(m.sp), CallbackMagic)
          /\ fault' = IF InStack(CallbackSp(m.sp)) THEN fault ELSE memfault
    BY <1>7 DEF GuestCall
  <2>a. targets[h.tramp] \in Goals
    BY GivenLeads
  <2>2. m.sp \in Int /\ CallbackSp(m.sp) \in Int /\ targets[h.tramp] \in Goals
    BY <2>a, EffectType, CallbackSpBelow
  <2>3. m' \in Machine
    BY <1>p, <2>1, <2>2 DEF TypeOK, Machine
  <2>4. mem' \in [0 .. Top -> Targets]
    BY <1>p, <2>1, <2>2, StackType
  <2>5. /\ cbs' = Append(cbs, m) /\ Len(nat) # Len(cbs) /\ running' = TRUE
        /\ UNCHANGED <<exited, icount, targets, given, nat>>
    BY <1>7 DEF GuestCall, InGuest
  <2>6. cbs' \in Seq(Machine) /\ Len(cbs') = Len(cbs) + 1 /\ Len(cbs) \in Nat /\ Len(nat) \in Nat
    BY <2>5 DEF TypeOK
  <2>7. Len(nat') - Len(cbs') \in 0 .. 1
    BY <2>5, <2>6 DEF TypeOK
  <2> QED
    BY <1>m, <2>1, <2>3, <2>4, <2>5, <2>6, <2>7 DEF TypeOK
<1>8. CASE GuestCallEnd
  <2>1. /\ Len(nat) = Len(cbs) /\ cbs # << >> /\ m' = Last(cbs) /\ cbs' = Front(cbs)
        /\ running' = (fault = "none")
        /\ UNCHANGED <<mem, fault, exited, icount, targets, given, nat>>
    BY <1>8 DEF GuestCallEnd, InGuest
  <2>2. cbs' \in Seq(Machine) /\ Len(cbs') = Len(cbs) - 1 /\ m' \in Machine /\ Len(cbs) \in Nat
    BY <2>1, FrontLast DEF TypeOK
  <2> QED
    BY <2>1, <2>2 DEF TypeOK
<1>9. CASE NativeReturn
  <2>1. PICK v \in Values : m' = [m EXCEPT !.r = v, !.sp = m.sp + 1, !.rip = Loaded(m.sp)]
    BY <1>9 DEF NativeReturn
  <2>2. m' \in Machine
    BY <2>1, EffectType
  <2>3. /\ Len(nat) # Len(cbs) /\ nat' = Front(nat) /\ UNCHANGED <<mem, exited, targets, given, cbs>>
        /\ Len(nat) \in Nat /\ Len(cbs) \in Nat /\ Len(nat) - Len(cbs) \in 0 .. 1
    BY <1>9 DEF NativeReturn, InGuest, TypeOK
  <2>4. nat # << >>
    BY <2>3
  <2>5. nat' \in Seq([m : Machine, ret : Targets]) /\ Len(nat') = Len(nat) - 1
    BY <2>3, <2>4, FrontLast DEF TypeOK
  <2>6. \E ok \in BOOLEAN, why \in Faults \cup {"none"} : Tally(ok, why)
    BY <1>9, <1>m DEF NativeReturn, TypeOK
  <2> QED
    BY <2>2, <2>3, <2>5, <2>6, TallyType DEF TypeOK
<1> QED
  BY <1>0, <1>1, <1>2, <1>3, <1>4, <1>5, <1>6, <1>7, <1>8, <1>9, <1>10 DEF Next

\* The variables of the run loop keep their types, and the host stack always
\* alternates between loops and native functions.
THEOREM EngineTypeCorrect == Spec => []TypeOK
<1>1. ASSUME Init PROVE TypeOK
  <2>1. m \in Machine /\ mem \in [0 .. Top -> Targets]
    BY <1>1, EngineAssumption DEF Init, Machine, Targets
  <2>2. /\ targets \in Seq(Goals) /\ cbs \in Seq(Machine)
        /\ nat \in Seq([m : Machine, ret : Targets])
    BY <1>1, EmptySeq DEF Init
  <2>3. Len(nat) - Len(cbs) \in 0 .. 1
    BY <1>1 DEF Init
  <2>4. given \subseteq [fn : Goals, tramp : 1 .. Len(targets)]
    BY <1>1 DEF Init
  <2>5. running \in BOOLEAN /\ exited \in BOOLEAN /\ fault \in Faults \cup {"none"} /\ icount \in Nat
    BY <1>1 DEF Init
  <2> QED
    BY <2>1, <2>2, <2>3, <2>4, <2>5 DEF TypeOK
<1> QED
  BY <1>1, EngineTypeInductive, PTL DEF Spec

-----------------------------------------------------------------------------
(* Faults.                                                                 *)

\* While no callback is active, on the way back through a native function
\* that made one included, a machine with a fault does not run.
NoFaultRuns == cbs = << >> /\ fault # "none" => ~ running

LEMMA NoFaultInductive == TypeOK /\ NoFaultRuns /\ [Next]_vars => NoFaultRuns'
<1> SUFFICES ASSUME TypeOK, NoFaultRuns, [Next]_vars PROVE NoFaultRuns'
  OBVIOUS
<1>t. running \in BOOLEAN /\ memfault # "none"
  BY DEF TypeOK, memfault
<1>a. ASSUME NEW ok \in BOOLEAN, NEW why, Tally(ok, why), cbs' = cbs,
             cbs = << >> /\ why # "none" => ~ ok
      PROVE  NoFaultRuns'
  BY <1>a DEF NoFaultRuns, Tally
<1>0. CASE UNCHANGED vars
  BY <1>0 DEF NoFaultRuns, vars
<1>1. CASE StepCallbackMagic \/ StepReturnMagic \/ StepMissing \/ StepNotExecutable \/ StepFault \/ StepExit
  <2>1. cbs' = cbs /\ \E why : Tally(FALSE, why)
    BY <1>1 DEF StepCallbackMagic, StepReturnMagic, StepMissing, StepNotExecutable, StepFault, StepExit
  <2> QED
    BY <1>a, <2>1
<1>10. CASE StepCannotForward
  <2>1. /\ cbs' = cbs /\ running
        /\ Tally(FALSE, memfault) \/ Tally(FALSE, "import") \/ Tally(TRUE, fault)
    BY <1>10 DEF StepCannotForward, Interpreting
  <2> QED
    BY <1>a, <2>1 DEF NoFaultRuns
<1>2. CASE StepImport
  BY <1>2 DEF StepImport, NoFaultRuns
<1>3. CASE StepCompute
  <2>1. cbs' = cbs /\ Tally(TRUE, fault) /\ running
    BY <1>3 DEF StepCompute, Interpreting
  <2> QED
    BY <1>a, <2>1 DEF NoFaultRuns
<1>4. CASE StepCall
  <2>1. cbs' = cbs /\ running /\ (Tally(TRUE, fault) \/ Tally(FALSE, memfault))
    BY <1>4 DEF StepCall, Interpreting
  <2> QED
    BY <1>a, <2>1 DEF NoFaultRuns
<1>5. CASE StepRet
  <2>1. cbs' = cbs /\ running /\ (Tally(TRUE, fault) \/ Tally(FALSE, memfault))
    BY <1>5 DEF StepRet, Interpreting
  <2> QED
    BY <1>a, <2>1 DEF NoFaultRuns
<1>6. CASE RunBlock
  <2>1. PICK n \in 2 .. MaxBlock, faults \in BOOLEAN :
          /\ running' = (~ faults /\ ~ (Budget # 0 /\ icount + n >= Budget))
          /\ fault' = IF Budget # 0 /\ icount + n >= Budget THEN "budget"
                      ELSE IF faults THEN memfault ELSE fault
    BY <1>6 DEF RunBlock
  <2>2. cbs' = cbs /\ running
    BY <1>6 DEF RunBlock
  <2> QED
    BY <2>1, <2>2 DEF NoFaultRuns
<1>7. CASE GuestCall
  <2>1. cbs' = Append(cbs, m) /\ cbs \in Seq(Machine) /\ m \in Machine
    BY <1>7 DEF GuestCall, TypeOK
  <2>2. cbs' # << >>
    BY <2>1, AppendProperties
  <2> QED
    BY <2>2 DEF NoFaultRuns
<1>8. CASE GuestCallEnd
  BY <1>8 DEF GuestCallEnd, NoFaultRuns
<1>9. CASE NativeReturn
  <2>1. cbs' = cbs /\ (Tally(running, fault) \/ Tally(FALSE, memfault))
    BY <1>9 DEF NativeReturn
  <2> QED
    BY <1>a, <1>t, <2>1 DEF NoFaultRuns
<1> QED
  BY <1>0, <1>1, <1>2, <1>3, <1>4, <1>5, <1>6, <1>7, <1>8, <1>9, <1>10 DEF Next

\* A fault in a callback, at any depth, stops rsd_cpu_run once the native
\* functions in between have returned to it.
THEOREM FaultCarriedBack == Spec => []FaultStopsOuterRun
<1>1. Init => NoFaultRuns
  BY DEF Init, NoFaultRuns
<1>2. TypeOK /\ NoFaultRuns => FaultStopsOuterRun
  <2>1. ASSUME TypeOK, nat = << >> PROVE cbs = << >>
    BY <2>1, EmptySeq DEF TypeOK
  <2> QED
    BY <2>1 DEF NoFaultRuns, FaultStopsOuterRun, Outer
<1> QED
  BY <1>1, <1>2, EngineTypeCorrect, NoFaultInductive, PTL DEF Spec

-----------------------------------------------------------------------------
(* The guest stack.  Loop k (0 for rsd_cpu_run) returns through the slot    *)
(* Limit(c, k); below it lie only return addresses into guest code, and     *)
(* every loop keeps below the stack pointers of the native calls it is      *)
(* nested in.                                                               *)

At(s, a) == IF InStack(a) THEN s[a] ELSE Wild
Limit(c, k) == IF k = 0 THEN Top ELSE CallbackSp(c[k].sp)
Sentinel(k) == IF k = 0 THEN ReturnMagic ELSE CallbackMagic

\* A machine x that loop k runs, or that a native function called from loop k
\* will resume.
LoopOK(x, s, c, k) ==
  /\ x.sp <= Limit(c, k) + 1
  /\ x.sp = Limit(c, k) + 1 => x.rip \in {Sentinel(k), Wild}
  /\ x.sp <= Limit(c, k) => x.rip \in Places \cup {Wild}
  /\ \A a \in Int : x.sp <= a /\ a < Limit(c, k) => At(s, a) \in Code \cup {Wild}

NativeOK(s, n, c, i) ==
  /\ n[i].m.rip \in Places
  /\ n[i].ret = At(s, n[i].m.sp)
  /\ LoopOK(n[i].m, s, c, i - 1)

Saved(x, n, c) ==
  /\ \A i \in 1 .. Len(c) : c[i] = n[i].m
  /\ Len(n) # Len(c) => x = n[Len(n)].m
Nested(n, c) == \A k \in 1 .. Len(c), i \in 1 .. Len(c) : i <= k => Limit(c, k) + 1 < n[i].m.sp
Marked(s, c) == \A k \in 0 .. Len(c) : At(s, Limit(c, k)) \in {Sentinel(k), Wild}

StackInv ==
  /\ Saved(m, nat, cbs)
  /\ Nested(nat, cbs)
  /\ Marked(mem, cbs)
  /\ \A i \in 1 .. Len(nat) : NativeOK(mem, nat, cbs, i)
  /\ InGuest => LoopOK(m, mem, cbs, Len(cbs))

LEMMA StoredAt ==
  ASSUME TypeOK, NEW w \in Int, NEW v
  PROVE  /\ \A a \in Int : a # w => At(Stored(w, v), a) = At(mem, a)
         /\ At(Stored(w, v), w) \in {v, Wild}
BY DEF TypeOK, At, Stored, InStack

LEMMA Typed ==
  ASSUME TypeOK
  PROVE  /\ Len(nat) \in Nat /\ Len(cbs) \in Nat /\ Len(nat) - Len(cbs) \in 0 .. 1
         /\ m.sp \in Int /\ Top \in Int
         /\ \A i \in 1 .. Len(nat) : nat[i].m \in Machine /\ nat[i].m.sp \in Int
         /\ \A k \in 1 .. Len(cbs) : cbs[k] \in Machine /\ cbs[k].sp \in Int
         /\ \A k \in 0 .. Len(cbs) : Limit(cbs, k) \in Int
<1>1. /\ Len(nat) \in Nat /\ Len(cbs) \in Nat /\ Len(nat) - Len(cbs) \in 0 .. 1
      /\ m \in Machine /\ nat \in Seq([m : Machine, ret : Targets]) /\ cbs \in Seq(Machine)
  BY DEF TypeOK
<1>2. m.sp \in Int /\ Top \in Int
  BY <1>1, EngineAssumption DEF Machine
<1>3. ASSUME NEW i \in 1 .. Len(nat) PROVE nat[i].m \in Machine /\ nat[i].m.sp \in Int
  <2>1. nat[i] \in [m : Machine, ret : Targets]
    BY <1>1, ElementOfSeq
  <2> QED
    BY <2>1 DEF Machine
<1>4. ASSUME NEW k \in 1 .. Len(cbs) PROVE cbs[k] \in Machine /\ cbs[k].sp \in Int
  <2>1. cbs[k] \in Machine
    BY <1>1, ElementOfSeq
  <2> QED
    BY <2>1 DEF Machine
<1>5. ASSUME NEW k \in 0 .. Len(cbs) PROVE Limit(cbs, k) \in Int
  <2>1. CASE k = 0
    BY <1>2, <2>1 DEF Limit
  <2>2. CASE k # 0
    <3>1. cbs[k].sp \in Int
      BY <1>1, <1>4, <2>2
    <3> QED
      BY <2>2, <3>1, CallbackSpBelow DEF Limit
  <2> QED
    BY <2>1, <2>2
<1> QED
  BY <1>1, <1>2, <1>3, <1>4, <1>5

\* A loop is not disturbed by a change of memory below its stack pointer.
LEMMA LoopKept ==
  ASSUME NEW x, NEW s, NEW t, NEW c, NEW k, LoopOK(x, s, c, k),
         \A a \in Int : x.sp <= a => At(t, a) = At(s, a)
  PROVE  LoopOK(x, t, c, k)
BY DEF LoopOK

\* Where guest code, or an import, is being run the stack pointer is not yet
\* above the slot the loop returns through.
LEMMA InsideLimit ==
  ASSUME NEW x \in Machine, NEW s, NEW c, NEW k, LoopOK(x, s, c, k), x.rip \in Places,
         Limit(c, k) \in Int
  PROVE  x.sp <= Limit(c, k)
<1>1. x.rip \notin {Sentinel(k), Wild}
  BY AddressAssumption DEF Places, Sentinel
<1>2. x.sp \in Int
  BY DEF Machine
<1> QED
  BY <1>1, <1>2 DEF LoopOK

\* Popping a return address leads back into guest code, or to the sentinel
\* of this loop and of no other.
LEMMA PopOK ==
  ASSUME NEW x \in Machine, NEW s, NEW c, NEW k, LoopOK(x, s, c, k), x.rip \in Places,
         Limit(c, k) \in Int, At(s, Limit(c, k)) \in {Sentinel(k), Wild},
         NEW y, y.sp = x.sp + 1, y.rip = At(s, x.sp)
  PROVE  LoopOK(y, s, c, k)
<1>1. x.sp \in Int /\ x.sp <= Limit(c, k)
  BY InsideLimit DEF Machine
<1>2. \A a \in Int : y.sp <= a /\ a < Limit(c, k) => At(s, a) \in Code \cup {Wild}
  BY <1>1 DEF LoopOK
<1>3. CASE x.sp = Limit(c, k)
  BY <1>1, <1>2, <1>3 DEF LoopOK
<1>4. CASE x.sp < Limit(c, k)
  <2>1. At(s, x.sp) \in Code \cup {Wild}
    BY <1>1, <1>4 DEF LoopOK
  <2>2. y.sp <= Limit(c, k) /\ y.sp \in Int /\ y.rip \in Places \cup {Wild}
    BY <1>1, <1>4, <2>1 DEF Places
  <2> QED
    BY <1>2, <2>2 DEF LoopOK
<1> QED
  BY <1>1, <1>3, <1>4

\* A store below the present loop and below every native call in progress
\* changes nothing that somebody will come back to.
LEMMA LowStore ==
  ASSUME TypeOK, StackInv, NEW w \in Int, NEW v,
         w < Limit(cbs, Len(cbs)), \A i \in 1 .. Len(nat) : w < nat[i].m.sp
  PROVE  /\ Marked(Stored(w, v), cbs)
         /\ \A i \in 1 .. Len(nat) : NativeOK(Stored(w, v), nat, cbs, i)
<1> DEFINE t == Stored(w, v)
<1>1. \A a \in Int : a # w => At(t, a) = At(mem, a)
  BY StoredAt
<1> HIDE DEF t
<1>2. ASSUME NEW i \in 1 .. Len(nat) PROVE NativeOK(t, nat, cbs, i)
  <2>1. NativeOK(mem, nat, cbs, i) /\ nat[i].m.sp \in Int /\ w < nat[i].m.sp
    BY Typed DEF StackInv
  <2>2. \A a \in Int : nat[i].m.sp <= a => At(t, a) = At(mem, a)
    BY <1>1, <2>1
  <2>3. LoopOK(nat[i].m, t, cbs, i - 1)
    BY <2>1, <2>2, LoopKept DEF NativeOK
  <2>4. At(t, nat[i].m.sp) = At(mem, nat[i].m.sp)
    BY <2>1, <2>2
  <2> QED
    BY <2>1, <2>3, <2>4 DEF NativeOK
<1>3. ASSUME NEW k \in 0 .. Len(cbs) PROVE At(t, Limit(cbs, k)) \in {Sentinel(k), Wild}
  <2> DEFINE n == Len(cbs)
  <2>1. /\ n \in Nat /\ Limit(cbs, k) \in Int /\ Limit(cbs, n) \in Int
        /\ Len(nat) - n \in 0 .. 1 /\ Len(nat) \in Nat
    BY Typed
  <2>2. w # Limit(cbs, k)
    <3>1. CASE k = n
      BY <2>1, <3>1
    <3>2. CASE k # n
      <4>1. k + 1 \in 1 .. n /\ k + 1 \in 1 .. Len(nat) /\ (k + 1) - 1 = k /\ n \in 1 .. n
        BY <2>1, <3>2
      <4>2. nat[k + 1].m.sp \in Int /\ NativeOK(mem, nat, cbs, k + 1)
        BY <4>1, Typed DEF StackInv
      <4>3. nat[k + 1].m.sp <= Limit(cbs, k) + 1
        BY <4>1, <4>2 DEF NativeOK, LoopOK
      <4>4. Limit(cbs, n) + 1 < nat[k + 1].m.sp
        BY <4>1 DEF StackInv, Nested
      <4> HIDE DEF n
      <4>5. w < Limit(cbs, n)
        BY DEF n
      <4> QED
        BY <2>1, <4>2, <4>3, <4>4, <4>5
    <3> QED
      BY <3>1, <3>2
  <2>3. At(mem, Limit(cbs, k)) \in {Sentinel(k), Wild}
    BY DEF StackInv, Marked
  <2> QED
    BY <1>1, <2>1, <2>2, <2>3
<1> QED
  BY <1>2, <1>3 DEF Marked, t

\* What the steps of guest code do to the stack invariant: nothing moves but
\* the machine and the memory below it.
LEMMA GuestMoves ==
  ASSUME TypeOK, StackInv, InGuest, InGuest', m.rip \in Places, nat' = nat, cbs' = cbs,
         \/ Compute /\ mem' = mem
         \/ (\E a \in Goals : m' = [m EXCEPT !.rip = a]) /\ mem' = mem
         \/ \E to \in Goals, back \in Code : m' = Called(to) /\ mem' = Stored(m.sp - 1, back)
         \/ m' = Returned /\ mem' = mem
  PROVE  StackInv'
<1> DEFINE n == Len(cbs)
<1>1. LoopOK(m, mem, cbs, n) /\ m \in Machine /\ m.sp \in Int /\ Limit(cbs, n) \in Int
  BY Typed DEF StackInv, TypeOK
<1>2. m.sp <= Limit(cbs, n)
  BY <1>1, InsideLimit
<1>3. Saved(m', nat, cbs) /\ Nested(nat, cbs)
  BY DEF StackInv, Saved, InGuest
<1>4. ASSUME mem' = mem, LoopOK(m', mem, cbs, n) PROVE StackInv'
  BY <1>3, <1>4 DEF StackInv
<1>8. ASSUME m'.sp = m.sp, m'.rip \in Goals, mem' = mem PROVE StackInv'
  <2>1. LoopOK(m', mem, cbs, n)
    BY <1>1, <1>2, <1>8 DEF LoopOK, Goals
  <2> QED
    BY <1>4, <1>8, <2>1
<1>9. CASE (\E a \in Goals : m' = [m EXCEPT !.rip = a]) /\ mem' = mem
  <2>1. m'.sp = m.sp /\ m'.rip \in Goals
    BY <1>1, <1>9 DEF Machine
  <2> QED
    BY <1>8, <1>9, <2>1
<1>5. CASE Compute /\ mem' = mem
  <2>1. PICK v \in Values, w \in Values, a \in Goals : m' = [m EXCEPT !.r = v, !.fl = w, !.rip = a]
    BY <1>5 DEF Compute
  <2>2. m'.sp = m.sp /\ m'.rip \in Goals
    BY <1>1, <2>1 DEF Machine
  <2> QED
    BY <1>5, <1>8, <2>2
<1>6. CASE m' = Returned /\ mem' = mem
  <2>1. m'.sp = m.sp + 1 /\ m'.rip = At(mem, m.sp)
    BY <1>1, <1>6 DEF Returned, Machine, Loaded, At
  <2>2. n \in 0 .. Len(cbs)
    BY Typed
  <2>3. At(mem, Limit(cbs, n)) \in {Sentinel(n), Wild}
    BY <2>2 DEF StackInv, Marked
  <2> HIDE DEF n
  <2>4. LoopOK(m', mem, cbs, n)
    BY <1>1, <2>1, <2>3, PopOK
  <2> QED
    BY <1>4, <1>6, <2>4
<1>7. CASE \E to \in Goals, back \in Code : m' = Called(to) /\ mem' = Stored(m.sp - 1, back)
  <2>1. PICK to \in Goals, back \in Code : m' = Called(to) /\ mem' = Stored(m.sp - 1, back)
    BY <1>7
  <2> DEFINE w == m.sp - 1
  <2>2. w \in Int /\ w < Limit(cbs, n)
    BY <1>1, <1>2
  <2>3. ASSUME NEW i \in 1 .. Len(nat) PROVE w < nat[i].m.sp
    <3>1. i \in 1 .. n /\ n \in 1 .. n /\ i <= n
      BY Typed DEF InGuest
    <3>2. Limit(cbs, n) + 1 < nat[i].m.sp /\ nat[i].m.sp \in Int
      BY <3>1, Typed DEF StackInv, Nested
    <3> HIDE DEF n, w
    <3> QED
      BY <1>1, <2>2, <3>2
  <2>4. Marked(mem', cbs) /\ \A i \in 1 .. Len(nat) : NativeOK(mem', nat, cbs, i)
    BY <2>1, <2>2, <2>3, LowStore
  <2>5. m'.sp = w /\ m'.rip = to
    BY <1>1, <2>1 DEF Called, Machine
  <2>6. /\ \A a \in Int : a # w => At(mem', a) = At(mem, a)
        /\ At(mem', w) \in {back, Wild}
    BY <2>1, <2>2, StoredAt
  <2> HIDE DEF n
  <2>7. ASSUME NEW a \in Int, w <= a, a < Limit(cbs, n) PROVE At(mem', a) \in Code \cup {Wild}
    <3>1. CASE a = w
      BY <2>6, <3>1
    <3>2. CASE a # w
      <4>1. m.sp <= a
        BY <1>1, <2>7, <3>2
      <4> QED
        BY <1>1, <2>6, <2>7, <3>2, <4>1 DEF LoopOK
    <3> QED
      BY <3>1, <3>2
  <2>8. LoopOK(m', mem', cbs, n)
    BY <1>1, <2>2, <2>5, <2>7 DEF LoopOK, Goals
  <2> QED
    BY <1>3, <2>4, <2>8 DEF StackInv, n
<1> QED
  BY <1>5, <1>6, <1>7, <1>9

LEMMA StackInductive == TypeOK /\ StackInv /\ [Next]_vars => StackInv'
<1> SUFFICES ASSUME TypeOK, StackInv, [Next]_vars PROVE StackInv'
  OBVIOUS
<1>0. ASSUME UNCHANGED <<m, mem, nat, cbs>> PROVE StackInv'
  BY <1>0 DEF StackInv, InGuest
<1>c. Code \subseteq Places /\ Imports \subseteq Places
  BY DEF Places
<1>1. CASE UNCHANGED vars
  BY <1>0, <1>1 DEF vars
<1>2. CASE \/ StepCallbackMagic \/ StepReturnMagic \/ StepCannotForward
           \/ StepMissing \/ StepNotExecutable
  BY <1>0, <1>2 DEF StepCallbackMagic, StepReturnMagic, StepCannotForward, StepMissing,
                    StepNotExecutable
<1>3. CASE StepCompute \/ StepFault
  <2>1. CASE m' = m
    BY <1>0, <1>3, <2>1 DEF StepCompute, StepFault
  <2>2. CASE Compute
    <3>1. InGuest /\ InGuest' /\ m.rip \in Places /\ nat' = nat /\ cbs' = cbs /\ mem' = mem
      BY <1>c, <1>3 DEF StepCompute, StepFault, Interpreting, InGuest
    <3> QED
      BY <2>2, <3>1, GuestMoves
  <2> QED
    BY <1>3, <2>1, <2>2 DEF StepCompute, StepFault
<1>11. CASE StepExit
  <2>1. /\ InGuest /\ InGuest' /\ m.rip \in Places /\ nat' = nat /\ cbs' = cbs /\ mem' = mem
        /\ \E a \in Goals : m' = [m EXCEPT !.rip = a]
    BY <1>c, <1>11 DEF StepExit, Interpreting, InGuest
  <2> QED
    BY <2>1, GuestMoves
<1>4. CASE StepCall
  <2>1. /\ InGuest /\ InGuest' /\ m.rip \in Places /\ nat' = nat /\ cbs' = cbs
        /\ \E to \in Goals, back \in Code : m' = Called(to) /\ mem' = Stored(m.sp - 1, back)
    BY <1>c, <1>4 DEF StepCall, Interpreting, InGuest
  <2> QED
    BY <2>1, GuestMoves
<1>5. CASE StepRet
  <2>1. InGuest /\ InGuest' /\ m.rip \in Places /\ nat' = nat /\ cbs' = cbs /\ m' = Returned /\ mem' = mem
    BY <1>c, <1>5 DEF StepRet, Interpreting, InGuest
  <2> QED
    BY <2>1, GuestMoves
<1>6. CASE RunBlock
  <2>1. /\ Outer /\ m.rip \in Places /\ nat' = nat /\ cbs' = cbs
        /\ \/ Compute /\ mem' = mem
           \/ \E to \in Goals, back \in Code : m' = Called(to) /\ mem' = Stored(m.sp - 1, back)
           \/ m' = Returned /\ mem' = mem
    BY <1>c, <1>6 DEF RunBlock
  <2>2. InGuest /\ InGuest'
    <3>1. Len(nat) = 0
      BY <2>1 DEF Outer
    <3>2. Len(cbs) = 0
      BY <3>1, Typed
    <3> QED
      BY <2>1, <3>1, <3>2 DEF InGuest
  <2> QED
    BY <2>1, <2>2, GuestMoves
<1>7. CASE StepImport
  <2> DEFINE e == [m |-> m, ret |-> Loaded(m.sp)]
  <2>1. /\ Len(nat) = Len(cbs) /\ m.rip \in Places /\ nat' = Append(nat, e)
        /\ UNCHANGED <<m, mem, cbs>>
    BY <1>c, <1>7 DEF StepImport, Interpreting, InGuest
  <2>2. nat \in Seq([m : Machine, ret : Targets]) /\ e \in [m : Machine, ret : Targets]
    BY StackType, Typed DEF TypeOK, Targets
  <2>3. e.m = m /\ e.ret = At(mem, m.sp)
    BY DEF Loaded, At
  <2> HIDE DEF e
  <2>4. /\ Len(nat') = Len(nat) + 1 /\ Len(nat) \in Nat
        /\ \A i \in 1 .. Len(nat) : nat'[i] = nat[i]
        /\ nat'[Len(nat) + 1] = e
    BY <2>1, <2>2, AppendProperties
  <2>5. LoopOK(m, mem, cbs, Len(cbs))
    BY <2>1 DEF StackInv, InGuest
  <2>6. NativeOK(mem, nat', cbs, Len(nat) + 1)
    BY <2>1, <2>3, <2>4, <2>5 DEF NativeOK
  <2>7. ASSUME NEW i \in 1 .. Len(nat) PROVE NativeOK(mem, nat', cbs, i)
    BY <2>4 DEF StackInv, NativeOK
  <2>8. \A i \in 1 .. Len(nat') : NativeOK(mem, nat', cbs, i)
    BY <2>4, <2>6, <2>7
  <2>9. Saved(m, nat', cbs)
    BY <2>1, <2>3, <2>4 DEF StackInv, Saved
  <2>10. Nested(nat', cbs)
    BY <2>1, <2>4 DEF StackInv, Nested
  <2>11. ~ InGuest'
    BY <2>1, <2>4 DEF InGuest
  <2> QED
    BY <2>1, <2>8, <2>9, <2>10, <2>11 DEF StackInv
<1>8. CASE GuestCall
  <2> DEFINE n == Len(cbs)
             sp == CallbackSp(m.sp)
  <2>1. PICK h \in given, arg \in Values :
          /\ m' = [m EXCEPT !.r = arg, !.sp = sp, !.rip = targets[h.tramp]]
          /\ mem' = Stored(sp, CallbackMagic)
    BY <1>8 DEF GuestCall
  <2>2. /\ Len(nat) # n /\ cbs' = Append(cbs, m) /\ nat' = nat /\ n \in Nat
        /\ cbs \in Seq(Machine) /\ m \in Machine
    BY <1>8 DEF GuestCall, InGuest, TypeOK
  <2>3. Len(nat) = n + 1 /\ n + 1 \in 1 .. Len(nat) /\ (n + 1) - 1 = n
    BY <2>2, Typed
  <2>4. m = nat[n + 1].m
    BY <2>2, <2>3 DEF StackInv, Saved
  <2>5. m.rip \in Places /\ LoopOK(m, mem, cbs, n)
    BY <2>3, <2>4 DEF StackInv, NativeOK
  <2>6. m.sp \in Int /\ Limit(cbs, n) \in Int /\ sp \in Int /\ sp + 1 < m.sp
    <3>1. n \in 0 .. Len(cbs) /\ m.sp \in Int
      BY <2>2, Typed
    <3>2. Limit(cbs, n) \in Int
      BY <3>1, Typed
    <3> QED
      BY <3>1, <3>2, CallbackSpBelow
  <2>7. m.sp <= Limit(cbs, n)
    BY <2>2, <2>5, <2>6, InsideLimit
  <2>8. /\ cbs' \in Seq(Machine) /\ Len(cbs') = n + 1 /\ cbs'[n + 1] = m
        /\ \A i \in 1 .. n : cbs'[i] = cbs[i]
    BY <2>2, AppendProperties
  <2>9. Limit(cbs', n + 1) = sp
    BY <2>2, <2>8 DEF Limit
  <2>10. \A k \in 0 .. n : Limit(cbs', k) = Limit(cbs, k)
    BY <2>2, <2>8 DEF Limit
  <2>11. ASSUME NEW i \in 1 .. Len(nat) PROVE sp + 1 < nat[i].m.sp
    <3>1. CASE i = n + 1
      BY <2>4, <2>6, <3>1
    <3>2. CASE i # n + 1
      <4>1. i \in 1 .. n /\ n \in 1 .. n /\ i <= n
        <5> HIDE DEF n
        <5> QED
          BY <2>2, <2>3, <3>2
      <4>2. Limit(cbs, n) + 1 < nat[i].m.sp /\ nat[i].m.sp \in Int
        BY <4>1, Typed DEF StackInv, Nested
      <4> HIDE DEF n, sp
      <4> QED
        BY <2>6, <2>7, <4>2
    <3> QED
      BY <3>1, <3>2
  <2> HIDE DEF sp
  <2>12. \A i \in 1 .. Len(nat) : sp < nat[i].m.sp
    BY <2>6, <2>11, Typed
  <2>13. sp < Limit(cbs, n)
    BY <2>6, <2>7
  <2>14. Marked(mem', cbs) /\ \A i \in 1 .. Len(nat) : NativeOK(mem', nat, cbs, i)
    BY <2>1, <2>6, <2>12, <2>13, LowStore
  <2> HIDE DEF n
  <2>15. At(mem', sp) \in {CallbackMagic, Wild}
    BY <2>1, <2>6, StoredAt
  <2>16. Marked(mem', cbs')
    <3>1. At(mem', Limit(cbs', n + 1)) \in {Sentinel(n + 1), Wild}
      BY <2>2, <2>9, <2>15 DEF Sentinel
    <3>2. \A k \in 0 .. n : At(mem', Limit(cbs', k)) \in {Sentinel(k), Wild}
      BY <2>10, <2>14 DEF Marked, n
    <3> QED
      BY <2>2, <2>8, <3>1, <3>2 DEF Marked
  <2>17. ASSUME NEW i \in 1 .. Len(nat') PROVE NativeOK(mem', nat', cbs', i)
    <3>1. i - 1 \in 0 .. n /\ i \in 1 .. Len(nat)
      BY <2>2, <2>3, <2>17
    <3>2. NativeOK(mem', nat, cbs, i) /\ Limit(cbs', i - 1) = Limit(cbs, i - 1)
      BY <2>10, <2>14, <3>1
    <3> QED
      BY <2>2, <3>2 DEF NativeOK, LoopOK
  <2>18. Saved(m', nat', cbs')
    <3>1. ASSUME NEW i \in 1 .. Len(cbs') PROVE cbs'[i] = nat'[i].m
      <4>1. CASE i = n + 1
        BY <2>2, <2>4, <2>8, <4>1
      <4>2. CASE i # n + 1
        <5>1. i \in 1 .. n
          BY <2>2, <2>8, <4>2
        <5> QED
          BY <2>2, <2>8, <5>1 DEF StackInv, Saved, n
      <4> QED
        BY <4>1, <4>2
    <3> QED
      BY <2>2, <2>3, <2>8, <3>1 DEF Saved
  <2>19. Nested(nat', cbs')
    <3>1. ASSUME NEW k \in 1 .. Len(cbs'), NEW i \in 1 .. Len(cbs'), i <= k
          PROVE  Limit(cbs', k) + 1 < nat'[i].m.sp
      <4>1. CASE k = n + 1
        BY <2>2, <2>3, <2>8, <2>9, <2>11, <4>1
      <4>2. CASE k # n + 1
        <5>1. k \in 1 .. n /\ i \in 1 .. n /\ k \in 0 .. n
          BY <2>2, <2>8, <3>1, <4>2
        <5> QED
          BY <2>2, <2>10, <3>1, <5>1 DEF StackInv, Nested, n
      <4> QED
        BY <4>1, <4>2
    <3> QED
      BY <3>1 DEF Nested
  <2>20. m'.sp = sp /\ m'.rip \in Goals
    <3>1. targets[h.tramp] \in Goals
      BY GivenLeads
    <3> QED
      BY <2>1, <2>2, <3>1 DEF Machine
  <2>21. LoopOK(m', mem', cbs', Len(cbs'))
    BY <2>6, <2>8, <2>9, <2>20 DEF LoopOK, Goals
  <2> QED
    BY <2>16, <2>17, <2>18, <2>19, <2>21 DEF StackInv
<1>9. CASE GuestCallEnd
  <2> DEFINE n == Len(cbs)
  <2>1. /\ Len(nat) = n /\ cbs # << >> /\ m' = Last(cbs) /\ cbs' = Front(cbs)
        /\ mem' = mem /\ nat' = nat /\ cbs \in Seq(Machine)
    BY <1>9 DEF GuestCallEnd, InGuest, TypeOK
  <2>2. /\ n \in Nat /\ n >= 1 /\ Len(cbs') = n - 1 /\ m' = cbs[n]
        /\ \A i \in 1 .. (n - 1) : cbs'[i] = cbs[i]
    BY <2>1, FrontLast
  <2>3. \A i \in 1 .. n : cbs[i] = nat[i].m
    BY DEF StackInv, Saved
  <2>4. \A k \in 0 .. (n - 1) : Limit(cbs', k) = Limit(cbs, k)
    BY <2>2 DEF Limit
  <2>5. /\ \A k \in 0 .. n : At(mem, Limit(cbs, k)) \in {Sentinel(k), Wild}
        /\ \A k \in 1 .. n, i \in 1 .. n : i <= k => Limit(cbs, k) + 1 < nat[i].m.sp
        /\ \A i \in 1 .. n : NativeOK(mem, nat, cbs, i)
    BY <2>1 DEF StackInv, Marked, Nested
  <2> HIDE DEF n
  <2>6. Saved(m', nat', cbs')
    BY <2>1, <2>2, <2>3 DEF Saved
  <2>7. Marked(mem', cbs')
    BY <2>1, <2>2, <2>4, <2>5 DEF Marked
  <2>8. Nested(nat', cbs')
    BY <2>1, <2>2, <2>4, <2>5 DEF Nested
  <2>9. ASSUME NEW i \in 1 .. Len(nat') PROVE NativeOK(mem', nat', cbs', i)
    <3>1. i - 1 \in 0 .. (n - 1) /\ i \in 1 .. n
      BY <2>1, <2>2, <2>9
    <3>2. NativeOK(mem, nat, cbs, i) /\ Limit(cbs', i - 1) = Limit(cbs, i - 1)
      BY <2>4, <2>5, <3>1
    <3> QED
      BY <2>1, <3>2 DEF NativeOK, LoopOK
  <2>10. ~ InGuest'
    BY <2>1, <2>2 DEF InGuest
  <2> QED
    BY <2>6, <2>7, <2>8, <2>9, <2>10 DEF StackInv
<1>10. CASE NativeReturn
  <2> DEFINE n == Len(cbs)
  <2>1. PICK v \in Values : m' = [m EXCEPT !.r = v, !.sp = m.sp + 1, !.rip = Loaded(m.sp)]
    BY <1>10 DEF NativeReturn
  <2>2. /\ Len(nat) # n /\ nat' = Front(nat) /\ mem' = mem /\ cbs' = cbs
        /\ nat \in Seq([m : Machine, ret : Targets]) /\ m \in Machine
    BY <1>10 DEF NativeReturn, InGuest, TypeOK
  <2>3. n \in Nat /\ Len(nat) = n + 1 /\ n + 1 \in 1 .. Len(nat) /\ (n + 1) - 1 = n /\ nat # << >>
    BY <2>2, Typed
  <2>4. Len(nat') = n /\ \A i \in 1 .. n : nat'[i] = nat[i]
    <3>1. /\ Len(Front(nat)) = Len(nat) - 1
          /\ \A i \in 1 .. (Len(nat) - 1) : Front(nat)[i] = nat[i]
      BY <2>2, <2>3, FrontLast
    <3>2. Len(nat) - 1 = n
      BY <2>3
    <3> QED
      BY <2>2, <3>1, <3>2
  <2>5. m = nat[n + 1].m
    BY <2>2, <2>3 DEF StackInv, Saved
  <2>6. m.rip \in Places /\ LoopOK(m, mem, cbs, n)
    BY <2>3, <2>5 DEF StackInv, NativeOK
  <2>7. n \in 0 .. Len(cbs) /\ Limit(cbs, n) \in Int /\ At(mem, Limit(cbs, n)) \in {Sentinel(n), Wild}
    BY Typed DEF StackInv, Marked
  <2>8. m'.sp = m.sp + 1 /\ m'.rip = At(mem, m.sp)
    BY <2>1, <2>2 DEF Machine, Loaded, At
  <2>9. \A i \in 1 .. n : cbs[i] = nat[i].m
    BY DEF StackInv, Saved
  <2>10. \A k \in 1 .. n, i \in 1 .. n : i <= k => Limit(cbs, k) + 1 < nat[i].m.sp
    BY DEF StackInv, Nested
  <2>11. Marked(mem', cbs')
    BY <2>2 DEF StackInv
  <2>12. \A i \in 1 .. n : NativeOK(mem, nat, cbs, i)
    BY <2>3 DEF StackInv
  <2>n. Len(cbs) = n
    OBVIOUS
  <2> HIDE DEF n
  <2>13. LoopOK(m', mem, cbs, n)
    BY <2>2, <2>6, <2>7, <2>8, PopOK
  <2>14. Saved(m', nat', cbs')
    BY <2>2, <2>4, <2>9, <2>n DEF Saved
  <2>15. Nested(nat', cbs')
    BY <2>2, <2>4, <2>10, <2>n DEF Nested
  <2>16. \A i \in 1 .. Len(nat') : NativeOK(mem', nat', cbs', i)
    BY <2>2, <2>4, <2>12 DEF NativeOK
  <2> QED
    BY <2>2, <2>11, <2>13, <2>14, <2>15, <2>16, <2>n DEF StackInv
<1> QED
  BY <1>1, <1>2, <1>3, <1>4, <1>5, <1>6, <1>7, <1>8, <1>9, <1>10, <1>11 DEF Next

LEMMA StackAlways == Spec => []StackInv
<1>1. ASSUME Init PROVE StackInv
  <2>1. /\ Len(nat) = 0 /\ Len(cbs) = 0 /\ m.sp = Top /\ m.rip \in Code /\ Top \in Int
        /\ mem = [a \in 0 .. Top |-> IF a = Top THEN ReturnMagic ELSE Wild]
    BY <1>1, EngineAssumption DEF Init
  <2>2. Saved(m, nat, cbs) /\ Nested(nat, cbs)
    BY <2>1 DEF Saved, Nested
  <2>3. Marked(mem, cbs)
    BY <2>1, EngineAssumption DEF Marked, At, Limit, Sentinel, InStack
  <2>4. LoopOK(m, mem, cbs, Len(cbs))
    BY <2>1 DEF LoopOK, Limit, Places
  <2> QED
    BY <2>1, <2>2, <2>3, <2>4 DEF StackInv
<1> QED
  BY <1>1, EngineTypeCorrect, StackInductive, PTL DEF Spec

\* Callbacks are transparent to the native function that makes them: it finds
\* the machine as the guest left it, however deep the nesting.
THEOREM CallbacksTransparent == Spec => []NativeUndisturbed
<1>1. TypeOK /\ StackInv => NativeUndisturbed
  <2> SUFFICES ASSUME TypeOK, StackInv, ~ InGuest PROVE m = Last(nat).m
    BY DEF NativeUndisturbed
  <2>1. m = nat[Len(nat)].m
    BY DEF StackInv, Saved, InGuest
  <2> QED
    BY <2>1 DEF Last
<1> QED
  BY <1>1, EngineTypeCorrect, StackAlways, PTL

\* The return address of every native call in progress is still in its slot
\* of the guest stack, whatever the callbacks above it wrote there.
THEOREM ReturnAddressesKept == Spec => []ReturnsIntact
<1>1. StackInv => ReturnsIntact
  BY DEF StackInv, ReturnsIntact, NativeOK, At, Loaded
<1> QED
  BY <1>1, StackAlways, PTL

\* The two sentinels are never confused: a callback ends only its own loop,
\* and main() returning is seen only by rsd_cpu_run.
THEOREM SentinelsMatch == Spec => []MagicMatchesLoop
<1>1. TypeOK /\ StackInv => MagicMatchesLoop
  <2> SUFFICES ASSUME TypeOK, StackInv, InGuest
               PROVE  /\ m.rip = CallbackMagic => cbs # << >>
                      /\ m.rip = ReturnMagic => cbs = << >>
    BY DEF MagicMatchesLoop
  <2>1. LoopOK(m, mem, cbs, Len(cbs)) /\ m.sp \in Int /\ Len(cbs) \in Nat
    BY Typed DEF StackInv
  <2>2. Limit(cbs, Len(cbs)) \in Int
    BY <2>1, Typed
  <2>3. m.rip \in {Sentinel(Len(cbs)), Wild} \cup Places
    BY <2>1, <2>2 DEF LoopOK
  <2>4. m.rip \in {CallbackMagic, ReturnMagic} => m.rip = Sentinel(Len(cbs))
    BY <2>3, AddressAssumption DEF Places
  <2>5. cbs \in Seq(Machine) /\ (cbs = << >> <=> Len(cbs) = 0)
    BY EmptySeq DEF TypeOK
  <2> QED
    BY <2>4, <2>5, AddressAssumption DEF Sentinel
<1> QED
  BY <1>1, EngineTypeCorrect, StackAlways, PTL
-----------------------------------------------------------------------------
(* The pool of trampolines.                                                *)

LEMMA PoolInductive == TypeOK /\ PoolSound /\ [Next]_vars => PoolSound'
<1> SUFFICES ASSUME TypeOK, PoolSound, [Next]_vars PROVE PoolSound'
  OBVIOUS
<1>1. CASE UNCHANGED <<targets, given>>
  BY <1>1 DEF PoolSound, IsInjective
<1>2. ASSUME NEW g \in Goals, targets' = rsd_callback_for(g)
      PROVE  IsInjective(targets') /\ Len(targets') <= TrampCount
  <2>0. targets \in Seq(Goals) /\ Len(targets) \in Nat /\ DOMAIN targets = 1 .. Len(targets)
    BY DEF TypeOK
  <2>1. CASE Contains(targets, g) \/ Len(targets) = TrampCount
    BY <1>2, <2>1 DEF rsd_callback_for, PoolSound, IsInjective
  <2>2. CASE ~ Contains(targets, g) /\ Len(targets) # TrampCount
    <3>1. targets' = Append(targets, g)
      BY <1>2, <2>2 DEF rsd_callback_for
    <3>2. /\ Len(targets') = Len(targets) + 1 /\ DOMAIN targets' = 1 .. (Len(targets) + 1)
          /\ targets'[Len(targets) + 1] = g
          /\ \A k \in 1 .. Len(targets) : targets'[k] = targets[k]
      BY <2>0, <3>1
    <3>3. \A k \in 1 .. Len(targets) : targets[k] # g
      BY <2>2 DEF Contains
    <3>4. ASSUME NEW j \in 1 .. (Len(targets) + 1), NEW k \in 1 .. (Len(targets) + 1),
                 targets'[j] = targets'[k]
          PROVE  j = k
      <4>1. j \in 1 .. Len(targets) \/ j = Len(targets) + 1
        BY <2>0
      <4>2. k \in 1 .. Len(targets) \/ k = Len(targets) + 1
        BY <2>0
      <4>3. ASSUME j \in 1 .. Len(targets), k \in 1 .. Len(targets) PROVE j = k
        <5>1. targets[j] = targets[k]
          BY <3>2, <3>4, <4>3
        <5> QED
          BY <2>0, <4>3, <5>1 DEF PoolSound, IsInjective
      <4> QED
        BY <3>2, <3>3, <3>4, <4>1, <4>2, <4>3
    <3>5. Len(targets') <= TrampCount
      <4>1. Len(targets) <= TrampCount /\ Len(targets) # TrampCount
        BY <2>2 DEF PoolSound
      <4>2. TrampCount \in Nat
        BY EngineAssumption
      <4>3. Len(targets) \in Nat /\ Len(targets') = Len(targets) + 1
        BY <2>0, <3>2
      <4> QED
        BY <4>1, <4>2, <4>3
    <3> QED
      BY <3>2, <3>4, <3>5 DEF IsInjective
  <2> QED
    BY <2>1, <2>2
<1>3. ASSUME NEW g \in Goals, targets' = rsd_callback_for(g),
             given' = given \cup [fn : {g}, tramp : Trampolines(targets', g)],
             NEW h \in given'
      PROVE  targets'[h.tramp] = h.fn
  <2>1. CASE h \in given
    <3>1. h.tramp \in 1 .. Len(targets) /\ targets[h.tramp] = h.fn
      BY <2>1, GivenLeads DEF PoolSound
    <3>2. targets'[h.tramp] = targets[h.tramp]
      BY <1>3, <3>1, PoolGrows
    <3> QED
      BY <3>1, <3>2
  <2>2. CASE h \in [fn : {g}, tramp : Trampolines(targets', g)]
    BY <2>2 DEF Trampolines
  <2> QED
    BY <1>3, <2>1, <2>2
<1>4. Next => \/ UNCHANGED <<targets, given>>
              \/ \E g \in Goals :
                   /\ targets' = rsd_callback_for(g)
                   /\ given' = given \cup [fn : {g}, tramp : Trampolines(targets', g)]
  BY DEF Next, StepCallbackMagic, StepReturnMagic, StepImport, StepCannotForward, StepMissing,
         StepNotExecutable, StepCompute, StepCall, StepRet, StepFault, StepExit, RunBlock,
         GuestCall, GuestCallEnd, NativeReturn
<1>5. UNCHANGED vars => UNCHANGED <<targets, given>>
  BY DEF vars
<1> QED
  BY <1>1, <1>2, <1>3, <1>4, <1>5 DEF PoolSound

\* Every trampoline native code was ever given still leads to the function it
\* was given for, also when the pool has run out, which takes TrampCount
\* different functions.
THEOREM PoolAlwaysSound == Spec => []PoolSound
<1>1. Init => PoolSound
  BY EngineAssumption DEF Init, PoolSound, IsInjective
<1> QED
  BY <1>1, PoolInductive, EngineTypeCorrect, PTL DEF Spec

-----------------------------------------------------------------------------
(* The budget, when no native function calls back: a callback may count     *)
(* past the value the outer loop compares with.                             *)

\* Nothing runs once the budget is used up; a native function is entered only
\* by a machine that runs, so it cannot count past it on the way back either.
BudgetInv ==
  /\ cbs = << >>
  /\ nat # << >> => running
  /\ Budget # 0 =>
       /\ running => icount < Budget
       /\ icount < Budget + MaxBlock
       /\ ~ UseJit => icount <= Budget

LEMMA BudgetInductive ==
  ASSUME ~ CallsBack
  PROVE  TypeOK /\ BudgetInv /\ [Next]_vars => BudgetInv'
<1> SUFFICES ASSUME TypeOK, BudgetInv, [Next]_vars PROVE BudgetInv'
  OBVIOUS
<1>0. Budget \in Nat /\ MaxBlock \in Nat /\ MaxBlock >= 1 /\ icount \in Nat /\ running \in BOOLEAN
  BY EngineAssumption DEF TypeOK
<1>g. InGuest => nat = << >>
  BY EmptySeq DEF InGuest, BudgetInv, TypeOK
<1>a. ASSUME NEW ok \in BOOLEAN, NEW why, Tally(ok, why), cbs' = cbs, running, nat' = << >>
      PROVE  BudgetInv'
  <2>1. /\ running' = (ok /\ ~ (Budget # 0 /\ icount + 1 = Budget))
        /\ icount' = Capped(icount + 1)
    BY <1>a DEF Tally, BudgetInv
  <2>2. ASSUME Budget # 0
        PROVE  /\ running' => icount' < Budget
               /\ icount' < Budget + MaxBlock /\ icount' <= Budget
    <3>1. icount < Budget
      BY <1>a, <2>2 DEF BudgetInv
    <3>2. icount' = icount + 1
      BY <1>0, <2>1, <3>1 DEF Capped
    <3>3. icount + 1 < Budget + MaxBlock /\ icount + 1 <= Budget
      BY <1>0, <3>1
    <3>4. icount + 1 # Budget => icount + 1 < Budget
      BY <1>0, <3>1
    <3> QED
      BY <2>1, <2>2, <3>2, <3>3, <3>4
  <2> QED
    BY <1>a, <2>2 DEF BudgetInv
<1>1. CASE UNCHANGED vars
  BY <1>1 DEF BudgetInv, vars
<1>2. CASE \/ StepCallbackMagic \/ StepReturnMagic \/ StepCannotForward \/ StepMissing
           \/ StepNotExecutable \/ StepCompute \/ StepCall \/ StepRet \/ StepFault \/ StepExit
  <2>1. /\ cbs' = cbs /\ nat' = nat /\ InGuest /\ running
        /\ \E ok \in BOOLEAN : \E why : Tally(ok, why)
    BY <1>2 DEF StepCallbackMagic, StepReturnMagic, StepCannotForward, StepMissing, StepNotExecutable,
                StepCompute, StepCall, StepRet, StepFault, StepExit, Interpreting
  <2> QED
    BY <1>a, <1>g, <2>1
<1>3. CASE StepImport
  BY <1>3 DEF StepImport, Interpreting, BudgetInv
<1>4. CASE RunBlock
  <2>1. PICK n \in 2 .. MaxBlock, faults \in BOOLEAN :
          /\ icount' = Capped(icount + n)
          /\ running' = (~ faults /\ ~ (Budget # 0 /\ icount + n >= Budget))
    BY <1>4 DEF RunBlock
  <2>2. cbs' = cbs /\ nat' = nat /\ nat = << >> /\ running /\ UseJit
    BY <1>4 DEF RunBlock, Outer
  <2>3. ASSUME Budget # 0
        PROVE  (running' => icount' < Budget) /\ icount' < Budget + MaxBlock
    <3>1. icount < Budget
      BY <2>2, <2>3 DEF BudgetInv
    <3>2. icount' = icount + n
      BY <1>0, <2>1, <3>1 DEF Capped
    <3>3. icount + n < Budget + MaxBlock
      BY <1>0, <3>1
    <3>4. ~ (icount + n >= Budget) => icount + n < Budget
      BY <1>0
    <3> QED
      BY <2>1, <2>3, <3>2, <3>3, <3>4
  <2> QED
    BY <2>2, <2>3 DEF BudgetInv
<1>5. CASE GuestCall \/ GuestCallEnd
  BY <1>5 DEF GuestCall, GuestCallEnd, BudgetInv
<1>6. CASE NativeReturn
  <2>1. /\ cbs' = cbs /\ ~ InGuest /\ nat' = Front(nat)
        /\ \E ok \in {running, FALSE} : \E why : Tally(ok, why)
    BY <1>6 DEF NativeReturn
  <2>2. Len(cbs) = 0 /\ Len(nat) = 1 /\ nat # << >> /\ nat \in Seq([m : Machine, ret : Targets])
    BY <2>1, Typed DEF BudgetInv, InGuest, TypeOK
  <2>3. Front(nat) \in Seq([m : Machine, ret : Targets]) /\ Len(Front(nat)) = 0
    BY <2>2, FrontLast
  <2>4. nat' = << >> /\ running
    BY <2>1, <2>2, <2>3, EmptySeq DEF BudgetInv
  <2> QED
    BY <1>0, <1>a, <2>1, <2>4
<1> QED
  BY <1>1, <1>2, <1>3, <1>4, <1>5, <1>6 DEF Next

\* While native functions do not call back, a run with a budget is over once it
\* has counted so many instructions; compiled blocks of any length take it past
\* the budget by less than one block, and the interpreter alone never does.
THEOREM BudgetAlwaysStops ==
  ASSUME ~ CallsBack
  PROVE  Spec => []BudgetStops
<1>1. Init => BudgetInv
  BY EngineAssumption DEF Init, BudgetInv
<1>2. TypeOK /\ BudgetInv /\ [Next]_vars => BudgetInv'
  BY BudgetInductive
<1>3. BudgetInv => BudgetStops
  BY DEF BudgetInv, BudgetStops
<1> QED
  BY <1>1, <1>2, <1>3, EngineTypeCorrect, PTL DEF Spec

=============================================================================
