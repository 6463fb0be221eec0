------------------------- MODULE BlockCompilerProofs -------------------------
(***************************************************************************)
(* Compiled code and the interpreter agree on the flags, for any guest      *)
(* code, any block length and any place where a block is cut short.  The    *)
(* argument is that of flag_liveness(): the flags live before instruction i *)
(* are always equal in both engines, and everything is live at the end.     *)
(***************************************************************************)
EXTENDS BlockCompiler, TLAPS

-----------------------------------------------------------------------------
(* The inductive invariant.                                                *)

\* flag_liveness() has done its work from the end of the block down to, and
\* without, instruction lo.
LiveFrom(lo) ==
  /\ live[count] = FL_ALL
  /\ \A k \in 1 .. count : k > lo =>
       /\ k \in DOMAIN need
       /\ need[k] = flags_written(v[k]) \cap live[k]
       /\ live[k - 1] = (live[k] \ flags_written(v[k])) \cup flags_read(v[k])

\* The first n instructions were emitted with the flags they need.
EmittedTo(n) ==
  /\ Len(code) = n
  /\ \A k \in 1 .. count : k <= n => code[k] = need[k]

Done == phase \in {"compiled", "declined", "run", "faulted", "left"}

FlagInv ==
  /\ TypeOK
  /\ phase = "decode" => i = count /\ LiveFrom(count)
  /\ phase = "liveness" => i <= count /\ LiveFrom(i)
  /\ phase = "emit" => i > 0 /\ LiveFrom(0) /\ EmittedTo(i - 1)
  /\ Done => LiveFrom(0) /\ EmittedTo(count)
  /\ phase = "run" => i > 0 /\ \A f \in live[i - 1] : jf[f] = nf[f]
  /\ phase = "left" => \A f \in Flags : jf[f] = nf[f]

-----------------------------------------------------------------------------
(* What instructions do to the flags.                                      *)

\* flags_written() and flags_read() are sets of flags.
LEMMA FlagSets ==
  ASSUME NEW o \in Insn
  PROVE  flags_written(o) \subseteq Flags /\ flags_read(o) \subseteq Flags
  <1>1. ALUWrites(o.op) \subseteq Flags
    BY DEF ALUWrites, Flags, FL_ALL, FL_INC, FL_LOGIC
  <1>2. cc_reads(o.cc) \subseteq Flags
    BY DEF cc_reads, Flags
  <1> QED
    BY <1>1, <1>2 DEF flags_written, flags_read, Flags, FL_ALL, FL_LOGIC

\* The interpreter overwrites at least what flags_written() promises; beyond
\* that, both engines overwrite the same flags.
LEMMA WritesBound ==
  ASSUME NEW o \in Insn, NEW cl \in BOOLEAN, NEW L \in SUBSET Flags
  PROVE  LET W == flags_written(o)
             C == CompiledWrites(o, W \cap L, cl)
             I == InterpWrites(o, cl)
         IN  /\ W \subseteq I
             /\ W \cap L \subseteq C
             /\ C \subseteq I
             /\ C = I \/ I = W
  <1> DEFINE W == flags_written(o)
             C == CompiledWrites(o, W \cap L, cl)
             I == InterpWrites(o, cl)
  <1>0. o.kind \in Kinds
    BY DEF Insn
  <1>1. CASE o.kind = "SHIFT"
    <2>1. C = I
      BY <1>1 DEF CompiledWrites
    <2>2. W \subseteq I
      BY <1>1 DEF flags_written, InterpWrites
    <2> QED BY <2>1, <2>2
  <1>2. CASE o.kind = "COMIS"
    <2>1. C = I /\ W = {}
      BY <1>2 DEF CompiledWrites, flags_written
    <2> QED BY <2>1
  <1>3. CASE o.kind \in {"ALU", "IMUL"}
    <2>1. I = W
      BY <1>3 DEF InterpWrites
    <2>2. C = W \cap L \/ C = W \/ (C = {} /\ W \cap L = {})
      BY <1>3 DEF CompiledWrites
    <2> QED BY <2>1, <2>2
  <1>4. CASE o.kind \notin {"SHIFT", "COMIS", "ALU", "IMUL"}
    <2>1. C = I /\ I = W
      BY <1>4 DEF CompiledWrites, InterpWrites
    <2> QED BY <2>1
  <1> QED BY <1>1, <1>2, <1>3, <1>4

\* One instruction, compiled to produce what is live after it, keeps the
\* engines in agreement on the live flags.
LEMMA InsnAgrees ==
  ASSUME NEW o \in Insn, NEW cl \in BOOLEAN, NEW L \in SUBSET Flags, NEW k \in Nat,
         NEW a \in [Flags -> Nat], NEW b \in [Flags -> Nat],
         \A f \in (L \ flags_written(o)) \cup flags_read(o) : a[f] = b[f]
  PROVE  \A f \in L : Written(a, CompiledWrites(o, flags_written(o) \cap L, cl), k)[f]
                    = Written(b, InterpWrites(o, cl), k)[f]
  <1> DEFINE W == flags_written(o)
             C == CompiledWrites(o, W \cap L, cl)
             I == InterpWrites(o, cl)
  <1>1. W \cap L \subseteq C /\ C \subseteq I /\ W \subseteq I /\ (C = I \/ I = W)
    BY WritesBound
  <1>2. \A f \in L \ W : a[f] = b[f]
    OBVIOUS
  <1> HIDE DEF W, C, I
  <1>3. ASSUME NEW f \in L
        PROVE  Written(a, C, k)[f] = Written(b, I, k)[f]
    <2>1. f \in Flags
      OBVIOUS
    <2>2. CASE f \in W
      BY <1>1, <2>1, <2>2 DEF Written
    <2>3. CASE f \notin W
      <3>1. a[f] = b[f]
        BY <1>2, <2>3
      <3>2. f \in C <=> f \in I
        BY <1>1, <2>3
      <3> QED BY <2>1, <3>1, <3>2 DEF Written
    <2> QED BY <2>2, <2>3
  <1> QED BY <1>3 DEF W, C, I

-----------------------------------------------------------------------------
(* The steps.                                                              *)

LEMMA InitFlagInv == Init => FlagInv
  BY BlockAssumption, SMTT(30)
  DEF Init, FlagInv, TypeOK, LiveFrom, Done, count, Clean, Flags, FL_ALL

LEMMA DecodePreserves == FlagInv /\ Decode => FlagInv'
  <1> SUFFICES ASSUME FlagInv, Decode PROVE FlagInv'
    OBVIOUS
  <1>1. PICK o \in Insns : /\ v' = Append(v, o)
                           /\ ended' = terminates(o)
                           /\ phase' = IF terminates(o) THEN "liveness" ELSE "decode"
    BY DEF Decode
  <1>2. v' \in Seq(Insns) /\ Len(v') = Len(v) + 1 /\ Len(v) \in Nat
    BY <1>1 DEF FlagInv, TypeOK
  <1>3. i' = Len(v') /\ live' = [k \in 0 .. Len(v') |-> FL_ALL]
    BY <1>2 DEF Decode, count
  <1>4. Len(v') <= MaxInsns
    BY <1>2, BlockAssumption DEF Decode, count
  <1>5. TypeOK'
    BY <1>1, <1>2, <1>3, <1>4 DEF Decode, FlagInv, TypeOK, count, terminates, FL_ALL
  <1>6. LiveFrom(count)' /\ LiveFrom(i)'
    BY <1>2, <1>3 DEF LiveFrom, count
  <1> QED
    BY <1>1, <1>2, <1>3, <1>5, <1>6 DEF FlagInv, Done, count

LEMMA LivenessPreserves == FlagInv /\ FlagLiveness => FlagInv'
  <1> SUFFICES ASSUME FlagInv, FlagLiveness PROVE FlagInv'
    OBVIOUS
  <1>1. /\ v \in Seq(Insns) /\ Len(v) \in Nat /\ i \in 1 .. Len(v)
        /\ live \in [0 .. Len(v) -> SUBSET Flags] /\ v' = v /\ phase' = "liveness"
        /\ i' = i - 1 /\ LiveFrom(i)
    BY DEF FlagLiveness, FlagInv, TypeOK, count
  <1>2. v[i] \in Insn
    BY <1>1, BlockAssumption
  <1> DEFINE before == (live[i] \ flags_written(v[i])) \cup flags_read(v[i])
  <1>3. before \in SUBSET Flags
    BY <1>1, <1>2, FlagSets
  <1>4. live' = [live EXCEPT ![i - 1] = before]
    BY DEF FlagLiveness
  <1> HIDE DEF before
  <1>5. live' \in [0 .. Len(v) -> SUBSET Flags]
    BY <1>1, <1>3, <1>4
  <1>6. TypeOK'
    BY <1>1, <1>5 DEF FlagLiveness, FlagInv, TypeOK, count
  <1>7. LiveFrom(i)'
    <2>1. live'[Len(v)] = FL_ALL
      BY <1>1, <1>4 DEF LiveFrom, count
    <2>2. ASSUME NEW k \in 1 .. Len(v), k > i - 1
          PROVE  /\ k \in DOMAIN need'
                 /\ need'[k] = flags_written(v[k]) \cap live'[k]
                 /\ live'[k - 1] = (live'[k] \ flags_written(v[k])) \cup flags_read(v[k])
      <3>1. live'[k] = live[k]
        BY <1>1, <1>4, <2>2
      <3>2. k \in DOMAIN need'
        BY <1>1 DEF FlagLiveness, count
      <3>3. CASE k = i
        <4>1. need'[k] = flags_written(v[k]) \cap live[k]
          BY <1>1, <3>3 DEF FlagLiveness, count
        <4>2. live'[k - 1] = before
          BY <1>1, <1>4, <3>3
        <4> QED BY <3>1, <3>2, <3>3, <4>1, <4>2 DEF before
      <3>4. CASE k > i
        <4>1. /\ k \in DOMAIN need /\ need[k] = flags_written(v[k]) \cap live[k]
              /\ live[k - 1] = (live[k] \ flags_written(v[k])) \cup flags_read(v[k])
          BY <1>1, <3>4 DEF LiveFrom, count
        <4>2. need'[k] = need[k]
          BY <1>1, <3>4, <4>1 DEF FlagLiveness, count
        <4>3. live'[k - 1] = live[k - 1]
          BY <1>1, <1>4, <3>4
        <4> QED BY <3>1, <3>2, <4>1, <4>2, <4>3
      <3> QED BY <1>1, <2>2, <3>3, <3>4
    <2>3. v' = v /\ i' = i - 1 /\ Len(v) \in Nat
      BY <1>1
    <2> QED BY <2>1, <2>2, <2>3 DEF LiveFrom, count
  <1> QED
    BY <1>1, <1>6, <1>7 DEF FlagInv, Done, count

LEMMA EmitPreserves == FlagInv /\ Emit => FlagInv'
  <1> SUFFICES ASSUME FlagInv, Emit PROVE FlagInv'
    OBVIOUS
  <1>1. /\ v \in Seq(Insns) /\ Len(v) \in Nat /\ i \in 1 .. Len(v)
        /\ live \in [0 .. Len(v) -> SUBSET Flags] /\ v' = v /\ phase' = "emit"
        /\ i' = i + 1 /\ LiveFrom(0) /\ EmittedTo(i - 1) /\ need' = need /\ live' = live
        /\ code \in Seq(SUBSET Flags) /\ code' = Append(code, need[i])
    BY DEF Emit, FlagInv, TypeOK, count
  <1>2. need[i] \in SUBSET Flags
    <2>1. need[i] = flags_written(v[i]) \cap live[i]
      BY <1>1 DEF LiveFrom, count
    <2>2. live[i] \in SUBSET Flags
      BY <1>1
    <2> QED BY <2>1, <2>2
  <1>3. code' \in Seq(SUBSET Flags) /\ Len(code') = i
    BY <1>1, <1>2 DEF EmittedTo
  <1>4. TypeOK'
    BY <1>1, <1>3 DEF Emit, FlagInv, TypeOK, count
  <1>5. LiveFrom(0)'
    BY <1>1 DEF LiveFrom, count
  <1>6. EmittedTo(i - 1)'
    <2>1. \A k \in 1 .. Len(v) : k <= i => code'[k] = need[k]
      <3> SUFFICES ASSUME NEW k \in 1 .. Len(v), k <= i PROVE code'[k] = need[k]
        OBVIOUS
      <3>1. CASE k = i
        BY <1>1, <1>2, <1>3, <3>1 DEF EmittedTo
      <3>2. CASE k < i
        BY <1>1, <1>2, <3>2 DEF EmittedTo, count
      <3>3. i \in Nat
        BY <1>1
      <3> QED BY <3>1, <3>2, <3>3
    <2> QED BY <1>1, <1>3, <2>1 DEF EmittedTo, count
  <1> QED
    BY <1>1, <1>4, <1>5, <1>6 DEF FlagInv, Done, count

LEMMA OverflowPreserves == FlagInv /\ EmitOverflows => FlagInv'
  <1> SUFFICES ASSUME FlagInv, EmitOverflows PROVE FlagInv'
    OBVIOUS
  <1>1. /\ v \in Seq(Insns) /\ Len(v) \in Nat /\ i \in 1 .. Len(v)
        /\ v' = SubSeq(v, 1, i - 1) /\ phase' = "liveness" /\ i' = i - 1
        /\ live' = [k \in 0 .. (i - 1) |-> FL_ALL]
    BY DEF EmitOverflows, FlagInv, TypeOK, count
  <1>2. v' \in Seq(Insns) /\ Len(v') = i - 1
    BY <1>1
  <1>3. TypeOK'
    <2>1. i - 1 <= MaxInsns
      BY <1>1, BlockAssumption DEF FlagInv, TypeOK, count
    <2>2. live' \in [0 .. (i - 1) -> SUBSET Flags]
      BY <1>1 DEF FL_ALL
    <2>3. i' \in 0 .. (Len(v') + 1)
      BY <1>1, <1>2
    <2>4. code' \in Seq(SUBSET Flags) /\ jf' \in [Flags -> Nat] /\ nf' \in [Flags -> Nat]
      BY DEF EmitOverflows, FlagInv, TypeOK
    <2>5. ended' \in BOOLEAN
      BY DEF EmitOverflows
    <2> QED BY <1>1, <1>2, <2>1, <2>2, <2>3, <2>4, <2>5 DEF TypeOK, count
  <1>4. LiveFrom(i)'
    BY <1>1, <1>2 DEF LiveFrom, count
  <1> QED
    BY <1>1, <1>2, <1>3, <1>4 DEF FlagInv, Done, count

LEMMA RunPreserves == FlagInv /\ Run => FlagInv'
  <1> SUFFICES ASSUME FlagInv, Run PROVE FlagInv'
    OBVIOUS
  <1>1. /\ v \in Seq(Insns) /\ Len(v) \in Nat /\ i \in 1 .. Len(v)
        /\ live \in [0 .. Len(v) -> SUBSET Flags] /\ v' = v /\ phase' = "run"
        /\ i' = i + 1 /\ LiveFrom(0) /\ EmittedTo(Len(v))
        /\ need' = need /\ live' = live /\ code' = code
        /\ jf \in [Flags -> Nat] /\ nf \in [Flags -> Nat]
    BY DEF Run, FlagInv, TypeOK, count, Done
  <1>2. v[i] \in Insn /\ i \in Nat
    BY <1>1, BlockAssumption
  <1>3. code[i] = flags_written(v[i]) \cap live[i]
    BY <1>1 DEF LiveFrom, EmittedTo, count
  <1>4. \A f \in (live[i] \ flags_written(v[i])) \cup flags_read(v[i]) : jf[f] = nf[f]
    <2>1. \A f \in live[i - 1] : jf[f] = nf[f]
      BY DEF Run, FlagInv
    <2> QED BY <1>1, <2>1 DEF LiveFrom, count
  <1>5. PICK cl \in BOOLEAN : /\ jf' = Written(jf, CompiledWrites(v[i], code[i], cl), i)
                              /\ nf' = Written(nf, InterpWrites(v[i], cl), i)
    BY DEF Run
  <1>6. jf' \in [Flags -> Nat] /\ nf' \in [Flags -> Nat]
    BY <1>1, <1>2, <1>5 DEF Written
  <1>7. \A f \in live[i] : jf'[f] = nf'[f]
    <2>1. live[i] \in SUBSET Flags
      BY <1>1
    <2>2. \A f \in live[i] :
            Written(jf, CompiledWrites(v[i], flags_written(v[i]) \cap live[i], cl), i)[f]
              = Written(nf, InterpWrites(v[i], cl), i)[f]
      <3>1. jf \in [Flags -> Nat] /\ nf \in [Flags -> Nat]
        BY <1>1
      <3> QED BY <1>2, <1>4, <2>1, <3>1, InsnAgrees, ZenonT(40)
    <2> QED BY <1>3, <1>5, <2>2
  <1>8. TypeOK'
    BY <1>1, <1>6 DEF Run, FlagInv, TypeOK, count
  <1>9. LiveFrom(0)' /\ EmittedTo(count)'
    BY <1>1 DEF LiveFrom, EmittedTo, count
  <1>10. \A f \in live'[i' - 1] : jf'[f] = nf'[f]
    BY <1>1, <1>7
  <1> QED
    BY <1>1, <1>8, <1>9, <1>10 DEF FlagInv, Done, count

LEMMA FlagInvPreserved == FlagInv /\ [Next]_vars => FlagInv'
  <1> SUFFICES ASSUME FlagInv, [Next]_vars PROVE FlagInv'
    OBVIOUS
  <1>0. v \in Seq(Insns) /\ Len(v) \in Nat /\ i \in 0 .. (Len(v) + 1)
    BY DEF FlagInv, TypeOK, count
  <1>1. CASE Decode
    BY <1>1, DecodePreserves
  <1>2. CASE DecodeStops
    BY <1>0, <1>2 DEF DecodeStops, FlagInv, TypeOK, LiveFrom, EmittedTo, Done, count
  <1>3. CASE FlagLiveness
    BY <1>3, LivenessPreserves
  <1>4. CASE FlagLivenessEnds
    <2>1. TypeOK'
      BY <1>0, <1>4 DEF FlagLivenessEnds, FlagInv, TypeOK, count
    <2>2. LiveFrom(0)' /\ EmittedTo(0)'
      BY <1>0, <1>4, SMTT(30) DEF FlagLivenessEnds, FlagInv, LiveFrom, EmittedTo, count
    <2> QED BY <1>4, <2>1, <2>2 DEF FlagLivenessEnds, FlagInv, Done
  <1>5. CASE Emit
    BY <1>5, EmitPreserves
  <1>6. CASE EmitOverflows
    BY <1>6, OverflowPreserves
  <1>7. CASE Compiled
    BY <1>0, <1>7 DEF Compiled, FlagInv, TypeOK, LiveFrom, EmittedTo, Done, count
  <1>8. CASE Enter
    <2>1. TypeOK'
      BY <1>0, <1>8 DEF Enter, FlagInv, TypeOK, count, Clean
    <2>2. LiveFrom(0)' /\ EmittedTo(count)'
      BY <1>0, <1>8 DEF Enter, FlagInv, LiveFrom, EmittedTo, Done, count
    <2>3. \A f \in live'[0] : jf'[f] = nf'[f]
      BY <1>8 DEF Enter
    <2> QED BY <1>8, <2>1, <2>2, <2>3 DEF Enter, FlagInv, Done
  <1>9. CASE Run
    BY <1>9, RunPreserves
  <1>10. CASE RunFaults
    BY <1>0, <1>10 DEF RunFaults, FlagInv, TypeOK, LiveFrom, EmittedTo, Done, count
  <1>11. CASE Leave
    <2>1. TypeOK' /\ LiveFrom(0)' /\ EmittedTo(count)'
      BY <1>0, <1>11 DEF Leave, FlagInv, TypeOK, LiveFrom, EmittedTo, Done, count
    <2>2. live[i - 1] = Flags
      BY <1>0, <1>11 DEF Leave, FlagInv, LiveFrom, Done, count, FL_ALL
    <2>3. \A f \in Flags : jf'[f] = nf'[f]
      BY <1>11, <2>2 DEF Leave, FlagInv
    <2> QED BY <1>11, <2>1, <2>3 DEF Leave, FlagInv, Done
  <1>12. CASE UNCHANGED vars
    BY <1>12 DEF vars, FlagInv, TypeOK, LiveFrom, EmittedTo, Done, count
  <1> QED
    BY <1>1, <1>2, <1>3, <1>4, <1>5, <1>6, <1>7, <1>8, <1>9, <1>10, <1>11, <1>12 DEF Next

-----------------------------------------------------------------------------
(* The theorems.                                                           *)

LEMMA FlagInvAlways == Spec => []FlagInv
  BY InitFlagInv, FlagInvPreserved, PTL DEF Spec

\* A conditional jump or setcc of a compiled block never decides on a flag
\* whose computation was skipped, for any guest code and after any cuts.
THEOREM FlagsAgree == Spec => []ReadersAgree
  <1>1. FlagInv => ReadersAgree
    <2> SUFFICES ASSUME FlagInv, phase = "run", i <= count,
                        NEW f \in flags_read(v[i])
                 PROVE  jf[f] = nf[f]
      BY DEF ReadersAgree
    <2>1. i \in 1 .. count /\ v[i] \in Insns
      BY DEF FlagInv, TypeOK, count
    <2>2. f \in live[i - 1]
      BY <2>1 DEF FlagInv, LiveFrom, Done, count
    <2> QED BY <2>2 DEF FlagInv
  <1> QED
    BY <1>1, FlagInvAlways, PTL

\* Where a compiled block is left at its end, no flag is missing: each is as
\* the interpreter would have left it.
THEOREM ExitFlagsAgree == Spec => []ExitAgrees
  <1>1. FlagInv => ExitAgrees
    BY DEF FlagInv, TypeOK, ExitAgrees
  <1> QED
    BY <1>1, FlagInvAlways, PTL

-----------------------------------------------------------------------------
(* How a block ends.                                                       *)

\* At every moment, while the block grows or is cut, only its last
\* instruction can be a terminator, and `ended` tells whether it is.
EndInv ==
  /\ phase = "decode" => ~ ended
  /\ \A k \in 1 .. count : terminates(v[k]) <=> (k = count /\ ended)

LEMMA EndInvPreserved == FlagInv /\ EndInv /\ [Next]_vars => EndInv'
  <1> SUFFICES ASSUME FlagInv, EndInv, [Next]_vars PROVE EndInv'
    OBVIOUS
  <1>0. v \in Seq(Insns) /\ Len(v) \in Nat /\ i \in 0 .. (Len(v) + 1) /\ ended \in BOOLEAN
    BY DEF FlagInv, TypeOK, count
  <1>1. CASE Decode
    <2>1. PICK o \in Insns : /\ v' = Append(v, o)
                             /\ ended' = terminates(o)
                             /\ phase' = IF terminates(o) THEN "liveness" ELSE "decode"
      BY <1>1 DEF Decode
    <2>2. Len(v') = Len(v) + 1 /\ v'[Len(v) + 1] = o /\ \A k \in 1 .. Len(v) : v'[k] = v[k]
      BY <1>0, <2>1
    <2>3. \A k \in 1 .. Len(v) : ~ terminates(v[k])
      BY <1>1 DEF Decode, EndInv, count
    <2>4. ASSUME NEW k \in 1 .. Len(v')
          PROVE  terminates(v'[k]) <=> (k = Len(v') /\ ended')
      <3>1. CASE k = Len(v) + 1
        BY <2>1, <2>2, <3>1
      <3>2. CASE k # Len(v) + 1
        <4>1. k \in 1 .. Len(v)
          BY <1>0, <2>2, <3>2
        <4> QED BY <2>2, <2>3, <3>2, <4>1
      <3> QED BY <3>1, <3>2
    <2>5. phase' = "decode" => ~ ended'
      BY <2>1
    <2> QED BY <2>4, <2>5 DEF EndInv, count
  <1>2. CASE EmitOverflows
    <2>1. i \in 1 .. Len(v) /\ v' = SubSeq(v, 1, i - 1) /\ ended' = FALSE /\ phase' = "liveness"
      BY <1>0, <1>2 DEF EmitOverflows, FlagInv, count
    <2>2. Len(v') = i - 1 /\ \A k \in 1 .. (i - 1) : v'[k] = v[k]
      BY <1>0, <2>1
    <2>3. \A k \in 1 .. (i - 1) : ~ terminates(v[k])
      BY <1>0, <2>1 DEF EndInv, count
    <2> QED BY <2>1, <2>2, <2>3 DEF EndInv, count
  <1>3. CASE UNCHANGED <<v, ended>> /\ (phase' = "decode" => phase = "decode")
    BY <1>3 DEF EndInv, count
  <1>4. Next => Decode \/ EmitOverflows \/ (UNCHANGED <<v, ended>> /\ (phase' = "decode" => phase = "decode"))
    BY DEF Next, DecodeStops, FlagLiveness, FlagLivenessEnds, Emit, Compiled, Enter, Run, RunFaults, Leave
  <1>5. UNCHANGED vars => UNCHANGED <<v, ended>> /\ (phase' = "decode" => phase = "decode")
    BY DEF vars
  <1> QED
    BY <1>1, <1>2, <1>3, <1>4, <1>5

\* A compiled block knows how it ends: however often it was cut, it has a
\* terminator exactly when `ended` says so, and in last place.
THEOREM EndAlwaysKnown == Spec => []EndKnown
  <1>1. Init => EndInv
    BY DEF Init, EndInv, count
  <1>2. EndInv => EndKnown
    BY DEF EndInv, EndKnown
  <1> QED
    BY <1>1, <1>2, EndInvPreserved, FlagInvAlways, PTL DEF Spec

-----------------------------------------------------------------------------
(* No flag is computed for nothing.                                        *)

\* The flags something may read after instruction k: an instruction, or what
\* follows the block, with nothing in between that overwrites them.
Wanted(k) ==
  {f \in Flags :
     \E j \in (k + 1) .. (count + 1) :
       /\ j = count + 1 \/ f \in flags_read(v[j])
       /\ \A l \in (k + 1) .. (j - 1) : f \notin flags_written(v[l])}

\* The backward walk has found exactly these down to instruction lo.
LiveExact(lo) == \A k \in 0 .. count : k >= lo => live[k] = Wanted(k)

ExactInv ==
  /\ phase = "liveness" => LiveExact(i)
  /\ phase = "emit" \/ Done => LiveExact(0)

LEMMA WantedAtEnd ==
  ASSUME v \in Seq(Insns)
  PROVE  Wanted(count) = FL_ALL
  BY DEF Wanted, FL_ALL, count

\* One step of the walk: what is wanted before instruction k.
LEMMA WantedBefore ==
  ASSUME v \in Seq(Insns), NEW k \in 1 .. count
  PROVE  Wanted(k - 1) = (Wanted(k) \ flags_written(v[k])) \cup flags_read(v[k])
  <1>0. Len(v) \in Nat /\ count = Len(v) /\ k \in Nat /\ k <= count /\ (k - 1) + 1 = k /\ k # count + 1
    BY DEF count
  <1>1. v[k] \in Insn
    BY BlockAssumption DEF count
  <1>2. flags_read(v[k]) \subseteq Flags
    BY <1>1, FlagSets
  <1>3. ASSUME NEW f \in Flags, f \in Wanted(k - 1)
        PROVE  f \in (Wanted(k) \ flags_written(v[k])) \cup flags_read(v[k])
    <2>1. PICK j \in k .. (count + 1) :
            /\ j = count + 1 \/ f \in flags_read(v[j])
            /\ \A l \in k .. (j - 1) : f \notin flags_written(v[l])
      BY <1>0, <1>3 DEF Wanted
    <2>2. CASE j = k
      BY <1>0, <2>1, <2>2
    <2>3. CASE j > k
      <3>1. f \notin flags_written(v[k])
        BY <1>0, <2>1, <2>3
      <3>2. j \in (k + 1) .. (count + 1) /\ \A l \in (k + 1) .. (j - 1) : f \notin flags_written(v[l])
        BY <1>0, <2>1, <2>3
      <3>3. f \in Wanted(k)
        BY <2>1, <3>2 DEF Wanted
      <3> QED BY <3>1, <3>3
    <2> QED BY <1>0, <2>1, <2>2, <2>3
  <1>4. ASSUME NEW f \in Flags, f \in flags_read(v[k])
        PROVE  f \in Wanted(k - 1)
    <2>1. k \in ((k - 1) + 1) .. (count + 1) /\ ((k - 1) + 1) .. (k - 1) = {}
      BY <1>0
    <2> QED BY <1>4, <2>1 DEF Wanted
  <1>5. ASSUME NEW f \in Flags, f \in Wanted(k), f \notin flags_written(v[k])
        PROVE  f \in Wanted(k - 1)
    <2>1. PICK j \in (k + 1) .. (count + 1) :
            /\ j = count + 1 \/ f \in flags_read(v[j])
            /\ \A l \in (k + 1) .. (j - 1) : f \notin flags_written(v[l])
      BY <1>5 DEF Wanted
    <2>2. j \in ((k - 1) + 1) .. (count + 1)
      BY <1>0, <2>1
    <2>3. \A l \in ((k - 1) + 1) .. (j - 1) : f \notin flags_written(v[l])
      <3> SUFFICES ASSUME NEW l \in k .. (j - 1) PROVE f \notin flags_written(v[l])
        BY <1>0
      <3>1. CASE l = k
        BY <1>5, <3>1
      <3>2. CASE l # k
        <4>1. l \in (k + 1) .. (j - 1)
          BY <1>0, <2>1, <3>2
        <4> QED BY <2>1, <4>1
      <3> QED BY <3>1, <3>2
    <2> QED BY <2>1, <2>2, <2>3 DEF Wanted
  <1>6. Wanted(k - 1) \subseteq Flags /\ Wanted(k) \subseteq Flags
    BY DEF Wanted
  <1> QED
    BY <1>2, <1>3, <1>4, <1>5, <1>6

LEMMA ExactInvPreserved == FlagInv /\ ExactInv /\ [Next]_vars => ExactInv'
  <1> SUFFICES ASSUME FlagInv, ExactInv, [Next]_vars PROVE ExactInv'
    OBVIOUS
  <1>0. /\ v \in Seq(Insns) /\ Len(v) \in Nat /\ i \in 0 .. (Len(v) + 1)
        /\ live \in [0 .. Len(v) -> SUBSET Flags]
    BY DEF FlagInv, TypeOK, count
  <1>1. CASE Decode
    <2>1. v' \in Seq(Insns) /\ i' = Len(v') /\ live' = [k \in 0 .. Len(v') |-> FL_ALL]
          /\ phase' \in {"liveness", "decode"} /\ Len(v') \in Nat
      BY <1>0, <1>1 DEF Decode, count
    <2>2. Wanted(count)' = FL_ALL
      BY <2>1 DEF Wanted, FL_ALL, count
    <2>3. LiveExact(i)'
      BY <2>1, <2>2 DEF LiveExact, count
    <2> QED BY <2>1, <2>3 DEF ExactInv, Done
  <1>2. CASE DecodeStops
    <2>1. i = Len(v) /\ live[Len(v)] = FL_ALL
      BY <1>2 DEF DecodeStops, FlagInv, LiveFrom, count
    <2>2. LiveExact(i)
      BY <1>0, <2>1, WantedAtEnd DEF LiveExact, count
    <2>3. LiveExact(i)'
      BY <1>2, <2>2 DEF DecodeStops, LiveExact, Wanted, count
    <2> QED BY <1>2, <2>3 DEF DecodeStops, ExactInv, Done
  <1>3. CASE FlagLiveness
    <2>1. i \in 1 .. Len(v) /\ v' = v /\ phase' = "liveness" /\ i' = i - 1 /\ LiveExact(i)
      BY <1>0, <1>3 DEF FlagLiveness, FlagInv, ExactInv, count
    <2>2. live' = [live EXCEPT ![i - 1] = (live[i] \ flags_written(v[i])) \cup flags_read(v[i])]
      BY <1>3 DEF FlagLiveness
    <2>3. live[i] = Wanted(i)
      BY <2>1 DEF LiveExact, count
    <2>4. live'[i - 1] = Wanted(i - 1)
      BY <1>0, <2>1, <2>2, <2>3, WantedBefore DEF count
    <2>5. ASSUME NEW k \in 0 .. Len(v), k >= i - 1 PROVE live'[k] = Wanted(k)
      <3>1. CASE k = i - 1
        BY <2>4, <3>1
      <3>2. CASE k # i - 1
        <4>1. k >= i /\ live'[k] = live[k]
          BY <1>0, <2>1, <2>2, <2>5, <3>2
        <4> QED BY <2>1, <4>1 DEF LiveExact, count
      <3> QED BY <3>1, <3>2
    <2>6. \A k : Wanted(k)' = Wanted(k)
      BY <2>1 DEF Wanted, count
    <2>7. LiveExact(i)'
      BY <2>1, <2>5, <2>6 DEF LiveExact, count
    <2> QED BY <2>1, <2>7 DEF ExactInv, Done
  <1>4. CASE EmitOverflows
    <2>1. /\ i \in 1 .. Len(v) /\ v' = SubSeq(v, 1, i - 1) /\ phase' = "liveness" /\ i' = i - 1
          /\ live' = [k \in 0 .. (i - 1) |-> FL_ALL]
      BY <1>0, <1>4 DEF EmitOverflows, FlagInv, count
    <2>2. Len(v') = i - 1 /\ i' = Len(v') /\ Len(v') \in Nat /\ live' = [k \in 0 .. Len(v') |-> FL_ALL]
      BY <1>0, <2>1
    <2>3. Wanted(count)' = FL_ALL
      BY <2>2 DEF Wanted, FL_ALL, count
    <2>4. LiveExact(i)'
      BY <2>2, <2>3 DEF LiveExact, count
    <2> QED BY <2>1, <2>4 DEF ExactInv, Done
  <1>5. CASE FlagLivenessEnds
    <2>1. LiveExact(0)'
      BY <1>5 DEF FlagLivenessEnds, ExactInv, LiveExact, Wanted, count
    <2> QED BY <1>5, <2>1 DEF FlagLivenessEnds, ExactInv, Done
  <1>6. CASE /\ UNCHANGED <<v, live>> /\ phase' # "liveness"
             /\ phase' \in {"decode"} \/ phase = "emit" \/ Done
    <2>1. LiveExact(0) => LiveExact(0)'
      BY <1>6 DEF LiveExact, Wanted, count
    <2> QED BY <1>6, <2>1 DEF ExactInv, Done
  <1>7. CASE UNCHANGED vars
    <2>1. UNCHANGED <<v, live, phase, i>>
      BY <1>7 DEF vars
    <2>2. (LiveExact(0) => LiveExact(0)') /\ (LiveExact(i) => LiveExact(i)')
      BY <2>1 DEF LiveExact, Wanted, count
    <2> QED BY <2>1, <2>2 DEF ExactInv, Done
  <1>8. Emit \/ Compiled \/ Enter \/ Run \/ RunFaults \/ Leave =>
          /\ UNCHANGED <<v, live>> /\ phase' # "liveness"
          /\ phase' \in {"decode"} \/ phase = "emit" \/ Done
    BY DEF Emit, Compiled, Enter, Run, RunFaults, Leave, Done
  <1> QED
    BY <1>1, <1>2, <1>3, <1>4, <1>5, <1>6, <1>7, <1>8 DEF Next

\* An instruction of a compiled block computes a flag exactly when something
\* can read it before it is overwritten, for any guest code and any cuts.
THEOREM NeedAlwaysExact == Spec => []NeedExact
  <1>1. Init => ExactInv
    BY DEF Init, ExactInv, Done
  <1>2. FlagInv /\ ExactInv => NeedExact
    <2> SUFFICES ASSUME FlagInv, ExactInv, phase = "compiled", NEW k \in 1 .. count
                 PROVE  code[k] = {f \in flags_written(v[k]) :
                                     \E j \in (k + 1) .. (count + 1) :
                                       /\ j = count + 1 \/ f \in flags_read(v[j])
                                       /\ \A l \in (k + 1) .. (j - 1) : f \notin flags_written(v[l])}
      BY DEF NeedExact
    <2>1. v \in Seq(Insns) /\ Len(v) \in Nat /\ v[k] \in Insn
      BY BlockAssumption DEF FlagInv, TypeOK, count
    <2>2. code[k] = flags_written(v[k]) \cap live[k]
      BY <2>1 DEF FlagInv, Done, LiveFrom, EmittedTo, count
    <2>3. live[k] = Wanted(k)
      BY <2>1 DEF ExactInv, Done, LiveExact, count
    <2>4. flags_written(v[k]) \subseteq Flags
      BY <2>1, FlagSets
    <2> QED BY <2>2, <2>3, <2>4 DEF Wanted
  <1> QED
    BY <1>1, <1>2, ExactInvPreserved, FlagInvAlways, PTL DEF Spec

=============================================================================
