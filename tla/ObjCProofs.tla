----------------------------- MODULE ObjCProofs -----------------------------
(***************************************************************************)
(* That the image is linked right when rsd_objc_prepare() comes to it, and  *)
(* that its classes are then registered right: every message to one arrives *)
(* and every instance variable is read where the runtime put it.           *)
(***************************************************************************)
EXTENDS ObjC, LoaderProofs, FiniteSetTheorems

-----------------------------------------------------------------------------
(* The pool of trampolines.                                                *)

NoRepeats(s) == \A j, k \in 1 .. Len(s) : s[j] = s[k] => j = k

\* The pool after each of the implementations.
LEMMA PoolSteps ==
  ASSUME NEW used, NEW imps, Len(imps) \in Nat
  PROVE  \E P : /\ Pool(used, imps) = P[Len(imps)] /\ P[0] = used
                /\ \A k \in 1 .. Len(imps) : P[k] = rsd_callback_for(P[k - 1], imps[k])
  <1> DEFINE F(P, m) == P = [k \in 0 .. m |-> IF k = 0 THEN used ELSE rsd_callback_for(P[k - 1], imps[k])]
             T == {m \in Nat : ~ \E P : F(P, m)}
  <1>1. T = {}
    <2>1. SUFFICES ASSUME T # {} PROVE FALSE
      OBVIOUS
    <2>2. PICK m \in T : \A y \in T : m <= y
      <3>1. T \in SUBSET Nat
        OBVIOUS
      <3> HIDE DEF T
      <3> QED BY <2>1, <3>1, LeastElement
    <2>3. m \in Nat /\ ~ \E P : F(P, m)
      OBVIOUS
    <2>4. m # 0
      <3>1. F([k \in 0 .. 0 |-> used], 0)
        OBVIOUS
      <3> QED BY <2>3, <3>1
    <2>5. m - 1 \in Nat /\ ~ (m <= m - 1)
      BY <2>3, <2>4
    <2>6. m - 1 \notin T
      <3> HIDE DEF T
      <3> QED BY <2>2, <2>5
    <2>7. PICK P : F(P, m - 1)
      BY <2>5, <2>6
    <2>8. PICK N : N = [k \in 0 .. m |-> IF k < m THEN P[k] ELSE rsd_callback_for(P[m - 1], imps[m])]
      OBVIOUS
    <2>9. ASSUME NEW k \in 0 .. m
          PROVE  N[k] = IF k = 0 THEN used ELSE rsd_callback_for(N[k - 1], imps[k])
      <3>1. CASE k = 0
        BY <2>4, <2>5, <2>7, <2>8, <3>1
      <3>2. CASE k # 0
        <4>1. k - 1 \in 0 .. m /\ k - 1 < m /\ k \in Nat
          BY <2>3, <3>2
        <4>2. N[k - 1] = P[k - 1]
          BY <2>8, <4>1
        <4>3. CASE k = m
          BY <2>3, <2>8, <3>2, <4>2, <4>3
        <4>4. CASE k # m
          <5>1. k \in 0 .. m - 1 /\ k < m
            BY <2>3, <4>4
          <5>2. N[k] = P[k]
            BY <2>8, <5>1
          <5>3. P[k] = rsd_callback_for(P[k - 1], imps[k])
            BY <2>7, <3>2, <5>1
          <5> QED BY <3>2, <4>2, <5>2, <5>3
        <4> QED BY <4>3, <4>4
      <3> QED BY <3>1, <3>2
    <2>10. F(N, m)
      <3>1. N = [k \in 0 .. m |-> N[k]]
        BY <2>8
      <3> QED BY <2>9, <3>1
    <2> QED BY <2>3, <2>10
  <1>2. \E P : F(P, Len(imps))
    <2>1. Len(imps) \notin T
      <3> HIDE DEF T
      <3> QED BY <1>1
    <2> QED BY <2>1
  <1> DEFINE Q == CHOOSE P : F(P, Len(imps))
  <1>3. F(Q, Len(imps))
    <2> HIDE DEF F
    <2> QED BY <1>2
  <1>4. Pool(used, imps) = Q[Len(imps)]
    BY DEF Pool
  <1>5. PICK P : P = Q
    OBVIOUS
  <1> HIDE DEF Q
  <1>6. P[0] = used /\ \A k \in 1 .. Len(imps) : P[k] = rsd_callback_for(P[k - 1], imps[k])
    <2>1. \A k \in 1 .. Len(imps) : k \in 0 .. Len(imps) /\ k # 0
      OBVIOUS
    <2>2. 0 \in 0 .. Len(imps)
      OBVIOUS
    <2> QED BY <1>3, <1>5, <2>1, <2>2
  <1> QED BY <1>4, <1>5, <1>6

\* A sequence without repetitions that is as long as a set is large has all of it.
LEMMA AllInside ==
  ASSUME NEW A, IsFiniteSet(A), NEW s \in Seq(A), NoRepeats(s), Cardinality(A) <= Len(s), NEW x \in A
  PROVE  Contains(s, x)
  <1>1. Len(s) \in Nat /\ Cardinality(A) \in Nat /\ s \in [1 .. Len(s) -> A]
    BY FS_CardinalityType
  <1> DEFINE R == {s[k] : k \in 1 .. Len(s)}
  <1>2. R \subseteq A
    BY <1>1
  <1>3. IsFiniteSet(R) /\ Cardinality(R) <= Cardinality(A) /\ (Cardinality(A) = Cardinality(R) => R = A)
    BY <1>2, FS_Subset
  <1>4. s \in Bijection(1 .. Len(s), R)
    <2>1. s \in [1 .. Len(s) -> R]
      BY <1>1
    <2>2. IsInjective(s)
      BY <1>1 DEF IsInjective, NoRepeats
    <2>3. \A t \in R : \E k \in 1 .. Len(s) : s[k] = t
      OBVIOUS
    <2> HIDE DEF R
    <2> QED BY <2>1, <2>2, <2>3 DEF Bijection, Injection, Surjection
  <1>5. Cardinality(R) = Len(s)
    <2>1. IsFiniteSet(1 .. Len(s)) /\ Cardinality(1 .. Len(s)) = Len(s)
      <3>1. PICK m \in Nat : m = Len(s)
        BY <1>1
      <3>2. IsFiniteSet(1 .. m) /\ Cardinality(1 .. m) = IF 1 > m THEN 0 ELSE m - 1 + 1
        BY FS_Interval
      <3> QED BY <3>1, <3>2
    <2> HIDE DEF R
    <2> QED BY <1>3, <1>4, <2>1, FS_Bijection DEF ExistsBijection
  <1>6. x \in R
    <2> HIDE DEF R
    <2> QED BY <1>1, <1>3, <1>5
  <1> QED BY <1>6 DEF Contains
\* With room for all of them, every implementation gets a trampoline.
LEMMA PoolTakes ==
  ASSUME NEW A, NEW used \in Seq(A), NoRepeats(used), NEW imps \in Seq(A)
  PROVE  /\ Pool(used, imps) \in Seq(A) /\ NoRepeats(Pool(used, imps))
         /\ IsFiniteSet(A) /\ Cardinality(A) <= TrampCount =>
              \A j \in 1 .. Len(imps) : Contains(Pool(used, imps), imps[j])
  <1>1. Len(imps) \in Nat
    OBVIOUS
  <1>2. PICK P : /\ Pool(used, imps) = P[Len(imps)] /\ P[0] = used
                 /\ \A k \in 1 .. Len(imps) : P[k] = rsd_callback_for(P[k - 1], imps[k])
    BY <1>1, PoolSteps
  <1> DEFINE Takes(k) == \A j \in 1 .. k : Contains(P[k], imps[j])
             G(k) == /\ P[k] \in Seq(A) /\ NoRepeats(P[k])
                     /\ IsFiniteSet(A) /\ Cardinality(A) <= TrampCount => Takes(k)
  <1>3. G(0)
    BY <1>2
  <1>4. ASSUME NEW k \in 1 .. Len(imps), G(k - 1) PROVE G(k)
    <2>1. PICK s : s = P[k - 1]
      OBVIOUS
    <2>2. s \in Seq(A) /\ NoRepeats(s) /\ imps[k] \in A
      BY <1>4, <2>1
    <2>3. PICK x \in A : x = imps[k]
      BY <2>2
    <2>4. P[k] = IF Contains(s, x) \/ Len(s) = TrampCount THEN s ELSE Append(s, x)
      BY <1>2, <2>1, <2>3 DEF rsd_callback_for
    <2>5. CASE Contains(s, x) \/ Len(s) = TrampCount
      <3>1. P[k] = s
        BY <2>4, <2>5
      <3>2. ASSUME IsFiniteSet(A), Cardinality(A) <= TrampCount, NEW j \in 1 .. k
            PROVE  Contains(s, imps[j])
        <4>1. CASE j = k
          <5>1. Contains(s, x)
            BY <2>2, <2>5, <3>2, AllInside
          <5> QED BY <2>3, <4>1, <5>1
        <4>2. CASE j # k
          <5>1. j \in 1 .. k - 1
            BY <1>1, <4>2
          <5> QED BY <1>4, <2>1, <3>2, <5>1
        <4> QED BY <4>1, <4>2
      <3> QED BY <2>2, <3>1, <3>2
    <2>6. CASE ~ (Contains(s, x) \/ Len(s) = TrampCount)
      <3>1. P[k] = Append(s, x)
        BY <2>4, <2>6
      <3>2. Append(s, x) \in Seq(A) /\ NoRepeats(Append(s, x))
        BY <2>2, <2>6 DEF NoRepeats, Contains
      <3>3. \A e : Contains(s, e) => Contains(Append(s, x), e)
        BY <2>2 DEF Contains
      <3>4. Contains(Append(s, x), x)
        <4>1. Len(s) + 1 \in 1 .. Len(Append(s, x)) /\ Append(s, x)[Len(s) + 1] = x
          BY <2>2
        <4> QED BY <4>1 DEF Contains
      <3>5. ASSUME IsFiniteSet(A), Cardinality(A) <= TrampCount, NEW j \in 1 .. k
            PROVE  Contains(Append(s, x), imps[j])
        <4>1. CASE j = k
          BY <2>3, <3>4, <4>1
        <4>2. CASE j # k
          <5>1. j \in 1 .. k - 1
            BY <1>1, <4>2
          <5> QED BY <1>4, <2>1, <3>3, <3>5, <5>1
        <4> QED BY <4>1, <4>2
      <3> QED BY <3>1, <3>2, <3>5
    <2> QED BY <2>5, <2>6
  <1> HIDE DEF G
  <1> DEFINE T == {k \in Nat : k <= Len(imps) /\ ~ G(k)}
  <1>5. T = {}
    <2>1. SUFFICES ASSUME T # {} PROVE FALSE
      OBVIOUS
    <2>2. PICK k \in T : \A y \in T : k <= y
      <3>1. T \in SUBSET Nat
        OBVIOUS
      <3> HIDE DEF T
      <3> QED BY <2>1, <3>1, LeastElement
    <2>3. k \in Nat /\ k <= Len(imps) /\ ~ G(k)
      OBVIOUS
    <2>4. k # 0
      BY <1>3, <2>3
    <2>5. k - 1 \in Nat /\ k - 1 <= Len(imps) /\ ~ (k <= k - 1) /\ k \in 1 .. Len(imps)
      BY <1>1, <2>3, <2>4
    <2>6. G(k - 1)
      <3>1. k - 1 \notin T
        <4> HIDE DEF T
        <4> QED BY <2>2, <2>5
      <3> QED BY <2>5, <3>1
    <2> QED BY <1>4, <2>3, <2>5, <2>6
  <1>6. G(Len(imps))
    <2>1. Len(imps) \notin T
      <3> HIDE DEF T
      <3> QED BY <1>5
    <2> QED BY <1>1, <2>1
  <1> QED BY <1>2, <1>6 DEF G

-----------------------------------------------------------------------------
(* The layout of instances.                                                *)

\* The parts of the ivars.
LEMMA IvarShape ==
  ASSUME NEW ivars \in Seq(Ivar)
  PROVE  Len(ivars) \in Nat /\ \A k \in 1 .. Len(ivars) : ivars[k].offset \in Nat /\ ivars[k].size \in Nat
  <1>1. \A S, s : s \in Seq(S) => Len(s) \in Nat /\ \A k \in 1 .. Len(s) : s[k] \in S
    OBVIOUS
  <1>2. Len(ivars) \in Nat /\ \A k \in 1 .. Len(ivars) : ivars[k] \in Ivar
    BY <1>1, Zenon
  <1> QED BY <1>2 DEF Ivar

\* The size of an instance after each of the ivars.
LEMMA ExtentsSteps ==
  ASSUME NEW start, NEW ivars, Len(ivars) \in Nat, NEW E, E = Extents(start, ivars)
  PROVE  E[0] = start /\ \A k \in 1 .. Len(ivars) : E[k] = E[k - 1] + Added(ivars, k)
  <1> DEFINE F(P, m) == P = [k \in 0 .. m |-> IF k = 0 THEN start ELSE P[k - 1] + Added(ivars, k)]
             T == {m \in Nat : ~ \E P : F(P, m)}
  <1>1. T = {}
    <2>1. SUFFICES ASSUME T # {} PROVE FALSE
      OBVIOUS
    <2>2. PICK m \in T : \A y \in T : m <= y
      <3>1. T \in SUBSET Nat
        OBVIOUS
      <3> HIDE DEF T
      <3> QED BY <2>1, <3>1, LeastElement
    <2>3. m \in Nat /\ ~ \E P : F(P, m)
      OBVIOUS
    <2>4. m # 0
      <3>1. F([k \in 0 .. 0 |-> start], 0)
        OBVIOUS
      <3> QED BY <2>3, <3>1
    <2>5. m - 1 \in Nat /\ ~ (m <= m - 1)
      BY <2>3, <2>4
    <2>6. m - 1 \notin T
      <3> HIDE DEF T
      <3> QED BY <2>2, <2>5
    <2>7. PICK P : F(P, m - 1)
      BY <2>5, <2>6
    <2>8. PICK N : N = [k \in 0 .. m |-> IF k < m THEN P[k] ELSE P[m - 1] + Added(ivars, m)]
      OBVIOUS
    <2>9. ASSUME NEW k \in 0 .. m
          PROVE  N[k] = IF k = 0 THEN start ELSE N[k - 1] + Added(ivars, k)
      <3>1. CASE k = 0
        BY <2>4, <2>5, <2>7, <2>8, <3>1
      <3>2. CASE k # 0
        <4>1. k - 1 \in 0 .. m /\ k - 1 < m /\ k \in Nat
          BY <2>3, <3>2
        <4>2. N[k - 1] = P[k - 1]
          BY <2>8, <4>1
        <4>3. CASE k = m
          BY <2>3, <2>8, <3>2, <4>2, <4>3
        <4>4. CASE k # m
          <5>1. k \in 0 .. m - 1 /\ k < m
            BY <2>3, <4>4
          <5>2. N[k] = P[k]
            BY <2>8, <5>1
          <5>3. P[k] = P[k - 1] + Added(ivars, k)
            BY <2>7, <3>2, <5>1
          <5> QED BY <3>2, <4>2, <5>2, <5>3
        <4> QED BY <4>3, <4>4
      <3> QED BY <3>1, <3>2
    <2>10. F(N, m)
      <3>1. N = [k \in 0 .. m |-> N[k]]
        BY <2>8
      <3> QED BY <2>9, <3>1
    <2> QED BY <2>3, <2>10
  <1>2. \E P : F(P, Len(ivars))
    <2>1. Len(ivars) \notin T
      <3> HIDE DEF T
      <3> QED BY <1>1
    <2> QED BY <2>1
  <1> DEFINE Q == CHOOSE P : F(P, Len(ivars))
  <1>3. F(Q, Len(ivars))
    <2> HIDE DEF F
    <2> QED BY <1>2
  <1>4. E = Q
    BY DEF Extents
  <1> HIDE DEF Q
  <1>5. \A k \in 1 .. Len(ivars) : k \in 0 .. Len(ivars) /\ k # 0
    OBVIOUS
  <1>6. 0 \in 0 .. Len(ivars)
    OBVIOUS
  <1> QED BY <1>3, <1>4, <1>5, <1>6

\* With a name of its own each, the ivars lie one behind the other, after what
\* there was.
LEMMA ExtentsApart ==
  ASSUME NEW start \in Nat, NEW ivars \in Seq(Ivar), NEW E, E = Extents(start, ivars),
         \A j, k \in 1 .. Len(ivars) : j # k => ivars[j].name # ivars[k].name
  PROVE  /\ Len(ivars) \in Nat /\ \A k \in 0 .. Len(ivars) : E[k] \in Nat /\ start <= E[k]
         /\ \A k \in 1 .. Len(ivars) : ivars[k].size \in Nat /\ Index(ivars, ivars[k].name) = k
         /\ \A j \in 1 .. Len(ivars) : \A k \in j .. Len(ivars) : E[j - 1] + ivars[j].size <= E[k]
  <1>1. Len(ivars) \in Nat /\ \A k \in 1 .. Len(ivars) : ivars[k].size \in Nat
    BY IvarShape
  <1>2. ASSUME NEW k \in 1 .. Len(ivars) PROVE Index(ivars, ivars[k].name) = k
    <2>1. \A j \in 1 .. Len(ivars) : ivars[j].name = ivars[k].name => j = k
      OBVIOUS
    <2>2. \A j \in 1 .. k - 1 : j \in 1 .. Len(ivars) /\ j # k
      BY <1>1
    <2>3. \A j \in 1 .. k - 1 : ivars[j].name # ivars[k].name
      BY <2>1, <2>2
    <2> QED BY <2>1, <2>3 DEF Index
  <1>3. ASSUME NEW k \in 1 .. Len(ivars) PROVE Added(ivars, k) = ivars[k].size
    <2>1. \A j \in 1 .. k - 1 : j \in 1 .. Len(ivars) /\ j # k
      BY <1>1
    <2> QED BY <2>1 DEF Added
  <1>4. E[0] = start /\ \A k \in 1 .. Len(ivars) : E[k] = E[k - 1] + ivars[k].size
    BY <1>1, <1>3, ExtentsSteps
  <1> DEFINE G(k) == /\ \A j \in 0 .. k : E[j] \in Nat
                     /\ start <= E[k]
                     /\ \A j \in 1 .. k : E[j - 1] + ivars[j].size <= E[k]
             T == {k \in Nat : k <= Len(ivars) /\ ~ G(k)}
  <1>5. G(0)
    BY <1>4
  <1>6. ASSUME NEW k \in 1 .. Len(ivars), G(k - 1) PROVE G(k)
    <2>1. PICK x \in Nat, z \in Nat : x = E[k - 1] /\ z = ivars[k].size
      <3>1. k - 1 \in 0 .. k - 1
        BY <1>1
      <3> QED BY <1>1, <1>6, <3>1
    <2>2. E[k] = x + z
      BY <1>4, <2>1
    <2>3. E[k] \in Nat /\ start <= E[k] /\ x <= E[k]
      BY <1>6, <2>1, <2>2
    <2>4. ASSUME NEW j \in 0 .. k PROVE E[j] \in Nat
      <3>1. j \in 0 .. k - 1 \/ j = k
        BY <1>1
      <3> QED BY <1>6, <2>3, <3>1
    <2>5. ASSUME NEW j \in 1 .. k PROVE E[j - 1] + ivars[j].size <= E[k]
      <3>1. CASE j = k
        BY <2>1, <2>2, <3>1
      <3>2. CASE j # k
        <4>1. j \in 1 .. k - 1 /\ j \in 1 .. Len(ivars)
          BY <1>1, <3>2
        <4>2. E[j] = E[j - 1] + ivars[j].size /\ E[j - 1] + ivars[j].size <= x
          BY <1>4, <1>6, <2>1, <4>1
        <4>3. PICK y : y = E[j - 1] + ivars[j].size
          OBVIOUS
        <4>4. y \in Nat
          <5>1. j \in 0 .. k /\ E[j] \in Nat
            BY <2>4, <4>1
          <5> QED BY <4>2, <4>3, <5>1
        <4>5. y <= E[k]
          BY <2>3, <4>2, <4>3, <4>4
        <4> QED BY <4>3, <4>5
      <3> QED BY <3>1, <3>2
    <2> QED BY <2>3, <2>4, <2>5
  <1> HIDE DEF G
  <1>7. T = {}
    <2>1. SUFFICES ASSUME T # {} PROVE FALSE
      OBVIOUS
    <2>2. PICK k \in T : \A y \in T : k <= y
      <3>1. T \in SUBSET Nat
        OBVIOUS
      <3> HIDE DEF T
      <3> QED BY <2>1, <3>1, LeastElement
    <2>3. k \in Nat /\ k <= Len(ivars) /\ ~ G(k)
      OBVIOUS
    <2>4. k # 0
      BY <1>5, <2>3
    <2>5. k - 1 \in Nat /\ k - 1 <= Len(ivars) /\ ~ (k <= k - 1) /\ k \in 1 .. Len(ivars)
      BY <1>1, <2>3, <2>4
    <2>6. G(k - 1)
      <3>1. k - 1 \notin T
        <4> HIDE DEF T
        <4> QED BY <2>2, <2>5
      <3> QED BY <2>5, <3>1
    <2> QED BY <1>6, <2>3, <2>5, <2>6
  <1>8. \A k \in 0 .. Len(ivars) : G(k)
    <2>1. \A k \in 0 .. Len(ivars) : k \in Nat /\ k <= Len(ivars) /\ k \notin T
      <3> HIDE DEF T
      <3> QED BY <1>1, <1>7
    <2> QED BY <2>1
  <1>9. ASSUME NEW j \in 1 .. Len(ivars), NEW k \in j .. Len(ivars) PROVE E[j - 1] + ivars[j].size <= E[k]
    <2>1. k \in 0 .. Len(ivars) /\ j \in 1 .. k
      BY <1>1
    <2> QED BY <1>8, <2>1 DEF G
  <1>10. ASSUME NEW k \in 0 .. Len(ivars) PROVE E[k] \in Nat /\ start <= E[k]
    <2>1. k \in 0 .. k
      BY <1>1
    <2> QED BY <1>8, <2>1 DEF G
  <1> QED BY <1>1, <1>2, <1>9, <1>10

-----------------------------------------------------------------------------
(* The classes of an image.                                                *)

\* A plain pointer and its target are in the image.
LEMMA PointerShape ==
  ASSUME NEW f \in Images, WellFormed(f), NEW a \in Pointers(f)
  PROVE  /\ a \in Packed(f) /\ a \in LinkedCells(f) /\ a \in Nat
         /\ TargetOf(f, a) \in LinkedCells(f) /\ TargetOf(f, a) \in Nat
  <1>1. a \in Packed(f) /\ TargetOf(f, a) \in LinkedCells(f)
    BY DEF Pointers
  <1>2. a \in LinkedCells(f)
    BY <1>1 DEF Packed
  <1> QED BY <1>1, <1>2, CellShape

\* The parts of a class.
LEMMA ClassShape ==
  ASSUME NEW f \in Images, WellFormed(f), ClassesFormed(f), NEW g \in ClassesOf(f)
  PROVE  /\ g \in Nat /\ g \in LinkedCells(f) /\ ClassFormed(f, g)
         /\ ClassCells(f, g) \subseteq Pointers(f)
         /\ MetaOf(f, g) \in Nat /\ MetaOf(f, g) \in LinkedCells(f)
         /\ RoOf(f, g) \in ClassData /\ RoOf(f, MetaOf(f, g)) \in ClassData
  <1>1. ClassFormed(f, g)
    BY DEF ClassesFormed
  <1>2. PICK a \in CellsOf(f, "__objc_classlist") : g = TargetOf(f, a)
    BY DEF ClassesOf
  <1>3. a \in Pointers(f)
    BY <1>2 DEF ClassesFormed
  <1>4. g \in LinkedCells(f) /\ g \in Nat
    BY <1>2, <1>3, PointerShape
  <1>5. ClassCells(f, g) \subseteq Pointers(f)
    BY <1>1 DEF ClassFormed
  <1>6. MetaOf(f, g) \in LinkedCells(f) /\ MetaOf(f, g) \in Nat
    BY <1>5, PointerShape DEF ClassCells, MetaOf
  <1>7. RoOf(f, g) \in ClassData /\ RoOf(f, MetaOf(f, g)) \in ClassData
    BY <1>1, ObjCAssumption DEF ClassFormed, RoOf
  <1> QED BY <1>1, <1>4, <1>5, <1>6, <1>7

\* The lists of a class.
LEMMA ListShape ==
  ASSUME NEW list \in MethodList
  PROVE  /\ Len(list.entries) \in Nat
         /\ \A k \in 1 .. Len(list.entries) : list.entries[k].imp \in Nat /\ list.entries[k].name \in Nat
  <1>1. list.entries \in Seq([name : Nat, imp : Nat])
    BY DEF MethodList
  <1>2. \A S, s : s \in Seq(S) => Len(s) \in Nat /\ \A k \in 1 .. Len(s) : s[k] \in S
    OBVIOUS
  <1>3. \A k \in 1 .. Len(list.entries) : list.entries[k] \in [name : Nat, imp : Nat]
    BY <1>1, <1>2, Zenon
  <1>4. Len(list.entries) \in Nat
    BY <1>1, <1>2, Zenon
  <1> QED BY <1>3, <1>4

\* The lists as far as they are read.
LEMMA DataShape ==
  ASSUME NEW d \in ClassData
  PROVE  /\ d.ivars \in Seq(Ivar) /\ d.methods \in MethodList
         /\ Declared(d) \in Seq(Ivar)
         /\ Declared(d) = d.ivars \/ (Declared(d) = <<>> /\ ~ (Len(d.ivars) <= MaxIvars))
  <1>1. d.ivars \in Seq(Ivar) /\ d.methods \in MethodList
    BY DEF ClassData
  <1>2. Len(d.ivars) \in Nat /\ MaxIvars \in Nat
    BY <1>1, IvarShape, ObjCAssumption
  <1>3. Len(d.ivars) > MaxIvars => ~ (Len(d.ivars) <= MaxIvars)
    BY <1>2
  <1> QED BY <1>1, <1>3 DEF Declared

-----------------------------------------------------------------------------
(* The invariant.                                                          *)

\* The recorded sections are sections of the file.
FileSections == UNION {ToSet(file.cmds[k].sects) : k \in SegmentsOf(file)}
SectionsRead == img.sects \in Seq(FileSections)

\* A pointer of the image that is as linking left it.
Kept(a) == mem[a + slide].kind = "value" /\ mem[a + slide].addr = TargetOf(file, a) + slide
ClassPointers ==
  CellsOf(file, "__objc_classlist") \cup UNION {ClassCells(file, g) : g \in ClassesOf(file)}
Layout == Placed /\ \A a \in ClassPointers : Kept(a)

\* The selector references, canonical up to place m.
Selected(a) == mem[a + slide] = Value(Selectors[file.strings[TargetOf(file, a)]])
SelectedTo(m) ==
  HasSection("__objc_selrefs") => \A a \in CellsOf(file, "__objc_selrefs") :
    IF a < Section("__objc_selrefs").addr + m THEN Selected(a) ELSE Kept(a)
AllSelected == HasSection("__objc_selrefs") => \A a \in CellsOf(file, "__objc_selrefs") : Selected(a)

\* The registered classes, and the classes listed before place m.
NameOf(g) == RoOf(file, g).name
Known == {g \in ClassesOf(file) : NameOf(g) \in DOMAIN runtime}
Seen(m) == {TargetOf(file, a) : a \in {b \in CellsOf(file, "__objc_classlist") :
                                         b < Section("__objc_classlist").addr + m}}

\* What the image has for the offsets of a class's ivars, and how the runtime laid
\* them out, behind the superclass if that is one of its own.
OffsetsOf(g, class) ==
  \A k \in 1 .. Len(Declared(RoOf(file, g))) :
    mem[Declared(RoOf(file, g))[k].offset + slide] =
      Value(ivar_getOffset(class, Declared(RoOf(file, g))[k].name))
LaidOut(g, class) ==
  \E size \in Nat :
    /\ class.ivars = Declared(RoOf(file, g)) /\ class.extents = Extents(size, Declared(RoOf(file, g)))
    /\ mem[g + 1 + slide].addr \in DOMAIN NativeSize => size = NativeSize[mem[g + 1 + slide].addr]
IvarsSet(g) == OffsetsOf(g, runtime[NameOf(g)]) /\ LaidOut(g, runtime[NameOf(g)])

\* The pairs that the class map may hold, and the implementations that may have
\* a trampoline.
ClassEntry(g) == [guest |-> g + slide, native |-> ClassAddr[NameOf(g)]]
MetaEntry(g) == [guest |-> MetaOf(file, g) + slide, native |-> MetaAddr[NameOf(g)]]
Entries == {ClassEntry(g) : g \in ClassesOf(file)} \cup {MetaEntry(g) : g \in ClassesOf(file)}
ImpsOf(g) == ToSet(Imps(RoOf(file, g).methods)) \cup ToSet(Imps(RoOf(file, MetaOf(file, g)).methods))
ImageImps == UNION {ImpsOf(g) : g \in ClassesOf(file)}

\* Room for all of them, and what it makes sure of.
Handles(G) == {g + slide : g \in G}
Room == /\ HasSection("__objc_classlist") /\ HasSection("__objc_selrefs")
        /\ 2 * Cardinality(Handles(ClassesOf(file))) <= MaxClasses
        /\ Cardinality(ImageImps) <= TrampCount
Mapped(g) == Contains(class_map, ClassEntry(g)) /\ Contains(class_map, MetaEntry(g))
Reached(g) ==
  LET own == RoOf(file, g).methods
      meta == RoOf(file, MetaOf(file, g)).methods
  IN  /\ Len(own.entries) <= MaxMethods => Arrives(own, runtime[NameOf(g)].methods)
      /\ Len(meta.entries) <= MaxMethods => Arrives(meta, runtime[NameOf(g)].class_methods)

RegisteredTo(m) ==
  /\ HasSection("__objc_classlist") => \A g \in Seen(m) :
       mem[g + 1 + slide].addr # 0 /\ NameOf(g) \notin NativeNames \cup refused => g \in Known
  /\ \A g \in Known : IvarsSet(g)
  /\ class_map \in Seq(Entries)
  /\ targets \in Seq(ImageImps) /\ NoRepeats(targets)
  /\ Room => /\ Len(class_map) = 2 * Cardinality(Handles(Known))
             /\ \A g \in Known : Mapped(g) /\ Reached(g)

NothingRegistered == runtime = [c \in {} |-> 0] /\ class_map = <<>> /\ targets = <<>>

InSelrefs == Layout /\ n \in 0 .. Size("__objc_selrefs") /\ SelectedTo(n)
InClasses ==
  Layout /\ AllSelected /\ n \in 0 .. Size("__objc_classlist") /\ RegisteredTo(n)
InReady == Layout /\ AllSelected /\ RegisteredTo(Size("__objc_classlist"))

ObjCInv ==
  /\ pc \notin {"classes", "ready"} => NothingRegistered
  /\ WellFormed(file) => SectionsRead
  /\ WellFormed(file) /\ ClassesFormed(file) /\ img.fixups =>
       /\ pc = "selrefs" => InSelrefs
       /\ pc = "classes" => InClasses
       /\ pc = "ready" => InReady

-----------------------------------------------------------------------------
(* The sections.                                                           *)

\* A section of the file has its shape.
LEMMA SectionShape ==
  ASSUME file \in Images, NEW s \in FileSections
  PROVE  s.addr \in Nat /\ s.size \in Nat
  <1>1. PICK k \in SegmentsOf(file) : s \in ToSet(file.cmds[k].sects)
    BY DEF FileSections
  <1>2. file.cmds[k].sects \in Seq([name : STRING, addr : Nat, size : Nat])
    BY SegmentShape DEF SegmentCommand
  <1>3. \A S, q : q \in Seq(S) => \A j \in 1 .. Len(q) : q[j] \in S
    OBVIOUS
  <1>4. DOMAIN file.cmds[k].sects = 1 .. Len(file.cmds[k].sects)
    BY <1>2
  <1>5. PICK j \in 1 .. Len(file.cmds[k].sects) : s = file.cmds[k].sects[j]
    BY <1>1, <1>4, Zenon DEF ToSet
  <1>6. s \in [name : STRING, addr : Nat, size : Nat]
    BY <1>2, <1>3, <1>5, Zenon
  <1> QED BY <1>6

\* The section that is found is the only one of its name in the file.
LEMMA SectionIs ==
  ASSUME file \in Images, ClassesFormed(file), SectionsRead,
         NEW name \in {"__objc_selrefs", "__objc_classlist"}, HasSection(name)
  PROVE  /\ Section(name).addr \in Nat /\ Section(name).size \in Nat
         /\ CellsOf(file, name) = Section(name).addr .. (Section(name).addr + Section(name).size - 1)
         /\ Size(name) = Section(name).size
  <1> DEFINE T == {k \in 1 .. Len(img.sects) : img.sects[k].name = name}
  <1>1. Len(img.sects) \in Nat /\ \A k \in 1 .. Len(img.sects) : img.sects[k] \in FileSections
    BY DEF SectionsRead
  <1>2. T # {} /\ T \in SUBSET Nat
    BY <1>1 DEF HasSection
  <1>3. PICK k \in T : \A j \in T : k <= j
    <2> HIDE DEF T
    <2> QED BY <1>2, LeastElement
  <1>4. \A j \in 1 .. k - 1 : img.sects[j].name # name
    <2>1. \A j \in 1 .. k - 1 : j \in 1 .. Len(img.sects) /\ ~ (k <= j)
      BY <1>1
    <2> QED BY <1>3, <2>1
  <1>5. PICK m \in 1 .. Len(img.sects) : Section(name) = img.sects[m] /\ img.sects[m].name = name
    BY <1>3, <1>4 DEF Section
  <1>6. Section(name) \in FileSections /\ Section(name).name = name
    BY <1>1, <1>5
  <1>7. Section(name) \in SectionsOf(file, name)
    BY <1>6 DEF FileSections, SectionsOf
  <1>8. \A s \in SectionsOf(file, name) : s = Section(name)
    BY <1>7 DEF ClassesFormed
  <1>9. CellsOf(file, name) = Section(name).addr .. (Section(name).addr + Section(name).size - 1)
    <2>1. SectionsOf(file, name) = {Section(name)}
      BY <1>7, <1>8
    <2> QED BY <2>1 DEF CellsOf
  <1> QED BY <1>6, <1>9, SectionShape DEF Size

\* The sections of a segment are recorded as far as there is room.
LEMMA SectionsReadStep ==
  ASSUME file \in Images, InCommands, SectionsRead, LoadCommand
  PROVE  SectionsRead'
  <1>1. file' = file
    BY DEF LoadCommand, Fail
  <1>2. FileSections' = FileSections
    BY <1>1 DEF FileSections
  <1>3. PICK c : c = file.cmds[n + 1]
    OBVIOUS
  <1>4. n + 1 \in 1 .. Len(file.cmds)
    BY FileShape DEF LoadCommand, InCommands
  <1>5. img \in Recorded /\ img.sects \in Seq(FileSections)
    BY DEF InCommands, Read, SectionsRead
  <1>6. img' = img \/ img' = Parsed(img, c)
    BY <1>3 DEF LoadCommand, Fail
  <1>7. CASE img' = img
    BY <1>2, <1>7 DEF SectionsRead
  <1>8. CASE img' = Parsed(img, c) /\ IsSegment(c)
    <2>1. n + 1 \in SegmentsOf(file)
      BY <1>3, <1>4, <1>8 DEF SegmentsOf
    <2>2. c.sects \in Seq([name : STRING, addr : Nat, size : Nat])
      BY <1>3, <2>1, SegmentShape DEF SegmentCommand
    <2>3. \A j \in 1 .. Len(c.sects) : c.sects[j] \in FileSections
      BY <1>3, <2>1, <2>2 DEF FileSections, ToSet
    <2>4. c.sects \in Seq(FileSections)
      <3>1. \A S, q, R : q \in Seq(S) /\ (\A j \in 1 .. Len(q) : q[j] \in R) => q \in Seq(R)
        OBVIOUS
      <3> QED BY <2>2, <2>3, <3>1, Zenon
    <2>5. img' = [img EXCEPT !.segs = Append(@, c), !.sects = Upto(@ \o c.sects, MaxSects),
                             !.pref_base = IF c.name = "__TEXT" THEN c.vmaddr ELSE @]
      <3>1. c.cmd = "segment"
        BY <1>8 DEF IsSegment
      <3> QED BY <1>8, <3>1 DEF Parsed
    <2>6. img'.sects = Upto(img.sects \o c.sects, MaxSects)
      BY <1>5, <2>5 DEF Recorded
    <2>7. img.sects \o c.sects \in Seq(FileSections)
      BY <1>5, <2>4, ConcatProperties
    <2>8. img'.sects \in Seq(FileSections)
      BY <2>6, <2>7, UptoShape, LoaderAssumption
    <2> QED BY <1>2, <2>8 DEF SectionsRead
  <1>9. CASE img' = Parsed(img, c) /\ ~ IsSegment(c)
    <2>1. img'.sects = img.sects
      BY <1>5, <1>9 DEF Parsed, Recorded
    <2> QED BY <1>2, <1>5, <2>1 DEF SectionsRead
  <1> QED BY <1>6, <1>7, <1>8, <1>9

-----------------------------------------------------------------------------
(* Selector references.                                                    *)

\* What linking made of a plain pointer.
LEMMA LinkedKept ==
  ASSUME file \in Images, WellFormed(file), InLinked, img.fixups, NEW a \in Pointers(file)
  PROVE  Kept(a)
  <1>1. a \in Packed(file) /\ a \in LinkedCells(file) /\ FileCell(file, a).kind = "rebase"
    BY PointerShape DEF Pointers
  <1>2. LinkedRight(a)
    BY <1>1 DEF InLinked
  <1>3. mem[a + slide].kind = "value" /\ RightPointer(file, a, mem[a + slide])
    BY <1>1, <1>2 DEF LinkedRight
  <1> QED BY <1>1, <1>3 DEF RightPointer, Kept

\* The pointers of classes are plain ones.
LEMMA ClassPointerShape ==
  ASSUME file \in Images, WellFormed(file), ClassesFormed(file), NEW a \in ClassPointers
  PROVE  /\ a \in Pointers(file) /\ a \notin CellsOf(file, "__objc_selrefs")
         /\ \A g \in ClassesOf(file) : a \notin IvarCells(file, g)
  <1>1. CASE a \in CellsOf(file, "__objc_classlist")
    BY <1>1 DEF ClassesFormed
  <1>2. CASE a \notin CellsOf(file, "__objc_classlist")
    <2>1. PICK g \in ClassesOf(file) : a \in ClassCells(file, g)
      BY <1>2 DEF ClassPointers
    <2>2. a \in Pointers(file)
      BY <2>1, ClassShape
    <2>3. a \notin CellsOf(file, "__objc_selrefs") /\ \A h \in ClassesOf(file) : a \notin IvarCells(file, h)
      BY <2>1 DEF ClassesFormed
    <2> QED BY <2>2, <2>3
  <1> QED BY <1>1, <1>2

\* A pointer that is as linking left it can be followed.
LEMMA KeptFollowed ==
  ASSUME file \in Images, WellFormed(file), Placed, NEW a \in Pointers(file), Kept(a)
  PROVE  /\ rsd_as_mapped(a + slide) /\ mem[a + slide].addr # 0
         /\ mem[a + slide].addr - slide = TargetOf(file, a)
  <1>1. a \in LinkedCells(file) /\ TargetOf(file, a) \in LinkedCells(file) /\ TargetOf(file, a) \in Nat
    BY PointerShape
  <1>2. a + slide \in Cell /\ TargetOf(file, a) + slide \in Cell \ {0} /\ slide \in Int
    BY <1>1 DEF Placed
  <1>3. mem[a + slide] # Unmapped
    BY DEF Kept, Unmapped
  <1>4. mem[a + slide].addr = TargetOf(file, a) + slide
    BY DEF Kept
  <1>5. rsd_as_mapped(a + slide)
    BY <1>2, <1>3 DEF rsd_as_mapped
  <1>6. mem[a + slide].addr - slide = TargetOf(file, a)
    <2>1. PICK w : w = mem[a + slide].addr
      OBVIOUS
    <2>2. PICK t \in Nat : t = TargetOf(file, a)
      BY <1>1
    <2>3. w = t + slide /\ slide \in Int
      BY <1>2, <1>4, <2>1, <2>2
    <2>4. w - slide = t
      BY <2>3
    <2> QED BY <2>1, <2>2, <2>4
  <1>7. mem[a + slide].addr # 0
    BY <1>2, <1>4
  <1> QED BY <1>5, <1>6, <1>7

\* The selector references are looked at first.
LEMMA PrepareStep ==
  ASSUME file \in Images, WellFormed(file), ClassesFormed(file), img.fixups, SectionsRead, InLinked, Prepare
  PROVE  InSelrefs'
  <1>1. UNCHANGED <<file, img, mem, perm, slide>> /\ n' = 0
    BY DEF Prepare
  <1>2. \A a \in ClassPointers : Kept(a)
    BY ClassPointerShape, LinkedKept
  <1>3. Layout'
    BY <1>1, <1>2, LoStays DEF Layout, InLinked, Placed, ClassPointers, Kept
  <1>4. ASSUME HasSection("__objc_selrefs"), NEW a \in CellsOf(file, "__objc_selrefs")
        PROVE  Kept(a) /\ ~ (a < Section("__objc_selrefs").addr + 0)
    <2>1. a \in Pointers(file)
      BY <1>4 DEF ClassesFormed
    <2>2. Kept(a)
      BY <2>1, LinkedKept
    <2>3. a \in Section("__objc_selrefs").addr .. (Section("__objc_selrefs").addr + Section("__objc_selrefs").size - 1)
      BY <1>4, SectionIs
    <2>4. Section("__objc_selrefs").addr \in Nat /\ Section("__objc_selrefs").size \in Nat
      BY <1>4, SectionIs
    <2> QED BY <2>2, <2>3, <2>4
  <1>5. SelectedTo(n)'
    BY <1>1, <1>4 DEF SelectedTo, HasSection, Section, Kept
  <1>6. Size("__objc_selrefs") \in Nat /\ Size("__objc_selrefs")' = Size("__objc_selrefs")
    <2>1. CASE HasSection("__objc_selrefs")
      BY <1>1, <2>1, SectionIs DEF Size, HasSection, Section
    <2>2. CASE ~ HasSection("__objc_selrefs")
      BY <1>1, <2>2 DEF Size, HasSection
    <2> QED BY <2>1, <2>2
  <1> QED BY <1>1, <1>3, <1>5, <1>6 DEF InSelrefs

\* A section that is missing has nothing in it.
LEMMA SizeShape ==
  ASSUME file \in Images, ClassesFormed(file), SectionsRead,
         NEW name \in {"__objc_selrefs", "__objc_classlist"}
  PROVE  Size(name) \in Nat /\ (Size(name) # 0 => HasSection(name))
  <1>1. CASE HasSection(name)
    BY <1>1, SectionIs
  <1>2. CASE ~ HasSection(name)
    BY <1>2 DEF Size
  <1> QED BY <1>1, <1>2

\* The pointer that the loop over a section has come to.
LEMMA PointerIs ==
  ASSUME file \in Images, WellFormed(file), ClassesFormed(file), SectionsRead, slide \in Int,
         NEW name \in {"__objc_selrefs", "__objc_classlist"}, n \in 0 .. Size(name), n < Size(name)
  PROVE  /\ HasSection(name) /\ n \in Nat /\ Section(name).addr \in Nat
         /\ Section(name).addr + n \in CellsOf(file, name)
         /\ Pointer(name, n) = Section(name).addr + n + slide
         /\ \A b \in CellsOf(file, name) : b \in Nat
  <1>1. Size(name) \in Nat /\ n \in Nat
    BY SizeShape
  <1>2. HasSection(name)
    BY <1>1, SizeShape
  <1>3. /\ Section(name).addr \in Nat /\ Section(name).size \in Nat /\ Size(name) = Section(name).size
        /\ CellsOf(file, name) = Section(name).addr .. (Section(name).addr + Section(name).size - 1)
    BY <1>2, SectionIs
  <1>4. PICK x \in Nat : x = Section(name).addr
    BY <1>3
  <1>5. x + n \in x .. (x + Section(name).size - 1) /\ x + slide + n = x + n + slide
    BY <1>1, <1>3
  <1>6. \A b \in CellsOf(file, name) : b \in Nat
    BY <1>3, <1>4
  <1> QED BY <1>1, <1>2, <1>3, <1>4, <1>5, <1>6 DEF Pointer

\* One more selector reference becomes canonical, and nothing else changes.
LEMMA SelectorRefStep ==
  ASSUME file \in Images, WellFormed(file), ClassesFormed(file), SectionsRead, InSelrefs, SelectorRef
  PROVE  InSelrefs'
  <1> DEFINE name == "__objc_selrefs"
             s == Section(name)
             a == s.addr + n
  <1>1. Placed /\ slide \in Int /\ n \in 0 .. Size(name) /\ n < Size(name)
    BY DEF InSelrefs, Layout, Placed, SelectorRef
  <1>2. /\ HasSection(name) /\ n \in Nat /\ s.addr \in Nat /\ a \in CellsOf(file, name)
        /\ Pointer(name, n) = a + slide /\ \A b \in CellsOf(file, name) : b \in Nat
    BY <1>1, PointerIs
  <1>3. a \in Pointers(file) /\ a \in Nat
    BY <1>2 DEF ClassesFormed
  <1>4. Kept(a)
    <2>1. ~ (a < s.addr + n)
      BY <1>2
    <2> QED BY <1>2, <2>1 DEF InSelrefs, SelectedTo
  <1>5. /\ rsd_as_mapped(a + slide) /\ mem[a + slide].addr # 0
        /\ mem[a + slide].addr - slide = TargetOf(file, a)
    BY <1>1, <1>3, <1>4, KeptFollowed
  <1>6. UNCHANGED <<file, img, perm, slide>> /\ n' = n + 1 /\ mem' = [mem EXCEPT ![a + slide] = Canonical(a + slide)]
    BY <1>2, <1>5 DEF SelectorRef
  <1>7. Canonical(a + slide) = Value(Selectors[file.strings[TargetOf(file, a)]])
    BY <1>5 DEF Canonical, TextAt
  <1>8. mem = [c \in Cell |-> mem[c]] /\ a + slide \in Cell
    BY <1>1, <1>5 DEF Placed, rsd_as_mapped
  <1>9. mem'[a + slide] = Value(Selectors[file.strings[TargetOf(file, a)]])
    BY <1>6, <1>7, <1>8
  <1>10. ASSUME NEW b \in Nat, b # a PROVE mem'[b + slide] = mem[b + slide]
    <2>1. b + slide # a + slide
      BY <1>1, <1>3, <1>10
    <2> QED BY <1>6, <1>8, <2>1
  <1> HIDE DEF a, s
  <1>11. Placed'
    <2>1. mem' = [c \in Cell |-> mem'[c]]
      BY <1>6, <1>8
    <2> QED BY <1>1, <1>6, <2>1, LoStays DEF Placed
  <1>12. ASSUME NEW b \in Nat, b # a, Kept(b) PROVE Kept(b)'
    BY <1>6, <1>10, <1>12 DEF Kept
  <1>13. Layout'
    <2>1. ASSUME NEW b \in ClassPointers PROVE Kept(b)'
      <3>1. b \in Pointers(file) /\ b \notin CellsOf(file, name)
        BY ClassPointerShape
      <3>2. b \in Nat /\ b # a
        BY <1>2, <3>1, PointerShape
      <3>3. Kept(b)
        BY DEF InSelrefs, Layout
      <3> QED BY <1>12, <3>2, <3>3
    <2>2. ClassPointers' = ClassPointers
      BY <1>6 DEF ClassPointers
    <2> QED BY <1>11, <2>1, <2>2 DEF Layout
  <1>14. ASSUME NEW b \in CellsOf(file, name)
         PROVE  IF b < s.addr + (n + 1) THEN Selected(b)' ELSE Kept(b)'
    <2>1. IF b < s.addr + n THEN Selected(b) ELSE Kept(b)
      BY <1>2 DEF InSelrefs, SelectedTo, s
    <2>2. b \in Nat
      BY <1>2
    <2>3. CASE b = a
      <3>1. b < s.addr + (n + 1)
        BY <1>2, <2>3 DEF a
      <3>2. Selected(b)'
        BY <1>6, <1>9, <2>3 DEF Selected
      <3> QED BY <3>1, <3>2
    <2>4. CASE b # a
      <3>1. b < s.addr + (n + 1) <=> b < s.addr + n
        BY <1>2, <2>2, <2>4 DEF a
      <3>2. Selected(b) => Selected(b)'
        BY <1>6, <1>10, <2>2, <2>4 DEF Selected
      <3>3. Kept(b) => Kept(b)'
        BY <1>12, <2>2, <2>4
      <3> QED BY <2>1, <3>1, <3>2, <3>3
    <2> QED BY <2>3, <2>4
  <1>15. SelectedTo(n)'
    BY <1>6, <1>14 DEF SelectedTo, HasSection, Section, s
  <1>16. n' \in 0 .. Size(name)'
    <2>1. Size(name)' = Size(name) /\ Size(name) \in Nat
      BY <1>6, SizeShape DEF Size, HasSection, Section
    <2> QED BY <1>1, <1>6, <2>1
  <1> QED BY <1>13, <1>15, <1>16 DEF InSelrefs

-----------------------------------------------------------------------------
(* Registering a class.                                                    *)

\* The structure of a class, read through its handle.
LEMMA HandleFacts ==
  ASSUME file \in Images, WellFormed(file), ClassesFormed(file), Layout, NEW g \in ClassesOf(file)
  PROVE  /\ mem[g + slide].addr = MetaOf(file, g) + slide /\ mem[g + slide].addr # 0
         /\ Ro(g + slide) = RoOf(file, g) /\ mem[g + slide + 2].addr # 0
         /\ Ro(MetaOf(file, g) + slide) = RoOf(file, MetaOf(file, g))
         /\ mem[MetaOf(file, g) + slide + 2].addr # 0
         /\ Superclass(g + slide) = mem[g + 1 + slide].addr
  <1>1. g \in Nat /\ MetaOf(file, g) \in Nat /\ ClassCells(file, g) \subseteq Pointers(file)
    BY ClassShape
  <1>2. Placed /\ slide \in Int /\ \A a \in ClassPointers : Kept(a)
    BY DEF Layout, Placed
  <1>3. ClassCells(file, g) \subseteq ClassPointers
    BY DEF ClassPointers
  <1>4. ASSUME NEW a \in ClassCells(file, g)
        PROVE  Kept(a) /\ mem[a + slide].addr # 0 /\ mem[a + slide].addr - slide = TargetOf(file, a)
    BY <1>1, <1>2, <1>3, KeptFollowed
  <1>5. /\ g + slide + 2 = g + 2 + slide /\ MetaOf(file, g) + slide + 2 = MetaOf(file, g) + 2 + slide
        /\ g + slide + 1 = g + 1 + slide
    BY <1>1, <1>2
  <1>6. mem[g + slide].addr = MetaOf(file, g) + slide /\ mem[g + slide].addr # 0
    BY <1>4 DEF ClassCells, Kept, MetaOf
  <1>7. mem[g + 2 + slide].addr # 0 /\ mem[g + 2 + slide].addr - slide = TargetOf(file, g + 2)
    BY <1>4 DEF ClassCells
  <1>8. /\ mem[MetaOf(file, g) + 2 + slide].addr # 0
        /\ mem[MetaOf(file, g) + 2 + slide].addr - slide = TargetOf(file, MetaOf(file, g) + 2)
    BY <1>4 DEF ClassCells
  <1> QED BY <1>5, <1>6, <1>7, <1>8 DEF Ro, RoOf, Superclass

\* The class that the loop over the class list has come to.
LEMMA ClassIs ==
  ASSUME file \in Images, WellFormed(file), ClassesFormed(file), SectionsRead, Layout,
         n \in 0 .. Size("__objc_classlist"), n < Size("__objc_classlist")
  PROVE  \E g \in ClassesOf(file) :
           /\ rsd_as_mapped(Pointer("__objc_classlist", n))
           /\ mem[Pointer("__objc_classlist", n)].addr = g + slide /\ g + slide # 0
           /\ Seen(n + 1) \subseteq Seen(n) \cup {g}
  <1> DEFINE name == "__objc_classlist"
             a == Section(name).addr + n
             g == TargetOf(file, a)
  <1>1. Placed /\ slide \in Int
    BY DEF Layout, Placed
  <1>2. /\ n \in Nat /\ Section(name).addr \in Nat /\ a \in CellsOf(file, name)
        /\ Pointer(name, n) = a + slide /\ \A b \in CellsOf(file, name) : b \in Nat
    BY <1>1, PointerIs
  <1>3. a \in Pointers(file) /\ a \in ClassPointers
    BY <1>2 DEF ClassesFormed, ClassPointers
  <1>4. Kept(a)
    BY <1>3 DEF Layout
  <1>5. rsd_as_mapped(a + slide) /\ mem[a + slide].addr # 0 /\ mem[a + slide].addr = g + slide
    BY <1>1, <1>3, <1>4, KeptFollowed DEF Kept
  <1>6. \A b \in CellsOf(file, name) : b < Section(name).addr + (n + 1) => b < Section(name).addr + n \/ b = a
    BY <1>2
  <1>7. Seen(n + 1) \subseteq Seen(n) \cup {g}
    BY <1>6 DEF Seen
  <1>8. g \in ClassesOf(file)
    BY <1>2 DEF ClassesOf
  <1> QED BY <1>2, <1>5, <1>7, <1>8

\* The cells of a class's ivars, as far as they are read.
LEMMA DeclaredShape ==
  ASSUME file \in Images, WellFormed(file), ClassesFormed(file), NEW g \in ClassesOf(file),
         NEW ivars, ivars = Declared(RoOf(file, g))
  PROVE  /\ Len(ivars) \in Nat
         /\ \A k \in 1 .. Len(ivars) :
              /\ ivars[k].offset \in Nat /\ ivars[k].size \in Nat
              /\ ivars[k].offset \in IvarCells(file, g) /\ ivars[k].offset \in LinkedCells(file)
         /\ \A j, k \in 1 .. Len(ivars) :
              j # k => ivars[j].offset # ivars[k].offset /\ ivars[j].name # ivars[k].name
  <1>1. RoOf(file, g) \in ClassData /\ ClassFormed(file, g)
    BY ClassShape
  <1>2. Len(ivars) \in Nat /\ \A k \in 1 .. Len(ivars) : ivars[k].offset \in Nat /\ ivars[k].size \in Nat
    BY <1>1, DataShape, IvarShape
  <1>3. CASE ivars = RoOf(file, g).ivars
    <2>1. \A k \in 1 .. Len(ivars) : ivars[k].offset \in IvarCells(file, g)
      BY <1>3 DEF IvarCells
    <2>2. \A k \in 1 .. Len(ivars) : ivars[k].offset \in LinkedCells(file)
      BY <1>1, <2>1 DEF ClassFormed
    <2>3. \A j, k \in 1 .. Len(ivars) :
            j # k => ivars[j].offset # ivars[k].offset /\ ivars[j].name # ivars[k].name
      BY <1>1, <1>3 DEF ClassFormed
    <2> QED BY <1>2, <2>1, <2>2, <2>3
  <1>4. CASE ivars = <<>>
    <2>1. Len(ivars) = 0
      BY <1>4
    <2>2. \A k : k \notin 1 .. Len(ivars)
      BY <2>1
    <2> QED BY <1>2, <2>2
  <1> QED BY <1>1, <1>3, <1>4, DataShape

\* The runtime's offsets go into the cells of the class's ivars, and into no others.
LEMMA IvarsStep ==
  ASSUME file \in Images, WellFormed(file), ClassesFormed(file), Placed, NEW g \in ClassesOf(file),
         NEW class, mem' = IvarsFixed(Declared(RoOf(file, g)), class), UNCHANGED <<file, img, perm, slide>>
  PROVE  /\ Placed' /\ OffsetsOf(g, class)'
         /\ \A a \in LinkedCells(file) : a \notin IvarCells(file, g) => mem'[a + slide] = mem[a + slide]
  <1> DEFINE ivars == Declared(RoOf(file, g))
             At(c) == IvarsAt(ivars, c)
             Off(k) == Value(ivar_getOffset(class, ivars[k].name))
  <1>1. slide \in Int /\ mem = [c \in Cell |-> mem[c]] /\ \A a \in LinkedCells(file) : a + slide \in Cell
    BY DEF Placed
  <1>2. /\ Len(ivars) \in Nat
        /\ \A k \in 1 .. Len(ivars) : /\ ivars[k].offset \in Nat /\ ivars[k].offset \in IvarCells(file, g)
                                      /\ ivars[k].offset \in LinkedCells(file)
        /\ \A j, k \in 1 .. Len(ivars) : ivars[j].offset = ivars[k].offset => j = k
    BY DeclaredShape
  <1>3. \A k \in 1 .. Len(ivars) : ivars[k].offset + slide \in Cell
    BY <1>1, <1>2
  <1>4. mem' = [c \in Cell |-> IF At(c) = {} THEN mem[c] ELSE Off(CHOOSE k \in At(c) : \A j \in At(c) : j <= k)]
    BY DEF IvarsFixed
  <1> HIDE DEF Off, ivars
  <1>5. ASSUME NEW k \in 1 .. Len(ivars) PROVE mem'[ivars[k].offset + slide] = Off(k)
    <2> DEFINE c == ivars[k].offset + slide
    <2>1. \A j \in 1 .. Len(ivars) : ivars[j].offset + slide = c => ivars[j].offset = ivars[k].offset
      BY <1>1, <1>2
    <2>2. \A j \in 1 .. Len(ivars) : ivars[j].offset = ivars[k].offset => j = k
      BY <1>2
    <2>3. At(c) = {k}
      BY <2>1, <2>2 DEF IvarsAt
    <2>4. (CHOOSE i \in At(c) : \A j \in At(c) : j <= i) = k
      BY <1>2, <2>3
    <2>5. c \in Cell
      BY <1>3
    <2> HIDE DEF c, At
    <2>6. mem'[c] = Off(k)
      BY <1>4, <2>3, <2>4, <2>5
    <2> QED BY <2>6 DEF c
  <1>6. ASSUME NEW a \in LinkedCells(file), a \notin IvarCells(file, g)
        PROVE  mem'[a + slide] = mem[a + slide]
    <2>1. a \in Nat
      BY CellShape
    <2>2. \A k \in 1 .. Len(ivars) : ivars[k].offset # a
      BY <1>2, <1>6
    <2>3. \A k \in 1 .. Len(ivars) : ivars[k].offset + slide # a + slide
      BY <1>1, <1>2, <2>1, <2>2
    <2>4. At(a + slide) = {}
      BY <2>3 DEF IvarsAt
    <2>5. a + slide \in Cell
      BY <1>1
    <2> HIDE DEF At
    <2> QED BY <1>4, <2>4, <2>5
  <1>7. Placed'
    <2>1. mem' = [c \in Cell |-> mem'[c]]
      <3> HIDE DEF At
      <3> QED BY <1>4
    <2> QED BY <2>1, LoStays DEF Placed
  <1>8. OffsetsOf(g, class)'
    BY <1>5 DEF OffsetsOf, Off, ivars, Declared, ivar_getOffset
  <1> QED BY <1>6, <1>7, <1>8

\* The implementations of a list, as a sequence.
LEMMA ImpsShape ==
  ASSUME NEW list \in MethodList
  PROVE  /\ DOMAIN Imps(list) = 1 .. Len(list.entries)
         /\ Len(Imps(list)) = Len(list.entries) /\ Len(list.entries) \in Nat
         /\ Imps(list) \in Seq(ToSet(Imps(list))) /\ IsFiniteSet(ToSet(Imps(list)))
         /\ \A k \in 1 .. Len(list.entries) : Imps(list)[k] = list.entries[k].imp + slide
  <1> DEFINE s == Imps(list)
  <1>1. PICK l \in Nat : l = Len(list.entries)
    BY ListShape
  <1>2. s = [k \in 1 .. l |-> list.entries[k].imp + slide]
    BY <1>1 DEF Imps
  <1> HIDE DEF s
  <1>3. DOMAIN s = 1 .. l /\ \A k \in 1 .. l : s[k] = list.entries[k].imp + slide
    BY <1>2
  <1>4. s = [k \in 1 .. l |-> s[k]]
    BY <1>2, <1>3
  <1>5. \A k \in 1 .. l : s[k] \in ToSet(s)
    BY <1>3 DEF ToSet
  <1>6. s \in Seq(ToSet(s)) /\ Len(s) = l
    BY <1>4, <1>5
  <1>7. s \in Surjection(1 .. l, ToSet(s))
    <2>1. s \in [1 .. l -> ToSet(s)]
      BY <1>4, <1>5
    <2>2. \A t \in ToSet(s) : \E k \in 1 .. l : s[k] = t
      BY <1>3 DEF ToSet
    <2> QED BY <2>1, <2>2 DEF Surjection
  <1>8. IsFiniteSet(ToSet(s))
    BY <1>7, FS_Interval, FS_Surjection
  <1> QED BY <1>1, <1>3, <1>6, <1>8 DEF s

\* A list as far as it is read.
LEMMA ListedShape ==
  ASSUME NEW list \in MethodList
  PROVE  /\ Listed(list) \in MethodList /\ ToSet(Imps(Listed(list))) \subseteq ToSet(Imps(list))
         /\ Len(list.entries) <= MaxMethods => Listed(list) = list
  <1>1. NoMethods \in MethodList /\ Len(NoMethods.entries) = 0
    BY DEF NoMethods, MethodList
  <1>2. ToSet(Imps(NoMethods)) = {}
    <2>1. DOMAIN Imps(NoMethods) = 1 .. Len(NoMethods.entries)
      BY DEF Imps
    <2>2. 1 .. Len(NoMethods.entries) = {}
      BY <1>1
    <2> QED BY <2>1, <2>2 DEF ToSet
  <1>3. Len(list.entries) \in Nat /\ MaxMethods \in Nat
    BY ListShape, ObjCAssumption
  <1>4. CASE Len(list.entries) > MaxMethods
    <2>1. ~ (Len(list.entries) <= MaxMethods)
      BY <1>3, <1>4
    <2> QED BY <1>1, <1>2, <1>4, <2>1 DEF Listed
  <1>5. CASE ~ (Len(list.entries) > MaxMethods)
    BY <1>5 DEF Listed
  <1> QED BY <1>4, <1>5

\* The image has finitely many classes and implementations.
LEMMA ImpsFinite ==
  ASSUME file \in Images, WellFormed(file), ClassesFormed(file), Placed
  PROVE  IsFiniteSet(Handles(ClassesOf(file))) /\ IsFiniteSet(ImageImps)
  <1> DEFINE H == Handles(ClassesOf(file))
             S == {ImpsOf(g) : g \in ClassesOf(file)}
             F == [h \in H |-> ImpsOf(h - slide)]
  <1>1. IsFiniteSet(H)
    <2>1. H \subseteq Cell
      BY ClassShape DEF Handles, Placed
    <2>2. IsFiniteSet(Cell)
      <3>1. 0 \in Int /\ Top - 1 \in Int
        BY LoaderAssumption
      <3> QED BY <3>1, FS_Interval DEF Cell
    <2> QED BY <2>1, <2>2, FS_Subset
  <1>2. ASSUME NEW g \in ClassesOf(file) PROVE g + slide \in H /\ F[g + slide] = ImpsOf(g)
    <2>1. g + slide \in H
      BY DEF Handles
    <2>2. PICK h \in H : h = g + slide
      BY <2>1
    <2>3. g \in Nat /\ slide \in Int
      BY ClassShape DEF Placed
    <2>4. h - slide = g
      BY <2>2, <2>3
    <2>5. F[h] = ImpsOf(h - slide)
      OBVIOUS
    <2>6. F[h] = ImpsOf(g)
      BY <2>4, <2>5
    <2> HIDE DEF F, H
    <2> QED BY <2>1, <2>2, <2>6
  <1>3. F \in Surjection(H, S)
    <2>1. \A h \in H : \E g \in ClassesOf(file) : h = g + slide
      BY DEF Handles
    <2>2. \A h \in H : F[h] \in S
      BY <1>2, <2>1
    <2>3. F \in [H -> S]
      BY <2>2
    <2>4. \A t \in S : \E h \in H : F[h] = t
      BY <1>2
    <2> HIDE DEF F, H, S
    <2> QED BY <2>3, <2>4 DEF Surjection
  <1>4. IsFiniteSet(S)
    <2> HIDE DEF F, H, S
    <2> QED BY <1>1, <1>3, FS_Surjection
  <1>5. \A T \in S : IsFiniteSet(T)
    <2>1. ASSUME NEW g \in ClassesOf(file) PROVE IsFiniteSet(ImpsOf(g))
      BY ClassShape, DataShape, ImpsShape, FS_Union DEF ImpsOf
    <2> QED BY <2>1
  <1>6. IsFiniteSet(UNION S)
    <2> HIDE DEF S
    <2> QED BY <1>4, <1>5, FS_UNION
  <1> QED BY <1>1, <1>6 DEF ImageImps

\* The method lists of a class, as ClassFormed has them.
ListFormed(list) ==
  /\ list.small => \A k \in 1 .. Len(list.entries) : list.entries[k].name \in CellsOf(file, "__objc_selrefs")
  /\ \A k \in 1 .. Len(list.entries) : MethodText(file, list, k) \in DOMAIN Selectors
  /\ \A j, k \in 1 .. Len(list.entries) : MethodText(file, list, j) = MethodText(file, list, k) => j = k

\* A method list of a class under the selectors its names stand for.
LEMMA ListArrives ==
  ASSUME AllSelected, slide \in Int, HasSection("__objc_selrefs"), NEW list \in MethodList, NEW used, ListFormed(list),
         \A k \in 1 .. Len(list.entries) : Contains(used, Imps(list)[k])
  PROVE  Arrives(list, Methods(list, used))
  <1>1. ASSUME NEW k \in 1 .. Len(list.entries)
        PROVE  SelectorOf(list, list.entries[k]) = Selectors[MethodText(file, list, k)]
    <2> DEFINE e == list.entries[k]
    <2>1. CASE list.small
      <3>1. e.name \in CellsOf(file, "__objc_selrefs")
        BY <2>1 DEF ListFormed
      <3>2. mem[e.name + slide] = Value(Selectors[file.strings[TargetOf(file, e.name)]])
        BY <3>1 DEF AllSelected, Selected
      <3>3. mem[e.name + slide].addr = Selectors[file.strings[TargetOf(file, e.name)]]
        BY <3>2 DEF Value
      <3> QED BY <2>1, <3>3 DEF SelectorOf, MethodText
    <2>2. CASE ~ list.small
      <3>1. PICK c : c = e.name + slide
        OBVIOUS
      <3>2. PICK x \in Nat : x = e.name
        BY ListShape
      <3>3. c - slide = x
        BY <3>1, <3>2
      <3>4. TextAt(c) = file.strings[x]
        BY <3>3 DEF TextAt
      <3>5. SelectorOf(list, e) = Selectors[TextAt(c)]
        BY <2>2, <3>1 DEF SelectorOf
      <3> QED BY <2>2, <3>2, <3>4, <3>5 DEF MethodText
    <2> QED BY <2>1, <2>2
  <1>2. ASSUME NEW i \in 1 .. Len(list.entries), NEW k \in 1 .. Len(list.entries), i < k
        PROVE  SelectorOf(list, list.entries[i]) # SelectorOf(list, list.entries[k])
    <2>1. /\ MethodText(file, list, i) \in DOMAIN Selectors /\ MethodText(file, list, k) \in DOMAIN Selectors
          /\ MethodText(file, list, i) = MethodText(file, list, k) => i = k
      BY DEF ListFormed
    <2>2. MethodText(file, list, i) # MethodText(file, list, k)
      BY <1>2, <2>1
    <2> QED BY <1>1, <2>1, <2>2, ObjCAssumption
  <1>3. ASSUME NEW k \in 1 .. Len(list.entries)
        PROVE  [sel |-> SelectorOf(list, list.entries[k]), imp |-> Imps(list)[k]] \in Methods(list, used)
    <2>1. Callable(list, used) \subseteq 1 .. Len(list.entries) /\ k \in Callable(list, used)
      BY DEF Callable
    <2> QED BY <1>2, <2>1 DEF Methods
  <1>4. ASSUME NEW k \in 1 .. Len(list.entries) PROVE Imps(list)[k] = list.entries[k].imp + slide
    BY ImpsShape
  <1> QED BY <1>1, <1>3, <1>4 DEF Arrives

\* What register_class() does with a class of the image.
LEMMA RegisterIs ==
  ASSUME file \in Images, WellFormed(file), ClassesFormed(file), Layout, NEW g \in ClassesOf(file),
         register_class(g + slide), NEW ro, ro = RoOf(file, g), NEW mro, mro = RoOf(file, MetaOf(file, g)),
         NEW list, list = Listed(ro.methods), NEW mlist, mlist = Listed(mro.methods),
         NEW used, used = Pool(targets, Imps(list) \o Imps(mlist))
  PROVE  \E size \in Nat : \E class :
           /\ mem[g + 1 + slide].addr \in DOMAIN NativeSize => size = NativeSize[mem[g + 1 + slide].addr]
           /\ class = [super |-> Superclass(g + slide), ivars |-> Declared(ro), extents |-> Extents(size, Declared(ro)),
                       methods |-> Methods(list, used), class_methods |-> Methods(mlist, used)]
           /\ targets' = used /\ mem' = IvarsFixed(Declared(ro), class) /\ n' = n + 1
           /\ runtime' = WithClass(ro.name, class)
           /\ class_map' = remember(remember(class_map, g + slide, ClassAddr[ro.name]),
                                    MetaOf(file, g) + slide, MetaAddr[ro.name])
           /\ UNCHANGED <<pc, file, img, perm, slide, refused>>
  <1>1. PICK h : h = g + slide
    OBVIOUS
  <1>2. PICK m : m = MetaOf(file, g) + slide
    OBVIOUS
  <1>3. /\ mem[h].addr = m /\ m # 0 /\ Ro(h) = ro /\ Ro(m) = mro /\ mem[m + 2].addr # 0
        /\ Superclass(h) = mem[g + 1 + slide].addr
    BY <1>1, <1>2, HandleFacts
  <1>4. register_class(h)
    BY <1>1
  <1> DEFINE Class(size) == [super |-> Superclass(h), ivars |-> Declared(ro), extents |-> Extents(size, Declared(ro)),
                             methods |-> Methods(list, used), class_methods |-> Methods(mlist, used)]
  <1>5. PICK size \in SuperSizes(h) :
          /\ targets' = used /\ mem' = IvarsFixed(Declared(ro), Class(size)) /\ n' = n + 1
          /\ runtime' = WithClass(ro.name, Class(size))
          /\ class_map' = remember(remember(class_map, h, ClassAddr[ro.name]), m, MetaAddr[ro.name])
          /\ UNCHANGED <<pc, file, img, perm, slide, refused>>
    BY <1>3, <1>4 DEF register_class
  <1>6. size \in Nat /\ (Superclass(h) \in DOMAIN NativeSize => size = NativeSize[Superclass(h)])
    BY ObjCAssumption DEF SuperSizes, KnownSuper
  <1>7. PICK class : class = Class(size)
    OBVIOUS
  <1>8. /\ mem[g + 1 + slide].addr \in DOMAIN NativeSize => size = NativeSize[mem[g + 1 + slide].addr]
        /\ class = [super |-> Superclass(g + slide), ivars |-> Declared(ro), extents |-> Extents(size, Declared(ro)),
                    methods |-> Methods(list, used), class_methods |-> Methods(mlist, used)]
    BY <1>1, <1>3, <1>6, <1>7
  <1> HIDE DEF Class
  <1> QED BY <1>1, <1>2, <1>5, <1>6, <1>7, <1>8

\* Remembering a pair.
LEMMA RememberShape ==
  ASSUME NEW E, NEW map \in Seq(E), NEW g, NEW c, [guest |-> g, native |-> c] \in E
  PROVE  /\ remember(map, g, c) \in Seq(E)
         /\ Len(map) < MaxClasses =>
              /\ Len(remember(map, g, c)) = Len(map) + 1
              /\ Contains(remember(map, g, c), [guest |-> g, native |-> c])
         /\ \A e : Contains(map, e) => Contains(remember(map, g, c), e)
  <1>1. PICK x \in E : x = [guest |-> g, native |-> c]
    OBVIOUS
  <1>2. remember(map, g, c) = IF Len(map) < MaxClasses THEN Append(map, x) ELSE map
    BY <1>1 DEF remember
  <1>3. Append(map, x) \in Seq(E) /\ Len(Append(map, x)) = Len(map) + 1 /\ Len(map) \in Nat
    OBVIOUS
  <1>4. Contains(Append(map, x), x)
    <2>1. Append(map, x)[Len(map) + 1] = x /\ Len(map) + 1 \in 1 .. Len(Append(map, x))
      BY <1>3
    <2> QED BY <2>1 DEF Contains
  <1>5. \A e : Contains(map, e) => Contains(Append(map, x), e)
    BY <1>3 DEF Contains
  <1> QED BY <1>1, <1>2, <1>3, <1>4, <1>5

\* With room in the map, both handles of one more class are remembered.
LEMMA MapStep ==
  ASSUME file \in Images, WellFormed(file), ClassesFormed(file), Placed, NEW g \in ClassesOf(file), g \notin Known,
         class_map \in Seq(Entries), NEW map,
         map = remember(remember(class_map, g + slide, ClassAddr[NameOf(g)]),
                        MetaOf(file, g) + slide, MetaAddr[NameOf(g)])
  PROVE  /\ map \in Seq(Entries) /\ \A e : Contains(class_map, e) => Contains(map, e)
         /\ Room /\ Len(class_map) = 2 * Cardinality(Handles(Known)) =>
              /\ Len(map) = 2 * Cardinality(Handles(Known \cup {g}))
              /\ Contains(map, ClassEntry(g)) /\ Contains(map, MetaEntry(g))
  <1>1. PICK one : one = remember(class_map, g + slide, ClassAddr[NameOf(g)])
    OBVIOUS
  <1>2. ClassEntry(g) \in Entries /\ MetaEntry(g) \in Entries
    BY DEF Entries
  <1>3. /\ one \in Seq(Entries) /\ \A e : Contains(class_map, e) => Contains(one, e)
        /\ Len(class_map) < MaxClasses => Len(one) = Len(class_map) + 1 /\ Contains(one, ClassEntry(g))
    BY <1>1, <1>2, RememberShape DEF ClassEntry
  <1>4. /\ map \in Seq(Entries) /\ \A e : Contains(one, e) => Contains(map, e)
        /\ Len(one) < MaxClasses => Len(map) = Len(one) + 1 /\ Contains(map, MetaEntry(g))
    BY <1>1, <1>2, <1>3, RememberShape DEF MetaEntry
  <1>5. ASSUME Room, Len(class_map) = 2 * Cardinality(Handles(Known))
        PROVE  /\ Len(map) = 2 * Cardinality(Handles(Known \cup {g}))
               /\ Contains(map, ClassEntry(g)) /\ Contains(map, MetaEntry(g))
    <2> DEFINE all_ == Handles(ClassesOf(file))
               old == Handles(Known)
               new == Handles(Known \cup {g})
    <2>1. IsFiniteSet(all_) /\ old \subseteq all_ /\ new \subseteq all_ /\ new = old \cup {g + slide}
      BY ImpsFinite DEF Handles, Known
    <2>2. g + slide \notin old
      <3>1. \A h \in Known : h \in Nat /\ g \in Nat /\ slide \in Int /\ h # g
        BY ClassShape DEF Known, Placed
      <3>2. \A h \in Known : h + slide # g + slide
        BY <3>1
      <3> QED BY <3>2 DEF Handles
    <2> HIDE DEF all_, old, new
    <2>3. IsFiniteSet(old) /\ IsFiniteSet(new) /\ Cardinality(new) <= Cardinality(all_)
      BY <2>1, FS_Subset
    <2>4. Cardinality(new) = Cardinality(old) + 1
      BY <2>1, <2>2, <2>3, FS_AddElement
    <2>5. Cardinality(old) \in Nat /\ Cardinality(all_) \in Nat
      BY <2>1, <2>3, FS_CardinalityType
    <2>6. PICK x \in Nat, y \in Nat : x = Cardinality(old) /\ y = Cardinality(all_)
      BY <2>5
    <2>7. 2 * y <= MaxClasses /\ MaxClasses \in Nat /\ Len(class_map) = 2 * x
      BY <1>5, <2>6, ObjCAssumption DEF Room, all_, old
    <2>8. x + 1 <= y
      BY <2>3, <2>4, <2>6
    <2>9. Len(class_map) < MaxClasses /\ Len(class_map) + 1 < MaxClasses /\ Len(class_map) + 1 + 1 = 2 * (x + 1)
      BY <2>6, <2>7, <2>8, SMTT(40)
    <2>10. Len(one) = Len(class_map) + 1 /\ Contains(one, ClassEntry(g)) /\ Len(map) = Len(one) + 1
           /\ Contains(map, MetaEntry(g))
      BY <1>3, <1>4, <2>9
    <2>11. Len(map) = 2 * Cardinality(new)
      BY <2>4, <2>6, <2>9, <2>10
    <2> QED BY <1>4, <2>10, <2>11 DEF new
  <1> QED BY <1>3, <1>4, <1>5

\* What stays while the file, its record and its place stay.
LEMMA SameImage ==
  ASSUME UNCHANGED <<file, img, slide>>
  PROVE  /\ Entries' = Entries /\ ImageImps' = ImageImps /\ Room' = Room
         /\ \A m : Seen(m)' = Seen(m)
         /\ \A name : HasSection(name)' = HasSection(name) /\ Section(name)' = Section(name) /\ Size(name)' = Size(name)
  <1>1. Entries' = Entries
    BY DEF Entries, ClassEntry, MetaEntry, NameOf
  <1>2. ImageImps' = ImageImps
    BY DEF ImageImps, ImpsOf, Imps
  <1>3. \A name : HasSection(name)' = HasSection(name) /\ Section(name)' = Section(name) /\ Size(name)' = Size(name)
    BY DEF HasSection, Section, Size
  <1>4. Handles(ClassesOf(file))' = Handles(ClassesOf(file))
    BY DEF Handles
  <1>5. Room' = Room
    BY <1>2, <1>3, <1>4 DEF Room
  <1>6. \A m : Seen(m)' = Seen(m)
    BY <1>3 DEF Seen
  <1> QED BY <1>1, <1>2, <1>3, <1>5, <1>6

\* The same of what lies in memory.
LEMMA SameMemory ==
  ASSUME UNCHANGED <<file, img, mem, perm, slide>>
  PROVE  (Layout => Layout') /\ (AllSelected => AllSelected')
  <1>1. Placed => Placed'
    BY LoStays DEF Placed
  <1>2. ClassPointers' = ClassPointers
    BY DEF ClassPointers
  <1>3. \A a : (Kept(a) => Kept(a)') /\ (Selected(a) => Selected(a)')
    BY DEF Kept, Selected
  <1>4. Layout => Layout'
    BY <1>1, <1>2, <1>3 DEF Layout
  <1>5. AllSelected => AllSelected'
    BY <1>3 DEF AllSelected, HasSection
  <1> QED BY <1>4, <1>5

\* While nothing else is written either, the classes stay as they are.
LEMMA SameClasses ==
  ASSUME UNCHANGED <<file, img, slide, mem, runtime, class_map, targets>>, refused \subseteq refused',
         NEW CONSTANT m, RegisteredTo(m)
  PROVE  RegisteredTo(m)'
  <1>1. /\ Entries' = Entries /\ ImageImps' = ImageImps /\ Room' = Room /\ Seen(m)' = Seen(m)
        /\ HasSection("__objc_classlist")' = HasSection("__objc_classlist")
    BY SameImage
  <1>2. Known' = Known /\ Handles(Known)' = Handles(Known)
    BY DEF Known, NameOf, Handles
  <1>3. \A g : IvarsSet(g)' = IvarsSet(g) /\ Mapped(g)' = Mapped(g) /\ Reached(g)' = Reached(g) /\ NameOf(g)' = NameOf(g)
    BY DEF IvarsSet, OffsetsOf, LaidOut, Declared, ivar_getOffset, Extents,
           Mapped, ClassEntry, MetaEntry, Reached, NameOf, Arrives
  <1> QED BY <1>1, <1>2, <1>3 DEF RegisteredTo

\* Before the first class is looked at, none is registered.
LEMMA SelectorsEndStep ==
  ASSUME file \in Images, WellFormed(file), ClassesFormed(file), SectionsRead, InSelrefs, NothingRegistered,
         SelectorsEnd
  PROVE  InClasses'
  <1>1. UNCHANGED <<file, img, mem, perm, slide, runtime, class_map, targets, refused>> /\ n' = 0 /\ n = Size("__objc_selrefs")
    BY DEF SelectorsEnd, objc
  <1>2. Layout'
    BY <1>1, SameMemory DEF InSelrefs
  <1>3. ASSUME HasSection("__objc_selrefs"), NEW a \in CellsOf(file, "__objc_selrefs") PROVE Selected(a)
    <2>1. PICK s : s = Section("__objc_selrefs")
      OBVIOUS
    <2>2. a \in s.addr .. (s.addr + s.size - 1) /\ s.addr \in Nat /\ s.size \in Nat /\ n = s.size
      BY <1>1, <1>3, <2>1, SectionIs
    <2>3. a < s.addr + n
      BY <2>2
    <2> QED BY <1>3, <2>1, <2>3 DEF InSelrefs, SelectedTo
  <1>4. AllSelected'
    BY <1>1, <1>3 DEF AllSelected, HasSection, Selected
  <1>5. Size("__objc_classlist")' \in Nat
    BY <1>1, SizeShape DEF Size, HasSection, Section
  <1>6. ASSUME HasSection("__objc_classlist") PROVE Seen(0) = {}
    <2>1. PICK s : s = Section("__objc_classlist")
      OBVIOUS
    <2>2. CellsOf(file, "__objc_classlist") = s.addr .. (s.addr + s.size - 1) /\ s.addr \in Nat /\ s.size \in Nat
      BY <1>6, <2>1, SectionIs
    <2>3. \A b \in CellsOf(file, "__objc_classlist") : ~ (b < s.addr + 0)
      BY <2>2
    <2> QED BY <2>1, <2>3 DEF Seen
  <1>7. Known = {} /\ class_map = <<>> /\ targets = <<>>
    BY DEF Known, NothingRegistered
  <1>8. Handles(Known) = {} /\ Cardinality(Handles(Known)) = 0
    BY <1>7, FS_EmptySet DEF Handles
  <1>9. RegisteredTo(0)
    <2>1. class_map \in Seq(Entries) /\ targets \in Seq(ImageImps) /\ NoRepeats(targets) /\ Len(class_map) = 0
      BY <1>7 DEF NoRepeats
    <2>2. Len(class_map) = 2 * Cardinality(Handles(Known))
      BY <1>8, <2>1
    <2> QED BY <1>6, <1>7, <2>1, <2>2 DEF RegisteredTo
  <1>10. RegisteredTo(n)'
    <2>1. RegisteredTo(0)'
      BY <1>1, <1>9, SameClasses
    <2> QED BY <1>1, <2>1
  <1> QED BY <1>1, <1>2, <1>4, <1>5, <1>10 DEF InClasses

\* The memory of the other classes, and the selector references, stay.
LEMMA OthersStay ==
  ASSUME file \in Images, WellFormed(file), ClassesFormed(file), Layout, AllSelected, NEW g \in ClassesOf(file),
         NEW class, mem' = IvarsFixed(Declared(RoOf(file, g)), class), UNCHANGED <<file, img, perm, slide>>
  PROVE  /\ Layout' /\ AllSelected' /\ OffsetsOf(g, class)'
         /\ \A h \in ClassesOf(file) :
              /\ mem'[h + 1 + slide] = mem[h + 1 + slide]
              /\ \A c : /\ h # g /\ OffsetsOf(h, c) => OffsetsOf(h, c)'
                        /\ LaidOut(h, c) => LaidOut(h, c)'
  <1>1. /\ Placed' /\ OffsetsOf(g, class)'
        /\ \A a \in LinkedCells(file) : a \notin IvarCells(file, g) => mem'[a + slide] = mem[a + slide]
    BY IvarsStep DEF Layout
  <1>2. Layout'
    <2>1. ASSUME NEW a \in ClassPointers PROVE Kept(a)'
      <3>1. a \in LinkedCells(file) /\ a \notin IvarCells(file, g)
        BY ClassPointerShape, PointerShape
      <3>2. mem'[a + slide] = mem[a + slide] /\ Kept(a)
        BY <1>1, <3>1 DEF Layout
      <3> QED BY <3>2 DEF Kept
    <2>2. ClassPointers' = ClassPointers
      BY DEF ClassPointers
    <2> QED BY <1>1, <2>1, <2>2 DEF Layout
  <1>3. AllSelected'
    <2>1. ASSUME HasSection("__objc_selrefs"), NEW a \in CellsOf(file, "__objc_selrefs") PROVE Selected(a)'
      <3>1. a \in Pointers(file) /\ a \notin IvarCells(file, g)
        BY DEF ClassesFormed
      <3>2. mem'[a + slide] = mem[a + slide] /\ Selected(a)
        BY <1>1, <2>1, <3>1, PointerShape DEF AllSelected
      <3> QED BY <3>2 DEF Selected
    <2> QED BY <2>1 DEF AllSelected, HasSection
  <1>4. ASSUME NEW h \in ClassesOf(file) PROVE mem'[h + 1 + slide] = mem[h + 1 + slide]
    <2>1. h + 1 \in LinkedCells(file)
      BY ClassShape DEF ClassFormed
    <2>2. h + 1 \notin IvarCells(file, g)
      BY DEF ClassesFormed
    <2> QED BY <1>1, <2>1, <2>2
  <1>5. ASSUME NEW h \in ClassesOf(file), h # g, NEW c, OffsetsOf(h, c) PROVE OffsetsOf(h, c)'
    <2>1. PICK ivars : ivars = Declared(RoOf(file, h))
      OBVIOUS
    <2>2. ASSUME NEW k \in 1 .. Len(ivars)
          PROVE  mem'[ivars[k].offset + slide] = Value(ivar_getOffset(c, ivars[k].name))
      <3>1. ivars[k].offset \in IvarCells(file, h) /\ ivars[k].offset \in LinkedCells(file)
        BY <2>1, DeclaredShape
      <3>2. ivars[k].offset \notin IvarCells(file, g)
        BY <1>5, <3>1 DEF ClassesFormed
      <3>3. mem'[ivars[k].offset + slide] = mem[ivars[k].offset + slide]
        BY <1>1, <3>1, <3>2
      <3> QED BY <1>5, <2>1, <3>3 DEF OffsetsOf
    <2>3. Declared(RoOf(file, h))' = ivars
      BY <2>1 DEF Declared
    <2> QED BY <2>2, <2>3 DEF OffsetsOf
  <1>6. ASSUME NEW h \in ClassesOf(file), NEW c, LaidOut(h, c) PROVE LaidOut(h, c)'
    <2>1. Declared(RoOf(file, h))' = Declared(RoOf(file, h))
      BY DEF Declared
    <2> QED BY <1>4, <1>6, <2>1 DEF LaidOut
  <1> QED BY <1>1, <1>2, <1>3, <1>4, <1>5, <1>6

\* The runtime with one more class.
LEMMA KnownStep ==
  ASSUME file \in Images, WellFormed(file), ClassesFormed(file), NEW g \in ClassesOf(file),
         NEW class, runtime' = WithClass(NameOf(g), class), NameOf(g) \notin DOMAIN runtime, file' = file
  PROVE  /\ Known' = Known \cup {g} /\ g \notin Known
         /\ runtime'[NameOf(g)] = class
         /\ \A h \in Known : h # g /\ runtime'[NameOf(h)] = runtime[NameOf(h)]
  <1>1. /\ DOMAIN runtime' = DOMAIN runtime \cup {NameOf(g)} /\ runtime'[NameOf(g)] = class
        /\ \A y \in DOMAIN runtime : runtime'[y] = runtime[y]
    BY DEF WithClass
  <1>2. \A h \in ClassesOf(file) : NameOf(h) = NameOf(g) => h = g
    BY DEF ClassesFormed, NameOf
  <1>3. Known' = {h \in ClassesOf(file) : NameOf(h) \in DOMAIN runtime \cup {NameOf(g)}}
    BY <1>1 DEF Known, NameOf
  <1>4. Known' = Known \cup {g}
    BY <1>2, <1>3 DEF Known
  <1> QED BY <1>1, <1>4 DEF Known

\* Every implementation of a class gets a trampoline, if there is one for each.
LEMMA PoolStep ==
  ASSUME file \in Images, WellFormed(file), ClassesFormed(file), Placed, NEW g \in ClassesOf(file),
         targets \in Seq(ImageImps), NoRepeats(targets),
         NEW list, list = Listed(RoOf(file, g).methods),
         NEW mlist, mlist = Listed(RoOf(file, MetaOf(file, g)).methods),
         NEW used, used = Pool(targets, Imps(list) \o Imps(mlist))
  PROVE  /\ list \in MethodList /\ mlist \in MethodList /\ used \in Seq(ImageImps) /\ NoRepeats(used)
         /\ Room => /\ \A k \in 1 .. Len(list.entries) : Contains(used, Imps(list)[k])
                    /\ \A k \in 1 .. Len(mlist.entries) : Contains(used, Imps(mlist)[k])
  <1>1. /\ list \in MethodList /\ mlist \in MethodList
        /\ ToSet(Imps(list)) \subseteq ToSet(Imps(RoOf(file, g).methods))
        /\ ToSet(Imps(mlist)) \subseteq ToSet(Imps(RoOf(file, MetaOf(file, g)).methods))
    BY ClassShape, DataShape, ListedShape
  <1>2. PICK s, t : s = Imps(list) /\ t = Imps(mlist)
    OBVIOUS
  <1>3. /\ s \in Seq(ToSet(s)) /\ Len(s) = Len(list.entries) /\ Len(s) \in Nat /\ DOMAIN s = 1 .. Len(s)
        /\ t \in Seq(ToSet(t)) /\ Len(t) = Len(mlist.entries) /\ Len(t) \in Nat /\ DOMAIN t = 1 .. Len(t)
    BY <1>1, <1>2, ImpsShape
  <1>4. ToSet(s) \subseteq ImageImps /\ ToSet(t) \subseteq ImageImps
    BY <1>1, <1>2 DEF ImageImps, ImpsOf
  <1>5. s \in Seq(ImageImps) /\ t \in Seq(ImageImps)
    BY <1>3, <1>4
  <1>6. PICK u : u = s \o t
    OBVIOUS
  <1>7. /\ u \in Seq(ImageImps) /\ Len(u) = Len(s) + Len(t)
        /\ \A k \in 1 .. Len(s) : k \in 1 .. Len(u) /\ u[k] = s[k]
        /\ \A k \in 1 .. Len(t) : k + Len(s) \in 1 .. Len(u) /\ u[k + Len(s)] = t[k]
    <2>1. /\ u \in Seq(ImageImps) /\ Len(u) = Len(s) + Len(t)
          /\ \A i \in 1 .. Len(s) + Len(t) : u[i] = IF i <= Len(s) THEN s[i] ELSE t[i - Len(s)]
      BY <1>5, <1>6, ConcatProperties
    <2>2. PICK x \in Nat, y \in Nat : x = Len(s) /\ y = Len(t)
      BY <1>3
    <2>3. \A k \in 1 .. x : k \in 1 .. x + y /\ u[k] = s[k]
      BY <2>1, <2>2
    <2>4. ASSUME NEW k \in 1 .. y PROVE k + x \in 1 .. x + y /\ u[k + x] = t[k]
      <3>1. PICK i : i = k + x
        OBVIOUS
      <3>2. i \in 1 .. x + y /\ ~ (i <= x) /\ i - x = k
        BY <3>1
      <3>3. u[i] = t[k]
        BY <2>1, <2>2, <3>2
      <3> QED BY <3>1, <3>2, <3>3
    <2> QED BY <2>1, <2>2, <2>3, <2>4
  <1>8. used = Pool(targets, u)
    BY <1>2, <1>6
  <1>9. IsFiniteSet(ImageImps)
    BY ImpsFinite
  <1>10. /\ used \in Seq(ImageImps) /\ NoRepeats(used)
         /\ Room => \A j \in 1 .. Len(u) : Contains(used, u[j])
    BY <1>7, <1>8, <1>9, PoolTakes DEF Room
  <1>11. ASSUME Room
         PROVE  /\ \A k \in 1 .. Len(s) : Contains(used, s[k])
                /\ \A k \in 1 .. Len(t) : Contains(used, t[k])
    BY <1>7, <1>10, <1>11
  <1> QED BY <1>1, <1>2, <1>3, <1>10, <1>11

\* The class is registered with everything that belongs to it.
LEMMA RegisterStep ==
  ASSUME file \in Images, WellFormed(file), ClassesFormed(file), SectionsRead, InClasses,
         n < Size("__objc_classlist"), NEW g \in ClassesOf(file), Seen(n + 1) \subseteq Seen(n) \cup {g},
         Registrable(g + slide), register_class(g + slide)
  PROVE  InClasses'
  <1>1. Layout /\ Placed /\ slide \in Int /\ AllSelected /\ RegisteredTo(n)
    BY DEF InClasses, Layout, Placed
  <1>2. PICK ro, mro, list, mlist : /\ ro = RoOf(file, g) /\ mro = RoOf(file, MetaOf(file, g))
                                    /\ list = Listed(ro.methods) /\ mlist = Listed(mro.methods)
    OBVIOUS
  <1>3. PICK used : used = Pool(targets, Imps(list) \o Imps(mlist))
    OBVIOUS
  <1>4. PICK size \in Nat : \E class :
          /\ mem[g + 1 + slide].addr \in DOMAIN NativeSize => size = NativeSize[mem[g + 1 + slide].addr]
          /\ class = [super |-> Superclass(g + slide), ivars |-> Declared(ro), extents |-> Extents(size, Declared(ro)),
                      methods |-> Methods(list, used), class_methods |-> Methods(mlist, used)]
          /\ targets' = used /\ mem' = IvarsFixed(Declared(ro), class) /\ n' = n + 1
          /\ runtime' = WithClass(ro.name, class)
          /\ class_map' = remember(remember(class_map, g + slide, ClassAddr[ro.name]),
                                   MetaOf(file, g) + slide, MetaAddr[ro.name])
          /\ UNCHANGED <<pc, file, img, perm, slide, refused>>
    BY <1>1, <1>2, <1>3, RegisterIs
  <1>5. PICK class :
          /\ mem[g + 1 + slide].addr \in DOMAIN NativeSize => size = NativeSize[mem[g + 1 + slide].addr]
          /\ class = [super |-> Superclass(g + slide), ivars |-> Declared(ro), extents |-> Extents(size, Declared(ro)),
                      methods |-> Methods(list, used), class_methods |-> Methods(mlist, used)]
          /\ targets' = used /\ mem' = IvarsFixed(Declared(ro), class) /\ n' = n + 1
          /\ runtime' = WithClass(ro.name, class)
          /\ class_map' = remember(remember(class_map, g + slide, ClassAddr[ro.name]),
                                   MetaOf(file, g) + slide, MetaAddr[ro.name])
          /\ UNCHANGED <<pc, file, img, perm, slide, refused>>
    BY <1>4
  <1>6. NameOf(g) = ro.name /\ NameOf(g) \notin DOMAIN runtime
    BY <1>1, <1>2, HandleFacts DEF Registrable, Taken, NameOf
  <1>7. /\ Known' = Known \cup {g} /\ g \notin Known /\ runtime'[NameOf(g)] = class
        /\ \A h \in Known : h # g /\ runtime'[NameOf(h)] = runtime[NameOf(h)]
    BY <1>5, <1>6, KnownStep
  <1>8. /\ Layout' /\ AllSelected' /\ OffsetsOf(g, class)'
        /\ \A h \in ClassesOf(file) :
             /\ mem'[h + 1 + slide] = mem[h + 1 + slide]
             /\ \A c : /\ h # g /\ OffsetsOf(h, c) => OffsetsOf(h, c)'
                       /\ LaidOut(h, c) => LaidOut(h, c)'
    BY <1>1, <1>2, <1>5, OthersStay
  <1>9. \A h \in Known' : IvarsSet(h)'
    <2>1. \A h \in Known : /\ h \in ClassesOf(file) /\ h # g
                           /\ OffsetsOf(h, runtime[NameOf(h)]) /\ LaidOut(h, runtime[NameOf(h)])
      BY <1>1, <1>7 DEF RegisteredTo, Known, IvarsSet
    <2>2. LaidOut(g, class)
      <3>1. class.ivars = Declared(ro) /\ class.extents = Extents(size, Declared(ro))
        BY <1>5
      <3> QED BY <1>2, <1>5, <3>1 DEF LaidOut
    <2>3. NameOf(g)' = NameOf(g) /\ \A h \in Known : NameOf(h)' = NameOf(h)
      BY <1>5 DEF NameOf
    <2>4. IvarsSet(g)'
      <3>1. PICK c : c = runtime'[NameOf(g)]
        OBVIOUS
      <3>2. OffsetsOf(g, c)' /\ LaidOut(g, c)'
        BY <1>7, <1>8, <2>2, <3>1
      <3>3. runtime'[NameOf(g)'] = c
        BY <2>3, <3>1
      <3> QED BY <3>2, <3>3 DEF IvarsSet, OffsetsOf, LaidOut
    <2>5. ASSUME NEW h \in Known PROVE IvarsSet(h)'
      <3>1. PICK c : c = runtime[NameOf(h)]
        OBVIOUS
      <3>2. OffsetsOf(h, c)' /\ LaidOut(h, c)'
        BY <1>8, <2>1, <3>1
      <3>3. runtime'[NameOf(h)'] = c
        BY <1>7, <2>3, <3>1
      <3> QED BY <3>2, <3>3 DEF IvarsSet, OffsetsOf, LaidOut
    <2> QED BY <1>7, <2>4, <2>5
  <1>10. /\ Entries' = Entries /\ ImageImps' = ImageImps /\ Room' = Room
         /\ HasSection("__objc_classlist")' = HasSection("__objc_classlist")
         /\ Size("__objc_classlist")' = Size("__objc_classlist") /\ \A m : Seen(m)' = Seen(m)
    BY <1>5, SameImage
  <1>11. /\ list \in MethodList /\ mlist \in MethodList /\ used \in Seq(ImageImps) /\ NoRepeats(used)
         /\ Room => /\ \A k \in 1 .. Len(list.entries) : Contains(used, Imps(list)[k])
                    /\ \A k \in 1 .. Len(mlist.entries) : Contains(used, Imps(mlist)[k])
    BY <1>1, <1>2, <1>3, PoolStep DEF RegisteredTo
  <1>12. /\ class_map' \in Seq(Entries) /\ \A e : Contains(class_map, e) => Contains(class_map', e)
         /\ Room => /\ Len(class_map') = 2 * Cardinality(Handles(Known \cup {g}))
                    /\ Contains(class_map', ClassEntry(g)) /\ Contains(class_map', MetaEntry(g))
    <2>1. class_map \in Seq(Entries) /\ (Room => Len(class_map) = 2 * Cardinality(Handles(Known)))
      BY <1>1 DEF RegisteredTo
    <2>2. PICK map : map = class_map'
      OBVIOUS
    <2>3. map = remember(remember(class_map, g + slide, ClassAddr[NameOf(g)]),
                         MetaOf(file, g) + slide, MetaAddr[NameOf(g)])
      BY <1>5, <1>6, <2>2
    <2>4. /\ map \in Seq(Entries) /\ \A e : Contains(class_map, e) => Contains(map, e)
          /\ Room => /\ Len(map) = 2 * Cardinality(Handles(Known \cup {g}))
                     /\ Contains(map, ClassEntry(g)) /\ Contains(map, MetaEntry(g))
      BY <1>1, <1>7, <2>1, <2>3, MapStep
    <2> QED BY <2>2, <2>4
  <1>13. ASSUME Room PROVE Reached(g)'
    <2>1. /\ HasSection("__objc_selrefs") /\ ro \in ClassData /\ mro \in ClassData
          /\ Len(ro.methods.entries) <= MaxMethods => list = ro.methods
          /\ Len(mro.methods.entries) <= MaxMethods => mlist = mro.methods
      BY <1>2, <1>13, ClassShape, DataShape, ListedShape DEF Room
    <2>2. ListFormed(ro.methods) /\ ListFormed(mro.methods)
      BY <1>2, ClassShape DEF ClassFormed, ListFormed
    <2>3. ListFormed(list) => Arrives(list, Methods(list, used))
      BY <1>1, <1>11, <1>13, <2>1, ListArrives
    <2>4. ListFormed(mlist) => Arrives(mlist, Methods(mlist, used))
      BY <1>1, <1>11, <1>13, <2>1, ListArrives
    <2>5. runtime'[NameOf(g)].methods = Methods(list, used)
          /\ runtime'[NameOf(g)].class_methods = Methods(mlist, used)
      BY <1>5, <1>7
    <2>6. /\ Len(ro.methods.entries) <= MaxMethods => Arrives(ro.methods, runtime'[NameOf(g)].methods)
          /\ Len(mro.methods.entries) <= MaxMethods => Arrives(mro.methods, runtime'[NameOf(g)].class_methods)
      BY <2>1, <2>2, <2>3, <2>4, <2>5
    <2> QED BY <1>2, <1>5, <2>6 DEF Reached, Arrives, NameOf
  <1>14. ASSUME Room, NEW h \in Known PROVE Reached(h)' /\ Mapped(h)'
    <2>1. Reached(h) /\ Mapped(h)
      BY <1>1, <1>14 DEF RegisteredTo
    <2>2. Reached(h)'
      BY <1>5, <1>7, <2>1 DEF Reached, Arrives, NameOf
    <2>3. Mapped(h)'
      BY <1>5, <1>12, <2>1 DEF Mapped, ClassEntry, MetaEntry, NameOf
    <2> QED BY <2>2, <2>3
  <1>15. ASSUME Room PROVE \A h \in Known' : Mapped(h)' /\ Reached(h)'
    <2>1. Mapped(g)'
      BY <1>5, <1>12, <1>15 DEF Mapped, ClassEntry, MetaEntry, NameOf
    <2> QED BY <1>7, <1>13, <1>14, <1>15, <2>1
  <1>16. ASSUME HasSection("__objc_classlist"), NEW h \in Seen(n + 1),
                mem'[h + 1 + slide].addr # 0, NameOf(h) \notin NativeNames \cup refused
         PROVE  h \in Known'
    <2>1. CASE h = g
      BY <1>7, <2>1
    <2>2. CASE h # g
      <3>1. h \in Seen(n) /\ h \in ClassesOf(file)
        BY <2>2 DEF Seen, ClassesOf
      <3>2. mem[h + 1 + slide].addr # 0
        BY <1>8, <1>16, <3>1
      <3>3. h \in Known
        BY <1>1, <1>16, <3>1, <3>2 DEF RegisteredTo
      <3> QED BY <1>7, <3>3
    <2> QED BY <2>1, <2>2
  <1>17. Handles(Known)' = Handles(Known \cup {g})
    BY <1>5, <1>7 DEF Handles
  <1>18. RegisteredTo(n)'
    <2>1. PICK m : m = n + 1
      OBVIOUS
    <2>2. Seen(n)' = Seen(n + 1) /\ HasSection("__objc_classlist")' = HasSection("__objc_classlist")
      <3>1. Seen(n)' = Seen(m)'
        BY <1>5, <2>1
      <3>2. Seen(m)' = Seen(m)
        BY <1>10
      <3> QED BY <1>10, <2>1, <3>1, <3>2
    <2>3. HasSection("__objc_classlist")' => \A h \in Seen(n)' :
            mem'[h + 1 + slide'].addr # 0 /\ NameOf(h)' \notin NativeNames \cup refused' => h \in Known'
      BY <1>5, <1>16, <2>2 DEF NameOf
    <2>4. class_map' \in Seq(Entries') /\ targets' \in Seq(ImageImps') /\ NoRepeats(targets)'
      BY <1>5, <1>10, <1>11, <1>12 DEF NoRepeats
    <2>5. Room' => /\ Len(class_map') = 2 * Cardinality(Handles(Known)')
                   /\ \A h \in Known' : Mapped(h)' /\ Reached(h)'
      BY <1>10, <1>12, <1>15, <1>17
    <2> QED BY <1>9, <2>3, <2>4, <2>5 DEF RegisteredTo
  <1>19. n' \in 0 .. Size("__objc_classlist")'
    BY <1>5, <1>10, SizeShape DEF InClasses
  <1> QED BY <1>8, <1>18, <1>19 DEF InClasses

\* A class is only passed over if it has no superclass or its name is taken.
LEMMA SkipStep ==
  ASSUME file \in Images, WellFormed(file), ClassesFormed(file), SectionsRead, InClasses,
         n < Size("__objc_classlist"), NEW g \in ClassesOf(file), Seen(n + 1) \subseteq Seen(n) \cup {g},
         ~ Registrable(g + slide), Skip
  PROVE  InClasses'
  <1>1. Layout /\ AllSelected /\ RegisteredTo(n)
    BY DEF InClasses
  <1>2. UNCHANGED <<file, img, mem, perm, slide, runtime, class_map, targets, refused>> /\ n' = n + 1
    BY DEF Skip, objc
  <1>3. Layout' /\ AllSelected'
    BY <1>1, <1>2, SameMemory
  <1>4. mem[g + 1 + slide].addr # 0 /\ NameOf(g) \notin NativeNames \cup refused => g \in Known
    BY <1>1, HandleFacts DEF Registrable, Taken, NameOf, Known
  <1>5. RegisteredTo(n + 1)
    BY <1>1, <1>4 DEF RegisteredTo
  <1>6. RegisteredTo(n)'
    <2>1. PICK m : m = n + 1
      OBVIOUS
    <2>2. RegisteredTo(m)'
      BY <1>2, <1>5, <2>1, SameClasses
    <2> QED BY <1>2, <2>1, <2>2
  <1>7. n' \in 0 .. Size("__objc_classlist")'
    BY <1>2, SameImage, SizeShape DEF InClasses
  <1> QED BY <1>3, <1>6, <1>7 DEF InClasses

\* A class that the runtime does not make leaves everything as it was.
LEMMA RefusedStep ==
  ASSUME file \in Images, WellFormed(file), ClassesFormed(file), SectionsRead, InClasses,
         n < Size("__objc_classlist"), NEW g \in ClassesOf(file), Seen(n + 1) \subseteq Seen(n) \cup {g},
         ClassRefused(g + slide)
  PROVE  InClasses'
  <1>1. Layout /\ AllSelected /\ RegisteredTo(n)
    BY DEF InClasses
  <1>2. /\ UNCHANGED <<file, img, mem, perm, slide, runtime, class_map, targets>> /\ n' = n + 1
        /\ refused' = refused \cup {NameOf(g)}
    BY <1>1, HandleFacts DEF ClassRefused, NameOf
  <1>3. Layout' /\ AllSelected'
    BY <1>1, <1>2, SameMemory
  <1>4. PICK m, l : m = n /\ l = n + 1
    OBVIOUS
  <1>5. RegisteredTo(m)'
    BY <1>1, <1>2, <1>4, SameClasses
  <1>6. Seen(l)' \subseteq Seen(m)' \cup {g}
    BY <1>2, <1>4, SameImage
  <1>7. NameOf(g)' \in refused'
    BY <1>2 DEF NameOf
  <1>8. RegisteredTo(l)'
    BY <1>5, <1>6, <1>7 DEF RegisteredTo
  <1>9. RegisteredTo(n)'
    BY <1>2, <1>4, <1>8
  <1>10. n' \in 0 .. Size("__objc_classlist")'
    BY <1>2, SameImage, SizeShape DEF InClasses
  <1> QED BY <1>3, <1>9, <1>10 DEF InClasses

LEMMA RegisterClassStep ==
  ASSUME file \in Images, WellFormed(file), ClassesFormed(file), SectionsRead, InClasses, RegisterClass
  PROVE  InClasses'
  <1>1. Layout /\ n \in 0 .. Size("__objc_classlist") /\ n < Size("__objc_classlist")
    BY DEF InClasses, RegisterClass
  <1>2. PICK g \in ClassesOf(file) :
          /\ rsd_as_mapped(Pointer("__objc_classlist", n))
          /\ mem[Pointer("__objc_classlist", n)].addr = g + slide /\ g + slide # 0
          /\ Seen(n + 1) \subseteq Seen(n) \cup {g}
    BY <1>1, ClassIs
  <1>3. CASE Registrable(g + slide)
    <2>1. register_class(g + slide) \/ ClassRefused(g + slide)
      BY <1>2, <1>3 DEF RegisterClass
    <2> QED BY <1>1, <1>2, <1>3, <2>1, RegisterStep, RefusedStep
  <1>4. CASE ~ Registrable(g + slide)
    <2>1. Skip
      BY <1>2, <1>4 DEF RegisterClass
    <2> QED BY <1>1, <1>2, <1>4, <2>1, SkipStep
  <1> QED BY <1>3, <1>4

LEMMA ClassesEndStep ==
  ASSUME InClasses, ClassesEnd
  PROVE  InReady'
  <1>1. UNCHANGED <<file, img, mem, perm, slide, runtime, class_map, targets, refused>> /\ n = Size("__objc_classlist")
    BY DEF ClassesEnd, objc
  <1>2. Layout' /\ AllSelected'
    BY <1>1, SameMemory DEF InClasses
  <1>3. PICK m : m = Size("__objc_classlist")
    OBVIOUS
  <1>4. RegisteredTo(m)'
    BY <1>1, <1>3, SameClasses DEF InClasses
  <1>5. Size("__objc_classlist")' = m
    BY <1>1, <1>3, SameImage
  <1> QED BY <1>2, <1>4, <1>5 DEF InReady

-----------------------------------------------------------------------------
(* The invariant of a whole run.                                           *)

LEMMA ObjCInvInit == ObjCInit => ObjCInv
  <1> SUFFICES ASSUME ObjCInit PROVE ObjCInv
    OBVIOUS
  <1>1. pc = "commands" /\ img = NoImage /\ NothingRegistered
    BY DEF ObjCInit, Init, NothingRegistered
  <1>2. SectionsRead
    BY <1>1 DEF SectionsRead, NoImage
  <1> QED BY <1>1, <1>2 DEF ObjCInv

\* The steps of loading register nothing, and do not come to rsd_objc_prepare().
LEMMA LoadingStep ==
  ASSUME LoadInv, ObjCInv, Next, UNCHANGED objc
  PROVE  ObjCInv'
  <1>1. /\ file' = file /\ (img' = img \/ LoadCommand) /\ pc \notin {"selrefs", "classes", "ready"}
        /\ pc' \notin {"selrefs", "classes", "ready"}
    BY DEF Next, LoadCommand, Place, LoadFails, CopySegment, CopyEnd, ProtectSegment, ProtectEnd, Parsing,
           NoFixups, Resolve, FixupsFail, StartSegment, StartChain, FixUp, ChainLeaves, ChainsEnd, Fail
  <1>2. NothingRegistered'
    BY <1>1 DEF ObjCInv, NothingRegistered, objc
  <1>3. ASSUME WellFormed(file) PROVE SectionsRead'
    <2>1. SectionsRead
      BY <1>3 DEF ObjCInv
    <2>2. CASE img' = img
      BY <1>1, <2>1, <2>2 DEF SectionsRead, FileSections
    <2>3. CASE LoadCommand
      <3>1. file \in Images /\ InCommands
        BY <1>3, <2>3 DEF LoadInv, LoadCommand
      <3> QED BY <2>1, <2>3, <3>1, SectionsReadStep
    <2> QED BY <1>1, <2>2, <2>3
  <1> QED BY <1>1, <1>2, <1>3 DEF ObjCInv

\* The steps of rsd_objc_prepare().
LEMMA PreparingStep ==
  ASSUME LoadInv, ObjCInv, Prepare \/ SelectorRef \/ SelectorsEnd \/ RegisterClass \/ ClassesEnd
  PROVE  ObjCInv'
  <1>1. file' = file /\ img' = img /\ file \in Images
    BY DEF Prepare, SelectorRef, SelectorsEnd, RegisterClass, ClassesEnd, Skip, register_class, ClassRefused, LoadInv
  <1>2. WellFormed(file) => SectionsRead'
    BY <1>1 DEF ObjCInv, SectionsRead, FileSections
  <1>3. pc' \notin {"classes", "ready"} => NothingRegistered'
    BY DEF Prepare, SelectorRef, SelectorsEnd, RegisterClass, ClassesEnd, Skip, register_class, ClassRefused,
           ObjCInv, NothingRegistered, objc
  <1>4. ASSUME WellFormed(file), ClassesFormed(file), img.fixups
        PROVE  /\ pc' = "selrefs" => InSelrefs'
               /\ pc' = "classes" => InClasses'
               /\ pc' = "ready" => InReady'
    <2>1. /\ SectionsRead /\ (pc = "linked" => InLinked) /\ (pc = "selrefs" => InSelrefs /\ NothingRegistered)
          /\ (pc = "classes" => InClasses)
      BY <1>4 DEF ObjCInv, LoadInv
    <2>2. CASE Prepare
      <3>1. InSelrefs'
        BY <1>1, <1>4, <2>1, <2>2, PrepareStep DEF Prepare
      <3> QED BY <2>2, <3>1 DEF Prepare
    <2>3. CASE SelectorRef
      <3>1. InSelrefs'
        BY <1>1, <1>4, <2>1, <2>3, SelectorRefStep DEF SelectorRef
      <3> QED BY <2>3, <3>1 DEF SelectorRef, Skip
    <2>4. CASE SelectorsEnd
      <3>1. InClasses'
        BY <1>1, <1>4, <2>1, <2>4, SelectorsEndStep DEF SelectorsEnd
      <3> QED BY <2>4, <3>1 DEF SelectorsEnd
    <2>5. CASE RegisterClass
      <3>1. InClasses'
        BY <1>1, <1>4, <2>1, <2>5, RegisterClassStep DEF RegisterClass
      <3> QED BY <2>5, <3>1 DEF RegisterClass, Skip, register_class, ClassRefused
    <2>6. CASE ClassesEnd
      <3>1. InReady'
        BY <2>1, <2>6, ClassesEndStep DEF ClassesEnd
      <3> QED BY <2>6, <3>1 DEF ClassesEnd
    <2> QED BY <2>2, <2>3, <2>4, <2>5, <2>6
  <1> QED BY <1>1, <1>2, <1>3, <1>4 DEF ObjCInv

\* The steps of rsd_objc_prepare() begin with a linked image and do not come
\* back to a step of loading.
LEMMA PrepareKeeps ==
  ASSUME LoadInv, Prepare \/ SelectorRef \/ SelectorsEnd \/ RegisterClass \/ ClassesEnd
  PROVE  LoadInv'
  <1>1. file' = file /\ pc' \in {"selrefs", "classes", "ready"}
    BY DEF Prepare, SelectorRef, SelectorsEnd, RegisterClass, ClassesEnd, Skip, register_class, ClassRefused
  <1> QED BY <1>1 DEF LoadInv

LEMMA NothingHappens ==
  ASSUME ObjCInv, UNCHANGED all
  PROVE  ObjCInv'
  <1>1. UNCHANGED <<pc, n, file, img, mem, perm, slide, runtime, class_map, targets, refused>>
    BY DEF all, vars, objc
  <1>2. /\ (SectionsRead => SectionsRead') /\ (NothingRegistered => NothingRegistered')
        /\ (Layout => Layout') /\ (AllSelected => AllSelected')
    BY <1>1, SameMemory DEF SectionsRead, FileSections, NothingRegistered
  <1>3. \A name : Size(name)' = Size(name)
    BY <1>1, SameImage
  <1>4. InSelrefs => InSelrefs'
    <2>1. SelectedTo(n) => SelectedTo(n)'
      BY <1>1 DEF SelectedTo, HasSection, Section, Selected, Kept
    <2> QED BY <1>1, <1>2, <1>3, <2>1 DEF InSelrefs
  <1>5. InClasses => InClasses'
    <2>1. PICK m : m = n
      OBVIOUS
    <2>2. RegisteredTo(m) => RegisteredTo(m)'
      BY <1>1, SameClasses
    <2>3. RegisteredTo(n) => RegisteredTo(n)'
      BY <1>1, <2>1, <2>2
    <2> QED BY <1>1, <1>2, <1>3, <2>3 DEF InClasses
  <1>6. InReady => InReady'
    <2>1. PICK m : m = Size("__objc_classlist")
      OBVIOUS
    <2>2. RegisteredTo(m) => RegisteredTo(m)'
      BY <1>1, SameClasses
    <2>3. Size("__objc_classlist")' = m
      BY <1>3, <2>1
    <2> QED BY <1>2, <2>1, <2>2, <2>3 DEF InReady
  <1> QED BY <1>1, <1>2, <1>4, <1>5, <1>6 DEF ObjCInv

LEMMA ObjCStep == LoadInv /\ ObjCInv /\ [ObjCNext]_all => LoadInv' /\ ObjCInv'
  <1>1. LoadInv /\ ObjCInv /\ ObjCNext => LoadInv' /\ ObjCInv'
    BY LoadInvStep, PrepareKeeps, LoadingStep, PreparingStep DEF ObjCNext
  <1>2. LoadInv /\ ObjCInv /\ UNCHANGED all => LoadInv' /\ ObjCInv'
    BY LoadInvStep, NothingHappens DEF all
  <1> QED BY <1>1, <1>2

-----------------------------------------------------------------------------
(* What the invariant says of a prepared image.                            *)

\* The handles and the implementations are the ones the file has.
LEMMA HandlesAre ==
  ASSUME file \in Images, WellFormed(file), ClassesFormed(file), Layout
  PROVE  GuestClasses = Handles(ClassesOf(file)) /\ AllImps = ImageImps
  <1>1. \A c \in CellsOf(file, "__objc_classlist") : mem[c + slide].addr = TargetOf(file, c) + slide
    BY DEF Layout, ClassPointers, Kept
  <1>2. GuestClasses = Handles(ClassesOf(file))
    BY <1>1 DEF GuestClasses, Handles, ClassesOf
  <1>3. ASSUME NEW g \in ClassesOf(file)
        PROVE  ToSet(Imps(Ro(g + slide).methods)) \cup ToSet(Imps(Ro(mem[g + slide].addr).methods)) = ImpsOf(g)
    BY HandleFacts DEF ImpsOf
  <1>4. AllImps = ImageImps
    BY <1>2, <1>3 DEF AllImps, ImageImps, Handles
  <1> QED BY <1>2, <1>4

\* Handles lead to one pair each.
LEMMA EntriesDiffer ==
  ASSUME file \in Images, WellFormed(file), ClassesFormed(file), slide \in Int,
         NEW d \in Entries, NEW e \in Entries, d.guest = e.guest
  PROVE  d = e
  <1>1. ASSUME NEW x \in Nat, NEW y \in Nat, x + slide = y + slide PROVE x = y
    BY <1>1
  <1>2. \A g \in ClassesOf(file) : g \in Nat /\ MetaOf(file, g) \in Nat
    BY ClassShape
  <1>3. \A g \in ClassesOf(file) :
          ClassEntry(g).guest = g + slide /\ MetaEntry(g).guest = MetaOf(file, g) + slide
    BY DEF ClassEntry, MetaEntry
  <1>4. \A g, h \in ClassesOf(file) : MetaOf(file, g) # h /\ (g # h => MetaOf(file, g) # MetaOf(file, h))
    BY DEF ClassesFormed
  <1>5. PICK g \in ClassesOf(file) : d \in {ClassEntry(g), MetaEntry(g)}
    BY DEF Entries
  <1>6. PICK h \in ClassesOf(file) : e \in {ClassEntry(h), MetaEntry(h)}
    BY DEF Entries
  <1>7. CASE d = ClassEntry(g) /\ e = ClassEntry(h)
    <2>1. g = h
      BY <1>1, <1>2, <1>3, <1>7
    <2> QED BY <1>7, <2>1
  <1>8. CASE d = MetaEntry(g) /\ e = MetaEntry(h)
    <2>1. MetaOf(file, g) = MetaOf(file, h)
      BY <1>1, <1>2, <1>3, <1>8
    <2>2. g = h
      BY <1>4, <2>1
    <2> QED BY <1>8, <2>2
  <1>9. CASE d = ClassEntry(g) /\ e = MetaEntry(h)
    <2>1. g = MetaOf(file, h)
      BY <1>1, <1>2, <1>3, <1>9
    <2> QED BY <1>4, <2>1
  <1>10. CASE d = MetaEntry(g) /\ e = ClassEntry(h)
    <2>1. MetaOf(file, g) = h
      BY <1>1, <1>2, <1>3, <1>10
    <2> QED BY <1>4, <2>1
  <1> QED BY <1>5, <1>6, <1>7, <1>8, <1>9, <1>10

\* A handle that was remembered is found again.
LEMMA MapFinds ==
  ASSUME file \in Images, WellFormed(file), ClassesFormed(file), slide \in Int, class_map \in Seq(Entries),
         NEW e \in Entries, Contains(class_map, e)
  PROVE  rsd_objc_real_class(e.guest) = e.native
  <1>1. PICK x : x = e.guest
    OBVIOUS
  <1>2. PICK k \in 1 .. Len(class_map) : class_map[k] = e
    BY DEF Contains
  <1>3. k \in MapIndices(x)
    BY <1>1, <1>2 DEF MapIndices
  <1>4. MapIndices(x) \in SUBSET Nat /\ MapIndices(x) # {}
    BY <1>3 DEF MapIndices
  <1>5. PICK m \in MapIndices(x) : \A j \in MapIndices(x) : m <= j
    BY <1>4, LeastElement
  <1>6. PICK l : l = CHOOSE i \in MapIndices(x) : \A j \in MapIndices(x) : i <= j
    OBVIOUS
  <1>7. l \in MapIndices(x)
    BY <1>5, <1>6
  <1>8. class_map[l] \in Entries /\ class_map[l].guest = e.guest
    BY <1>1, <1>7 DEF MapIndices
  <1>9. class_map[l] = e
    BY <1>8, EntriesDiffer
  <1>10. rsd_objc_real_class(x) = class_map[l].native
    BY <1>4, <1>6 DEF rsd_objc_real_class
  <1> QED BY <1>1, <1>9, <1>10

\* All of the list has been looked at.
LEMMA AllSeen ==
  ASSUME file \in Images, ClassesFormed(file), SectionsRead, HasSection("__objc_classlist")
  PROVE  Seen(Size("__objc_classlist")) = ClassesOf(file)
  <1>1. PICK s : s = Section("__objc_classlist")
    OBVIOUS
  <1>2. /\ CellsOf(file, "__objc_classlist") = s.addr .. (s.addr + s.size - 1) /\ s.addr \in Nat /\ s.size \in Nat
        /\ Size("__objc_classlist") = s.size
    BY <1>1, SectionIs
  <1>3. \A b \in CellsOf(file, "__objc_classlist") : b < s.addr + Size("__objc_classlist")
    BY <1>2
  <1> QED BY <1>1, <1>3 DEF Seen, ClassesOf

LEMMA MessagesFromInv == LoadInv /\ ObjCInv => MessagesArrive
  <1> SUFFICES ASSUME LoadInv, ObjCInv, Ready, RoomForAll, NEW x \in GuestClasses,
                      KnownSuper(x), Ro(x).name \notin NativeNames \cup refused
               PROVE  /\ rsd_objc_real_class(x) = ClassAddr[Ro(x).name]
                      /\ rsd_objc_real_class(mem[x].addr) = MetaAddr[Ro(x).name]
                      /\ Len(Ro(x).methods.entries) <= MaxMethods =>
                           Arrives(Ro(x).methods, runtime[Ro(x).name].methods)
                      /\ Len(Ro(mem[x].addr).methods.entries) <= MaxMethods =>
                           Arrives(Ro(mem[x].addr).methods, runtime[Ro(x).name].class_methods)
    BY DEF MessagesArrive
  <1>1. /\ file \in Images /\ WellFormed(file) /\ ClassesFormed(file) /\ SectionsRead
        /\ Layout /\ RegisteredTo(Size("__objc_classlist")) /\ slide \in Int
    BY DEF LoadInv, ObjCInv, Ready, InReady, Layout, Placed
  <1>2. GuestClasses = Handles(ClassesOf(file)) /\ Room
    BY <1>1, HandlesAre DEF RoomForAll, Room
  <1>3. PICK g \in ClassesOf(file) : x = g + slide
    BY <1>2 DEF Handles
  <1>4. /\ mem[x].addr = MetaOf(file, g) + slide /\ Ro(x) = RoOf(file, g) /\ Ro(x).name = NameOf(g)
        /\ Ro(mem[x].addr) = RoOf(file, MetaOf(file, g)) /\ Superclass(x) = mem[g + 1 + slide].addr
    BY <1>1, <1>3, HandleFacts DEF NameOf
  <1>5. g \in Known
    <2>1. g \in Seen(Size("__objc_classlist"))
      BY <1>1, <1>2, AllSeen DEF Room
    <2>2. Superclass(x) # 0
      <3>1. ~ (0 > Top)
        BY LoaderAssumption
      <3> QED BY <3>1, ObjCAssumption DEF KnownSuper
    <2> QED BY <1>1, <1>2, <1>4, <2>1, <2>2 DEF RegisteredTo, Room
  <1>6. Mapped(g) /\ Reached(g) /\ class_map \in Seq(Entries)
    BY <1>1, <1>2, <1>5 DEF RegisteredTo
  <1>7. ClassEntry(g) \in Entries /\ MetaEntry(g) \in Entries
    BY DEF Entries
  <1>8. /\ rsd_objc_real_class(ClassEntry(g).guest) = ClassEntry(g).native
        /\ rsd_objc_real_class(MetaEntry(g).guest) = MetaEntry(g).native
    BY <1>1, <1>6, <1>7, MapFinds DEF Mapped
  <1>9. /\ rsd_objc_real_class(g + slide) = ClassAddr[NameOf(g)]
        /\ rsd_objc_real_class(MetaOf(file, g) + slide) = MetaAddr[NameOf(g)]
    BY <1>8 DEF ClassEntry, MetaEntry
  <1> QED BY <1>3, <1>4, <1>6, <1>9 DEF Reached

LEMMA IvarsFromInv == LoadInv /\ ObjCInv => IvarsInPlace
  <1> SUFFICES ASSUME LoadInv, ObjCInv, Ready, NEW x \in GuestClasses, Ro(x).name \in DOMAIN runtime,
                      KnownSuper(x), Len(Ro(x).ivars) <= MaxIvars
               PROVE  IvarsApart(x)
    BY DEF IvarsInPlace
  <1>1. /\ file \in Images /\ WellFormed(file) /\ ClassesFormed(file)
        /\ Layout /\ RegisteredTo(Size("__objc_classlist"))
    BY DEF LoadInv, ObjCInv, Ready, InReady
  <1>2. PICK g \in ClassesOf(file) : x = g + slide
    BY <1>1, HandlesAre DEF Handles
  <1>3. Ro(x) = RoOf(file, g) /\ Ro(x).name = NameOf(g) /\ g \in Known /\ Superclass(x) = mem[g + 1 + slide].addr
    BY <1>1, <1>2, HandleFacts DEF Known, NameOf
  <1>4. PICK class, ivars : class = runtime[NameOf(g)] /\ ivars = Ro(x).ivars
    OBVIOUS
  <1>5. OffsetsOf(g, class) /\ LaidOut(g, class) /\ Declared(RoOf(file, g)) = ivars
    BY <1>1, <1>3, <1>4, ClassShape, DataShape DEF RegisteredTo, IvarsSet
  <1>6. ivars \in Seq(Ivar) /\ \A j, k \in 1 .. Len(ivars) : j # k => ivars[j].name # ivars[k].name
    BY <1>1, <1>3, <1>4, <1>5, ClassShape, DataShape, DeclaredShape
  <1>7. PICK size \in Nat : /\ class.ivars = ivars /\ class.extents = Extents(size, ivars)
                            /\ size = NativeSize[Superclass(x)]
    BY <1>3, <1>5 DEF LaidOut, KnownSuper
  <1>8. PICK E : E = Extents(size, ivars)
    OBVIOUS
  <1>9. /\ Len(ivars) \in Nat /\ \A k \in 0 .. Len(ivars) : E[k] \in Nat /\ size <= E[k]
        /\ \A k \in 1 .. Len(ivars) : ivars[k].size \in Nat /\ Index(ivars, ivars[k].name) = k
        /\ \A j \in 1 .. Len(ivars) : \A k \in j .. Len(ivars) : E[j - 1] + ivars[j].size <= E[k]
    BY <1>6, <1>8, ExtentsApart
  <1>10. ASSUME NEW k \in 1 .. Len(ivars) PROVE OffsetAt(x, k) = E[k - 1] /\ ivar_getOffset(class, ivars[k].name) = E[k - 1]
    <2>1. ivar_getOffset(class, ivars[k].name) = E[k - 1]
      BY <1>7, <1>8, <1>9 DEF ivar_getOffset
    <2>2. mem[ivars[k].offset + slide] = Value(E[k - 1])
      BY <1>5, <2>1 DEF OffsetsOf
    <2>3. mem[ivars[k].offset + slide].addr = E[k - 1]
      BY <2>2 DEF Value
    <2> QED BY <1>4, <2>1, <2>3 DEF OffsetAt
  <1>11. InstanceSize(class) = E[Len(ivars)]
    BY <1>7, <1>8 DEF InstanceSize
  <1>12. ASSUME NEW k \in 1 .. Len(ivars)
         PROVE  /\ OffsetAt(x, k) = ivar_getOffset(class, ivars[k].name)
                /\ NativeSize[Superclass(x)] <= OffsetAt(x, k)
                /\ \A j \in 1 .. k - 1 : OffsetAt(x, j) + ivars[j].size <= OffsetAt(x, k)
                /\ OffsetAt(x, k) + ivars[k].size <= InstanceSize(class)
    <2>1. k - 1 \in 0 .. Len(ivars) /\ Len(ivars) \in k .. Len(ivars)
      BY <1>9
    <2>2. \A j \in 1 .. k - 1 : j \in 1 .. Len(ivars) /\ k - 1 \in j .. Len(ivars)
      BY <1>9
    <2>3. \A j \in 1 .. k - 1 : OffsetAt(x, j) + ivars[j].size <= OffsetAt(x, k)
      BY <1>9, <1>10, <2>2
    <2> QED BY <1>7, <1>9, <1>10, <1>11, <2>1, <2>3
  <1> QED BY <1>3, <1>4, <1>12 DEF IvarsApart

-----------------------------------------------------------------------------
(* The theorems.                                                           *)

\* An image whose classes are registered was linked right before that.
THEOREM LinkedBeforeObjC == ObjCSpec => []Linked
  <1>1. ObjCInit => LoadInv /\ ObjCInv
    BY LoadInvInit, ObjCInvInit DEF ObjCInit
  <1> QED BY <1>1, ObjCStep, LinkedFromInv, PTL DEF ObjCSpec

\* After rsd_objc_prepare(), for every image with well-formed classes, at whatever
\* place and for any limits that leave room: a message the guest sends to a class that
\* extends one of the runtime's, and that the runtime made, finds the registered class,
\* and each method of a list that is read leads, under its canonical selector, to the
\* guest's code.
THEOREM MessagesAlwaysArrive == ObjCSpec => []MessagesArrive
  <1>1. ObjCInit => LoadInv /\ ObjCInv
    BY LoadInvInit, ObjCInvInit DEF ObjCInit
  <1> QED BY <1>1, ObjCStep, MessagesFromInv, PTL DEF ObjCSpec

\* After rsd_objc_prepare(), a registered class that extends one of the runtime's has
\* its instance variables behind the superclass's instance, however large that is, none
\* over another and all inside the instance, and the image's offsets say so, whatever
\* was registered after it.
THEOREM IvarsAlwaysInPlace == ObjCSpec => []IvarsInPlace
  <1>1. ObjCInit => LoadInv /\ ObjCInv
    BY LoadInvInit, ObjCInvInit DEF ObjCInit
  <1> QED BY <1>1, ObjCStep, IvarsFromInv, PTL DEF ObjCSpec

=============================================================================
