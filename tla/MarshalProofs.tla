--------------------------- MODULE MarshalProofs ---------------------------
(***************************************************************************)
(* That a variadic call is forwarded with the arguments its format takes,   *)
(* and refused for the three reasons only, for every ordinary format,       *)
(* function and size of the register files and slots.                      *)
(***************************************************************************)
EXTENDS Marshal, FiniteSetTheorems, WellFoundedInduction, TLAPS

\* A non-empty set of numbers has a least element.
LEMMA LeastElement ==
  ASSUME NEW T \in SUBSET Nat, T # {}
  PROVE  \E x \in T : \A y \in T : x <= y
  <1>1. PICK x \in T : \A y \in T : ~ (<<y, x>> \in OpToRel(<, Nat))
    BY NatLessThanWellFounded, WFMin
  <1>2. \A y \in T : ~ (y < x)
    BY <1>1 DEF OpToRel
  <1> QED
    BY <1>2

-----------------------------------------------------------------------------
(* The reading of a format.                                                *)

\* A text is a sequence with a terminator.
LEMMA TextShape ==
  ASSUME NEW t \in Texts
  PROVE  Len(t) \in Nat /\ \E k \in 1 .. Len(t) : t[k] = "nul"
  BY MarshalAssumption

\* A directive has an end, the first character that ends it.
LEMMA LastShape ==
  ASSUME NEW f, NEW t \in Texts, NEW k \in 1 .. Len(t), InText(t, k)
  PROVE  /\ LastOf(f, t, k) \in k + 1 .. Len(t) /\ t[LastOf(f, t, k)] \in Ends(f, t, k)
         /\ \A j \in k + 1 .. Len(t) : t[j] \in Ends(f, t, k) => LastOf(f, t, k) <= j
  <1> DEFINE T == {j \in k + 1 .. Len(t) : t[j] \in Ends(f, t, k)}
  <1>1. Len(t) \in Nat /\ k \in Nat
    BY TextShape
  <1>2. PICK e \in 1 .. Len(t) : t[e] = "nul"
    BY TextShape
  <1>3. ~ (e <= k)
    BY <1>1, <1>2 DEF InText
  <1>4. e \in T
    BY <1>1, <1>2, <1>3 DEF Ends
  <1>5. T \in SUBSET Nat
    BY <1>1
  <1>6. \E x \in T : \A y \in T : x <= y
    <2> HIDE DEF T
    <2> QED BY <1>4, <1>5, LeastElement
  <1>7. LastOf(f, t, k) \in T /\ \A y \in T : LastOf(f, t, k) <= y
    BY <1>6 DEF LastOf, Min
  <1> QED BY <1>7

\* Every format has a reading, since what begins a directive depends on what is
\* before it only.
LEMMA ReadingExists ==
  ASSUME NEW f, NEW t \in Texts
  PROVE  /\ Directives(f, t) \subseteq {k \in 1 .. Len(t) : t[k] = "pct"}
         /\ IsReading(f, t, Directives(f, t))
  <1> DEFINE P == {k \in 1 .. Len(t) : t[k] = "pct"}
             Begins(k, D) == t[k] = "pct" /\ InText(t, k) /\ \A d \in D : d < k => LastOf(f, t, d) < k
             To(m, D) == \A k \in 1 .. m : k \in D <=> Begins(k, D)
             T == {m \in Nat : m <= Len(t) /\ ~ \E D \in SUBSET P : To(m, D)}
  <1>1. Len(t) \in Nat
    BY TextShape
  <1>2. T = {}
    <2>1. SUFFICES ASSUME T # {} PROVE FALSE
      OBVIOUS
    <2>2. PICK m \in T : \A y \in T : m <= y
      <3>1. T \in SUBSET Nat
        OBVIOUS
      <3> HIDE DEF T
      <3> QED BY <2>1, <3>1, LeastElement
    <2>3. m \in Nat /\ m <= Len(t) /\ ~ \E D \in SUBSET P : To(m, D)
      OBVIOUS
    <2>4. m # 0
      <3>1. To(0, {})
        OBVIOUS
      <3> HIDE DEF To
      <3> QED BY <2>3, <3>1
    <2>5. m - 1 \in Nat /\ m - 1 <= Len(t) /\ ~ (m <= m - 1) /\ m \in 1 .. Len(t)
      BY <1>1, <2>3, <2>4
    <2>6. m - 1 \notin T
      <3> HIDE DEF T
      <3> QED BY <2>2, <2>5
    <2>7. PICK D \in SUBSET P : To(m - 1, D)
      <3> HIDE DEF To
      <3> QED BY <2>5, <2>6
    <2> DEFINE B == {k \in D : k < m}
    <2>8. PICK N : N = IF Begins(m, B) THEN B \cup {m} ELSE B
      OBVIOUS
    <2>9. N \in SUBSET P
      BY <2>5, <2>8
    <2>10. \A k \in 1 .. m : k # m => k \in 1 .. (m - 1) /\ k < m /\ k \in Nat
      BY <2>5
    <2>11. \A d \in N : d \in Nat /\ (d # m => d \in D /\ d < m)
      BY <2>8, <2>9
    <2>12. ASSUME NEW k \in 1 .. m PROVE k \in N <=> Begins(k, N)
      <3>1. CASE k = m
        <4>1. \A d : d \in N /\ d < m <=> d \in B
          BY <2>5, <2>8
        <4>2. Begins(m, N) <=> Begins(m, B)
          BY <4>1
        <4>3. m \notin B
          BY <2>5
        <4>4. m \in N <=> Begins(m, B)
          <5> HIDE DEF Begins, B
          <5> QED BY <2>8, <4>3
        <4> HIDE DEF Begins
        <4> QED BY <3>1, <4>2, <4>4
      <3>2. CASE k # m
        <4>1. k \in 1 .. (m - 1) /\ k < m /\ k \in Nat
          BY <2>10, <3>2
        <4>2. k \in N <=> k \in D
          BY <2>8, <3>2, <4>1
        <4>3. \A d \in Nat : d < k => d < m /\ d # m
          BY <2>3, <4>1
        <4>4. \A d : d \in N /\ d < k <=> d \in D /\ d < k
          BY <2>7, <2>8, <2>11, <4>3
        <4>5. Begins(k, N) <=> Begins(k, D)
          BY <4>4
        <4>6. k \in D <=> Begins(k, D)
          BY <2>7, <4>1
        <4> HIDE DEF Begins
        <4> QED BY <4>2, <4>5, <4>6
      <3> QED BY <3>1, <3>2
    <2>13. To(m, N)
      BY <2>12
    <2> HIDE DEF To
    <2> QED BY <2>3, <2>9, <2>13
  <1>3. Len(t) \notin T
    BY <1>2
  <1>4. \E D \in SUBSET P : To(Len(t), D)
    <2> HIDE DEF To
    <2> QED BY <1>1, <1>3
  <1>5. \E D \in SUBSET P : IsReading(f, t, D)
    BY <1>4 DEF IsReading
  <1>6. Directives(f, t) \in SUBSET P /\ IsReading(f, t, Directives(f, t))
    BY <1>5 DEF Directives
  <1> QED BY <1>6

\* A directive is a % of the string, and the ones before it have ended.
LEMMA DirectiveShape ==
  ASSUME NEW f, NEW t \in Texts, NEW d \in Directives(f, t)
  PROVE  /\ d \in 1 .. Len(t) /\ d \in Nat /\ t[d] = "pct" /\ InText(t, d)
         /\ LastOf(f, t, d) \in Nat /\ d < LastOf(f, t, d) /\ LastOf(f, t, d) <= Len(t)
         /\ \A c \in Directives(f, t) : c < d => LastOf(f, t, c) < d
  <1>1. d \in 1 .. Len(t) /\ t[d] = "pct"
    BY ReadingExists
  <1>2. InText(t, d) /\ \A c \in Directives(f, t) : c < d => LastOf(f, t, c) < d
    BY <1>1, ReadingExists DEF IsReading
  <1>3. Len(t) \in Nat
    BY TextShape
  <1>4. LastOf(f, t, d) \in d + 1 .. Len(t)
    BY <1>1, <1>2, LastShape
  <1> QED BY <1>1, <1>2, <1>3, <1>4

\* An argument belongs to a directive, and is one of its characters.
LEMMA ArgShape ==
  ASSUME NEW f, NEW t \in Texts, NEW k \in Args(f, t)
  PROVE  /\ k \in 1 .. Len(t) /\ k \in Nat
         /\ \E d \in Directives(f, t) : k \in TakenBy(f, t, d) /\ d < k /\ k <= LastOf(f, t, d)
  <1>1. PICK d \in Directives(f, t) : k \in TakenBy(f, t, d)
    BY DEF Args
  <1>2. /\ d \in Nat /\ LastOf(f, t, d) \in Nat /\ d < LastOf(f, t, d) /\ LastOf(f, t, d) <= Len(t)
        /\ Len(t) \in Nat
    BY DirectiveShape, TextShape
  <1>3. k \in d + 1 .. LastOf(f, t, d)
    BY <1>1, <1>2 DEF TakenBy, StarsOf
  <1> QED BY <1>1, <1>2, <1>3

\* The arguments among the characters of a directive are its own.
LEMMA ArgsOfDirective ==
  ASSUME NEW f, NEW t \in Texts, NEW d \in Directives(f, t),
         NEW k \in Args(f, t), d <= k, k <= LastOf(f, t, d)
  PROVE  k \in TakenBy(f, t, d)
  <1>1. PICK c \in Directives(f, t) : k \in TakenBy(f, t, c) /\ c < k /\ k <= LastOf(f, t, c)
    BY ArgShape
  <1>2. /\ c \in Nat /\ d \in Nat /\ k \in Nat /\ LastOf(f, t, c) \in Nat /\ LastOf(f, t, d) \in Nat
        /\ (c < d => LastOf(f, t, c) < d) /\ (d < c => LastOf(f, t, d) < c)
    BY DirectiveShape, ArgShape
  <1>3. c = d
    BY <1>1, <1>2
  <1> QED BY <1>1, <1>3

\* Position m is outside of all directives.
Outside(f, t, m) == \A d \in Directives(f, t) : d < m => LastOf(f, t, d) < m

\* A character outside of directives takes no argument.
LEMMA NoArgOutside ==
  ASSUME NEW f, NEW t \in Texts, NEW m \in Nat, Outside(f, t, m)
  PROVE  m \notin Args(f, t)
  <1>1. SUFFICES ASSUME m \in Args(f, t) PROVE FALSE
    OBVIOUS
  <1>2. PICK d \in Directives(f, t) : d < m /\ m <= LastOf(f, t, d)
    BY <1>1, ArgShape
  <1>3. LastOf(f, t, d) < m /\ LastOf(f, t, d) \in Nat
    BY <1>2, DirectiveShape DEF Outside
  <1> QED BY <1>2, <1>3

-----------------------------------------------------------------------------
(* Counting the arguments before a position.                               *)

Count(Q, k) == Cardinality({j \in Q : j < k})

\* Counting on by one position.
LEMMA CountNext ==
  ASSUME NEW Q \in SUBSET Nat, IsFiniteSet(Q), NEW k \in Nat
  PROVE  /\ Count(Q, k) \in Nat
         /\ Count(Q, k + 1) = IF k \in Q THEN Count(Q, k) + 1 ELSE Count(Q, k)
  <1> DEFINE S == {j \in Q : j < k}
  <1>1. S \subseteq Q /\ k \notin S
    OBVIOUS
  <1>2. IsFiniteSet(S)
    BY <1>1, FS_Subset
  <1>3. Cardinality(S) \in Nat
    BY <1>2, FS_CardinalityType
  <1>4. {j \in Q : j < k + 1} = IF k \in Q THEN S \cup {k} ELSE S
    <2>1. \A j \in Q : j < k + 1 <=> j < k \/ j = k
      OBVIOUS
    <2> QED BY <2>1, Zenon
  <1>5. Cardinality(S \cup {k}) = Cardinality(S) + 1
    <2> HIDE DEF S
    <2> QED BY <1>1, <1>2, FS_AddElement
  <1> QED BY <1>3, <1>4, <1>5 DEF Count

\* Counting on where there is nothing to count.
LEMMA CountSkip ==
  ASSUME NEW Q \in SUBSET Nat, NEW m \in Nat, NEW l \in Nat, m <= l,
         \A j \in Q : ~ (m <= j /\ j < l)
  PROVE  Count(Q, l) = Count(Q, m)
  <1>1. \A j \in Q : j < l <=> j < m
    OBVIOUS
  <1>2. {j \in Q : j < l} = {j \in Q : j < m}
    BY <1>1
  <1> QED BY <1>2 DEF Count

\* There is no less to count further on.
LEMMA CountMonotone ==
  ASSUME NEW Q \in SUBSET Nat, IsFiniteSet(Q), NEW m \in Nat, NEW l \in Nat, m <= l
  PROVE  Count(Q, m) <= Count(Q, l) /\ Count(Q, l) <= Cardinality(Q)
  <1> DEFINE S == {j \in Q : j < m}
             R == {j \in Q : j < l}
  <1>1. S \subseteq R /\ R \subseteq Q
    <2>1. \A j \in Q : j < m => j < l
      OBVIOUS
    <2> QED BY <2>1
  <1> HIDE DEF S, R
  <1>2. IsFiniteSet(R) /\ Cardinality(R) <= Cardinality(Q)
    BY <1>1, FS_Subset
  <1>3. Cardinality(S) <= Cardinality(R)
    BY <1>1, <1>2, FS_Subset
  <1> QED BY <1>2, <1>3 DEF Count, S, R

\* Past the last one, all are counted.
LEMMA CountAll ==
  ASSUME NEW Q \in SUBSET Nat, NEW m \in Nat, \A j \in Q : j < m
  PROVE  Count(Q, m) = Cardinality(Q)
  <1>1. {j \in Q : j < m} = Q
    OBVIOUS
  <1> QED BY <1>1 DEF Count

\* The arguments of a text by kind and place.
Fps(f, t) == {j \in Args(f, t) : IsFp(f, t, j)}
Ints(f, t) == {j \in Args(f, t) : ~ IsFp(f, t, j)}
Stacked(f, t) == {j \in Args(f, t) : ~ InRegister(f, t, Args(f, t), j)}

\* There are finitely many arguments of each kind.
LEMMA ArgsFinite ==
  ASSUME NEW f, NEW t \in Texts
  PROVE  /\ Args(f, t) \in SUBSET Nat /\ IsFiniteSet(Args(f, t))
         /\ Fps(f, t) \in SUBSET Nat /\ IsFiniteSet(Fps(f, t))
         /\ Ints(f, t) \in SUBSET Nat /\ IsFiniteSet(Ints(f, t))
         /\ Stacked(f, t) \in SUBSET Nat /\ IsFiniteSet(Stacked(f, t))
  <1>1. Args(f, t) \subseteq 1 .. Len(t) /\ Args(f, t) \in SUBSET Nat
    BY ArgShape
  <1>2. IsFiniteSet(1 .. Len(t))
    BY TextShape, FS_Interval
  <1>3. IsFiniteSet(Args(f, t))
    BY <1>1, <1>2, FS_Subset
  <1>4. /\ Fps(f, t) \subseteq Args(f, t) /\ Ints(f, t) \subseteq Args(f, t)
        /\ Stacked(f, t) \subseteq Args(f, t)
    BY DEF Fps, Ints, Stacked
  <1> QED BY <1>1, <1>3, <1>4, FS_Subset

\* The counts that Placed is defined by.
LEMMA CountsAre ==
  ASSUME NEW f, NEW t, NEW k
  PROVE  /\ FpBefore(f, t, Args(f, t), k) = Count(Fps(f, t), k)
         /\ IntBefore(f, t, Args(f, t), k) = Count(Ints(f, t), k)
         /\ StackBefore(f, t, Args(f, t), k) = Count(Stacked(f, t), k)
         /\ Index(Args(f, t), k) = Count(Args(f, t), k) + 1
  <1> DEFINE as == Args(f, t)
  <1>1. {j \in as : j < k /\ IsFp(f, t, j)} = {j \in Fps(f, t) : j < k}
    BY DEF Fps
  <1>2. {j \in as : j < k /\ ~ IsFp(f, t, j)} = {j \in Ints(f, t) : j < k}
    BY DEF Ints
  <1>3. {j \in as : j < k /\ ~ InRegister(f, t, as, j)} = {j \in Stacked(f, t) : j < k}
    BY DEF Stacked
  <1> QED BY <1>1, <1>2, <1>3 DEF FpBefore, IntBefore, StackBefore, Index, Count

-----------------------------------------------------------------------------
(* What the reader and the slots are when the arguments before position m   *)
(* have been read.                                                         *)

Source == {"gp", "sse", "stack"} \X Nat
Least(x, y) == IF x < y THEN x ELSE y

ReadTo(f, t, m, sl, r) ==
  /\ sl \in Seq(Source) /\ Len(sl) = Count(Args(f, t), m)
  /\ \A k \in Args(f, t) : k < m => sl[Index(Args(f, t), k)] = Placed(f, t, Args(f, t), k)
  /\ r = [gp |-> Least(f.nfixed + Count(Ints(f, t), m), Gp), sse |-> Least(Count(Fps(f, t), m), Sse),
          stack |-> Count(Stacked(f, t), m)]
  /\ r.stack <= StackRoom <=> \A k \in Stacked(f, t) : k < m => Count(Stacked(f, t), k) < StackRoom

\* Nothing is read where there is no argument.
LEMMA ReadSkip ==
  ASSUME NEW f \in Functions, NEW t \in Texts, NEW m \in Nat, NEW l \in Nat, m <= l,
         \A j \in Args(f, t) : ~ (m <= j /\ j < l), NEW sl, NEW r, ReadTo(f, t, m, sl, r)
  PROVE  ReadTo(f, t, l, sl, r)
  <1>1. /\ Args(f, t) \in SUBSET Nat /\ Fps(f, t) \in SUBSET Nat /\ Ints(f, t) \in SUBSET Nat
        /\ Stacked(f, t) \in SUBSET Nat
    BY ArgsFinite
  <1>2. /\ Fps(f, t) \subseteq Args(f, t) /\ Ints(f, t) \subseteq Args(f, t)
        /\ Stacked(f, t) \subseteq Args(f, t)
    BY DEF Fps, Ints, Stacked
  <1>3. /\ Count(Args(f, t), l) = Count(Args(f, t), m) /\ Count(Fps(f, t), l) = Count(Fps(f, t), m)
        /\ Count(Ints(f, t), l) = Count(Ints(f, t), m) /\ Count(Stacked(f, t), l) = Count(Stacked(f, t), m)
    BY <1>1, <1>2, CountSkip
  <1>4. \A j \in Args(f, t) : j < l <=> j < m
    BY <1>1
  <1> QED BY <1>2, <1>3, <1>4 DEF ReadTo

\* sysv_int() and sysv_sse() find an argument where System V put it.
LEMMA ReadOne ==
  ASSUME NEW f \in Functions, NEW t \in Texts, NEW k \in Args(f, t), NEW sl, NEW r,
         ReadTo(f, t, k, sl, r), NEW x, x = IF IsFp(f, t, k) THEN sysv_sse(r) ELSE sysv_int(r)
  PROVE  ReadTo(f, t, k + 1, Append(sl, x.src), x.a)
  <1> DEFINE as == Args(f, t)
             reg == InRegister(f, t, as, k)
  <1>1. k \in Nat /\ f.nfixed \in Nat /\ Gp \in Nat /\ Sse \in Nat /\ StackRoom \in Nat
    BY ArgShape, MarshalAssumption
  <1>2. PICK i \in Nat, s \in Nat, u \in Nat, c \in Nat :
          /\ i = Count(Ints(f, t), k) /\ s = Count(Fps(f, t), k)
          /\ u = Count(Stacked(f, t), k) /\ c = Count(as, k)
    BY <1>1, ArgsFinite, CountNext
  <1>3. /\ k \in Ints(f, t) <=> ~ IsFp(f, t, k)
        /\ k \in Fps(f, t) <=> IsFp(f, t, k)
        /\ k \in Stacked(f, t) <=> ~ reg
    BY DEF Ints, Fps, Stacked
  <1>4. /\ Count(Ints(f, t), k + 1) = IF IsFp(f, t, k) THEN i ELSE i + 1
        /\ Count(Fps(f, t), k + 1) = IF IsFp(f, t, k) THEN s + 1 ELSE s
        /\ Count(Stacked(f, t), k + 1) = IF reg THEN u ELSE u + 1
        /\ Count(as, k + 1) = c + 1
    <2> HIDE DEF reg
    <2> QED BY <1>1, <1>2, <1>3, ArgsFinite, CountNext
  <1>5. reg <=> IF IsFp(f, t, k) THEN s < Sse ELSE f.nfixed + i < Gp
    BY <1>2, CountsAre DEF InRegister
  <1>6. Placed(f, t, as, k) = IF ~ reg THEN <<"stack", u>>
                              ELSE IF IsFp(f, t, k) THEN <<"sse", s>> ELSE <<"gp", f.nfixed + i>>
    BY <1>2, CountsAre DEF Placed
  <1>7. r = [gp |-> Least(f.nfixed + i, Gp), sse |-> Least(s, Sse), stack |-> u]
    BY <1>2 DEF ReadTo
  <1> HIDE DEF reg
  <1>8. /\ x.src = Placed(f, t, as, k) /\ x.src \in Source
        /\ x.a = [gp |-> Least(f.nfixed + Count(Ints(f, t), k + 1), Gp),
                  sse |-> Least(Count(Fps(f, t), k + 1), Sse), stack |-> Count(Stacked(f, t), k + 1)]
    <2>1. CASE IsFp(f, t, k) /\ s < Sse
      <3>1. x = [src |-> <<"sse", s>>, a |-> [r EXCEPT !.sse = s + 1]]
        BY <1>1, <1>7, <2>1 DEF sysv_sse, Least
      <3>2. Least(s + 1, Sse) = s + 1
        BY <1>1, <2>1 DEF Least
      <3> QED BY <1>4, <1>5, <1>6, <1>7, <2>1, <3>1, <3>2 DEF Source
    <2>2. CASE IsFp(f, t, k) /\ ~ (s < Sse)
      <3>1. x = [src |-> <<"stack", u>>, a |-> [r EXCEPT !.stack = u + 1]]
        BY <1>1, <1>7, <2>2 DEF sysv_sse, OnStack, Least
      <3>2. Least(s + 1, Sse) = Least(s, Sse)
        BY <1>1, <2>2 DEF Least
      <3> QED BY <1>4, <1>5, <1>6, <1>7, <2>2, <3>1, <3>2 DEF Source
    <2>3. CASE ~ IsFp(f, t, k) /\ f.nfixed + i < Gp
      <3>1. x = [src |-> <<"gp", f.nfixed + i>>, a |-> [r EXCEPT !.gp = f.nfixed + i + 1]]
        BY <1>1, <1>7, <2>3 DEF sysv_int, Least
      <3>2. Least(f.nfixed + (i + 1), Gp) = f.nfixed + i + 1
        BY <1>1, <2>3 DEF Least
      <3>3. f.nfixed + i \in Nat
        BY <1>1
      <3> QED BY <1>4, <1>5, <1>6, <1>7, <2>3, <3>1, <3>2, <3>3 DEF Source
    <2>4. CASE ~ IsFp(f, t, k) /\ ~ (f.nfixed + i < Gp)
      <3>1. x = [src |-> <<"stack", u>>, a |-> [r EXCEPT !.stack = u + 1]]
        BY <1>1, <1>7, <2>4 DEF sysv_int, OnStack, Least
      <3>2. Least(f.nfixed + (i + 1), Gp) = Least(f.nfixed + i, Gp)
        BY <1>1, <2>4 DEF Least
      <3> QED BY <1>4, <1>5, <1>6, <1>7, <2>4, <3>1, <3>2 DEF Source
    <2> QED BY <2>1, <2>2, <2>3, <2>4
  <1>9. sl \in Seq(Source) /\ Len(sl) = c
    BY <1>2 DEF ReadTo
  <1>10. Append(sl, x.src) \in Seq(Source) /\ Len(Append(sl, x.src)) = c + 1
    BY <1>8, <1>9
  <1>11. ASSUME NEW j \in as, j < k + 1
         PROVE  Append(sl, x.src)[Index(as, j)] = Placed(f, t, as, j)
    <2>1. j \in Nat
      BY ArgShape
    <2>2. CASE j = k
      BY <1>2, <1>8, <1>9, <2>2, CountsAre
    <2>3. CASE j # k
      <3>1. j < k /\ j + 1 <= k /\ j + 1 \in Nat
        BY <1>1, <1>11, <2>1, <2>3
      <3>2. Count(as, j) \in Nat /\ Count(as, j + 1) = Count(as, j) + 1
        BY <2>1, ArgsFinite, CountNext
      <3>3. Count(as, j + 1) <= c
        BY <1>1, <1>2, <3>1, ArgsFinite, CountMonotone
      <3>4. Index(as, j) \in 1 .. Len(sl)
        BY <1>9, <3>2, <3>3, CountsAre
      <3>5. Append(sl, x.src)[Index(as, j)] = sl[Index(as, j)]
        BY <1>8, <1>9, <3>4
      <3> QED BY <3>1, <3>5 DEF ReadTo
    <2> QED BY <2>2, <2>3
  <1>12. x.a.stack <= StackRoom <=> \A j \in Stacked(f, t) : j < k + 1 => Count(Stacked(f, t), j) < StackRoom
    <2>1. u <= StackRoom <=> \A j \in Stacked(f, t) : j < k => Count(Stacked(f, t), j) < StackRoom
      BY <1>7 DEF ReadTo
    <2>2. \A j \in Stacked(f, t) : j < k + 1 <=> j < k \/ j = k
      BY <1>1, ArgsFinite
    <2>3. x.a.stack = IF reg THEN u ELSE u + 1
      BY <1>4, <1>8
    <2>4. CASE reg
      BY <1>3, <2>1, <2>2, <2>3, <2>4
    <2>5. CASE ~ reg
      <3>1. u + 1 <= StackRoom <=> u <= StackRoom /\ u < StackRoom
        BY <1>1
      <3> QED BY <1>2, <1>3, <2>1, <2>2, <2>3, <2>5, <3>1
    <2> QED BY <2>4, <2>5
  <1> QED BY <1>4, <1>8, <1>10, <1>11, <1>12 DEF ReadTo

-----------------------------------------------------------------------------
(* The invariant.                                                          *)

NoLongBefore(m) == \A d \in Directives(fn, text) : d < m => ~ LongDouble(fn, text, d)

\* Between directives.
AtText ==
  /\ p \in Nat \ {0} /\ p <= Len(text) /\ InText(text, p - 1) /\ Outside(fn, text, p)
  /\ ReadTo(fn, text, p, slots, a) /\ Len(slots) <= MaxSlots /\ NoLongBefore(p)
  /\ running = (a.stack <= StackRoom)

\* In the directive that begins at d.
Following(d) ==
  /\ p \in Nat /\ d < p /\ p <= LastOf(fn, text, d)
  /\ star = (\E j \in d + 1 .. p - 1 : text[j] = "star")
  /\ long_double = (\E j \in d + 1 .. p - 1 : text[j] = "L")
  /\ ReadTo(fn, text, d, slots, a) /\ Len(slots) <= MaxSlots /\ NoLongBefore(d)
  /\ running = TRUE /\ a.stack <= StackRoom

Refused == p > 1 => ~ Forwardable(fn, text) /\ InText(text, p - 1)

\* The parts of the invariant that follow the format's loops.
Walk ==
  /\ pc = "call" => p = 1 /\ slots = <<>> /\ running = TRUE
  /\ pc = "text" => AtText
  /\ pc = "conv" => \E d \in Directives(fn, text) : Following(d)
  /\ pc = "forwarded" => AtText /\ running /\ text[p] = "nul"
  /\ pc = "refused" => Refused

MarshalInv == fn \in Functions /\ text \in Texts /\ (Ordinary(fn, text) => Walk)

\* The string goes on after a character that is not its terminator.
LEMMA StringGoesOn ==
  ASSUME NEW t \in Texts, NEW m \in Nat \ {0}, m <= Len(t), InText(t, m - 1), t[m] # "nul"
  PROVE  InText(t, m) /\ m + 1 <= Len(t)
  <1>1. \A j \in 1 .. m : j = m \/ j \in 1 .. m - 1
    OBVIOUS
  <1>2. InText(t, m)
    BY <1>1 DEF InText
  <1>3. PICK k \in 1 .. Len(t) : t[k] = "nul"
    BY TextShape
  <1>4. ~ (k <= m) /\ Len(t) \in Nat
    BY <1>2, <1>3, TextShape DEF InText
  <1> QED BY <1>2, <1>3, <1>4

\* OnStackRoom in terms of the counts.
LEMMA StackRoomIs ==
  ASSUME NEW f, NEW t
  PROVE  OnStackRoom(f, t, Args(f, t)) <=> \A k \in Stacked(f, t) : Count(Stacked(f, t), k) < StackRoom
  <1>1. \A k : StackBefore(f, t, Args(f, t), k) = Count(Stacked(f, t), k)
    BY CountsAre
  <1> QED BY <1>1 DEF OnStackRoom, Stacked

\* Before the first character nothing has been read.
LEMMA CallStep ==
  ASSUME fn \in Functions, text \in Texts, p = 1, slots = <<>>, running = TRUE, Call
  PROVE  AtText'
  <1>1. UNCHANGED <<fn, text, p, slots, running>> /\ a' = [gp |-> fn.nfixed, sse |-> 0, stack |-> 0]
    BY DEF Call
  <1>2. fn.nfixed \in 0 .. Gp /\ Gp \in Nat /\ Sse \in Nat /\ StackRoom \in Nat /\ MaxSlots \in Nat
    BY MarshalAssumption
  <1>3. 1 <= Len(text) /\ Len(text) \in Nat
    BY TextShape
  <1>4. \A k \in Args(fn, text) : ~ (k < 1)
    BY ArgShape
  <1>5. ASSUME NEW Q \in SUBSET Args(fn, text) PROVE Count(Q, 1) = 0
    <2>1. {j \in Q : j < 1} = {}
      BY <1>4
    <2> QED BY <2>1, FS_EmptySet DEF Count
  <1>6. /\ Count(Args(fn, text), 1) = 0 /\ Count(Ints(fn, text), 1) = 0
        /\ Count(Fps(fn, text), 1) = 0 /\ Count(Stacked(fn, text), 1) = 0
    BY <1>5 DEF Ints, Fps, Stacked
  <1>7. Least(fn.nfixed + 0, Gp) = fn.nfixed /\ Least(0, Sse) = 0
    BY <1>2 DEF Least
  <1>8. \A k \in Stacked(fn, text) : ~ (k < 1)
    BY <1>4 DEF Stacked
  <1>9. ReadTo(fn, text, 1, <<>>, a')
    BY <1>1, <1>2, <1>4, <1>6, <1>7, <1>8 DEF ReadTo
  <1>10. \A d \in Directives(fn, text) : ~ (d < 1)
    BY DirectiveShape
  <1>11. Outside(fn, text, 1) /\ NoLongBefore(1)' /\ InText(text, 1 - 1)
    BY <1>1, <1>10 DEF Outside, NoLongBefore, InText
  <1>12. a'.stack <= StackRoom
    BY <1>1, <1>2
  <1>13. p' \in Nat \ {0} /\ p' <= Len(text') /\ InText(text', p' - 1) /\ Outside(fn', text', p')
    BY <1>1, <1>3, <1>11
  <1>14. ReadTo(fn', text', p', slots', a') /\ Len(slots') <= MaxSlots /\ NoLongBefore(p)'
    BY <1>1, <1>2, <1>9, <1>11 DEF NoLongBefore
  <1>15. running' = (a'.stack <= StackRoom)
    BY <1>1, <1>12
  <1> QED BY <1>13, <1>14, <1>15 DEF AtText

\* A fault at a character is one met in reading an argument.
LEMMA TextFaultStep ==
  ASSUME text \in Texts, AtText, TextFault
  PROVE  Refused'
  <1>1. UNCHANGED <<fn, text, p>> /\ (~ running \/ ~ Readable)
    BY DEF TextFault, Refuse
  <1>2. ~ running
    BY <1>1 DEF AtText, Readable
  <1>3. ~ (a.stack <= StackRoom)
    BY <1>2 DEF AtText
  <1>4. ~ \A k \in Stacked(fn, text) : Count(Stacked(fn, text), k) < StackRoom
    BY <1>3 DEF AtText, ReadTo
  <1>5. ~ Forwardable(fn, text)
    BY <1>4, StackRoomIs DEF Forwardable
  <1> QED BY <1>1, <1>5 DEF Refused, AtText

\* A character of text takes nothing; a % begins a directive.
LEMMA TextCharStep ==
  ASSUME fn \in Functions, text \in Texts, AtText, TextChar
  PROVE  IF text[p] = "pct" THEN pc' = "conv" /\ \E d \in Directives(fn, text) : Following(d)'
         ELSE pc' = "text" /\ AtText'
  <1>1. /\ UNCHANGED <<fn, text, a, slots, running>> /\ p' = p + 1 /\ text[p] # "nul" /\ running
        /\ pc = "text"
    BY DEF TextChar, Char
  <1>2. p \in Nat \ {0} /\ p <= Len(text) /\ Len(text) \in Nat
    BY TextShape DEF AtText
  <1>3. InText(text, p) /\ p + 1 <= Len(text)
    BY <1>1, <1>2, StringGoesOn DEF AtText
  <1>4. p \notin Args(fn, text)
    BY <1>2, NoArgOutside DEF AtText
  <1>5. CASE text[p] = "pct"
    <2>1. p \in Directives(fn, text)
      BY <1>2, <1>3, <1>5, ReadingExists DEF IsReading, AtText, Outside
    <2>2. PICK d \in Directives(fn, text) : d = p
      BY <2>1
    <2>3. pc' = "conv" /\ star' = FALSE /\ long_double' = FALSE
      BY <1>5 DEF TextChar, Char
    <2>4. d < p' /\ p' \in Nat /\ p' <= LastOf(fn, text, d)
      BY <1>1, <1>2, <2>2, DirectiveShape
    <2>5. d + 1 .. p' - 1 = {}
      BY <1>1, <1>2, <2>2
    <2>6. ReadTo(fn, text, d, slots, a) /\ Len(slots) <= MaxSlots /\ NoLongBefore(d)
      BY <2>2 DEF AtText
    <2>7. running = TRUE /\ a.stack <= StackRoom
      BY <1>1 DEF AtText
    <2>8. Following(d)'
      BY <1>1, <2>3, <2>4, <2>5, <2>6, <2>7 DEF Following, NoLongBefore
    <2> QED BY <1>5, <2>3, <2>8
  <1>6. CASE text[p] # "pct"
    <2>1. pc' = "text"
      BY <1>1, <1>6 DEF TextChar, Char
    <2>2. \A d \in Directives(fn, text) : d < p + 1 => d < p
      BY <1>2, <1>6, DirectiveShape
    <2>3. \A d \in Directives(fn, text) : LastOf(fn, text, d) \in Nat
      BY DirectiveShape
    <2>4. Outside(fn, text, p + 1)
      BY <1>2, <2>2, <2>3 DEF AtText, Outside
    <2>5. NoLongBefore(p)'
      BY <1>1, <2>2 DEF AtText, NoLongBefore
    <2>6. \A j \in Args(fn, text) : ~ (p <= j /\ j < p + 1)
      BY <1>2, <1>4, ArgShape
    <2>7. ReadTo(fn, text, p + 1, slots, a)
      BY <1>2, <2>6, ReadSkip DEF AtText
    <2>8. p + 1 \in Nat \ {0} /\ p + 1 - 1 = p
      BY <1>2
    <2>9. p' \in Nat \ {0} /\ p' <= Len(text') /\ InText(text', p' - 1) /\ Outside(fn', text', p')
      <3>1. p' \in Nat \ {0} /\ p' - 1 = p
        BY <1>1, <1>2
      <3> QED BY <1>1, <1>3, <2>4, <3>1
    <2>10. ReadTo(fn', text', p', slots', a') /\ Len(slots') <= MaxSlots
      BY <1>1, <2>7 DEF AtText
    <2>11. running' = (a'.stack <= StackRoom)
      BY <1>1 DEF AtText
    <2>12. AtText'
      BY <2>5, <2>9, <2>10, <2>11 DEF AtText
    <2> QED BY <1>6, <2>1, <2>12
  <1> QED BY <1>5, <1>6

\* In an ordinary directive the characters up to its conversion are none that
\* ends it, and its conversion does.
LEMMA ConvFacts ==
  ASSUME text \in Texts, Ordinary(fn, text), NEW d \in Directives(fn, text), Following(d)
  PROVE  /\ Readable /\ text[p] # "nul" /\ InText(text, p - 1) /\ p - 1 \in Nat /\ p > 1
         /\ text[p] \in {"d", "f", "pct"} <=> p = LastOf(fn, text, d)
  <1> DEFINE e == LastOf(fn, text, d)
  <1>1. /\ d \in 1 .. Len(text) /\ d \in Nat /\ InText(text, d) /\ e \in Nat /\ d < e /\ e <= Len(text)
        /\ Len(text) \in Nat
    BY DirectiveShape, TextShape
  <1>2. p \in Nat /\ d < p /\ p <= e
    BY DEF Following
  <1>3. Ends(fn, text, d) = {"d", "f", "pct", "nul"} /\ text[e] # "nul"
    BY DEF Ends, Ordinary
  <1>4. text[e] \in Ends(fn, text, d) /\ \A j \in d + 1 .. Len(text) : text[j] \in Ends(fn, text, d) => e <= j
    BY <1>1, LastShape
  <1> HIDE DEF e
  <1>5. p \in d + 1 .. Len(text)
    BY <1>1, <1>2
  <1>6. text[p] \in Ends(fn, text, d) <=> p = e
    BY <1>1, <1>2, <1>4, <1>5
  <1>7. ASSUME NEW j \in 1 .. p - 1 PROVE text[j] # "nul"
    <2>1. CASE j <= d
      BY <1>1, <2>1 DEF InText
    <2>2. CASE ~ (j <= d)
      <3>1. j \in d + 1 .. Len(text) /\ ~ (e <= j)
        BY <1>1, <1>2, <2>2
      <3> QED BY <1>3, <1>4, <3>1
    <2> QED BY <2>1, <2>2
  <1>8. Readable /\ p - 1 \in Nat /\ p > 1
    BY <1>1, <1>2 DEF Readable
  <1>9. text[p] # "nul" /\ (text[p] \in {"d", "f", "pct"} <=> p = e)
    BY <1>3, <1>6
  <1> QED BY <1>7, <1>8, <1>9 DEF InText, e

\* A character within a directive is looked at for stars and Ls only.
LEMMA ConvModifierStep ==
  ASSUME text \in Texts, Ordinary(fn, text), NEW d \in Directives(fn, text), Following(d), ConvModifier
  PROVE  pc' = "conv" /\ Following(d)'
  <1>1. /\ UNCHANGED <<pc, fn, text, a, slots, running>> /\ p' = p + 1 /\ pc = "conv"
        /\ star' = (star \/ text[p] = "star") /\ long_double' = (long_double \/ text[p] = "L")
        /\ text[p] \in {"star", "L", "x", "[", "]"}
    BY DEF ConvModifier, InConv, Char
  <1>2. p # LastOf(fn, text, d)
    BY <1>1, ConvFacts
  <1>3. d \in Nat /\ LastOf(fn, text, d) \in Nat /\ p \in Nat /\ d < p /\ p <= LastOf(fn, text, d)
    BY DirectiveShape DEF Following
  <1>4. p' \in Nat /\ d < p' /\ p' <= LastOf(fn, text, d)
    BY <1>1, <1>2, <1>3
  <1>5. \A j : j \in d + 1 .. p' - 1 <=> j \in d + 1 .. p - 1 \/ j = p
    BY <1>1, <1>3
  <1>6. star' = (\E j \in d + 1 .. p' - 1 : text[j] = "star")
    BY <1>1, <1>5 DEF Following
  <1>7. long_double' = (\E j \in d + 1 .. p' - 1 : text[j] = "L")
    BY <1>1, <1>5 DEF Following
  <1> QED BY <1>1, <1>4, <1>6, <1>7 DEF Following, NoLongBefore

\* After a directive.
LEMMA AfterDirective ==
  ASSUME NEW f, NEW t \in Texts, NEW d \in Directives(f, t), NEW m, m = LastOf(f, t, d) + 1
  PROVE  Outside(f, t, m) /\ \A c \in Directives(f, t) : c < m => c < d \/ c = d
  <1>1. ASSUME NEW c \in Directives(f, t), c < m PROVE LastOf(f, t, c) < m /\ (c < d \/ c = d)
    <2>1. /\ c \in Nat /\ d \in Nat /\ LastOf(f, t, c) \in Nat /\ LastOf(f, t, d) \in Nat
          /\ (c < d => LastOf(f, t, c) < d) /\ (d < c => LastOf(f, t, d) < c)
          /\ d < LastOf(f, t, d)
      BY DirectiveShape
    <2>2. PICK x \in Nat, y \in Nat : x = LastOf(f, t, c) /\ y = LastOf(f, t, d)
      BY <2>1
    <2>3. c < y + 1 /\ (c = d => x = y)
      BY <1>1, <2>2
    <2>4. x < y + 1 /\ (c < d \/ c = d)
      BY <2>1, <2>2, <2>3
    <2> QED BY <2>2, <2>4
  <1> QED BY <1>1 DEF Outside

\* At a conversion star and long_double tell what the directive has.
LEMMA AtConversion ==
  ASSUME text \in Texts, Ordinary(fn, text), NEW d \in Directives(fn, text), Following(d),
         text[p] \in {"d", "f", "pct"}
  PROVE  /\ p = LastOf(fn, text, d)
         /\ star <=> StarsOf(fn, text, d) # {}
         /\ LongDouble(fn, text, d) <=> long_double /\ text[p] # "pct"
  <1>1. p = LastOf(fn, text, d) /\ p \in Nat /\ d \in Nat /\ d < p /\ text[d] = "pct"
    BY ConvFacts, DirectiveShape DEF Following
  <1>2. \A j : j \in d + 1 .. p <=> j \in d + 1 .. p - 1 \/ j = p
    BY <1>1
  <1>3. \A j : j \in d .. p <=> j \in d + 1 .. p - 1 \/ j = p \/ j = d
    BY <1>1
  <1>4. star <=> StarsOf(fn, text, d) # {}
    BY <1>1, <1>2 DEF Following, StarsOf
  <1>5. LongDouble(fn, text, d) <=> long_double /\ text[p] # "pct"
    BY <1>1, <1>3 DEF Following, LongDouble
  <1> QED BY <1>1, <1>4, <1>5

\* Back to the text after a directive that is no long double.
LEMMA BackToText ==
  ASSUME text \in Texts, Ordinary(fn, text), NEW d \in Directives(fn, text), Following(d),
         text[p] \in {"d", "f", "pct"}, ~ LongDouble(fn, text, d),
         UNCHANGED <<fn, text>>, p' = p + 1,
         ReadTo(fn, text, p + 1, slots', a'), Len(slots') <= MaxSlots,
         running' = (a'.stack <= StackRoom)
  PROVE  AtText'
  <1>1. p = LastOf(fn, text, d)
    BY AtConversion
  <1>2. Outside(fn, text, p + 1) /\ \A c \in Directives(fn, text) : c < p + 1 => c < d \/ c = d
    BY <1>1, AfterDirective
  <1>3. NoLongBefore(p)'
    BY <1>2 DEF Following, NoLongBefore
  <1>4. p \in Nat \ {0} /\ p <= Len(text) /\ Len(text) \in Nat /\ text[p] # "nul" /\ InText(text, p - 1)
    BY ConvFacts, TextShape DEF Following, Readable
  <1>5. InText(text, p) /\ p + 1 <= Len(text)
    BY <1>4, StringGoesOn
  <1>6. p' \in Nat \ {0} /\ p' - 1 = p
    BY <1>4
  <1>7. p' \in Nat \ {0} /\ p' <= Len(text') /\ InText(text', p' - 1) /\ Outside(fn', text', p')
    BY <1>2, <1>5, <1>6
  <1>8. ReadTo(fn', text', p', slots', a')
    OBVIOUS
  <1> QED BY <1>3, <1>7, <1>8 DEF AtText

\* A directive that takes nothing.
LEMMA ConvNoneStep ==
  ASSUME fn \in Functions, text \in Texts, Ordinary(fn, text), NEW d \in Directives(fn, text),
         Following(d), ConvNone
  PROVE  pc' = "text" /\ AtText'
  <1>1. /\ UNCHANGED <<fn, text, a, slots, running>> /\ p' = p + 1 /\ pc' = "text" /\ TakesNone
    BY DEF ConvNone
  <1>2. \/ text[p] = "pct"
        \/ text[p] \in {"d", "f"} /\ ~ long_double /\ star /\ fn.scan
    BY <1>1 DEF TakesNone, Char
  <1>3. text[p] \in {"d", "f", "pct"}
    BY <1>2
  <1>4. /\ p = LastOf(fn, text, d) /\ ~ LongDouble(fn, text, d)
        /\ text[p] # "pct" => fn.scan /\ StarsOf(fn, text, d) # {}
    BY <1>2, <1>3, AtConversion
  <1>5. TakenBy(fn, text, d) = {}
    BY <1>4 DEF TakenBy
  <1>6. p \in Nat /\ d \in Nat /\ d < p
    BY DirectiveShape DEF Following
  <1>7. ASSUME NEW j \in Args(fn, text) PROVE ~ (d <= j /\ j < p + 1)
    <2>1. j \in Nat /\ (d <= j /\ j <= p => j \in TakenBy(fn, text, d))
      BY <1>4, ArgShape, ArgsOfDirective
    <2> QED BY <1>5, <1>6, <2>1
  <1>8. ReadTo(fn, text, p + 1, slots, a)
    <2>1. d <= p + 1 /\ p + 1 \in Nat
      BY <1>6
    <2> QED BY <1>6, <1>7, <2>1, ReadSkip DEF Following
  <1>9. Len(slots) <= MaxSlots /\ running = (a.stack <= StackRoom)
    BY DEF Following
  <1> QED BY <1>1, <1>3, <1>4, <1>8, <1>9, BackToText

\* The arguments of a directive whose conversion is at p: p itself, and the
\* one star there is, if there is one.
LEMMA DirectiveTakes ==
  ASSUME text \in Texts, Ordinary(fn, text), NEW d \in Directives(fn, text), Following(d), Converts,
         ~ long_double
  PROVE  /\ p = LastOf(fn, text, d) /\ p \in Nat /\ d \in Nat /\ d < p /\ p \in Args(fn, text)
         /\ text[p] \in {"d", "f"} /\ ~ LongDouble(fn, text, d)
         /\ star => ~ fn.scan
         /\ star => \E s \in Args(fn, text) : /\ s \in Nat /\ d < s /\ s < p /\ text[s] = "star"
                                              /\ TakenBy(fn, text, d) = {s, p}
         /\ ~ star => TakenBy(fn, text, d) = {p}
  <1>1. text[p] \in {"d", "f"} /\ ~ (star /\ fn.scan)
    BY DEF Converts, TakesNone, Char
  <1>2. /\ p = LastOf(fn, text, d) /\ (star <=> StarsOf(fn, text, d) # {})
        /\ ~ LongDouble(fn, text, d)
    BY <1>1, AtConversion
  <1>3. p \in Nat /\ d \in Nat /\ d < p
    BY DirectiveShape DEF Following
  <1>4. TakenBy(fn, text, d) = StarsOf(fn, text, d) \cup {p}
    BY <1>1, <1>2 DEF TakenBy
  <1>5. TakenBy(fn, text, d) \subseteq Args(fn, text)
    BY DEF Args
  <1>6. ASSUME star
        PROVE  \E s \in Args(fn, text) : /\ s \in Nat /\ d < s /\ s < p /\ text[s] = "star"
                                         /\ TakenBy(fn, text, d) = {s, p}
    <2>1. IsFiniteSet(StarsOf(fn, text, d)) /\ StarsOf(fn, text, d) # {}
      <3>1. IsFiniteSet(d + 1 .. p)
        BY <1>3, FS_Interval
      <3>2. StarsOf(fn, text, d) \subseteq d + 1 .. p
        BY <1>2 DEF StarsOf
      <3> QED BY <1>2, <1>6, <3>1, <3>2, FS_Subset
    <2>2. Cardinality(StarsOf(fn, text, d)) \in Nat /\ Cardinality(StarsOf(fn, text, d)) # 0
      BY <2>1, FS_CardinalityType, FS_EmptySet
    <2>3. Cardinality(StarsOf(fn, text, d)) = 1
      BY <2>2 DEF Ordinary
    <2>4. PICK s : StarsOf(fn, text, d) = {s}
      BY <2>1, <2>3, FS_Singleton
    <2>5. s \in d + 1 .. p /\ text[s] = "star"
      BY <1>2, <2>4 DEF StarsOf
    <2>6. s \in Nat /\ d < s /\ s < p
      <3>1. s # p
        BY <1>1, <2>5
      <3> QED BY <1>3, <2>5, <3>1
    <2>7. TakenBy(fn, text, d) = {s, p} /\ s \in Args(fn, text)
      BY <1>4, <1>5, <2>4
    <2> QED BY <2>5, <2>6, <2>7
  <1>7. ~ star => TakenBy(fn, text, d) = {p}
    BY <1>2, <1>4
  <1>8. p \in Args(fn, text)
    BY <1>4, <1>5
  <1> QED BY <1>1, <1>2, <1>3, <1>6, <1>7, <1>8

\* A call is refused for a long double or for want of slots.
LEMMA ConvRefuseStep ==
  ASSUME fn \in Functions, text \in Texts, Ordinary(fn, text), NEW d \in Directives(fn, text),
         Following(d), ConvRefuse
  PROVE  Refused'
  <1>1. UNCHANGED <<fn, text, p>> /\ Converts /\ (long_double \/ NoRoom)
    BY DEF ConvRefuse, Refuse
  <1>2. InText(text, p - 1)
    BY ConvFacts
  <1>3. CASE long_double
    <2>1. text[p] \in {"d", "f"}
      BY <1>1 DEF Converts, Char
    <2>2. LongDouble(fn, text, d)
      BY <1>3, <2>1, AtConversion
    <2> QED BY <1>1, <1>2, <2>2 DEF Refused, Forwardable
  <1>4. CASE ~ long_double
    <2> DEFINE as == Args(fn, text)
               one == IF star THEN 1 ELSE 0
    <2>1. p \in Nat /\ d \in Nat /\ d < p /\ p \in as
      BY <1>1, <1>4, DirectiveTakes
    <2>2. as \in SUBSET Nat /\ IsFiniteSet(as)
      BY ArgsFinite
    <2>3. Len(slots) = Count(as, d) /\ Count(as, d) \in Nat /\ Count(as, p) \in Nat
      BY <2>1, <2>2, CountNext DEF Following, ReadTo
    <2>4. Count(as, d) + one <= Count(as, p)
      <3>1. CASE star
        <4>1. PICK s \in as : s \in Nat /\ d < s /\ s < p
          BY <1>1, <1>4, <3>1, DirectiveTakes
        <4>2. d <= s /\ s + 1 <= p /\ s + 1 \in Nat
          BY <2>1, <4>1
        <4>3. Count(as, s) \in Nat /\ Count(as, s + 1) = Count(as, s) + 1
          BY <2>2, <4>1, CountNext
        <4>4. Count(as, d) <= Count(as, s) /\ Count(as, s + 1) <= Count(as, p)
          BY <2>1, <2>2, <4>1, <4>2, CountMonotone
        <4> QED BY <2>3, <3>1, <4>3, <4>4
      <3>2. CASE ~ star
        <4>1. Count(as, d) <= Count(as, p)
          BY <2>1, <2>2, CountMonotone
        <4> QED BY <2>3, <3>2, <4>1
      <3> QED BY <3>1, <3>2
    <2>5. Count(as, p + 1) = Count(as, p) + 1
      BY <2>1, <2>2, CountNext
    <2>6. Count(as, p + 1) <= Cardinality(as) /\ Cardinality(as) \in Nat
      BY <2>1, <2>2, CountMonotone, FS_CardinalityType
    <2>7. Len(slots) + one >= MaxSlots /\ MaxSlots \in Nat
      BY <1>1, <1>4, MarshalAssumption DEF NoRoom
    <2>8. one \in Nat
      OBVIOUS
    <2> HIDE DEF one, as
    <2>9. ~ (Cardinality(as) <= MaxSlots)
      <3>1. PICK x \in Nat : x = Count(as, d)
        BY <2>3
      <3>2. PICK y \in Nat : y = Count(as, p)
        BY <2>3
      <3>3. PICK z \in Nat : z = Cardinality(as)
        BY <2>6
      <3>4. PICK o \in Nat : o = one
        BY <2>8
      <3>5. x + o <= y /\ y + 1 <= z /\ x + o >= MaxSlots
        BY <2>3, <2>4, <2>5, <2>6, <2>7, <3>1, <3>2, <3>3, <3>4
      <3>6. MaxSlots \in Nat /\ ~ (z <= MaxSlots)
        BY <2>7, <3>5
      <3> QED BY <3>3, <3>6
    <2> QED BY <1>1, <1>2, <2>9 DEF Refused, Forwardable, as
  <1> QED BY <1>3, <1>4

\* The arguments of a directive are read, the one of its star first.
LEMMA ConvTakeStep ==
  ASSUME fn \in Functions, text \in Texts, Ordinary(fn, text), NEW d \in Directives(fn, text),
         Following(d), ConvTake
  PROVE  pc' = "text" /\ AtText'
  <1> DEFINE width == sysv_int(a)
             rest == IF star THEN width.a ELSE a
             arg == IF ~ fn.scan /\ text[p] = "f" THEN sysv_sse(rest) ELSE sysv_int(rest)
  <1>1. /\ slots' = slots \o (IF star THEN <<width.src>> ELSE <<>>) \o <<arg.src>>
        /\ a' = arg.a /\ running' = (running /\ arg.a.stack <= StackRoom)
        /\ p' = p + 1 /\ pc' = "text" /\ UNCHANGED <<fn, text>>
        /\ Converts /\ ~ long_double /\ ~ NoRoom
    BY DEF ConvTake, Char
  <1>2. /\ p = LastOf(fn, text, d) /\ p \in Nat /\ d \in Nat /\ d < p /\ p \in Args(fn, text)
        /\ text[p] \in {"d", "f"} /\ ~ LongDouble(fn, text, d)
    BY <1>1, DirectiveTakes
  <1>3. PICK sl : sl = IF star THEN Append(slots, width.src) ELSE slots
    OBVIOUS
  <1>4. ReadTo(fn, text, d, slots, a)
    BY DEF Following
  <1>5. \A j \in Args(fn, text) : j \in Nat /\ (d <= j /\ j <= p => j \in TakenBy(fn, text, d))
    BY <1>2, ArgShape, ArgsOfDirective
  <1>6. ReadTo(fn, text, p, sl, rest)
    <2>1. CASE star
      <3>1. PICK s \in Args(fn, text) :
              s \in Nat /\ d < s /\ s < p /\ text[s] = "star" /\ TakenBy(fn, text, d) = {s, p}
        BY <1>1, <2>1, DirectiveTakes
      <3>2. d <= s /\ \A j \in Args(fn, text) : ~ (d <= j /\ j < s)
        BY <1>2, <1>5, <3>1
      <3>3. ReadTo(fn, text, s, slots, a)
        BY <1>2, <1>4, <3>1, <3>2, ReadSkip
      <3>4. width = IF IsFp(fn, text, s) THEN sysv_sse(a) ELSE sysv_int(a)
        BY <3>1 DEF IsFp
      <3>5. ReadTo(fn, text, s + 1, Append(slots, width.src), width.a)
        <4> HIDE DEF width
        <4> QED BY <3>3, <3>4, ReadOne
      <3>6. s + 1 \in Nat /\ s + 1 <= p /\ \A j \in Args(fn, text) : ~ (s + 1 <= j /\ j < p)
        BY <1>2, <1>5, <3>1
      <3>7. ReadTo(fn, text, p, Append(slots, width.src), width.a)
        <4> HIDE DEF width
        <4> QED BY <1>2, <3>5, <3>6, ReadSkip
      <3> HIDE DEF width
      <3> QED BY <1>3, <2>1, <3>7
    <2>2. CASE ~ star
      <3>1. TakenBy(fn, text, d) = {p}
        BY <1>1, <2>2, DirectiveTakes
      <3>2. d <= p /\ \A j \in Args(fn, text) : ~ (d <= j /\ j < p)
        BY <1>2, <1>5, <3>1
      <3>3. ReadTo(fn, text, p, slots, a)
        BY <1>2, <1>4, <3>2, ReadSkip
      <3> QED BY <1>3, <2>2, <3>3
    <2> QED BY <2>1, <2>2
  <1>7. arg = IF IsFp(fn, text, p) THEN sysv_sse(rest) ELSE sysv_int(rest)
    BY DEF IsFp
  <1>8. ReadTo(fn, text, p + 1, Append(sl, arg.src), arg.a)
    <2> HIDE DEF arg, rest
    <2> QED BY <1>2, <1>6, <1>7, ReadOne
  <1> HIDE DEF width, arg, rest
  <1>9. slots \in Seq(Source) /\ sl \in Seq(Source) /\ Len(slots) \in Nat
    BY <1>4, <1>6 DEF ReadTo
  <1>10. slots' = Append(sl, arg.src) /\ Len(slots') = Len(slots) + (IF star THEN 1 ELSE 0) + 1
    BY <1>1, <1>3, <1>9
  <1>11. Len(slots') <= MaxSlots
    <2>1. ~ (Len(slots) + (IF star THEN 1 ELSE 0) >= MaxSlots) /\ MaxSlots \in Nat
      BY <1>1, MarshalAssumption DEF NoRoom
    <2> QED BY <1>9, <1>10, <2>1
  <1>12. running' = (a'.stack <= StackRoom)
    BY <1>1 DEF Following
  <1>13. ReadTo(fn, text, p + 1, slots', a')
    BY <1>1, <1>8, <1>10
  <1>14. text[p] \in {"d", "f", "pct"}
    BY <1>2
  <1>15. AtText'
    BY <1>1, <1>2, <1>11, <1>12, <1>13, <1>14, BackToText
  <1> QED BY <1>1, <1>15

-----------------------------------------------------------------------------
(* The invariant holds throughout.                                         *)

\* The call begins before the first character.
LEMMA MarshalInvInit == Init => MarshalInv
  BY DEF Init, MarshalInv, Walk

\* Every step keeps the function and the text.
LEMMA TextFixed ==
  ASSUME [Next]_vars
  PROVE  UNCHANGED <<fn, text>>
  BY DEF Next, vars, Call, CallUnreadable, TextFault, TextEnd, TextChar, ConvCut, ConvModifier,
         ConvNone, ConvRefuse, ConvTake, Refuse

\* A step in the text of an ordinary format.
LEMMA WalkText ==
  ASSUME fn \in Functions, text \in Texts, Walk, Next, pc = "text",
         UNCHANGED <<fn, text>>
  PROVE  Walk'
  <1>1. AtText
    BY DEF Walk
  <1>2. TextFault \/ TextEnd \/ TextChar
    BY DEF Next, Call, CallUnreadable, ConvCut, ConvModifier, ConvNone, ConvRefuse, ConvTake,
           InConv, Converts
  <1>3. CASE TextFault
    <2>1. pc' = "refused"
      BY <1>3 DEF TextFault, Refuse
    <2>2. Refused'
      BY <1>1, <1>3, TextFaultStep
    <2> QED BY <2>1, <2>2 DEF Walk
  <1>4. CASE TextEnd
    <2>1. /\ pc' = "forwarded" /\ UNCHANGED <<fn, text, p, a, slots, running>>
          /\ running /\ text[p] = "nul"
      BY <1>4 DEF TextEnd, Char
    <2>2. AtText'
      BY <1>1, <2>1 DEF AtText, NoLongBefore
    <2> QED BY <2>1, <2>2 DEF Walk
  <1>5. CASE TextChar
    <2>1. IF text[p] = "pct" THEN pc' = "conv" /\ \E d \in Directives(fn, text) : Following(d)'
          ELSE pc' = "text" /\ AtText'
      BY <1>1, <1>5, TextCharStep
    <2>2. CASE text[p] = "pct"
      BY <2>1, <2>2 DEF Walk
    <2>3. CASE text[p] # "pct"
      BY <2>1, <2>3 DEF Walk
    <2> QED BY <2>2, <2>3
  <1> QED BY <1>2, <1>3, <1>4, <1>5

\* A step in a directive of an ordinary format: it is never cut.
LEMMA WalkConv ==
  ASSUME fn \in Functions, text \in Texts, Ordinary(fn, text), Walk, Next, pc = "conv",
         UNCHANGED <<fn, text>>
  PROVE  Walk'
  <1>1. PICK d \in Directives(fn, text) : Following(d)
    BY DEF Walk
  <1>2. ConvCut \/ ConvModifier \/ ConvNone \/ ConvRefuse \/ ConvTake
    BY DEF Next, Call, CallUnreadable, TextFault, TextEnd, TextChar
  <1>3. ~ ConvCut
    <2>1. Readable /\ text[p] # "nul"
      BY <1>1, ConvFacts
    <2> QED BY <2>1 DEF ConvCut, Char
  <1>4. CASE ConvModifier
    <2>1. pc' = "conv" /\ Following(d)'
      BY <1>1, <1>4, ConvModifierStep
    <2> QED BY <2>1 DEF Walk
  <1>5. CASE ConvNone
    <2>1. pc' = "text" /\ AtText'
      BY <1>1, <1>5, ConvNoneStep
    <2> QED BY <2>1 DEF Walk
  <1>6. CASE ConvRefuse
    <2>1. pc' = "refused"
      BY <1>6 DEF ConvRefuse, Refuse
    <2>2. Refused'
      BY <1>1, <1>6, ConvRefuseStep
    <2> QED BY <2>1, <2>2 DEF Walk
  <1>7. CASE ConvTake
    <2>1. pc' = "text" /\ AtText'
      BY <1>1, <1>7, ConvTakeStep
    <2> QED BY <2>1 DEF Walk
  <1> QED BY <1>2, <1>3, <1>4, <1>5, <1>6, <1>7

\* A step before the first character.
LEMMA WalkCall ==
  ASSUME fn \in Functions, text \in Texts, Walk, Next, pc = "call"
  PROVE  Walk'
  <1>1. p = 1 /\ slots = <<>> /\ running = TRUE
    BY DEF Walk
  <1>2. Call \/ CallUnreadable
    BY DEF Next, TextFault, TextEnd, TextChar, ConvCut, ConvModifier, ConvNone, ConvRefuse, ConvTake,
           InConv, Converts
  <1>3. CASE Call
    <2>1. pc' = "text"
      BY <1>3 DEF Call
    <2>2. AtText'
      BY <1>1, <1>3, CallStep
    <2> QED BY <2>1, <2>2 DEF Walk
  <1>4. CASE CallUnreadable
    <2>1. pc' = "refused" /\ p' = p
      BY <1>4 DEF CallUnreadable
    <2>2. ~ (p' > 1)
      BY <1>1, <2>1
    <2> QED BY <2>1, <2>2 DEF Walk, Refused
  <1> QED BY <1>2, <1>3, <1>4

\* A step of the walk of an ordinary format, or none.
LEMMA WalkStep ==
  ASSUME fn \in Functions, text \in Texts, Ordinary(fn, text), Walk, [Next]_vars,
         UNCHANGED <<fn, text>>
  PROVE  Walk'
  <1>1. CASE UNCHANGED vars
    BY <1>1 DEF vars, Walk, AtText, Following, Refused, NoLongBefore
  <1>2. CASE Next
    <2>1. pc \in {"call", "text", "conv"}
      BY <1>2 DEF Next, Call, CallUnreadable, TextFault, TextEnd, TextChar, ConvCut, ConvModifier,
                  ConvNone, ConvRefuse, ConvTake, InConv, Converts
    <2> QED BY <1>2, <2>1, WalkCall, WalkText, WalkConv
  <1> QED BY <1>1, <1>2

\* The invariant is inductive.
LEMMA MarshalInvStep == MarshalInv /\ [Next]_vars => MarshalInv'
  <1> SUFFICES ASSUME MarshalInv, [Next]_vars PROVE MarshalInv'
    OBVIOUS
  <1>1. UNCHANGED <<fn, text>>
    BY TextFixed
  <1>2. CASE Ordinary(fn, text)
    <2>1. Walk'
      BY <1>1, <1>2, WalkStep DEF MarshalInv
    <2> QED BY <1>1, <2>1 DEF MarshalInv
  <1>3. CASE ~ Ordinary(fn, text)
    BY <1>1, <1>3 DEF MarshalInv
  <1> QED BY <1>2, <1>3

-----------------------------------------------------------------------------
(* What the invariant says once the walk is over.                          *)

\* At the terminator everything has been read.
LEMMA AllRead ==
  ASSUME fn \in Functions, text \in Texts, AtText, text[p] = "nul"
  PROVE  /\ \A d \in Directives(fn, text) : d < p /\ d \in Nat
         /\ \A k \in Args(fn, text) : k < p /\ k \in Nat
  <1>1. p \in Nat \ {0} /\ p <= Len(text) /\ Outside(fn, text, p)
    BY DEF AtText
  <1>2. ASSUME NEW d \in Directives(fn, text) PROVE d < p /\ d \in Nat
    <2>1. d \in 1 .. Len(text) /\ d \in Nat /\ InText(text, d)
      BY DirectiveShape
    <2>2. ~ (p <= d)
      BY <1>1, <2>1 DEF InText
    <2> QED BY <1>1, <2>1, <2>2
  <1>3. ASSUME NEW k \in Args(fn, text) PROVE k < p /\ k \in Nat
    <2>1. k \in Nat
      BY ArgShape
    <2>2. PICK d \in Directives(fn, text) : d < k /\ k <= LastOf(fn, text, d)
      BY ArgShape
    <2>3. LastOf(fn, text, d) < p /\ LastOf(fn, text, d) \in Nat
      BY <1>1, <1>2, <2>2, DirectiveShape DEF Outside
    <2> QED BY <1>1, <2>1, <2>2, <2>3
  <1> QED BY <1>2, <1>3

\* The slots of a forwarded call.
LEMMA InvForwarded == MarshalInv => ForwardedRight
  <1> SUFFICES ASSUME MarshalInv, pc = "forwarded", Ordinary(fn, text)
               PROVE  SlotsRight(fn, text, Args(fn, text))
    BY DEF ForwardedRight
  <1>1. fn \in Functions /\ text \in Texts /\ AtText /\ text[p] = "nul"
    BY DEF MarshalInv, Walk
  <1>2. \A k \in Args(fn, text) : k < p /\ k \in Nat
    BY <1>1, AllRead
  <1>3. ReadTo(fn, text, p, slots, a) /\ p \in Nat
    BY <1>1 DEF AtText
  <1>4. Count(Args(fn, text), p) = Cardinality(Args(fn, text))
    BY <1>2, <1>3, CountAll
  <1> QED BY <1>2, <1>3, <1>4 DEF ReadTo, SlotsRight

\* The calls that are refused.
LEMMA InvRefused == MarshalInv => RefusedRight
  <1> SUFFICES ASSUME MarshalInv, Done, Ordinary(fn, text)
               PROVE  pc = "refused" <=> ~ Forwardable(fn, text)
    BY DEF RefusedRight
  <1>1. fn \in Functions /\ text \in Texts /\ Walk
    BY DEF MarshalInv
  <1>2. CASE pc = "forwarded"
    <2>1. AtText /\ running /\ text[p] = "nul"
      BY <1>1, <1>2 DEF Walk
    <2>2. /\ \A d \in Directives(fn, text) : d < p
          /\ \A k \in Args(fn, text) : k < p /\ k \in Nat
      BY <1>1, <2>1, AllRead
    <2>3. ReadTo(fn, text, p, slots, a) /\ p \in Nat /\ Len(slots) <= MaxSlots /\ a.stack <= StackRoom
      BY <2>1 DEF AtText
    <2>4. \A d \in Directives(fn, text) : ~ LongDouble(fn, text, d)
      BY <2>1, <2>2 DEF AtText, NoLongBefore
    <2>5. Count(Args(fn, text), p) = Cardinality(Args(fn, text))
      BY <2>2, <2>3, CountAll
    <2>6. Cardinality(Args(fn, text)) <= MaxSlots
      BY <2>3, <2>5 DEF ReadTo
    <2>7. OnStackRoom(fn, text, Args(fn, text))
      BY <2>2, <2>3, StackRoomIs DEF ReadTo, Stacked
    <2> QED BY <1>2, <2>4, <2>6, <2>7 DEF Forwardable
  <1>3. CASE pc = "refused" /\ p > 1
    BY <1>1, <1>3 DEF Walk, Refused
  <1> QED BY <1>2, <1>3 DEF Done

\* The characters that have been read.
LEMMA InvInString == MarshalInv => InString
  <1> SUFFICES ASSUME MarshalInv, Done, Ordinary(fn, text) PROVE InText(text, p - 1)
    BY DEF InString, InText
  <1>1. Walk
    BY DEF MarshalInv
  <1> QED BY <1>1 DEF Done, Walk, AtText, Refused

\* For every function and every ordinary format, what marshal_format() puts in
\* the slots is, argument by argument, what System V says the guest's caller put
\* there: also where the registers of one kind run out before those of the other,
\* and where a width of its own comes before the number it is for.
THEOREM SlotsAlwaysRight == Spec => []ForwardedRight
  <1>1. Spec => []MarshalInv
    BY MarshalInvInit, MarshalInvStep, PTL DEF Spec
  <1> QED BY <1>1, InvForwarded, PTL

\* A variadic call that marshal_format() walks is refused for a long double, for
\* more arguments than slots has, or for arguments beyond readable memory, and
\* for nothing else; and each of the three is always noticed.
THEOREM RefusalsRight == Spec => []RefusedRight
  <1>1. Spec => []MarshalInv
    BY MarshalInvInit, MarshalInvStep, PTL DEF Spec
  <1> QED BY <1>1, InvRefused, PTL

\* Neither of marshal_format()'s loops passes the terminator of an ordinary
\* format, though the inner one advances before the outer one looks.
THEOREM StaysInString == Spec => []InString
  <1>1. Spec => []MarshalInv
    BY MarshalInvInit, MarshalInvStep, PTL DEF Spec
  <1> QED BY <1>1, InvInString, PTL

=============================================================================
