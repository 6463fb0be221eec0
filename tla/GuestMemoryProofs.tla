------------------------- MODULE GuestMemoryProofs --------------------------
(***************************************************************************)
(* Theorems about the address space, for every word, page and access size  *)
(* and every guest: what TLC checks of GuestMemory on a few pages.         *)
(***************************************************************************)
EXTENDS GuestMemory, FiniteSetTheorems, SequenceTheorems,
        WellFoundedInduction, TLAPS

-----------------------------------------------------------------------------
(* Lists.                                                                  *)

\* The positions of I have the ranks 1, 2, ... up to their number: each rank
\* is taken, which is what makes the CHOOSE in Pick well defined.
LEMMA RankTaken ==
  ASSUME NEW I \in SUBSET Nat, IsFiniteSet(I),
         NEW k \in 1 .. Cardinality(I)
  PROVE  \E i \in I : Cardinality({j \in I : j <= i}) = k
<1> DEFINE Upto(i) == {j \in I : j <= i}
           n == Cardinality(I)
           f == [i \in I |-> Cardinality(Upto(i))]
<1>1. n \in Nat
  BY FS_CardinalityType
<1>2. ASSUME NEW i \in I
      PROVE  /\ IsFiniteSet(Upto(i))
             /\ Cardinality(Upto(i)) \in 1 .. n
  <2>1. Upto(i) \in SUBSET I /\ i \in Upto(i)
    OBVIOUS
  <2>2. IsFiniteSet(Upto(i)) /\ Cardinality(Upto(i)) <= n
    BY <2>1, FS_Subset
  <2>3. Cardinality(Upto(i)) \in Nat
    BY <2>2, FS_CardinalityType
  <2>4. Cardinality(Upto(i)) # 0
    BY <2>1, <2>2, FS_EmptySet
  <2> QED
    BY <1>1, <2>2, <2>3, <2>4
<1>3. ASSUME NEW i \in I, NEW j \in I, i < j
      PROVE  Cardinality(Upto(i)) # Cardinality(Upto(j))
  <2>0. i \in Nat /\ j \in Nat /\ i < j /\ \A x \in I : x \in Nat
    BY <1>3
  <2>1. j \in Upto(j) /\ j \notin Upto(i)
    BY <2>0
  <2>2. ASSUME NEW x \in Upto(i) PROVE x \in Upto(j)
    BY <2>0
  <2>3. Upto(i) \in SUBSET Upto(j)
    BY <2>2
  <2> QED
    BY <1>2, <2>1, <2>3, FS_Subset
<1>4. f \in Injection(I, 1 .. n)
  <2>1. f \in [I -> 1 .. n]
    BY <1>2
  <2>2. ASSUME NEW i \in I, NEW j \in I, f[i] = f[j]
        PROVE  i = j
    <3>1. Cardinality(Upto(i)) = Cardinality(Upto(j))
      BY <2>2
    <3> QED
      BY <1>3, <3>1
  <2> QED
    BY <2>1, <2>2 DEF Injection, IsInjective
<1>5. IsFiniteSet(1 .. n) /\ Cardinality(1 .. n) = n
  BY <1>1, FS_Interval
<1>6. f \in Surjection(I, 1 .. n)
  <2> HIDE DEF f
  <2> QED BY <1>4, <1>5, FS_Injection
<1>7. PICK i \in I : f[i] = k
  <2> HIDE DEF f
  <2> QED BY <1>6 DEF Surjection
<1> QED
  BY <1>7

\* Pick copies elements in order: position k of the result is the element at
\* g[k], and no element is copied twice.
LEMMA PickCopies ==
  ASSUME NEW I \in SUBSET Nat, IsFiniteSet(I), NEW s
  PROVE  /\ Cardinality(I) \in Nat
         /\ \E g \in [1 .. Cardinality(I) -> I] :
              /\ \A k, l \in 1 .. Cardinality(I) : g[k] = g[l] => k = l
              /\ Pick(s, I) = [k \in 1 .. Cardinality(I) |-> s[g[k]]]
<1> DEFINE rank(i) == Cardinality({j \in I : j <= i})
           g == [k \in 1 .. Cardinality(I) |-> CHOOSE i \in I : rank(i) = k]
<1>1. Cardinality(I) \in Nat
  BY FS_CardinalityType
<1>2. ASSUME NEW k \in 1 .. Cardinality(I)
      PROVE  g[k] \in I /\ rank(g[k]) = k
  <2>1. \E i \in I : rank(i) = k
    BY RankTaken
  <2> HIDE DEF rank
  <2> QED BY <2>1
<1>3. g \in [1 .. Cardinality(I) -> I]
  <2> HIDE DEF rank
  <2> QED BY <1>2
<1>4. \A k, l \in 1 .. Cardinality(I) : g[k] = g[l] => k = l
  <2> HIDE DEF rank, g
  <2> QED BY <1>2
<1>5. Pick(s, I) = [k \in 1 .. Cardinality(I) |-> s[g[k]]]
  BY DEF Pick
<1> QED
  BY <1>1, <1>3, <1>4, <1>5

\* The result of Pick is a sequence of what it copies.
LEMMA PickSeq ==
  ASSUME NEW S, NEW I \in SUBSET Nat, IsFiniteSet(I), NEW s,
         \A i \in I : s[i] \in S
  PROVE  Pick(s, I) \in Seq(S) /\ Len(Pick(s, I)) = Cardinality(I)
<1>1. PICK g \in [1 .. Cardinality(I) -> I] :
        Pick(s, I) = [k \in 1 .. Cardinality(I) |-> s[g[k]]]
  BY PickCopies, SMTT(40)
<1>2. Cardinality(I) \in Nat
  BY PickCopies
<1>3. \A k \in 1 .. Cardinality(I) : s[g[k]] \in S
  BY <1>1
<1>4. Pick(s, I) \in [1 .. Cardinality(I) -> S]
  BY <1>1, <1>3
<1> QED
  BY <1>2, <1>4

\* A non-empty set of numbers has a least element.
LEMMA LeastElement ==
  ASSUME NEW T \in SUBSET Nat, T # {}
  PROVE  \E x \in T : \A y \in T : x <= y
<1>1. PICK x \in T : \A y \in T : ~ (<<y, x>> \in OpToRel(<, Nat))
  BY NatLessThanWellFounded, WFMin
<1>2. \A y \in T : ~ (y < x)
  BY <1>1 DEF OpToRel
<1> QED
  BY <1>2

\* find() returns 0 or the position of a region that holds the address.
LEMMA FindHolds ==
  ASSUME NEW s, Len(s) \in Nat, NEW a, find(s, a) # 0
  PROVE  find(s, a) \in 1 .. Len(s) /\ Holds(s[find(s, a)], a)
<1> DEFINE T == {i \in 1 .. Len(s) : Holds(s[i], a)}
<1>1. T \in SUBSET Nat /\ T # {}
  BY DEF find
<1>2. PICK i \in T : \A j \in T : i <= j
  <2> HIDE DEF T
  <2> QED BY <1>1, LeastElement
<1>3. i \in 1 .. Len(s) /\ Holds(s[i], a) /\ \A j \in 1 .. (i - 1) : ~ Holds(s[j], a)
  BY <1>2
<1> QED
  BY <1>3 DEF find

LEMMA RegionBounds ==
  \A r \in Region : /\ r.start \in Nat /\ r.end \in Nat
                    /\ r.start \in Int /\ r.end \in Int
BY SizesAssumption DEF Region

\* t is s with r spliced in at position p.
SplicedAt(t, s, r, p) ==
  \A k \in 1 .. (Len(s) + 1) :
    t[k] = IF k < p THEN s[k] ELSE IF k = p THEN r ELSE s[k - 1]

\* Inserting keeps every region and adds one: position k of the new list is
\* the new region or one of the old positions, each taken once.
LEMMA InsertedCopies ==
  ASSUME NEW s \in Seq(Region), NEW r \in Region
  PROVE  /\ Inserted(s, r) \in Seq(Region)
         /\ Len(Inserted(s, r)) = Len(s) + 1
         /\ \E p \in 1 .. (Len(s) + 1) : SplicedAt(Inserted(s, r), s, r, p)
<1> DEFINE p == InsertPosition(s, r)
           T == {i \in 1 .. Len(s) : s[i].start >= r.start} \cup {Len(s) + 1}
<1>1. PICK i \in T : \A j \in T : i <= j
  <2>1. T \in SUBSET Nat /\ T # {}
    OBVIOUS
  <2> HIDE DEF T
  <2> QED BY <2>1, LeastElement
<1>2. \A j \in 1 .. Len(s) : s[j] \in Region /\ s[j].start \in Int /\ r.start \in Int
  BY RegionBounds
<1>3. i \in 1 .. (Len(s) + 1) /\ (i <= Len(s) => s[i].start >= r.start)
  BY <1>1
<1>4. ASSUME NEW j \in 1 .. (i - 1) PROVE s[j].start < r.start
  BY <1>1, <1>2, <1>3, j \notin T
<1>5. p \in 1 .. (Len(s) + 1)
  BY <1>3, <1>4 DEF InsertPosition
<1> HIDE DEF p
<1> DEFINE u == SubSeq(s, 1, p - 1)
           v == SubSeq(s, p, Len(s))
<1>6. /\ u \in Seq(Region) /\ Len(u) = p - 1 /\ \A k \in 1 .. (p - 1) : u[k] = s[k]
      /\ v \in Seq(Region) /\ Len(v) = Len(s) - p + 1
      /\ \A k \in 1 .. (Len(s) - p + 1) : v[k] = s[p + k - 1]
  BY <1>2, <1>5, SubSeqProperties
<1> HIDE DEF u, v
<1>7. Inserted(s, r) = (u \o <<r>>) \o v
  BY DEF Inserted, InsertAt, p, u, v
<1>8. /\ u \o <<r>> \in Seq(Region) /\ Len(u \o <<r>>) = p
      /\ \A k \in 1 .. p : (u \o <<r>>)[k] = IF k < p THEN s[k] ELSE r
  <2>1. <<r>> \in Seq(Region) /\ Len(<<r>>) = 1 /\ <<r>>[1] = r
    OBVIOUS
  <2>2. /\ u \o <<r>> \in Seq(Region)
        /\ Len(u \o <<r>>) = Len(u) + Len(<<r>>)
        /\ \A k \in 1 .. (Len(u) + Len(<<r>>)) :
             (u \o <<r>>)[k] = IF k <= Len(u) THEN u[k] ELSE <<r>>[k - Len(u)]
    BY <1>6, <2>1, ConcatProperties
  <2> QED
    BY <1>5, <1>6, <2>1, <2>2
<1>9. /\ Inserted(s, r) \in Seq(Region) /\ Len(Inserted(s, r)) = Len(s) + 1
      /\ \A k \in 1 .. (Len(s) + 1) :
           Inserted(s, r)[k] = IF k < p THEN s[k] ELSE IF k = p THEN r ELSE s[k - 1]
  <2> DEFINE w == u \o <<r>>
  <2> HIDE DEF w
  <2>1. /\ w \in Seq(Region) /\ Len(w) = p
        /\ \A k \in 1 .. p : w[k] = IF k < p THEN s[k] ELSE r
    BY <1>8 DEF w
  <2>2. /\ w \o v \in Seq(Region)
        /\ Len(w \o v) = Len(w) + Len(v)
        /\ \A k \in 1 .. (Len(w) + Len(v)) :
             (w \o v)[k] = IF k <= Len(w) THEN w[k] ELSE v[k - Len(w)]
    BY <1>6, <2>1, ConcatProperties
  <2>3. Inserted(s, r) = w \o v
    BY <1>7 DEF w
  <2> QED
    BY <1>5, <1>6, <2>1, <2>2, <2>3
<1> QED
  BY <1>5, <1>9 DEF SplicedAt

-----------------------------------------------------------------------------
(* Words and pages.                                                        *)

LEMMA WordArithmetic ==
  ASSUME NEW x \in 0 .. (Word - 1), NEW y \in 0 .. (Word - 1)
  PROVE  /\ Plus(x, y) \in 0 .. (Word - 1)
         /\ Minus(x, y) \in 0 .. (Word - 1)
         /\ x + y < Word => Plus(x, y) = x + y
         /\ y <= x => Minus(x, y) = x - y
BY SizesAssumption DEF Plus, Minus

\* Rounding down to a page moves an address down by less than a page.
LEMMA PageRounding ==
  ASSUME NEW x \in 0 .. (Word - 1)
  PROVE  /\ PageDown(x) \in 0 .. x /\ x - PageDown(x) < HostPage
         /\ PageUp(x) \in 0 .. (Word - 1)
         /\ x + HostPage <= Word => PageUp(x) >= x
<1>1. ASSUME NEW y \in Nat
      PROVE  y % HostPage \in 0 .. (HostPage - 1) /\ PageDown(y) \in 0 .. y
  <2>1. y % HostPage \in 0 .. (HostPage - 1) /\ y % HostPage <= y
    BY SizesAssumption
  <2> QED
    BY <2>1, SizesAssumption DEF PageDown
<1>2. PageDown(x) \in 0 .. x /\ x - PageDown(x) < HostPage
  BY <1>1, SizesAssumption DEF PageDown
<1> DEFINE u == Plus(x, HostPage - 1)
<1>3. u \in 0 .. (Word - 1) /\ (x + HostPage <= Word => u = x + HostPage - 1)
  BY WordArithmetic, SizesAssumption
<1> HIDE DEF u
<1>4. PageDown(u) \in 0 .. u /\ u - PageDown(u) < HostPage
  BY <1>1, <1>3, SizesAssumption DEF PageDown
<1>5. PageUp(x) = PageDown(u)
  BY DEF PageUp, u
<1> QED
  BY <1>2, <1>3, <1>4, <1>5, SizesAssumption

LEMMA MapRangeType ==
  ASSUME NEW at \in Ats, NEW len \in Lens
  PROVE  /\ MapLo(at) \in 0 .. (Word - 1)
         /\ MapHi(at, len) \in 0 .. (Word - 1)
         /\ MapSize(at, len) \in 0 .. (Word - 1)
<1>1. at \in 0 .. (Word - 1) /\ len \in 0 .. (Word - 1)
  BY ArgumentsAssumption
<1>2. Plus(at, len) \in 0 .. (Word - 1)
  BY <1>1, WordArithmetic
<1>3. MapLo(at) \in 0 .. (Word - 1)
  BY <1>1, PageRounding, SizesAssumption DEF MapLo
<1>4. MapHi(at, len) \in 0 .. (Word - 1)
  BY <1>1, <1>2, PageRounding DEF MapHi
<1> QED
  BY <1>3, <1>4, WordArithmetic DEF MapSize

-----------------------------------------------------------------------------
(* The lists the operations leave.                                         *)

LEMMA PartNumbersFinite ==
  ASSUME NEW s \in Seq(Region), NEW at, NEW end
  PROVE  /\ PartNumbers(s, at, end) \in SUBSET Nat
         /\ IsFiniteSet(PartNumbers(s, at, end))
         /\ \A j \in PartNumbers(s, at, end) :
              j \div 3 \in 1 .. Len(s) /\ j % 3 \in 0 .. 2
<1>1. Len(s) \in Nat
  OBVIOUS
<1>2. PartNumbers(s, at, end) \in SUBSET (3 .. (3 * Len(s) + 2))
  BY DEF PartNumbers
<1>3. IsFiniteSet(3 .. (3 * Len(s) + 2))
  BY <1>1, FS_Interval
<1>4. \A j \in 3 .. (3 * Len(s) + 2) : j \div 3 \in 1 .. Len(s) /\ j % 3 \in 0 .. 2
  BY <1>1
<1> QED
  BY <1>1, <1>2, <1>3, <1>4, FS_Subset

LEMMA ProtectedType ==
  ASSUME NEW s \in Seq(Region), NEW at \in 0 .. (Word - 1),
         NEW end \in 0 .. (Word - 1), NEW prot \in SUBSET Perm
  PROVE  Protected(s, at, end, prot) \in Seq(Region)
<1> DEFINE I == PartNumbers(s, at, end)
           t == [j \in I |-> Part(s[j \div 3], j % 3, at, end, prot)]
<1>1. I \in SUBSET Nat /\ IsFiniteSet(I)
  BY PartNumbersFinite
<1>2. ASSUME NEW r \in Region, NEW k
      PROVE  Part(r, k, at, end, prot) \in Region
  BY DEF Part, Region
<1>3. \A j \in I : s[j \div 3] \in Region
  BY PartNumbersFinite
<1>4. \A j \in I : t[j] \in Region
  BY <1>2, <1>3
<1>5. Protected(s, at, end, prot) = Pick(t, I)
  BY DEF Protected
<1> HIDE DEF I, t
<1> QED
  BY <1>1, <1>4, <1>5, PickSeq

LEMMA KeptFinite ==
  ASSUME NEW s \in Seq(Region), NEW lo, NEW hi
  PROVE  Kept(s, lo, hi) \in SUBSET Nat /\ IsFiniteSet(Kept(s, lo, hi))
<1>1. Len(s) \in Nat
  OBVIOUS
<1>2. Kept(s, lo, hi) \in SUBSET (1 .. Len(s))
  BY DEF Kept
<1>3. IsFiniteSet(1 .. Len(s))
  BY <1>1, FS_Interval
<1> QED
  BY <1>1, <1>2, <1>3, FS_Subset

LEMMA UnmappedType ==
  ASSUME NEW s \in Seq(Region), NEW lo, NEW hi
  PROVE  Unmapped(s, lo, hi) \in Seq(Region)
<1>1. \A i \in Kept(s, lo, hi) : s[i] \in Region
  BY DEF Kept
<1> QED
  BY <1>1, KeptFinite, PickSeq DEF Unmapped

-----------------------------------------------------------------------------
(* Any guest: types, and hits that are current.                            *)

\* What insert() and the kernel leave of a mapping of `got` bytes.
LEMMA RecordType ==
  ASSUME TypeOK, NEW size \in 0 .. (Word - 1), NEW got \in 0 .. (Word - 1),
         NEW prot \in Prots, NEW want, NEW fixed,
         NEW base \in Placements(want, got, fixed),
         Record(base, got, size, prot)
  PROVE  TypeOK'
<1> DEFINE r == [start |-> base, end |-> Plus(base, size), prot |-> prot]
<1>1. base \in 0 .. (Word - 1) /\ base \in Nat /\ base + got <= UserTop
  BY SizesAssumption DEF Placements
<1>2. Plus(base, size) \in 0 .. (Word - 1)
  BY <1>1, WordArithmetic
<1>3. r \in Region
  BY <1>1, <1>2, ArgumentsAssumption DEF Region
<1>4. Inserted(reg, r) \in Seq(Region)
  <2>1. reg \in Seq(Region)
    BY DEF TypeOK
  <2> HIDE DEF r
  <2> QED BY <1>3, <2>1, InsertedCopies
<1>5. reg' \in Seq(Region)
  BY <1>4 DEF Record, TypeOK
<1>6. cap' \in Nat
  BY SizesAssumption, ArgumentsAssumption DEF Record, Room, TypeOK
<1>7. host' \in SUBSET (0 .. (UserTop - 1))
  <2>1. Bytes(base, got) \in SUBSET (0 .. (UserTop - 1))
    BY <1>1, SizesAssumption DEF Bytes
  <2> QED
    BY <2>1 DEF Record, TypeOK, Munmapped
<1>8. hit' = Forgotten
  BY DEF Record, forget
<1> QED
  BY <1>5, <1>6, <1>7, <1>8, SizesAssumption DEF TypeOK, Forgotten, NoHit, Hit

LEMMA TypeInductive == TypeOK /\ [Next]_vars => TypeOK'
<1> SUFFICES ASSUME TypeOK, [Next]_vars PROVE TypeOK'
  OBVIOUS
<1>0. ASSUME hit' = Forgotten
      PROVE  hit' \in [{"R", "W"} -> [0 .. 1 -> Hit]]
  BY <1>0, SizesAssumption DEF Forgotten, NoHit, Hit
<1>1. CASE Map(FALSE)
  <2>1. PICK at \in Ats, len \in Lens, prot \in Prots, fixed \in BOOLEAN :
          rsd_as_map(at, len, prot, fixed)
    BY <1>1 DEF Map
  <2>2. /\ MapSize(at, len) \in 0 .. (Word - 1)
        /\ MapHi(at, len) \in 0 .. (Word - 1)
    BY MapRangeType
  <2> DEFINE size == MapSize(at, len)
  <2>3. CASE \E base \in Placements(MapLo(at), size, at # 0 /\ fixed) :
               Record(base, size, size, prot)
    BY <2>2, <2>3, RecordType
  <2>4. CASE \E base \in Placements(0, MapHi(at, len), FALSE) :
               Record(base, MapHi(at, len), size, prot)
    BY <2>2, <2>4, RecordType
  <2>5. CASE UNCHANGED vars
    BY <2>5 DEF vars, TypeOK
  <2> QED
    BY <2>1, <2>3, <2>4, <2>5 DEF rsd_as_map
<1>2. CASE Protect(FALSE)
  <2>1. PICK at \in Ats, len \in Lens, prot \in Prots : rsd_as_protect(at, len, prot)
    BY <1>2 DEF Protect
  <2>2. CASE UNCHANGED vars
    BY <2>2 DEF vars, TypeOK
  <2>3. CASE /\ forget /\ cap' = ProtectCap /\ UNCHANGED host
             /\ reg' = Protected(reg, at, Plus(at, len), prot)
    <3>1. at \in 0 .. (Word - 1) /\ Plus(at, len) \in 0 .. (Word - 1) /\ prot \in SUBSET Perm
      BY ArgumentsAssumption, WordArithmetic
    <3>2. reg' \in Seq(Region)
      BY <2>3, <3>1, ProtectedType DEF TypeOK
    <3>3. cap' \in Nat
      BY <2>3 DEF ProtectCap, TypeOK
    <3> QED
      BY <1>0, <2>3, <3>2, <3>3 DEF forget, TypeOK
  <2> QED
    BY <2>1, <2>2, <2>3 DEF rsd_as_protect
<1>3. CASE Unmap(FALSE)
  <2>1. PICK at \in Ats, len \in Lens : rsd_as_unmap(at, len)
    BY <1>3 DEF Unmap
  <2> DEFINE lo == PageDown(at)
             hi == UnmapHi(at, len)
  <2>2. CASE UNCHANGED vars
    BY <2>2 DEF vars, TypeOK
  <2>3. CASE /\ host' = Munmapped(host, lo, Minus(hi, lo)) /\ forget /\ UNCHANGED cap
             /\ reg' = Unmapped(reg, lo, hi)
    <3>1. reg' \in Seq(Region)
      BY <2>3, UnmappedType DEF TypeOK
    <3>2. host' \in SUBSET (0 .. (UserTop - 1))
      BY <2>3 DEF Munmapped, TypeOK
    <3> QED
      BY <1>0, <2>3, <3>1, <3>2 DEF forget, TypeOK
  <2> QED
    BY <2>1, <2>2, <2>3 DEF rsd_as_unmap
<1>4. CASE Note
  <2>1. PICK a \in 0 .. (UserTop - 1), p \in {"R", "W"} : rsd_as_note(a, p)
    BY <1>4 DEF Note
  <2> DEFINE i == find(reg, a)
             h == [lo |-> reg[i].start, lim |-> reg[i].end - reg[i].start - (Span - 1)]
  <2>2. i \in 1 .. Len(reg) /\ reg[i] \in Region
    <3>1. Len(reg) \in Nat /\ i # 0
      BY <2>1 DEF rsd_as_note, TypeOK
    <3>2. i \in 1 .. Len(reg)
      BY <3>1, FindHolds
    <3> QED
      BY <3>2 DEF TypeOK
  <2>3. h \in Hit
    BY <2>1, <2>2, SizesAssumption DEF rsd_as_note, Region, Hit
  <2>4. hit' = [hit EXCEPT ![p] = [k \in 0 .. 1 |-> IF k = 0 THEN h ELSE hit[p][0]]]
    BY <2>1 DEF rsd_as_note
  <2>5. hit' \in [{"R", "W"} -> [0 .. 1 -> Hit]]
    <3> HIDE DEF h
    <3> QED BY <2>3, <2>4 DEF TypeOK
  <2> QED
    BY <2>1, <2>5 DEF rsd_as_note, TypeOK
<1>5. CASE rsd_as_free
  <2>1. reg' = << >> /\ cap' = 0 /\ hit' = Forgotten
    BY <1>5 DEF rsd_as_free, forget
  <2>2. host' \in SUBSET (0 .. (UserTop - 1))
    BY <1>5 DEF rsd_as_free, TypeOK
  <2>3. reg' \in Seq(Region) /\ cap' \in Nat
    BY <2>1
  <2> QED
    BY <1>0, <2>1, <2>2, <2>3 DEF TypeOK
<1>6. CASE UNCHANGED vars
  BY <1>6 DEF vars, TypeOK
<1> QED
  BY <1>1, <1>2, <1>3, <1>4, <1>5, <1>6 DEF Next

\* Whatever the guest asks of the address space, its variables keep their
\* types: the operations of as.c leave a list of regions and two entries in
\* each cache.
THEOREM TypeCorrect == Spec => []TypeOK
<1>1. Init => TypeOK
  BY SizesAssumption DEF Init, TypeOK, Forgotten, NoHit, Hit
<1> QED
  BY <1>1, TypeInductive, PTL DEF Spec

LEMMA ForgottenIsCurrent == hit = Forgotten => HitsCurrent
BY DEF Forgotten, HitsCurrent, EntryCurrent

LEMMA HitsInductive == TypeOK /\ HitsCurrent /\ [Next]_vars => HitsCurrent'
<1> SUFFICES ASSUME TypeOK, HitsCurrent, [Next]_vars PROVE HitsCurrent'
  OBVIOUS
<1>1. ASSUME forget PROVE HitsCurrent'
  BY <1>1 DEF forget, Forgotten, HitsCurrent, EntryCurrent
<1>2. ASSUME UNCHANGED vars PROVE HitsCurrent'
  BY <1>2 DEF vars, HitsCurrent, EntryCurrent
<1>3. CASE Map(FALSE)
  BY <1>1, <1>2, <1>3, ZenonT(40) DEF Map, rsd_as_map, Record
<1>4. CASE Protect(FALSE)
  BY <1>1, <1>2, <1>4 DEF Protect, rsd_as_protect
<1>5. CASE Unmap(FALSE)
  BY <1>1, <1>2, <1>5 DEF Unmap, rsd_as_unmap
<1>6. CASE Note
  <2>1. PICK a \in 0 .. (UserTop - 1), p \in {"R", "W"} : rsd_as_note(a, p)
    BY <1>6 DEF Note
  <2> DEFINE i == find(reg, a)
             h == [lo |-> reg[i].start, lim |-> reg[i].end - reg[i].start - (Span - 1)]
  <2>2. i \in 1 .. Len(reg) /\ reg[i] \in Region
    <3>1. Len(reg) \in Nat /\ i # 0
      BY <2>1 DEF rsd_as_note, TypeOK
    <3>2. i \in 1 .. Len(reg)
      BY <3>1, FindHolds
    <3> QED
      BY <3>2 DEF TypeOK
  <2>3. EntryCurrent(h, p)
    BY <2>1, <2>2, SizesAssumption, SMTT(40) DEF rsd_as_note, Region, EntryCurrent
  <2>4. /\ hit' = [hit EXCEPT ![p] = [k \in 0 .. 1 |-> IF k = 0 THEN h ELSE hit[p][0]]]
        /\ reg' = reg
    BY <2>1 DEF rsd_as_note
  <2>5. ASSUME NEW q \in {"R", "W"}, NEW k \in 0 .. 1
        PROVE  EntryCurrent(hit'[q][k], q)
    <3> HIDE DEF h
    <3>1. CASE q = p /\ k = 0
      BY <2>3, <2>4, <3>1 DEF TypeOK
    <3>2. CASE q = p /\ k = 1
      BY <2>4, <3>2 DEF TypeOK, HitsCurrent
    <3>3. CASE q # p
      BY <2>4, <3>3 DEF TypeOK, HitsCurrent
    <3> QED
      BY <3>1, <3>2, <3>3
  <2>6. ASSUME NEW q \in {"R", "W"}, NEW k \in 0 .. 1
        PROVE  EntryCurrent(hit[q][k], q)'
    <3>1. EntryCurrent(hit'[q][k], q)
      BY <2>5
    <3>2. reg' = reg
      BY <2>4
    <3> QED
      BY <3>1, <3>2 DEF EntryCurrent
  <2> QED
    BY <2>6 DEF HitsCurrent
<1>7. CASE rsd_as_free
  BY <1>1, <1>7 DEF rsd_as_free
<1> QED
  BY <1>2, <1>3, <1>4, <1>5, <1>6, <1>7 DEF Next

\* Whatever the guest asks, a non-empty hit describes a region of the list as
\* it is now: "any change to the regions empties them all" (as.h).
THEOREM HitsAlwaysCurrent == Spec => []HitsCurrent
<1>1. Init => HitsCurrent
  BY ForgottenIsCurrent DEF Init
<1> QED
  BY <1>1, HitsInductive, TypeCorrect, PTL DEF Spec

-----------------------------------------------------------------------------
(* Any guest: the list fits its array.                                     *)

LEMMA IntervalSize ==
  ASSUME NEW a \in Nat, NEW n \in Nat
  PROVE  IsFiniteSet(a .. (a + n - 1)) /\ Cardinality(a .. (a + n - 1)) = n
<1> DEFINE b == a + n - 1
<1>1. b \in Int /\ a \in Int
  OBVIOUS
<1>2. n = IF a > b THEN 0 ELSE b - a + 1
  OBVIOUS
<1> HIDE DEF b
<1>3. IsFiniteSet(a .. b) /\ Cardinality(a .. b) = IF a > b THEN 0 ELSE b - a + 1
  BY <1>1, FS_Interval
<1> QED
  BY <1>2, <1>3 DEF b

LEMMA ProtectedFits ==
  ASSUME NEW s \in Seq(Region), NEW at, NEW end, NEW prot
  PROVE  Len(Protected(s, at, end, prot)) <= 3 * Len(s)
<1> DEFINE I == PartNumbers(s, at, end)
           t == [j \in I |-> Part(s[j \div 3], j % 3, at, end, prot)]
           S == {t[j] : j \in I}
<1>1. I \in SUBSET Nat /\ IsFiniteSet(I)
  BY PartNumbersFinite
<1>2. Protected(s, at, end, prot) = Pick(t, I) /\ \A j \in I : t[j] \in S
  BY DEF Protected
<1>3. Len(s) \in Nat /\ I \in SUBSET (3 .. (3 * Len(s) + 2))
  BY DEF PartNumbers
<1> HIDE DEF I, t, S
<1>4. Len(Pick(t, I)) = Cardinality(I)
  BY <1>1, <1>2, PickSeq
<1> DEFINE n == 3 * Len(s)
<1>5. n \in Nat /\ I \in SUBSET (3 .. (3 + n - 1))
  BY <1>3
<1> HIDE DEF n
<1>6. Cardinality(I) <= n
  <2>1. IsFiniteSet(3 .. (3 + n - 1)) /\ Cardinality(3 .. (3 + n - 1)) = n
    BY <1>5, IntervalSize
  <2> QED
    BY <1>5, <2>1, FS_Subset, ZenonT(40)
<1> QED
  BY <1>2, <1>4, <1>6 DEF n

LEMMA UnmappedFits ==
  ASSUME NEW s \in Seq(Region), NEW lo, NEW hi
  PROVE  Len(Unmapped(s, lo, hi)) <= Len(s)
<1>1. Len(s) \in Nat /\ Kept(s, lo, hi) \in SUBSET (1 .. Len(s))
  BY DEF Kept
<1>2. \A i \in Kept(s, lo, hi) : s[i] \in Region
  BY <1>1
<1>3. Len(Unmapped(s, lo, hi)) = Cardinality(Kept(s, lo, hi))
  BY <1>2, KeptFinite, PickSeq DEF Unmapped
<1>4. IsFiniteSet(1 .. Len(s)) /\ Cardinality(1 .. Len(s)) = Len(s)
  <2>1. 1 + Len(s) - 1 = Len(s)
    BY <1>1
  <2>2. IsFiniteSet(1 .. (1 + Len(s) - 1)) /\ Cardinality(1 .. (1 + Len(s) - 1)) = Len(s)
    BY <1>1, IntervalSize
  <2> QED
    BY <2>1, <2>2
<1> QED
  BY <1>1, <1>3, <1>4, FS_Subset

LEMMA RecordFits ==
  ASSUME TypeOK, ListFits, NEW base, NEW got, NEW size, NEW prot,
         [start |-> base, end |-> Plus(base, size), prot |-> prot] \in Region,
         Record(base, got, size, prot)
  PROVE  ListFits'
<1> DEFINE r == [start |-> base, end |-> Plus(base, size), prot |-> prot]
<1>1. reg \in Seq(Region) /\ r \in Region
  BY DEF TypeOK
<1>2. Len(Inserted(reg, r)) = Len(reg) + 1
  <2> HIDE DEF r
  <2> QED BY <1>1, InsertedCopies
<1>3. Len(reg) \in Nat /\ cap \in Nat /\ Len(reg) <= cap
  BY DEF TypeOK, ListFits
<1>4. CASE reg' = Inserted(reg, r) /\ cap' = Room
  <2>1. Len(reg) + 1 <= Room
    BY <1>3, ArgumentsAssumption DEF Room
  <2> QED
    BY <1>2, <1>4, <2>1 DEF ListFits
<1>5. CASE UNCHANGED <<reg, cap>>
  BY <1>3, <1>5 DEF ListFits
<1> QED
  BY <1>4, <1>5 DEF Record

LEMMA PlacedRegion ==
  ASSUME NEW want, NEW got, NEW fixed, NEW base \in Placements(want, got, fixed),
         NEW size \in 0 .. (Word - 1), NEW prot \in Prots
  PROVE  [start |-> base, end |-> Plus(base, size), prot |-> prot] \in Region
<1>1. base \in 0 .. (Word - 1)
  <2>1. got > 0 /\ base \in 0 .. UserTop /\ base + got <= UserTop
    BY DEF Placements
  <2>2. UserTop \in Nat /\ Word \in Nat /\ 2 * UserTop <= Word
    BY SizesAssumption
  <2>3. base >= HostPage
    BY DEF Placements
  <2> QED
    BY <2>1, <2>2, <2>3, SizesAssumption
<1>2. Plus(base, size) \in 0 .. (Word - 1)
  BY <1>1, WordArithmetic
<1> QED
  BY <1>1, <1>2, ArgumentsAssumption DEF Region

LEMMA FitsInductive == TypeOK /\ ListFits /\ [Next]_vars => ListFits'
<1> SUFFICES ASSUME TypeOK, ListFits, [Next]_vars PROVE ListFits'
  OBVIOUS
<1>1. Len(reg) \in Nat /\ cap \in Nat /\ Len(reg) <= cap /\ reg \in Seq(Region)
  BY DEF TypeOK, ListFits
<1>2. ASSUME UNCHANGED vars PROVE ListFits'
  BY <1>2 DEF vars, ListFits
<1>3. CASE Map(FALSE)
  <2>1. PICK at \in Ats, len \in Lens, prot \in Prots, fixed \in BOOLEAN :
          rsd_as_map(at, len, prot, fixed)
    BY <1>3 DEF Map
  <2> DEFINE size == MapSize(at, len)
  <2>2. size \in 0 .. (Word - 1)
    BY MapRangeType
  <2>3. CASE \E base \in Placements(MapLo(at), size, at # 0 /\ fixed) :
               Record(base, size, size, prot)
    BY <2>2, <2>3, PlacedRegion, RecordFits
  <2>4. CASE \E base \in Placements(0, MapHi(at, len), FALSE) :
               Record(base, MapHi(at, len), size, prot)
    BY <2>2, <2>4, PlacedRegion, RecordFits
  <2> QED
    BY <1>2, <2>1, <2>3, <2>4 DEF rsd_as_map
<1>4. CASE Protect(FALSE)
  <2>1. PICK at \in Ats, len \in Lens, prot \in Prots : rsd_as_protect(at, len, prot)
    BY <1>4 DEF Protect
  <2>2. CASE cap' = ProtectCap /\ reg' = Protected(reg, at, Plus(at, len), prot)
    <3>1. Len(reg') <= 3 * Len(reg)
      BY <1>1, <2>2, ProtectedFits
    <3>2. reg' \in Seq(Region)
      BY TypeInductive DEF TypeOK
    <3>3. Len(reg') \in Nat
      BY <3>2
    <3> QED
      BY <1>1, <2>2, <3>1, <3>3 DEF ProtectCap, ListFits
  <2> QED
    BY <1>2, <2>1, <2>2 DEF rsd_as_protect
<1>5. CASE Unmap(FALSE)
  <2>1. PICK at \in Ats, len \in Lens : rsd_as_unmap(at, len)
    BY <1>5 DEF Unmap
  <2>2. CASE reg' = Unmapped(reg, PageDown(at), UnmapHi(at, len)) /\ cap' = cap
    <3>1. Len(reg') <= Len(reg)
      BY <1>1, <2>2, UnmappedFits
    <3>2. reg' \in Seq(Region)
      BY TypeInductive DEF TypeOK
    <3>3. Len(reg') \in Nat
      BY <3>2
    <3> QED
      BY <1>1, <2>2, <3>1, <3>3 DEF ListFits
  <2> QED
    BY <1>2, <2>1, <2>2 DEF rsd_as_unmap
<1>6. CASE Note
  BY <1>6 DEF Note, rsd_as_note, ListFits
<1>7. CASE rsd_as_free
  <2>1. reg' = << >> /\ cap' = 0
    BY <1>7 DEF rsd_as_free
  <2> QED
    BY <2>1 DEF ListFits
<1> QED
  BY <1>2, <1>3, <1>4, <1>5, <1>6, <1>7 DEF Next

\* The region list never outgrows its array: rsd_as_protect() can write at most
\* the n * 3 + 1 regions it allocated, and insert() grows the array in time.
THEOREM ListAlwaysFits == Spec => []ListFits
<1>1. Init => ListFits
  BY DEF Init, ListFits
<1> QED
  BY <1>1, FitsInductive, TypeCorrect, PTL DEF Spec

-----------------------------------------------------------------------------
(* A tidy guest: the list describes the memory exactly.                    *)

Sound(r, bytes) ==
  r.start < r.end /\ r.end <= UserTop /\ r.start .. (r.end - 1) \subseteq bytes
Apart(r, q) == r.end <= q.start \/ q.end <= r.start
Exact(s, bytes) ==
  /\ \A i \in 1 .. Len(s) : Sound(s[i], bytes)
  /\ \A i, j \in 1 .. Len(s) : i # j => Apart(s[i], s[j])

LEMMA ExactIsTidy == Exact(reg, host) <=> RegionsDisjoint /\ RegionsHosted
BY DEF Exact, Sound, Apart, RegionsDisjoint, RegionsHosted

\* What lies inside a sound region is sound, and parts of regions that are
\* apart are apart.
LEMMA InsideSound ==
  ASSUME NEW r \in Region, NEW bytes, Sound(r, bytes), NEW q,
         q.start \in Nat, q.end \in Nat, q.start < q.end,
         r.start <= q.start, q.end <= r.end
  PROVE  Sound(q, bytes)
BY RegionBounds, SizesAssumption DEF Sound

LEMMA InsideApart ==
  ASSUME NEW r \in Region, NEW v \in Region, Apart(r, v), NEW q, NEW u,
         q.start \in Nat, q.end \in Nat, u.start \in Nat, u.end \in Nat,
         r.start <= q.start, q.end <= r.end, v.start <= u.start, u.end <= v.end
  PROVE  Apart(q, u)
BY RegionBounds DEF Apart

\* Copying some elements of a list keeps what holds of each and of each pair.
LEMMA PickExact ==
  ASSUME NEW S, NEW I \in SUBSET Nat, IsFiniteSet(I), NEW t, NEW bytes,
         \A i \in I : t[i] \in S /\ Sound(t[i], bytes),
         \A i, j \in I : i # j => Apart(t[i], t[j])
  PROVE  Exact(Pick(t, I), bytes)
<1> DEFINE n == Cardinality(I)
<1>1. PICK g \in [1 .. n -> I] :
        /\ \A k, l \in 1 .. n : g[k] = g[l] => k = l
        /\ Pick(t, I) = [k \in 1 .. n |-> t[g[k]]]
  BY PickCopies, SMTT(40)
<1>2. Len(Pick(t, I)) = n
  BY PickSeq
<1> HIDE DEF n
<1>3. ASSUME NEW k \in 1 .. n PROVE Sound(Pick(t, I)[k], bytes)
  BY <1>1
<1>4. ASSUME NEW k \in 1 .. n, NEW l \in 1 .. n, k # l
      PROVE  Apart(Pick(t, I)[k], Pick(t, I)[l])
  <2>1. g[k] \in I /\ g[l] \in I /\ g[k] # g[l]
    BY <1>1, <1>4
  <2> QED
    BY <1>1, <2>1, ZenonT(40)
<1> QED
  BY <1>2, <1>3, <1>4 DEF Exact

\* The parts of one region: inside it, not empty, apart from each other.
LEMMA PartsOfRegion ==
  ASSUME NEW r \in Region, NEW at \in Nat, NEW end \in Nat, at < end, NEW prot,
         NEW bytes, Sound(r, bytes), NEW k \in 0 .. 2, HasPart(r, k, at, end)
  PROVE  LET q == Part(r, k, at, end, prot)
         IN  /\ q.start \in Nat /\ q.end \in Nat
             /\ r.start <= q.start /\ q.start < q.end /\ q.end <= r.end
             /\ \A l \in 0 .. 2 : l # k /\ HasPart(r, l, at, end)
                  => Apart(q, Part(r, l, at, end, prot))
<1>1. r.start \in Nat /\ r.end \in Nat /\ r.start < r.end
  BY DEF Region, Sound
<1>2. /\ Part(r, 0, at, end, prot).start = r.start
      /\ Part(r, 0, at, end, prot).end = at
      /\ Part(r, 2, at, end, prot).start = end
      /\ Part(r, 2, at, end, prot).end = r.end
  BY DEF Part, Region
<1>3. Touches(r, at, end) =>
        /\ Part(r, 1, at, end, prot).start = IF r.start > at THEN r.start ELSE at
        /\ Part(r, 1, at, end, prot).end = IF r.end < end THEN r.end ELSE end
  BY DEF Part
<1>4. ~ Touches(r, at, end) => Part(r, 1, at, end, prot) = r /\ k = 1
  BY DEF Part, HasPart
<1>5. k = 0 \/ k = 1 \/ k = 2
  OBVIOUS
<1>6. \A l \in 0 .. 2 : l = 0 \/ l = 1 \/ l = 2
  OBVIOUS
<1>7. CASE ~ Touches(r, at, end)
  BY <1>1, <1>4, <1>7 DEF HasPart
<1>8. CASE Touches(r, at, end)
  <2>1. r.end > at /\ r.start < end
    BY <1>8 DEF Touches
  <2>2. HasPart(r, 0, at, end) => r.start < at
    BY DEF HasPart
  <2>3. HasPart(r, 2, at, end) => r.end > end
    BY DEF HasPart
  <2>4. CASE k = 0
    BY <1>1, <1>2, <1>3, <1>6, <1>8, <2>1, <2>2, <2>3, <2>4 DEF Apart
  <2>5. CASE k = 1
    BY <1>1, <1>2, <1>3, <1>6, <1>8, <2>1, <2>2, <2>3, <2>5 DEF Apart
  <2>6. CASE k = 2
    BY <1>1, <1>2, <1>3, <1>6, <1>8, <2>1, <2>2, <2>3, <2>6 DEF Apart
  <2> QED
    BY <1>5, <2>4, <2>5, <2>6
<1> QED
  BY <1>7, <1>8

LEMMA ProtectedExact ==
  ASSUME NEW s \in Seq(Region), NEW bytes, Exact(s, bytes),
         NEW at \in 0 .. (Word - 1), NEW end \in 0 .. (Word - 1), at < end,
         NEW prot \in SUBSET Perm
  PROVE  Exact(Protected(s, at, end, prot), bytes)
<1> DEFINE I == PartNumbers(s, at, end)
           t == [j \in I |-> Part(s[j \div 3], j % 3, at, end, prot)]
<1>1. I \in SUBSET Nat /\ IsFiniteSet(I)
  BY PartNumbersFinite
<1>2. ASSUME NEW j \in I
      PROVE  /\ j \div 3 \in 1 .. Len(s) /\ j % 3 \in 0 .. 2
             /\ s[j \div 3] \in Region /\ Sound(s[j \div 3], bytes)
             /\ HasPart(s[j \div 3], j % 3, at, end)
             /\ t[j] = Part(s[j \div 3], j % 3, at, end, prot)
  <2>1. j \div 3 \in 1 .. Len(s) /\ j % 3 \in 0 .. 2
    BY PartNumbersFinite
  <2>2. HasPart(s[j \div 3], j % 3, at, end)
    BY DEF PartNumbers
  <2>3. t[j] = Part(s[j \div 3], j % 3, at, end, prot)
    OBVIOUS
  <2> QED
    BY <2>1, <2>2, <2>3 DEF Exact
<1>3. at \in Nat /\ end \in Nat
  BY SizesAssumption
<1> HIDE DEF t
<1>4. ASSUME NEW j \in I
      PROVE  /\ t[j].start \in Nat /\ t[j].end \in Nat
             /\ s[j \div 3].start <= t[j].start /\ t[j].start < t[j].end
             /\ t[j].end <= s[j \div 3].end
  BY <1>2, <1>3, PartsOfRegion, SMTT(60)
<1>5. ASSUME NEW j \in I PROVE Sound(t[j], bytes)
  BY <1>2, <1>4, InsideSound
<1>6. ASSUME NEW j \in I, NEW l \in I, j # l PROVE Apart(t[j], t[l])
  <2>1. CASE j \div 3 = l \div 3
    <3>1. j % 3 # l % 3
      BY <1>1, <1>6, <2>1
    <3> QED
      BY <1>2, <1>3, <2>1, <3>1, PartsOfRegion
  <2>2. CASE j \div 3 # l \div 3
    <3>1. Apart(s[j \div 3], s[l \div 3])
      BY <1>2, <2>2 DEF Exact
    <3> QED
      BY <1>2, <1>4, <3>1, InsideApart, ZenonT(40)
  <2> QED
    BY <2>1, <2>2
<1>7. \A j \in I : t[j] \in {t[l] : l \in I}
  OBVIOUS
<1>8. Protected(s, at, end, prot) = Pick(t, I)
  BY DEF Protected, t
<1> HIDE DEF I
<1> QED
  BY <1>1, <1>5, <1>6, <1>7, <1>8, PickExact

\* Dropping the regions inside the range leaves the others mapped when each
\* region is inside it or untouched.
LEMMA UnmappedExact ==
  ASSUME NEW s \in Seq(Region), NEW bytes, Exact(s, bytes),
         NEW lo \in Nat, NEW hi \in Nat,
         \A i \in 1 .. Len(s) : Touches(s[i], lo, hi) => lo <= s[i].start /\ s[i].end <= hi
  PROVE  Exact(Unmapped(s, lo, hi), bytes \ (lo .. (hi - 1)))
<1> DEFINE I == Kept(s, lo, hi)
<1>1. I \in SUBSET Nat /\ IsFiniteSet(I) /\ \A i \in I : i \in 1 .. Len(s)
  BY KeptFinite DEF Kept
<1>2. ASSUME NEW i \in I PROVE Sound(s[i], bytes \ (lo .. (hi - 1)))
  <2>1. s[i] \in Region /\ Sound(s[i], bytes)
    BY <1>1 DEF Exact
  <2>2. s[i].start \in Nat /\ s[i].end \in Nat
    BY <2>1 DEF Region
  <2>3. ~ Touches(s[i], lo, hi)
    BY <1>1, <2>2 DEF Kept
  <2> QED
    BY <2>1, <2>2, <2>3 DEF Sound, Touches
<1>3. ASSUME NEW i \in I, NEW j \in I, i # j PROVE Apart(s[i], s[j])
  BY <1>1, <1>3 DEF Exact
<1>4. \A i \in I : s[i] \in Region
  BY <1>1
<1> HIDE DEF I
<1>5. Exact(Pick(s, I), bytes \ (lo .. (hi - 1)))
  BY <1>1, <1>2, <1>3, <1>4, PickExact
<1> QED
  BY <1>5 DEF Unmapped, I

LEMMA InsertedExact ==
  ASSUME NEW s \in Seq(Region), NEW bytes, Exact(s, bytes), NEW r \in Region,
         r.start < r.end, r.end <= UserTop,
         (r.start .. (r.end - 1)) \cap bytes = {}
  PROVE  Exact(Inserted(s, r), bytes \cup (r.start .. (r.end - 1)))
<1> DEFINE B == bytes \cup (r.start .. (r.end - 1))
           t == Inserted(s, r)
           n == Len(s)
<1>1. /\ Len(t) = n + 1 /\ n \in Nat
      /\ \E p \in 1 .. (n + 1) : SplicedAt(t, s, r, p)
  <2>1. n \in Nat
    OBVIOUS
  <2>2. Len(t) = n + 1
    BY InsertedCopies
  <2>3. \E p \in 1 .. (n + 1) : SplicedAt(t, s, r, p)
    BY InsertedCopies, Zenon
  <2> QED
    BY <2>1, <2>2, <2>3
<1>2. PICK p \in 1 .. (n + 1) : SplicedAt(t, s, r, p)
  BY <1>1
<1> HIDE DEF t, n
<1>3. n \in Nat /\ \A k \in 1 .. (n + 1) :
        t[k] = IF k < p THEN s[k] ELSE IF k = p THEN r ELSE s[k - 1]
  BY <1>1, <1>2 DEF SplicedAt, n
<1>4. ASSUME NEW i \in 1 .. n PROVE Sound(s[i], B) /\ Apart(s[i], r) /\ Apart(r, s[i])
  <2>1. Sound(s[i], bytes) /\ s[i] \in Region
    BY DEF Exact, n
  <2>2. /\ s[i].start \in Nat /\ s[i].end \in Nat /\ r.start \in Nat /\ r.end \in Nat
        /\ s[i].start < s[i].end
    BY <2>1, RegionBounds DEF Sound
  <2>3. Sound(s[i], B)
    BY <2>1 DEF Sound
  <2>4. CASE ~ Apart(s[i], r)
    <3> DEFINE x == IF s[i].start < r.start THEN r.start ELSE s[i].start
    <3>1. x \in s[i].start .. (s[i].end - 1) /\ x \in r.start .. (r.end - 1)
      BY <2>2, <2>4 DEF Apart
    <3>2. x \in bytes
      BY <2>1, <3>1 DEF Sound
    <3> QED
      BY <3>1, <3>2
  <2> QED
    BY <2>3, <2>4 DEF Apart
<1>5. Sound(r, B)
  BY DEF Sound
<1>6. ASSUME NEW k \in 1 .. (n + 1) PROVE Sound(t[k], B)
  <2>1. CASE k < p
    <3>1. k \in 1 .. n /\ t[k] = s[k]
      BY <1>3, <2>1
    <3> QED
      BY <1>4, <3>1
  <2>2. CASE k = p
    BY <1>3, <1>5, <2>2
  <2>3. CASE k > p
    <3>1. k - 1 \in 1 .. n /\ t[k] = s[k - 1]
      BY <1>3, <2>3
    <3> QED
      BY <1>4, <3>1
  <2> QED
    BY <1>3, <2>1, <2>2, <2>3
<1>7. ASSUME NEW k \in 1 .. (n + 1), NEW l \in 1 .. (n + 1), k # l
      PROVE  Apart(t[k], t[l])
  <2> DEFINE old(j) == IF j < p THEN j ELSE j - 1
  <2>1. CASE k = p
    <3>1. old(l) \in 1 .. n /\ t[l] = s[old(l)] /\ t[k] = r
      BY <1>3, <1>7, <2>1
    <3> QED
      BY <1>4, <3>1
  <2>2. CASE l = p
    <3>1. old(k) \in 1 .. n /\ t[k] = s[old(k)] /\ t[l] = r
      BY <1>3, <1>7, <2>2
    <3> QED
      BY <1>4, <3>1
  <2>3. CASE k # p /\ l # p
    <3>1. /\ old(k) \in 1 .. n /\ old(l) \in 1 .. n /\ old(k) # old(l)
          /\ t[k] = s[old(k)] /\ t[l] = s[old(l)]
      BY <1>3, <1>7, <2>3
    <3> QED
      BY <3>1 DEF Exact, n
  <2> QED
    BY <2>1, <2>2, <2>3
<1> QED
  BY <1>1, <1>6, <1>7 DEF Exact, t

LEMMA ExactMonotonic ==
  ASSUME NEW s, NEW bytes, NEW more, Exact(s, bytes), bytes \subseteq more
  PROVE  Exact(s, more)
BY DEF Exact, Sound

\* A mapping placed on bytes nobody uses keeps the list exact.
LEMMA RecordExact ==
  ASSUME TypeOK, Exact(reg, host), NEW base \in Nat, NEW got \in Nat,
         NEW size \in Nat, NEW prot \in Prots, 0 < size, size <= got,
         base + got <= UserTop, Bytes(base, got) \cap host = {},
         Record(base, got, size, prot)
  PROVE  Exact(reg, host)'
<1> DEFINE r == [start |-> base, end |-> base + size, prot |-> prot]
<1>1. UserTop \in Nat /\ Word \in Nat /\ UserTop < Word
  BY SizesAssumption
<1>2. Plus(base, size) = base + size
  BY <1>1 DEF Plus
<1>3. r \in Region /\ r.start = base /\ r.end = base + size
  BY <1>1, ArgumentsAssumption DEF Region
<1>4. Bytes(base, size) = r.start .. (r.end - 1) /\ Bytes(base, size) \subseteq Bytes(base, got)
  BY <1>3 DEF Bytes
<1>5. CASE /\ reg' = Inserted(reg, [start |-> base, end |-> Plus(base, size), prot |-> prot])
           /\ host' = host \cup Bytes(base, got)
  <2> HIDE DEF r
  <2>1. reg' = Inserted(reg, r)
    BY <1>2, <1>5 DEF r
  <2>2. Exact(Inserted(reg, r), host \cup (r.start .. (r.end - 1)))
    <3>1. reg \in Seq(Region)
      BY DEF TypeOK
    <3>2. r.start < r.end /\ r.end <= UserTop /\ (r.start .. (r.end - 1)) \cap host = {}
      BY <1>1, <1>3, <1>4
    <3> QED
      BY <1>3, <3>1, <3>2, InsertedExact
  <2>3. host \cup (r.start .. (r.end - 1)) \subseteq host'
    BY <1>4, <1>5
  <2> QED
    BY <2>1, <2>2, <2>3, ExactMonotonic
<1>6. CASE reg' = reg /\ host' = Munmapped(host \cup Bytes(base, got), base, size)
  <2>1. host \subseteq host'
    BY <1>4, <1>6 DEF Munmapped
  <2> QED
    BY <1>6, <2>1, ExactMonotonic
<1> QED
  BY <1>5, <1>6 DEF Record

\* The range a tidy guest asks to be mapped: not empty, and no larger than
\* its end, which is what the second mmap() is asked for.
LEMMA TidyMapRange ==
  ASSUME NEW at \in Ats, NEW len \in Lens, len # 0, at # 0, at + len + HostPage <= Word
  PROVE  MapSize(at, len) \in Nat /\ 0 < MapSize(at, len) /\ MapSize(at, len) <= MapHi(at, len)
<1>1. at \in 0 .. (Word - 1) /\ len \in 0 .. (Word - 1) /\ len \in Nat /\ HostPage \in Nat \ {0}
  BY ArgumentsAssumption, SizesAssumption
<1>2. at + len < Word /\ at + len \in 0 .. (Word - 1)
  BY <1>1, SizesAssumption
<1>3. Plus(at, len) = at + len
  BY <1>1, <1>2, WordArithmetic
<1>4. PageUp(at + len) >= at + len /\ PageUp(at + len) \in 0 .. (Word - 1)
  BY <1>2, PageRounding
<1>5. MapHi(at, len) = PageUp(at + len)
  BY <1>3 DEF MapHi
<1>6. MapLo(at) \in 0 .. at
  BY <1>1, PageRounding DEF MapLo
<1>7. MapLo(at) < MapHi(at, len) /\ MapLo(at) \in 0 .. (Word - 1) /\ MapHi(at, len) \in 0 .. (Word - 1)
  <2> DEFINE lo == MapLo(at)
             hi == MapHi(at, len)
  <2>1. lo \in 0 .. at /\ hi \in 0 .. (Word - 1) /\ hi >= at + len
    BY <1>4, <1>5, <1>6
  <2> HIDE DEF lo, hi
  <2>2. Word \in Nat /\ at \in Nat /\ at < Word /\ len \in Nat /\ len >= 1
    BY <1>1, SizesAssumption
  <2>3. lo < hi /\ lo \in 0 .. (Word - 1)
    BY <2>1, <2>2
  <2> QED
    BY <2>1, <2>3 DEF lo, hi
<1>8. Minus(MapHi(at, len), MapLo(at)) = MapHi(at, len) - MapLo(at)
  BY <1>7, WordArithmetic
<1>9. MapSize(at, len) = MapHi(at, len) - MapLo(at)
  BY <1>8 DEF MapSize
<1> QED
  BY <1>7, <1>9

LEMMA TidyInductive == TypeOK /\ Exact(reg, host) /\ [TidyNext]_vars => Exact(reg, host)'
<1> SUFFICES ASSUME TypeOK, Exact(reg, host), [TidyNext]_vars PROVE Exact(reg, host)'
  OBVIOUS
<1>0. ASSUME UNCHANGED vars PROVE Exact(reg, host)'
  BY <1>0 DEF vars
<1>1. CASE Map(TRUE)
  <2>1. PICK at \in Ats, len \in Lens, prot \in Prots, fixed \in BOOLEAN :
          TidyMap(at, len, fixed) /\ rsd_as_map(at, len, prot, fixed)
    BY <1>1 DEF Map
  <2> DEFINE size == MapSize(at, len)
  <2>2. size \in Nat /\ MapHi(at, len) \in Nat
    BY MapRangeType
  <2>3. ASSUME len # 0, NEW base \in Placements(MapLo(at), size, at # 0 /\ fixed),
               Record(base, size, size, prot)
        PROVE  Exact(reg, host)'
    <3>1. base \in Nat /\ 0 < size /\ base + size <= UserTop
      BY <2>2, SizesAssumption DEF Placements
    <3>2. Bytes(base, size) \cap host = {}
      BY <2>1 DEF Placements, TidyMap
    <3> HIDE DEF size
    <3> QED
      BY <2>2, <2>3, <3>1, <3>2, RecordExact
  <2>4. ASSUME len # 0, at # 0, NEW base \in Placements(0, MapHi(at, len), FALSE),
               Record(base, MapHi(at, len), size, prot)
        PROVE  Exact(reg, host)'
    <3>1. base \in Nat /\ base + MapHi(at, len) <= UserTop
      BY <2>2, SizesAssumption DEF Placements
    <3>2. Bytes(base, MapHi(at, len)) \cap host = {}
      BY DEF Placements
    <3>3. 0 < size /\ size <= MapHi(at, len)
      BY <2>1, <2>4, TidyMapRange DEF TidyMap
    <3> HIDE DEF size
    <3> QED
      BY <2>2, <2>4, <3>1, <3>2, <3>3, RecordExact
  <2> QED
    BY <1>0, <2>1, <2>3, <2>4 DEF rsd_as_map
<1>2. CASE Protect(TRUE)
  <2>1. PICK at \in Ats, len \in Lens, prot \in Prots :
          TidyProtect(at, len) /\ rsd_as_protect(at, len, prot)
    BY <1>2 DEF Protect
  <2>2. ASSUME len # 0, reg' = Protected(reg, at, Plus(at, len), prot), host' = host
        PROVE  Exact(reg, host)'
    <3>1. /\ at \in 0 .. (Word - 1) /\ len \in 0 .. (Word - 1) /\ prot \in SUBSET Perm
          /\ at + len < Word
      BY <2>1, ArgumentsAssumption DEF TidyProtect
    <3>2. Plus(at, len) = at + len
      BY <3>1, WordArithmetic
    <3>3. at + len \in 0 .. (Word - 1) /\ at < at + len
      BY <2>2, <3>1, SizesAssumption
    <3>4. Exact(Protected(reg, at, at + len, prot), host)
      BY <3>1, <3>3, ProtectedExact DEF TypeOK
    <3> QED
      BY <2>2, <3>2, <3>4
  <2> QED
    BY <1>0, <2>1, <2>2 DEF rsd_as_protect
<1>3. CASE Unmap(TRUE)
  <2>1. PICK at \in Ats, len \in Lens : TidyUnmap(at, len) /\ rsd_as_unmap(at, len)
    BY <1>3 DEF Unmap
  <2> DEFINE lo == PageDown(at)
             hi == UnmapHi(at, len)
  <2>2. ASSUME MunmapOK(lo, Minus(hi, lo)), reg' = Unmapped(reg, lo, hi),
               host' = Munmapped(host, lo, Minus(hi, lo))
        PROVE  Exact(reg, host)'
    <3>1. /\ at \in 0 .. (Word - 1) /\ len \in 0 .. (Word - 1) /\ HostPage \in Nat \ {0}
          /\ at + len + HostPage <= Word
      BY <2>1, ArgumentsAssumption, SizesAssumption DEF TidyUnmap
    <3>2. at + len \in 0 .. (Word - 1) /\ Plus(at, len) = at + len
      <4>1. at + len \in 0 .. (Word - 1) /\ at + len < Word
        BY <3>1, SizesAssumption
      <4> QED
        BY <3>1, <4>1, WordArithmetic
    <3>3. hi \in 0 .. (Word - 1) /\ at + len <= hi
      BY <3>1, <3>2, PageRounding DEF UnmapHi
    <3>4. lo \in 0 .. at
      BY <3>1, PageRounding
    <3> HIDE DEF lo, hi
    <3>5. lo \in Nat /\ hi \in Nat /\ lo <= hi /\ lo \in 0 .. (Word - 1)
      BY <3>1, <3>3, <3>4, SizesAssumption
    <3>6. Minus(hi, lo) = hi - lo
      BY <3>3, <3>5, WordArithmetic
    <3>7. host' = host \ (lo .. (hi - 1))
      <4>1. Bytes(lo, hi - lo) = lo .. (hi - 1)
        BY <3>5 DEF Bytes
      <4> QED
        BY <2>2, <3>6, <4>1 DEF Munmapped
    <3>8. \A i \in 1 .. Len(reg) :
            Touches(reg[i], lo, hi) => lo <= reg[i].start /\ reg[i].end <= hi
      BY <2>1 DEF TidyUnmap, lo, hi
    <3>9. Exact(Unmapped(reg, lo, hi), host \ (lo .. (hi - 1)))
      BY <3>5, <3>8, UnmappedExact DEF TypeOK
    <3> QED
      BY <2>2, <3>7, <3>9
  <2> QED
    BY <1>0, <2>1, <2>2 DEF rsd_as_unmap
<1>4. CASE Note
  BY <1>4 DEF Note, rsd_as_note
<1>5. CASE rsd_as_free
  <2>1. reg' = << >>
    BY <1>5 DEF rsd_as_free
  <2> QED
    BY <2>1 DEF Exact
<1> QED
  BY <1>0, <1>1, <1>2, <1>3, <1>4, <1>5 DEF TidyNext

LEMMA TidyIsSpec == TidySpec => Spec
<1>1. TidyNext => Next
  BY DEF TidyNext, Next, Map, Protect, Unmap
<1> QED
  BY <1>1, PTL DEF TidySpec, Spec

LEMMA TidyTyped == TidySpec => []TypeOK
BY TidyIsSpec, TypeCorrect, PTL

LEMMA TidyExact == TidySpec => []Exact(reg, host)
<1>1. Init => Exact(reg, host)
  BY DEF Init, Exact
<1> QED
  BY <1>1, TidyTyped, TidyInductive, PTL DEF TidySpec

\* For a tidy guest the regions are disjoint and not empty, whatever sequence
\* of maps, protects and unmaps runs.
THEOREM TidyRegions == TidySpec => []RegionsDisjoint
BY TidyExact, ExactIsTidy, PTL

\* For a tidy guest every byte as.c has recorded is mapped in the host: the
\* list never promises memory that is not there.
THEOREM TidyHosted == TidySpec => []RegionsHosted
BY TidyExact, ExactIsTidy, PTL

-----------------------------------------------------------------------------
(* Reading an exact list.                                                  *)

\* In an exact list at most one region holds an address, and find() finds it.
LEMMA FindOnly ==
  ASSUME NEW s \in Seq(Region), NEW bytes, Exact(s, bytes), NEW a \in Nat,
         NEW i \in 1 .. Len(s), Holds(s[i], a)
  PROVE  find(s, a) = i
<1> DEFINE f == find(s, a)
<1>0. Len(s) \in Nat
  OBVIOUS
<1>1. f # 0
  <2> DEFINE T == {x \in 1 .. Len(s) : Holds(s[x], a)}
  <2>1. T \in SUBSET Nat /\ T # {}
    BY <1>0
  <2> HIDE DEF T
  <2>2. PICK j \in T : \A y \in T : j <= y
    BY <2>1, LeastElement
  <2> USE DEF T
  <2>3. Holds(s[j], a) /\ j \in 1 .. Len(s) /\ \A y \in 1 .. (j - 1) : ~ Holds(s[y], a)
    BY <1>0, <2>2
  <2> QED
    BY <2>3 DEF find
<1>2. f \in 1 .. Len(s) /\ Holds(s[f], a)
  BY <1>0, <1>1, FindHolds
<1> HIDE DEF f
<1>3. CASE f # i
  <2>1. Apart(s[f], s[i])
    BY <1>2, <1>3 DEF Exact
  <2>2. /\ s[f].start \in Nat /\ s[f].end \in Nat /\ s[i].start \in Nat /\ s[i].end \in Nat
    BY <1>2, RegionBounds
  <2> QED
    BY <1>2, <2>1, <2>2 DEF Apart, Holds
<1> QED
  BY <1>3 DEF f

\* The reason the in-line check is sound: a current hit whose region is the
\* only one that holds the address answers as rsd_as_ok() does.
LEMMA CurrentHitIsSound == TypeOK /\ HitsCurrent /\ Exact(reg, host) => InlineSound
<1> SUFFICES ASSUME TypeOK, HitsCurrent, Exact(reg, host),
                    NEW p \in {"R", "W"}, NEW a \in Addresses, NEW n \in Widths,
                    InlineHit(p, a)
             PROVE  rsd_as_ok(reg, a, n, {p})
  BY DEF InlineSound
<1>1. PICK k \in 0 .. 1 : Minus(a, hit[p][k].lo) < hit[p][k].lim
  BY DEF InlineHit
<1> DEFINE h == hit[p][k]
<1>2. /\ a \in Nat /\ a < Word /\ n \in Nat /\ 1 <= n /\ n <= Span /\ Span \in Nat
      /\ UserTop \in Nat /\ Word \in Nat /\ 2 * UserTop <= Word
  BY SizesAssumption DEF Addresses, Widths
<1>3. h # NoHit
  BY <1>1, <1>2 DEF NoHit, Minus
<1>4. PICK i \in 1 .. Len(reg) : /\ h.lo = reg[i].start
                                 /\ h.lim = reg[i].end - reg[i].start - (Span - 1)
                                 /\ p \in reg[i].prot
  BY <1>3 DEF HitsCurrent, EntryCurrent
<1>5. /\ reg[i] \in Region /\ reg[i].start \in Nat /\ reg[i].end \in Nat
      /\ reg[i].end <= UserTop
  BY RegionBounds DEF TypeOK, Exact, Sound
<1>6. Minus(a, reg[i].start) < reg[i].end - reg[i].start - (Span - 1)
  BY <1>1, <1>4
<1> HIDE DEF h
<1>7. a >= reg[i].start /\ a + n <= reg[i].end
  BY <1>2, <1>5, <1>6, SMTT(40) DEF Minus
<1>8. Holds(reg[i], a)
  BY <1>2, <1>5, <1>7 DEF Holds
<1>9. Len(reg) \in Nat
  BY DEF TypeOK
<1>10. find(reg, a) = i
  BY <1>2, <1>8, FindOnly DEF TypeOK
<1>11. Walk(reg, a, n, {p})
  <2>1. {a} \in SUBSET (a .. (a + n - 1)) /\ a \in {a}
    BY <1>2
  <2>2. \A q \in {a} : LET x == find(reg, q)
                       IN  /\ x # 0
                           /\ {p} \subseteq reg[x].prot
                           /\ reg[x].end >= a + n \/ reg[x].end \in {a}
    BY <1>2, <1>4, <1>5, <1>7, <1>10
  <2> QED
    BY <2>1, <2>2 DEF Walk
<1>12. a + n < Word
  BY <1>2, <1>5, <1>7
<1> QED
  BY <1>11, <1>12 DEF rsd_as_ok

\* Compiled code makes the same check as the interpreter (as.h), for every
\* tidy guest: what it lets through without a call, rsd_as_ok() allows.
THEOREM InlineCheckSound == TidySpec => []InlineSound
<1>1. TidySpec => []HitsCurrent
  BY TidyIsSpec, HitsAlwaysCurrent, PTL
<1> QED
  BY <1>1, TidyTyped, TidyExact, CurrentHitIsSound, PTL

-----------------------------------------------------------------------------
(* An access of any width and place.                                       *)

\* The loop of rsd_as_ok() looks at some of the bytes only; in an exact list
\* it answers for each of them.
LEMMA WalkIsBytewise ==
  ASSUME NEW s \in Seq(Region), NEW bytes, Exact(s, bytes),
         NEW a \in Nat, NEW n \in Nat \ {0}, NEW prot
  PROVE  Walk(s, a, n, prot) <=>
           \A b \in a .. (a + n - 1) : find(s, b) # 0 /\ prot \subseteq s[find(s, b)].prot
<1>0. Len(s) \in Nat /\ \A b \in a .. (a + n - 1) : b \in Nat
  OBVIOUS
<1>1. ASSUME NEW b \in Nat, find(s, b) # 0
      PROVE  /\ find(s, b) \in 1 .. Len(s) /\ s[find(s, b)].start <= b /\ b < s[find(s, b)].end
             /\ s[find(s, b)].start \in Nat /\ s[find(s, b)].end \in Nat
  <2>1. find(s, b) \in 1 .. Len(s) /\ Holds(s[find(s, b)], b)
    BY <1>0, <1>1, FindHolds
  <2>2. s[find(s, b)] \in Region
    BY <2>1
  <2> QED
    BY <2>1, <2>2, RegionBounds DEF Holds
<1>2. ASSUME \A b \in a .. (a + n - 1) : find(s, b) # 0 /\ prot \subseteq s[find(s, b)].prot
      PROVE  Walk(s, a, n, prot)
  <2> DEFINE P == a .. (a + n - 1)
  <2>1. P \in SUBSET (a .. (a + n - 1)) /\ a \in P
    OBVIOUS
  <2>2. ASSUME NEW p \in P
        PROVE  LET i == find(s, p)
               IN  /\ i # 0
                   /\ prot \subseteq s[i].prot
                   /\ s[i].end >= a + n \/ s[i].end \in P
    <3>1. find(s, p) # 0 /\ prot \subseteq s[find(s, p)].prot
      BY <1>2
    <3>2. s[find(s, p)].end \in Nat /\ p < s[find(s, p)].end /\ p \in Nat /\ a <= p
      BY <1>0, <1>1, <3>1
    <3>3. s[find(s, p)].end >= a + n \/ s[find(s, p)].end \in P
      BY <3>2
    <3> QED
      BY <3>1, <3>3
  <2> QED
    BY <2>1, <2>2 DEF Walk
<1>3. ASSUME Walk(s, a, n, prot), NEW b \in a .. (a + n - 1)
      PROVE  find(s, b) # 0 /\ prot \subseteq s[find(s, b)].prot
  <2>1. PICK P \in SUBSET (a .. (a + n - 1)) :
          /\ a \in P
          /\ \A p \in P : /\ find(s, p) # 0
                          /\ prot \subseteq s[find(s, p)].prot
                          /\ s[find(s, p)].end >= a + n \/ s[find(s, p)].end \in P
    BY <1>3 DEF Walk
  \* The last address the loop stopped at before, or at, b.
  <2> DEFINE T == {d \in Nat : b - d \in P}
  <2>2. T \in SUBSET Nat /\ T # {}
    <3>1. b - a \in T
      BY <2>1
    <3> QED
      BY <3>1
  <2>3. PICK d \in T : \A y \in T : d <= y
    <3> HIDE DEF T
    <3> QED BY <2>2, LeastElement
  <2>4. PICK p \in P : p = b - d
    BY <2>3
  <2>5. p \in Nat /\ b \in Nat /\ p <= b /\ b < a + n
    BY <1>0, <2>1, <2>3, <2>4
  <2> DEFINE i == find(s, p)
             e == s[i].end
  <2>6. i # 0 /\ prot \subseteq s[i].prot /\ (e >= a + n \/ e \in P)
    BY <2>1
  <2>7. i \in 1 .. Len(s) /\ s[i].start <= p /\ p < e /\ s[i].start \in Nat /\ e \in Nat
    BY <1>1, <2>5, <2>6
  <2> HIDE DEF i, e
  <2>8. b < e
    <3>1. CASE e \in P /\ e <= b
      <4>1. b - e \in Nat /\ b - (b - e) = e
        BY <2>5, <2>7, <3>1
      <4>2. b - e \in T
        BY <3>1, <4>1
      <4>3. d <= b - e
        BY <2>3, <4>2
      <4> QED
        BY <2>3, <2>4, <2>5, <2>7, <4>3
    <3> QED
      BY <2>5, <2>6, <2>7, <3>1
  <2>9. Holds(s[i], b)
    BY <2>5, <2>7, <2>8 DEF Holds, e
  <2>10. find(s, b) = i
    BY <2>5, <2>7, <2>9, FindOnly
  <2> QED
    BY <2>6, <2>7, <2>10
<1> QED
  BY <1>2, <1>3

\* access_ok() on an exact list.
LEMMA AccessIsExact == TypeOK /\ Exact(reg, host) => AccessExact
<1> SUFFICES ASSUME TypeOK, Exact(reg, host),
                    NEW p \in {"R", "W"}, NEW a \in Addresses, NEW n \in 1 .. (2 * Span)
             PROVE  /\ (\A b \in a .. (a + n - 1) : find(reg, b) # 0)
                         => (access_ok(reg, a, n, {p})
                               <=> \A b \in a .. (a + n - 1) : p \in ProtAt(reg, b) /\ b \in host)
                    /\ (\A b \in a .. (a + n - 1) : find(reg, b) = 0)
                         => (access_ok(reg, a, n, {p})
                               <=> a .. (a + n - 1) \subseteq MinValid .. (MaxValid - 1))
  BY DEF AccessExact, AccessBytes
<1>0. /\ a \in Nat /\ n \in Nat \ {0} /\ reg \in Seq(Region) /\ Len(reg) \in Nat
      /\ Word \in Nat /\ UserTop \in Nat /\ 2 * UserTop <= Word
      /\ MinValid \in Nat /\ MaxValid \in Nat
  BY SizesAssumption, ValidAssumption DEF Addresses, TypeOK
<1> DEFINE Found == \A b \in a .. (a + n - 1) : find(reg, b) # 0
<1>1. Walk(reg, a, n, {}) <=> Found
  BY <1>0, WalkIsBytewise
<1>2. Walk(reg, a, n, {p}) <=>
        \A b \in a .. (a + n - 1) : find(reg, b) # 0 /\ {p} \subseteq reg[find(reg, b)].prot
  BY <1>0, WalkIsBytewise
<1>3. ASSUME NEW b \in a .. (a + n - 1), find(reg, b) # 0
      PROVE  b \in host /\ b < UserTop /\ ProtAt(reg, b) = reg[find(reg, b)].prot
  <2>1. find(reg, b) \in 1 .. Len(reg) /\ Holds(reg[find(reg, b)], b)
    BY <1>0, <1>3, FindHolds
  <2>2. Sound(reg[find(reg, b)], host) /\ reg[find(reg, b)] \in Region /\ b \in Nat
    BY <1>0, <2>1 DEF Exact
  <2>3. b \in host /\ b < UserTop
    BY <1>0, <2>1, <2>2, RegionBounds DEF Sound, Holds
  <2> QED
    BY <1>3, <2>3 DEF ProtAt
<1>4. CASE Found
  <2>1. a + n < Word
    <3>1. a + n - 1 < UserTop
      BY <1>0, <1>3, <1>4
    <3> QED
      BY <1>0, <3>1
  <2>2. rsd_as_mapped(reg, a, n)
    BY <1>1, <1>4, <2>1 DEF rsd_as_mapped
  <2>3. access_ok(reg, a, n, {p}) <=> Walk(reg, a, n, {p})
    BY <1>0, <2>1, <2>2 DEF access_ok, rsd_as_ok
  <2>4. (\A b \in a .. (a + n - 1) : p \in ProtAt(reg, b) /\ b \in host) <=> Walk(reg, a, n, {p})
    BY <1>2, <1>3, <1>4
  <2>5. ~ \A b \in a .. (a + n - 1) : find(reg, b) = 0
    <3>1. a \in a .. (a + n - 1)
      BY <1>0
    <3> QED
      BY <1>4, <3>1
  <2> QED
    BY <2>3, <2>4, <2>5
<1>5. CASE ~ Found
  <2>1. ~ rsd_as_ok(reg, a, n, {p}) /\ ~ rsd_as_mapped(reg, a, n)
    BY <1>0, <1>1, <1>2, <1>5 DEF rsd_as_ok, rsd_as_mapped
  <2>2. access_ok(reg, a, n, {p}) <=> a >= MinValid /\ a < MaxValid /\ n <= MaxValid - a
    BY <2>1 DEF access_ok
  <2>3. (a >= MinValid /\ a < MaxValid /\ n <= MaxValid - a)
          <=> a .. (a + n - 1) \subseteq MinValid .. (MaxValid - 1)
    BY <1>0, SMTT(40)
  <2> QED
    BY <1>5, <2>2, <2>3
<1> QED
  BY <1>4, <1>5

\* For every tidy guest access_ok() is exact: an access inside regions goes
\* ahead exactly when every byte has the permission, and then all its bytes
\* are there; one outside all of them exactly when it is in user space.
THEOREM AccessAlwaysExact == TidySpec => []AccessExact
BY TidyTyped, TidyExact, AccessIsExact, PTL

-----------------------------------------------------------------------------
(* What a protect changes.                                                 *)

\* Pick leaves no element out.
LEMMA PickCovers ==
  ASSUME NEW I \in SUBSET Nat, IsFiniteSet(I), NEW s
  PROVE  /\ \A k \in 1 .. Cardinality(I) : \E i \in I : Pick(s, I)[k] = s[i]
         /\ \A i \in I : \E k \in 1 .. Cardinality(I) : Pick(s, I)[k] = s[i]
<1> DEFINE n == Cardinality(I)
<1>1. PICK g \in [1 .. n -> I] :
        /\ \A k, l \in 1 .. n : g[k] = g[l] => k = l
        /\ Pick(s, I) = [k \in 1 .. n |-> s[g[k]]]
  BY PickCopies, SMTT(40)
<1>2. n \in Nat /\ IsFiniteSet(1 .. n) /\ Cardinality(1 .. n) = n
  <2>1. n \in Nat
    BY FS_CardinalityType
  <2> HIDE DEF n
  <2> QED BY <2>1, FS_Interval
<1>3. g \in Injection(1 .. n, I)
  <2> HIDE DEF n
  <2> QED BY <1>1 DEF Injection, IsInjective
<1>4. g \in Surjection(1 .. n, I)
  BY <1>2, <1>3, FS_Injection
<1> HIDE DEF n
<1>5. \A i \in I : \E k \in 1 .. n : g[k] = i
  BY <1>4 DEF Surjection
<1>6. \A k \in 1 .. n : Pick(s, I)[k] = s[g[k]] /\ g[k] \in I
  BY <1>1
<1>7. \A i \in I : \E k \in 1 .. n : Pick(s, I)[k] = s[i]
  BY <1>5, <1>6
<1> QED
  BY <1>6, <1>7 DEF n

\* An address of a region is in one of its parts, with the permission that
\* the range gives it; an address of a part is in the region.
LEMMA PartsCover ==
  ASSUME NEW r \in Region, NEW at \in Nat, NEW end \in Nat, at < end, NEW prot,
         NEW a \in Nat, Holds(r, a)
  PROVE  \E k \in 0 .. 2 : HasPart(r, k, at, end) /\ Holds(Part(r, k, at, end, prot), a)
<1>1. r.start \in Nat /\ r.end \in Nat /\ r.start <= a /\ a < r.end
  BY RegionBounds DEF Holds
<1>2. CASE ~ Touches(r, at, end)
  <2>1. HasPart(r, 1, at, end) /\ Part(r, 1, at, end, prot) = r
    BY <1>2 DEF HasPart, Part
  <2> QED
    BY <2>1
<1>3. CASE Touches(r, at, end) /\ a < at
  <2>1. HasPart(r, 0, at, end)
    BY <1>1, <1>3 DEF HasPart
  <2>2. Part(r, 0, at, end, prot).start = r.start /\ Part(r, 0, at, end, prot).end = at
    BY DEF Part, Region
  <2>3. Holds(Part(r, 0, at, end, prot), a)
    BY <1>1, <1>3, <2>2 DEF Holds
  <2> QED
    BY <2>1, <2>3
<1>4. CASE Touches(r, at, end) /\ a >= end
  <2>1. HasPart(r, 2, at, end)
    BY <1>1, <1>4 DEF HasPart
  <2>2. Part(r, 2, at, end, prot).start = end /\ Part(r, 2, at, end, prot).end = r.end
    BY DEF Part, Region
  <2>3. Holds(Part(r, 2, at, end, prot), a)
    BY <1>1, <1>4, <2>2 DEF Holds
  <2> QED
    BY <2>1, <2>3
<1>5. CASE Touches(r, at, end) /\ at <= a /\ a < end
  <2>1. HasPart(r, 1, at, end)
    BY DEF HasPart
  <2>2. /\ Part(r, 1, at, end, prot).start = IF r.start > at THEN r.start ELSE at
        /\ Part(r, 1, at, end, prot).end = IF r.end < end THEN r.end ELSE end
    BY <1>5 DEF Part
  <2>3. Holds(Part(r, 1, at, end, prot), a)
    BY <1>1, <1>5, <2>2 DEF Holds
  <2> QED
    BY <2>1, <2>3
<1> QED
  BY <1>2, <1>3, <1>4, <1>5

LEMMA PartsHold ==
  ASSUME NEW r \in Region, NEW at \in Nat, NEW end \in Nat, at < end, NEW prot,
         NEW a \in Nat, NEW k \in 0 .. 2, HasPart(r, k, at, end),
         Holds(Part(r, k, at, end, prot), a), r.start < r.end
  PROVE  /\ Holds(r, a)
         /\ Part(r, k, at, end, prot).prot = IF at <= a /\ a < end THEN prot ELSE r.prot
<1>1. r.start \in Nat /\ r.end \in Nat
  BY RegionBounds
<1>2. CASE k = 0
  <2>1. /\ Part(r, 0, at, end, prot).start = r.start /\ Part(r, 0, at, end, prot).end = at
        /\ Part(r, 0, at, end, prot).prot = r.prot
    BY DEF Part, Region
  <2>2. Touches(r, at, end) /\ r.start < at
    BY <1>2 DEF HasPart
  <2> QED
    BY <1>1, <1>2, <2>1, <2>2 DEF Holds, Touches
<1>3. CASE k = 2
  <2>1. /\ Part(r, 2, at, end, prot).start = end /\ Part(r, 2, at, end, prot).end = r.end
        /\ Part(r, 2, at, end, prot).prot = r.prot
    BY DEF Part, Region
  <2>2. Touches(r, at, end) /\ r.end > end
    BY <1>3 DEF HasPart
  <2> QED
    BY <1>1, <1>3, <2>1, <2>2 DEF Holds, Touches
<1>4. CASE k = 1 /\ Touches(r, at, end)
  <2>1. /\ Part(r, 1, at, end, prot).start = IF r.start > at THEN r.start ELSE at
        /\ Part(r, 1, at, end, prot).end = IF r.end < end THEN r.end ELSE end
        /\ Part(r, 1, at, end, prot).prot = prot
    BY <1>4 DEF Part
  <2> QED
    BY <1>1, <1>4, <2>1 DEF Holds
<1>5. CASE k = 1 /\ ~ Touches(r, at, end)
  <2>1. Part(r, 1, at, end, prot) = r
    BY <1>5 DEF Part
  <2> QED
    BY <1>1, <1>5, <2>1 DEF Holds, Touches
<1>6. k = 0 \/ k = 1 \/ k = 2
  OBVIOUS
<1> QED
  BY <1>2, <1>3, <1>4, <1>5, <1>6

\* The list after a protect is made of the parts of the regions, of all.
LEMMA ProtectedParts ==
  ASSUME NEW s \in Seq(Region), NEW at, NEW end, NEW prot,
         Protected(s, at, end, prot) \in Seq(Region)
  PROVE  /\ \A k \in 1 .. Len(Protected(s, at, end, prot)) :
              \E i \in 1 .. Len(s), l \in 0 .. 2 :
                /\ HasPart(s[i], l, at, end)
                /\ Protected(s, at, end, prot)[k] = Part(s[i], l, at, end, prot)
         /\ \A i \in 1 .. Len(s), l \in 0 .. 2 : HasPart(s[i], l, at, end) =>
              \E k \in 1 .. Len(Protected(s, at, end, prot)) :
                Protected(s, at, end, prot)[k] = Part(s[i], l, at, end, prot)
<1> DEFINE I == PartNumbers(s, at, end)
           t == [j \in I |-> Part(s[j \div 3], j % 3, at, end, prot)]
           u == Protected(s, at, end, prot)
<1>0. I \in SUBSET Nat /\ IsFiniteSet(I) /\ Len(s) \in Nat
  BY PartNumbersFinite
<1>1. u = Pick(t, I)
  BY DEF Protected
<1>2. \A j \in I : /\ j \div 3 \in 1 .. Len(s) /\ j % 3 \in 0 .. 2
                   /\ HasPart(s[j \div 3], j % 3, at, end)
                   /\ t[j] = Part(s[j \div 3], j % 3, at, end, prot)
  <2>1. \A j \in I : j \div 3 \in 1 .. Len(s) /\ j % 3 \in 0 .. 2
    BY PartNumbersFinite
  <2>2. \A j \in I : HasPart(s[j \div 3], j % 3, at, end)
    BY DEF PartNumbers
  <2> QED
    BY <2>1, <2>2
<1>3. ASSUME NEW i \in 1 .. Len(s), NEW l \in 0 .. 2, HasPart(s[i], l, at, end)
      PROVE  \E j \in I : t[j] = Part(s[i], l, at, end, prot)
  <2> DEFINE j == 3 * i + l
  <2>1. j \in 3 .. (3 * Len(s) + 2) /\ j \div 3 = i /\ j % 3 = l
    BY <1>0
  <2>2. j \in I
    BY <1>3, <2>1 DEF PartNumbers
  <2> QED
    BY <1>2, <2>1, <2>2
<1> HIDE DEF I, t
<1>4. Len(u) = Cardinality(I)
  <2>1. \A j \in I : t[j] \in {t[l] : l \in I}
    OBVIOUS
  <2>2. Len(Pick(t, I)) = Cardinality(I)
    BY <1>0, <2>1, PickSeq
  <2> QED
    BY <1>1, <2>2
<1>5. /\ \A k \in 1 .. Cardinality(I) : \E j \in I : Pick(t, I)[k] = t[j]
      /\ \A j \in I : \E k \in 1 .. Cardinality(I) : Pick(t, I)[k] = t[j]
  BY <1>0, PickCovers
<1> HIDE DEF u
<1>6. ASSUME NEW k \in 1 .. Len(u)
      PROVE  \E i \in 1 .. Len(s), l \in 0 .. 2 :
               HasPart(s[i], l, at, end) /\ u[k] = Part(s[i], l, at, end, prot)
  BY <1>1, <1>2, <1>4, <1>5, ZenonT(40)
<1>7. ASSUME NEW i \in 1 .. Len(s), NEW l \in 0 .. 2, HasPart(s[i], l, at, end)
      PROVE  \E k \in 1 .. Len(u) : u[k] = Part(s[i], l, at, end, prot)
  <2>1. PICK j \in I : t[j] = Part(s[i], l, at, end, prot)
    BY <1>3, <1>7
  <2>2. PICK k \in 1 .. Cardinality(I) : Pick(t, I)[k] = t[j]
    BY <1>5
  <2> QED
    BY <1>1, <1>4, <2>1, <2>2
<1> QED
  BY <1>6, <1>7 DEF u

LEMMA ProtectIsExact == TypeOK /\ Exact(reg, host) => ProtectExact
<1> SUFFICES ASSUME TypeOK, Exact(reg, host),
                    NEW at \in Ats, NEW len \in Lens, NEW prot \in Prots,
                    len > 0, at + len < Word, NEW a \in 0 .. (UserTop - 1)
             PROVE  LET u == Protected(reg, at, at + len, prot)
                    IN  /\ find(u, a) = 0 <=> find(reg, a) = 0
                        /\ ProtAt(u, a) = IF find(reg, a) # 0 /\ at <= a /\ a < at + len
                                          THEN prot ELSE ProtAt(reg, a)
  BY DEF ProtectExact
<1> DEFINE end == at + len
           u == Protected(reg, at, end, prot)
<1>0. /\ at \in 0 .. (Word - 1) /\ end \in 0 .. (Word - 1) /\ at < end /\ prot \in SUBSET Perm
      /\ at \in Nat /\ end \in Nat /\ a \in Nat /\ reg \in Seq(Region) /\ Len(reg) \in Nat
  BY ArgumentsAssumption, SizesAssumption DEF TypeOK
<1> HIDE DEF end
<1>1. u \in Seq(Region) /\ Len(u) \in Nat
  BY <1>0, ProtectedType
<1>2. Exact(u, host)
  BY <1>0, ProtectedExact
<1>3. /\ \A k \in 1 .. Len(u) : \E i \in 1 .. Len(reg), l \in 0 .. 2 :
           HasPart(reg[i], l, at, end) /\ u[k] = Part(reg[i], l, at, end, prot)
      /\ \A i \in 1 .. Len(reg), l \in 0 .. 2 : HasPart(reg[i], l, at, end) =>
           \E k \in 1 .. Len(u) : u[k] = Part(reg[i], l, at, end, prot)
  BY <1>0, <1>1, ProtectedParts
<1> HIDE DEF u
<1>4. ASSUME find(reg, a) # 0 PROVE find(u, a) # 0
  <2>1. PICK i \in 1 .. Len(reg) : i = find(reg, a) /\ Holds(reg[i], a)
    BY <1>0, <1>4, FindHolds
  <2>2. reg[i] \in Region
    BY <1>0
  <2>3. PICK l \in 0 .. 2 : HasPart(reg[i], l, at, end) /\ Holds(Part(reg[i], l, at, end, prot), a)
    BY <1>0, <2>1, <2>2, PartsCover
  <2>4. PICK k \in 1 .. Len(u) : u[k] = Part(reg[i], l, at, end, prot)
    BY <1>3, <2>3
  <2>5. find(u, a) = k
    BY <1>0, <1>1, <1>2, <2>3, <2>4, FindOnly
  <2> QED
    BY <1>1, <2>5
<1>5. ASSUME find(u, a) # 0
      PROVE  /\ find(reg, a) # 0
             /\ u[find(u, a)].prot = IF at <= a /\ a < end THEN prot ELSE reg[find(reg, a)].prot
  <2>1. PICK k \in 1 .. Len(u) : k = find(u, a) /\ Holds(u[k], a)
    BY <1>1, <1>5, FindHolds
  <2>2. PICK i \in 1 .. Len(reg), l \in 0 .. 2 :
          HasPart(reg[i], l, at, end) /\ u[k] = Part(reg[i], l, at, end, prot)
    BY <1>3
  <2>3. reg[i] \in Region /\ reg[i].start < reg[i].end
    BY <1>0 DEF Exact, Sound
  <2>4. /\ Holds(reg[i], a)
        /\ Part(reg[i], l, at, end, prot).prot = IF at <= a /\ a < end THEN prot ELSE reg[i].prot
    BY <1>0, <2>1, <2>2, <2>3, PartsHold, SMTT(40)
  <2>5. find(reg, a) = i
    BY <1>0, <2>4, FindOnly
  <2> QED
    BY <1>0, <2>1, <2>2, <2>4, <2>5
<1>6. ProtAt(u, a) = IF find(reg, a) # 0 /\ at <= a /\ a < end THEN prot ELSE ProtAt(reg, a)
  BY <1>4, <1>5 DEF ProtAt
<1> QED
  BY <1>4, <1>5, <1>6 DEF u, end

\* For every tidy guest rsd_as_protect() changes the bytes inside the range,
\* to the permissions asked for, and no others, whatever regions it cuts.
THEOREM ProtectAlwaysExact == TidySpec => []ProtectExact
BY TidyTyped, TidyExact, ProtectIsExact, PTL

=============================================================================
