---------------------------- MODULE LoaderProofs ----------------------------
(***************************************************************************)
(* That loading links an image right, for every well-formed image, machine  *)
(* and place in memory.                                                     *)
(***************************************************************************)
EXTENDS Loader, SequenceTheorems, WellFoundedInduction, TLAPS

-----------------------------------------------------------------------------
(* Numbers.                                                                *)

\* A non-empty set of numbers has a least element.
LEMMA LeastElement ==
  ASSUME NEW T \in SUBSET Nat, T # {}
  PROVE  \E x \in T : \A y \in T : x <= y
  <1>1. PICK x \in T : \A y \in T : ~ (<<y, x>> \in OpToRel(<, Nat))
    BY NatLessThanWellFounded, WFMin
  <1>2. \A y \in T : ~ (y < x)
    BY <1>1 DEF OpToRel
  <1> QED
    BY <1>2

\* A non-empty set of numbers below a bound has a greatest element.
LEMMA GreatestElement ==
  ASSUME NEW T \in SUBSET Nat, T # {}, NEW top \in Nat, \A y \in T : y <= top
  PROVE  \E x \in T : \A y \in T : y <= x
  <1> DEFINE D == {d \in Nat : top - d \in T}
  <1>1. D \in SUBSET Nat /\ D # {}
    <2>1. PICK y \in T : TRUE
      OBVIOUS
    <2>2. top - y \in Nat /\ top - (top - y) = y
      BY <2>1
    <2> QED BY <2>1, <2>2
  <1>2. PICK d \in D : \A e \in D : d <= e
    <2> HIDE DEF D
    <2> QED BY <1>1, LeastElement
  <1>3. ASSUME NEW y \in T PROVE y <= top - d
    <2>1. top - y \in Nat /\ top - (top - y) = y /\ y \in Nat
      OBVIOUS
    <2>2. d <= top - y
      BY <1>2, <1>3, <2>1
    <2> QED BY <1>2, <2>1, <2>2
  <1> QED BY <1>2, <1>3

-----------------------------------------------------------------------------
(* Files.                                                                  *)

\* The parts of a file have their shapes.
LEMMA FileShape ==
  ASSUME NEW f \in Images
  PROVE  /\ f.cmds \in Seq(Command) /\ Len(f.cmds) \in Nat
         /\ f.chained \in ChainInfo /\ Len(f.chained.imports) \in Nat
         /\ f.chained.starts \in Seq(SegmentStarts) /\ Len(f.chained.starts) \in Nat
  <1>1. f.cmds \in Seq(Command) /\ f.chained \in ChainInfo
    BY LoaderAssumption
  <1>2. f.chained.imports \in Seq(STRING) /\ f.chained.starts \in Seq(SegmentStarts)
    BY <1>1 DEF ChainInfo
  <1> QED BY <1>1, <1>2

\* A segment of a file is a segment command.
LEMMA SegmentShape ==
  ASSUME NEW f \in Images, NEW k \in SegmentsOf(f)
  PROVE  /\ k \in 1 .. Len(f.cmds) /\ f.cmds[k] \in SegmentCommand
         /\ f.cmds[k].vmaddr \in Nat /\ f.cmds[k].vmsize \in Nat
         /\ f.cmds[k].data \in Seq(FileCells) /\ Len(f.cmds[k].data) \in Nat
  <1>1. k \in 1 .. Len(f.cmds) /\ IsSegment(f.cmds[k])
    BY DEF SegmentsOf
  <1>2. f.cmds[k] \in Command /\ f.cmds[k].cmd = "segment"
    BY <1>1, FileShape DEF IsSegment
  <1>3. f.cmds[k] \in SegmentCommand
    BY <1>2 DEF Command
  <1>4. f.cmds[k].vmaddr \in Nat /\ f.cmds[k].vmsize \in Nat /\ f.cmds[k].data \in Seq(FileCells)
    BY <1>3 DEF SegmentCommand
  <1> QED BY <1>1, <1>3, <1>4

\* A linked cell is in one segment only.
LEMMA SegmentIs ==
  ASSUME NEW f \in Images, WellFormed(f), NEW k \in SegmentsOf(f), NEW a \in SegCells(f.cmds[k], 0)
  PROVE  SegmentAt(f, a) = f.cmds[k] /\ a \in LinkedCells(f)
  <1>1. \A j \in SegmentsOf(f) : a \in SegCells(f.cmds[j], 0) => j = k
    BY DEF WellFormed
  <1>2. (CHOOSE j \in SegmentsOf(f) : a \in SegCells(f.cmds[j], 0)) = k
    BY <1>1
  <1> QED BY <1>2 DEF SegmentAt, LinkedCells

\* What a linked cell is in the file.
LEMMA CellShape ==
  ASSUME NEW f \in Images, WellFormed(f), NEW a \in LinkedCells(f)
  PROVE  /\ a \in Nat
         /\ FileCell(f, a) \in FileCells
         /\ \E k \in SegmentsOf(f) : a \in SegCells(f.cmds[k], 0)
  <1>1. PICK k \in SegmentsOf(f) : a \in SegCells(f.cmds[k], 0)
    BY DEF LinkedCells
  <1> DEFINE s == f.cmds[k]
  <1>2. s.vmaddr \in Nat /\ s.vmsize \in Nat /\ s.data \in Seq(FileCells) /\ Len(s.data) \in Nat
    BY SegmentShape
  <1>3. SegmentAt(f, a) = s
    BY <1>1, SegmentIs
  <1> HIDE DEF s
  <1>4. a \in Nat /\ s.vmaddr <= a
    BY <1>1, <1>2 DEF SegCells, s
  <1>5. Zero \in FileCells
    BY DEF Zero, Value, FileCells
  <1>6. a - s.vmaddr < Len(s.data) => s.data[a - s.vmaddr + 1] \in FileCells
    BY <1>2, <1>4
  <1>7. FileCell(f, a) \in FileCells
    BY <1>3, <1>5, <1>6 DEF FileCell
  <1> QED BY <1>1, <1>4, <1>7

\* A packed cell knows the distance to the next one.
LEMMA PackedShape ==
  ASSUME NEW f \in Images, WellFormed(f), NEW a \in Packed(f)
  PROVE  /\ a \in LinkedCells(f) /\ a \in Nat
         /\ FileCell(f, a).kind \in {"rebase", "bind"}
         /\ FileCell(f, a).next \in Nat /\ NextOf(f, a) \in Nat
         /\ FileCell(f, a).kind = "rebase" => FileCell(f, a).target \in Nat /\ FileCell(f, a).high8 \in Nat
         /\ FileCell(f, a).kind = "bind" => FileCell(f, a).ordinal \in Nat /\ FileCell(f, a).addend \in Nat
  <1>1. a \in LinkedCells(f) /\ FileCell(f, a).kind # "value"
    BY DEF Packed
  <1>2. a \in Nat /\ FileCell(f, a) \in FileCells
    BY <1>1, CellShape
  <1> DEFINE w == FileCell(f, a)
  <1>3. \/ w \in [kind : {"rebase"}, target : Nat, high8 : Nat, next : Nat]
        \/ w \in [kind : {"bind"}, ordinal : Nat, addend : Nat, next : Nat]
    BY <1>1, <1>2 DEF FileCells
  <1> HIDE DEF w
  <1>4. /\ w.kind \in {"rebase", "bind"} /\ w.next \in Nat
        /\ w.kind = "rebase" => w.target \in Nat /\ w.high8 \in Nat
        /\ w.kind = "bind" => w.ordinal \in Nat /\ w.addend \in Nat
    BY <1>3
  <1> QED BY <1>1, <1>2, <1>4 DEF w, NextOf

-----------------------------------------------------------------------------
(* Chains.                                                                 *)

\* The pages with chains are the ones the loops of rsd_fixups() come to.
LEMMA PageShape ==
  ASSUME NEW f \in Images, NEW q \in StartPages(f)
  PROVE  \E k \in 1 .. Len(f.chained.starts) :
           \E j \in 1 .. Len(f.chained.starts[k].page_start) :
             /\ f.chained.starts[k].page_start[j] # None
             /\ q = StartPage(f, k, j) /\ q.segment = k /\ q.number = j
             /\ Len(f.chained.starts[k].page_start) \in Nat
  <1>1. PICK k \in 1 .. Len(f.chained.starts) :
          \E j \in {i \in 1 .. Len(f.chained.starts[k].page_start) :
                      f.chained.starts[k].page_start[i] # None} : q = StartPage(f, k, j)
    BY DEF StartPages
  <1>2. PICK j \in 1 .. Len(f.chained.starts[k].page_start) :
          f.chained.starts[k].page_start[j] # None /\ q = StartPage(f, k, j)
    BY <1>1
  <1>3. q.segment = k /\ q.number = j
    BY <1>2 DEF StartPage
  <1>4. f.chained.starts[k] \in SegmentStarts
    BY FileShape
  <1>5. Len(f.chained.starts[k].page_start) \in Nat
    BY <1>4 DEF SegmentStarts
  <1> QED BY <1>2, <1>3, <1>5

\* A page is known by its place in the loops.
LEMMA PageUnique ==
  ASSUME NEW f \in Images, NEW q \in StartPages(f), NEW r \in StartPages(f),
         q.segment = r.segment, q.number = r.number
  PROVE  q = r
  BY PageShape

\* The page of a packed cell, and what WellFormed says of the cell there.
LEMMA PageOfCell ==
  ASSUME NEW f \in Images, WellFormed(f), NEW a \in Packed(f), NEW q \in StartPages(f), Within(a, q)
  PROVE  /\ q.start <= a
         /\ a # q.start => \E b \in Packed(f) : Within(b, q) /\ b < a /\ NextOf(f, b) = a
         /\ FileCell(f, a).next # 0 => NextOf(f, a) \in Packed(f) /\ Within(NextOf(f, a), q)
         /\ \A r \in StartPages(f) : Within(a, r) => r = q
  BY DEF WellFormed

\* Along a chain no fixup of the page is left out between one and the next.
LEMMA NoneBetween ==
  ASSUME NEW f \in Images, WellFormed(f), NEW q \in StartPages(f),
         NEW b \in Packed(f), Within(b, q), NEW c \in Packed(f), Within(c, q),
         b < c, c < NextOf(f, b)
  PROVE  FALSE
  <1> DEFINE Skipped(x) == /\ x \in Packed(f) /\ Within(x, q)
                           /\ \E y \in Packed(f) : Within(y, q) /\ y < x /\ x < NextOf(f, y)
             T == {x \in Nat : Skipped(x)}
  <1>1. T \in SUBSET Nat /\ c \in T
    BY PackedShape
  <1>2. PICK x \in T : \A z \in T : x <= z
    <2> HIDE DEF T
    <2> QED BY <1>1, LeastElement
  <1>3. x \in Nat /\ x \in Packed(f) /\ Within(x, q)
    BY <1>2
  <1>4. PICK y \in Packed(f) : Within(y, q) /\ y < x /\ x < NextOf(f, y)
    BY <1>2
  <1>5. y \in Nat /\ NextOf(f, y) \in Nat
    BY PackedShape
  <1>6. x # q.start
    <2>1. q.start <= y
      BY <1>4, PageOfCell
    <2>2. q.start \in Nat
      BY PackedShape DEF WellFormed
    <2> QED BY <1>3, <1>4, <1>5, <2>1, <2>2
  <1>7. PICK z \in Packed(f) : Within(z, q) /\ z < x /\ NextOf(f, z) = x
    BY <1>3, <1>6, PageOfCell
  <1>8. z \in Nat
    BY PackedShape
  <1>9. z # y
    BY <1>3, <1>4, <1>5, <1>7
  <1>10. CASE y < z
    <2>1. z \in T
      BY <1>3, <1>4, <1>5, <1>7, <1>8, <1>10
    <2> QED BY <1>2, <1>3, <1>7, <1>8, <2>1
  <1>11. CASE z < y
    <2>1. y \in T
      BY <1>3, <1>4, <1>5, <1>7, <1>8, <1>11
    <2> QED BY <1>2, <1>3, <1>4, <1>5, <2>1
  <1> QED BY <1>5, <1>8, <1>9, <1>10, <1>11

\* A fixup without a next one is the last of its page.
LEMMA NoneAfter ==
  ASSUME NEW f \in Images, WellFormed(f), NEW q \in StartPages(f),
         NEW b \in Packed(f), Within(b, q), NEW c \in Packed(f), Within(c, q),
         b < c, FileCell(f, b).next = 0
  PROVE  FALSE
  <1> DEFINE T == {x \in Nat : x \in Packed(f) /\ Within(x, q) /\ b < x}
  <1>1. T \in SUBSET Nat /\ c \in T
    BY PackedShape
  <1>2. PICK x \in T : \A z \in T : x <= z
    <2> HIDE DEF T
    <2> QED BY <1>1, LeastElement
  <1>3. x \in Nat /\ x \in Packed(f) /\ Within(x, q) /\ b < x
    BY <1>2
  <1>4. b \in Nat /\ NextOf(f, b) = b
    BY PackedShape DEF NextOf
  <1>5. x # q.start
    <2>1. q.start <= b
      BY PageOfCell
    <2>2. q.start \in Nat
      BY PackedShape DEF WellFormed
    <2> QED BY <1>3, <1>4, <2>1, <2>2
  <1>6. PICK z \in Packed(f) : Within(z, q) /\ z < x /\ NextOf(f, z) = x
    BY <1>3, <1>5, PageOfCell
  <1>7. z \in Nat
    BY PackedShape
  <1>8. z # b
    BY <1>3, <1>4, <1>6
  <1>9. CASE b < z
    <2>1. z \in T
      BY <1>6, <1>7, <1>9
    <2> QED BY <1>2, <1>3, <1>6, <1>7, <2>1
  <1>10. CASE z < b
    BY <1>3, <1>6, <1>10, NoneBetween
  <1> QED BY <1>4, <1>7, <1>8, <1>9, <1>10

-----------------------------------------------------------------------------
(* The load commands: what the image record is after the first m of them.   *)

Section_ == [name : STRING, addr : Nat, size : Nat]
Recorded ==
  [segs : Seq(SegmentCommand), sects : Seq(Section_), dylibs : Seq(STRING), pref_base : Nat,
   entry_off : Nat, got_entry : BOOLEAN, has_main : BOOLEAN, fixups : BOOLEAN]

SegmentsRead(i, f, m) ==
  /\ \A k \in 1 .. Len(i.segs) : \E j \in SegmentsOf(f) : j <= m /\ i.segs[k] = f.cmds[j]
  /\ \A j \in SegmentsOf(f) : j <= m => \E k \in 1 .. Len(i.segs) : i.segs[k] = f.cmds[j]

\* Segments end somewhere, so that there is a highest end.
SegmentsBounded(i) ==
  \E top \in Nat : \A k \in 1 .. Len(i.segs) : i.segs[k].vmaddr + i.segs[k].vmsize <= top

IsText(f, j) == j \in SegmentsOf(f) /\ f.cmds[j].name = "__TEXT"
TextRead(i, f, m) ==
  /\ \A j \in 1 .. m : IsText(f, j) => i.pref_base = f.cmds[j].vmaddr
  /\ (\A j \in 1 .. m : ~ IsText(f, j)) => i.pref_base = 0

EntryRead(i, f, m) ==
  i.got_entry =>
    \E j \in EntryCommands(f) :
      /\ j <= m /\ \A l \in EntryCommands(f) : l <= m => l <= j
      /\ i.has_main <=> f.cmds[j].cmd = "main"
      /\ i.entry_off = IF f.cmds[j].cmd = "main" THEN f.cmds[j].off ELSE f.cmds[j].rip

Read(i, f, m) ==
  /\ i \in Recorded
  /\ SegmentsRead(i, f, m) /\ SegmentsBounded(i) /\ TextRead(i, f, m) /\ EntryRead(i, f, m)

\* Sections and libraries past the limit are dropped from a sequence.
LEMMA UptoShape ==
  ASSUME NEW S, NEW s \in Seq(S), NEW max \in Nat
  PROVE  Upto(s, max) \in Seq(S)
  <1> DEFINE m == IF Len(s) < max THEN Len(s) ELSE max
  <1>1. m \in Nat /\ m <= Len(s) /\ Len(s) \in Nat
    OBVIOUS
  <1> HIDE DEF m
  <1>2. \A i \in 1 .. m : s[i] \in S
    BY <1>1
  <1>3. SubSeq(s, 1, m) \in Seq(S)
    BY <1>1, <1>2, SubSeqProperties
  <1> QED BY <1>3 DEF Upto, m

\* A segment command adds its segment, and nothing else of what Read names.
LEMMA ParsedSegment ==
  ASSUME NEW f \in Images, WellFormed(f), NEW i, NEW m \in Nat, m < Len(f.cmds),
         Read(i, f, m), IsSegment(f.cmds[m + 1])
  PROVE  Read(Parsed(i, f.cmds[m + 1]), f, m + 1)
  <1> DEFINE c == f.cmds[m + 1]
             p == Parsed(i, c)
  <1>1. m + 1 \in SegmentsOf(f)
    BY FileShape DEF SegmentsOf
  <1>2. c \in SegmentCommand /\ c.vmaddr \in Nat /\ c.vmsize \in Nat
    BY <1>1, SegmentShape
  <1>3. c.sects \in Seq(Section_) /\ c.cmd = "segment"
    BY <1>2 DEF SegmentCommand, Section_
  <1>4. i \in Recorded /\ i.segs \in Seq(SegmentCommand) /\ i.sects \in Seq(Section_)
    BY DEF Read, Recorded
  <1>5. p = [i EXCEPT !.segs = Append(@, c), !.sects = Upto(@ \o c.sects, MaxSects),
                      !.pref_base = IF c.name = "__TEXT" THEN c.vmaddr ELSE @]
    BY <1>3 DEF Parsed
  <1> HIDE DEF c, p
  <1>6. Upto(i.sects \o c.sects, MaxSects) \in Seq(Section_)
    BY <1>3, <1>4, UptoShape, LoaderAssumption, ConcatProperties
  <1>7. /\ p.segs = Append(i.segs, c)
        /\ p.pref_base = IF c.name = "__TEXT" THEN c.vmaddr ELSE i.pref_base
        /\ p.got_entry = i.got_entry /\ p.has_main = i.has_main /\ p.entry_off = i.entry_off
    BY <1>4, <1>5 DEF Recorded
  <1>8. p \in Recorded
    <2>1. Append(i.segs, c) \in Seq(SegmentCommand)
      BY <1>2, <1>4
    <2>2. (IF c.name = "__TEXT" THEN c.vmaddr ELSE i.pref_base) \in Nat
      BY <1>2, <1>4 DEF Recorded
    <2> QED BY <1>4, <1>5, <1>6, <2>1, <2>2 DEF Recorded
  <1>9. /\ Len(p.segs) = Len(i.segs) + 1 /\ Len(i.segs) \in Nat
        /\ p.segs[Len(i.segs) + 1] = c /\ \A k \in 1 .. Len(i.segs) : p.segs[k] = i.segs[k]
    BY <1>2, <1>4, <1>7
  <1>10. SegmentsRead(p, f, m + 1)
    <2>1. ASSUME NEW k \in 1 .. Len(p.segs)
          PROVE  \E j \in SegmentsOf(f) : j <= m + 1 /\ p.segs[k] = f.cmds[j]
      <3>1. CASE k = Len(i.segs) + 1
        BY <1>1, <1>9, <3>1 DEF c
      <3>2. CASE k # Len(i.segs) + 1
        <4>1. k \in 1 .. Len(i.segs)
          BY <1>9, <3>2
        <4>2. PICK j \in SegmentsOf(f) : j <= m /\ i.segs[k] = f.cmds[j]
          BY <4>1 DEF Read, SegmentsRead
        <4>3. j <= m + 1
          BY <4>2 DEF SegmentsOf
        <4> QED BY <1>9, <4>1, <4>2, <4>3
      <3> QED BY <3>1, <3>2
    <2>2. ASSUME NEW j \in SegmentsOf(f), j <= m + 1
          PROVE  \E k \in 1 .. Len(p.segs) : p.segs[k] = f.cmds[j]
      <3>1. CASE j = m + 1
        BY <1>9, <3>1 DEF c
      <3>2. CASE j # m + 1
        <4>1. j <= m
          BY <2>2, <3>2 DEF SegmentsOf
        <4>2. PICK k \in 1 .. Len(i.segs) : i.segs[k] = f.cmds[j]
          BY <4>1 DEF Read, SegmentsRead
        <4> QED BY <1>9, <4>2, SMTT(40)
      <3> QED BY <3>1, <3>2
    <2> QED BY <2>1, <2>2 DEF SegmentsRead
  <1>11. SegmentsBounded(p)
    <2>1. PICK top \in Nat : \A k \in 1 .. Len(i.segs) : i.segs[k].vmaddr + i.segs[k].vmsize <= top
      BY DEF Read, SegmentsBounded
    <2>2. PICK t \in Nat : c.vmaddr + c.vmsize <= t /\ \A x \in Nat : x <= top => x <= t
      <3>1. PICK u \in Nat : u = c.vmaddr + c.vmsize
        BY <1>2
      <3>2. top + u \in Nat /\ u <= top + u /\ \A x \in Nat : x <= top => x <= top + u
        OBVIOUS
      <3> QED BY <3>1, <3>2
    <2>3. ASSUME NEW k \in 1 .. Len(p.segs) PROVE p.segs[k].vmaddr + p.segs[k].vmsize <= t
      <3>1. CASE k = Len(i.segs) + 1
        BY <1>9, <2>2, <3>1
      <3>2. CASE k # Len(i.segs) + 1
        <4>1. k \in 1 .. Len(i.segs) /\ i.segs[k] \in SegmentCommand
          BY <1>4, <1>9, <3>2
        <4>2. i.segs[k].vmaddr \in Nat /\ i.segs[k].vmsize \in Nat
          BY <4>1 DEF SegmentCommand
        <4>3. i.segs[k].vmaddr + i.segs[k].vmsize <= top
          BY <2>1, <4>1
        <4>4. i.segs[k].vmaddr + i.segs[k].vmsize <= t
          <5>1. PICK u \in Nat : u = i.segs[k].vmaddr + i.segs[k].vmsize
            BY <4>2
          <5> QED BY <2>2, <4>3, <5>1
        <4> QED BY <1>9, <4>1, <4>4
      <3> QED BY <3>1, <3>2
    <2> QED BY <2>3 DEF SegmentsBounded
  <1>12. TextRead(p, f, m + 1)
    <2>1. \A j \in 1 .. (m + 1) : j = m + 1 \/ j \in 1 .. m
      OBVIOUS
    <2>2. CASE c.name = "__TEXT"
      <3>1. \A j \in 1 .. (m + 1) : IsText(f, j) => j = m + 1
        BY <1>1, <2>2 DEF IsText, WellFormed, c
      <3>2. IsText(f, m + 1)
        BY <1>1, <2>2 DEF IsText, c
      <3> QED BY <1>7, <2>2, <3>1, <3>2 DEF TextRead, c
    <2>3. CASE c.name # "__TEXT"
      <3>1. ~ IsText(f, m + 1) /\ p.pref_base = i.pref_base
        BY <1>7, <2>3 DEF IsText, c
      <3>2. TextRead(i, f, m)
        BY DEF Read
      <3> QED BY <2>1, <3>1, <3>2 DEF TextRead
    <2> QED BY <2>2, <2>3
  <1>13. EntryRead(p, f, m + 1)
    <2>1. ASSUME p.got_entry PROVE EntryRead(p, f, m + 1)
      <3>1. PICK j \in EntryCommands(f) :
              /\ j <= m /\ \A l \in EntryCommands(f) : l <= m => l <= j
              /\ i.has_main <=> f.cmds[j].cmd = "main"
              /\ i.entry_off = IF f.cmds[j].cmd = "main" THEN f.cmds[j].off ELSE f.cmds[j].rip
        BY <1>7, <2>1 DEF Read, EntryRead
      <3>2. m + 1 \notin EntryCommands(f)
        BY <1>3 DEF EntryCommands, c
      <3>3. \A l \in EntryCommands(f) : l \in Nat
        BY FileShape DEF EntryCommands
      <3>4. j <= m + 1 /\ \A l \in EntryCommands(f) : l <= m + 1 => l <= j
        BY <3>1, <3>2, <3>3
      <3> QED BY <1>7, <3>1, <3>4 DEF EntryRead
    <2> QED BY <2>1 DEF EntryRead
  <1> QED BY <1>8, <1>10, <1>11, <1>12, <1>13 DEF Read, p, c


\* A record with the same segments and base address, after a command that is
\* no segment.
LEMMA SameSegments ==
  ASSUME NEW f \in Images, NEW i, NEW p, NEW m \in Nat, m < Len(f.cmds),
         Read(i, f, m), ~ IsSegment(f.cmds[m + 1]), p.segs = i.segs, p.pref_base = i.pref_base
  PROVE  SegmentsRead(p, f, m + 1) /\ SegmentsBounded(p) /\ TextRead(p, f, m + 1)
  <1>1. m + 1 \notin SegmentsOf(f) /\ \A j \in SegmentsOf(f) : j \in Nat
    BY FileShape DEF SegmentsOf
  <1>2. \A j \in SegmentsOf(f) : j <= m + 1 <=> j <= m
    BY <1>1
  <1>3. SegmentsRead(p, f, m + 1)
    BY <1>2 DEF Read, SegmentsRead
  <1>4. SegmentsBounded(p)
    BY DEF Read, SegmentsBounded
  <1>5. TextRead(p, f, m + 1)
    <2>1. \A j \in 1 .. (m + 1) : j = m + 1 \/ j \in 1 .. m
      OBVIOUS
    <2>2. 1 .. m \subseteq 1 .. (m + 1)
      OBVIOUS
    <2>3. ~ IsText(f, m + 1)
      BY <1>1 DEF IsText
    <2>4. TextRead(i, f, m)
      BY DEF Read
    <2> QED BY <2>1, <2>2, <2>3, <2>4 DEF TextRead
  <1> QED BY <1>3, <1>4, <1>5

\* Any other command leaves the segments, and an entry command sets the entry.
LEMMA ParsedOther ==
  ASSUME NEW f \in Images, NEW i, NEW m \in Nat, m < Len(f.cmds),
         Read(i, f, m), ~ IsSegment(f.cmds[m + 1])
  PROVE  Read(Parsed(i, f.cmds[m + 1]), f, m + 1)
  <1> DEFINE c == f.cmds[m + 1]
             p == Parsed(i, c)
             Same(x) == x.segs = i.segs /\ x.pref_base = i.pref_base
             SameEntry(x) == /\ x.got_entry = i.got_entry /\ x.has_main = i.has_main
                             /\ x.entry_off = i.entry_off
             NewEntry(x) == /\ x.has_main <=> c.cmd = "main"
                            /\ x.entry_off = IF c.cmd = "main" THEN c.off ELSE c.rip
  <1>1. c \in Command /\ m + 1 \in 1 .. Len(f.cmds)
    BY FileShape
  <1>2. i \in Recorded
    BY DEF Read
  <1>3. \A l \in EntryCommands(f) : l \in Nat
    BY FileShape DEF EntryCommands
  <1>4. CASE c.cmd = "main" \/ c.cmd = "unixthread"
    <2>1. (c.cmd = "main" => c.off \in Nat) /\ (c.cmd = "unixthread" => c.rip \in Nat)
      BY <1>1 DEF Command, SegmentCommand
    <2> HIDE DEF c
    <2>2. \/ c.cmd = "main" /\ p = [i EXCEPT !.entry_off = c.off, !.got_entry = TRUE, !.has_main = TRUE]
          \/ c.cmd = "unixthread" /\ p = [i EXCEPT !.entry_off = c.rip, !.got_entry = TRUE, !.has_main = FALSE]
      BY <1>4 DEF Parsed, IsSegment
    <2> HIDE DEF p
    <2>3. p \in Recorded /\ Same(p) /\ NewEntry(p)
      BY <1>2, <2>1, <2>2 DEF Recorded
    <2>4. m + 1 \in EntryCommands(f)
      BY <1>1, <1>4 DEF EntryCommands, c
    <2>5. EntryRead(p, f, m + 1)
      BY <1>3, <2>3, <2>4 DEF EntryRead, c
    <2>6. SegmentsRead(p, f, m + 1) /\ SegmentsBounded(p) /\ TextRead(p, f, m + 1)
      BY <2>3, SameSegments DEF p, c
    <2> QED BY <2>3, <2>5, <2>6 DEF Read, p, c
  <1>5. CASE c.cmd # "main" /\ c.cmd # "unixthread"
    <2>1. c.cmd = "dylib" => c.lib \in STRING
      BY <1>1 DEF Command, SegmentCommand
    <2> HIDE DEF c
    <2>2. \/ p = i
          \/ p = [i EXCEPT !.fixups = (c.size # 0)]
          \/ c.cmd = "dylib" /\ p = [i EXCEPT !.dylibs = Upto(Append(@, c.lib), MaxDylibs)]
      BY <1>5 DEF Parsed, c
    <2>3. c.cmd = "dylib" => Upto(Append(i.dylibs, c.lib), MaxDylibs) \in Seq(STRING)
      <3>1. i.dylibs \in Seq(STRING)
        BY <1>2 DEF Recorded
      <3>2. ASSUME c.cmd = "dylib" PROVE Append(i.dylibs, c.lib) \in Seq(STRING)
        BY <2>1, <3>1, <3>2
      <3> QED BY <3>2, UptoShape, LoaderAssumption
    <2> HIDE DEF p
    <2>4. p \in Recorded /\ Same(p) /\ SameEntry(p)
      BY <1>2, <2>2, <2>3 DEF Recorded
    <2>5. m + 1 \notin EntryCommands(f)
      BY <1>5 DEF EntryCommands, c
    <2>6. \A l \in EntryCommands(f) : l <= m + 1 <=> l <= m
      BY <1>3, <2>5
    <2>7. EntryRead(p, f, m + 1)
      <3>1. EntryRead(i, f, m)
        BY DEF Read
      <3> QED BY <2>4, <2>6, <3>1 DEF EntryRead
    <2>8. SegmentsRead(p, f, m + 1) /\ SegmentsBounded(p) /\ TextRead(p, f, m + 1)
      BY <2>4, SameSegments DEF p, c
    <2> QED BY <2>4, <2>7, <2>8 DEF Read, p, c
  <1> QED BY <1>4, <1>5

\* The base address of an image whose commands are all read is its text's.
LEMMA BaseIsText ==
  ASSUME NEW f \in Images, WellFormed(f), NEW i, Read(i, f, Len(f.cmds))
  PROVE  i.pref_base = TextOf(f) /\ TextOf(f) \in Nat
  <1>1. TextRead(i, f, Len(f.cmds)) /\ i.pref_base \in Nat
    BY DEF Read, Recorded
  <1>2. \A j : IsText(f, j) => j \in 1 .. Len(f.cmds)
    BY DEF IsText, SegmentsOf
  <1>3. CASE \E j \in SegmentsOf(f) : f.cmds[j].name = "__TEXT"
    <2>1. PICK j \in SegmentsOf(f) : j = CHOOSE k \in SegmentsOf(f) : f.cmds[k].name = "__TEXT"
      BY <1>3
    <2>2. IsText(f, j)
      BY <1>3, <2>1 DEF IsText
    <2> QED BY <1>1, <1>2, <1>3, <2>1, <2>2 DEF TextRead, TextOf
  <1>4. CASE ~ \E j \in SegmentsOf(f) : f.cmds[j].name = "__TEXT"
    <2>1. \A j : ~ IsText(f, j)
      BY <1>4 DEF IsText
    <2> QED BY <1>1, <1>4, <2>1 DEF TextRead, TextOf
  <1> QED BY <1>3, <1>4

\* The entry point is the last one the commands give.
LEMMA EntryIsLinked ==
  ASSUME NEW f \in Images, WellFormed(f), NEW i, Read(i, f, Len(f.cmds)), i.got_entry
  PROVE  /\ (IF i.has_main THEN i.pref_base + i.entry_off ELSE i.entry_off) = LinkedEntry(f)
         /\ LinkedEntry(f) \in Nat
  <1> DEFINE m == Len(f.cmds)
  <1>1. PICK j \in EntryCommands(f) :
          /\ j <= m /\ \A l \in EntryCommands(f) : l <= m => l <= j
          /\ i.has_main <=> f.cmds[j].cmd = "main"
          /\ i.entry_off = IF f.cmds[j].cmd = "main" THEN f.cmds[j].off ELSE f.cmds[j].rip
    BY DEF Read, EntryRead
  <1>2. \A l \in EntryCommands(f) : l \in Nat /\ l <= m
    BY FileShape DEF EntryCommands
  <1>3. \A k \in EntryCommands(f) : (\A l \in EntryCommands(f) : l <= k) <=> k = j
    BY <1>1, <1>2
  <1>4. LastEntry(f) = j
    BY <1>3 DEF LastEntry
  <1>5. i.pref_base = TextOf(f) /\ TextOf(f) \in Nat
    BY BaseIsText
  <1>6. i.entry_off \in Nat
    BY DEF Read, Recorded
  <1>7. LinkedEntry(f) = IF f.cmds[j].cmd = "main" THEN TextOf(f) + f.cmds[j].off ELSE f.cmds[j].rip
    BY <1>4 DEF LinkedEntry
  <1>8. i.pref_base + i.entry_off \in Nat
    BY <1>5, <1>6
  <1>9. i.has_main \/ ~ i.has_main
    OBVIOUS
  <1>10. LinkedEntry(f) = IF i.has_main THEN i.pref_base + i.entry_off ELSE i.entry_off
    BY <1>1, <1>5, <1>7
  <1> QED BY <1>6, <1>8, <1>10

-----------------------------------------------------------------------------
(* The invariant, one part for each step of loading.                       *)

\* All commands are read, and the linked cells have a place in memory.
Placed ==
  /\ Read(img, file, Len(file.cmds)) /\ img.got_entry
  /\ mem = [c \in Cell |-> mem[c]] /\ perm = [c \in Cell |-> perm[c]]
  /\ slide \in Int /\ (file.pie \/ Lo = 0 \/ slide = 0)
  /\ \A a \in LinkedCells(file) : a + slide \in Cell \ {0}

\* Cell a is in one of the first m segments.
InFirst(a, m) == \E k \in 1 .. m : a \in SegCells(img.segs[k], 0)

CopiedTo(m) ==
  \A a \in LinkedCells(file) : mem[a + slide] = IF InFirst(a, m) THEN FileCell(file, a) ELSE Zero
ProtectedTo(m) ==
  \A a \in LinkedCells(file) : InFirst(a, m) => perm[a + slide] = SegmentAt(file, a).initprot
Contents == \A a \in LinkedCells(file) : mem[a + slide] = FileCell(file, a)
Permissions == \A a \in LinkedCells(file) : perm[a + slide] = SegmentAt(file, a).initprot
EntrySet == entry = LinkedEntry(file) + slide

\* The imports and their stubs.
StubCells == stub_base .. (stub_base + Len(Chained.imports) * Stride - 1)
StubsInPlace ==
  /\ imports = [k \in 1 .. Len(Chained.imports) |-> Resolved(Chained.imports[k])]
  /\ Chained.imports # <<>> => stub_base \in Nat \ {0} /\ \A c \in StubCells : perm[c] = {"r", "x"}

\* How far the chains are followed: a page is started once the loops have come
\* to it, and one of them is current while its chain is followed.
Started(q) == q.segment < n \/ (q.segment = n /\ q.number <= page)
Current(q) == at # Idle /\ q.segment = n /\ q.number = page
Fixed(a) ==
  \E q \in StartPages(file) : Within(a, q) /\ Started(q) /\ (Current(q) => a + slide < at.addr)
Progress ==
  /\ n \in 0 .. Len(Chained.starts) /\ page \in Nat
  /\ n > 0 => /\ Chained.starts[n].format \in {"64", "64_offset"}
              /\ page <= Len(Chained.starts[n].page_start)
Following(q) ==
  /\ q.segment = n /\ q.number = page /\ at = [addr |-> at.addr, format |-> q.format]
  /\ at.addr \in Int /\ at.addr - slide \in Packed(file) /\ Within(at.addr - slide, q)
CellRight(a) ==
  IF a \in Packed(file) /\ Fixed(a)
  THEN mem[a + slide].kind = "value" /\ RightPointer(file, a, mem[a + slide])
  ELSE mem[a + slide] = FileCell(file, a)
ChainsRight ==
  /\ Progress
  /\ at # Idle => \E q \in StartPages(file) : Following(q)
  /\ \A a \in LinkedCells(file) : CellRight(a)

InCommands ==
  /\ n \in Nat /\ n <= Len(file.cmds) /\ Read(img, file, n)
  /\ mem = [c \in Cell |-> Unmapped] /\ perm = [c \in Cell |-> {}]
  /\ page = 0 /\ at = Idle
InCopy == Placed /\ n \in 0 .. Len(img.segs) /\ CopiedTo(n) /\ page = 0 /\ at = Idle
InProtect ==
  Placed /\ n \in 0 .. Len(img.segs) /\ Contents /\ ProtectedTo(n) /\ page = 0 /\ at = Idle
InFixups == Placed /\ n = 0 /\ Contents /\ Permissions /\ EntrySet /\ page = 0 /\ at = Idle
InChains == Placed /\ img.fixups /\ Permissions /\ EntrySet /\ StubsInPlace /\ ChainsRight
InLinked ==
  /\ Placed /\ EntrySet
  /\ img.fixups \/ Packed(file) = {} => \A a \in LinkedCells(file) : LinkedRight(a)

LoadInv ==
  /\ file \in Images
  /\ WellFormed(file) =>
       /\ pc = "commands" => InCommands
       /\ pc = "copy" => InCopy
       /\ pc = "protect" => InProtect
       /\ pc = "fixups" => InFixups
       /\ pc = "chains" => InChains
       /\ pc = "linked" => InLinked

-----------------------------------------------------------------------------
(* rsd_load()                                                              *)

\* The recorded segments are the segments of the file, once all are read.
LEMMA SegmentsAreRead ==
  ASSUME file \in Images, Read(img, file, Len(file.cmds))
  PROVE  /\ Len(img.segs) \in Nat
         /\ \A k \in 1 .. Len(img.segs) : \E j \in SegmentsOf(file) : img.segs[k] = file.cmds[j]
         /\ \A j \in SegmentsOf(file) : \E k \in 1 .. Len(img.segs) : img.segs[k] = file.cmds[j]
         /\ \A k \in 1 .. Len(img.segs) :
              /\ img.segs[k].vmaddr \in Nat /\ img.segs[k].vmsize \in Nat
              /\ img.segs[k].vmaddr + img.segs[k].vmsize \in Nat
  <1>1. \A j \in SegmentsOf(file) : j \in Nat /\ j <= Len(file.cmds)
    BY FileShape DEF SegmentsOf
  <1>2. img.segs \in Seq(SegmentCommand)
    BY DEF Read, Recorded
  <1>3. \A k \in 1 .. Len(img.segs) : \E j \in SegmentsOf(file) : img.segs[k] = file.cmds[j]
    BY DEF Read, SegmentsRead
  <1>4. \A j \in SegmentsOf(file) : \E k \in 1 .. Len(img.segs) : img.segs[k] = file.cmds[j]
    BY <1>1 DEF Read, SegmentsRead
  <1>5. ASSUME NEW k \in 1 .. Len(img.segs)
        PROVE  /\ img.segs[k].vmaddr \in Nat /\ img.segs[k].vmsize \in Nat
               /\ img.segs[k].vmaddr + img.segs[k].vmsize \in Nat
    BY <1>3, SegmentShape
  <1>6. Len(img.segs) \in Nat
    BY <1>2
  <1> QED BY <1>3, <1>4, <1>5, <1>6, Zenon

\* The span that is mapped holds all linked cells.
LEMMA Span ==
  ASSUME file \in Images, Read(img, file, Len(file.cmds)), Len(img.segs) > 0
  PROVE  Lo \in Nat /\ Hi \in Nat /\ \A a \in LinkedCells(file) : a \in Nat /\ Lo <= a /\ a < Hi
  <1> DEFINE K == 1 .. Len(img.segs)
             A == {img.segs[k].vmaddr : k \in K}
             B == {img.segs[k].vmaddr + img.segs[k].vmsize : k \in K}
  <1>1. 1 \in K
    BY SegmentsAreRead
  <1>2. A \in SUBSET Nat /\ A # {} /\ B \in SUBSET Nat /\ B # {}
    <2>1. \A k \in K : img.segs[k].vmaddr \in Nat /\ img.segs[k].vmaddr + img.segs[k].vmsize \in Nat
      BY SegmentsAreRead
    <2>2. img.segs[1].vmaddr \in A /\ img.segs[1].vmaddr + img.segs[1].vmsize \in B
      BY <1>1
    <2>3. A \in SUBSET Nat
      BY <2>1
    <2>4. B \in SUBSET Nat
      BY <2>1
    <2> QED BY <2>2, <2>3, <2>4
  <1>3. PICK top \in Nat : \A y \in B : y <= top
    BY DEF Read, SegmentsBounded
  <1>4. Lo \in A /\ \A k \in K : Lo <= img.segs[k].vmaddr
    <2>1. \E x \in A : \A y \in A : x <= y
      <3> HIDE DEF A
      <3> QED BY <1>2, LeastElement
    <2>2. \E x \in A : \A k \in K : x <= img.segs[k].vmaddr
      BY <2>1
    <2> QED BY <2>2 DEF Lo
  <1>5. Hi \in B /\ \A k \in K : Hi >= img.segs[k].vmaddr + img.segs[k].vmsize
    <2>1. \E x \in B : \A y \in B : y <= x
      <3> HIDE DEF B
      <3> QED BY <1>2, <1>3, GreatestElement
    <2>2. PICK x \in B : \A k \in K : img.segs[k].vmaddr + img.segs[k].vmsize <= x
      BY <2>1
    <2>3. x \in Nat
      BY <1>2
    <2>4. \A k \in K : x >= img.segs[k].vmaddr + img.segs[k].vmsize
      BY <2>2, <2>3, SegmentsAreRead
    <2> QED BY <2>4 DEF Hi
  <1>6. Lo \in Nat /\ Hi \in Nat
    <2> HIDE DEF A, B
    <2> QED BY <1>2, <1>4, <1>5
  <1>7. ASSUME NEW a \in LinkedCells(file) PROVE a \in Nat /\ Lo <= a /\ a < Hi
    <2>1. PICK j \in SegmentsOf(file) : a \in SegCells(file.cmds[j], 0)
      BY DEF LinkedCells
    <2>2. PICK k \in K : img.segs[k] = file.cmds[j]
      BY SegmentsAreRead
    <2>3. PICK x \in Nat, y \in Nat : x = img.segs[k].vmaddr /\ y = img.segs[k].vmsize
      BY SegmentsAreRead
    <2>4. a \in x .. (x + y - 1)
      BY <2>1, <2>2, <2>3 DEF SegCells
    <2>5. Lo <= x /\ Hi >= x + y
      BY <1>4, <1>5, <2>3
    <2>6. PICK lo \in Nat, hi \in Nat : lo = Lo /\ hi = Hi
      BY <1>6
    <2>7. lo <= x /\ hi >= x + y
      BY <2>5, <2>6
    <2>8. a \in Nat /\ lo <= a /\ a < hi
      BY <2>4, <2>7
    <2> QED BY <2>6, <2>8
  <1> QED BY <1>6, <1>7

\* A command is read.
LEMMA LoadCommandStep ==
  ASSUME file \in Images, WellFormed(file), InCommands, LoadCommand, pc' = "commands"
  PROVE  InCommands'
  <1>1. n \in Nat /\ n < Len(file.cmds) /\ Len(file.cmds) \in Nat
    BY FileShape DEF InCommands, LoadCommand
  <1>2. pc' # "failed"
    OBVIOUS
  <1>3. /\ img' = Parsed(img, file.cmds[n + 1]) /\ n' = n + 1
        /\ UNCHANGED <<file, mem, perm, page, at>>
    BY <1>2 DEF LoadCommand, Fail
  <1>4. Read(img', file, n + 1)
    BY <1>1, <1>3, ParsedSegment, ParsedOther DEF InCommands
  <1>5. Read(img, file, n)'
    BY <1>3, <1>4
  <1>6. n' \in Nat /\ n' <= Len(file'.cmds)
    BY <1>1, <1>3
  <1> QED BY <1>3, <1>5, <1>6 DEF InCommands

\* The lowest address is a matter of the record.
LEMMA LoStays == ASSUME img' = img PROVE Lo' = Lo
  BY DEF Lo

\* The image is given a place, of zeroed memory.
LEMMA PlaceStep ==
  ASSUME file \in Images, WellFormed(file), InCommands, Place
  PROVE  InCopy'
  <1>1. Read(img, file, Len(file.cmds)) /\ Len(img.segs) > 0 /\ img.got_entry
    BY DEF InCommands, Place, Parsing, Loadable
  <1>2. Lo \in Nat /\ Hi \in Nat /\ \A a \in LinkedCells(file) : a \in Nat /\ Lo <= a /\ a < Hi
    BY <1>1, Span
  <1>3. UNCHANGED <<file, img, page, at>> /\ n' = 0
    BY DEF Place
  <1>4. PICK base \in Cell \ {0} :
          (~ file.pie /\ Lo # 0 => base = Lo) /\ Map(base, Hi - Lo, {"r", "w"}) /\ slide' = base - Lo
    BY DEF Place
  <1>5. base \in Nat /\ base + (Hi - Lo) <= Top /\ Top \in Nat
    BY <1>4, LoaderAssumption DEF Map, Free, Cell
  <1>6. slide' \in Int /\ (file.pie \/ Lo = 0 \/ slide' = 0)
    BY <1>2, <1>4, <1>5
  <1>7. ASSUME NEW a \in LinkedCells(file)
        PROVE  a + slide' \in Cell \ {0} /\ a + slide' \in base .. (base + (Hi - Lo) - 1)
    BY <1>2, <1>4, <1>5 DEF Cell
  <1>8. mem' = [c \in Cell |-> IF c \in base .. (base + (Hi - Lo) - 1) THEN Zero ELSE mem[c]]
    BY <1>4 DEF Map
  <1>9. perm' = [c \in Cell |-> IF c \in base .. (base + (Hi - Lo) - 1) THEN {"r", "w"} ELSE perm[c]]
    BY <1>4 DEF Map
  <1>10. mem' = [c \in Cell |-> mem'[c]] /\ perm' = [c \in Cell |-> perm'[c]]
    BY <1>8, <1>9
  <1>11. \A a \in LinkedCells(file) : mem'[a + slide'] = Zero
    BY <1>7, <1>8
  <1>12. Placed'
    <2>1. Lo' = Lo
      BY <1>3, LoStays
    <2> QED BY <1>1, <1>3, <1>6, <1>7, <1>10, <2>1 DEF Placed
  <1>13. CopiedTo(0)'
    BY <1>3, <1>11 DEF CopiedTo, InFirst
  <1>14. 0 \in 0 .. Len(img.segs)
    BY <1>1, SegmentsAreRead
  <1> QED BY <1>3, <1>12, <1>13, <1>14 DEF InCopy, InCommands

\* What the next segment adds.
LEMMA InNext ==
  ASSUME NEW a, NEW m \in Nat
  PROVE  InFirst(a, m + 1) <=> InFirst(a, m) \/ a \in SegCells(img.segs[m + 1], 0)
  <1>1. \A k : k \in 1 .. (m + 1) <=> k \in 1 .. m \/ k = m + 1
    OBVIOUS
  <1> QED BY <1>1 DEF InFirst

\* Every linked cell is in one of the segments.
LEMMA InAll ==
  ASSUME file \in Images, Read(img, file, Len(file.cmds)), NEW a \in LinkedCells(file)
  PROVE  InFirst(a, Len(img.segs))
  <1>1. PICK j \in SegmentsOf(file) : a \in SegCells(file.cmds[j], 0)
    BY DEF LinkedCells
  <1>2. PICK k \in 1 .. Len(img.segs) : img.segs[k] = file.cmds[j]
    BY SegmentsAreRead
  <1> QED BY <1>1, <1>2 DEF InFirst

\* A segment's contents, and nothing else of the image, is what one copy writes.
LEMMA CopySegmentStep ==
  ASSUME file \in Images, WellFormed(file), InCopy, CopySegment
  PROVE  InCopy'
  <1> DEFINE s == img.segs[n + 1]
             to == s.vmaddr + slide
  <1>1. Placed /\ n \in Nat /\ n < Len(img.segs) /\ Len(img.segs) \in Nat /\ CopiedTo(n)
    BY SegmentsAreRead DEF InCopy, CopySegment, Placed
  <1>2. UNCHANGED <<file, img, perm, slide, page, at>> /\ n' = n + 1
    BY DEF CopySegment
  <1>3. mem' = [c \in Cell |-> IF c \in to .. (to + Len(s.data) - 1) THEN s.data[c - to + 1] ELSE mem[c]]
    BY DEF CopySegment
  <1>4. PICK j \in SegmentsOf(file) : s = file.cmds[j]
    <2>1. n + 1 \in 1 .. Len(img.segs)
      BY <1>1
    <2> QED BY <1>1, <2>1, SegmentsAreRead DEF Placed
  <1>5. /\ s.vmaddr \in Nat /\ s.vmsize \in Nat /\ Len(s.data) \in Nat /\ Len(s.data) <= s.vmsize
        /\ slide \in Int
    BY <1>1, <1>4, SegmentShape DEF WellFormed, Placed
  <1>6. PICK v \in Nat, size \in Nat, len \in Nat, t \in Int :
          v = s.vmaddr /\ size = s.vmsize /\ len = Len(s.data) /\ t = to
    <2>1. to \in Int
      BY <1>5
    <2> HIDE DEF s, to
    <2> QED BY <1>5, <2>1
  <1>7a. slide \in Int /\ len <= size /\ t = v + slide
    BY <1>5, <1>6
  <1>7b. mem' = [c \in Cell |-> IF c \in t .. (t + len - 1) THEN s.data[c - t + 1] ELSE mem[c]]
    BY <1>3, <1>6
  <1>7. ASSUME NEW a \in LinkedCells(file)
        PROVE  mem'[a + slide] = IF InFirst(a, n + 1) THEN FileCell(file, a) ELSE Zero
    <2>1. a \in Nat /\ a + slide \in Cell
      BY <1>1, CellShape DEF Placed
    <2>2. mem'[a + slide] = IF a + slide \in t .. (t + len - 1) THEN s.data[a + slide - t + 1] ELSE mem[a + slide]
      <3>1. PICK x \in Cell : x = a + slide
        BY <2>1
      <3>2. mem'[x] = IF x \in t .. (t + len - 1) THEN s.data[x - t + 1] ELSE mem[x]
        BY <1>7b, Zenon
      <3>3. x \in Int /\ x = a + slide /\ a \in Int /\ slide \in Int
        BY <1>7a, <2>1, <3>1 DEF Cell
      <3> HIDE DEF s
      <3> QED BY <3>2, <3>3
    <2>3. mem[a + slide] = IF InFirst(a, n) THEN FileCell(file, a) ELSE Zero
      BY <1>1 DEF CopiedTo
    <2>4. a \in SegCells(s, 0) <=> v <= a /\ a <= v + size - 1
      BY <1>6, <2>1 DEF SegCells
    <2>5. a + slide \in t .. (t + len - 1) <=> v <= a /\ a <= v + len - 1
      BY <1>7a, <2>1
    <2>6. a + slide - t + 1 = a - v + 1
      BY <1>7a, <2>1
    <2>7. CASE a \in SegCells(s, 0)
      <3>1. SegmentAt(file, a) = s /\ InFirst(a, n + 1)
        BY <1>1, <1>4, <2>7, SegmentIs, InNext
      <3>2. FileCell(file, a) = IF a - v < len THEN s.data[a - v + 1] ELSE Zero
        BY <1>6, <3>1 DEF FileCell
      <3>3. a - v < len <=> v <= a /\ a <= v + len - 1
        BY <2>1, <2>4, <2>7
      <3> QED BY <2>2, <2>3, <2>5, <2>6, <3>1, <3>2, <3>3
    <2>8. CASE a \notin SegCells(s, 0)
      <3>1. InFirst(a, n + 1) <=> InFirst(a, n)
        BY <1>1, <2>8, InNext
      <3>2. ~ (v <= a /\ a <= v + len - 1)
        BY <1>7a, <2>1, <2>4, <2>8
      <3> QED BY <2>2, <2>3, <2>5, <3>1, <3>2
    <2> QED BY <2>7, <2>8
  <1>8. mem' = [c \in Cell |-> mem'[c]]
    BY <1>3
  <1>9. Placed'
    BY <1>1, <1>2, <1>8, LoStays DEF Placed
  <1>10. CopiedTo(n)'
    BY <1>2, <1>7 DEF CopiedTo, InFirst
  <1>11. n' \in 0 .. Len(img'.segs)
    BY <1>1, <1>2
  <1> QED BY <1>2, <1>9, <1>10, <1>11 DEF InCopy

\* After the last of them, the image is as in the file.
LEMMA CopyEndStep ==
  ASSUME file \in Images, WellFormed(file), InCopy, CopyEnd
  PROVE  InProtect'
  <1>1. Placed /\ CopiedTo(Len(img.segs)) /\ page = 0 /\ at = Idle
    BY DEF InCopy, CopyEnd
  <1>2. UNCHANGED <<file, img, mem, perm, slide, page, at>> /\ n' = 0
    BY DEF CopyEnd
  <1>3. Contents
    BY <1>1, InAll DEF CopiedTo, Contents, Placed
  <1>4. ProtectedTo(0)
    BY DEF ProtectedTo, InFirst
  <1>5. 0 \in 0 .. Len(img.segs)
    BY <1>1, SegmentsAreRead DEF Placed
  <1>6. Placed' /\ Contents' /\ ProtectedTo(n)'
    BY <1>1, <1>2, <1>3, <1>4, LoStays DEF Placed, Contents, ProtectedTo, InFirst
  <1> QED BY <1>1, <1>2, <1>5, <1>6 DEF InProtect

\* One rsd_as_protect() sets the permissions of one segment.
LEMMA ProtectSegmentStep ==
  ASSUME file \in Images, WellFormed(file), InProtect, ProtectSegment
  PROVE  InProtect'
  <1> DEFINE s == img.segs[n + 1]
  <1>1. Placed /\ n \in Nat /\ n < Len(img.segs) /\ Len(img.segs) \in Nat /\ ProtectedTo(n)
    BY SegmentsAreRead DEF InProtect, ProtectSegment, Placed
  <1>2. UNCHANGED <<file, img, mem, slide, page, at>> /\ n' = n + 1
    BY DEF ProtectSegment
  <1>3. perm' = [c \in Cell |-> IF c \in SegCells(s, slide) THEN s.initprot ELSE perm[c]]
    BY DEF ProtectSegment
  <1>4. PICK j \in SegmentsOf(file) : s = file.cmds[j]
    <2>1. n + 1 \in 1 .. Len(img.segs)
      BY <1>1
    <2> QED BY <1>1, <2>1, SegmentsAreRead DEF Placed
  <1>5. s.vmaddr \in Nat /\ s.vmsize \in Nat /\ slide \in Int
    BY <1>1, <1>4, SegmentShape DEF Placed
  <1>6. ASSUME NEW a \in LinkedCells(file), InFirst(a, n + 1)
        PROVE  perm'[a + slide] = SegmentAt(file, a).initprot
    <2>1. a \in Nat /\ a + slide \in Cell
      BY <1>1, CellShape DEF Placed
    <2>2. a + slide \in SegCells(s, slide) <=> a \in SegCells(s, 0)
      BY <1>5, <2>1 DEF SegCells
    <2>3. CASE a \in SegCells(s, 0)
      <3>1. SegmentAt(file, a) = s
        BY <1>4, <2>3, SegmentIs
      <3> QED BY <1>3, <2>1, <2>2, <2>3, <3>1
    <2>4. CASE a \notin SegCells(s, 0)
      <3>1. InFirst(a, n)
        BY <1>1, <1>6, <2>4, InNext
      <3> QED BY <1>1, <1>3, <2>1, <2>2, <2>4, <3>1 DEF ProtectedTo
    <2> QED BY <2>3, <2>4
  <1>7. perm' = [c \in Cell |-> perm'[c]]
    BY <1>3
  <1>8. Placed'
    BY <1>1, <1>2, <1>7, LoStays DEF Placed
  <1>9. ProtectedTo(n)'
    BY <1>2, <1>6 DEF ProtectedTo, InFirst
  <1>10. n' \in 0 .. Len(img'.segs)
    BY <1>1, <1>2
  <1> QED BY <1>2, <1>8, <1>9, <1>10 DEF InProtect, Contents

\* The entry point moves with the image.
LEMMA ProtectEndStep ==
  ASSUME file \in Images, WellFormed(file), InProtect, ProtectEnd
  PROVE  InFixups'
  <1>1. Placed /\ Contents /\ ProtectedTo(Len(img.segs)) /\ page = 0 /\ at = Idle
    BY DEF InProtect, ProtectEnd
  <1>2. UNCHANGED <<file, img, mem, perm, slide, page, at>> /\ n' = 0 /\ entry' = Entry(img)
    BY DEF ProtectEnd
  <1>3. Permissions
    BY <1>1, InAll DEF ProtectedTo, Permissions, Placed
  <1>4. Entry(img) = LinkedEntry(file) + slide
    BY <1>1, EntryIsLinked DEF Entry, Placed
  <1>5. Placed' /\ Contents' /\ Permissions' /\ EntrySet'
    BY <1>1, <1>2, <1>3, <1>4, LoStays DEF Placed, Contents, Permissions, EntrySet
  <1> QED BY <1>1, <1>2, <1>5 DEF InFixups

-----------------------------------------------------------------------------
(* rsd_fixups()                                                            *)

\* What a pointer has to be depends on the image's place, its imports and their
\* stubs, and on no other state.
LEMMA PointersStay ==
  ASSUME UNCHANGED <<file, img, perm, slide, imports, stub_base>>, NEW a
  PROVE  \A w : RightPointer(file, a, w)' <=> RightPointer(file, a, w)
  <1>1. fns' = fns /\ \A x : rsd_stub_index(x)' = rsd_stub_index(x)
    BY DEF fns, rsd_stub_index
  <1>2. \A x : Loaded(x)' <=> Loaded(x)
    BY DEF Loaded
  <1> QED BY <1>1, <1>2 DEF RightPointer

\* Without fixups the image is linked as it is.
LEMMA NoFixupsStep ==
  ASSUME file \in Images, WellFormed(file), InFixups, NoFixups
  PROVE  InLinked'
  <1>1. UNCHANGED <<n, file, img, mem, perm, slide, entry, imports, stub_base, page, at>> /\ ~ img.fixups
    BY DEF NoFixups
  <1>2. ASSUME Packed(file) = {}, NEW a \in LinkedCells(file)
        PROVE  mem[a + slide] = FileCell(file, a) /\ perm[a + slide] = SegmentAt(file, a).initprot
    BY DEF InFixups, Contents, Permissions
  <1>3. ASSUME (img.fixups \/ Packed(file) = {})'
        PROVE  (\A a \in LinkedCells(file) : LinkedRight(a))'
    BY <1>1, <1>2, <1>3 DEF LinkedRight
  <1> QED BY <1>1, <1>3, LoStays DEF InLinked, InFixups, Placed, EntrySet

\* The segment and page numbers of a page.
LEMMA PageNumbers ==
  ASSUME file \in Images, NEW q \in StartPages(file)
  PROVE  /\ q.segment \in 1 .. Len(Chained.starts) /\ Len(Chained.starts) \in Nat
         /\ Len(Chained.starts[q.segment].page_start) \in Nat
         /\ q.number \in 1 .. Len(Chained.starts[q.segment].page_start)
         /\ Chained.starts[q.segment].page_start[q.number] # None
         /\ q = StartPage(file, q.segment, q.number)
  BY PageShape, FileShape, SMTT(40) DEF Chained

\* A linked cell is mapped as long as it is as in the file.
LEMMA FileCellMapped ==
  ASSUME file \in Images, WellFormed(file), Placed, NEW a \in LinkedCells(file),
         mem[a + slide] = FileCell(file, a)
  PROVE  rsd_as_mapped(a + slide)
  <1>1. FileCell(file, a) \in FileCells
    BY CellShape
  <1>2. FileCell(file, a).kind \in {"value", "rebase", "bind"}
    BY <1>1 DEF FileCells
  <1>3. FileCell(file, a) # Unmapped
    BY <1>2 DEF Unmapped
  <1> QED BY <1>3 DEF rsd_as_mapped, Placed

\* The stubs get memory that the image does not have, and no chain is started.
LEMMA ResolveStep ==
  ASSUME file \in Images, WellFormed(file), InFixups, Resolve
  PROVE  InChains'
  <1>1. Placed /\ n = 0 /\ Contents /\ Permissions /\ EntrySet /\ page = 0 /\ at = Idle /\ img.fixups
    BY DEF InFixups, Resolve
  <1>2. /\ imports' = [k \in 1 .. Len(Chained.imports) |-> Resolved(Chained.imports[k])]
        /\ UNCHANGED <<n, file, img, slide, entry, page, at>>
    BY DEF Resolve
  <1> DEFINE Kept(m, p) ==
        /\ m = [c \in Cell |-> m[c]] /\ p = [c \in Cell |-> p[c]]
        /\ \A a \in LinkedCells(file) : m[a + slide] = mem[a + slide] /\ p[a + slide] = perm[a + slide]
      Stubs(p, b) == b \in Nat \ {0} /\ \A c \in b .. (b + Len(Chained.imports) * Stride - 1) : p[c] = {"r", "x"}
  <1>3. Kept(mem', perm') /\ (Chained.imports # <<>> => Stubs(perm', stub_base'))
    <2>1. CASE Chained.imports = <<>>
      <3>1. UNCHANGED <<mem, perm>>
        BY <2>1 DEF Resolve
      <3> QED BY <1>1, <2>1, <3>1 DEF Placed
    <2>2. CASE Chained.imports # <<>>
      <3>1. PICK base \in Cell \ {0} : Map(base, Len(Chained.imports) * Stride, {"r", "x"}) /\ stub_base' = base
        BY <2>2 DEF Resolve
      <3>2. PICK size \in Nat : size = Len(Chained.imports) * Stride
        BY FileShape, LoaderAssumption DEF Chained
      <3> DEFINE R == base .. (base + size - 1)
      <3>3. /\ mem' = [c \in Cell |-> IF c \in R THEN Zero ELSE mem[c]]
            /\ perm' = [c \in Cell |-> IF c \in R THEN {"r", "x"} ELSE perm[c]]
            /\ base + size <= Top /\ \A c \in R : ~ rsd_as_mapped(c)
        BY <3>1, <3>2 DEF Map, Free
      <3>4. base \in Nat \ {0} /\ R \subseteq Cell
        BY <3>1, <3>3, LoaderAssumption DEF Cell
      <3> HIDE DEF R
      <3>5. ASSUME NEW a \in LinkedCells(file)
            PROVE  mem'[a + slide] = mem[a + slide] /\ perm'[a + slide] = perm[a + slide]
        <4>1. rsd_as_mapped(a + slide) /\ a + slide \in Cell
          BY <1>1, FileCellMapped DEF Contents, Placed
        <4>2. a + slide \notin R
          BY <3>3, <4>1
        <4> QED BY <3>3, <4>1, <4>2
      <3>6. Kept(mem', perm')
        BY <3>3, <3>5
      <3>7. \A c \in R : perm'[c] = {"r", "x"}
        BY <3>3, <3>4
      <3>8. Stubs(perm', stub_base')
        BY <3>1, <3>2, <3>4, <3>7 DEF R
      <3> QED BY <3>6, <3>8
    <2> QED BY <2>1, <2>2
  <1>4. Placed'
    BY <1>1, <1>2, <1>3, LoStays DEF Placed
  <1>5. Permissions' /\ EntrySet' /\ img'.fixups
    BY <1>1, <1>2, <1>3 DEF Permissions, EntrySet
  <1>6. StubsInPlace'
    <2>1. \A x : Resolved(x)' = Resolved(x)
      BY <1>2 DEF Resolved, Loaded
    <2> QED BY <1>2, <1>3, <2>1 DEF StubsInPlace, StubCells, Chained
  <1>7. Progress'
    BY <1>1, <1>2, FileShape DEF Progress, Chained
  <1>8. ASSUME NEW a \in LinkedCells(file)
        PROVE  mem'[a + slide] = FileCell(file, a) /\ ~ Fixed(a)'
    <2>1. \A q \in StartPages(file) : ~ Started(q)'
      BY <1>1, <1>2, PageNumbers DEF Started
    <2> QED BY <1>1, <1>2, <1>3, <2>1 DEF Contents, Fixed
  <1>9. (\A a \in LinkedCells(file) : CellRight(a))'
    BY <1>2, <1>8 DEF CellRight
  <1>10. ChainsRight'
    BY <1>1, <1>2, <1>7, <1>9 DEF ChainsRight
  <1> QED BY <1>4, <1>5, <1>6, <1>10 DEF InChains

\* A step of the loops that writes no cell and leaves the same fixups done.
LEMMA LoopStep ==
  ASSUME InChains, UNCHANGED <<file, img, mem, perm, slide, entry, imports, stub_base>>,
         Progress', at' # Idle => \E q \in StartPages(file) : Following(q)',
         \A a \in Packed(file) : Fixed(a)' <=> Fixed(a)
  PROVE  InChains'
  <1>1. Placed' /\ Permissions' /\ EntrySet' /\ img'.fixups
    BY LoStays DEF InChains, Placed, Permissions, EntrySet
  <1>2. StubsInPlace'
    <2>1. \A x : Resolved(x)' = Resolved(x)
      BY DEF Resolved, Loaded
    <2> QED BY <2>1 DEF InChains, StubsInPlace, StubCells, Chained
  <1>3. ASSUME NEW a \in LinkedCells(file) PROVE CellRight(a)'
    <2>1. CellRight(a)
      BY DEF InChains, ChainsRight
    <2>2. \A w : RightPointer(file, a, w)' <=> RightPointer(file, a, w)
      BY PointersStay
    <2> QED BY <2>1, <2>2 DEF CellRight
  <1>4. ChainsRight'
    BY <1>3 DEF ChainsRight
  <1> QED BY <1>1, <1>2, <1>4 DEF InChains

\* The next segment: all pages of the last one have been started.
LEMMA StartSegmentStep ==
  ASSUME file \in Images, WellFormed(file), InChains, StartSegment, pc' = "chains"
  PROVE  InChains'
  <1>1. /\ n' = n + 1 /\ page' = 0 /\ Chained.starts[n + 1].format \in {"64", "64_offset"}
        /\ UNCHANGED <<file, img, mem, perm, slide, entry, imports, stub_base, at>>
    BY DEF StartSegment, Fail
  <1>2. /\ at = Idle /\ n < Len(Chained.starts) /\ n \in Nat /\ page \in Nat /\ Len(Chained.starts) \in Nat
        /\ n > 0 => page = Len(Chained.starts[n].page_start)
    BY FileShape DEF StartSegment, PagesEnd, InChains, ChainsRight, Progress, Chained
  <1>3. Progress'
    <2>1. Chained.starts[n + 1] \in SegmentStarts
      BY <1>2, FileShape DEF Chained
    <2>2. Len(Chained.starts[n + 1].page_start) \in Nat
      BY <2>1 DEF SegmentStarts
    <2>3. n + 1 \in 0 .. Len(Chained.starts)
      BY <1>2
    <2> QED BY <1>1, <2>2, <2>3 DEF Progress, Chained
  <1>4. ASSUME NEW q \in StartPages(file) PROVE Started(q)' <=> Started(q)
    <2>1. /\ q.segment \in Nat /\ q.number \in Nat /\ q.number # 0
          /\ q.segment = n => n > 0 /\ q.number <= Len(Chained.starts[n].page_start)
      BY PageNumbers, <1>2
    <2> QED BY <1>1, <1>2, <2>1 DEF Started
  <1>5. ~ Current(1) /\ \A q : ~ Current(q) /\ ~ Current(q)'
    BY <1>1, <1>2 DEF Current
  <1>6. \A a \in Packed(file) : Fixed(a)' <=> Fixed(a)
    BY <1>1, <1>4, <1>5 DEF Fixed
  <1> QED BY <1>1, <1>2, <1>3, <1>6, LoopStep

\* A page has an address.
LEMMA PageAtIs ==
  ASSUME NEW s, s.offset \in Nat, NEW j \in Nat
  PROVE  PageAt(s, j + 1) \in Int
  <1>1. PICK z \in Int : z = j + 1 - 1
    OBVIOUS
  <1>2. PICK x \in Int, c \in Int : x = s.offset /\ c = PageCells
    BY LoaderAssumption
  <1>3. PageAt(s, j + 1) = x + z * c
    BY <1>1, <1>2 DEF PageAt
  <1>4. x + z * c \in Int
    OBVIOUS
  <1> QED BY <1>3, <1>4

\* The next page: its chain, if it has one, begins at the first of its fixups.
LEMMA StartChainStep ==
  ASSUME file \in Images, WellFormed(file), InChains, StartChain
  PROVE  InChains'
  <1> DEFINE s == Chained.starts[n]
             start == s.page_start[page + 1]
  <1>1. /\ page' = page + 1
        /\ at' = IF start = None THEN Idle
                 ELSE [addr |-> img.pref_base + slide + PageAt(s, page + 1) + start, format |-> s.format]
        /\ UNCHANGED <<n, file, img, mem, perm, slide, entry, imports, stub_base>>
    BY DEF StartChain
  <1>2. /\ at = Idle /\ n \in 1 .. Len(Chained.starts) /\ page \in Nat /\ Len(Chained.starts) \in Nat
        /\ page < Len(s.page_start) /\ s.format \in {"64", "64_offset"}
    BY FileShape DEF StartChain, InChains, ChainsRight, Progress, Chained
  <1>3. s \in SegmentStarts
    BY <1>2, FileShape DEF Chained
  <1>4. s.offset \in Nat /\ s.page_start \in Seq(Nat \cup {None}) /\ Len(s.page_start) \in Nat
    BY <1>3 DEF SegmentStarts
  <1>5. page + 1 \in 1 .. Len(s.page_start)
    BY <1>2, <1>4
  <1>6. Progress'
    BY <1>1, <1>2, <1>4 DEF Progress, Chained
  <1>7. ASSUME NEW q \in StartPages(file), ~ (q.segment = n /\ q.number = page + 1)
        PROVE  Started(q)' <=> Started(q)
    <2>1. q.segment \in Nat /\ q.number \in Nat
      BY PageNumbers
    <2> QED BY <1>1, <1>2, <1>7, <2>1 DEF Started
  <1>8. \A q : ~ Current(q)
    BY <1>2 DEF Current
  <1>9. CASE start = None
    <2>1. \A q \in StartPages(file) : ~ (q.segment = n /\ q.number = page + 1)
      BY <1>9, PageNumbers
    <2>2. \A q : ~ Current(q)'
      BY <1>1, <1>9 DEF Current, Idle
    <2>3. \A a \in Packed(file) : Fixed(a)' <=> Fixed(a)
      BY <1>1, <1>7, <1>8, <2>1, <2>2 DEF Fixed
    <2>4. at' = Idle
      BY <1>1, <1>9
    <2> QED BY <1>1, <1>6, <2>3, <2>4, LoopStep
  <1>10. CASE start # None
    <2>1. PICK r \in StartPages(file) : r = StartPage(file, n, page + 1)
      BY <1>2, <1>5, <1>10 DEF StartPages, Chained
    <2>2. /\ r.segment = n /\ r.number = page + 1 /\ r.format = s.format
          /\ r.start = TextOf(file) + PageAt(s, page + 1) + start
      BY <2>1 DEF StartPage, Chained
    <2>3. r.start \in Packed(file) /\ Within(r.start, r) /\ r.start \in Nat
      BY <2>1, PackedShape DEF WellFormed
    <2>4. img.pref_base = TextOf(file) /\ TextOf(file) \in Nat /\ slide \in Int
      BY BaseIsText DEF InChains, Placed
    <2>5. PageAt(s, page + 1) \in Int /\ start \in Int
      <3>1. start \in Nat
        BY <1>4, <1>5, <1>10
      <3> QED BY <1>2, <1>4, <3>1, PageAtIs
    <2>6. at'.addr = r.start + slide /\ at' = [addr |-> at'.addr, format |-> r.format]
      <3>1. PICK x \in Int, y \in Int : x = PageAt(s, page + 1) /\ y = start
        BY <2>5
      <3>2. PICK t \in Int : t = TextOf(file)
        BY <2>4
      <3>3. at' = [addr |-> t + slide + x + y, format |-> s.format]
        BY <1>1, <1>10, <2>4, <3>1, <3>2
      <3>4. t + slide + x + y = t + x + y + slide /\ r.start = t + x + y
        BY <2>2, <2>4, <3>1, <3>2
      <3> QED BY <2>2, <3>3, <3>4
    <2>7. at'.addr \in Int /\ at'.addr - slide = r.start
      BY <2>3, <2>4, <2>6
    <2>8. Following(r)'
      BY <1>1, <2>2, <2>3, <2>6, <2>7 DEF Following
    <2>9. ASSUME NEW q \in StartPages(file), q.segment = n, q.number = page + 1 PROVE q = r
      BY <2>1, <2>2, <2>9, PageUnique
    <2>10. ASSUME NEW a \in Packed(file) PROVE Fixed(a)' <=> Fixed(a)
      <3>1. ASSUME NEW q \in StartPages(file), q # r
            PROVE  /\ Started(q)' <=> Started(q)
                   /\ ~ Current(q) /\ ~ Current(q)'
        BY <1>1, <1>7, <1>8, <2>9, <3>1 DEF Current
      <3>2. ~ Started(r)
        BY <1>2, <2>2 DEF Started
      <3>3. Within(a, r) => ~ (Current(r) => a + slide < at.addr)'
        <4>1. ASSUME Within(a, r) PROVE ~ (a + slide < at'.addr)
          <5>1. r.start <= a /\ a \in Nat
            BY <2>1, <4>1, PageOfCell, PackedShape
          <5> QED BY <2>3, <2>4, <2>6, <5>1
        <4>2. Current(r)'
          BY <1>1, <1>2, <2>2, <2>6 DEF Current, Idle
        <4> QED BY <1>1, <4>1, <4>2
      <3> QED BY <1>1, <2>1, <3>1, <3>2, <3>3 DEF Fixed
    <2> QED BY <1>1, <1>6, <2>1, <2>8, <2>10, LoopStep
  <1> QED BY <1>9, <1>10

\* The stub of an import is among the stubs, and its addresses divide to it.
LEMMA StubPlace ==
  ASSUME NEW len \in Nat, NEW k \in Nat, k < len, NEW d \in Nat, d < Stride
  PROVE  k * Stride + d \in Nat /\ k * Stride + d < len * Stride /\ (k * Stride + d) \div Stride = k
  <1>1. PICK s \in Nat \ {0} : s = Stride
    BY LoaderAssumption
  <1>2. PICK e \in Nat : len = k + 1 + e
    <2>1. len - (k + 1) \in Nat /\ len = k + 1 + (len - (k + 1))
      OBVIOUS
    <2> QED BY <2>1
  <1>3. k * s \in Nat /\ e * s \in Nat /\ d < s
    BY <1>1
  <1>4. len * s = k * s + s + e * s
    BY <1>2
  <1>5. k * s + d \in Nat /\ k * s + d < len * s
    BY <1>3, <1>4
  <1>6. (k * s + d) \div s = k
    BY <1>3
  <1> QED BY <1>1, <1>5, <1>6

\* What is known of an import, once all are resolved.
LEMMA ImportIs ==
  ASSUME file \in Images, StubsInPlace, NEW k \in Nat, k < Len(Chained.imports)
  PROVE  /\ Len(imports) = Len(Chained.imports)
         /\ imports[k + 1] = Resolved(Chained.imports[k + 1])
         /\ fns[k + 1] = IF imports[k + 1].is_code THEN imports[k + 1].native ELSE 0
  <1>1. Len(Chained.imports) \in Nat /\ k + 1 \in 1 .. Len(Chained.imports)
    BY FileShape DEF Chained
  <1>2. imports = [j \in 1 .. Len(Chained.imports) |-> Resolved(Chained.imports[j])]
    BY DEF StubsInPlace
  <1>3. Len(imports) = Len(Chained.imports)
    BY <1>1, <1>2
  <1>4. imports[k + 1] = Resolved(Chained.imports[k + 1])
    BY <1>1, <1>2
  <1> QED BY <1>1, <1>3, <1>4 DEF fns

\* A bind becomes an address at which the engine finds the import, or the
\* address of its data.
LEMMA BoundRight ==
  ASSUME file \in Images, WellFormed(file), StubsInPlace, NEW a \in Packed(file),
         FileCell(file, a).kind = "bind"
  PROVE  Bound(FileCell(file, a)).kind = "value" /\ RightPointer(file, a, Bound(FileCell(file, a)))
  <1> DEFINE w == FileCell(file, a)
             sym == Chained.imports[w.ordinal + 1]
  <1>1. w.ordinal \in Nat /\ w.addend \in Nat /\ w.kind # "rebase"
    BY PackedShape
  <1>2. Len(imports) = Len(Chained.imports) /\ Len(Chained.imports) \in Nat
    <2>1. Len(Chained.imports) \in Nat
      BY FileShape DEF Chained
    <2> QED BY <2>1 DEF StubsInPlace
  <1> HIDE DEF w
  <1>3. CASE w.ordinal >= Len(Chained.imports)
    <2>1. Bound(w) = Zero
      BY <1>2, <1>3 DEF Bound
    <2>2. Zero.kind = "value"
      BY DEF Zero, Value
    <2> QED BY <1>1, <1>3, <2>1, <2>2 DEF RightPointer, Chained, w
  <1>4. CASE ~ (w.ordinal >= Len(Chained.imports))
    <2>1. PICK k \in Nat : k = w.ordinal
      BY <1>1
    <2>2. k < Len(Chained.imports)
      BY <1>2, <1>4, <2>1
    <2>3. /\ imports[k + 1] = Resolved(sym)
          /\ fns[k + 1] = IF imports[k + 1].is_code THEN imports[k + 1].native ELSE 0
      BY <2>1, <2>2, ImportIs
    <2>4. Bound(w) = Value((IF imports[k + 1].native # 0 /\ ~ imports[k + 1].is_code
                            THEN imports[k + 1].native ELSE Stub(k)) + w.addend)
      BY <1>2, <1>4, <2>1 DEF Bound
    <2>5. \A v : Value(v).kind = "value" /\ Value(v).addr = v
      BY DEF Value
    <2> HIDE DEF sym
    <2>6. CASE Loaded(sym) /\ ~ Symbols[sym].code
      <3>1. Symbols[sym].addr \in Nat /\ Symbols[sym].addr # 0
        BY <2>6, LoaderAssumption DEF Loaded
      <3>2. imports[k + 1].native = Symbols[sym].addr /\ ~ imports[k + 1].is_code
        BY <2>3, <2>6 DEF Resolved
      <3>3. Bound(w) = Value(Symbols[sym].addr + w.addend)
        BY <2>4, <3>1, <3>2
      <3> QED BY <1>1, <1>4, <2>5, <2>6, <3>3 DEF RightPointer, Chained, w, sym
    <2>7. CASE ~ (Loaded(sym) /\ ~ Symbols[sym].code)
      <3>1. imports[k + 1].is_code /\ imports[k + 1].native = IF Loaded(sym) THEN Symbols[sym].addr ELSE 0
        BY <2>3, <2>7 DEF Resolved
      <3>2. Bound(w) = Value(Stub(k) + w.addend)
        BY <2>4, <3>1
      <3>3. fns[k + 1] = IF Loaded(sym) THEN Symbols[sym].addr ELSE 0
        BY <2>3, <3>1
      <3>4. ASSUME w.addend < Stride
            PROVE  rsd_stub_index(Stub(k) + w.addend) = k /\ perm[Stub(k) + w.addend] = {"r", "x"}
        <4>1. Chained.imports # <<>>
          BY <2>2
        <4>2. stub_base \in Nat \ {0} /\ \A c \in StubCells : perm[c] = {"r", "x"}
          BY <4>1 DEF StubsInPlace
        <4>3. PICK d \in Nat : d = w.addend
          BY <1>1
        <4>4. PICK x \in Nat, top \in Int, p \in Int :
                x = k * Stride + d /\ top = Len(Chained.imports) * Stride /\ p = k * Stride
          <5>1. k * Stride + d \in Nat
            BY <1>2, <2>2, <3>4, <4>3, StubPlace
          <5>2. Len(Chained.imports) * Stride \in Int /\ k * Stride \in Int
            BY <1>2, LoaderAssumption
          <5> QED BY <5>1, <5>2
        <4>5. x < top /\ x \div Stride = k
          BY <1>2, <2>2, <3>4, <4>3, <4>4, StubPlace
        <4>6. Stub(k) + w.addend = stub_base + x
          <5>1. Stub(k) = stub_base + p
            BY <4>4 DEF Stub
          <5>2. x = p + d
            BY <4>4
          <5> QED BY <4>2, <4>3, <5>1, <5>2
        <4>7. stub_base + x \in StubCells
          <5>1. stub_base + x \in stub_base .. (stub_base + top - 1)
            BY <4>2, <4>5
          <5> QED BY <4>4, <5>1 DEF StubCells
        <4>8. rsd_stub_index(stub_base + x) = k
          <5>1. /\ stub_base # 0 /\ ~ (stub_base + x < stub_base) /\ stub_base + x - stub_base = x
                /\ ~ (x >= top)
            BY <4>2, <4>5
          <5>2. Len(imports) * Stride = top
            BY <1>2, <4>4
          <5>3. PICK y \in Int : y = stub_base + x
            BY <4>2
          <5>4. y - stub_base = x /\ ~ (stub_base = 0 \/ y < stub_base \/ y - stub_base >= Len(imports) * Stride)
            <6>1. y - stub_base = x /\ ~ (y < stub_base)
              BY <4>2, <5>3
            <6> QED BY <5>1, <5>2, <6>1, Zenon
          <5>5. rsd_stub_index(y) = (y - stub_base) \div Stride
            BY <5>4, Zenon DEF rsd_stub_index
          <5>6. rsd_stub_index(y) = x \div Stride
            BY <5>4, <5>5, Zenon
          <5> QED BY <4>5, <5>3, <5>6, Zenon
        <4> QED BY <4>2, <4>6, <4>7, <4>8
      <3> QED BY <1>1, <1>4, <2>1, <2>5, <2>7, <3>2, <3>3, <3>4 DEF RightPointer, Chained, w, sym
    <2> QED BY <2>6, <2>7
  <1> QED BY <1>3, <1>4 DEF w

\* A rebase becomes a pointer to where its target now is.
LEMMA RebasedRight ==
  ASSUME file \in Images, WellFormed(file), Placed, NEW a \in Packed(file), NEW q \in StartPages(file),
         Within(a, q), FileCell(file, a).kind = "rebase"
  PROVE  /\ Rebased(FileCell(file, a), q.format).kind = "value"
         /\ RightPointer(file, a, Rebased(FileCell(file, a), q.format))
  <1> DEFINE w == FileCell(file, a)
             v == Rebased(w, q.format)
  <1>1. \A r \in StartPages(file) : Within(a, r) => r = q
    BY PageOfCell
  <1>2. ChainOf(file, a) = q
    BY <1>1 DEF ChainOf
  <1>3. img.pref_base = TextOf(file) /\ TextOf(file) \in Nat /\ slide \in Int
    BY BaseIsText DEF Placed
  <1>4. w.target \in Nat
    BY PackedShape
  <1>5. /\ v.kind = "value" /\ v.high8 = w.high8
        /\ v.addr = IF q.format = "64_offset" THEN img.pref_base + slide + w.target ELSE w.target + slide
    BY DEF Rebased
  <1> HIDE DEF w, v
  <1>6. v.addr = w.target + (IF q.format = "64_offset" THEN TextOf(file) ELSE 0) + slide
    BY <1>3, <1>4, <1>5
  <1>7. RightPointer(file, a, v)
    BY <1>2, <1>5, <1>6 DEF RightPointer, TargetOf, w
  <1> QED BY <1>5, <1>7 DEF v, w

\* The format of a chain that is followed is one of the two known ones.
LEMMA FollowedFormat ==
  ASSUME Progress, NEW q \in StartPages(file), q.segment = n, file \in Images
  PROVE  q.format # "none"
  <1>1. /\ n > 0 /\ q = StartPage(file, n, q.number)
    BY PageNumbers
  <1>2. q.format = Chained.starts[n].format
    BY <1>1 DEF StartPage, Chained
  <1> QED BY <1>1, <1>2 DEF Progress

\* One fixup: the cell gets its meaning, and the chain goes on to the next cell
\* of the page, with no fixup left out between the two.
LEMMA FixUpStep ==
  ASSUME file \in Images, WellFormed(file), InChains, FixUp
  PROVE  InChains'
  <1>1. UNCHANGED <<n, file, img, perm, slide, entry, imports, stub_base, page>> /\ at # Idle
    BY DEF FixUp
  <1>2. Placed /\ StubsInPlace /\ Progress /\ \A a \in LinkedCells(file) : CellRight(a)
    BY DEF InChains, ChainsRight
  <1>3. PICK q \in StartPages(file) : Following(q)
    BY <1>1 DEF InChains, ChainsRight
  <1>4. PICK b \in Packed(file) : b = at.addr - slide
    BY <1>3 DEF Following
  <1>5. /\ Within(b, q) /\ q.segment = n /\ q.number = page /\ at.addr \in Int /\ slide \in Int
        /\ at = [addr |-> at.addr, format |-> q.format]
    BY <1>2, <1>3, <1>4 DEF Following, Placed
  <1>6. b \in LinkedCells(file) /\ b \in Nat /\ NextOf(file, b) \in Nat
    BY PackedShape
  <1>7. at.addr = b + slide /\ b + slide \in Cell
    <2>1. at.addr = b + slide
      BY <1>4, <1>5, <1>6
    <2> QED BY <1>2, <1>6, <2>1 DEF Placed
  <1>8. Started(q) /\ Current(q) /\ Started(q)'
    BY <1>1, <1>2, <1>5 DEF Started, Current, Progress
  <1>9. \A r \in StartPages(file) : r # q => ~ Current(r) /\ ~ Current(r)' /\ (Started(r)' <=> Started(r))
    <2>1. \A r \in StartPages(file) : r # q => ~ (r.segment = n /\ r.number = page)
      BY <1>5, PageUnique
    <2> QED BY <1>1, <2>1 DEF Current, Started
  \* In the page of the chain, a fixup is done when it is before the current one.
  <1>10. ASSUME NEW a \in Packed(file), Within(a, q)
         PROVE  /\ Fixed(a) <=> a < b
                /\ Fixed(a)' <=> (Current(q)' => a + slide < at'.addr)
    <2>1. a \in Nat /\ \A r \in StartPages(file) : Within(a, r) => r = q
      BY <1>10, PackedShape, PageOfCell
    <2>2. Fixed(a) <=> a + slide < at.addr
      BY <1>8, <1>10, <2>1 DEF Fixed
    <2>3. a + slide < at.addr <=> a < b
      BY <1>5, <1>6, <1>7, <2>1
    <2>4. Fixed(a)' <=> (Current(q)' => a + slide < at'.addr)
      BY <1>1, <1>8, <1>10, <2>1 DEF Fixed
    <2> QED BY <2>2, <2>3, <2>4
  <1>11. mem[b + slide] = FileCell(file, b)
    <2>1. ~ (b < b)
      BY <1>6
    <2>2. ~ Fixed(b)
      BY <1>5, <1>10, <2>1
    <2> QED BY <1>2, <1>6, <2>2 DEF CellRight
  <1> DEFINE w == FileCell(file, b)
  <1>12. w.kind \in {"rebase", "bind"} /\ w.next \in Nat /\ NextOf(file, b) = b + w.next
    BY PackedShape DEF NextOf
  <1>13. AsPacked(mem[at.addr]) = w
    BY <1>7, <1>11, <1>12 DEF AsPacked
  <1> HIDE DEF w
  <1>14. PICK v : v = IF w.kind = "bind" THEN Bound(w) ELSE Rebased(w, q.format)
    OBVIOUS
  <1>15. at.format = q.format
    BY <1>5
  <1>16. /\ mem' = [mem EXCEPT ![at.addr] = v]
         /\ at' = IF w.next = 0 THEN Idle ELSE [at EXCEPT !.addr = @ + w.next]
    BY <1>13, <1>14, <1>15 DEF FixUp
  <1>17. v.kind = "value" /\ RightPointer(file, b, v)
    BY <1>2, <1>5, <1>12, <1>14, BoundRight, RebasedRight DEF w
  <1>18. ASSUME NEW a \in Packed(file), Within(a, q)
         PROVE  Fixed(a)' <=> Fixed(a) \/ a = b
    <2>1. CASE w.next = 0
      <3>1. ~ Current(q)'
        BY <1>16, <2>1 DEF Current
      <3>2. ~ (b < a) /\ a \in Nat
        BY <1>5, <1>18, <2>1, NoneAfter, PackedShape DEF w
      <3> QED BY <1>6, <1>10, <1>18, <3>1, <3>2
    <2>2. CASE w.next # 0
      <3>1. at'.addr = b + slide + w.next /\ at'.format = q.format
        BY <1>5, <1>7, <1>16, <2>2
      <3>2. Current(q)'
        BY <1>1, <1>2, <1>5, <1>15, <3>1, FollowedFormat DEF Current, Idle
      <3>3. ~ (b < a /\ a < NextOf(file, b)) /\ a \in Nat
        BY <1>5, <1>18, NoneBetween, PackedShape
      <3>4. a + slide < at'.addr <=> a < NextOf(file, b)
        BY <1>5, <1>6, <1>12, <3>1, <3>3
      <3>5. a < NextOf(file, b) <=> a < b \/ a = b
        BY <1>6, <1>12, <2>2, <3>3
      <3> QED BY <1>10, <1>18, <3>2, <3>4, <3>5
    <2> QED BY <2>1, <2>2
  <1>19. ASSUME NEW a \in Packed(file) PROVE Fixed(a)' <=> Fixed(a) \/ a = b
    <2>1. CASE Within(a, q)
      BY <1>18, <2>1
    <2>2. CASE ~ Within(a, q)
      BY <1>1, <1>5, <1>9, <2>2 DEF Fixed
    <2> QED BY <2>1, <2>2
  <1>20. ASSUME at' # Idle PROVE Following(q)'
    <2>1. w.next # 0
      BY <1>16, <1>20
    <2>2. at' = [addr |-> b + slide + w.next, format |-> q.format]
      BY <1>5, <1>7, <1>16, <2>1
    <2>3. NextOf(file, b) \in Packed(file) /\ Within(NextOf(file, b), q)
      BY <1>5, <2>1, PageOfCell DEF w
    <2>4. at'.addr \in Int /\ at'.addr - slide = NextOf(file, b)
      BY <1>5, <1>6, <1>12, <2>2
    <2> QED BY <1>1, <1>5, <2>2, <2>3, <2>4 DEF Following
  <1>21. ASSUME NEW a \in LinkedCells(file) PROVE CellRight(a)'
    <2>1. \A x : RightPointer(file, a, x)' <=> RightPointer(file, a, x)
      BY <1>1, PointersStay
    <2>2. a \in Nat /\ a + slide \in Cell /\ mem = [c \in Cell |-> mem[c]]
      BY <1>2, CellShape DEF Placed
    <2>3. CASE a = b
      <3>1. mem'[a + slide] = v
        BY <1>7, <1>16, <2>2, <2>3
      <3>2. Fixed(a)' /\ a \in Packed(file)
        BY <1>19, <2>3
      <3> QED BY <1>1, <1>17, <2>1, <2>3, <3>1, <3>2 DEF CellRight
    <2>4. CASE a # b
      <3>1. a + slide # at.addr
        BY <1>5, <1>6, <1>7, <2>2, <2>4
      <3>2. mem'[a + slide] = mem[a + slide]
        BY <1>16, <2>2, <3>1
      <3>3. a \in Packed(file) => (Fixed(a)' <=> Fixed(a))
        BY <1>19, <2>4
      <3> QED BY <1>1, <1>2, <2>1, <3>2, <3>3 DEF CellRight
    <2> QED BY <2>3, <2>4
  <1>22. ChainsRight'
    <2>1. Progress'
      BY <1>1, <1>2 DEF Progress, Chained
    <2> QED BY <1>1, <1>20, <1>21, <2>1 DEF ChainsRight
  <1>23. Placed'
    BY <1>1, <1>2, <1>16, LoStays DEF Placed
  <1>24. StubsInPlace'
    <2>1. \A x : Resolved(x)' = Resolved(x)
      BY <1>1 DEF Resolved, Loaded
    <2> QED BY <1>1, <1>2, <2>1 DEF StubsInPlace, StubCells, Chained
  <1> QED BY <1>1, <1>22, <1>23, <1>24 DEF InChains, Permissions, EntrySet

\* A chain does not leave its page, and the page is mapped.
LEMMA ChainStays ==
  ASSUME file \in Images, WellFormed(file), InChains, at # Idle
  PROVE  rsd_as_mapped(at.addr)
  <1>1. PICK q \in StartPages(file) : Following(q)
    BY DEF InChains, ChainsRight
  <1>2. PICK b \in Packed(file) : b = at.addr - slide
    BY <1>1 DEF Following
  <1>3. b \in LinkedCells(file) /\ b \in Nat /\ slide \in Int /\ at.addr \in Int
    BY <1>1, PackedShape DEF Following, InChains, Placed
  <1>4. at.addr = b + slide
    BY <1>2, <1>3
  <1>5. mem[b + slide].kind = "value" \/ mem[b + slide] = FileCell(file, b)
    BY <1>3 DEF InChains, ChainsRight, CellRight
  <1>6. mem[b + slide].kind = "value" => rsd_as_mapped(b + slide)
    BY <1>3 DEF rsd_as_mapped, Unmapped, InChains, Placed
  <1> QED BY <1>3, <1>4, <1>5, <1>6, FileCellMapped DEF InChains

\* At the end of the loops every fixup is done.
LEMMA ChainsEndStep ==
  ASSUME file \in Images, WellFormed(file), InChains, ChainsEnd
  PROVE  InLinked'
  <1>1. UNCHANGED <<n, file, img, mem, perm, slide, entry, imports, stub_base, page, at>> /\ at = Idle
    BY DEF ChainsEnd
  <1>2. ASSUME NEW a \in Packed(file) PROVE Fixed(a)
    <2>1. PICK q \in StartPages(file) : Within(a, q)
      BY DEF WellFormed
    <2>2. ~ Current(q)
      BY <1>1 DEF Current
    <2>3. Started(q)
      <3>1. n = Len(Chained.starts) /\ (n > 0 => page = Len(Chained.starts[n].page_start))
        BY DEF ChainsEnd, PagesEnd
      <3>2. q.segment \in 1 .. n /\ n \in Nat
        BY <3>1, PageNumbers
      <3>3. q.segment = n => q.number <= page
        BY <3>1, <3>2, PageNumbers
      <3> QED BY <3>2, <3>3 DEF Started
    <2> QED BY <2>1, <2>2, <2>3 DEF Fixed
  <1>3. ASSUME NEW a \in LinkedCells(file) PROVE LinkedRight(a)'
    <2>1. \A x : RightPointer(file, a, x)' <=> RightPointer(file, a, x)
      BY <1>1, PointersStay
    <2>2. CellRight(a) /\ perm[a + slide] = SegmentAt(file, a).initprot
      BY DEF InChains, ChainsRight, Permissions
    <2> QED BY <1>1, <1>2, <2>1, <2>2 DEF LinkedRight, CellRight
  <1> QED BY <1>1, <1>3, LoStays DEF InLinked, InChains, Placed, EntrySet

-----------------------------------------------------------------------------
(* The theorem.                                                            *)

LEMMA LoadInvInit == Init => LoadInv
  <1> SUFFICES ASSUME Init, WellFormed(file) PROVE InCommands /\ file \in Images /\ pc = "commands"
    BY DEF LoadInv, Init
  <1>1. file \in Images /\ pc = "commands" /\ n = 0 /\ img = NoImage /\ page = 0 /\ at = Idle
    BY DEF Init
  <1>2. NoImage \in Recorded /\ NoImage.segs = <<>> /\ ~ NoImage.got_entry /\ NoImage.pref_base = 0
    BY DEF NoImage, Recorded
  <1>3. Read(img, file, 0)
    <2>1. \A j \in SegmentsOf(file) : ~ (j <= 0)
      BY <1>1, FileShape DEF SegmentsOf
    <2>2. SegmentsRead(img, file, 0) /\ SegmentsBounded(img)
      BY <1>1, <1>2, <2>1 DEF SegmentsRead, SegmentsBounded
    <2>3. TextRead(img, file, 0) /\ EntryRead(img, file, 0)
      BY <1>1, <1>2 DEF TextRead, EntryRead
    <2> QED BY <1>1, <1>2, <2>2, <2>3 DEF Read
  <1>4. 0 <= Len(file.cmds)
    BY <1>1, FileShape
  <1> QED BY <1>1, <1>3, <1>4 DEF InCommands, Init

\* The parts of the invariant are about the variables of vars only.
LEMMA Stutters ==
  ASSUME UNCHANGED vars
  PROVE  /\ pc' = pc /\ (InCommands => InCommands') /\ (InCopy => InCopy') /\ (InProtect => InProtect')
         /\ (InFixups => InFixups') /\ (InChains => InChains') /\ (InLinked => InLinked')
  <1>1. UNCHANGED <<pc, n, file, img, mem, perm, slide, entry, imports, stub_base, page, at>>
    BY DEF vars
  <1>2. /\ Placed => Placed'
        /\ \A m : (CopiedTo(m) => CopiedTo(m)') /\ (ProtectedTo(m) => ProtectedTo(m)')
        /\ (Contents => Contents') /\ (Permissions => Permissions') /\ (EntrySet => EntrySet')
    BY <1>1, LoStays DEF Placed, CopiedTo, ProtectedTo, Contents, Permissions, EntrySet, InFirst
  <1>3. InCommands => InCommands'
    BY <1>1 DEF InCommands
  <1>4. InCopy => InCopy'
    BY <1>1, <1>2 DEF InCopy, CopiedTo, InFirst
  <1>5. InProtect => InProtect'
    BY <1>1, <1>2 DEF InProtect, ProtectedTo, InFirst
  <1>6. InFixups => InFixups'
    BY <1>1, <1>2 DEF InFixups
  <1>7. InChains => InChains'
    <2>1. Progress => Progress'
      BY <1>1 DEF Progress, Chained
    <2>2. \A q : Following(q) => Following(q)'
      BY <1>1 DEF Following
    <2>3. \A a : Fixed(a)' <=> Fixed(a)
      BY <1>1 DEF Fixed, Started, Current
    <2> QED BY <1>1, <2>1, <2>2, <2>3, LoopStep DEF InChains, ChainsRight
  <1>8. InLinked => InLinked'
    <2>1. ASSUME NEW a PROVE LinkedRight(a)' <=> LinkedRight(a)
      <3>1. \A w : RightPointer(file, a, w)' <=> RightPointer(file, a, w)
        BY <1>1, PointersStay
      <3> QED BY <1>1, <3>1 DEF LinkedRight
    <2> QED BY <1>1, <1>2, <2>1 DEF InLinked
  <1> QED BY <1>1, <1>3, <1>4, <1>5, <1>6, <1>7, <1>8

\* Every step of loading keeps the invariant.
LEMMA LoadInvStep == LoadInv /\ [Next]_vars => LoadInv'
  <1> SUFFICES ASSUME LoadInv, [Next]_vars PROVE LoadInv'
    OBVIOUS
  <1>1. file' = file
    BY DEF Next, vars, LoadCommand, Place, LoadFails, CopySegment, CopyEnd, ProtectSegment, ProtectEnd,
           NoFixups, Resolve, FixupsFail, StartSegment, StartChain, FixUp, ChainLeaves, ChainsEnd, Fail
  <1>2. SUFFICES ASSUME WellFormed(file)
                 PROVE  /\ pc' = "commands" => InCommands'
                        /\ pc' = "copy" => InCopy'
                        /\ pc' = "protect" => InProtect'
                        /\ pc' = "fixups" => InFixups'
                        /\ pc' = "chains" => InChains'
                        /\ pc' = "linked" => InLinked'
    BY <1>1 DEF LoadInv
  <1>3. /\ file \in Images
        /\ pc = "commands" => InCommands
        /\ pc = "copy" => InCopy
        /\ pc = "protect" => InProtect
        /\ pc = "fixups" => InFixups
        /\ pc = "chains" => InChains
        /\ pc = "linked" => InLinked
    BY <1>2 DEF LoadInv
  <1>4. CASE LoadCommand
    BY <1>2, <1>3, <1>4, LoadCommandStep DEF LoadCommand, Fail
  <1>5. CASE Place
    BY <1>2, <1>3, <1>5, PlaceStep DEF Place, Parsing
  <1>6. CASE LoadFails \/ FixupsFail
    BY <1>6 DEF LoadFails, FixupsFail, Fail
  <1>7. CASE CopySegment
    BY <1>2, <1>3, <1>7, CopySegmentStep DEF CopySegment
  <1>8. CASE CopyEnd
    BY <1>2, <1>3, <1>8, CopyEndStep DEF CopyEnd
  <1>9. CASE ProtectSegment
    BY <1>2, <1>3, <1>9, ProtectSegmentStep DEF ProtectSegment
  <1>10. CASE ProtectEnd
    BY <1>2, <1>3, <1>10, ProtectEndStep DEF ProtectEnd
  <1>11. CASE NoFixups
    BY <1>2, <1>3, <1>11, NoFixupsStep DEF NoFixups
  <1>12. CASE Resolve
    BY <1>2, <1>3, <1>12, ResolveStep DEF Resolve
  <1>13. CASE StartSegment
    BY <1>2, <1>3, <1>13, StartSegmentStep DEF StartSegment, Fail
  <1>14. CASE StartChain
    BY <1>2, <1>3, <1>14, StartChainStep DEF StartChain
  <1>15. CASE FixUp
    BY <1>2, <1>3, <1>15, FixUpStep DEF FixUp
  <1>16. CASE ChainLeaves
    BY <1>2, <1>3, <1>16, ChainStays DEF ChainLeaves
  <1>17. CASE ChainsEnd
    BY <1>2, <1>3, <1>17, ChainsEndStep DEF ChainsEnd
  <1>18. CASE UNCHANGED vars
    BY <1>3, <1>18, Stutters
  <1> QED BY <1>4, <1>5, <1>6, <1>7, <1>8, <1>9, <1>10, <1>11, <1>12, <1>13, <1>14, <1>15, <1>16,
             <1>17, <1>18 DEF Next

\* The invariant says of a linked image what Linked asks.
LEMMA LinkedFromInv == LoadInv => Linked
  BY DEF LoadInv, Linked, InLinked, EntrySet, Placed

\* Every well-formed image that rashid links, at whatever place, has its segments,
\* permissions, pointers and entry point as the linker meant them, and is where it was
\* linked if it is not position-independent, unless it was linked from 0.
THEOREM ImageLinkedRight == Spec => []Linked
  BY LoadInvInit, LoadInvStep, LinkedFromInv, PTL DEF Spec

=============================================================================
