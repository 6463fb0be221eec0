---------------------------- MODULE AddressSpace ----------------------------
(***************************************************************************)
(* The guest address space of as.c: the list of regions rashid has handed  *)
(* to the guest, each with the permissions recorded for it, and the two    *)
(* small caches of regions that compiled code may access without a call.   *)
(*                                                                         *)
(* Guest and host share one address space, so the model keeps beside the   *)
(* list the set of bytes the host has really mapped for the guest: what    *)
(* as.c believes and what the kernel did are two different things.         *)
(*                                                                         *)
(* Addresses are numbers of a Word-sized machine word.  The kernel hands   *)
(* out whole host pages between the null page and UserTop, far below the   *)
(* end of the word, as on arm64.                                           *)
(***************************************************************************)
EXTENDS Integers, FiniteSets, Sequences, SequencesExt

CONSTANTS
  Word,        \* 2^64: arithmetic on addresses wraps here
  UserTop,     \* the end of the addresses the kernel gives to a process
  HostPage,    \* sysconf(_SC_PAGESIZE): 16K on Apple Silicon
  Span,        \* 8: the widest access made in line
  Ats, Lens,   \* addresses and lengths the guest asks for
  FirstCap,    \* 16: the room insert() allocates first
  Prots,       \* permission sets the guest asks for
  MaxRegions   \* bound: rsd_as_map is not called with more regions than this

Perm == {"R", "W", "X"}

ASSUME SizesAssumption ==
  /\ Word \in Nat /\ UserTop \in Nat /\ 2 * UserTop <= Word
  /\ HostPage \in Nat \ {0} /\ HostPage <= Word /\ Span \in Nat \ {0}

ASSUME ArgumentsAssumption ==
  /\ Ats \subseteq 0 .. (Word - 1) /\ Lens \subseteq 0 .. (Word - 1)
  /\ Prots \subseteq SUBSET Perm /\ MaxRegions \in Nat
  /\ FirstCap \in Nat \ {0}

VARIABLES
  reg,    \* as->reg[0 .. n-1], as a sequence
  cap,    \* as->cap: the regions as->reg has room for
  hit,    \* as->rd and as->wr: hit["R"][0..1] and hit["W"][0..1]
  host    \* the bytes the kernel has mapped for the guest

vars == <<reg, cap, hit, host>>

Region == [start : 0 .. (Word - 1), end : 0 .. (Word - 1), prot : SUBSET Perm]
Hit == [lo : 0 .. (Word - 1), lim : 0 .. (Word - 1)]

\* An empty entry has lim 0, which no offset is below.
NoHit == [lo |-> 0, lim |-> 0]
Forgotten == [p \in {"R", "W"} |-> [k \in 0 .. 1 |-> NoHit]]

-----------------------------------------------------------------------------
(* Machine arithmetic: sums and differences of words, and host pages.      *)

Plus(x, y) == IF x + y < Word THEN x + y ELSE x + y - Word
Minus(x, y) == IF x >= y THEN x - y ELSE x - y + Word
PageDown(x) == x - (x % HostPage)
PageUp(x) == PageDown(Plus(x, HostPage - 1))

-----------------------------------------------------------------------------
(* Reading the list.                                                       *)

Holds(r, a) == r.start <= a /\ a < r.end

\* find(): the first region in list order that holds a, 0 when there is none.
find(s, a) ==
  IF \E i \in 1 .. Len(s) : Holds(s[i], a)
  THEN CHOOSE i \in 1 .. Len(s) :
         Holds(s[i], a) /\ \A j \in 1 .. (i - 1) : ~ Holds(s[j], a)
  ELSE 0

\* The loop of rsd_as_ok() and rsd_as_mapped(): P is the set of addresses it
\* calls find() on, from a on, each the end of the region found before it.
Walk(s, a, n, prot) ==
  \E P \in SUBSET (a .. (a + n - 1)) :
    /\ a \in P
    /\ \A p \in P : LET i == find(s, p)
                    IN  /\ i # 0
                        /\ prot \subseteq s[i].prot
                        /\ s[i].end >= a + n \/ s[i].end \in P

rsd_as_ok(s, a, n, prot) == n = 0 \/ (a + n < Word /\ Walk(s, a, n, prot))
rsd_as_mapped(s, a, n) == n = 0 \/ (a + n < Word /\ Walk(s, a, n, {}))

-----------------------------------------------------------------------------
(* Changing the list.                                                      *)

\* The elements of s at the positions I, in their order: what a loop that
\* copies some entries of an array and skips the others leaves.
Pick(s, I) ==
  [k \in 1 .. Cardinality(I) |->
     s[CHOOSE i \in I : Cardinality({j \in I : j <= i}) = k]]

\* insert(): before the first region that does not start below r.
InsertPosition(s, r) ==
  CHOOSE i \in 1 .. (Len(s) + 1) :
    /\ \A j \in 1 .. (i - 1) : s[j].start < r.start
    /\ i <= Len(s) => s[i].start >= r.start
Inserted(s, r) == InsertAt(s, InsertPosition(s, r), r)

\* rsd_as_protect() leaves of region r: the part before the range (0), the
\* part inside it (1), the part after it (2); r itself when it is outside.
Touches(r, at, end) == r.end > at /\ r.start < end
HasPart_NoTail(r, k, at, end) == k = 1 \/ (k = 0 /\ Touches(r, at, end) /\ r.start < at)
HasPart(r, k, at, end) ==
  \/ k = 1
  \/ k = 0 /\ Touches(r, at, end) /\ r.start < at
  \/ k = 2 /\ Touches(r, at, end) /\ r.end > end
Part_Unclipped(r, k, at, end, prot) ==
  CASE k = 0 -> [r EXCEPT !.end = at]
    [] k = 2 -> [r EXCEPT !.start = end]
    [] OTHER -> IF Touches(r, at, end) THEN [r EXCEPT !.prot = prot] ELSE r
Part(r, k, at, end, prot) ==
  CASE k = 0 -> [r EXCEPT !.end = at]
    [] k = 2 -> [r EXCEPT !.start = end]
    [] OTHER -> IF ~ Touches(r, at, end) THEN r
                ELSE [start |-> IF r.start > at THEN r.start ELSE at,
                      end   |-> IF r.end < end THEN r.end ELSE end,
                      prot  |-> prot]
PartNumbers(s, at, end) ==
  {j \in 3 .. (3 * Len(s) + 2) : HasPart(s[j \div 3], j % 3, at, end)}
Protected(s, at, end, prot) ==
  LET I == PartNumbers(s, at, end)
  IN  Pick([j \in I |-> Part(s[j \div 3], j % 3, at, end, prot)], I)

\* rsd_as_unmap() drops the regions that lie wholly inside the range.
Kept_Strict(s, lo, hi) == {i \in 1 .. Len(s) : ~ (s[i].start > lo /\ s[i].end <= hi)}
Kept(s, lo, hi) == {i \in 1 .. Len(s) : ~ (s[i].start >= lo /\ s[i].end <= hi)}
Unmapped(s, lo, hi) == Pick(s, Kept(s, lo, hi))

-----------------------------------------------------------------------------
(* The kernel, as as.c uses it.                                            *)

Bytes(base, size) == base .. (base + size - 1)

\* mmap(): where it may place a mapping.  MAP_FIXED replaces what is there;
\* otherwise only bytes nobody uses are handed out.
Placements(want, size, fixed) ==
  {b \in 0 .. UserTop :
     /\ size > 0 /\ b >= HostPage /\ b % HostPage = 0 /\ b + size <= UserTop
     /\ IF fixed THEN b = want ELSE Bytes(b, size) \cap host = {}}

\* munmap() of `size` bytes, a number of whole pages: an empty range, one that
\* does not begin on a page and one that leaves user space are refused.
MunmapOK(lo, size) == size > 0 /\ lo % HostPage = 0 /\ lo + size <= UserTop
Munmapped(bytes, lo, size) ==
  IF MunmapOK(lo, size) THEN bytes \ Bytes(lo, size) ELSE bytes

-----------------------------------------------------------------------------
(* Operations.                                                             *)

\* Every operation that changes the regions forgets the hits first: the
\* addresses and bounds compiled code compares with are about to be wrong.
forget_Kept == UNCHANGED hit
forget == hit' = Forgotten

Init == reg = << >> /\ cap = 0 /\ hit = Forgotten /\ host = {}

MapLo(at) == PageDown(at)
MapHi(at, len) == IF at = 0 THEN PageUp(len) ELSE PageUp(Plus(at, len))
MapSize(at, len) == IF at = 0 THEN MapHi(at, len) ELSE Minus(MapHi(at, len), MapLo(at))

\* A block of `got` bytes was mapped at base; insert() records `size` of them,
\* or cannot make room for one more region and those are unmapped again.
Room == IF Len(reg) < cap THEN cap ELSE IF cap = 0 THEN FirstCap ELSE 2 * cap
Record(base, got, size, prot) ==
  /\ forget
  /\ \/ /\ reg' = Inserted(reg, [start |-> base, end |-> Plus(base, size), prot |-> prot])
        /\ cap' = Room
        /\ host' = host \cup Bytes(base, got)
     \/ /\ Len(reg) = cap
        /\ host' = Munmapped(host \cup Bytes(base, got), base, size)
        /\ UNCHANGED <<reg, cap>>

\* rsd_as_map(): the mapping asked for; when the kernel refuses a hint, one
\* anywhere, of MapHi bytes; or nothing.  Asking for 0 bytes does nothing.
rsd_as_map(at, len, prot, fixed) ==
  LET size == MapSize(at, len)
  IN  \/ /\ len # 0
         /\ \E base \in Placements(MapLo(at), size, at # 0 /\ fixed) :
              Record(base, size, size, prot)
      \/ /\ len # 0 /\ at # 0 /\ ~ fixed
         /\ \E base \in Placements(0, MapHi(at, len), FALSE) :
              Record(base, MapHi(at, len), size, prot)
      \/ UNCHANGED vars

\* rsd_as_protect(): rebuilds the list in an array of a size fixed beforehand;
\* no host call; -1 with nothing changed when malloc fails.
ProtectCap_Short == 2 * Len(reg)
ProtectCap == 3 * Len(reg) + 1
rsd_as_protect(at, len, prot) ==
  \/ /\ len # 0
     /\ forget
     /\ reg' = Protected(reg, at, Plus(at, len), prot)
     /\ cap' = ProtectCap
     /\ UNCHANGED host
  \/ UNCHANGED vars

\* rsd_as_unmap(): rounds outward to host pages; nothing changes when munmap
\* refuses the range.
UnmapHi(at, len) == PageUp(Plus(at, len))
rsd_as_unmap(at, len) ==
  LET lo == PageDown(at)
      hi == UnmapHi(at, len)
  IN  \/ /\ MunmapOK(lo, Minus(hi, lo))
         /\ host' = Munmapped(host, lo, Minus(hi, lo))
         /\ forget
         /\ reg' = Unmapped(reg, lo, hi)
         /\ UNCHANGED cap
      \/ ~ MunmapOK(lo, Minus(hi, lo)) /\ UNCHANGED vars

\* rsd_as_note(): the region that holds a becomes the newest hit for p.  In
\* the cases its conditions exclude the code returns with nothing changed.
rsd_as_note_AnyLength(a, p) ==
  LET i == find(reg, a)
      len == reg[i].end - reg[i].start
  IN  /\ i # 0
      /\ p \in reg[i].prot
      /\ hit[p][0].lo # reg[i].start
      /\ hit' = [hit EXCEPT ![p] =
                   [k \in 0 .. 1 |->
                      IF k = 0 THEN [lo |-> reg[i].start, lim |-> len - (Span - 1)]
                      ELSE hit[p][0]]]
      /\ UNCHANGED <<reg, cap, host>>
rsd_as_note(a, p) ==
  LET i == find(reg, a)
      len == reg[i].end - reg[i].start
  IN  /\ i # 0
      /\ p \in reg[i].prot
      /\ len >= Span
      /\ hit[p][0].lo # reg[i].start
      /\ hit' = [hit EXCEPT ![p] =
                   [k \in 0 .. 1 |->
                      IF k = 0 THEN [lo |-> reg[i].start, lim |-> len - (Span - 1)]
                      ELSE hit[p][0]]]
      /\ UNCHANGED <<reg, cap, host>>

\* rsd_as_free(): unmaps the pages from the start of each region and starts
\* again from nothing.
rsd_as_free ==
  /\ host' = {b \in host : \A i \in 1 .. Len(reg) :
                b \in Munmapped(host, reg[i].start, PageUp(Minus(reg[i].end, reg[i].start)))}
  /\ reg' = << >> /\ cap' = 0
  /\ forget

-----------------------------------------------------------------------------
(* Any guest, and a tidy one.  A tidy guest keeps its ranges within the     *)
(* word, maps MAP_FIXED only over memory nobody uses, and unmaps a region   *)
(* whole or not at all; the list then describes the memory exactly.         *)

TidyMap(at, len, fixed) ==
  /\ at + len + HostPage <= Word
  /\ at # 0 /\ fixed => Bytes(MapLo(at), MapSize(at, len)) \cap host = {}
TidyProtect(at, len) == at + len < Word
TidyUnmap(at, len) ==
  /\ at + len + HostPage <= Word
  /\ \A i \in 1 .. Len(reg) :
       Touches(reg[i], PageDown(at), UnmapHi(at, len))
         => PageDown(at) <= reg[i].start /\ reg[i].end <= UnmapHi(at, len)

Map(tidy) ==
  /\ Len(reg) < MaxRegions
  /\ \E at \in Ats, len \in Lens, prot \in Prots, fixed \in BOOLEAN :
       (tidy => TidyMap(at, len, fixed)) /\ rsd_as_map(at, len, prot, fixed)
Protect(tidy) ==
  \E at \in Ats, len \in Lens, prot \in Prots :
    (tidy => TidyProtect(at, len)) /\ rsd_as_protect(at, len, prot)
Unmap(tidy) ==
  \E at \in Ats, len \in Lens : (tidy => TidyUnmap(at, len)) /\ rsd_as_unmap(at, len)
Note == \E a \in 0 .. (UserTop - 1), p \in {"R", "W"} : rsd_as_note(a, p)

Next == Map(FALSE) \/ Protect(FALSE) \/ Unmap(FALSE) \/ Note \/ rsd_as_free
TidyNext == Map(TRUE) \/ Protect(TRUE) \/ Unmap(TRUE) \/ Note \/ rsd_as_free

Spec == Init /\ [][Next]_vars
TidySpec == Init /\ [][TidyNext]_vars

=============================================================================
