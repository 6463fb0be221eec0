------------------------------- MODULE Loader -------------------------------
(***************************************************************************)
(* Loading an image, in the order of main(): rsd_load() of macho.c parses   *)
(* the load commands and places the segments, rsd_fixups() of fixups.c      *)
(* resolves the imports (thunk.c) and walks the fixup chains, and           *)
(* rsd_stubs_of() hands the imports to the engine.                         *)
(*                                                                         *)
(* Memory is made of cells, the 8 bytes of a pointer.  A cell of the file   *)
(* that a chain goes through is packed: a "rebase" or a "bind" with the     *)
(* distance to the next one.  Other cells, and all cells afterwards, hold a *)
(* "value", with the byte on top of a pointer kept apart.                   *)
(***************************************************************************)
EXTENDS Integers, Sequences, SequencesExt

CONSTANTS
  Top,          \* guest memory is the cells below Top
  MaxSegs, MaxSects, MaxDylibs,   \* RSD_MAX_SEGS, RSD_MAX_SECTS, RSD_MAX_DYLIBS
  Stride,       \* cells of a stub: RSD_STUB_STRIDE
  PageCells,    \* cells of a page, for the starts of chains
  Images,       \* the files to load
  Symbols       \* symbols of this machine: their library, address and kind

None == -1     \* DYLD_CHAINED_PTR_START_NONE

\* The shape of a file: its cells, load commands and chain starts.
FileCells ==
  [kind : {"value"}, addr : Nat, high8 : Nat]
    \cup [kind : {"rebase"}, target : Nat, high8 : Nat, next : Nat]
    \cup [kind : {"bind"}, ordinal : Nat, addend : Nat, next : Nat]
SegmentCommand ==
  [cmd : {"segment"}, name : STRING, vmaddr : Nat, vmsize : Nat, data : Seq(FileCells),
   initprot : SUBSET {"r", "w", "x"}, sects : Seq([name : STRING, addr : Nat, size : Nat])]
Command ==
  SegmentCommand \cup [cmd : {"main"}, off : Nat] \cup [cmd : {"unixthread"}, rip : Nat]
    \cup [cmd : {"dylib"}, lib : STRING] \cup [cmd : {"chained_fixups"}, size : Nat] \cup [cmd : {"other"}]
SegmentStarts == [format : STRING, offset : Nat, page_start : Seq(Nat \cup {None})]
ChainInfo ==
  [version : Nat, imports_format : Nat, imports : Seq(STRING), starts : Seq(SegmentStarts)]

ASSUME LoaderAssumption ==
  /\ Top \in Nat /\ MaxSegs \in Nat /\ MaxSects \in Nat /\ MaxDylibs \in Nat
  /\ Stride \in Nat \ {0} /\ PageCells \in Nat \ {0}
  /\ \A s \in DOMAIN Symbols :
       Symbols[s].addr \in Nat /\ Symbols[s].addr > Top /\ Symbols[s].code \in BOOLEAN
  /\ \A f \in Images : f.cmds \in Seq(Command) /\ f.chained \in ChainInfo

VARIABLES
  pc, n,       \* the step of loading, and the counter of its loop
  file,        \* the image file
  img,         \* what rsd_load() has recorded of it in the rsd_image
  mem, perm,   \* guest memory, and the permissions of its regions
  slide, entry,
  imports,     \* the resolved imports
  stub_base,
  page,        \* pages of the segment whose chains were started
  at           \* the fixup that walk_chain() is at

vars == <<pc, n, file, img, mem, perm, slide, entry, imports, stub_base, page, at>>

Cell == 0 .. (Top - 1)
Unmapped == [kind |-> "unmapped"]
Value(v) == [kind |-> "value", addr |-> v, high8 |-> 0]
Zero == Value(0)

rsd_as_mapped(c) == c \in Cell /\ mem[c] # Unmapped

Fail == pc' = "failed" /\ UNCHANGED <<n, file, img, mem, perm, slide, entry, imports, stub_base, page, at>>

-----------------------------------------------------------------------------
(* rsd_load(), pass 1: one step per load command.                          *)

NoImage == [segs |-> <<>>, sects |-> <<>>, dylibs |-> <<>>, pref_base |-> 0,
            entry_off |-> 0, got_entry |-> FALSE, has_main |-> FALSE, fixups |-> FALSE]

\* Sections beyond the limit are dropped, and so are libraries.
Upto(s, max) == SubSeq(s, 1, IF Len(s) < max THEN Len(s) ELSE max)

IsSegment(c) == c.cmd = "segment" /\ c.name # "__PAGEZERO"

Parsed(i, c) ==
  CASE IsSegment(c) ->
         [i EXCEPT !.segs = Append(@, c), !.sects = Upto(@ \o c.sects, MaxSects),
                   !.pref_base = IF c.name = "__TEXT" THEN c.vmaddr ELSE @]
    [] c.cmd = "main" -> [i EXCEPT !.entry_off = c.off, !.got_entry = TRUE, !.has_main = TRUE]
    [] c.cmd = "unixthread" ->
         [i EXCEPT !.entry_off = c.rip, !.got_entry = TRUE, !.has_main = FALSE]
    [] c.cmd = "chained_fixups" -> [i EXCEPT !.fixups = (c.size # 0)]
    [] c.cmd = "dylib" -> [i EXCEPT !.dylibs = Upto(Append(@, c.lib), MaxDylibs)]
    [] OTHER -> i

LoadCommand ==
  /\ pc = "commands" /\ n < Len(file.cmds)
  /\ LET c == file.cmds[n + 1]
     IN  IF IsSegment(c) /\ Len(img.segs) >= MaxSegs THEN Fail
         ELSE /\ img' = Parsed(img, c) /\ n' = n + 1
              /\ UNCHANGED <<pc, file, mem, perm, slide, entry, imports, stub_base, page, at>>

-----------------------------------------------------------------------------
(* rsd_load(), pass 2: one mapping for the whole span, then the contents    *)
(* and then the permissions of each segment.                               *)

SegCells(s, base) == (s.vmaddr + base) .. (s.vmaddr + base + s.vmsize - 1)
Lo == CHOOSE a \in {img.segs[k].vmaddr : k \in 1 .. Len(img.segs)} :
        \A k \in 1 .. Len(img.segs) : a <= img.segs[k].vmaddr
Hi == CHOOSE a \in {img.segs[k].vmaddr + img.segs[k].vmsize : k \in 1 .. Len(img.segs)} :
        \A k \in 1 .. Len(img.segs) : a >= img.segs[k].vmaddr + img.segs[k].vmsize

\* rsd_as_map(), as it is used here: new zeroed memory, at a place that may be
\* any, except for an image that cannot slide and is not linked at 0: to be mapped
\* at 0 is to ask for no place.  AddressSpace has its details.
Free(base, size) == base + size <= Top /\ \A c \in base .. (base + size - 1) : ~ rsd_as_mapped(c)
Map(base, size, prot) ==
  /\ Free(base, size)
  /\ mem' = [c \in Cell |-> IF c \in base .. (base + size - 1) THEN Zero ELSE mem[c]]
  /\ perm' = [c \in Cell |-> IF c \in base .. (base + size - 1) THEN prot ELSE perm[c]]

Parsing == pc = "commands" /\ n = Len(file.cmds)
Loadable == Len(img.segs) > 0 /\ img.got_entry

Place ==
  /\ Parsing /\ Loadable /\ Hi # Lo
  /\ \E base \in Cell \ {0} :
       /\ ~ file.pie /\ Lo # 0 => base = Lo
       /\ Map(base, Hi - Lo, {"r", "w"})
       /\ slide' = base - Lo
  /\ pc' = "copy" /\ n' = 0
  /\ UNCHANGED <<file, img, entry, imports, stub_base, page, at>>

\* No segments, no entry point, or no room.
LoadFails == Parsing /\ Fail

CopySegment ==
  /\ pc = "copy" /\ n < Len(img.segs)
  /\ LET s == img.segs[n + 1]
         to == s.vmaddr + slide
     IN  mem' = [c \in Cell |-> IF c \in to .. (to + Len(s.data) - 1)
                                THEN s.data[c - to + 1] ELSE mem[c]]
  /\ n' = n + 1
  /\ UNCHANGED <<pc, file, img, perm, slide, entry, imports, stub_base, page, at>>

CopyEnd ==
  /\ pc = "copy" /\ n = Len(img.segs)
  /\ pc' = "protect" /\ n' = 0
  /\ UNCHANGED <<file, img, mem, perm, slide, entry, imports, stub_base, page, at>>

ProtectSegment ==
  /\ pc = "protect" /\ n < Len(img.segs)
  /\ LET s == img.segs[n + 1]
     IN  perm' = [c \in Cell |-> IF c \in SegCells(s, slide) THEN s.initprot ELSE perm[c]]
  /\ n' = n + 1
  /\ UNCHANGED <<pc, file, img, mem, slide, entry, imports, stub_base, page, at>>

Entry(i) == (IF i.has_main THEN i.pref_base + i.entry_off ELSE i.entry_off) + slide

ProtectEnd ==
  /\ pc = "protect" /\ n = Len(img.segs)
  /\ entry' = Entry(img)
  /\ pc' = "fixups" /\ n' = 0
  /\ UNCHANGED <<file, img, mem, perm, slide, imports, stub_base, page, at>>

-----------------------------------------------------------------------------
(* rsd_fixups(), up to the chains.                                         *)

NoFixups ==
  /\ pc = "fixups" /\ ~ img.fixups
  /\ pc' = "linked"
  /\ UNCHANGED <<n, file, img, mem, perm, slide, entry, imports, stub_base, page, at>>

\* rsd_resolve_imports(): a symbol is found when its library is loaded, and
\* counts as code when it is not found.
Loaded(s) == s \in DOMAIN Symbols /\ (Symbols[s].lib = "host" \/ Contains(img.dylibs, Symbols[s].lib))
Resolved(s) == IF Loaded(s) THEN [native |-> Symbols[s].addr, is_code |-> Symbols[s].code]
               ELSE [native |-> 0, is_code |-> TRUE]

Chained == file.chained
Supported == Chained.version = 0 /\ Chained.imports_format = 1

Resolve ==
  /\ pc = "fixups" /\ img.fixups /\ Supported
  /\ imports' = [k \in 1 .. Len(Chained.imports) |-> Resolved(Chained.imports[k])]
  /\ IF Chained.imports = <<>> THEN UNCHANGED <<mem, perm, stub_base>>
     ELSE \E base \in Cell \ {0} : /\ Map(base, Len(Chained.imports) * Stride, {"r", "x"})
                                   /\ stub_base' = base
  /\ pc' = "chains"
  /\ UNCHANGED <<n, file, img, slide, entry, page, at>>

\* Another version or format, or no room for the stubs.
FixupsFail ==
  /\ pc = "fixups" /\ img.fixups
  /\ ~ Supported \/ Chained.imports # <<>>
  /\ Fail

-----------------------------------------------------------------------------
(* The chains: each page of each segment with fixups has at most one.       *)

PageAt(s, j) == s.offset + (j - 1) * PageCells

Idle == [addr |-> 0, format |-> "none"]

\* The loop over the segments, whose formats are looked at.
PagesEnd == n > 0 => page = Len(Chained.starts[n].page_start)
StartSegment ==
  /\ pc = "chains" /\ at = Idle /\ PagesEnd /\ n < Len(Chained.starts)
  /\ IF Chained.starts[n + 1].format \notin {"64", "64_offset"} THEN Fail
     ELSE /\ n' = n + 1 /\ page' = 0
          /\ UNCHANGED <<pc, file, img, mem, perm, slide, entry, imports, stub_base, at>>

\* The loop over a segment's pages.
StartChain ==
  /\ pc = "chains" /\ at = Idle /\ n > 0 /\ page < Len(Chained.starts[n].page_start)
  /\ page' = page + 1
  /\ LET s == Chained.starts[n]
         start == s.page_start[page + 1]
     IN  at' = IF start = None THEN Idle
               ELSE [addr |-> img.pref_base + slide + PageAt(s, page + 1) + start,
                     format |-> s.format]
  /\ UNCHANGED <<pc, n, file, img, mem, perm, slide, entry, imports, stub_base>>

Stub(ordinal) == stub_base + ordinal * Stride

\* What walk_chain() makes of a packed cell.  Ordinals count from 0.
Bound(w) ==
  IF w.ordinal >= Len(imports) THEN Zero
  ELSE LET im == imports[w.ordinal + 1]
       IN  Value((IF im.native # 0 /\ ~ im.is_code THEN im.native ELSE Stub(w.ordinal)) + w.addend)
Rebased_Offset(w, format) ==
  [kind |-> "value", high8 |-> w.high8, addr |-> img.pref_base + slide + w.target]
Rebased(w, format) ==
  [kind |-> "value", high8 |-> w.high8,
   addr |-> IF format = "64_offset" THEN img.pref_base + slide + w.target ELSE w.target + slide]

\* A cell that is no longer packed reads as a rebase that ends its chain.
AsPacked(w) == IF w.kind # "value" THEN w
               ELSE [kind |-> "rebase", target |-> w.addr, high8 |-> w.high8, next |-> 0]

FixUp ==
  /\ pc = "chains" /\ at # Idle /\ rsd_as_mapped(at.addr)
  /\ LET w == AsPacked(mem[at.addr])
     IN  /\ mem' = [mem EXCEPT ![at.addr] = IF w.kind = "bind" THEN Bound(w) ELSE Rebased(w, at.format)]
         /\ at' = IF w.next = 0 THEN Idle ELSE [at EXCEPT !.addr = @ + w.next]
  /\ UNCHANGED <<pc, n, file, img, perm, slide, entry, imports, stub_base, page>>

\* The rest of the chain is given up; loading goes on.
ChainLeaves_Retry ==
  /\ pc = "chains" /\ at # Idle /\ ~ rsd_as_mapped(at.addr)
  /\ UNCHANGED vars
ChainLeaves ==
  /\ pc = "chains" /\ at # Idle /\ ~ rsd_as_mapped(at.addr)
  /\ at' = Idle
  /\ UNCHANGED <<pc, n, file, img, mem, perm, slide, entry, imports, stub_base, page>>

ChainsEnd ==
  /\ pc = "chains" /\ at = Idle /\ PagesEnd /\ n = Len(Chained.starts)
  /\ pc' = "linked"
  /\ UNCHANGED <<n, file, img, mem, perm, slide, entry, imports, stub_base, page, at>>

-----------------------------------------------------------------------------
(* rsd_stubs_of() and rsd_stub_index(), by which the engine knows a call of *)
(* an import.                                                              *)

fns == [k \in 1 .. Len(imports) |-> IF imports[k].is_code THEN imports[k].native ELSE 0]
rsd_stub_index(addr) ==
  IF stub_base = 0 \/ addr < stub_base \/ addr - stub_base >= Len(imports) * Stride THEN -1
  ELSE (addr - stub_base) \div Stride

-----------------------------------------------------------------------------
Init ==
  /\ pc = "commands" /\ n = 0 /\ file \in Images /\ img = NoImage
  /\ mem = [c \in Cell |-> Unmapped] /\ perm = [c \in Cell |-> {}]
  /\ slide = 0 /\ entry = 0 /\ imports = <<>> /\ stub_base = 0 /\ page = 0
  /\ at = Idle

Next ==
  \/ LoadCommand \/ Place \/ LoadFails \/ CopySegment \/ CopyEnd \/ ProtectSegment \/ ProtectEnd
  \/ NoFixups \/ Resolve \/ FixupsFail \/ StartSegment \/ StartChain \/ FixUp \/ ChainLeaves \/ ChainsEnd

Spec == Init /\ [][Next]_vars

-----------------------------------------------------------------------------
(* What the linker wrote, and what it means.                               *)

SegmentsOf(f) == {k \in 1 .. Len(f.cmds) : IsSegment(f.cmds[k])}
TextOf(f) == IF \E k \in SegmentsOf(f) : f.cmds[k].name = "__TEXT"
             THEN f.cmds[CHOOSE k \in SegmentsOf(f) : f.cmds[k].name = "__TEXT"].vmaddr ELSE 0

\* The cell linked to be at address a, for each a of the image.
LinkedCells(f) == UNION {SegCells(f.cmds[k], 0) : k \in SegmentsOf(f)}
SegmentAt(f, a) == f.cmds[CHOOSE k \in SegmentsOf(f) : a \in SegCells(f.cmds[k], 0)]
FileCell(f, a) == LET s == SegmentAt(f, a)
                  IN  IF a - s.vmaddr < Len(s.data) THEN s.data[a - s.vmaddr + 1] ELSE Zero

Packed(f) == {a \in LinkedCells(f) : FileCell(f, a).kind # "value"}
NextOf(f, a) == a + FileCell(f, a).next

\* The pages with chains: page j of the k-th segment with fixups.
StartPage(f, k, j) ==
  LET s == f.chained.starts[k]
  IN  [segment |-> k, number |-> j, first |-> TextOf(f) + PageAt(s, j),
       start |-> TextOf(f) + PageAt(s, j) + s.page_start[j], format |-> s.format]
StartPages(f) ==
  UNION {{StartPage(f, k, j) :
            j \in {i \in 1 .. Len(f.chained.starts[k].page_start) :
                     f.chained.starts[k].page_start[i] # None}} : k \in 1 .. Len(f.chained.starts)}
Within(a, q) == a \in q.first .. (q.first + PageCells - 1)

\* What a linker sees to.  Segments do not overlap, hold their contents, and one
\* of them is the text.  A packed cell is in one page with a chain, at its start
\* or as the next of an earlier cell of the page; a chain starts and stays in its
\* page.
WellFormed(f) ==
  /\ \A k, j \in SegmentsOf(f) :
       k # j => /\ SegCells(f.cmds[k], 0) \cap SegCells(f.cmds[j], 0) = {}
                /\ f.cmds[k].name # "__TEXT" \/ f.cmds[j].name # "__TEXT"
  /\ \A k \in SegmentsOf(f) : Len(f.cmds[k].data) <= f.cmds[k].vmsize
  /\ \A q \in StartPages(f) : q.start \in Packed(f) /\ Within(q.start, q)
  /\ \A a \in Packed(f), q, r \in StartPages(f) : Within(a, q) /\ Within(a, r) => q = r
  /\ \A a \in Packed(f) :
       \E q \in StartPages(f) :
         /\ Within(a, q) /\ q.start <= a
         /\ a # q.start => \E b \in Packed(f) : Within(b, q) /\ b < a /\ NextOf(f, b) = a
         /\ FileCell(f, a).next # 0 => NextOf(f, a) \in Packed(f) /\ Within(NextOf(f, a), q)

ChainOf(f, a) == CHOOSE q \in StartPages(f) : Within(a, q)

\* The linked address that a rebase points to.
TargetOf(f, a) ==
  FileCell(f, a).target + (IF ChainOf(f, a).format = "64_offset" THEN TextOf(f) ELSE 0)

\* A pointer within the image points to where its target now is; a pointer to
\* a function is an address at which the engine finds that function, or that
\* there is none, and a pointer to data is the address of the data.
RightPointer(f, a, w) ==
  LET file_cell == FileCell(f, a)
      sym == f.chained.imports[file_cell.ordinal + 1]
  IN  IF file_cell.kind = "rebase"
      THEN w.high8 = file_cell.high8 /\ w.addr = TargetOf(f, a) + slide
      ELSE IF file_cell.ordinal >= Len(f.chained.imports) THEN w = Zero
      ELSE IF Loaded(sym) /\ ~ Symbols[sym].code THEN w = Value(Symbols[sym].addr + file_cell.addend)
      ELSE file_cell.addend < Stride =>
             /\ rsd_stub_index(w.addr) = file_cell.ordinal
             /\ fns[file_cell.ordinal + 1] = IF Loaded(sym) THEN Symbols[sym].addr ELSE 0
             /\ perm[w.addr] = {"r", "x"}

EntryCommands(f) == {k \in 1 .. Len(f.cmds) : f.cmds[k].cmd \in {"main", "unixthread"}}
LastEntry(f) == CHOOSE k \in EntryCommands(f) : \A j \in EntryCommands(f) : j <= k
LinkedEntry(f) ==
  LET c == f.cmds[LastEntry(f)]
  IN  IF c.cmd = "main" THEN TextOf(f) + c.off ELSE c.rip

-----------------------------------------------------------------------------
(* Properties.                                                             *)

\* When loading is done, all of the image is in its place, in the order of the
\* file, with each segment's permissions; every pointer means what the linker
\* meant by it, each having been fixed up once; and the entry point is the one
\* of the image.  An image that cannot slide did not, unless it is linked at 0.
LinkedRight(a) ==
  LET w == mem[a + slide]
  IN  /\ IF a \in Packed(file) THEN w.kind = "value" /\ RightPointer(file, a, w)
         ELSE w = FileCell(file, a)
      /\ perm[a + slide] = SegmentAt(file, a).initprot
Linked ==
  pc = "linked" /\ WellFormed(file) =>
    /\ img.fixups \/ Packed(file) = {} => \A a \in LinkedCells(file) : LinkedRight(a)
    /\ entry = LinkedEntry(file) + slide
    /\ file.pie \/ Lo = 0 \/ slide = 0

\* An image that is not position-independent lands on its linked address, or is
\* refused.
FixedStays == pc = "linked" => file.pie \/ slide = 0
=============================================================================
