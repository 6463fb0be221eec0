-------------------------------- MODULE ObjC --------------------------------
(***************************************************************************)
(* rsd_objc_prepare() of objc.c, which main() calls on an image that Loader  *)
(* has linked: selector references become canonical selectors, and each     *)
(* class of the image is registered with the native runtime, its methods    *)
(* behind trampolines (callback.c).  The image's own class structures stay  *)
(* as handles, which rsd_objc_real_class() maps to the registered classes.  *)
(*                                                                         *)
(* A class structure is three cells: isa, superclass and data.  Names,      *)
(* method lists and ivar lists are read where they lie in the image; here   *)
(* the file says what lies at an address.                                  *)
(***************************************************************************)
EXTENDS Loader, FiniteSets

CONSTANTS
  MaxClasses,   \* RSD_MAX_CLASSES
  TrampCount,   \* RSD_TRAMP_COUNT
  MaxMethods, MaxIvars,  \* the longest lists that are read: 4096 and 1024
  Selectors,    \* text -> the runtime's canonical selector
  ClassAddr, MetaAddr,  \* name -> the class and metaclass objects the runtime makes
  NativeNames,  \* names of the classes the runtime has already
  NativeSize,   \* class object of the runtime -> the size of its instances
  AnySize       \* the sizes a superclass may seem to have that is no class at all

\* The shape of a class's data.
MethodList == [small : BOOLEAN, entries : Seq([name : Nat, imp : Nat])]
Ivar == [offset : Nat, name : STRING, size : Nat]
ClassData == [name : STRING, methods : MethodList, ivars : Seq(Ivar)]

ASSUME ObjCAssumption ==
  /\ MaxClasses \in Nat /\ TrampCount \in Nat /\ MaxMethods \in Nat /\ MaxIvars \in Nat
  /\ AnySize \subseteq Nat /\ \A c \in DOMAIN NativeSize : c > Top /\ NativeSize[c] \in Nat
  /\ \A f \in Images : \A x \in DOMAIN f.ro : f.ro[x] \in ClassData
  /\ \A s \in DOMAIN Selectors : Selectors[s] > Top
  /\ \A s, t \in DOMAIN Selectors : Selectors[s] = Selectors[t] => s = t
  /\ \A c \in DOMAIN ClassAddr : ClassAddr[c] > Top /\ MetaAddr[c] > Top

VARIABLES
  runtime,    \* name -> what was registered under it
  class_map,  \* the remembered pairs, nclasses of them
  targets,    \* guest functions that have a trampoline
  refused     \* history: names for which the runtime made no class

objc == <<runtime, class_map, targets, refused>>
all == <<vars, objc>>

-----------------------------------------------------------------------------
\* rsd_find_sect(): the first section of that name, if there is one.
HasSection(name) == \E k \in 1 .. Len(img.sects) : img.sects[k].name = name
Section(name) ==
  img.sects[CHOOSE k \in 1 .. Len(img.sects) :
              img.sects[k].name = name /\ \A j \in 1 .. k - 1 : img.sects[j].name # name]

\* How many pointers the section has, and the place of the k-th.
Size(name) == IF HasSection(name) THEN Section(name).size ELSE 0
Pointer(name, k) == Section(name).addr + slide + k

TextAt(addr) == file.strings[addr - slide]

Prepare ==
  /\ pc = "linked"
  /\ pc' = "selrefs" /\ n' = 0
  /\ UNCHANGED <<file, img, mem, perm, slide, entry, imports, stub_base, page, at, objc>>

Skip == n' = n + 1 /\ UNCHANGED <<pc, file, img, mem, perm, slide, entry, imports, stub_base, page, at, objc>>

Canonical(c) == Value(Selectors[TextAt(mem[c].addr)])

SelectorRef ==
  /\ pc = "selrefs" /\ n < Size("__objc_selrefs")
  /\ LET c == Pointer("__objc_selrefs", n)
     IN  IF ~ rsd_as_mapped(c) \/ mem[c].addr = 0 THEN Skip
         ELSE /\ mem' = [mem EXCEPT ![c] = Canonical(c)]
              /\ n' = n + 1
              /\ UNCHANGED <<pc, file, img, perm, slide, entry, imports, stub_base, page, at, objc>>

SelectorsEnd ==
  /\ pc = "selrefs" /\ n = Size("__objc_selrefs")
  /\ pc' = "classes" /\ n' = 0
  /\ UNCHANGED <<file, img, mem, perm, slide, entry, imports, stub_base, page, at, objc>>

-----------------------------------------------------------------------------
(* register_class()                                                        *)

rsd_callback_for(used, g) ==
  IF Contains(used, g) \/ Len(used) = TrampCount THEN used ELSE Append(used, g)

\* One after another, for each of the implementations.
Pool(used, imps) ==
  LET pool[k \in 0 .. Len(imps)] == IF k = 0 THEN used ELSE rsd_callback_for(pool[k - 1], imps[k])
  IN  pool[Len(imps)]

\* each_method(): in a small list the name is the place of a selector reference,
\* in a big one a string that is made canonical here.
SelectorOf(list, e) ==
  IF list.small THEN mem[e.name + slide].addr ELSE Selectors[TextAt(e.name + slide)]
NoMethods == [small |-> FALSE, entries |-> <<>>]
Listed(list) == IF Len(list.entries) > MaxMethods THEN NoMethods ELSE list
Imps(list) == [k \in 1 .. Len(list.entries) |-> list.entries[k].imp + slide]

\* add_method(): without a trampoline, without a method.  class_addMethod() adds
\* none under a selector that has one.
Callable(list, used) == {k \in 1 .. Len(list.entries) : Contains(used, Imps(list)[k])}
Methods(list, used) ==
  {[sel |-> SelectorOf(list, list.entries[k]), imp |-> Imps(list)[k]] :
     k \in {j \in Callable(list, used) : \A i \in Callable(list, used) :
              i < j => SelectorOf(list, list.entries[i]) # SelectorOf(list, list.entries[j])}}

remember_Short(map, g, c) ==
  IF Len(map) + 1 < MaxClasses THEN Append(map, [guest |-> g, native |-> c]) ELSE map
remember(map, g, c) ==
  IF Len(map) < MaxClasses THEN Append(map, [guest |-> g, native |-> c]) ELSE map

Ro(g) == file.ro[mem[g + 2].addr - slide]
Superclass(g) == mem[g + 1].addr
Taken(name) == name \in NativeNames \cup DOMAIN runtime

\* Without data or superclass, or with a name that is taken, the class is left.
Registrable(g) == mem[g + 2].addr # 0 /\ Superclass(g) # 0 /\ ~ Taken(Ro(g).name)

\* objc_allocateClassPair(): a class begins with the instance of its superclass.
\* The size is anything when the superclass is not a class of the runtime.
KnownSuper(g) == Superclass(g) \in DOMAIN NativeSize
SuperSizes(g) == IF KnownSuper(g) THEN {NativeSize[Superclass(g)]} ELSE AnySize

\* add_ivars(): class_addIvar() puts each behind what is there, and refuses a name
\* that the class has.  Extents has the size of an instance after each of them.
Declared(ro) == IF Len(ro.ivars) > MaxIvars THEN <<>> ELSE ro.ivars
Added(ivars, k) == IF \E j \in 1 .. k - 1 : ivars[j].name = ivars[k].name THEN 0 ELSE ivars[k].size
Extents(start, ivars) ==
  LET size[k \in 0 .. Len(ivars)] == IF k = 0 THEN start ELSE size[k - 1] + Added(ivars, k) IN size

\* class_getInstanceVariable() and ivar_getOffset()
Index(ivars, name) ==
  CHOOSE k \in 1 .. Len(ivars) : ivars[k].name = name /\ \A j \in 1 .. k - 1 : ivars[j].name # name
ivar_getOffset(class, name) == class.extents[Index(class.ivars, name) - 1]
InstanceSize(class) == class.extents[Len(class.ivars)]

\* fix_ivar_offsets(): the offsets in the registered class go into the image.
IvarsAt(ivars, c) == {k \in 1 .. Len(ivars) : ivars[k].offset + slide = c}
IvarsFixed_Short(ivars, class) ==
  [c \in Cell |->
     IF IvarsAt(Front(ivars), c) = {} THEN mem[c]
     ELSE Value(ivar_getOffset(class, ivars[CHOOSE k \in IvarsAt(ivars, c) :
                                              \A j \in IvarsAt(ivars, c) : j <= k].name))]
IvarsFixed(ivars, class) ==
  [c \in Cell |->
     IF IvarsAt(ivars, c) = {} THEN mem[c]
     ELSE Value(ivar_getOffset(class, ivars[CHOOSE k \in IvarsAt(ivars, c) :
                                              \A j \in IvarsAt(ivars, c) : j <= k].name))]

\* objc_registerClassPair()
WithClass(name, class) ==
  [c \in DOMAIN runtime \cup {name} |-> IF c = name THEN class ELSE runtime[c]]

register_class(g) ==
  LET ro == Ro(g)
      meta == mem[g].addr
      list == Listed(ro.methods)
      mlist == IF meta # 0 /\ mem[meta + 2].addr # 0 THEN Listed(Ro(meta).methods) ELSE NoMethods
      used == Pool(targets, Imps(list) \o Imps(mlist))
      map == remember(class_map, g, ClassAddr[ro.name])
      ivars == Declared(ro)
  IN  \E size \in SuperSizes(g) :
      LET class == [super |-> Superclass(g), ivars |-> ivars, extents |-> Extents(size, ivars),
                    methods |-> Methods(list, used), class_methods |-> Methods(mlist, used)]
      IN  /\ targets' = used
          /\ runtime' = WithClass(ro.name, class)
          /\ mem' = IvarsFixed(ivars, class)
          /\ class_map' = IF meta # 0 THEN remember(map, meta, MetaAddr[ro.name]) ELSE map
          /\ n' = n + 1
          /\ UNCHANGED <<pc, file, img, perm, slide, entry, imports, stub_base, page, at, refused>>

\* objc_allocateClassPair() makes no class; nothing is remembered.
ClassRefused(g) ==
  /\ refused' = refused \cup {Ro(g).name}
  /\ n' = n + 1
  /\ UNCHANGED <<pc, file, img, mem, perm, slide, entry, imports, stub_base, page, at,
                 runtime, class_map, targets>>

RegisterClass ==
  /\ pc = "classes" /\ n < Size("__objc_classlist")
  /\ LET c == Pointer("__objc_classlist", n)
     IN  IF rsd_as_mapped(c) /\ mem[c].addr # 0 /\ Registrable(mem[c].addr)
         THEN register_class(mem[c].addr) \/ ClassRefused(mem[c].addr)
         ELSE Skip

ClassesEnd ==
  /\ pc = "classes" /\ n = Size("__objc_classlist")
  /\ pc' = "ready"
  /\ UNCHANGED <<n, file, img, mem, perm, slide, entry, imports, stub_base, page, at, objc>>

\* What a handle becomes when the guest passes it to the runtime.
MapIndices(x) == {k \in 1 .. Len(class_map) : class_map[k].guest = x}
rsd_objc_real_class(x) ==
  IF MapIndices(x) = {} THEN x
  ELSE class_map[CHOOSE k \in MapIndices(x) : \A j \in MapIndices(x) : k <= j].native

-----------------------------------------------------------------------------
ObjCInit ==
  Init /\ runtime = [c \in {} |-> 0] /\ class_map = <<>> /\ targets = <<>> /\ refused = {}

ObjCNext == \/ Next /\ UNCHANGED objc
            \/ Prepare \/ SelectorRef \/ SelectorsEnd \/ RegisterClass \/ ClassesEnd

\* Loading is one thread, which runs to its end.
ObjCSpec == ObjCInit /\ [][ObjCNext]_all /\ WF_all(ObjCNext)

-----------------------------------------------------------------------------
(* What a compiler writes for the classes of an image.                     *)

\* The sections of a name, and their cells.
SectionsOf(f, name) ==
  UNION {{s \in ToSet(f.cmds[k].sects) : s.name = name} : k \in SegmentsOf(f)}
CellsOf(f, name) == UNION {s.addr .. (s.addr + s.size - 1) : s \in SectionsOf(f, name)}

\* The plain pointers into the image.
Pointers(f) == {a \in Packed(f) : /\ FileCell(f, a).kind = "rebase" /\ FileCell(f, a).high8 = 0
                                  /\ TargetOf(f, a) \in LinkedCells(f)}

\* The classes by their linked addresses, and the parts of a class.
ClassesOf(f) == {TargetOf(f, a) : a \in CellsOf(f, "__objc_classlist")}
MetaOf(f, g) == TargetOf(f, g)
RoOf(f, g) == f.ro[TargetOf(f, g + 2)]
ClassCells(f, g) == {g, g + 2, MetaOf(f, g) + 2}
IvarCells(f, g) == {RoOf(f, g).ivars[k].offset : k \in 1 .. Len(RoOf(f, g).ivars)}

\* The text of the selector that a method is for.
MethodText(f, list, k) ==
  LET name == list.entries[k].name IN f.strings[IF list.small THEN TargetOf(f, name) ELSE name]

\* A class has its cells in the image, pointing to its metaclass and the data of
\* both.  Each ivar has a name, and a cell for its offset.  Small method lists go by way of
\* the selector references, and no list has two methods for one selector.
ClassFormed(f, g) ==
  /\ ClassCells(f, g) \subseteq Pointers(f) /\ g + 1 \in LinkedCells(f)
  /\ TargetOf(f, g + 2) \in DOMAIN f.ro /\ TargetOf(f, MetaOf(f, g) + 2) \in DOMAIN f.ro
  /\ IvarCells(f, g) \subseteq LinkedCells(f)
  /\ \A j, k \in 1 .. Len(RoOf(f, g).ivars) :
       j # k => /\ RoOf(f, g).ivars[j].offset # RoOf(f, g).ivars[k].offset
                /\ RoOf(f, g).ivars[j].name # RoOf(f, g).ivars[k].name
  /\ \A list \in {RoOf(f, g).methods, RoOf(f, MetaOf(f, g)).methods} :
       /\ list.small => \A k \in 1 .. Len(list.entries) : list.entries[k].name \in CellsOf(f, "__objc_selrefs")
       /\ \A k \in 1 .. Len(list.entries) : MethodText(f, list, k) \in DOMAIN Selectors
       /\ \A j, k \in 1 .. Len(list.entries) : MethodText(f, list, j) = MethodText(f, list, k) => j = k

\* Classes differ in name and metaclass, and no cell serves two purposes.
ClassesFormed(f) ==
  /\ \A name \in {"__objc_selrefs", "__objc_classlist"} : \A s, t \in SectionsOf(f, name) : s = t
  /\ CellsOf(f, "__objc_selrefs") \cup CellsOf(f, "__objc_classlist") \subseteq Pointers(f)
  /\ CellsOf(f, "__objc_selrefs") \cap CellsOf(f, "__objc_classlist") = {}
  /\ \A g \in ClassesOf(f) :
       /\ ClassFormed(f, g)
       /\ (ClassCells(f, g) \cup {g + 1}) \cap CellsOf(f, "__objc_selrefs") = {}
       /\ IvarCells(f, g) \cap (CellsOf(f, "__objc_selrefs") \cup CellsOf(f, "__objc_classlist")) = {}
  /\ \A g, h \in ClassesOf(f) :
       /\ MetaOf(f, g) # h /\ IvarCells(f, g) \cap (ClassCells(f, h) \cup {h + 1}) = {}
       /\ g # h => /\ RoOf(f, g).name # RoOf(f, h).name /\ MetaOf(f, g) # MetaOf(f, h)
                   /\ IvarCells(f, g) \cap IvarCells(f, h) = {}

-----------------------------------------------------------------------------
(* Properties.                                                             *)

Ready == pc = "ready" /\ WellFormed(file) /\ ClassesFormed(file) /\ img.fixups

\* The classes of the image as handles.
GuestClasses == {mem[c + slide].addr : c \in CellsOf(file, "__objc_classlist")}

\* Room was left for all of them: of the sections, the class map and the pool.
AllImps == UNION {ToSet(Imps(Ro(g).methods)) \cup ToSet(Imps(Ro(mem[g].addr).methods)) :
                    g \in GuestClasses}
RoomForAll == /\ HasSection("__objc_classlist") /\ HasSection("__objc_selrefs")
              /\ 2 * Cardinality(GuestClasses) <= MaxClasses
              /\ Cardinality(AllImps) <= TrampCount

\* A message the guest sends to a class of its own arrives: the handle becomes
\* the registered class, which has each method under the canonical selector,
\* leading to the guest's code where it was placed; the same for its class
\* methods.  Not so for a class whose name the runtime already had, that it
\* refused, or whose superclass is not one of its own, and for a list that is
\* longer than each_method() reads.
Arrives(list, methods) ==
  \A k \in 1 .. Len(list.entries) :
    [sel |-> Selectors[MethodText(file, list, k)], imp |-> list.entries[k].imp + slide] \in methods
MessagesArrive ==
  Ready /\ RoomForAll => \A g \in GuestClasses :
    LET own == Ro(g).methods
        meta == Ro(mem[g].addr).methods
    IN  KnownSuper(g) /\ Ro(g).name \notin NativeNames \cup refused =>
          /\ rsd_objc_real_class(g) = ClassAddr[Ro(g).name]
          /\ rsd_objc_real_class(mem[g].addr) = MetaAddr[Ro(g).name]
          /\ Len(own.entries) <= MaxMethods => Arrives(own, runtime[Ro(g).name].methods)
          /\ Len(meta.entries) <= MaxMethods => Arrives(meta, runtime[Ro(g).name].class_methods)

\* The offsets that compiled code reads are those of the registered class, which
\* has the superclass's instance first, as large as it is on this machine, and
\* its own ivars behind it, none over another.
OffsetAt(g, k) == mem[Ro(g).ivars[k].offset + slide].addr
IvarsApart(g) ==
  LET ivars == Ro(g).ivars
  IN  \A k \in 1 .. Len(ivars) :
        /\ OffsetAt(g, k) = ivar_getOffset(runtime[Ro(g).name], ivars[k].name)
        /\ NativeSize[Superclass(g)] <= OffsetAt(g, k)
        /\ \A j \in 1 .. k - 1 : OffsetAt(g, j) + ivars[j].size <= OffsetAt(g, k)
        /\ OffsetAt(g, k) + ivars[k].size <= InstanceSize(runtime[Ro(g).name])
IvarsInPlace ==
  Ready => \A g \in GuestClasses :
    Ro(g).name \in DOMAIN runtime /\ KnownSuper(g) /\ Len(Ro(g).ivars) <= MaxIvars => IvarsApart(g)

\* The runtime is only ever given classes it knows, its own or registered ones,
\* and never one of the image's structures.
SuperclassesReal ==
  \A name \in DOMAIN runtime : runtime[name].super \notin Cell

\* Loading comes to an end: the guest can start, or the image was refused.
LoadEnds == <>(pc \in {"ready", "failed"})
=============================================================================
