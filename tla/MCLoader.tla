------------------------------ MODULE MCLoader ------------------------------
(* Small images: a text segment before or after the data segment, chains with *)
(* gaps and of both formats, imports that are code, data, missing, or of a    *)
(* library beyond the limit, images that cannot slide, one of them linked at  *)
(* 0, and one that breaks each of the loader's rules.  Images with two classes, with big and   *)
(* small method lists, one of them under a name the runtime has.              *)
EXTENDS ObjC

Rebase(target, high8, next) == [kind |-> "rebase", target |-> target, high8 |-> high8, next |-> next]
Bind(ordinal, addend, next) == [kind |-> "bind", ordinal |-> ordinal, addend |-> addend, next |-> next]

Seg(name, vmaddr, vmsize, data, prot, sects) ==
  [cmd |-> "segment", name |-> name, vmaddr |-> vmaddr, vmsize |-> vmsize, data |-> data,
   initprot |-> prot, sects |-> sects]

Text(vm) == Seg("__TEXT", vm, 2, <<Value(7), Value(8)>>, {"r", "x"}, <<>>)
Data(vm, cells) == Seg("__DATA", vm, Len(cells) + 1, cells, {"r", "w"}, <<>>)
Zeropage == Seg("__PAGEZERO", 0, 2, <<>>, {}, <<>>)
Other == [cmd |-> "other"]
Main(off) == [cmd |-> "main", off |-> off]
Thread(rip) == [cmd |-> "unixthread", rip |-> rip]
Dylib(lib) == [cmd |-> "dylib", lib |-> lib]
Fixups == [cmd |-> "chained_fixups", size |-> 1]

Starts(format, offset, pages) == [format |-> format, offset |-> offset, page_start |-> pages]
Chains(names, starts) ==
  [version |-> 0, imports_format |-> 1, imports |-> names, starts |-> starts]

\* Two pages of data: a chain over the first with a hole, one cell in the second.
Cells(target) == <<Rebase(target, 3, 2), Value(5), Bind(0, 0, 1), Bind(1, 1, 0),
                   Value(6), Bind(2, 0, 1), Bind(3, 0, 0)>>
Imports == <<"puts", "environ", "weak">>

Image(pie, cmds, chained) ==
  [pie |-> pie, cmds |-> cmds, chained |-> chained, strings |-> <<>>, ro |-> <<>>]

\* Selector strings at 2, 3 and 29, implementations at 4 and 5, class data at 6 to 9.
Sect(name, addr, size) == [name |-> name, addr |-> addr, size |-> size]
Selrefs == Sect("__objc_selrefs", 10, 2)
Classlist == Sect("__objc_classlist", 12, 2)

\* Selector references, class list, the classes A and B with their metaclasses,
\* all of it one chain per page, then the offsets of ivars as they were linked.
Targets(super) ==
  <<<<2>>, <<3>>, <<14>>, <<20>>,
    <<17>>, <<>>, <<6>>,   <<17>>, <<>>, <<7>>,
    <<23>>, super, <<8>>,  <<23>>, <<>>, <<9>>>>
PointerCells(super, base) ==
  [k \in 1 .. 16 |-> LET next == IF k % PageCells = 0 THEN 0 ELSE 1
                     IN  IF Targets(super)[k] = <<>> THEN Bind(0, 0, next)
                         ELSE Rebase(Targets(super)[k][1] - base, 0, next)]
    \o <<Value(1), Value(3), Value(4)>>

Ro_(name, small, entries, ivars) ==
  [name |-> name, methods |-> [small |-> small, entries |-> entries], ivars |-> ivars]
Entry_(name, imp) == [name |-> name, imp |-> imp]

\* A has ivars behind a superclass whose instances had one cell.
Ivar_(offset, name, size) == [offset |-> offset, name |-> name, size |-> size]
TwoIvars == <<Ivar_(26, "hits", 2), Ivar_(27, "last", 1)>>

ObjCImage(format, nameB, super, sects, ivars, more) ==
  [pie |-> TRUE,
   cmds |-> <<Seg("__TEXT", 2, 8, [k \in 1 .. 8 |-> Value(k)], {"r", "x"}, <<>>),
              Seg("__DATA", 10, 20, PointerCells(super, IF format = "64" THEN 0 ELSE 2), {"r", "w"}, sects),
              Main(2), Fixups>>,
   chained |-> Chains(<<"NSObject">>, <<Starts(format, 8, <<0, 0, 0, 0, None>>)>>),
   strings |-> [a \in {2, 3, 29} |-> CASE a = 2 -> "greet" [] a = 3 -> "make" [] a = 29 -> "send"],
   ro |-> [a \in 6 .. 9 |->
             CASE a = 6 -> Ro_("A", FALSE, <<Entry_(2, 4)>>, ivars)
               [] a = 7 -> Ro_("A", TRUE, <<Entry_(11, 5)>>, <<>>)
               [] a = 8 -> Ro_(nameB, TRUE, <<Entry_(10, 5)>>, <<>>)
               [] a = 9 -> Ro_(nameB, FALSE, <<Entry_(2, 4)>> \o more, <<>>)]]

\* The second class is new, or has a name of the runtime's, or is a subclass of the
\* first, or needs one trampoline more than there are; lists of methods and ivars
\* that are longer than what is read; one section more than is recorded.
ClassImages ==
  {ObjCImage("64_offset", "B", <<>>, <<Selrefs, Classlist>>, TwoIvars, <<Entry_(3, 5)>>),
   ObjCImage("64", "NSObject", <<>>, <<Classlist, Selrefs>>, TwoIvars, <<>>),
   ObjCImage("64", "B", <<14>>, <<Selrefs, Classlist>>, <<Ivar_(26, "hits", 2)>>, <<Entry_(3, 3)>>),
   ObjCImage("64", "B", <<>>, <<Selrefs, Classlist>>, Append(TwoIvars, Ivar_(28, "next", 1)),
             <<Entry_(3, 5), Entry_(29, 4)>>),
   ObjCImage("64", "B", <<>>, <<Selrefs, Sect("__data", 26, 1), Classlist>>, TwoIvars, <<>>)}

MCImages ==
  ClassImages \cup
  {Image(TRUE, <<Zeropage, Text(2), Data(4, Cells(1)), Main(1), Dylib("libA"), Dylib("libB"), Fixups, Other>>,
         Chains(Imports, <<Starts("64_offset", 2, <<0, 1>>)>>)),
   Image(TRUE, <<Main(1), Data(4, Cells(3)), Text(2), Dylib("libB"), Dylib("libA"), Fixups>>,
         Chains(Imports, <<Starts("64", 2, <<0, 1>>)>>)),
   Image(FALSE, <<Text(2), Data(4, <<Rebase(2, 0, 0)>>), Thread(3), Fixups>>,
         Chains(<<>>, <<Starts("64", 0, <<None>>), Starts("64", 2, <<0>>)>>)),
   Image(TRUE, <<Text(2), Main(0), Thread(3), [cmd |-> "chained_fixups", size |-> 0]>>, Chains(<<>>, <<>>)),
   \* Not position-independent, and linked at 0.
   Image(FALSE, <<Text(0), Data(2, <<Rebase(1, 0, 0)>>), Thread(1), Fixups>>,
         Chains(<<>>, <<Starts("64", 2, <<0>>)>>)),
   \* A chain that leaves the image, and files that are refused.
   Image(TRUE, <<Text(2), Data(4, <<Rebase(2, 0, 9)>>), Main(0), Fixups>>,
         Chains(<<>>, <<Starts("64", 2, <<0>>)>>)),
   Image(TRUE, <<Text(2), Data(4, <<>>), Text(6), Main(0)>>, Chains(<<>>, <<>>)),
   Image(TRUE, <<Text(2), Main(0), Fixups>>, Chains(<<>>, <<Starts("32", 0, <<>>)>>)),
   Image(TRUE, <<Text(2), Main(0), Fixups>>,
         [version |-> 1, imports_format |-> 1, imports |-> <<>>, starts |-> <<>>])}

MCSymbols == [s \in {"puts", "environ", "NSObject"} |->
                CASE s = "puts" -> [lib |-> "libA", addr |-> 101, code |-> TRUE]
                  [] s = "environ" -> [lib |-> "libB", addr |-> 111, code |-> FALSE]
                  [] s = "NSObject" -> [lib |-> "host", addr |-> 121, code |-> FALSE]]
MCSelectors == [s \in {"greet", "make", "send"} |->
                  CASE s = "greet" -> 201 [] s = "make" -> 202 [] s = "send" -> 203]
MCClassAddr == [c \in {"A", "B"} |-> IF c = "A" THEN 301 ELSE 302]
MCMetaAddr == [c \in {"A", "B"} |-> IF c = "A" THEN 311 ELSE 312]
MCNativeNames == {"NSObject"}
MCNativeSize == [c \in {121} |-> 2]
=============================================================================
