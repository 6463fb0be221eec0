---------------------------- MODULE MCCheckMode ----------------------------
(* Five bytes of memory, of which the last is the guest's to write and not to *)
(* read; a window of three, cut short near the end.  Programs store, load and *)
(* add with overlaps; compiled code does the same, a byte too wide or to     *)
(* another place.                                                            *)
EXTENDS CheckMode

I(kind, addr, size) == [kind |-> kind, addr |-> addr, size |-> size]
C(kind, addr, size, slip) == [kind |-> kind, addr |-> addr, size |-> size, slip |-> slip]

MCReadable == 0 .. 3
MCWritable == 1 .. 4
MCGuest == 0 .. 3
MCInsns == {I("load", 1, 1), I("rmw", 1, 2), I("put2", 2, 2), I("mov", 4, 1), I("mov", 0, 1)}
MCCode == {C(o.kind, o.addr, o.size, 0) : o \in MCInsns}
            \cup {C("rmw", 1, 2, 1), C("put", 1, 1, 2)}
=============================================================================
