--------------------------- MODULE MCGuestMemory ----------------------------
(* Two usable host pages of four bytes, guest ranges cut at every second    *)
(* byte, accesses of one or two bytes.                                      *)
EXTENDS GuestMemory

MCAts == {0, 4, 6, 8}
MCLens == {0, 2, 4, 6}
\* For a guest that may ask for anything: a range that wraps past the end of
\* the word and back into the regions as well.
WildAts == {4, 8}
WildLens == {4, 8, 30}
MCProts == {{"R"}, {"R", "W"}}
=============================================================================
