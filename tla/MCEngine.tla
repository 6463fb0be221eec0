------------------------------ MODULE MCEngine ------------------------------
(* One import with a thunk and one without; guest code is one or two         *)
(* addresses, which is enough to tell a return to the right place from one   *)
(* to the wrong place.                                                       *)
EXTENDS Engine, TLC

CONSTANTS f, g, x, y, imp, gone
OneFunction == {f}
TwoFunctions == {f, g}
MCValues == {x, y}
MCImports == {imp}
MCMissing == {gone}
Interchangeable == Permutations({x, y})
=============================================================================
