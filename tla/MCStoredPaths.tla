--------------------------- MODULE MCStoredPaths ---------------------------
(* Two files of one module, one of another, and two homes.                 *)
EXTENDS StoredPaths

CONSTANTS h1, h2, f1, f2, f3

MCHomes == {h1, h2}
MCFiles == {f1, f2, f3}
MCModule == [f \in MCFiles |-> IF f = f3 THEN "m2" ELSE "m1"]
=============================================================================
