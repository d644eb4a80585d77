---------------------------- MODULE MCRegistry ----------------------------
(***************************************************************************)
(* Two projects and two directories.  The configurations swap the homes,   *)
(* leave a project out, and name a project twice.                          *)
(***************************************************************************)
EXTENDS Registry

CONSTANTS p1, p2, h1, h2

Entry(n, h) == [name |-> n, home |-> h, BuildDir |-> "absolute"]
Relative(n, h) == [name |-> n, home |-> h, BuildDir |-> "relative"]

MCNames == {p1, p2}
MCHomes == {h1, h2}
MCConfigs ==
  {<<Entry(p1, h1), Entry(p2, h2)>>,
   <<Entry(p2, h1), Relative(p1, h2)>>,
   <<Relative(p1, h1)>>,
   <<Entry(p1, h1), Entry(p1, h2)>>,
   <<Entry(p1, h1), Relative(p1, h1), Entry(p2, h2)>>}
=============================================================================
