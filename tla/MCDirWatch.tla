---------------------------- MODULE MCDirWatch ----------------------------
(* Small instances of DirWatch for TLC.  Below the home directory, which   *)
(* has a CMakeLists.txt, the directory s holds the module s/m, with a      *)
(* CMakeLists.txt of its own and the directories s/m/a and s/m/b, and the  *)
(* directory s/mm.  A second project may have the module for its home.     *)
EXTENDS DirWatch

s   == << "s" >>
m   == << "s", "m" >>
mm  == << "s", "mm" >>
ma  == << "s", "m", "a" >>
mb  == << "s", "m", "b" >>

MCRank       == [d \in Dirs |-> CHOOSE i \in 1 .. 5 :
                                  << s, m, ma, mb, mm >>[i] = d]
MCNamePrefix == {<< "m", "mm" >>}
MCHomeOf     == [p \in Projects |-> IF p = 1 THEN << >> ELSE m]
MCModuleHome == [d \in Sources |-> IF d \in {s, mm} THEN << >> ELSE m]

MCDirs       == {s, m, mm, ma}
MCRemade     == {m, ma}
MCOutside    == {ma, mm}

MCModuleDirs == {s, m, ma, mb}
MCNoB        == << s, m, ma >>
MCLeaves     == {ma, mb}
MCTwo        == {s, m}
=============================================================================
