-------------------------- MODULE StoredPathsProofs --------------------------
(***************************************************************************)
(* For all homes, files and modules, however often a project moves: a      *)
(* lookup from a file that was just parsed leads to it, and without a move *)
(* every answer is under the home.                                         *)
(***************************************************************************)
EXTENDS StoredPaths, FiniteSetTheorems, WellFoundedInduction, TLAPS

\* A nonempty set of numbers has a least element.
LEMMA Least ==
  ASSUME NEW T \in SUBSET Nat, T # {}
  PROVE  \E x \in T : \A y \in T : x <= y
  <1> DEFINE below(x) == 0 .. x
             family   == {below(x) : x \in T}
  <1>1. family \subseteq FiniteSubsetsOf(Nat) /\ family # {}
    <2>1. \A x \in T : below(x) \in SUBSET Nat /\ IsFiniteSet(below(x))
      BY FS_Interval
    <2> QED
      BY <2>1 DEF FiniteSubsetsOf
  <1>2. PICK m \in family : \A l \in family : <<l, m>> \notin StrictSubsetOrdering(Nat)
    <2> HIDE DEF family
    <2> QED
      BY <1>1, FS_StrictSubsetOrderingWellFounded, WFMin
  <1>3. PICK x \in T : m = below(x)
    BY <1>2
  <1>4. ASSUME NEW y \in T, ~(x <= y)
        PROVE  FALSE
    <2>1. below(y) \subseteq below(x) /\ below(y) # below(x)
      <3>1. x \in below(x) /\ x \notin below(y)
        BY <1>4
      <3>2. below(y) \subseteq below(x)
        BY <1>4
      <3> QED
        BY <3>1, <3>2
    <2>2. below(y) \in SUBSET Nat /\ below(x) \in SUBSET Nat
      OBVIOUS
    <2>3. <<below(y), below(x)>> \notin StrictSubsetOrdering(Nat)
      BY <1>2, <1>3
    <2> HIDE DEF below
    <2> QED
      BY <2>1, <2>2, <2>3 DEF StrictSubsetOrdering
  <1> QED
    BY <1>4

-----------------------------------------------------------------------------
(* The first location of a module.                                         *)

Of(name) == {i \in DOMAIN locs : GetModuleName(locs[i]) = name}

LEMMA FirstIsThere ==
  ASSUME locs \in Seq(Location), NEW name
  PROVE  /\ Of(name) = {} => FirstOf(name) = 0
         /\ Of(name) # {} => /\ FirstOf(name) \in Of(name)
                             /\ FirstOf(name) # 0
  <1>1. Of(name) \in SUBSET Nat /\ 0 \notin Of(name)
    BY DEF Of
  <1>2. FirstOf(name) = IF Of(name) = {} THEN 0 ELSE Min(Of(name))
    BY DEF FirstOf, Of
  <1>3. Of(name) # {} => Min(Of(name)) \in Of(name)
    <2>1. ASSUME Of(name) # {}
          PROVE  \E x \in Of(name) : \A y \in Of(name) : x <= y
      BY <1>1, <2>1, Least
    <2> QED
      BY <2>1 DEF Min
  <1> QED
    BY <1>1, <1>2, <1>3

LEMMA MinOfOne == ASSUME NEW n \in Nat PROVE Min({n}) = n
  <1>1. n <= n
    OBVIOUS
  <1>2. \E x \in {n} : \A y \in {n} : x <= y
    BY <1>1
  <1> QED
    BY <1>2 DEF Min

LEMMA AddedType ==
  ASSUME locs \in Seq(Location), NEW f \in Files, NEW loc \in Location
  PROVE  /\ AddSymbolLocation(f, loc) \in Seq(Location)
         /\ \A i \in DOMAIN AddSymbolLocation(f, loc) :
              \/ AddSymbolLocation(f, loc)[i] = loc
              \/ i \in DOMAIN locs /\ AddSymbolLocation(f, loc)[i] = locs[i]
  <1> DEFINE i == FirstOf(Module[f])
  <1>1. CASE i = 0
    <2>1. AddSymbolLocation(f, loc) = Append(locs, loc)
      BY <1>1 DEF AddSymbolLocation
    <2> QED
      BY <2>1
  <1>2. CASE i # 0
    <2>1. AddSymbolLocation(f, loc) = [locs EXCEPT ![i] = loc] /\ i \in DOMAIN locs
      BY <1>2, FirstIsThere DEF AddSymbolLocation, Of
    <2> HIDE DEF i
    <2>2. [locs EXCEPT ![i] = loc] \in Seq(Location)
      BY <2>1
    <2>3. \A k \in DOMAIN [locs EXCEPT ![i] = loc] :
            k \in DOMAIN locs
            /\ [locs EXCEPT ![i] = loc][k] = IF k = i THEN loc ELSE locs[k]
      BY <2>1
    <2> QED
      BY <2>1, <2>2, <2>3
  <1> QED
    BY <1>1, <1>2

\* The location that is added for a file becomes the one that a lookup from the
\* file finds.
LEMMA AddedIsFound ==
  ASSUME locs \in Seq(Location), NEW f \in Files, NEW loc \in Location,
         GetModuleName(loc) = Module[f],
         locs' = AddSymbolLocation(f, loc), home' = home
  PROVE  QueryFrom(f)' = absolute_path(loc)
  <1> DEFINE name == Module[f]
             i    == FirstOf(name)
             n    == Len(locs) + 1
  <1>1. locs' \in Seq(Location)
    BY AddedType
  <1>2. CASE i = 0
    <2>1. locs' = Append(locs, loc) /\ Of(name) = {}
      BY <1>2, FirstIsThere DEF AddSymbolLocation
    <2>2. n \in Nat /\ DOMAIN locs' = 1 .. n /\ locs'[n] = loc
          /\ \A k \in 1 .. n : k # n => k \in DOMAIN locs /\ locs'[k] = locs[k]
      BY <2>1
    <2>3. Of(name)' = {n}
      <3>1. n \in Of(name)'
        BY <2>2 DEF Of, GetModuleName
      <3>2. \A k \in Of(name)' : k = n
        BY <2>1, <2>2 DEF Of, GetModuleName
      <3> QED
        BY <3>1, <3>2
    <2>4. FirstOf(name)' = n /\ n # 0
      <3> HIDE DEF name, n
      <3>1. FirstOf(name)' = Min(Of(name)')
        BY <2>3 DEF FirstOf, Of
      <3> QED
        BY <2>2, <2>3, <3>1, MinOfOne DEF n
    <2> QED
      BY <2>2, <2>4 DEF QueryFrom, absolute_path
  <1>3. CASE i # 0
    <2>1. locs' = [locs EXCEPT ![i] = loc] /\ i \in Of(name)
      BY <1>3, FirstIsThere DEF AddSymbolLocation
    <2> HIDE DEF i
    <2>2. DOMAIN locs' = DOMAIN locs /\ i \in DOMAIN locs /\ locs'[i] = loc
          /\ \A k \in DOMAIN locs : k # i => locs'[k] = locs[k]
      BY <2>1 DEF Of
    <2>3. Of(name)' = Of(name)
      <3>1. \A k \in DOMAIN locs :
              GetModuleName(locs[k])' = name <=> GetModuleName(locs[k]) = name
        BY <2>1, <2>2 DEF Of, GetModuleName
      <3> QED
        BY <2>2, <3>1 DEF Of
    <2>4. FirstOf(name)' = FirstOf(name)
      BY <2>3 DEF FirstOf, Of
    <2> QED
      BY <1>3, <2>2, <2>4 DEF QueryFrom, absolute_path, i
  <1> QED
    BY <1>2, <1>3

-----------------------------------------------------------------------------
(* The invariant.                                                          *)

LEMMA ReportedType ==
  ASSUME TypeOK, NEW f \in Files, NEW line \in Lines
  PROVE  /\ Reported(f, line) \in Location
         /\ [base |-> Relative, file |-> f, line |-> line] \in Location
         /\ GetModuleName(Reported(f, line)) = Module[f]
         /\ GetModuleName([base |-> Relative, file |-> f, line |-> line]) = Module[f]
         /\ absolute_path(Reported(f, line)) = Reported(f, line)
         /\ absolute_path([base |-> Relative, file |-> f, line |-> line])
              = Reported(f, line)
  BY StoredPathsAssumption DEF TypeOK, Reported, Location, GetModuleName, absolute_path

\* A parse keeps the locations or adds one of the file, in either form.
LEMMA ParseAdds ==
  ASSUME NEW f \in Files, NEW line \in Lines, Parse(f, line)
  PROVE  /\ listed' = listed \cup {f} /\ UNCHANGED <<home, moves>>
         /\ \/ locs' = locs /\ QueryFrom(f) = Reported(f, line)
            \/ locs' = AddSymbolLocation(f, Reported(f, line))
            \/ locs' = AddSymbolLocation(f,
                         [base |-> Relative, file |-> f, line |-> line])
  BY DEF Parse

LEMMA StepType == TypeOK /\ [Next]_vars => TypeOK'
  <1> SUFFICES ASSUME TypeOK, [Next]_vars PROVE TypeOK'
    OBVIOUS
  <1>1. ASSUME NEW f \in Files, ParseWithout(f) PROVE TypeOK'
    BY <1>1 DEF TypeOK, ParseWithout
  <1>2. ASSUME NEW f \in Files, NEW line \in Lines, Parse(f, line) PROVE TypeOK'
    <2>1. ASSUME NEW loc \in Location, loc.file = f,
                 locs' = AddSymbolLocation(f, loc)
          PROVE  TypeOK'
      <3>1. locs' \in Seq(Location)
            /\ \A i \in DOMAIN locs' : locs'[i] = loc \/ (i \in DOMAIN locs /\ locs'[i] = locs[i])
        BY <2>1, AddedType DEF TypeOK
      <3> QED
        BY <1>2, <2>1, <3>1, ParseAdds DEF TypeOK
    <2>2. CASE locs' = locs
      BY <1>2, <2>2, ParseAdds DEF TypeOK
    <2>3. Reported(f, line).file = f /\ Reported(f, line) \in Location
      BY ReportedType DEF Reported
    <2>4. [base |-> Relative, file |-> f, line |-> line] \in Location
      BY ReportedType
    <2> QED
      BY <1>2, <2>1, <2>2, <2>3, <2>4, ParseAdds
  <1>3. ASSUME NEW h \in Homes, ChangeHome(h) PROVE TypeOK'
    BY <1>3, StoredPathsAssumption DEF TypeOK, ChangeHome
  <1>4. CASE UNCHANGED vars
    BY <1>4 DEF TypeOK, vars
  <1> QED
    BY <1>1, <1>2, <1>3, <1>4 DEF Next

\* The record of a symbol stays well formed, and its locations are in files whose
\* own records list the symbol (WriteFileDefinitions).
THEOREM StoredPathsTypeCorrect == Spec => []TypeOK
  <1>1. Init => TypeOK
    BY StoredPathsAssumption DEF Init, TypeOK
  <1> QED
    BY <1>1, StepType, PTL DEF Spec

\* A lookup from a file that was just parsed leads to that file at its new line,
\* whatever forms the stored locations have and however often the project has
\* moved (WriteFileDefinitions, QuerySymbolDefinition).
THEOREM LookupFollowsParse == Spec => AnswerFollowsParse
  <1>1. ASSUME TypeOK, NEW f \in Files, NEW line \in Lines, Parse(f, line)
        PROVE  QueryFrom(f)' = [base |-> home, file |-> f, line |-> line]
    <2>1. ASSUME NEW loc \in Location, GetModuleName(loc) = Module[f],
                 absolute_path(loc) = Reported(f, line),
                 locs' = AddSymbolLocation(f, loc)
          PROVE  QueryFrom(f)' = Reported(f, line)
      BY <1>1, <2>1, AddedIsFound, ParseAdds DEF TypeOK
    <2>2. CASE locs' = locs /\ QueryFrom(f) = Reported(f, line)
      <3>1. home' = home
        BY <1>1, ParseAdds
      <3>2. FirstOf(Module[f])' = FirstOf(Module[f])
        BY <2>2, <3>1 DEF FirstOf, GetModuleName
      <3>3. QueryFrom(f)' = QueryFrom(f)
        BY <2>2, <3>1, <3>2 DEF QueryFrom, absolute_path
      <3> QED
        BY <2>2, <3>3 DEF Reported
    <2> QED
      BY <1>1, <2>1, <2>2, ParseAdds, ReportedType DEF Reported
  <1>2. TypeOK => [\A f \in Files, line \in Lines :
                     Parse(f, line) =>
                       QueryFrom(f)' = [base |-> home, file |-> f, line |-> line]]_vars
    BY <1>1
  <1> QED
    BY <1>2, StoredPathsTypeCorrect, PTL DEF AnswerFollowsParse

\* A project that was not moved has no location elsewhere.
AtHome == moves = 0 => \A i \in DOMAIN locs : locs[i].base \in {Relative, home}

\* As long as the project stays where it was made, every location that is listed
\* for a symbol is under its home (QuerySymbolDefinition).
THEOREM HomeAnswers == Spec => []UnmovedAnswers
  <1>1. Init => AtHome
    BY DEF Init, AtHome
  <1>2. TypeOK /\ AtHome /\ [Next]_vars => AtHome'
    <2> SUFFICES ASSUME TypeOK, AtHome, [Next]_vars PROVE AtHome'
      OBVIOUS
    <2>1. ASSUME NEW f \in Files, ParseWithout(f) PROVE AtHome'
      BY <2>1 DEF AtHome, ParseWithout
    <2>2. ASSUME NEW f \in Files, NEW line \in Lines, Parse(f, line) PROVE AtHome'
      <3>1. ASSUME NEW loc \in Location, loc.base \in {Relative, home},
                   locs' = AddSymbolLocation(f, loc)
            PROVE  AtHome'
        <4>1. \A i \in DOMAIN locs' : locs'[i] = loc \/ (i \in DOMAIN locs /\ locs'[i] = locs[i])
          BY <3>1, AddedType DEF TypeOK
        <4> QED
          BY <2>2, <3>1, <4>1, ParseAdds DEF AtHome
      <3>2. CASE locs' = locs
        BY <2>2, <3>2, ParseAdds DEF AtHome
      <3>3. Reported(f, line) \in Location /\ Reported(f, line).base = home
        BY ReportedType DEF Reported
      <3>4. [base |-> Relative, file |-> f, line |-> line] \in Location
        BY ReportedType
      <3> QED
        BY <2>2, <3>1, <3>2, <3>3, <3>4, ParseAdds
    <2>3. ASSUME NEW h \in Homes, ChangeHome(h) PROVE AtHome'
      BY <2>3 DEF ChangeHome, TypeOK, AtHome
    <2>4. CASE UNCHANGED vars
      BY <2>4 DEF AtHome, vars
    <2> QED
      BY <2>1, <2>2, <2>3, <2>4 DEF Next
  <1>3. TypeOK /\ AtHome => UnmovedAnswers
    <2> SUFFICES ASSUME TypeOK, AtHome, moves = 0, NEW i \in DOMAIN locs
                 PROVE  absolute_path(locs[i]).base = home
      BY DEF UnmovedAnswers, AnswersUnderHome, QueryAll
    <2>1. locs[i] \in Location /\ locs[i].base \in {Relative, home}
      BY DEF TypeOK, AtHome
    <2>2. CASE locs[i].base = Relative
      BY <2>1, <2>2 DEF absolute_path, Location
    <2>3. CASE locs[i].base # Relative
      BY <2>1, <2>3 DEF absolute_path
    <2> QED
      BY <2>2, <2>3
  <1> QED
    BY <1>1, <1>2, <1>3, StoredPathsTypeCorrect, PTL DEF Spec
=============================================================================
