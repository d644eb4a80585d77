---------------------------- MODULE StoredPaths ----------------------------
(***************************************************************************)
(* The form in which the locations of a symbol are stored and answered.    *)
(* WriteFileDefinitions stores a symbol that is new in a file under the    *)
(* relative path of the file, and one whose line changed under the path    *)
(* that clang reports, which is absolute.  The lookups make a relative     *)
(* path absolute under the present home of the project, all but one: the   *)
(* lookup from a file without a location in its own module answers with    *)
(* the first location as it is stored.                                     *)
(*                                                                         *)
(* One symbol of one project is followed, while its files are edited and   *)
(* parsed and the tree of the project is moved to another home, with all   *)
(* of its files (Project::ChangeHome at the next start).  A path outside   *)
(* of the home has no module.  Deletions and failures are in SymbolIndex.  *)
(***************************************************************************)
EXTENDS Integers, Sequences, FiniteSetsExt

CONSTANTS
  Homes,    \* directories that the project may be in
  Relative, \* the base of a relative path
  Files,    \* relative paths of the sources
  Module,   \* the module of each file
  NoModule, \* the empty module name
  MaxLine,  \* bound: lines
  MaxMoves  \* bound: changes of the home

ASSUME StoredPathsAssumption ==
  /\ Relative \notin Homes
  /\ NoModule \notin {Module[f] : f \in Files}
  /\ DOMAIN Module = Files
  /\ MaxLine \in Nat /\ MaxMoves \in Nat

VARIABLES
  home,  \* home_path_
  locs,  \* the locations in the record of the symbol
  listed,\* the files whose own record lists the symbol
  moves  \* changes of the home so far

vars == <<home, locs, listed, moves>>

Lines == 1 .. MaxLine
Location == [base : Homes \cup {Relative}, file : Files, line : Lines]

\* An invalid location has no path.
Invalid == [line |-> 0]

Init ==
  /\ home \in Homes
  /\ locs = << >>
  /\ listed = {}
  /\ moves = 0

-----------------------------------------------------------------------------

GetModuleName(loc) ==
  IF loc.base \in {Relative, home} THEN Module[loc.file] ELSE NoModule

\* Mutant: a relative path is answered as it is stored.
absolute_path_AsStored(loc) == loc

absolute_path(loc) == IF loc.base = Relative THEN [loc EXCEPT !.base = home] ELSE loc

\* The place of the first location with a module name, 0 if there is none.
FirstOf(name) ==
  LET of == {i \in DOMAIN locs : GetModuleName(locs[i]) = name}
  IN IF of = {} THEN 0 ELSE Min(of)

\* QuerySymbolDefinition(symbol): all locations.
QueryAll == {absolute_path(locs[i]) : i \in DOMAIN locs}

\* QuerySymbolDefinition(symbol, path), for a path in the project.
QueryFrom(f) ==
  LET i == FirstOf(Module[f])
  IN CASE i # 0 -> absolute_path(locs[i])
       [] i = 0 /\ locs # << >> -> locs[1]
       [] OTHER -> Invalid

\* Mutant: the location of the module is not replaced.
AddSymbolLocation_Append(f, loc) == Append(locs, loc)

AddSymbolLocation(f, loc) ==
  LET i == FirstOf(Module[f])
  IN IF i = 0 THEN Append(locs, loc) ELSE [locs EXCEPT ![i] = loc]

\* The location that clang reports.
Reported(f, line) == [base |-> home, file |-> f, line |-> line]

\* WriteFileDefinitions for a file that defines the symbol at a line.
Parse(f, line) ==
  /\ listed' = listed \cup {f}
  /\ locs' = CASE f \notin listed ->
                    AddSymbolLocation(f, [base |-> Relative, file |-> f, line |-> line])
               [] f \in listed /\ QueryFrom(f) = Reported(f, line) -> locs
               [] OTHER -> AddSymbolLocation(f, Reported(f, line))
  /\ UNCHANGED <<home, moves>>

\* Mutant: only the record of the file is updated.
ParseWithout_FileOnly(f) ==
  /\ f \in listed
  /\ listed' = listed \ {f}
  /\ UNCHANGED <<home, locs, moves>>

\* WriteFileDefinitions for a file that no longer defines it: the record of the
\* symbol is deleted.
ParseWithout(f) ==
  /\ f \in listed
  /\ listed' = listed \ {f}
  /\ locs' = << >>
  /\ UNCHANGED <<home, moves>>

ChangeHome(h) ==
  /\ h # home /\ moves < MaxMoves
  /\ home' = h /\ moves' = moves + 1
  /\ UNCHANGED <<locs, listed>>

Next ==
  \/ \E f \in Files : ParseWithout(f) \/ \E line \in Lines : Parse(f, line)
  \/ \E h \in Homes : ChangeHome(h)

Spec == Init /\ [][Next]_vars

-----------------------------------------------------------------------------
(* Properties                                                              *)

\* Types, and every location is in a file whose own record lists the symbol.
TypeOK ==
  /\ home \in Homes
  /\ locs \in Seq(Location)
  /\ listed \subseteq Files
  /\ moves \in 0 .. MaxMoves
  /\ \A i \in DOMAIN locs : locs[i].file \in listed

\* WriteFileDefinitions, QuerySymbolDefinition: a lookup from a file that was just
\* parsed leads to that file, under the present home and at its line,
\* whatever form the earlier locations have and wherever the project was.
AnswerFollowsParse ==
  [][\A f \in Files, line \in Lines :
       Parse(f, line) =>
         QueryFrom(f)' = [base |-> home, file |-> f, line |-> line]]_vars

\* QuerySymbolDefinition: all answers are files of the project where it is now.
AnswersUnderHome == \A loc \in QueryAll : loc.base = home

\* WriteFileDefinitions, QuerySymbolDefinition: while the project stays where it
\* was made, no answer is left relative or leads elsewhere, although relative
\* and absolute locations are stored side by side.
UnmovedAnswers == moves = 0 => AnswersUnderHome

\* Location.h, filename_: every answer has an absolute path.
AnswersAbsolute ==
  \A f \in Files : QueryFrom(f) # Invalid => QueryFrom(f).base # Relative
=============================================================================
