---------------------------- MODULE SymbolStore ----------------------------
(***************************************************************************)
(* The symbol database of one project (Project::symbol_db_, a LevelDB) and *)
(* the updates that Project.cpp makes to it, as operators on a record      *)
(*                                                                         *)
(*   info[f]      "file:info:<f>"     DB_FileBasicInfo, or NoInfo          *)
(*   fileDefs[f]  "file:symdef:<f>"   the symbols file f defines           *)
(*   symDefs[s]   "symdef:<s>"        the locations that define symbol s   *)
(*   fileRefs[f]  "file:symref:<f>"   the lines where f refers to <s, m>   *)
(*   symRefs[s]   "symref:<s>"        per module and file, the lines that  *)
(*                                    refer to s                           *)
(*                                                                         *)
(* A key that is absent and a key that holds an empty message are the same *)
(* value here: Project.cpp finds nothing in either (where it resolves a    *)
(* path in between, which may throw, the caller resolves the same path     *)
(* anyhow, or the model allows both: SymbolIndex!ListFileSymbols).  A      *)
(* batch of writes is atomic (BatchWriter), its reads see the database as  *)
(* it was before the batch.                                                *)
(*                                                                         *)
(* Symbols and modules are numbered in the order of std::map<std::string>, *)
(* which is the order in which the loops of Project.cpp visit them; module *)
(* NoModule is the empty string.  A line stands for a (line, column) pair. *)
(* A module map "mod" gives the module of every path (the flag cache), and *)
(* "exists" is the set of source files that are on the disk.               *)
(***************************************************************************)
EXTENDS Integers, Sequences, FiniteSets, FiniteSetsExt

CONSTANTS
  Files,       \* source files that can be indexed
  Headers,     \* other paths in which a referenced symbol may be declared
  Symbols,     \* USR names, numbered in their order
  Modules,     \* module names, numbered in their order
  Lines,       \* positions in a file
  NoInfo,      \* no "file:info" record
  UseBoostFilesystem  \* the build option that selects boost::filesystem

NoModule == 0
NoLine == 0
Paths == Files \cup Headers

ASSUME StoreAssumption ==
  /\ Symbols \subseteq Nat
  /\ Modules \subseteq Nat
  /\ NoModule \in Modules
  /\ Lines \subseteq Nat \ {NoLine}
  /\ UseBoostFilesystem \in BOOLEAN

(* A stored location.  "abs" tells a location saved with an absolute path  *)
(* from one saved relative to the home of the project.                     *)
Location == [file : Files, line : Lines, abs : BOOLEAN]

(* What libclang reports of one parse: where each symbol is defined, and   *)
(* the lines that refer to a symbol declared in a given path.              *)
TranslationUnit == [defs : [Symbols -> Lines \cup {NoLine}],
                    refs : [Symbols \X Paths -> SUBSET Lines]]

Database(infos) ==
  [info     : [Files -> infos \cup {NoInfo}],
   fileDefs : [Files -> SUBSET Symbols],
   symDefs  : [Symbols -> Seq(Location)],
   fileRefs : [Files -> [Symbols \X Modules -> SUBSET Lines]],
   symRefs  : [Symbols -> [Modules \X Files -> SUBSET Lines]]]

EmptyDatabase ==
  [info     |-> [f \in Files |-> NoInfo],
   fileDefs |-> [f \in Files |-> {}],
   symDefs  |-> [s \in Symbols |-> << >>],
   fileRefs |-> [f \in Files |-> [sm \in Symbols \X Modules |-> {}]],
   symRefs  |-> [s \in Symbols |-> [mf \in Modules \X Files |-> {}]]]

(* What a batch did: the database after it, and whether an exception cut   *)
(* the batch short (its destructor writes what was collected so far).      *)
Outcome(d, b) == [db |-> d, threw |-> b]

-----------------------------------------------------------------------------
(* Paths and modules.                                                      *)

(* Without boost, absolute_path is std::filesystem::canonical, which       *)
(* throws for a relative path whose file is not there.                     *)
absolute_path_throws(f, abs, exists) ==
  /\ ~UseBoostFilesystem
  /\ ~abs
  /\ f \notin exists

SameModule(locs, m, mod) == {k \in DOMAIN locs : mod[locs[k].file] = m}

(* GetModuleName is asked for every location in turn up to the first that  *)
(* belongs to module m; it resolves relative paths.                        *)
ScanThrows(locs, m, mod, exists) ==
  \E k \in DOMAIN locs :
     /\ absolute_path_throws(locs[k].file, locs[k].abs, exists)
     /\ \A j \in SameModule(locs, m, mod) : j >= k

\* Mutants: the scan for the module is forgotten; the scan returns before
\* the new location is stored.
AddSymbolLocation_NoScan(locs, m, loc, mod) == Append(locs, loc)
AddSymbolLocation_KeepOld(locs, m, loc, mod) ==
  IF SameModule(locs, m, mod) # {} THEN locs ELSE Append(locs, loc)

AddSymbolLocation(locs, m, loc, mod) ==
  IF SameModule(locs, m, mod) # {}
    THEN [locs EXCEPT ![Min(SameModule(locs, m, mod))] = loc]
    ELSE Append(locs, loc)

\* Mutant: the last location is erased instead of the one that matches.
RemoveSymbolLocation_Last(locs, m, mod) ==
  IF SameModule(locs, m, mod) # {} THEN SubSeq(locs, 1, Len(locs) - 1) ELSE locs

RemoveSymbolLocation(locs, m, mod) ==
  LET hit == Min(SameModule(locs, m, mod))
  IN  IF SameModule(locs, m, mod) # {}
        THEN [k \in 1 .. Len(locs) - 1 |->
                IF k < hit THEN locs[k] ELSE locs[k + 1]]
        ELSE locs

(* The location of the caller's module, made absolute; else the first one  *)
(* as it is stored.  Only asked of a symbol that has a location.           *)
QuerySymbolDefinition(locs, f, mod) ==
  LET hits == SameModule(locs, mod[f], mod)
  IN  IF mod[f] # NoModule /\ hits # {}
        THEN [locs[Min(hits)] EXCEPT !.abs = TRUE]
        ELSE locs[1]

(* GetSymbolLocation resolves paths only when the caller has a module.     *)
QueryThrows(locs, f, mod, exists) ==
  /\ locs # << >>
  /\ mod[f] # NoModule
  /\ ScanThrows(locs, mod[f], mod, exists)

\* Mutant: the record of the file is not found (its key is wrong).
LoadFileDefinedSymbolInfo_Nothing(db, f) == {}

(* The symbols of f that still have a location.                            *)
LoadFileDefinedSymbolInfo(db, f) ==
  {s \in db.fileDefs[f] : db.symDefs[s] # << >>}

LoadThrows(db, f, mod, exists) ==
  \E s \in LoadFileDefinedSymbolInfo(db, f) :
     \/ absolute_path_throws(f, FALSE, exists)
     \/ QueryThrows(db.symDefs[s], f, mod, exists)

(* The part of a loop over S, in order, that runs before it meets a symbol *)
(* of "throwing".                                                          *)
Before(S, throwing) == {s \in S : \A t \in throwing : s < t}

-----------------------------------------------------------------------------
(* WriteCompiledFile: the result of parsing file f becomes its record.     *)

\* Mutant: a declaration is taken for a definition.
DefinedSymbols_All(tu) == DOMAIN tu.defs

DefinedSymbols(tu) == {s \in Symbols : tu.defs[s] # NoLine}

(* A symbol that stays in its file is saved with the absolute path that    *)
(* libclang reports, a symbol that is new to it with the relative path.    *)
LocationIn(f, tu, s, abs) == [file |-> f, line |-> tu.defs[s], abs |-> abs]

\* Mutant: the symbols that a file no longer defines keep their locations.
GoneSymbols_None(db, f, tu) == {}

GoneSymbols(db, f, tu) == LoadFileDefinedSymbolInfo(db, f) \ DefinedSymbols(tu)

FreshSymbols(db, f, tu) == DefinedSymbols(tu) \ LoadFileDefinedSymbolInfo(db, f)

MovedSymbols(db, f, tu, mod) ==
  {s \in DefinedSymbols(tu) \cap LoadFileDefinedSymbolInfo(db, f) :
     QuerySymbolDefinition(db.symDefs[s], f, mod) # LocationIn(f, tu, s, TRUE)}

(* The loop over the old symbols deletes and replaces, the loop over the   *)
(* new ones adds; each stops at the first symbol whose scan throws, and an *)
(* exception before the loops, or in them, leaves "file:symdef" as it was. *)
WriteFileDefinitions(db, f, tu, mod, exists) ==
  LET gone  == GoneSymbols(db, f, tu)
      moved == MovedSymbols(db, f, tu, mod)
      fresh == FreshSymbols(db, f, tu)
      throws(S) == {s \in S : ScanThrows(db.symDefs[s], mod[f], mod, exists)}
      early == \/ LoadThrows(db, f, mod, exists)
               \/ absolute_path_throws(f, FALSE, exists)
      doneOld == IF early THEN {} ELSE Before(gone \cup moved, throws(moved))
      doneNew == IF early \/ throws(moved) # {}
                   THEN {} ELSE Before(fresh, throws(fresh))
      threw   == early \/ throws(moved \cup fresh) # {}
      put(s, abs) == AddSymbolLocation(db.symDefs[s], mod[f],
                                       LocationIn(f, tu, s, abs), mod)
  IN  Outcome(
        [db EXCEPT
           !.symDefs = [s \in Symbols |->
              IF s \in gone \cap doneOld THEN << >>
              ELSE IF s \in doneOld THEN put(s, TRUE)
              ELSE IF s \in doneNew THEN put(s, FALSE)
              ELSE db.symDefs[s]],
           !.fileDefs[f] =
              IF ~threw /\ gone \cup moved \cup fresh # {}
                THEN DefinedSymbols(tu) ELSE @],
        threw)

(* The lines of tu that refer to each symbol, by the module in which the   *)
(* referenced declaration lies.                                            *)
ReferredSymbols(tu, mod) ==
  [sm \in Symbols \X Modules |->
     UNION {tu.refs[<<sm[1], p>>] : p \in {q \in Paths : mod[q] = sm[2]}}]

\* Mutant: references that are gone from the file are not looked for.
DroppedModules_None(db, f, new, s) == {}

DroppedModules(db, f, new, s) ==
  {m \in Modules : /\ db.fileRefs[f][<<s, m>>] # {}
                   /\ new[<<s, m>>] = {}
                   /\ \E g \in Files : db.symRefs[s][<<m, g>>] # {}}

ChangedModules(db, f, new, s) ==
  {m \in Modules : /\ new[<<s, m>>] # {}
                   /\ new[<<s, m>>] # db.fileRefs[f][<<s, m>>]}

(* Every put of "symref:<s>" rewrites the whole record from the one in the *)
(* database, so of several modules of one symbol the last put wins.        *)
WriteFileReferences(db, f, tu, mod) ==
  LET new        == ReferredSymbols(tu, mod)
      changed(s) == ChangedModules(db, f, new, s)
      dropped(s) == DroppedModules(db, f, new, s)
  IN  [db EXCEPT
         !.symRefs = [s \in Symbols |->
            IF changed(s) # {}
              THEN [db.symRefs[s] EXCEPT ![<<Max(changed(s)), f>>] =
                                           new[<<s, Max(changed(s))>>]]
            ELSE IF dropped(s) # {}
              THEN [db.symRefs[s] EXCEPT ![<<Max(dropped(s)), f>>] = {}]
            ELSE db.symRefs[s]],
         !.fileRefs[f] =
            IF \E s \in Symbols : changed(s) \cup dropped(s) # {}
              THEN new ELSE @]

WriteCompiledFile(db, f, tu, fi, mod, exists) ==
  LET w == WriteFileDefinitions([db EXCEPT !.info[f] = fi], f, tu, mod, exists)
  IN  IF w.threw THEN w
      ELSE Outcome(WriteFileReferences(w.db, f, tu, mod), FALSE)

-----------------------------------------------------------------------------
(* Taking file f out of the index.  Neither "file:symdef" nor              *)
(* "file:symref" of f is deleted.                                          *)

DeleteFileDefinedSymbolInfo(db, f, mod, exists) ==
  LET old      == db.fileDefs[f]
      own      == old # {} /\ absolute_path_throws(f, FALSE, exists)
      throwing == {s \in old : ScanThrows(db.symDefs[s], mod[f], mod, exists)}
      done     == IF own THEN {} ELSE Before(old, throwing)
  IN  Outcome([db EXCEPT !.symDefs = [s \in Symbols |->
                 IF s \in done
                   THEN RemoveSymbolLocation(db.symDefs[s], mod[f], mod)
                   ELSE db.symDefs[s]]],
              own \/ throwing # {})

DeleteFileReferredSymbolInfo(db, f) ==
  LET listed(s) == {m \in Modules : /\ db.fileRefs[f][<<s, m>>] # {}
                                    /\ db.symRefs[s][<<m, f>>] # {}}
  IN  [db EXCEPT !.symRefs = [s \in Symbols |->
         IF listed(s) # {}
           THEN [db.symRefs[s] EXCEPT ![<<Max(listed(s)), f>>] = {}]
           ELSE db.symRefs[s]]]

(* The batch shared by DeleteUnexistFile and RebuildFile.                  *)
DeleteFileRecords(db, f, mod, exists) ==
  LET w == DeleteFileDefinedSymbolInfo([db EXCEPT !.info[f] = NoInfo],
                                       f, mod, exists)
  IN  IF w.threw THEN w
      ELSE Outcome(DeleteFileReferredSymbolInfo(w.db, f), FALSE)

=============================================================================
