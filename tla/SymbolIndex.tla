---------------------------- MODULE SymbolIndex ----------------------------
(***************************************************************************)
(* The symbol index of one project as the main thread of the server drives *)
(* it: parse results are written, deleted files are taken out, files are   *)
(* rebuilt on request and symbols are looked up, in any order, while the   *)
(* files of the project come and go on the disk.  Each of these is one     *)
(* handler of the main thread, so it is one step here.                     *)
(*                                                                         *)
(* This module says nothing of WHEN a handler runs (see ParsePipeline): it *)
(* is the specification of the updates alone, and the theorems about the   *)
(* contents of the database are proved from it.                            *)
(***************************************************************************)
EXTENDS SymbolStore

CONSTANTS
  ModuleOf,         \* the module of each path once the flag cache is loaded
  TranslationUnits, \* the parse results that may be written
  FileInfos,        \* the modification times and digests they may carry
  AllowDelete,      \* may files be removed from the disk?
  NoTU              \* file never written

ASSUME IndexAssumption ==
  /\ ModuleOf \in [Paths -> Modules]
  /\ \A f \in Files : ModuleOf[f] # NoModule
  /\ TranslationUnits \subseteq TranslationUnit
  /\ NoInfo \notin FileInfos
  /\ NoTU \notin TranslationUnits
  /\ AllowDelete \in BOOLEAN

VARIABLES
  db,       \* the LevelDB of the project
  exists,   \* the source files that are on the disk
  flags,    \* the flag cache has been loaded (a ForceSync has succeeded)
  up,       \* the server process is running
  torn,     \* history: an exception has committed part of a parse result
  written   \* history: the last parse result written in full for each file

vars == << db, exists, flags, up, torn, written >>

TypeOK ==
  /\ db \in Database(FileInfos)
  /\ exists \subseteq Files
  /\ flags \in BOOLEAN
  /\ up \in BOOLEAN
  /\ torn \in BOOLEAN
  /\ written \in [Files -> TranslationUnits \cup {NoTU}]

(* GetModuleName answers "" for every path until the flag cache is loaded. *)
Mod == IF flags THEN ModuleOf ELSE [p \in Paths |-> NoModule]

Init ==
  /\ db = EmptyDatabase
  /\ exists \in SUBSET Files
  /\ flags = FALSE
  /\ up = FALSE
  /\ torn = FALSE
  /\ written = [f \in Files |-> NoTU]

-----------------------------------------------------------------------------
(* The disk.                                                               *)

CreateFile(f) ==
  /\ f \notin exists
  /\ exists' = exists \cup {f}
  /\ UNCHANGED << db, flags, up, torn, written >>

RemoveFile(f) ==
  /\ AllowDelete
  /\ f \in exists
  /\ exists' = exists \ {f}
  /\ UNCHANGED << db, flags, up, torn, written >>

-----------------------------------------------------------------------------
(* Handlers of the main thread.                                            *)

(* The process goes on, or ends and loses the flag cache.                  *)
Continue(alive) ==
  /\ up' = alive
  /\ flags' = (flags /\ alive)

(* Project::WriteCompiledFile, posted by a worker.  A file is only parsed  *)
(* once it has compiler flags and has been on the disk.  An exception      *)
(* leaves the io_service loop and ends the server after the batch has been *)
(* committed.                                                              *)
WriteParsed(f, tu, fi) ==
  LET w == WriteCompiledFile(db, f, tu, fi, Mod, exists)
  IN  /\ up
      /\ flags
      /\ f \in exists \/ AllowDelete
      /\ db' = w.db
      /\ Continue(~w.threw)
      /\ torn' = (torn \/ w.threw)
      /\ written' = IF w.threw THEN written ELSE [written EXCEPT ![f] = tu]
      /\ UNCHANGED exists

(* Project::DeleteUnexistFile, from the inotify handler: it needs a        *)
(* watcher, hence a loaded flag cache.  HandleInotifyReadable catches the  *)
(* exception.                                                              *)
DeleteUnexistFile(f) ==
  /\ up
  /\ flags
  /\ f \notin exists
  /\ db' = DeleteFileRecords(db, f, Mod, exists).db
  /\ UNCHANGED << exists, flags, up, torn, written >>

(* Project::RebuildFile up to the parse it asks for, from a session, which *)
(* does not catch the exception.                                           *)
RebuildFile(f) ==
  LET w == DeleteFileRecords(db, f, Mod, exists)
  IN  /\ up
      /\ f \in exists
      /\ db' = w.db
      /\ Continue(~w.threw)
      /\ UNCHANGED << exists, torn, written >>

(* Session::get_symbol_definition without a path: every location of the    *)
(* symbol is made absolute, and an exception ends the server.              *)
GetSymbolDefinitions(s) ==
  /\ up
  /\ Continue(\A k \in DOMAIN db.symDefs[s] :
                 ~absolute_path_throws(db.symDefs[s][k].file,
                                       db.symDefs[s][k].abs, exists))
  /\ UNCHANGED << db, exists, torn, written >>

(* Session::get_symbol_definition with the absolute path of file f.        *)
GetSymbolDefinitionFor(s, f) ==
  /\ up
  /\ Continue(~QueryThrows(db.symDefs[s], f, Mod, exists))
  /\ UNCHANGED << db, exists, torn, written >>

(* Session::list_file_symbols.  A listed symbol without a location has no  *)
(* "symdef" key, and is skipped, or an empty record, and then the path of  *)
(* f is resolved before the list is found empty.                           *)
ListFileSymbols(f) ==
  /\ up
  /\ \/ Continue(~LoadThrows(db, f, Mod, exists))
     \/ /\ absolute_path_throws(f, FALSE, exists)
        /\ \E s \in db.fileDefs[f] : db.symDefs[s] = << >>
        /\ Continue(FALSE)
  /\ UNCHANGED << db, exists, torn, written >>

(* A ForceSync whose cmake run succeeds loads the flag cache; one that     *)
(* fails leaves it as it is.                                               *)
LoadFlags ==
  /\ up
  /\ flags' = TRUE
  /\ UNCHANGED << db, exists, up, torn, written >>

(* The process is stopped, and is started again with a ForceSync that may  *)
(* fail to load the flag cache.                                            *)
Stop ==
  /\ up
  /\ Continue(FALSE)
  /\ UNCHANGED << db, exists, torn, written >>

Restart ==
  /\ ~up
  /\ up' = TRUE
  /\ flags' \in BOOLEAN
  /\ UNCHANGED << db, exists, torn, written >>

Next ==
  \/ \E f \in Files : \/ CreateFile(f)
                      \/ RemoveFile(f)
                      \/ DeleteUnexistFile(f)
                      \/ RebuildFile(f)
                      \/ ListFileSymbols(f)
  \/ \E f \in Files, tu \in TranslationUnits, fi \in FileInfos :
        WriteParsed(f, tu, fi)
  \/ \E s \in Symbols : \/ GetSymbolDefinitions(s)
                        \/ \E f \in Files : GetSymbolDefinitionFor(s, f)
  \/ LoadFlags
  \/ Stop
  \/ Restart

Spec == Init /\ [][Next]_vars

-----------------------------------------------------------------------------
(* Properties.                                                             *)

(* A symbol has at most one location per module: the insertion scan of     *)
(* AddSymbolLocation must find the entry of its module whoever wrote it,   *)
(* however files and restarts are interleaved.                             *)
OneLocationPerModule ==
  \A s \in Symbols : \A j, k \in DOMAIN db.symDefs[s] :
     ModuleOf[db.symDefs[s][j].file] = ModuleOf[db.symDefs[s][k].file]
       => j = k

(* "symdef" and "file:symdef" agree in the direction that deletion needs:  *)
(* every location is listed by its file, or DeleteFileDefinedSymbolInfo    *)
(* would never find it again.  A partly committed parse result breaks it.  *)
BackLinks ==
  torn \/ \A s \in Symbols : \A k \in DOMAIN db.symDefs[s] :
             s \in db.fileDefs[db.symDefs[s][k].file]

(* A lookup never answers with a line that the last parse of that file did *)
(* not report for that symbol: WriteFileDefinitions compares, replaces and *)
(* deletes just what makes every surviving location current.               *)
LocationsSound ==
  torn \/ \A s \in Symbols : \A k \in DOMAIN db.symDefs[s] :
             LET loc == db.symDefs[s][k]
             IN  /\ written[loc.file] # NoTU
                 /\ written[loc.file].defs[s] = loc.line

WrittenIsFindable ==
  \A f \in Files, tu \in TranslationUnits, fi \in FileInfos :
     WriteParsed(f, tu, fi) /\ up'
       => \A s \in DefinedSymbols(tu) : \E k \in DOMAIN db'.symDefs[s] :
             /\ db'.symDefs[s][k].file = f
             /\ db'.symDefs[s][k].line = tu.defs[s]

(* Writing a parse result makes each of its symbols findable at its new    *)
(* line, whatever locations were stored before.                            *)
WriteThrough == [][WrittenIsFindable]_vars

(* Once the delete event of a file has been handled without an exception,  *)
(* no symbol is located in that file any more.                             *)
DeletionClears ==
  [][\A f \in Files :
       /\ DeleteUnexistFile(f)
       /\ ~torn
       /\ ~DeleteFileRecords(db, f, Mod, exists).threw
       => \A s \in Symbols : \A k \in DOMAIN db'.symDefs[s] :
             db'.symDefs[s][k].file # f]_vars

(* A reference that a lookup returns is one that its file records: no line *)
(* of an earlier parse survives in "symref".                               *)
ReferencesSound ==
  torn \/ \A s \in Symbols, m \in Modules, f \in Files :
             db.symRefs[s][<<m, f>>] # {}
               => db.symRefs[s][<<m, f>>] = db.fileRefs[f][<<s, m>>]

(* A symbol that the last parse of an existing file defines can be found:  *)
(* what README.md promises ("jump to symbol definitions in the other       *)
(* translate units").                                                      *)
DefinitionsComplete ==
  \A s \in Symbols, f \in exists :
     /\ db.info[f] # NoInfo
     /\ written[f] # NoTU
     /\ s \in DefinedSymbols(written[f])
     => db.symDefs[s] # << >>

(* The lines on which an indexed file refers to a symbol are recorded      *)
(* under the symbol: DB_SymbolReferenceInfo is "Where a symbol is          *)
(* referred.".                                                             *)
ReferencesComplete ==
  \A s \in Symbols, f \in exists, p \in Paths :
     /\ db.info[f] # NoInfo
     /\ written[f] # NoTU
     /\ written[f].refs[<<s, p>>] # {}
     => \E m \in Modules : db.symRefs[s][<<m, f>>] # {}

=============================================================================
