------------------------- MODULE SymbolIndexProofs -------------------------
(* Proofs about SymbolIndex, for every set of files, symbols and modules   *)
(* and for both builds.                                                    *)
EXTENDS SymbolIndex, SymbolStoreProofs

-----------------------------------------------------------------------------
(* Type correctness.                                                       *)

(* The empty database of a new project is a database.                      *)
LEMMA EmptyType == EmptyDatabase \in Database(FileInfos)
<1>1. << >> \in Seq(Location)
  OBVIOUS
<1>2. [s \in Symbols |-> << >>] \in [Symbols -> Seq(Location)]
  BY <1>1
<1>3. QED
  BY <1>2 DEF EmptyDatabase, Database

(* A parse result is written to a database.                                *)
LEMMA WriteParsedType ==
  ASSUME TypeOK, NEW f \in Files, NEW tu \in TranslationUnits,
         NEW fi \in FileInfos, WriteParsed(f, tu, fi)
  PROVE  /\ TypeOK'
         /\ CompiledWritten(FileInfos, db,
                            WriteCompiledFile(db, f, tu, fi, Mod, exists),
                            f, tu, fi, Mod)
<1> DEFINE w == WriteCompiledFile(db, f, tu, fi, Mod, exists)
<1>1. CompiledWritten(FileInfos, db, w, f, tu, fi, Mod)
  BY WriteCompiledFileShape, IndexAssumption DEF TypeOK
<1>2. w.db \in Database(FileInfos) /\ w.threw \in BOOLEAN
  BY <1>1, Zenon DEF CompiledWritten
<1>3. /\ db' = w.db
      /\ up' = ~w.threw
      /\ flags' = (flags /\ ~w.threw)
      /\ torn' = (torn \/ w.threw)
      /\ written' = IF w.threw THEN written ELSE [written EXCEPT ![f] = tu]
      /\ exists' = exists
  BY DEF WriteParsed, Continue
<1> HIDE DEF w
<1>4. TypeOK'
  BY <1>2, <1>3 DEF TypeOK
<1>5. QED
  BY <1>1, <1>4 DEF w

(* Every step of the index keeps the types.                                *)
LEMMA TypeStep == TypeOK /\ [Next]_vars => TypeOK'
<1> SUFFICES ASSUME TypeOK, [Next]_vars PROVE TypeOK'
  OBVIOUS
<1>1. ASSUME NEW f \in Files, CreateFile(f) \/ RemoveFile(f) PROVE TypeOK'
  BY <1>1 DEF TypeOK, CreateFile, RemoveFile
<1>2. ASSUME NEW f \in Files, DeleteUnexistFile(f) PROVE TypeOK'
  <2>1. DeleteFileRecords(db, f, Mod, exists).db \in Database(FileInfos)
    BY DeleteFileRecordsShape DEF RecordsDeleted, TypeOK
  <2>2. QED
    BY <1>2, <2>1 DEF DeleteUnexistFile, TypeOK
<1>3. ASSUME NEW f \in Files, RebuildFile(f) PROVE TypeOK'
  <2>1. /\ DeleteFileRecords(db, f, Mod, exists).db \in Database(FileInfos)
        /\ DeleteFileRecords(db, f, Mod, exists).threw \in BOOLEAN
    BY DeleteFileRecordsShape DEF RecordsDeleted, TypeOK
  <2>2. QED
    BY <1>3, <2>1 DEF RebuildFile, Continue, TypeOK
<1>4. ASSUME NEW f \in Files, ListFileSymbols(f) PROVE TypeOK'
  <2>1. LoadThrows(db, f, Mod, exists) \in BOOLEAN
    BY DEF LoadThrows
  <2>2. QED
    BY <1>4, <2>1 DEF ListFileSymbols, Continue, TypeOK
<1>5. ASSUME NEW f \in Files, NEW tu \in TranslationUnits, NEW fi \in FileInfos,
             WriteParsed(f, tu, fi)
      PROVE  TypeOK'
  BY <1>5, WriteParsedType
<1>6. ASSUME NEW s \in Symbols, GetSymbolDefinitions(s) PROVE TypeOK'
  BY <1>6 DEF GetSymbolDefinitions, Continue, TypeOK
<1>7. ASSUME NEW s \in Symbols, NEW f \in Files, GetSymbolDefinitionFor(s, f)
      PROVE  TypeOK'
  <2>1. QueryThrows(db.symDefs[s], f, Mod, exists) \in BOOLEAN
    BY DEF QueryThrows
  <2>2. QED
    BY <1>7, <2>1 DEF GetSymbolDefinitionFor, Continue, TypeOK
<1>8. CASE LoadFlags \/ Stop \/ Restart
  BY <1>8 DEF LoadFlags, Stop, Restart, Continue, TypeOK
<1>9. CASE UNCHANGED vars
  BY <1>9 DEF vars, TypeOK
<1>10. QED
  BY <1>1, <1>2, <1>3, <1>4, <1>5, <1>6, <1>7, <1>8, <1>9 DEF Next

(* The index keeps its types: whatever a batch wrote before an exception,  *)
(* every key holds a value that the next handler can read.                 *)
THEOREM TypeCorrect == Spec => []TypeOK
<1>1. Init => TypeOK
  BY EmptyType DEF Init, TypeOK
<1>2. QED
  BY <1>1, TypeStep, PTL DEF Spec

-----------------------------------------------------------------------------
(* At most one location per module.                                        *)

(* The list of one symbol has at most one location of each module.         *)
OnePerModule(locs) ==
  \A j, k \in DOMAIN locs :
     ModuleOf[locs[j].file] = ModuleOf[locs[k].file] => j = k

(* In such a list the scan for a module has at most one hit.               *)
LEMMA SingleHit ==
  ASSUME NEW locs \in Seq(Location), OnePerModule(locs), NEW m,
         NEW h \in SameModule(locs, m, ModuleOf)
  PROVE  /\ SameModule(locs, m, ModuleOf) = {h}
         /\ Min(SameModule(locs, m, ModuleOf)) = h
         /\ h \in 1 .. Len(locs)
<1>1. SameModule(locs, m, ModuleOf) = {h}
  BY DEF OnePerModule, SameModule
<1>2. h \in 1 .. Len(locs)
  BY DEF SameModule
<1>3. Min({h}) = h
  BY <1>2 DEF Min
<1>4. QED
  BY <1>1, <1>2, <1>3

(* What AddSymbolLocation(locs, m, loc) leaves: loc, the locations of the  *)
(* other modules, and still one per module.                                *)
Added(res, locs, m, loc) ==
  /\ OnePerModule(res)
  /\ \E k \in DOMAIN res : res[k] = loc
  /\ \A k \in DOMAIN res :
        \/ res[k] = loc
        \/ \E j \in DOMAIN locs : /\ res[k] = locs[j]
                                  /\ ModuleOf[locs[j].file] # m

(* AddSymbolLocation does that.                                            *)
LEMMA AddOnePerModule ==
  ASSUME NEW locs \in Seq(Location), OnePerModule(locs),
         NEW loc \in Location, NEW m, m = ModuleOf[loc.file]
  PROVE  Added(AddSymbolLocation(locs, m, loc, ModuleOf), locs, m, loc)
<1> DEFINE hits == SameModule(locs, m, ModuleOf)
           res  == AddSymbolLocation(locs, m, loc, ModuleOf)
<1>1. CASE hits = {}
  <2>1. res = Append(locs, loc)
    BY <1>1 DEF AddSymbolLocation
  <2>2. \A j \in DOMAIN locs : ModuleOf[locs[j].file] # m
    BY <1>1 DEF SameModule
  <2>3. /\ DOMAIN res = 1 .. Len(locs) + 1
        /\ DOMAIN locs = 1 .. Len(locs)
        /\ res[Len(locs) + 1] = loc
        /\ \A j \in 1 .. Len(locs) : res[j] = locs[j]
    BY <2>1
  <2>4. Len(locs) \in Nat
    OBVIOUS
  <2> HIDE DEF res, hits
  <2> DEFINE n == Len(locs)
  <2>5. \A k \in DOMAIN res : k = n + 1 \/ (k \in DOMAIN locs /\ res[k] = locs[k])
    BY <2>3, <2>4
  <2>6. n + 1 \in DOMAIN res /\ res[n + 1] = loc
    BY <2>3, <2>4
  <2> HIDE DEF n
  <2>7. OnePerModule(res)
    BY <2>2, <2>5, <2>6 DEF OnePerModule
  <2>8. \A k \in DOMAIN res :
           \/ res[k] = loc
           \/ \E j \in DOMAIN locs : /\ res[k] = locs[j]
                                     /\ ModuleOf[locs[j].file] # m
    BY <2>2, <2>5, <2>6, Zenon
  <2>9. QED
    BY <2>6, <2>7, <2>8, Zenon DEF Added, res
<1>2. ASSUME NEW h \in hits PROVE Added(res, locs, m, loc)
  <2>1. hits = {h} /\ Min(hits) = h /\ h \in DOMAIN locs
    BY SingleHit, <1>2
  <2>2. res = [locs EXCEPT ![h] = loc]
    BY <2>1 DEF AddSymbolLocation
  <2>3. \A j \in DOMAIN locs : ModuleOf[locs[j].file] = m => j = h
    BY <2>1 DEF SameModule
  <2>4. /\ DOMAIN res = DOMAIN locs
        /\ res[h] = loc
        /\ \A j \in DOMAIN locs \ {h} : res[j] = locs[j]
    BY <2>1, <2>2
  <2> HIDE DEF res
  <2>5. QED
    BY <2>1, <2>3, <2>4 DEF Added, OnePerModule
<1>3. QED
  BY <1>1, <1>2

(* List locs without its entry number hit.                                 *)
Without(locs, hit) ==
  [k \in 1 .. Len(locs) - 1 |-> IF k < hit THEN locs[k] ELSE locs[k + 1]]

(* It has the other entries, each of them once.                            *)
LEMMA WithoutOnePerModule ==
  ASSUME NEW locs \in Seq(Location), OnePerModule(locs), NEW hit \in Int
  PROVE  /\ OnePerModule(Without(locs, hit))
         /\ \A k \in DOMAIN Without(locs, hit) : \E j \in DOMAIN locs :
              Without(locs, hit)[k] = locs[j] /\ j # hit
<1> DEFINE n == Len(locs) - 1
           old(k) == IF k < hit THEN k ELSE k + 1
           res == Without(locs, hit)
<1>1. \A k \in 1 .. n : /\ res[k] = locs[old(k)]
                        /\ old(k) \in DOMAIN locs
                        /\ old(k) # hit
  BY DEF Without
<1>2. \A j, k \in 1 .. n : old(j) = old(k) => j = k
  OBVIOUS
<1>3. DOMAIN res = 1 .. n
  BY DEF Without
<1> HIDE DEF old, n, res
<1>4. OnePerModule(res)
  BY <1>1, <1>2, <1>3 DEF OnePerModule
<1>5. QED
  BY <1>1, <1>3, <1>4 DEF res

(* What RemoveSymbolLocation leaves when the flag cache is loaded: the     *)
(* locations of the other modules, each of them once.                      *)
Removed(res, locs, m) ==
  /\ OnePerModule(res)
  /\ \A k \in DOMAIN res : \E j \in DOMAIN locs :
        res[k] = locs[j] /\ ModuleOf[locs[j].file] # m

(* RemoveSymbolLocation does that.                                         *)
LEMMA RemoveLoaded ==
  ASSUME NEW locs \in Seq(Location), OnePerModule(locs), NEW m
  PROVE  Removed(RemoveSymbolLocation(locs, m, ModuleOf), locs, m)
<1> DEFINE hits == SameModule(locs, m, ModuleOf)
           res  == RemoveSymbolLocation(locs, m, ModuleOf)
<1>1. CASE hits = {}
  <2>1. res = locs /\ \A j \in DOMAIN locs : ModuleOf[locs[j].file] # m
    BY <1>1 DEF RemoveSymbolLocation, SameModule
  <2>2. QED
    BY <2>1 DEF Removed
<1>2. ASSUME NEW h \in hits PROVE Removed(res, locs, m)
  <2>1. hits = {h} /\ Min(hits) = h /\ h \in Int
    BY SingleHit, <1>2
  <2>2. res = Without(locs, h)
    BY <2>1 DEF RemoveSymbolLocation, Without
  <2>3. \A j \in DOMAIN locs : ModuleOf[locs[j].file] = m => j = h
    BY <2>1 DEF SameModule
  <2> HIDE DEF res, hits
  <2>4. /\ OnePerModule(res)
        /\ \A k \in DOMAIN res : \E j \in DOMAIN locs :
              res[k] = locs[j] /\ j # h
    BY <2>1, <2>2, WithoutOnePerModule
  <2>5. QED
    BY <2>3, <2>4 DEF Removed
<1>3. QED
  BY <1>1, <1>2

(* Before it is loaded every path has the same module, and the first       *)
(* location is taken out, whatever its module.                             *)
RemovedAny(res, locs) ==
  /\ OnePerModule(res)
  /\ \A k \in DOMAIN res : \E j \in DOMAIN locs : res[k] = locs[j]

(* RemoveSymbolLocation does that with the map of an empty cache.          *)
LEMMA RemoveUnloaded ==
  ASSUME NEW locs \in Seq(Location), OnePerModule(locs), NEW mod,
         mod = [p \in Paths |-> NoModule]
  PROVE  RemovedAny(RemoveSymbolLocation(locs, NoModule, mod), locs)
<1> DEFINE hits == SameModule(locs, NoModule, mod)
           res  == RemoveSymbolLocation(locs, NoModule, mod)
<1>1. \A k \in DOMAIN locs : locs[k].file \in Paths
  <2>1. \A k \in DOMAIN locs : locs[k] \in Location
    OBVIOUS
  <2>2. QED
    BY <2>1 DEF Location, Paths
<1>2. \A k \in DOMAIN locs : mod[locs[k].file] = NoModule
  BY <1>1, Zenon
<1>3. hits = 1 .. Len(locs)
  BY <1>2 DEF SameModule
<1>4. CASE locs = << >>
  <2>1. hits = {}
    BY <1>3, <1>4
  <2>2. res = locs
    BY <2>1 DEF RemoveSymbolLocation
  <2>3. QED
    BY <2>2 DEF RemovedAny
<1>5. CASE locs # << >>
  <2>1. 1 \in 1 .. Len(locs) /\ \A k \in 1 .. Len(locs) : 1 =< k
    BY <1>5
  <2>2. Min(1 .. Len(locs)) = 1
    BY <2>1 DEF Min
  <2>3. res = Without(locs, 1)
    BY <1>3, <2>1, <2>2 DEF RemoveSymbolLocation, Without
  <2> HIDE DEF res
  <2>4. QED
    BY <2>3, WithoutOnePerModule DEF RemovedAny, res
<1>6. QED
  BY <1>4, <1>5

(* A parse result keeps at most one location per module.                   *)
LEMMA WriteOnePerModule ==
  ASSUME TypeOK, OneLocationPerModule, NEW f \in Files,
         NEW tu \in TranslationUnits, NEW fi, NEW w, flags,
         CompiledWritten(FileInfos, db, w, f, tu, fi, Mod)
  PROVE  \A s \in Symbols : OnePerModule(w.db.symDefs[s])
<1>1. PICK e, v : /\ e.symDefs = db.symDefs
                  /\ DefinitionsWritten(e, v, f, tu, Mod)
                  /\ v.db.symDefs = w.db.symDefs
  BY Zenon DEF CompiledWritten
<1> TAKE s \in Symbols
<1>2. db.symDefs[s] \in Seq(Location) /\ OnePerModule(db.symDefs[s])
  BY DEF TypeOK, Database, OneLocationPerModule, OnePerModule
<1>3. \/ w.db.symDefs[s] = db.symDefs[s]
      \/ w.db.symDefs[s] = << >>
      \/ /\ s \in DefinedSymbols(tu)
         /\ \E abs \in BOOLEAN : w.db.symDefs[s] = Put(e, f, tu, Mod, s, abs)
  BY <1>1 DEF DefinitionsWritten
<1>4. CASE w.db.symDefs[s] = << >>
  BY <1>4 DEF OnePerModule
<1>5. ASSUME s \in DefinedSymbols(tu), NEW abs \in BOOLEAN
      PROVE  OnePerModule(Put(e, f, tu, Mod, s, abs))
  <2> DEFINE loc == LocationIn(f, tu, s, abs)
  <2>1. loc \in Location /\ loc.file = f
    BY <1>5, LocationType, IndexAssumption DEF LocationIn
  <2>2. Put(e, f, tu, Mod, s, abs) =
          AddSymbolLocation(db.symDefs[s], ModuleOf[f], loc, ModuleOf)
    BY <1>1 DEF Put, Mod
  <2> HIDE DEF loc
  <2>3. QED
    BY <1>2, <2>1, <2>2, AddOnePerModule DEF Added
<1>6. QED
  BY <1>2, <1>3, <1>4, <1>5

(* Taking a file out keeps at most one location per module.                *)
LEMMA DeleteOnePerModule ==
  ASSUME TypeOK, OneLocationPerModule, NEW f \in Files, NEW w,
         RecordsDeleted(FileInfos, db, w, f, Mod)
  PROVE  \A s \in Symbols : OnePerModule(w.db.symDefs[s])
<1> TAKE s \in Symbols
<1>1. db.symDefs[s] \in Seq(Location) /\ OnePerModule(db.symDefs[s])
  BY DEF TypeOK, Database, OneLocationPerModule, OnePerModule
<1>2. \/ w.db.symDefs[s] = db.symDefs[s]
      \/ w.db.symDefs[s] = RemoveSymbolLocation(db.symDefs[s], Mod[f], Mod)
  BY DEF RecordsDeleted
<1>3. OnePerModule(RemoveSymbolLocation(db.symDefs[s], Mod[f], Mod))
  <2>1. CASE flags
    BY <1>1, <2>1, RemoveLoaded DEF Removed, Mod
  <2>2. CASE ~flags
    <3>1. Mod = [p \in Paths |-> NoModule] /\ Mod[f] = NoModule
      BY <2>2 DEF Mod, Paths
    <3>2. QED
      BY <1>1, <3>1, RemoveUnloaded DEF RemovedAny
  <2>3. QED
    BY <2>1, <2>2
<1>4. QED
  BY <1>1, <1>2, <1>3

(* So does every step.                                                     *)
LEMMA OneLocationStep ==
  TypeOK /\ OneLocationPerModule /\ [Next]_vars => OneLocationPerModule'
<1> SUFFICES ASSUME TypeOK, OneLocationPerModule, [Next]_vars
             PROVE  OneLocationPerModule'
  OBVIOUS
<1>1. ASSUME \A s \in Symbols : OnePerModule(db'.symDefs[s])
      PROVE  OneLocationPerModule'
  BY <1>1 DEF OneLocationPerModule, OnePerModule
<1>2. ASSUME NEW f \in Files, NEW tu \in TranslationUnits, NEW fi \in FileInfos,
             WriteParsed(f, tu, fi)
      PROVE  OneLocationPerModule'
  <2>1. CompiledWritten(FileInfos, db,
                            WriteCompiledFile(db, f, tu, fi, Mod, exists),
                            f, tu, fi, Mod)
    BY <1>2, WriteParsedType
  <2>2. flags /\ db' = WriteCompiledFile(db, f, tu, fi, Mod, exists).db
    BY <1>2 DEF WriteParsed
  <2>3. QED
    BY <1>1, <2>1, <2>2, WriteOnePerModule
<1>3. ASSUME NEW f \in Files, DeleteUnexistFile(f) \/ RebuildFile(f)
      PROVE  OneLocationPerModule'
  <2>1. RecordsDeleted(FileInfos, db, DeleteFileRecords(db, f, Mod, exists), f, Mod)
    BY DeleteFileRecordsShape DEF TypeOK
  <2>2. db' = DeleteFileRecords(db, f, Mod, exists).db
    BY <1>3 DEF DeleteUnexistFile, RebuildFile
  <2>3. QED
    BY <1>1, <2>1, <2>2, DeleteOnePerModule
<1>4. ASSUME UNCHANGED db PROVE OneLocationPerModule'
  BY <1>4 DEF OneLocationPerModule
<1>5. QED
  BY <1>2, <1>3, <1>4
     DEF Next, vars, CreateFile, RemoveFile, ListFileSymbols,
         GetSymbolDefinitions, GetSymbolDefinitionFor, LoadFlags, Stop, Restart

(* A symbol never has two locations of one module, although the deletion   *)
(* of a file takes out whatever location its module has, a rebuild before  *)
(* the flag cache is loaded takes out the first location of any module,    *)
(* and an exception commits half a batch.                                  *)
THEOREM OneLocation == Spec => []OneLocationPerModule
<1>1. Init => OneLocationPerModule
  BY DEF Init, EmptyDatabase, OneLocationPerModule
<1>2. QED
  BY <1>1, TypeCorrect, OneLocationStep, PTL DEF Spec

-----------------------------------------------------------------------------
(* The locations are those of the last parses.                             *)

(* What a WriteCompiledFile without an exception does to symbol s.         *)
Rewritten(w, f, tu, s) ==
  \/ w.db.symDefs[s] = << >> /\ s \notin DefinedSymbols(tu)
  \/ /\ s \in DefinedSymbols(tu)
     /\ \E abs \in BOOLEAN : w.db.symDefs[s] = Put(db, f, tu, Mod, s, abs)
  \/ /\ w.db.symDefs[s] = db.symDefs[s]
     /\ s \notin GoneSymbols(db, f, tu)
     /\ s \notin MovedSymbols(db, f, tu, Mod)
     /\ s \notin FreshSymbols(db, f, tu)

(* The loops that run to their end treat every symbol, and the record of   *)
(* the file lists the symbols of the parse.                                *)
LEMMA WriteComplete ==
  ASSUME TypeOK, NEW f \in Files, NEW tu, NEW fi, NEW w,
         CompiledWritten(FileInfos, db, w, f, tu, fi, Mod), ~w.threw
  PROVE  /\ \A s \in Symbols : Rewritten(w, f, tu, s)
         /\ DefinedSymbols(tu) \subseteq w.db.fileDefs[f]
         /\ \A g \in Files \ {f} : w.db.fileDefs[g] = db.fileDefs[g]
<1>1. PICK e, v : /\ e.symDefs = db.symDefs
                  /\ e.fileDefs = db.fileDefs
                  /\ DefinitionsWritten(e, v, f, tu, Mod)
                  /\ v.threw = w.threw
                  /\ v.db.symDefs = w.db.symDefs
                  /\ v.db.fileDefs = w.db.fileDefs
  BY Zenon DEF CompiledWritten
<1>2. /\ GoneSymbols(e, f, tu) = GoneSymbols(db, f, tu)
      /\ MovedSymbols(e, f, tu, Mod) = MovedSymbols(db, f, tu, Mod)
      /\ FreshSymbols(e, f, tu) = FreshSymbols(db, f, tu)
      /\ \A s, abs : Put(e, f, tu, Mod, s, abs) = Put(db, f, tu, Mod, s, abs)
  BY <1>1 DEF GoneSymbols, MovedSymbols, FreshSymbols, Put,
              LoadFileDefinedSymbolInfo
<1>3. \A s \in Symbols :
         w.db.symDefs[s] =
           IF s \in GoneSymbols(db, f, tu) THEN << >>
           ELSE IF s \in MovedSymbols(db, f, tu, Mod)
             THEN Put(db, f, tu, Mod, s, TRUE)
           ELSE IF s \in FreshSymbols(db, f, tu)
             THEN Put(db, f, tu, Mod, s, FALSE)
           ELSE db.symDefs[s]
  <2>1. \A s \in Symbols :
           v.db.symDefs[s] =
             IF s \in GoneSymbols(e, f, tu) THEN << >>
             ELSE IF s \in MovedSymbols(e, f, tu, Mod)
               THEN Put(e, f, tu, Mod, s, TRUE)
             ELSE IF s \in FreshSymbols(e, f, tu)
               THEN Put(e, f, tu, Mod, s, FALSE)
             ELSE e.symDefs[s]
    BY <1>1, Zenon DEF DefinitionsWritten
  <2>2. QED
    BY <1>1, <1>2, <2>1
<1>4. \A s : /\ s \in GoneSymbols(db, f, tu) => s \notin DefinedSymbols(tu)
             /\ s \in MovedSymbols(db, f, tu, Mod) => s \in DefinedSymbols(tu)
             /\ s \in FreshSymbols(db, f, tu) => s \in DefinedSymbols(tu)
  BY DEF GoneSymbols, MovedSymbols, FreshSymbols
<1>5. \A s \in Symbols : Rewritten(w, f, tu, s)
  BY <1>3, <1>4 DEF Rewritten
<1>6. w.db.fileDefs =
        [db.fileDefs EXCEPT ![f] =
           IF ~w.threw /\ GoneSymbols(e, f, tu)
                 \cup MovedSymbols(e, f, tu, Mod)
                 \cup FreshSymbols(e, f, tu) # {}
             THEN DefinedSymbols(tu) ELSE db.fileDefs[f]]
  BY <1>1, Zenon DEF DefinitionsWritten
<1>7. f \in DOMAIN db.fileDefs /\ DOMAIN db.fileDefs = Files
  BY DEF TypeOK, Database
<1>8. FreshSymbols(db, f, tu) = {} => DefinedSymbols(tu) \subseteq db.fileDefs[f]
  BY DEF FreshSymbols, LoadFileDefinedSymbolInfo
<1>9. DefinedSymbols(tu) \subseteq w.db.fileDefs[f]
  BY <1>2, <1>6, <1>7, <1>8
<1>10. \A g \in Files \ {f} : w.db.fileDefs[g] = db.fileDefs[g]
  BY <1>6, <1>7
<1>11. QED
  BY <1>5, <1>9, <1>10

(* An old symbol that is not replaced has the location of the parse.       *)
LEMMA Unmoved ==
  ASSUME TypeOK, OneLocationPerModule, flags, NEW f \in Files,
         NEW tu, NEW s \in DefinedSymbols(tu),
         s \notin MovedSymbols(db, f, tu, Mod),
         s \in LoadFileDefinedSymbolInfo(db, f)
  PROVE  \E h \in DOMAIN db.symDefs[s] :
            /\ db.symDefs[s][h].file = f
            /\ db.symDefs[s][h].line = tu.defs[s]
<1> DEFINE locs == db.symDefs[s]
           hits == SameModule(locs, ModuleOf[f], ModuleOf)
           loc  == LocationIn(f, tu, s, TRUE)
<1>1. Mod = ModuleOf /\ ModuleOf[f] # NoModule
  BY IndexAssumption DEF Mod
<1>2. s \in Symbols /\ locs \in Seq(Location) /\ OnePerModule(locs)
  BY DEF DefinedSymbols, TypeOK, Database, OneLocationPerModule, OnePerModule
<1>3. QuerySymbolDefinition(locs, f, ModuleOf) = loc /\ locs # << >>
  BY <1>1 DEF MovedSymbols, LoadFileDefinedSymbolInfo
<1>4. loc.file = f /\ loc.line = tu.defs[s]
  BY DEF LocationIn
<1> HIDE DEF locs, loc
<1>5. ASSUME NEW h \in hits
      PROVE  h \in DOMAIN locs /\ locs[h].file = f /\ locs[h].line = tu.defs[s]
  <2>1. Min(hits) = h /\ h \in DOMAIN locs /\ locs[h] \in Location
    BY <1>2, <1>5, SingleHit
  <2>2. [locs[h] EXCEPT !.abs = TRUE] = loc
    BY <1>1, <1>3, <1>5, <2>1 DEF QuerySymbolDefinition
  <2>3. loc.file = locs[h].file /\ loc.line = locs[h].line
    BY <2>1, <2>2 DEF Location
  <2>4. QED
    BY <1>4, <2>1, <2>3
<1>6. CASE hits = {}
  <2>1. locs[1] = loc /\ 1 \in DOMAIN locs
    BY <1>2, <1>3, <1>6 DEF QuerySymbolDefinition
  <2>2. QED
    BY <1>4, <2>1 DEF locs
<1>7. QED
  BY <1>5, <1>6 DEF locs

(* Writing a parse result of f without an exception: every location it     *)
(* leaves is one of f that the parse reports, or an old one of another     *)
(* file.                                                                   *)
LEMMA WriteLocations ==
  ASSUME TypeOK, OneLocationPerModule, BackLinks, ~torn, flags,
         NEW f \in Files, NEW tu \in TranslationUnits, NEW fi, NEW w,
         CompiledWritten(FileInfos, db, w, f, tu, fi, Mod), ~w.threw,
         NEW s \in Symbols, NEW k \in DOMAIN w.db.symDefs[s],
         NEW loc, loc = w.db.symDefs[s][k]
  PROVE  \/ /\ loc.file = f
            /\ loc.line = tu.defs[s]
            /\ s \in DefinedSymbols(tu)
         \/ /\ loc.file # f
            /\ \E j \in DOMAIN db.symDefs[s] : db.symDefs[s][j] = loc
<1> DEFINE locs == db.symDefs[s]
<1>1. locs \in Seq(Location) /\ OnePerModule(locs) /\ Mod = ModuleOf
  BY DEF TypeOK, Database, OneLocationPerModule, OnePerModule, Mod
<1>2. Rewritten(w, f, tu, s)
  BY WriteComplete
<1>3. loc \in Location
  BY DEF CompiledWritten, Database
<1>4. CASE w.db.symDefs[s] = << >>
  BY <1>4
<1>5. ASSUME s \in DefinedSymbols(tu), NEW abs \in BOOLEAN,
             w.db.symDefs[s] = Put(db, f, tu, Mod, s, abs)
      PROVE  \/ loc.file = f /\ loc.line = tu.defs[s]
             \/ loc.file # f /\ \E j \in DOMAIN locs : locs[j] = loc
  <2> DEFINE new == LocationIn(f, tu, s, abs)
  <2>1. new \in Location /\ new.file = f /\ new.line = tu.defs[s]
    BY <1>5, LocationType, IndexAssumption DEF LocationIn
  <2>2. w.db.symDefs[s] = AddSymbolLocation(locs, ModuleOf[f], new, ModuleOf)
    BY <1>1, <1>5 DEF Put
  <2> HIDE DEF new
  <2>3. Added(w.db.symDefs[s], locs, ModuleOf[f], new)
    BY <1>1, <2>1, <2>2, AddOnePerModule
  <2>4. \/ loc = new
        \/ \E j \in DOMAIN locs : /\ loc = locs[j]
                                  /\ ModuleOf[locs[j].file] # ModuleOf[f]
    BY <2>3 DEF Added
  <2>5. QED
    BY <2>1, <2>4
<1>6. ASSUME w.db.symDefs[s] = locs, loc.file = f,
             s \notin GoneSymbols(db, f, tu),
             s \notin MovedSymbols(db, f, tu, Mod)
      PROVE  s \in DefinedSymbols(tu) /\ loc.line = tu.defs[s]
  <2>1. s \in LoadFileDefinedSymbolInfo(db, f)
    BY <1>1, <1>6 DEF BackLinks, LoadFileDefinedSymbolInfo
  <2>2. s \in DefinedSymbols(tu)
    BY <1>6, <2>1 DEF GoneSymbols
  <2>3. PICK h \in DOMAIN locs : /\ locs[h].file = f
                                 /\ locs[h].line = tu.defs[s]
    BY <1>6, <2>1, <2>2, Unmoved
  <2>4. h = k
    BY <1>1, <1>6, <2>3 DEF OnePerModule
  <2>5. QED
    BY <1>6, <2>2, <2>3, <2>4
<1>7. QED
  BY <1>2, <1>4, <1>5, <1>6 DEF Rewritten

(* Taking a file out leaves old locations only.                            *)
LEMMA DeleteLocations ==
  ASSUME TypeOK, OneLocationPerModule, NEW f \in Files, NEW w,
         RecordsDeleted(FileInfos, db, w, f, Mod),
         NEW s \in Symbols, NEW k \in DOMAIN w.db.symDefs[s]
  PROVE  \E j \in DOMAIN db.symDefs[s] : db.symDefs[s][j] = w.db.symDefs[s][k]
<1>1. db.symDefs[s] \in Seq(Location) /\ OnePerModule(db.symDefs[s])
  BY DEF TypeOK, Database, OneLocationPerModule, OnePerModule
<1>2. \/ w.db.symDefs[s] = db.symDefs[s]
      \/ w.db.symDefs[s] = RemoveSymbolLocation(db.symDefs[s], Mod[f], Mod)
  BY DEF RecordsDeleted
<1>3. CASE w.db.symDefs[s] = RemoveSymbolLocation(db.symDefs[s], Mod[f], Mod)
  <2>1. CASE flags
    <3>1. Removed(w.db.symDefs[s], db.symDefs[s], ModuleOf[f])
      BY <1>1, <1>3, <2>1, RemoveLoaded DEF Mod
    <3>2. QED
      BY <3>1 DEF Removed
  <2>2. CASE ~flags
    <3>1. Mod = [p \in Paths |-> NoModule] /\ Mod[f] = NoModule
      BY <2>2 DEF Mod, Paths
    <3>2. RemovedAny(w.db.symDefs[s], db.symDefs[s])
      BY <1>1, <1>3, <3>1, RemoveUnloaded
    <3>3. QED
      BY <3>2 DEF RemovedAny
  <2>3. QED
    BY <2>1, <2>2
<1>4. QED
  BY <1>2, <1>3

(* The inductive invariant: LocationsSound needs the one location that     *)
(* WriteFileDefinitions compares to be the only one of its module, and the *)
(* record of the file to list every symbol that is located in it.          *)
IndexInvariant ==
  /\ TypeOK
  /\ OneLocationPerModule
  /\ BackLinks
  /\ LocationsSound

(* Every step keeps it.                                                    *)
LEMMA IndexStep == IndexInvariant /\ [Next]_vars => IndexInvariant'
<1> SUFFICES ASSUME IndexInvariant, [Next]_vars PROVE IndexInvariant'
  OBVIOUS
<1> USE DEF IndexInvariant
<1>1. TypeOK' /\ OneLocationPerModule'
  BY TypeStep, OneLocationStep
<1>2. ASSUME NEW f \in Files, NEW tu \in TranslationUnits, NEW fi \in FileInfos,
             WriteParsed(f, tu, fi)
      PROVE  BackLinks' /\ LocationsSound'
  <2> DEFINE w == WriteCompiledFile(db, f, tu, fi, Mod, exists)
  <2>1. CompiledWritten(FileInfos, db, w, f, tu, fi, Mod)
    BY <1>2, WriteParsedType
  <2>2. /\ flags
        /\ db' = w.db
        /\ torn' = (torn \/ w.threw)
        /\ ~w.threw => written' = [written EXCEPT ![f] = tu]
    BY <1>2 DEF WriteParsed
  <2> HIDE DEF w
  <2> SUFFICES ASSUME ~torn, ~w.threw PROVE BackLinks' /\ LocationsSound'
    BY <2>2 DEF BackLinks, LocationsSound
  <2>3. /\ DefinedSymbols(tu) \subseteq w.db.fileDefs[f]
        /\ \A g \in Files \ {f} : w.db.fileDefs[g] = db.fileDefs[g]
    BY <2>1, WriteComplete
  <2>4. /\ written'[f] = tu
        /\ tu # NoTU
        /\ \A g \in Files \ {f} : written'[g] = written[g]
    BY <2>2, IndexAssumption DEF TypeOK
  <2>5. ASSUME NEW s \in Symbols, NEW k \in DOMAIN db'.symDefs[s]
        PROVE  /\ s \in db'.fileDefs[db'.symDefs[s][k].file]
               /\ written'[db'.symDefs[s][k].file] # NoTU
               /\ written'[db'.symDefs[s][k].file].defs[s] = db'.symDefs[s][k].line
    <3> DEFINE loc == w.db.symDefs[s][k]
    <3>1. loc \in Location
      BY <1>1, <2>2, <2>5 DEF TypeOK, Database
    <3>2. loc.file \in Files
      BY <3>1 DEF Location
    <3>3. \/ loc.file = f /\ loc.line = tu.defs[s] /\ s \in DefinedSymbols(tu)
          \/ /\ loc.file # f
             /\ \E j \in DOMAIN db.symDefs[s] : db.symDefs[s][j] = loc
      BY <2>1, <2>2, <2>5, WriteLocations
    <3> HIDE DEF loc
    <3>4. ASSUME loc.file # f, NEW j \in DOMAIN db.symDefs[s],
                 db.symDefs[s][j] = loc
          PROVE  /\ s \in db.fileDefs[loc.file]
                 /\ written[loc.file] # NoTU
                 /\ written[loc.file].defs[s] = loc.line
      BY <3>4 DEF BackLinks, LocationsSound
    <3>5. /\ s \in w.db.fileDefs[loc.file]
          /\ written'[loc.file] # NoTU
          /\ written'[loc.file].defs[s] = loc.line
      BY <2>3, <2>4, <3>2, <3>3, <3>4
    <3>6. QED
      BY <2>2, <3>5 DEF loc
  <2>6. QED
    BY <2>5 DEF BackLinks, LocationsSound
<1>3. ASSUME NEW f \in Files, DeleteUnexistFile(f) \/ RebuildFile(f)
      PROVE  BackLinks' /\ LocationsSound'
  <2> DEFINE w == DeleteFileRecords(db, f, Mod, exists)
  <2>1. RecordsDeleted(FileInfos, db, w, f, Mod)
    BY DeleteFileRecordsShape DEF TypeOK
  <2>2. db' = w.db /\ torn' = torn /\ written' = written
    BY <1>3 DEF DeleteUnexistFile, RebuildFile
  <2>3. w.db.fileDefs = db.fileDefs
    BY <2>1 DEF RecordsDeleted
  <2> HIDE DEF w
  <2>4. \A s \in Symbols : \A k \in DOMAIN db'.symDefs[s] :
           \E j \in DOMAIN db.symDefs[s] : db.symDefs[s][j] = db'.symDefs[s][k]
    BY <2>1, <2>2, DeleteLocations
  <2>5. CASE torn
    BY <2>2, <2>5 DEF BackLinks, LocationsSound
  <2>6. ASSUME ~torn, NEW s \in Symbols, NEW k \in DOMAIN db'.symDefs[s]
        PROVE  /\ s \in db'.fileDefs[db'.symDefs[s][k].file]
               /\ written'[db'.symDefs[s][k].file] # NoTU
               /\ written'[db'.symDefs[s][k].file].defs[s] = db'.symDefs[s][k].line
    <3>1. PICK j \in DOMAIN db.symDefs[s] :
             db.symDefs[s][j] = db'.symDefs[s][k]
      BY <2>4, <2>6
    <3>2. /\ s \in db.fileDefs[db.symDefs[s][j].file]
          /\ written[db.symDefs[s][j].file] # NoTU
          /\ written[db.symDefs[s][j].file].defs[s] = db.symDefs[s][j].line
      BY <2>6 DEF BackLinks, LocationsSound
    <3>3. QED
      BY <2>2, <2>3, <3>1, <3>2
  <2>7. QED
    BY <2>5, <2>6 DEF BackLinks, LocationsSound
<1>4. ASSUME UNCHANGED << db, torn, written >>
      PROVE  BackLinks' /\ LocationsSound'
  BY <1>4 DEF BackLinks, LocationsSound
<1>5. BackLinks' /\ LocationsSound'
  BY <1>2, <1>3, <1>4
     DEF Next, vars, CreateFile, RemoveFile, ListFileSymbols,
         GetSymbolDefinitions, GetSymbolDefinitionFor, LoadFlags, Stop, Restart
<1>6. QED
  BY <1>1, <1>5

(* The index invariant holds from the creation of the database on.         *)
LEMMA IndexInvariantHolds == Spec => []IndexInvariant
<1>1. Init => IndexInvariant
  <2> SUFFICES ASSUME Init PROVE IndexInvariant
    OBVIOUS
  <2>1. \A s \in Symbols : db.symDefs[s] = << >>
    BY DEF Init, EmptyDatabase
  <2>2. OneLocationPerModule /\ BackLinks /\ LocationsSound
    BY <2>1 DEF OneLocationPerModule, BackLinks, LocationsSound
  <2>3. TypeOK
    BY EmptyType DEF Init, TypeOK
  <2>4. QED
    BY <2>2, <2>3 DEF IndexInvariant
<1>2. QED
  BY <1>1, IndexStep, PTL DEF Spec

(* Every location can be found from its file: DeleteFileDefinedSymbolInfo, *)
(* which only looks at the symbols that "file:symdef" lists, misses none,  *)
(* as long as no exception has committed half of a parse result.           *)
THEOREM LocationsAreListed == Spec => []BackLinks
<1>1. IndexInvariant => BackLinks
  BY DEF IndexInvariant
<1>2. QED
  BY <1>1, IndexInvariantHolds, PTL

(* A symbol lookup never answers with a line that the last parse of the    *)
(* file did not report, although a parse only rewrites the symbols whose   *)
(* one stored location differs from the new one.                           *)
THEOREM LocationsAreSound == Spec => []LocationsSound
<1>1. IndexInvariant => LocationsSound
  BY DEF IndexInvariant
<1>2. QED
  BY <1>1, IndexInvariantHolds, PTL

-----------------------------------------------------------------------------
(* What a handler has done when it returns without an exception.           *)

(* Each symbol that a parse defines has a location at its new line, the    *)
(* symbols that WriteFileDefinitions takes for unchanged included.         *)
THEOREM WritesThrough == Spec => WriteThrough
<1>1. ASSUME IndexInvariant, NEW f \in Files, NEW tu \in TranslationUnits,
             NEW fi \in FileInfos, WriteParsed(f, tu, fi), up',
             NEW s \in DefinedSymbols(tu)
      PROVE  \E k \in DOMAIN db'.symDefs[s] :
                /\ db'.symDefs[s][k].file = f
                /\ db'.symDefs[s][k].line = tu.defs[s]
  <2> DEFINE w == WriteCompiledFile(db, f, tu, fi, Mod, exists)
             locs == db.symDefs[s]
  <2>1. TypeOK /\ OneLocationPerModule
    BY <1>1 DEF IndexInvariant
  <2>2. CompiledWritten(FileInfos, db, w, f, tu, fi, Mod)
    BY <1>1, <2>1, WriteParsedType
  <2>3. flags /\ db' = w.db /\ ~w.threw
    BY <1>1 DEF WriteParsed, Continue
  <2> HIDE DEF w
  <2>4. s \in Symbols
    BY DEF DefinedSymbols
  <2>5. Rewritten(w, f, tu, s)
    BY <2>1, <2>2, <2>3, <2>4, WriteComplete
  <2>6. ASSUME NEW abs \in BOOLEAN,
               w.db.symDefs[s] = Put(db, f, tu, Mod, s, abs)
        PROVE  \E k \in DOMAIN w.db.symDefs[s] :
                  /\ w.db.symDefs[s][k].file = f
                  /\ w.db.symDefs[s][k].line = tu.defs[s]
    <3> DEFINE new == LocationIn(f, tu, s, abs)
    <3>1. new \in Location /\ new.file = f /\ new.line = tu.defs[s]
      BY LocationType, IndexAssumption DEF LocationIn
    <3>2. locs \in Seq(Location) /\ OnePerModule(locs)
      BY <2>1, <2>4 DEF TypeOK, Database, OneLocationPerModule, OnePerModule
    <3>3. w.db.symDefs[s] = AddSymbolLocation(locs, ModuleOf[f], new, ModuleOf)
      BY <2>3, <2>6 DEF Put, Mod
    <3> HIDE DEF new
    <3>4. Added(w.db.symDefs[s], locs, ModuleOf[f], new)
      BY <3>1, <3>2, <3>3, AddOnePerModule
    <3>5. QED
      BY <3>1, <3>4 DEF Added
  <2>7. ASSUME w.db.symDefs[s] = locs,
               s \notin MovedSymbols(db, f, tu, Mod),
               s \notin FreshSymbols(db, f, tu)
        PROVE  \E k \in DOMAIN locs : /\ locs[k].file = f
                                      /\ locs[k].line = tu.defs[s]
    <3>1. s \in LoadFileDefinedSymbolInfo(db, f)
      BY <2>7 DEF FreshSymbols
    <3>2. QED
      BY <2>1, <2>3, <2>7, <3>1, Unmoved
  <2>8. QED
    BY <2>3, <2>5, <2>6, <2>7 DEF Rewritten
<1>2. IndexInvariant /\ [Next]_vars => [WrittenIsFindable]_vars
  BY <1>1 DEF WrittenIsFindable
<1>3. QED
  BY <1>2, IndexInvariantHolds, PTL DEF Spec, WriteThrough

(* After the delete event of a file no symbol is located in it, although   *)
(* RemoveSymbolLocation compares modules and not files.                    *)
THEOREM DeletionIsClean == Spec => DeletionClears
<1>1. ASSUME IndexInvariant, NEW f \in Files, DeleteUnexistFile(f), ~torn,
             ~DeleteFileRecords(db, f, Mod, exists).threw,
             NEW s \in Symbols, NEW k \in DOMAIN db'.symDefs[s]
      PROVE  db'.symDefs[s][k].file # f
  <2> DEFINE w == DeleteFileRecords(db, f, Mod, exists)
             locs == db.symDefs[s]
  <2>1. TypeOK /\ OneLocationPerModule /\ BackLinks
    BY <1>1 DEF IndexInvariant
  <2>2. RecordsDeleted(FileInfos, db, w, f, Mod)
    BY <2>1, DeleteFileRecordsShape DEF TypeOK
  <2>3. Mod = ModuleOf /\ db' = w.db /\ ~w.threw
    BY <1>1 DEF DeleteUnexistFile, Mod
  <2> HIDE DEF w
  <2>4. locs \in Seq(Location) /\ OnePerModule(locs)
    BY <2>1 DEF TypeOK, Database, OneLocationPerModule, OnePerModule
  <2>5. Removed(RemoveSymbolLocation(locs, ModuleOf[f], ModuleOf),
                locs, ModuleOf[f])
    BY <2>4, RemoveLoaded
  <2>6. CASE w.db.symDefs[s] = RemoveSymbolLocation(locs, Mod[f], Mod)
    BY <2>3, <2>5, <2>6 DEF Removed
  <2>7. CASE w.db.symDefs[s] = locs /\ s \notin db.fileDefs[f]
    BY <1>1, <2>1, <2>3, <2>7 DEF BackLinks
  <2>8. QED
    BY <2>2, <2>3, <2>6, <2>7 DEF RecordsDeleted
<1>2. IndexInvariant /\ [Next]_vars =>
        [\A f \in Files :
           /\ DeleteUnexistFile(f)
           /\ ~torn
           /\ ~DeleteFileRecords(db, f, Mod, exists).threw
           => \A s \in Symbols : \A k \in DOMAIN db'.symDefs[s] :
                 db'.symDefs[s][k].file # f]_vars
  BY <1>1
<1>3. QED
  BY <1>2, IndexInvariantHolds, PTL DEF Spec, DeletionClears

-----------------------------------------------------------------------------
(* References.                                                             *)

(* Some parse result refers to symbol s with a declaration in module m.    *)
DeclaredIn(s, m) ==
  \E tu \in TranslationUnits, p \in Paths :
     tu.refs[<<s, p>>] # {} /\ ModuleOf[p] = m

(* The declarations of a symbol that are referred to lie in one module, as *)
(* they do when a symbol is declared in one header.                        *)
OneOrigin ==
  \A s \in Symbols, m, n \in Modules :
     DeclaredIn(s, m) /\ DeclaredIn(s, n) => m = n

(* What the records of references of database d say of each other.         *)
ReferencesAgree(d) ==
  \A s \in Symbols, m \in Modules, f \in Files :
     /\ d.fileRefs[f][<<s, m>>] # {} => DeclaredIn(s, m)
     /\ d.symRefs[s][<<m, f>>] # {}
          => d.symRefs[s][<<m, f>>] = d.fileRefs[f][<<s, m>>]

(* The greatest of one.                                                    *)
LEMMA MaxOfOne == ASSUME NEW x \in Nat PROVE Max({x}) = x
  BY DEF Max

(* The lines that a parse result has for a module are those of a           *)
(* declaration there.                                                      *)
LEMMA ReferredAreDeclared ==
  ASSUME NEW tu \in TranslationUnits, NEW s \in Symbols, NEW m \in Modules,
         ReferredSymbols(tu, ModuleOf)[<<s, m>>] # {}
  PROVE  DeclaredIn(s, m)
<1>1. ReferredSymbols(tu, ModuleOf)[<<s, m>>] =
        UNION {tu.refs[<<s, p>>] : p \in {q \in Paths : ModuleOf[q] = m}}
  BY DEF ReferredSymbols
<1>2. PICK l : l \in UNION {tu.refs[<<s, p>>] : p \in {q \in Paths : ModuleOf[q] = m}}
  BY <1>1
<1>3. PICK p \in Paths : ModuleOf[p] = m /\ l \in tu.refs[<<s, p>>]
  BY <1>2
<1>4. QED
  BY <1>3 DEF DeclaredIn

(* WriteFileReferences puts one module of a symbol in a batch: with one    *)
(* origin there is no other that it could lose.                            *)
LEMMA WriteReferencesAgree ==
  ASSUME OneOrigin, NEW d \in Database(FileInfos), ReferencesAgree(d),
         NEW f \in Files, NEW tu \in TranslationUnits
  PROVE  ReferencesAgree(WriteFileReferences(d, f, tu, ModuleOf))
<1> DEFINE new == ReferredSymbols(tu, ModuleOf)
           changed(s) == ChangedModules(d, f, new, s)
           dropped(s) == DroppedModules(d, f, new, s)
           r == WriteFileReferences(d, f, tu, ModuleOf)
<1>1. \A s \in Symbols : r.symRefs[s] =
        IF changed(s) # {}
          THEN [d.symRefs[s] EXCEPT ![<<Max(changed(s)), f>>] =
                                       new[<<s, Max(changed(s))>>]]
        ELSE IF dropped(s) # {}
          THEN [d.symRefs[s] EXCEPT ![<<Max(dropped(s)), f>>] = {}]
        ELSE d.symRefs[s]
  BY DEF WriteFileReferences, Database
<1>2. /\ \A g \in Files \ {f} : r.fileRefs[g] = d.fileRefs[g]
      /\ r.fileRefs[f] = IF \E s \in Symbols : changed(s) \cup dropped(s) # {}
                           THEN new ELSE d.fileRefs[f]
  BY DEF WriteFileReferences, Database
<1>3. \A s \in Symbols, m \in Modules : new[<<s, m>>] # {} => DeclaredIn(s, m)
  BY ReferredAreDeclared
<1> HIDE DEF new, r
<1>4. ASSUME NEW s \in Symbols, NEW m \in Modules, NEW g \in Files
      PROVE  /\ r.fileRefs[g][<<s, m>>] # {} => DeclaredIn(s, m)
             /\ r.symRefs[s][<<m, g>>] # {}
                  => r.symRefs[s][<<m, g>>] = r.fileRefs[g][<<s, m>>]
  <2>1. /\ d.fileRefs[g][<<s, m>>] # {} => DeclaredIn(s, m)
        /\ d.symRefs[s][<<m, g>>] # {}
             => d.symRefs[s][<<m, g>>] = d.fileRefs[g][<<s, m>>]
    BY DEF ReferencesAgree
  <2>2. r.fileRefs[g][<<s, m>>] # {} => DeclaredIn(s, m)
    BY <1>2, <1>3, <2>1
  <2>3. d.symRefs[s] \in [Modules \X Files -> SUBSET Lines]
    BY DEF Database
  <2>4. \A n \in Modules : \A v :
          [d.symRefs[s] EXCEPT ![<<n, f>>] = v][<<m, g>>] =
             IF n = m /\ f = g THEN v ELSE d.symRefs[s][<<m, g>>]
    BY <2>3
  <2>5. \A n \in changed(s) \cup dropped(s) : n \in Modules /\ DeclaredIn(s, n)
    BY <1>3 DEF ChangedModules, DroppedModules, ReferencesAgree
  <2>6. \A n, o \in changed(s) \cup dropped(s) : n = o
    BY <2>5 DEF OneOrigin
  <2>7. ASSUME NEW n \in changed(s)
        PROVE  changed(s) = {n} /\ Max(changed(s)) = n
    <3>1. changed(s) = {n}
      BY <2>6, <2>7
    <3>2. QED
      BY <2>5, <3>1, MaxOfOne, StoreAssumption
  <2>8. ASSUME NEW n \in dropped(s)
        PROVE  dropped(s) = {n} /\ Max(dropped(s)) = n
    <3>1. dropped(s) = {n}
      BY <2>6, <2>8
    <3>2. QED
      BY <2>5, <3>1, MaxOfOne, StoreAssumption
  <2>9. CASE changed(s) # {}
    <3>1. PICK n \in changed(s) : Max(changed(s)) = n
      BY <2>7, <2>9
    <3>2. r.symRefs[s][<<m, g>>] =
            IF n = m /\ f = g THEN new[<<s, n>>] ELSE d.symRefs[s][<<m, g>>]
      <4>1. r.symRefs[s] = [d.symRefs[s] EXCEPT ![<<n, f>>] = new[<<s, n>>]]
        BY <1>1, <2>9, <3>1
      <4>2. n \in Modules
        BY <2>5
      <4>3. QED
        BY <2>4, <4>1, <4>2
    <3>3. r.fileRefs[f] = new
      BY <1>2, <2>9
    <3>4. f = g /\ m # n => d.symRefs[s][<<m, g>>] = {}
      BY <2>1, <2>5, <3>1 DEF OneOrigin
    <3>5. QED
      BY <1>2, <2>1, <2>2, <3>2, <3>3, <3>4
  <2>10. CASE changed(s) = {} /\ dropped(s) # {}
    <3>1. PICK n \in dropped(s) : Max(dropped(s)) = n
      BY <2>8, <2>10
    <3>2. r.symRefs[s][<<m, g>>] =
            IF n = m /\ f = g THEN {} ELSE d.symRefs[s][<<m, g>>]
      <4>1. r.symRefs[s] = [d.symRefs[s] EXCEPT ![<<n, f>>] = {}]
        BY <1>1, <2>10, <3>1
      <4>2. n \in Modules
        BY <2>5
      <4>3. QED
        BY <2>4, <4>1, <4>2
    <3>3. f = g /\ m # n => d.symRefs[s][<<m, g>>] = {}
      BY <2>1, <2>5, <3>1 DEF OneOrigin
    <3>4. QED
      BY <1>2, <2>1, <2>2, <3>2, <3>3
  <2>11. CASE changed(s) = {} /\ dropped(s) = {}
    <3>1. r.symRefs[s] = d.symRefs[s]
      BY <1>1, <2>11
    <3>2. CASE g # f
      BY <1>2, <2>1, <2>2, <3>1, <3>2
    <3>3. CASE g = f
      <4>1. new[<<s, m>>] = {} \/ new[<<s, m>>] = d.fileRefs[f][<<s, m>>]
        BY <2>11 DEF ChangedModules
      <4>2. ASSUME new[<<s, m>>] = {}, d.symRefs[s][<<m, f>>] # {}
            PROVE  FALSE
        BY <2>1, <2>11, <3>3, <4>2 DEF DroppedModules
      <4>3. QED
        BY <1>2, <2>1, <2>2, <3>1, <3>3, <4>1, <4>2
    <3>4. QED
      BY <3>2, <3>3
  <2>12. QED
    BY <2>9, <2>10, <2>11
<1>5. QED
  BY <1>4 DEF ReferencesAgree, r

(* DeleteFileReferredSymbolInfo only takes references away.                *)
LEMMA DeleteReferencesAgree ==
  ASSUME NEW d \in Database(FileInfos), ReferencesAgree(d), NEW f \in Files
  PROVE  ReferencesAgree(DeleteFileReferredSymbolInfo(d, f))
<1> DEFINE r == DeleteFileReferredSymbolInfo(d, f)
<1>1. r.fileRefs = d.fileRefs
  BY DEF DeleteFileReferredSymbolInfo, Database
<1>2. \A s \in Symbols : \/ r.symRefs[s] = d.symRefs[s]
                         \/ \E m : r.symRefs[s] =
                                [d.symRefs[s] EXCEPT ![<<m, f>>] = {}]
  BY DEF DeleteFileReferredSymbolInfo, Database
<1> HIDE DEF r
<1>3. ASSUME NEW s \in Symbols, NEW m \in Modules, NEW g \in Files
      PROVE  r.symRefs[s][<<m, g>>] \in {{}, d.symRefs[s][<<m, g>>]}
  <2>1. d.symRefs[s] \in [Modules \X Files -> SUBSET Lines]
    BY DEF Database
  <2>2. QED
    BY <1>2, <2>1
<1>4. ASSUME NEW s \in Symbols, NEW m \in Modules, NEW g \in Files
      PROVE  /\ r.fileRefs[g][<<s, m>>] # {} => DeclaredIn(s, m)
             /\ r.symRefs[s][<<m, g>>] # {}
                  => r.symRefs[s][<<m, g>>] = r.fileRefs[g][<<s, m>>]
  <2>1. /\ d.fileRefs[g][<<s, m>>] # {} => DeclaredIn(s, m)
        /\ d.symRefs[s][<<m, g>>] # {}
             => d.symRefs[s][<<m, g>>] = d.fileRefs[g][<<s, m>>]
    BY DEF ReferencesAgree
  <2>2. r.symRefs[s][<<m, g>>] \in {{}, d.symRefs[s][<<m, g>>]}
    BY <1>3
  <2>3. QED
    BY <1>1, <2>1, <2>2
<1>5. QED
  BY <1>4 DEF ReferencesAgree, r

(* A batch that an exception has cut short has not reached the references. *)
LEMMA ReferencesStep ==
  ASSUME OneOrigin, TypeOK, ReferencesAgree(db), [Next]_vars
  PROVE  ReferencesAgree(db')
<1>1. ASSUME NEW d, NEW e, d.fileRefs = e.fileRefs, d.symRefs = e.symRefs,
             ReferencesAgree(d)
      PROVE  ReferencesAgree(e)
  <2>1. ASSUME NEW s \in Symbols, NEW m \in Modules, NEW f \in Files
        PROVE  /\ e.fileRefs[f][<<s, m>>] # {} => DeclaredIn(s, m)
               /\ e.symRefs[s][<<m, f>>] # {}
                    => e.symRefs[s][<<m, f>>] = e.fileRefs[f][<<s, m>>]
    <3>1. /\ d.fileRefs[f][<<s, m>>] # {} => DeclaredIn(s, m)
          /\ d.symRefs[s][<<m, f>>] # {}
               => d.symRefs[s][<<m, f>>] = d.fileRefs[f][<<s, m>>]
      BY <1>1 DEF ReferencesAgree
    <3>2. QED
      BY <1>1, <3>1
  <2>2. QED
    BY <2>1 DEF ReferencesAgree
<1>2. ASSUME NEW f \in Files, NEW tu \in TranslationUnits, NEW fi \in FileInfos,
             WriteParsed(f, tu, fi)
      PROVE  ReferencesAgree(db')
  <2> DEFINE e == [db EXCEPT !.info[f] = fi]
             v == WriteFileDefinitions(e, f, tu, ModuleOf, exists)
  <2>1. tu \in TranslationUnit /\ e \in Database(FileInfos)
    BY IndexAssumption DEF TypeOK, Database
  <2>2. e.fileRefs = db.fileRefs /\ e.symRefs = db.symRefs
    BY DEF TypeOK, Database
  <2>3. db' = IF v.threw THEN v.db
                         ELSE WriteFileReferences(v.db, f, tu, ModuleOf)
    BY <1>2 DEF WriteParsed, WriteCompiledFile, Outcome, Mod
  <2> HIDE DEF e
  <2>4. DefinitionsWritten(e, v, f, tu, ModuleOf)
    BY <2>1, WriteFileDefinitionsShape
  <2> HIDE DEF v
  <2>5. v.db \in Database(FileInfos)
    BY <2>1, <2>4, WriteFileDefinitionsType
  <2>6. v.db.fileRefs = e.fileRefs /\ v.db.symRefs = e.symRefs
    BY <2>1, <2>4 DEF DefinitionsWritten, Database
  <2>7. ReferencesAgree(v.db)
    BY <1>1, <2>2, <2>6
  <2>8. QED
    BY <2>3, <2>5, <2>7, WriteReferencesAgree
<1>3. ASSUME NEW f \in Files, DeleteUnexistFile(f) \/ RebuildFile(f)
      PROVE  ReferencesAgree(db')
  <2> DEFINE e == [db EXCEPT !.info[f] = NoInfo]
             v == DeleteFileDefinedSymbolInfo(e, f, Mod, exists)
  <2>1. e \in Database(FileInfos)
    BY DEF TypeOK, Database
  <2>2. e.fileRefs = db.fileRefs /\ e.symRefs = db.symRefs
    BY DEF TypeOK, Database
  <2>3. db' = IF v.threw THEN v.db ELSE DeleteFileReferredSymbolInfo(v.db, f)
    BY <1>3 DEF DeleteUnexistFile, RebuildFile, DeleteFileRecords, Outcome
  <2> HIDE DEF e
  <2>4. DefinitionsDeleted(e, v, f, Mod)
    BY <2>1, DeleteFileDefinedSymbolInfoShape
  <2> HIDE DEF v
  <2>5. v.db \in Database(FileInfos)
    BY <2>1, <2>4, DeleteFileDefinedSymbolInfoType
  <2>6. v.db.fileRefs = e.fileRefs /\ v.db.symRefs = e.symRefs
    BY <2>1, <2>4 DEF DefinitionsDeleted, Database
  <2>7. ReferencesAgree(v.db)
    BY <1>1, <2>2, <2>6
  <2>8. QED
    BY <2>3, <2>5, <2>7, DeleteReferencesAgree
<1>4. CASE UNCHANGED db
  BY <1>4
<1>5. QED
  BY <1>2, <1>3, <1>4
     DEF Next, vars, CreateFile, RemoveFile, ListFileSymbols,
         GetSymbolDefinitions, GetSymbolDefinitionFor, LoadFlags, Stop, Restart

(* When each symbol has its declarations in one module, the lines under a  *)
(* symbol are always those that its files record, also after exceptions;   *)
(* without that, WriteFileReferences loses one of two puts of a record.    *)
THEOREM ReferencesAreSound == OneOrigin => (Spec => []ReferencesSound)
<1> SUFFICES ASSUME OneOrigin PROVE Spec => []ReferencesSound
  OBVIOUS
<1>1. Init => ReferencesAgree(db)
  <2> SUFFICES ASSUME Init PROVE ReferencesAgree(db)
    OBVIOUS
  <2>1. /\ db.fileRefs = [f \in Files |-> [sm \in Symbols \X Modules |-> {}]]
        /\ db.symRefs = [s \in Symbols |-> [mf \in Modules \X Files |-> {}]]
    BY DEF Init, EmptyDatabase
  <2>2. ASSUME NEW s \in Symbols, NEW m \in Modules, NEW f \in Files
        PROVE  db.fileRefs[f][<<s, m>>] = {} /\ db.symRefs[s][<<m, f>>] = {}
    <3>1. <<s, m>> \in Symbols \X Modules /\ <<m, f>> \in Modules \X Files
      OBVIOUS
    <3>2. /\ db.fileRefs[f] = [sm \in Symbols \X Modules |-> {}]
          /\ db.symRefs[s] = [mf \in Modules \X Files |-> {}]
      BY <2>1
    <3>3. QED
      BY <3>1, <3>2
  <2>3. QED
    BY <2>2 DEF ReferencesAgree
<1>2. TypeOK /\ ReferencesAgree(db) /\ [Next]_vars => ReferencesAgree(db)'
  BY ReferencesStep
<1>3. ReferencesAgree(db) => ReferencesSound
  BY DEF ReferencesAgree, ReferencesSound
<1>4. QED
  BY <1>1, <1>2, <1>3, TypeCorrect, PTL DEF Spec

=============================================================================
