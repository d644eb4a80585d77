------------------------- MODULE SymbolStoreProofs -------------------------
(* What the operators of SymbolStore return, for every database, file and  *)
(* parse result: the facts about single batches from which the properties  *)
(* of SymbolIndex and of ParsePipeline are proved.                         *)
EXTENDS SymbolStore, TLAPS

-----------------------------------------------------------------------------
(* What the updates of a list of locations return.                         *)

(* Replacing or appending a location gives a list of locations.            *)
LEMMA AddType ==
  ASSUME NEW locs \in Seq(Location), NEW loc \in Location, NEW m, NEW mod
  PROVE  AddSymbolLocation(locs, m, loc, mod) \in Seq(Location)
<1> DEFINE hit == Min(SameModule(locs, m, mod))
<1>1. Append(locs, loc) \in Seq(Location)
  OBVIOUS
<1>2. [locs EXCEPT ![hit] = loc] \in Seq(Location)
  <2>1. PICK n \in Nat : locs \in [1 .. n -> Location]
    BY Len(locs) \in Nat, locs \in [1 .. Len(locs) -> Location]
  <2>2. [locs EXCEPT ![hit] = loc] \in [1 .. n -> Location]
    BY <2>1
  <2>3. QED
    BY <2>2
<1>3. QED
  BY <1>1, <1>2 DEF AddSymbolLocation

(* Taking one location out gives a list of locations.                      *)
LEMMA RemoveType ==
  ASSUME NEW locs \in Seq(Location), NEW m, NEW mod
  PROVE  RemoveSymbolLocation(locs, m, mod) \in Seq(Location)
<1>1. CASE SameModule(locs, m, mod) = {}
  BY <1>1 DEF RemoveSymbolLocation
<1>2. CASE SameModule(locs, m, mod) # {}
  <2> DEFINE hit == Min(SameModule(locs, m, mod))
             n   == Len(locs) - 1
             res == [k \in 1 .. n |-> IF k < hit THEN locs[k] ELSE locs[k + 1]]
  <2>1. n \in Nat /\ Len(locs) = n + 1
    BY <1>2 DEF SameModule
  <2>2. \A k \in 1 .. n : locs[k] \in Location /\ locs[k + 1] \in Location
    BY <2>1
  <2>3. res \in [1 .. n -> Location]
    BY <2>2, Zenon
  <2>4. res \in Seq(Location)
    BY <2>1, <2>3
  <2>5. QED
    BY <1>2, <2>4 DEF RemoveSymbolLocation
<1>3. QED
  BY <1>1, <1>2

-----------------------------------------------------------------------------
(* What the batches do to the database.                                    *)

(* A definition that libclang reports is a location.                       *)
LEMMA LocationType ==
  ASSUME NEW f \in Files, NEW tu \in TranslationUnit,
         NEW s \in DefinedSymbols(tu), NEW abs \in BOOLEAN
  PROVE  LocationIn(f, tu, s, abs) \in Location
BY DEF DefinedSymbols, TranslationUnit, LocationIn, Location

(* The list of symbol s with the location that a parse result of f gives.  *)
Put(d, f, tu, mod, s, abs) ==
  AddSymbolLocation(d.symDefs[s], mod[f], LocationIn(f, tu, s, abs), mod)

(* What outcome w of WriteFileDefinitions has done to database d: each     *)
(* symbol keeps its list, loses it, or gets the location of a symbol that  *)
(* the parse defines; when the loops run to their end all the old and the  *)
(* new symbols are treated.                                                *)
DefinitionsWritten(d, w, f, tu, mod) ==
  /\ w.threw \in BOOLEAN
  /\ w.db = [d EXCEPT !.symDefs = w.db.symDefs, !.fileDefs = w.db.fileDefs]
  /\ w.db.symDefs = [s \in Symbols |-> w.db.symDefs[s]]
  /\ \A s \in Symbols :
        \/ w.db.symDefs[s] = d.symDefs[s]
        \/ w.db.symDefs[s] = << >>
        \/ /\ s \in DefinedSymbols(tu)
           /\ \E abs \in BOOLEAN : w.db.symDefs[s] = Put(d, f, tu, mod, s, abs)
  /\ w.db.fileDefs =
       [d.fileDefs EXCEPT ![f] =
          IF ~w.threw /\ GoneSymbols(d, f, tu)
                \cup MovedSymbols(d, f, tu, mod)
                \cup FreshSymbols(d, f, tu) # {}
            THEN DefinedSymbols(tu) ELSE d.fileDefs[f]]
  /\ ~w.threw => \A s \in Symbols :
       w.db.symDefs[s] =
         IF s \in GoneSymbols(d, f, tu) THEN << >>
         ELSE IF s \in MovedSymbols(d, f, tu, mod)
           THEN Put(d, f, tu, mod, s, TRUE)
         ELSE IF s \in FreshSymbols(d, f, tu)
           THEN Put(d, f, tu, mod, s, FALSE)
         ELSE d.symDefs[s]

(* WriteFileDefinitions does that.                                         *)
LEMMA WriteFileDefinitionsShape ==
  ASSUME NEW infos, NEW d \in Database(infos), NEW f \in Files, NEW tu,
         NEW mod, NEW ex
  PROVE  DefinitionsWritten(d, WriteFileDefinitions(d, f, tu, mod, ex),
                            f, tu, mod)
<1> DEFINE gone  == GoneSymbols(d, f, tu)
           moved == MovedSymbols(d, f, tu, mod)
           fresh == FreshSymbols(d, f, tu)
           throws(S) == {s \in S : ScanThrows(d.symDefs[s], mod[f], mod, ex)}
           early == \/ LoadThrows(d, f, mod, ex)
                    \/ absolute_path_throws(f, FALSE, ex)
           doneOld == IF early THEN {} ELSE Before(gone \cup moved, throws(moved))
           doneNew == IF early \/ throws(moved) # {}
                        THEN {} ELSE Before(fresh, throws(fresh))
           threw   == early \/ throws(moved \cup fresh) # {}
           put(s, abs) == Put(d, f, tu, mod, s, abs)
           sym == [s \in Symbols |->
                     IF s \in gone \cap doneOld THEN << >>
                     ELSE IF s \in doneOld THEN put(s, TRUE)
                     ELSE IF s \in doneNew THEN put(s, FALSE)
                     ELSE d.symDefs[s]]
           fil == [d.fileDefs EXCEPT ![f] =
                     IF ~threw /\ gone \cup moved \cup fresh # {}
                       THEN DefinedSymbols(tu) ELSE @]
           w == WriteFileDefinitions(d, f, tu, mod, ex)
<1>1. w.db = [d EXCEPT !.symDefs = sym, !.fileDefs = fil] /\ w.threw = threw
  BY DEF WriteFileDefinitions, Outcome, Database, Put
<1>2. w.db.symDefs = sym /\ w.db.fileDefs = fil
  BY <1>1 DEF Database
<1>3. threw \in BOOLEAN
  BY DEF absolute_path_throws, LoadThrows
<1>4. /\ doneOld \subseteq gone \cup moved
      /\ doneNew \subseteq fresh
      /\ moved \subseteq DefinedSymbols(tu)
      /\ fresh \subseteq DefinedSymbols(tu)
  BY DEF Before, MovedSymbols, FreshSymbols
<1>5. ~threw => doneOld = gone \cup moved /\ doneNew = fresh
  <2> SUFFICES ASSUME ~threw PROVE doneOld = gone \cup moved /\ doneNew = fresh
    OBVIOUS
  <2>1. ~early /\ throws(moved) = {} /\ throws(fresh) = {}
    OBVIOUS
  <2>2. Before(gone \cup moved, {}) = gone \cup moved /\ Before(fresh, {}) = fresh
    BY DEF Before
  <2>3. QED
    BY <2>1, <2>2
<1>6. gone \cap moved = {} /\ gone \cap fresh = {} /\ moved \cap fresh = {}
  BY DEF GoneSymbols, MovedSymbols, FreshSymbols
<1> HIDE DEF gone, moved, fresh, threw, doneOld, doneNew, w
<1>7. \A s \in Symbols :
         \/ sym[s] = d.symDefs[s]
         \/ sym[s] = << >>
         \/ /\ s \in DefinedSymbols(tu)
            /\ \E abs \in BOOLEAN : sym[s] = put(s, abs)
  BY <1>4
<1>8. ~threw => \A s \in Symbols :
         sym[s] = IF s \in gone THEN << >>
                  ELSE IF s \in moved THEN put(s, TRUE)
                  ELSE IF s \in fresh THEN put(s, FALSE)
                  ELSE d.symDefs[s]
  BY <1>5, <1>6
<1>9. w.db = [d EXCEPT !.symDefs = w.db.symDefs, !.fileDefs = w.db.fileDefs]
  BY <1>1, <1>2
<1>10. w.db.symDefs = [s \in Symbols |-> w.db.symDefs[s]]
  BY <1>2
<1>11. QED
  BY <1>1, <1>2, <1>3, <1>7, <1>8, <1>9, <1>10
     DEF gone, moved, fresh, w, DefinitionsWritten

(* A parse result written in full or in part leaves a database.            *)
LEMMA WriteFileDefinitionsType ==
  ASSUME NEW infos, NEW d \in Database(infos), NEW f \in Files,
         NEW tu \in TranslationUnit, NEW mod, NEW w,
         DefinitionsWritten(d, w, f, tu, mod)
  PROVE  w.db \in Database(infos)
<1>1. \A s \in Symbols : d.symDefs[s] \in Seq(Location)
  BY DEF Database
<1>2. \A s \in DefinedSymbols(tu), abs \in BOOLEAN :
         Put(d, f, tu, mod, s, abs) \in Seq(Location)
  BY <1>1, AddType, LocationType DEF DefinedSymbols, Put
<1>e. << >> \in Seq(Location)
  OBVIOUS
<1>3. \A s \in Symbols : w.db.symDefs[s] \in Seq(Location)
  <2> TAKE s \in Symbols
  <2>1. \/ w.db.symDefs[s] = d.symDefs[s]
        \/ w.db.symDefs[s] = << >>
        \/ /\ s \in DefinedSymbols(tu)
           /\ \E abs \in BOOLEAN : w.db.symDefs[s] = Put(d, f, tu, mod, s, abs)
    BY Zenon DEF DefinitionsWritten
  <2>2. QED
    BY <1>1, <1>2, <1>e, <2>1, Zenon
<1>4. w.db.symDefs \in [Symbols -> Seq(Location)]
  BY <1>3 DEF DefinitionsWritten
<1>5. w.db.fileDefs \in [Files -> SUBSET Symbols]
  BY DEF Database, DefinedSymbols, DefinitionsWritten
<1>6. QED
  BY <1>4, <1>5 DEF Database, DefinitionsWritten

(* So does the second half of it, which leaves the definitions alone.      *)
LEMMA WriteFileReferencesType ==
  ASSUME NEW infos, NEW d \in Database(infos), NEW f \in Files,
         NEW tu \in TranslationUnit, NEW mod
  PROVE  LET r == WriteFileReferences(d, f, tu, mod)
         IN  /\ r \in Database(infos)
             /\ r.info = d.info
             /\ r.symDefs = d.symDefs
             /\ r.fileDefs = d.fileDefs
<1> DEFINE new == ReferredSymbols(tu, mod)
           changed(s) == ChangedModules(d, f, new, s)
           dropped(s) == DroppedModules(d, f, new, s)
           sym == [s \in Symbols |->
                     IF changed(s) # {}
                       THEN [d.symRefs[s] EXCEPT ![<<Max(changed(s)), f>>] =
                                                   new[<<s, Max(changed(s))>>]]
                     ELSE IF dropped(s) # {}
                       THEN [d.symRefs[s] EXCEPT ![<<Max(dropped(s)), f>>] = {}]
                     ELSE d.symRefs[s]]
           fil == [d.fileRefs EXCEPT ![f] =
                     IF \E s \in Symbols : changed(s) \cup dropped(s) # {}
                       THEN new ELSE @]
<1>1. new \in [Symbols \X Modules -> SUBSET Lines]
  <2>1. \A s \in Symbols, p \in Paths : tu.refs[<<s, p>>] \subseteq Lines
    BY DEF TranslationUnit
  <2>2. \A s \in Symbols : \A m :
           UNION {tu.refs[<<s, p>>] : p \in {q \in Paths : mod[q] = m}}
             \subseteq Lines
    BY <2>1
  <2>3. \A sm \in Symbols \X Modules :
           UNION {tu.refs[<<sm[1], p>>] : p \in {q \in Paths : mod[q] = sm[2]}}
             \in SUBSET Lines
    BY <2>2
  <2>4. QED
    BY <2>3, Zenon DEF ReferredSymbols
<1>2. WriteFileReferences(d, f, tu, mod) =
        [d EXCEPT !.symRefs = sym, !.fileRefs = fil]
  BY DEF WriteFileReferences, Database
<1> HIDE DEF new
<1>3. \A s \in Symbols : d.symRefs[s] \in [Modules \X Files -> SUBSET Lines]
  BY DEF Database
<1>4. \A s \in Symbols : \A m :
         [d.symRefs[s] EXCEPT ![<<m, f>>] = {}]
            \in [Modules \X Files -> SUBSET Lines]
  BY <1>3
<1>5. \A s \in Symbols : \A m :
         [d.symRefs[s] EXCEPT ![<<m, f>>] = new[<<s, m>>]]
            \in [Modules \X Files -> SUBSET Lines]
  <2> SUFFICES ASSUME NEW s \in Symbols, NEW m
               PROVE  [d.symRefs[s] EXCEPT ![<<m, f>>] = new[<<s, m>>]]
                         \in [Modules \X Files -> SUBSET Lines]
    OBVIOUS
  <2>1. CASE m \in Modules
    BY <1>1, <1>3, <2>1
  <2>2. CASE m \notin Modules
    <3>1. [d.symRefs[s] EXCEPT ![<<m, f>>] = new[<<s, m>>]] = d.symRefs[s]
      BY <1>3, <2>2
    <3>2. QED
      BY <1>3, <3>1
  <2>3. QED
    BY <2>1, <2>2
<1> HIDE DEF changed, dropped
<1>6. sym \in [Symbols -> [Modules \X Files -> SUBSET Lines]]
  BY <1>3, <1>4, <1>5
<1>7. fil \in [Files -> [Symbols \X Modules -> SUBSET Lines]]
  BY <1>1 DEF Database
<1> HIDE DEF sym, fil
<1>8. QED
  BY <1>2, <1>6, <1>7 DEF Database

(* What outcome w of DeleteFileDefinedSymbolInfo has done to database d.   *)
DefinitionsDeleted(d, w, f, mod) ==
  /\ w.threw \in BOOLEAN
  /\ w.db = [d EXCEPT !.symDefs = w.db.symDefs]
  /\ w.db.symDefs = [s \in Symbols |-> w.db.symDefs[s]]
  /\ \A s \in Symbols :
        \/ w.db.symDefs[s] = d.symDefs[s]
        \/ w.db.symDefs[s] = RemoveSymbolLocation(d.symDefs[s], mod[f], mod)
  /\ ~w.threw => \A s \in d.fileDefs[f] :
       w.db.symDefs[s] = RemoveSymbolLocation(d.symDefs[s], mod[f], mod)

(* DeleteFileDefinedSymbolInfo does that.                                  *)
LEMMA DeleteFileDefinedSymbolInfoShape ==
  ASSUME NEW infos, NEW d \in Database(infos), NEW f \in Files, NEW mod, NEW ex
  PROVE  DefinitionsDeleted(d, DeleteFileDefinedSymbolInfo(d, f, mod, ex),
                            f, mod)
<1> DEFINE old      == d.fileDefs[f]
           own      == old # {} /\ absolute_path_throws(f, FALSE, ex)
           throwing == {s \in old : ScanThrows(d.symDefs[s], mod[f], mod, ex)}
           done     == IF own THEN {} ELSE Before(old, throwing)
           sym == [s \in Symbols |->
                     IF s \in done
                       THEN RemoveSymbolLocation(d.symDefs[s], mod[f], mod)
                       ELSE d.symDefs[s]]
           w == DeleteFileDefinedSymbolInfo(d, f, mod, ex)
<1>1. /\ w.db = [d EXCEPT !.symDefs = sym]
      /\ w.threw = (own \/ throwing # {})
  BY DEF DeleteFileDefinedSymbolInfo, Outcome, Database
<1>2. w.db.symDefs = sym
  BY <1>1 DEF Database
<1>3. w.threw \in BOOLEAN
  BY <1>1
<1>4. ~w.threw => done = old
  BY <1>1 DEF Before
<1>5. old \subseteq Symbols
  BY DEF Database
<1> HIDE DEF w, done, old
<1>6. ~w.threw => \A s \in old :
         sym[s] = RemoveSymbolLocation(d.symDefs[s], mod[f], mod)
  BY <1>4, <1>5
<1>7. QED
  BY <1>1, <1>2, <1>3, <1>6 DEF DefinitionsDeleted, w, old

(* Taking out the definitions of a file leaves a database.                 *)
LEMMA DeleteFileDefinedSymbolInfoType ==
  ASSUME NEW infos, NEW d \in Database(infos), NEW f, NEW mod, NEW w,
         DefinitionsDeleted(d, w, f, mod)
  PROVE  w.db \in Database(infos)
<1>1. \A s \in Symbols : d.symDefs[s] \in Seq(Location)
  BY DEF Database
<1>2. \A s \in Symbols :
         RemoveSymbolLocation(d.symDefs[s], mod[f], mod) \in Seq(Location)
  BY <1>1, RemoveType
<1>3. \A s \in Symbols : w.db.symDefs[s] \in Seq(Location)
  BY <1>1, <1>2, Zenon DEF DefinitionsDeleted
<1>4. w.db.symDefs \in [Symbols -> Seq(Location)]
  BY <1>3 DEF DefinitionsDeleted
<1>5. QED
  BY <1>4 DEF Database, DefinitionsDeleted

(* So does taking out its references.                                      *)
LEMMA DeleteFileReferredSymbolInfoType ==
  ASSUME NEW infos, NEW d \in Database(infos), NEW f \in Files
  PROVE  LET r == DeleteFileReferredSymbolInfo(d, f)
         IN  /\ r \in Database(infos)
             /\ r.info = d.info
             /\ r.symDefs = d.symDefs
             /\ r.fileDefs = d.fileDefs
<1> DEFINE listed(s) == {m \in Modules : /\ d.fileRefs[f][<<s, m>>] # {}
                                         /\ d.symRefs[s][<<m, f>>] # {}}
           sym == [s \in Symbols |->
                     IF listed(s) # {}
                       THEN [d.symRefs[s] EXCEPT ![<<Max(listed(s)), f>>] = {}]
                       ELSE d.symRefs[s]]
<1>1. DeleteFileReferredSymbolInfo(d, f) = [d EXCEPT !.symRefs = sym]
  BY DEF DeleteFileReferredSymbolInfo
<1>2. \A s \in Symbols : \A m :
         /\ d.symRefs[s] \in [Modules \X Files -> SUBSET Lines]
         /\ [d.symRefs[s] EXCEPT ![<<m, f>>] = {}]
               \in [Modules \X Files -> SUBSET Lines]
  BY DEF Database
<1> HIDE DEF listed
<1>3. sym \in [Symbols -> [Modules \X Files -> SUBSET Lines]]
  BY <1>2
<1> HIDE DEF sym
<1>4. QED
  BY <1>1, <1>3 DEF Database

(* The definitions after a whole WriteCompiledFile are those after its     *)
(* first half, which starts from the database with the new "file:info".    *)
CompiledWritten(infos, d, w, f, tu, fi, mod) ==
  /\ w.db \in Database(infos)
  /\ w.threw \in BOOLEAN
  /\ w.db.info = [d.info EXCEPT ![f] = fi]
  /\ \E e, v : /\ e \in Database(infos)
               /\ e.symDefs = d.symDefs
               /\ e.fileDefs = d.fileDefs
               /\ DefinitionsWritten(e, v, f, tu, mod)
               /\ v.threw = w.threw
               /\ v.db.symDefs = w.db.symDefs
               /\ v.db.fileDefs = w.db.fileDefs

(* WriteCompiledFile does that, with or without an exception.              *)
LEMMA WriteCompiledFileShape ==
  ASSUME NEW infos, NEW d \in Database(infos), NEW f \in Files,
         NEW tu \in TranslationUnit, NEW fi \in infos, NEW mod, NEW ex
  PROVE  CompiledWritten(infos, d, WriteCompiledFile(d, f, tu, fi, mod, ex),
                         f, tu, fi, mod)
<1> DEFINE e == [d EXCEPT !.info[f] = fi]
           v == WriteFileDefinitions(e, f, tu, mod, ex)
           r == WriteFileReferences(v.db, f, tu, mod)
           w == WriteCompiledFile(d, f, tu, fi, mod, ex)
<1>1. /\ e \in Database(infos)
      /\ e.symDefs = d.symDefs
      /\ e.fileDefs = d.fileDefs
      /\ e.info = [d.info EXCEPT ![f] = fi]
  BY DEF Database
<1> HIDE DEF e
<1>2. DefinitionsWritten(e, v, f, tu, mod)
  BY <1>1, WriteFileDefinitionsShape
<1>3. v.db \in Database(infos)
  BY <1>1, <1>2, WriteFileDefinitionsType
<1>4. v.threw \in BOOLEAN /\ v.db.info = e.info
  BY <1>1, <1>2 DEF DefinitionsWritten, Database
<1>5. w = IF v.threw THEN v ELSE [db |-> r, threw |-> FALSE]
  BY DEF WriteCompiledFile, Outcome, e
<1> HIDE DEF v, w
<1>6. /\ r \in Database(infos)
      /\ r.info = v.db.info
      /\ r.symDefs = v.db.symDefs
      /\ r.fileDefs = v.db.fileDefs
  BY <1>3, WriteFileReferencesType
<1> HIDE DEF r
<1>7. CASE v.threw
  BY <1>1, <1>2, <1>3, <1>4, <1>5, <1>7 DEF CompiledWritten, w
<1>8. CASE ~v.threw
  <2>1. w.db = r /\ w.threw = FALSE
    BY <1>5, <1>8
  <2>2. QED
    BY <1>1, <1>2, <1>4, <1>6, <1>8, <2>1 DEF CompiledWritten, w
<1>9. QED
  BY <1>7, <1>8

(* The definitions after a whole DeleteFileRecords, likewise.              *)
RecordsDeleted(infos, d, w, f, mod) ==
  /\ w.db \in Database(infos)
  /\ w.threw \in BOOLEAN
  /\ w.db.info = [d.info EXCEPT ![f] = NoInfo]
  /\ w.db.fileDefs = d.fileDefs
  /\ w.db.symDefs = [s \in Symbols |-> w.db.symDefs[s]]
  /\ \A s \in Symbols :
        \/ w.db.symDefs[s] = d.symDefs[s]
        \/ w.db.symDefs[s] = RemoveSymbolLocation(d.symDefs[s], mod[f], mod)
  /\ ~w.threw => \A s \in d.fileDefs[f] :
       w.db.symDefs[s] = RemoveSymbolLocation(d.symDefs[s], mod[f], mod)

(* The batch of DeleteUnexistFile and RebuildFile does that.               *)
LEMMA DeleteFileRecordsShape ==
  ASSUME NEW infos, NEW d \in Database(infos), NEW f \in Files, NEW mod, NEW ex
  PROVE  RecordsDeleted(infos, d, DeleteFileRecords(d, f, mod, ex), f, mod)
<1> DEFINE e == [d EXCEPT !.info[f] = NoInfo]
           v == DeleteFileDefinedSymbolInfo(e, f, mod, ex)
           r == DeleteFileReferredSymbolInfo(v.db, f)
           w == DeleteFileRecords(d, f, mod, ex)
<1>1. /\ e \in Database(infos)
      /\ e.symDefs = d.symDefs
      /\ e.fileDefs = d.fileDefs
      /\ e.info = [d.info EXCEPT ![f] = NoInfo]
  BY DEF Database
<1> HIDE DEF e
<1>2. DefinitionsDeleted(e, v, f, mod)
  BY <1>1, DeleteFileDefinedSymbolInfoShape
<1>3. v.db \in Database(infos)
  BY <1>1, <1>2, DeleteFileDefinedSymbolInfoType
<1>4. v.threw \in BOOLEAN
  BY <1>2 DEF DefinitionsDeleted
<1>5. w = IF v.threw THEN v ELSE [db |-> r, threw |-> FALSE]
  BY DEF DeleteFileRecords, Outcome, e
<1> HIDE DEF v, w
<1>6. v.db.fileDefs = d.fileDefs /\ v.db.info = e.info
  BY <1>1, <1>2 DEF DefinitionsDeleted, Database
<1>7. /\ r \in Database(infos)
      /\ r.info = v.db.info
      /\ r.symDefs = v.db.symDefs
      /\ r.fileDefs = v.db.fileDefs
  BY <1>3, DeleteFileReferredSymbolInfoType, Zenon
<1> HIDE DEF r
<1>8. /\ w.threw = v.threw
      /\ w.db \in Database(infos)
      /\ w.db.info = e.info
      /\ w.db.symDefs = v.db.symDefs
      /\ w.db.fileDefs = d.fileDefs
  BY <1>3, <1>4, <1>5, <1>6, <1>7
<1>9. QED
  BY <1>1, <1>2, <1>8 DEF DefinitionsDeleted, RecordsDeleted, w
=============================================================================
