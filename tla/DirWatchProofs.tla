--------------------------- MODULE DirWatchProofs ---------------------------
(***************************************************************************)
(* For every tree of directories, every set of projects and every fault:   *)
(* the state is well formed, a directory with a module has flags, no watch *)
(* is left behind, no path is watched twice, and a reload leaves exactly   *)
(* the directories with a module watched, but for what was stale.          *)
(***************************************************************************)
EXTENDS DirWatch, FiniteSetTheorems, WellFoundedInduction, TLAPS

-----------------------------------------------------------------------------
(* Types of the parts.                                                     *)

CacheType == cache \in [Projects -> [Paths -> Paths \cup {NoPath}]]

WatcherType ==
  /\ watchers \in [Projects -> [Watches -> Dirs \cup {NoPath}]]
  /\ \A p \in Projects, w \in Watches :
       watchers[p][w] # NoPath => watchers[p][w] \in BelowHome(p)

DiskType ==
  /\ node \in [Dirs -> Nodes \cup {Missing}]
  /\ lastNode \in 0 .. MaxNode
  /\ events \in Seq(Event)

KernelType ==
  /\ kernel \in [Watches -> Nodes \cup {Missing}]
  /\ lastWd \in 0 .. MaxWatch
  /\ closed \subseteq Watches

OtherType ==
  /\ flagged \in [Projects -> SUBSET Paths]
  /\ failed \in {"none", "module", "directory"}

LEMMA TypeParts ==
  TypeOK <=> CacheType /\ WatcherType /\ DiskType /\ KernelType /\ OtherType
  BY DEF TypeOK, CacheType, WatcherType, DiskType, KernelType, OtherType

LEMMA Constants ==
  /\ NoPath \notin Paths /\ Dirs \subseteq Paths
  /\ MaxNode \in Nat /\ MaxWatch \in Nat
  /\ ModuleHome \in [Sources -> Paths] /\ Sources \subseteq Paths
  /\ Missing \notin Nodes
  BY DirWatchAssumption DEF Paths, Missing, Nodes

-----------------------------------------------------------------------------
(* The flag cache.                                                         *)

\* What ParseFileCommand enters is a module whose flags it enters too.
LEMMA LoadedModules ==
  ASSUME NEW S \in SUBSET Sources
  PROVE  /\ LoadCommands(S) \in [Paths -> Paths \cup {NoPath}]
         /\ \A d \in Paths : LoadCommands(S)[d] # NoPath =>
              LoadCommands(S)[d] \in {ModuleHome[e] : e \in S}
         /\ {ModuleHome[e] : e \in S} \in SUBSET Paths
  BY Constants DEF LoadCommands

FlagsFor(c, F) == \A d \in Paths : c[d] # NoPath => c[d] \in F

LEMMA FlagsPerProject ==
  FlagsForModules <=> \A p \in Projects : FlagsFor(cache[p], flagged[p])
  BY DEF FlagsForModules, FlagsFor

\* A rebuild, whole or cut short.
LEMMA RebuildFlags ==
  ASSUME CacheType, OtherType, FlagsForModules, NEW p \in Projects, NEW S \in SUBSET Sources,
         cache' = [cache EXCEPT ![p] = LoadCommands(S)],
         flagged' = [flagged EXCEPT ![p] = {ModuleHome[d] : d \in S}]
  PROVE  CacheType' /\ flagged' \in [Projects -> SUBSET Paths] /\ FlagsForModules'
  <1>1. CacheType' /\ flagged' \in [Projects -> SUBSET Paths]
    BY LoadedModules DEF CacheType, OtherType
  <1>2. /\ cache'[p] = LoadCommands(S) /\ flagged'[p] = {ModuleHome[d] : d \in S}
        /\ \A q \in Projects \ {p} : cache'[q] = cache[q] /\ flagged'[q] = flagged[q]
    BY DEF CacheType, OtherType
  <1>3. FlagsFor(cache'[p], flagged'[p])
    BY <1>2, LoadedModules DEF FlagsFor
  <1>4. \A q \in Projects : FlagsFor(cache'[q], flagged'[q])
    BY <1>2, <1>3, FlagsPerProject
  <1> QED
    BY <1>1, <1>4 DEF FlagsForModules, FlagsFor

\* A directory that inherits its module.
LEMMA CreateFlags ==
  ASSUME CacheType, OtherType, FlagsForModules, NEW p \in Projects, NEW d,
         HandleEntryCreate(p, d)
  PROVE  CacheType' /\ OtherType' /\ FlagsForModules'
  <1> DEFINE module == GetModuleName(p, Parent(d))
  <1>1. flagged' = flagged /\ failed' \in {"none", "module", "directory"}
    BY DEF HandleEntryCreate
  <1>2. module \in Paths \cup {NoPath} /\ (module # NoPath => module \in flagged[p])
    BY DEF GetModuleName, Entry, CacheType, FlagsForModules
  <1>3. cache' = cache \/ (module # NoPath /\ cache' = [cache EXCEPT ![p][d] = module])
    BY DEF HandleEntryCreate
  <1>4. CASE cache' = cache
    BY <1>1, <1>4 DEF CacheType, OtherType, FlagsForModules
  <1>5. CASE module # NoPath /\ cache' = [cache EXCEPT ![p][d] = module]
    <2>1. /\ \A q \in Projects \ {p} : cache'[q] = cache[q]
          /\ cache'[p] = [cache[p] EXCEPT ![d] = module]
      BY <1>5 DEF CacheType
    <2>2. /\ cache'[p] \in [Paths -> Paths \cup {NoPath}]
          /\ FlagsFor(cache'[p], flagged[p])
      BY <1>2, <2>1, FlagsPerProject DEF CacheType, FlagsFor
    <2>3. CacheType'
      BY <1>5, <2>1, <2>2 DEF CacheType
    <2>4. FlagsForModules'
      BY <1>1, <2>1, <2>2 DEF FlagsFor, FlagsForModules
    <2> QED
      BY <1>1, <2>3, <2>4 DEF OtherType
  <1> QED
    BY <1>3, <1>4, <1>5

\* TryRemoveDir takes the flags of a module only together with its directories.
LEMMA DeleteFlags ==
  ASSUME CacheType, OtherType, FlagsForModules, NEW p \in Projects, NEW d,
         HandleEntryDeleted(p, d)
  PROVE  CacheType' /\ OtherType' /\ FlagsForModules'
  <1>1. CASE UNCHANGED <<cache, flagged, failed>>
    BY <1>1 DEF CacheType, OtherType, FlagsForModules
  <1>2. CASE /\ Entry(p, d) # NoPath
             /\ cache' = [cache EXCEPT ![p] = WithoutDir(@, d)]
             /\ flagged' = IF cache[p][d] = d THEN [flagged EXCEPT ![p] = @ \ {d}]
                                              ELSE flagged
             /\ failed' = failed
    <2>1. d \in Paths
      BY <1>2 DEF Entry
    <2>2. /\ \A q \in Projects \ {p} : cache'[q] = cache[q] /\ flagged'[q] = flagged[q]
          /\ cache'[p] = WithoutDir(cache[p], d)
          /\ flagged'[p] = IF cache[p][d] = d THEN flagged[p] \ {d} ELSE flagged[p]
      BY <1>2 DEF CacheType, OtherType
    <2>3. /\ cache'[p] \in [Paths -> Paths \cup {NoPath}]
          /\ flagged'[p] \in SUBSET Paths
      BY <2>1, <2>2 DEF WithoutDir, CacheType, OtherType
    <2>4. FlagsFor(cache'[p], flagged'[p])
      BY <2>1, <2>2, FlagsPerProject DEF WithoutDir, FlagsFor
    <2>5. CacheType' /\ OtherType'
      BY <1>2, <2>2, <2>3 DEF CacheType, OtherType
    <2>6. FlagsForModules'
      BY <2>2, <2>4 DEF FlagsFor, FlagsForModules
    <2> QED
      BY <2>5, <2>6
  <1> QED
    BY <1>1, <1>2 DEF HandleEntryDeleted

-----------------------------------------------------------------------------
(* The watches.                                                            *)

\* A nonempty set of numbers has a least element.
LEMMA Least ==
  ASSUME NEW T \in SUBSET Nat, T # {}
  PROVE  \E x \in T : \A y \in T : x <= y
  <1> DEFINE below(x) == 0 .. x
             family   == {below(x) : x \in T}
  <1>1. family \subseteq FiniteSubsetsOf(Nat) /\ family # {}
    <2>1. \A x \in T : below(x) \in SUBSET Nat /\ IsFiniteSet(below(x))
      BY FS_Interval
    <2> QED
      BY <2>1 DEF FiniteSubsetsOf
  <1>2. PICK m \in family : \A l \in family : <<l, m>> \notin StrictSubsetOrdering(Nat)
    <2> HIDE DEF family
    <2> QED
      BY <1>1, FS_StrictSubsetOrderingWellFounded, WFMin
  <1>3. PICK x \in T : m = below(x)
    BY <1>2
  <1>4. ASSUME NEW y \in T, ~(x <= y)
        PROVE  FALSE
    <2>1. below(y) \subseteq below(x) /\ below(y) # below(x)
      <3>1. x \in below(x) /\ x \notin below(y)
        BY <1>4
      <3>2. below(y) \subseteq below(x)
        BY <1>4
      <3> QED
        BY <3>1, <3>2
    <2>2. below(y) \in SUBSET Nat /\ below(x) \in SUBSET Nat
      OBVIOUS
    <2>3. <<below(y), below(x)>> \notin StrictSubsetOrdering(Nat)
      BY <1>2, <1>3
    <2> HIDE DEF below
    <2> QED
      BY <2>1, <2>2, <2>3 DEF StrictSubsetOrdering
  <1> QED
    BY <1>4

LEMMA OwnerIsProject ==
  ASSUME NEW w, Owners(w) # {}
  PROVE  GetProjectByWatcher(w) \in Projects
  <1>1. Owners(w) \in SUBSET Nat /\ Owners(w) \subseteq Projects
    BY DirWatchAssumption DEF Owners
  <1>2. \E p \in Owners(w) : \A q \in Owners(w) : p <= q
    BY <1>1, Least
  <1> QED
    BY <1>1, <1>2 DEF GetProjectByWatcher

\* Numbers for the watches of a set of directories: each directory gets a number of
\* its own, and the numbers that are given out are all in use.
LEMMA Numbered ==
  ASSUME KernelType, NoOrphanWatches, NEW S, NEW wd \in Numberings(S)
  PROVE  LET given == Cardinality({d \in S : wd[d] > lastWd})
         IN  /\ wd \in [S -> Watches]
             /\ \A d, e \in S : wd[d] = wd[e] => d = e
             /\ lastWd + given \in lastWd .. MaxWatch
             /\ \A d \in S : wd[d] <= lastWd + given
  <1> DEFINE fresh == {d \in S : WatchesOf(node[d]) = {}}
             given == Cardinality({d \in S : wd[d] > lastWd})
  <1>1. /\ wd \in [S -> Watches]
        /\ \A d, e \in S : wd[d] = wd[e] => d = e
        /\ \A d \in S : IF d \in fresh
                         THEN wd[d] \in lastWd + 1 .. lastWd + Cardinality(fresh)
                         ELSE wd[d] \in WatchesOf(node[d])
    BY DEF Numberings
  <1>2. lastWd \in Nat /\ MaxWatch \in Nat /\ lastWd <= MaxWatch
        /\ \A w \in Watches : w \in Nat /\ 1 <= w /\ w <= MaxWatch
    BY Constants DEF KernelType, Watches
  <1>3. \A d \in S \ fresh : wd[d] <= lastWd
    BY <1>1 DEF WatchesOf, NoOrphanWatches, KernelType, Nodes, Missing
  <1>4. \A d \in fresh : wd[d] \in lastWd + 1 .. MaxWatch
    <2>1. ASSUME NEW d \in fresh
          PROVE  wd[d] \in lastWd + 1 .. MaxWatch
      <3> DEFINE n == wd[d]
                 k == Cardinality(fresh)
      <3>1. n \in lastWd + 1 .. lastWd + k
        BY <1>1
      <3>2. n \in Nat /\ n <= MaxWatch
        BY <1>1, <1>2
      <3> HIDE DEF n, k
      <3>3. lastWd + 1 <= n
        BY <3>1, SMT
      <3> QED
        BY <1>2, <3>2, <3>3 DEF n
    <2> QED
      BY <2>1
  <1>5. {d \in S : wd[d] > lastWd} = fresh
    BY <1>1, <1>2, <1>3, <1>4
  <1> DEFINE f == [d \in fresh |-> wd[d]]
  <1>6. f \in Injection(fresh, lastWd + 1 .. MaxWatch)
    BY <1>1, <1>4 DEF Injection, IsInjective
  <1>7. /\ IsFiniteSet(lastWd + 1 .. MaxWatch)
        /\ Cardinality(lastWd + 1 .. MaxWatch) <= MaxWatch - lastWd
        /\ Cardinality(lastWd + 1 .. MaxWatch) \in Nat
    <2>1. lastWd + 1 \in Int /\ MaxWatch \in Int
      BY <1>2
    <2>2. /\ IsFiniteSet(lastWd + 1 .. MaxWatch)
          /\ Cardinality(lastWd + 1 .. MaxWatch) =
               IF lastWd + 1 > MaxWatch THEN 0 ELSE MaxWatch - (lastWd + 1) + 1
      BY <2>1, FS_Interval, Zenon
    <2> DEFINE k == Cardinality(lastWd + 1 .. MaxWatch)
    <2>3. k \in Nat /\ k <= MaxWatch - lastWd
      <3>1. k = IF lastWd + 1 > MaxWatch THEN 0 ELSE MaxWatch - (lastWd + 1) + 1
        BY <2>2
      <3> HIDE DEF k
      <3> QED
        BY <1>2, <3>1
    <2> QED
      BY <2>2, <2>3
  <1>8. /\ Cardinality(fresh) \in Nat
        /\ Cardinality(fresh) <= MaxWatch - lastWd
    BY <1>2, <1>6, <1>7, FS_Injection, FS_CardinalityType
  <1>9. given = Cardinality(fresh)
    BY <1>5
  <1> HIDE DEF fresh, given
  <1>10. lastWd + given \in lastWd .. MaxWatch
    BY <1>2, <1>8, <1>9
  <1>11. \A d \in S : wd[d] <= lastWd + given
    BY <1>1, <1>2, <1>3, <1>8, <1>9
  <1> QED
    BY <1>1, <1>10, <1>11 DEF given

WatchInv == WatcherType /\ KernelType /\ NoOrphanWatches /\ OneWatcherPerPath

LEMMA UpdateWatches ==
  ASSUME WatchInv, node \in [Dirs -> Nodes \cup {Missing}],
         NEW p \in Projects, NEW c, UpdateWatchDirs(p, c)
  PROVE  WatchInv'
  <1> DEFINE add == DirsToAdd(p, c)
  <1>1. PICK wd \in Numberings(add) :
          LET added    == {wd[d] : d \in DOMAIN wd}
              replaced == {w \in added : watchers[p][w] # NoPath}
              removed  == {w \in Watches \ added :
                             /\ watchers[p][w] # NoPath
                             /\ watchers[p][w] \notin GetWatchDirs(p, c)}
          IN  /\ lastWd' = lastWd + Cardinality({d \in DOMAIN wd : wd[d] > lastWd})
              /\ watchers' = [watchers EXCEPT ![p] =
                                [w \in Watches |->
                                   IF w \in added THEN CHOOSE d \in DOMAIN wd : wd[d] = w
                                   ELSE IF w \in removed THEN NoPath
                                   ELSE watchers[p][w]]]
              /\ kernel' = [w \in Watches |->
                              IF w \in replaced \cup removed THEN Missing
                              ELSE IF w \in added
                                THEN node[CHOOSE d \in DOMAIN wd : wd[d] = w]
                              ELSE kernel[w]]
              /\ closed' = closed \cup replaced \cup removed
    BY DEF UpdateWatchDirs
  <1> DEFINE added == {wd[d] : d \in add}
             replaced == {w \in added : watchers[p][w] # NoPath}
             removed == {w \in Watches \ added :
                           /\ watchers[p][w] # NoPath
                           /\ watchers[p][w] \notin GetWatchDirs(p, c)}
             PathOf(w) == CHOOSE d \in add : wd[d] = w
  <1>2. /\ wd \in [add -> Watches]
        /\ \A d, e \in add : wd[d] = wd[e] => d = e
        /\ lastWd' \in lastWd .. MaxWatch
        /\ \A d \in add : wd[d] <= lastWd'
    <2>1. wd \in [add -> Watches]
      BY Numbered DEF WatchInv
    <2> QED
      BY <1>1, <2>1, Numbered DEF WatchInv
  <1>3. DOMAIN wd = add
    BY <1>2
  <1>4. /\ add \subseteq BelowHome(p) /\ add \subseteq Dirs
        /\ \A d \in add, w \in Watches : watchers[p][w] # d
        /\ \A d \in add : d # NoPath
    BY Constants DEF DirsToAdd, GetWatchDirs, BelowHome, WatchedPaths
  <1>5. \A w \in added : w \in Watches /\ PathOf(w) \in add /\ wd[PathOf(w)] = w
    BY <1>2
  <1> HIDE DEF add, PathOf
  <1>6. \A q \in Projects, w \in Watches :
          watchers'[q][w] = IF q # p THEN watchers[q][w]
                            ELSE IF w \in added THEN PathOf(w)
                            ELSE IF w \in removed THEN NoPath
                            ELSE watchers[p][w]
    BY <1>1, <1>3 DEF WatchInv, WatcherType, PathOf
  <1>7. \A w \in Watches :
          kernel'[w] = IF w \in replaced \cup removed THEN Missing
                       ELSE IF w \in added THEN node[PathOf(w)]
                       ELSE kernel[w]
    BY <1>1, <1>3 DEF PathOf
  <1>8. closed' \subseteq Watches
    BY <1>1, <1>3, <1>5 DEF WatchInv, KernelType
  <1>9. WatcherType'
    <2>1. watchers' \in [Projects -> [Watches -> Dirs \cup {NoPath}]]
      <3>1. [w \in Watches |-> IF w \in added THEN PathOf(w)
                               ELSE IF w \in removed THEN NoPath
                               ELSE watchers[p][w]] \in [Watches -> Dirs \cup {NoPath}]
        BY <1>4, <1>5 DEF WatchInv, WatcherType
      <3> QED
        BY <1>1, <1>3, <3>1 DEF WatchInv, WatcherType, PathOf
    <2>2. \A q \in Projects, w \in Watches :
            watchers'[q][w] # NoPath => watchers'[q][w] \in BelowHome(q)
      BY <1>4, <1>5, <1>6 DEF WatchInv, WatcherType
    <2> QED
      BY <2>1, <2>2 DEF WatcherType, BelowHome
  <1>10. KernelType'
    <2>1. kernel' \in [Watches -> Nodes \cup {Missing}]
      BY <1>1, <1>3, <1>4, <1>5 DEF WatchInv, KernelType, PathOf
    <2>2. lastWd' \in 0 .. MaxWatch
      BY <1>2 DEF WatchInv, KernelType
    <2> QED
      BY <1>8, <2>1, <2>2 DEF KernelType
  <1>11. NoOrphanWatches'
    <2>1. ASSUME NEW w \in Watches, kernel'[w] # Missing
          PROVE  \E q \in Projects : watchers'[q][w] # NoPath
      <3>1. w \notin replaced /\ w \notin removed
        BY <1>7, <2>1
      <3>2. CASE w \in added
        BY <1>4, <1>5, <1>6, <3>2
      <3>3. CASE w \notin added
        <4>1. PICK q \in Projects : watchers[q][w] # NoPath
          BY <1>7, <2>1, <3>1, <3>3 DEF WatchInv, NoOrphanWatches, Owners
        <4> QED
          BY <1>6, <3>1, <3>3, <4>1
      <3> QED
        BY <3>2, <3>3
    <2>2. ASSUME NEW w \in Watches, NEW q \in Projects, watchers'[q][w] # NoPath
          PROVE  w <= lastWd'
      <3>1. CASE w \in added
        BY <1>2, <1>5, <3>1
      <3>2. CASE w \notin added
        <4>1. watchers[q][w] # NoPath
          BY <1>6, <2>2, <3>2
        <4>2. w <= lastWd
          BY <4>1 DEF WatchInv, NoOrphanWatches, Owners
        <4> QED
          BY <1>2, <4>2 DEF WatchInv, KernelType, Watches
      <3> QED
        BY <3>1, <3>2
    <2> QED
      BY <2>1, <2>2 DEF NoOrphanWatches, Owners
  <1>12. OneWatcherPerPath'
    <2>1. ASSUME NEW q \in Projects, NEW v \in Watches, NEW w \in Watches,
                 watchers'[q][v] = watchers'[q][w], watchers'[q][v] # NoPath
          PROVE  v = w
      <3>1. CASE q # p
        BY <1>6, <2>1, <3>1 DEF WatchInv, OneWatcherPerPath
      <3>2. CASE q = p /\ v \in added /\ w \in added
        BY <1>5, <1>6, <2>1, <3>2
      <3>3. CASE q = p /\ v \notin added /\ w \notin added
        BY <1>6, <2>1, <3>3 DEF WatchInv, OneWatcherPerPath
      <3>4. CASE q = p /\ (v \in added <=> w \notin added)
        BY <1>4, <1>5, <1>6, <2>1, <3>4
      <3> QED
        BY <3>1, <3>2, <3>3, <3>4
    <2> QED
      BY <2>1 DEF OneWatcherPerPath
  <1> QED
    BY <1>9, <1>10, <1>11, <1>12 DEF WatchInv

\* The watches of a deleted directory go with their watchers.
LEMMA DeleteWatches ==
  ASSUME WatchInv, NEW p \in Projects, NEW d, HandleEntryDeleted(p, d)
  PROVE  WatchInv'
  <1> DEFINE gone == {w \in Watches : watchers[p][w] # NoPath
                                        /\ path_has_prefix(watchers[p][w], d)}
  <1>1. CASE UNCHANGED << watchers, kernel, closed >> /\ lastWd' = lastWd
    BY <1>1 DEF WatchInv, WatcherType, KernelType, NoOrphanWatches, OneWatcherPerPath,
                Owners, BelowHome
  <1>2. CASE /\ watchers' = [watchers EXCEPT ![p] =
                               [w \in Watches |-> IF w \in gone THEN NoPath ELSE @[w]]]
             /\ RemoveWatches(gone) /\ lastWd' = lastWd
    <2>1. gone \subseteq Watches
      OBVIOUS
    <2> HIDE DEF gone
    <2>2. \A q \in Projects, w \in Watches :
            watchers'[q][w] = IF q = p /\ w \in gone THEN NoPath ELSE watchers[q][w]
      BY <1>2 DEF WatchInv, WatcherType
    <2>3. WatcherType'
      <3>1. watchers' \in [Projects -> [Watches -> Dirs \cup {NoPath}]]
        BY <1>2 DEF WatchInv, WatcherType
      <3> QED
        BY <2>2, <3>1 DEF WatchInv, WatcherType, BelowHome
    <2>4. KernelType'
      BY <1>2, <2>1 DEF WatchInv, KernelType, RemoveWatches
    <2>5. NoOrphanWatches'
      <3>1. \A w \in Watches : kernel'[w] # Missing => w \notin gone /\ kernel[w] # Missing
        BY <1>2 DEF RemoveWatches
      <3>2. \A w \in Watches : kernel'[w] # Missing => \E q \in Projects : watchers'[q][w] # NoPath
        BY <2>2, <3>1 DEF WatchInv, NoOrphanWatches, Owners
      <3>3. \A w \in Watches, q \in Projects : watchers'[q][w] # NoPath => w <= lastWd'
        BY <1>2, <2>2 DEF WatchInv, NoOrphanWatches, Owners
      <3> QED
        BY <3>2, <3>3 DEF NoOrphanWatches, Owners
    <2>6. OneWatcherPerPath'
      BY <2>2 DEF WatchInv, OneWatcherPerPath
    <2> QED
      BY <2>3, <2>4, <2>5, <2>6 DEF WatchInv
  <1> QED
    BY <1>1, <1>2 DEF HandleEntryDeleted

-----------------------------------------------------------------------------
(* The disk.                                                               *)

LEMMA EventTypes ==
  ASSUME KernelType, NEW n
  PROVE  /\ \A name \in Names, kind \in {"create", "delete"} :
              EventFor(n, kind, name) \in Seq(Event)
         /\ EventFor(n, "delete_self", NoName) \in Seq(Event)
  <1>1. WatchesOf(n) # {} => (CHOOSE w \in WatchesOf(n) : TRUE) \in Watches
    BY DEF WatchesOf
  <1>2. ASSUME NEW kind, NEW name,
               \A w \in Watches : [wd |-> w, kind |-> kind, name |-> name] \in Event
        PROVE  EventFor(n, kind, name) \in Seq(Event)
    <2> DEFINE w  == CHOOSE w \in WatchesOf(n) : TRUE
               ev == [wd |-> w, kind |-> kind, name |-> name]
    <2>1. CASE WatchesOf(n) = {}
      <3>1. EventFor(n, kind, name) = << >>
        BY <2>1 DEF EventFor
      <3> QED
        BY <3>1
    <2>2. CASE WatchesOf(n) # {}
      <3>1. EventFor(n, kind, name) = << ev >> /\ ev \in Event
        BY <1>1, <1>2, <2>2 DEF EventFor
      <3> HIDE DEF ev
      <3> QED
        BY <3>1
    <2> QED
      BY <2>1, <2>2
  <1>3. \A w \in Watches, name \in Names, kind \in {"create", "delete"} :
          [wd |-> w, kind |-> kind, name |-> name] \in Event
    BY DEF Event
  <1>4. \A w \in Watches : [wd |-> w, kind |-> "delete_self", name |-> NoName] \in Event
    BY DEF Event
  <1> QED
    BY <1>2, <1>3, <1>4

LEMMA NotifyTypes ==
  ASSUME KernelType, NEW d \in Dirs, NEW kind \in {"create", "delete"}
  PROVE  Notify(d, kind) \in Seq(Event)
  <1>1. d \in Seq(Names) /\ d # << >>
    BY DirWatchAssumption
  <1>2. Last(d) \in Names
    BY <1>1 DEF Last
  <1>3. CASE Parent(d) = << >>
    <2>1. Notify(d, kind) = << >>
      BY <1>3 DEF Notify
    <2> QED
      BY <2>1
  <1>4. CASE Parent(d) # << >>
    <2>1. Notify(d, kind) = EventFor(node[Parent(d)], kind, Last(d))
      BY <1>4 DEF Notify
    <2> QED
      BY <1>2, <2>1, EventTypes
  <1> QED
    BY <1>3, <1>4

LEMMA QueueTypes ==
  ASSUME events \in Seq(Event), NEW new \in Seq(Event), Queue(new)
  PROVE  events' \in Seq(Event)
  <1>1. events' = events \o new
    BY DEF Queue
  <1> HIDE DEF Event
  <1> QED
    BY <1>1

IInv == /\ CacheType /\ DiskType /\ OtherType /\ FlagsForModules
        /\ WatchInv

\* A step of the disk touches neither the cache nor the watchers, and can only
\* take watches away.
LEMMA DiskSteps ==
  ASSUME IInv, DiskType',
         UNCHANGED << lastWd, cache, flagged, watchers, failed, closed >>,
         \E R \in SUBSET Watches :
           kernel' = [w \in Watches |-> IF w \in R THEN Missing ELSE kernel[w]]
  PROVE  IInv'
  <1>1. CacheType' /\ OtherType' /\ FlagsForModules'
    BY DEF IInv, CacheType, OtherType, FlagsForModules
  <1>2. WatcherType' /\ KernelType'
    BY DEF IInv, WatchInv, WatcherType, KernelType, BelowHome
  <1>3. NoOrphanWatches' /\ OneWatcherPerPath'
    BY DEF IInv, WatchInv, NoOrphanWatches, OneWatcherPerPath, Owners
  <1> QED
    BY <1>1, <1>2, <1>3 DEF IInv, WatchInv

LEMMA KernelKept ==
  ASSUME KernelType, kernel' = kernel
  PROVE  \E R \in SUBSET Watches :
           kernel' = [w \in Watches |-> IF w \in R THEN Missing ELSE kernel[w]]
  <1>1. kernel' = [w \in Watches |-> IF w \in {} THEN Missing ELSE kernel[w]]
    BY DEF KernelType
  <1> WITNESS {} \in SUBSET Watches
  <1> QED
    BY <1>1

LEMMA MkdirIInv ==
  ASSUME IInv, NEW d \in Dirs, Mkdir(d)
  PROVE  IInv'
  <1>1. events' \in Seq(Event)
    <2>1. Notify(d, "create") \in Seq(Event)
      BY NotifyTypes DEF IInv, WatchInv
    <2> QED
      BY <2>1, QueueTypes DEF Mkdir, IInv, DiskType
  <1>2. DiskType'
    BY <1>1, Constants DEF Mkdir, IInv, DiskType, Nodes
  <1> QED
    BY <1>2, KernelKept, DiskSteps DEF Mkdir, kernelVars, IInv, WatchInv

LEMMA RmdirIInv ==
  ASSUME IInv, NEW d \in Dirs, Rmdir(d)
  PROVE  IInv'
  <1>1. events' \in Seq(Event)
    <2> DEFINE own == EventFor(node[d], "delete_self", NoName)
               new == own \o Notify(d, "delete")
    <2>1. Notify(d, "delete") \in Seq(Event) /\ own \in Seq(Event)
      BY NotifyTypes, EventTypes DEF IInv, WatchInv
    <2>2. new \in Seq(Event)
      <3> HIDE DEF own
      <3> QED
        BY <2>1
    <2>3. Queue(new)
      BY DEF Rmdir
    <2> HIDE DEF new
    <2> QED
      BY <2>2, <2>3, QueueTypes DEF IInv, DiskType
  <1>2. DiskType'
    BY <1>1, Constants DEF Rmdir, IInv, DiskType
  <1>3. WatchesOf(node[d]) \in SUBSET Watches
    BY DEF WatchesOf
  <1> QED
    BY <1>2, <1>3, DiskSteps DEF Rmdir

LEMMA RenameIInv ==
  ASSUME IInv, NEW d \in Dirs, NEW e \in Dirs, Rename(d, e)
  PROVE  IInv'
  <1>1. events' \in Seq(Event)
    <2>1. Notify(e, "create") \in Seq(Event)
      BY NotifyTypes DEF IInv, WatchInv
    <2> QED
      BY <2>1, QueueTypes DEF Rename, IInv, DiskType
  <1>2. DiskType'
    BY <1>1 DEF Rename, IInv, DiskType
  <1> QED
    BY <1>2, KernelKept, DiskSteps DEF Rename, kernelVars, IInv, WatchInv

-----------------------------------------------------------------------------
(* The server.                                                             *)

LEMMA WatchKept ==
  ASSUME WatchInv, UNCHANGED << kernelVars, watchers, closed >>
  PROVE  WatchInv'
  BY DEF WatchInv, WatcherType, KernelType, NoOrphanWatches, OneWatcherPerPath, Owners,
         BelowHome, kernelVars

LEMMA ForceSyncIInv ==
  ASSUME IInv, NEW p \in Projects, ForceSync(p)
  PROVE  IInv'
  <1>1. Listed(p) \in SUBSET Sources
    BY DEF Listed
  <1>2. CacheType' /\ flagged' \in [Projects -> SUBSET Paths] /\ FlagsForModules'
    BY <1>1, RebuildFlags DEF IInv, ForceSync
  <1>3. WatchInv'
    BY UpdateWatches DEF IInv, DiskType, ForceSync
  <1>4. DiskType' /\ OtherType'
    BY <1>2 DEF IInv, DiskType, OtherType, ForceSync, diskVars
  <1> QED
    BY <1>2, <1>3, <1>4 DEF IInv

LEMMA ForceSyncThrowsIInv ==
  ASSUME IInv, NEW p \in Projects, ForceSyncThrows(p)
  PROVE  IInv'
  <1>1. PICK S \in SUBSET Listed(p) :
          /\ cache' = [cache EXCEPT ![p] = LoadCommands(S)]
          /\ flagged' = [flagged EXCEPT ![p] = {ModuleHome[d] : d \in S}]
    BY DEF ForceSyncThrows
  <1>2. S \in SUBSET Sources
    BY DEF Listed
  <1>3. CacheType' /\ flagged' \in [Projects -> SUBSET Paths] /\ FlagsForModules'
    BY <1>1, <1>2, RebuildFlags DEF IInv
  <1>4. DiskType' /\ OtherType' /\ WatchInv'
    BY <1>3, WatchKept DEF IInv, DiskType, OtherType, ForceSyncThrows, diskVars
  <1> QED
    BY <1>3, <1>4 DEF IInv

LEMMA EventIInv ==
  ASSUME IInv, HandleInotifyEvent
  PROVE  IInv'
  <1> DEFINE ev == Head(events)
             p  == GetProjectByWatcher(ev.wd)
             d  == Append(watchers[p][ev.wd], ev.name)
  <1>1. DiskType'
    BY DEF HandleInotifyEvent, IInv, DiskType, diskVars
  <1>2. CASE UNCHANGED << kernelVars, cache, flagged, watchers, failed, closed >>
    <2>1. WatchInv'
      BY <1>2, WatchKept DEF IInv
    <2> QED
      BY <1>1, <1>2, <2>1 DEF IInv, CacheType, OtherType, FlagsForModules
  <1>3. CASE ~Skipped(ev) /\ HandleEntryCreate(p, d)
    <2>1. p \in Projects
      BY <1>3, OwnerIsProject DEF Skipped
    <2> HIDE DEF p, d
    <2>2. CacheType' /\ OtherType' /\ FlagsForModules'
      BY <1>3, <2>1, CreateFlags DEF IInv
    <2>3. WatchInv'
      BY <1>3, WatchKept DEF IInv, HandleEntryCreate
    <2> QED
      BY <1>1, <2>2, <2>3 DEF IInv
  <1>4. CASE ~Skipped(ev) /\ HandleEntryDeleted(p, d)
    <2>1. p \in Projects
      BY <1>4, OwnerIsProject DEF Skipped
    <2> HIDE DEF p, d
    <2>2. CacheType' /\ OtherType' /\ FlagsForModules'
      BY <1>4, <2>1, DeleteFlags DEF IInv
    <2>3. WatchInv'
      BY <1>4, <2>1, DeleteWatches DEF IInv
    <2> QED
      BY <1>1, <2>2, <2>3 DEF IInv
  <1> QED
    BY <1>2, <1>3, <1>4 DEF HandleInotifyEvent

-----------------------------------------------------------------------------
(* The specification.                                                      *)

LEMMA InitIInv == Init => IInv
  <1> SUFFICES ASSUME Init PROVE IInv
    OBVIOUS
  <1>1. CacheType /\ OtherType /\ FlagsForModules
    BY DEF Init, CacheType, OtherType, FlagsForModules
  <1>2. DiskType
    <2>1. /\ Len(Initial) \in Nat /\ Len(Initial) <= MaxNode
          /\ DOMAIN Initial = 1 .. Len(Initial)
      BY DirWatchAssumption
    <2>2. \A i \in DOMAIN Initial : i \in Nodes
      BY <2>1, Constants DEF Nodes
    <2>3. node \in [Dirs -> Nodes \cup {Missing}]
      BY <2>2 DEF Init
    <2> QED
      BY <2>1, <2>3, Constants DEF Init, DiskType
  <1>3. WatchInv
    BY Constants DEF Init, WatchInv, WatcherType, KernelType, NoOrphanWatches,
                     OneWatcherPerPath, Owners
  <1> QED
    BY <1>1, <1>2, <1>3 DEF IInv

LEMMA NextIInv == IInv /\ [Next]_vars => IInv'
  <1> SUFFICES ASSUME IInv, [Next]_vars PROVE IInv'
    OBVIOUS
  <1>1. ASSUME NEW d \in Dirs, Mkdir(d) \/ Rmdir(d) PROVE IInv'
    BY <1>1, MkdirIInv, RmdirIInv
  <1>2. ASSUME NEW d \in Dirs, NEW e \in Dirs, Rename(d, e) PROVE IInv'
    BY <1>2, RenameIInv
  <1>3. ASSUME NEW p \in Projects, ForceSync(p) \/ ForceSyncThrows(p) PROVE IInv'
    BY <1>3, ForceSyncIInv, ForceSyncThrowsIInv
  <1>4. CASE HandleInotifyEvent
    BY <1>4, EventIInv
  <1>5. CASE UNCHANGED vars
    <2>1. WatchInv'
      BY <1>5, WatchKept DEF IInv, vars
    <2> QED
      BY <1>5, <2>1 DEF IInv, CacheType, DiskType, OtherType, FlagsForModules, vars, diskVars
  <1> QED
    BY <1>1, <1>2, <1>3, <1>4, <1>5 DEF Next

LEMMA InvariantHolds == Spec => []IInv
  BY InitIInv, NextIInv, PTL DEF Spec

\* Whatever is made, deleted or renamed, and however a reload of the compile
\* commands ends, a directory with a module has the flags of that module, so that
\* BuildFile finds them (CompilerFlagCache::GetModuleName, GetModuleCompilationFlag).
THEOREM ModulesHaveFlags == Spec => []FlagsForModules
  <1>1. IInv => FlagsForModules
    BY DEF IInv
  <1> QED
    BY <1>1, InvariantHolds, PTL

\* A watch that the kernel still has belongs to a watcher of some project, which
\* will remove it (~ProjectFileWatcher).
THEOREM NoWatchIsOrphaned == Spec => []NoOrphanWatches
  <1>1. IInv => NoOrphanWatches
    BY DEF IInv, WatchInv
  <1> QED
    BY <1>1, InvariantHolds, PTL

\* A project has one watcher for a path, as the search by path assumes that ends at
\* the first match (Project::GetWatchDirs, UpdateWatchDirs).
THEOREM PathsWatchedOnce == Spec => []OneWatcherPerPath
  <1>1. IInv => OneWatcherPerPath
    BY DEF IInv, WatchInv
  <1> QED
    BY <1>1, InvariantHolds, PTL

\* The state stays well formed, the paths of the watchers of a project below its
\* home.
THEOREM DirWatchTypeCorrect == Spec => []TypeOK
  <1>1. IInv => TypeOK
    BY TypeParts DEF IInv, WatchInv
  <1> QED
    BY <1>1, InvariantHolds, PTL

-----------------------------------------------------------------------------
(* Two paths that exist lead to two directories.                           *)

NodesDistinct ==
  /\ \A d, e \in Dirs : node[d] = node[e] /\ node[d] # Missing => d = e
  /\ \A d \in Dirs : node[d] <= lastNode

LEMMA InitNodes == Init => NodesDistinct
  <1> SUFFICES ASSUME Init PROVE NodesDistinct
    OBVIOUS
  <1> DEFINE At(d) == {i \in DOMAIN Initial : Initial[i] = d}
             First(d) == CHOOSE i \in DOMAIN Initial : Initial[i] = d
  <1>1. DOMAIN Initial = 1 .. lastNode /\ lastNode \in Nat
    BY DirWatchAssumption DEF Init
  <1>2. \A d \in Dirs : At(d) # {} => First(d) \in DOMAIN Initial /\ Initial[First(d)] = d
    OBVIOUS
  <1>3. \A d \in Dirs : node[d] = IF At(d) # {} THEN First(d) ELSE Missing
    BY DEF Init
  <1> HIDE DEF At, First
  <1>4. \A d \in Dirs : node[d] # Missing => node[d] \in DOMAIN Initial /\ Initial[node[d]] = d
    BY <1>2, <1>3
  <1> QED
    BY <1>1, <1>4 DEF NodesDistinct, Missing

\* A directory that is made gets a node of its own, one that is renamed takes its
\* node along.
LEMMA NextNodes == IInv /\ NodesDistinct /\ [Next]_vars => NodesDistinct'
  <1> SUFFICES ASSUME IInv, NodesDistinct, [Next]_vars PROVE NodesDistinct'
    OBVIOUS
  <1>1. /\ node \in [Dirs -> Nodes \cup {Missing}]
        /\ lastNode \in Nat /\ Nodes \subseteq Nat
    BY Constants DEF IInv, DiskType, Nodes
  <1>2. \A d \in Dirs : node[d] \in Nat /\ node[d] <= lastNode
    <2>1. ASSUME NEW d \in Dirs PROVE node[d] \in Nat
      <3>1. node[d] \in Nodes \/ node[d] = Missing
        BY <1>1
      <3>2. Nodes \subseteq Nat /\ Missing \in Nat
        BY <1>1 DEF Missing
      <3> QED
        BY <3>1, <3>2
    <2> QED
      BY <2>1 DEF NodesDistinct
  <1>3. ASSUME NEW d \in Dirs, Mkdir(d) PROVE NodesDistinct'
    <2>1. /\ \A e \in Dirs : node'[e] = IF e = d THEN lastNode + 1 ELSE node[e]
          /\ lastNode' = lastNode + 1
      BY <1>1, <1>3 DEF Mkdir
    <2>2. \A e \in Dirs : node'[e] <= lastNode'
      BY <1>1, <1>2, <2>1
    <2>3. ASSUME NEW e \in Dirs, NEW f \in Dirs, node'[e] = node'[f], node'[e] # Missing
          PROVE  e = f
      <3>1. /\ node[e] <= lastNode /\ node[f] <= lastNode
            /\ node[e] \in Nat /\ node[f] \in Nat
        BY <1>2
      <3>2. node'[e] = node[e] \/ e = d
        BY <2>1
      <3> QED
        BY <1>1, <2>1, <2>3, <3>1, <3>2 DEF NodesDistinct
    <2> QED
      BY <2>2, <2>3 DEF NodesDistinct
  <1>4. ASSUME NEW d \in Dirs, Rmdir(d) PROVE NodesDistinct'
    <2>1. /\ \A e \in Dirs : node'[e] = IF e = d THEN Missing ELSE node[e]
          /\ lastNode' = lastNode
      BY <1>1, <1>4 DEF Rmdir
    <2> QED
      BY <1>1, <2>1 DEF NodesDistinct, Missing
  <1>5. ASSUME NEW d \in Dirs, NEW e \in Dirs, Rename(d, e) PROVE NodesDistinct'
    <2>1. node[d] # Missing /\ node[e] = Missing
      <3>1. d # << >> /\ e # << >>
        BY DirWatchAssumption
      <3>2. is_directory(d) /\ ~is_directory(e)
        BY <1>5 DEF Rename
      <3> QED
        BY <3>1, <3>2 DEF is_directory
    <2>2. /\ \A f \in Dirs : node'[f] = IF f = e THEN node[d]
                                        ELSE IF f = d THEN Missing ELSE node[f]
          /\ lastNode' = lastNode
      BY <1>1, <1>5 DEF Rename
    <2> QED
      BY <1>1, <2>1, <2>2 DEF NodesDistinct, Missing
  <1>6. CASE UNCHANGED diskVars
    BY <1>6 DEF diskVars, NodesDistinct
  <1> QED
    BY <1>3, <1>4, <1>5, <1>6
    DEF Next, ForceSync, ForceSyncThrows, HandleInotifyEvent, vars, diskVars

LEMMA NodesHold == Spec => [](IInv /\ NodesDistinct)
  BY InitIInv, NextIInv, InitNodes, NextNodes, PTL DEF Spec

-----------------------------------------------------------------------------
(* What a reload leaves watched.                                           *)

\* A directory whose node has a watch gets that watch, and another gets a new number.
LEMMA NumberedNodes ==
  ASSUME KernelType, NEW S, NEW wd \in Numberings(S), NEW d \in S
  PROVE  \/ wd[d] > lastWd
         \/ wd[d] \in Watches /\ node[d] # Missing /\ kernel[wd[d]] = node[d]
  <1> DEFINE fresh == {e \in S : WatchesOf(node[e]) = {}}
  <1>1. IF d \in fresh THEN wd[d] \in lastWd + 1 .. lastWd + Cardinality(fresh)
                       ELSE wd[d] \in WatchesOf(node[d])
    BY DEF Numberings
  <1>2. CASE d \in fresh
    <2> DEFINE n == wd[d]
               k == Cardinality(fresh)
    <2>1. n \in lastWd + 1 .. lastWd + k
      BY <1>1, <1>2
    <2>2. lastWd \in Nat
      BY Constants DEF KernelType
    <2> HIDE DEF n, k
    <2>3. n > lastWd
      BY <2>1, <2>2, SMT
    <2> QED
      BY <2>3 DEF n
  <1>3. CASE d \notin fresh
    BY <1>1, <1>3 DEF WatchesOf
  <1> QED
    BY <1>2, <1>3

SyncedTo(p, G) ==
  \A d \in Dirs : IF d \in G THEN Watched(p, d)' \/ Stale(p, d)
                             ELSE d \notin WatchedPaths(p)'

LEMMA UpdateSyncs ==
  ASSUME WatchInv, NodesDistinct, node \in [Dirs -> Nodes \cup {Missing}], node' = node,
         NEW p \in Projects, NEW c, UpdateWatchDirs(p, c)
  PROVE  SyncedTo(p, GetWatchDirs(p, c))
  <1> DEFINE add == DirsToAdd(p, c)
             G   == GetWatchDirs(p, c)
  <1>1. PICK wd \in Numberings(add) :
          LET added    == {wd[d] : d \in DOMAIN wd}
              replaced == {w \in added : watchers[p][w] # NoPath}
              removed  == {w \in Watches \ added :
                             /\ watchers[p][w] # NoPath
                             /\ watchers[p][w] \notin GetWatchDirs(p, c)}
          IN  /\ watchers' = [watchers EXCEPT ![p] =
                                [w \in Watches |->
                                   IF w \in added THEN CHOOSE d \in DOMAIN wd : wd[d] = w
                                   ELSE IF w \in removed THEN NoPath
                                   ELSE watchers[p][w]]]
              /\ kernel' = [w \in Watches |->
                              IF w \in replaced \cup removed THEN Missing
                              ELSE IF w \in added
                                THEN node[CHOOSE d \in DOMAIN wd : wd[d] = w]
                              ELSE kernel[w]]
    BY DEF UpdateWatchDirs
  <1> DEFINE added == {wd[d] : d \in add}
             replaced == {w \in added : watchers[p][w] # NoPath}
             removed == {w \in Watches \ added :
                           /\ watchers[p][w] # NoPath
                           /\ watchers[p][w] \notin G}
             PathOf(w) == CHOOSE d \in add : wd[d] = w
  <1>2. /\ wd \in [add -> Watches]
        /\ \A d, e \in add : wd[d] = wd[e] => d = e
    BY Numbered DEF WatchInv
  <1>3. DOMAIN wd = add
    BY <1>2
  <1>4. /\ G \subseteq Dirs /\ add = G \ WatchedPaths(p)
        /\ \A d \in G : node[d] # Missing
        /\ \A d \in Dirs : d # NoPath
    BY Constants, DirWatchAssumption
    DEF DirsToAdd, GetWatchDirs, BelowHome, is_directory
  <1>5. \A w \in added : PathOf(w) \in add /\ wd[PathOf(w)] = w
    BY <1>2
  <1>6. \A d \in add : wd[d] \in added /\ wd[d] \in Watches /\ PathOf(wd[d]) = d
    BY <1>2, <1>5
  <1>7. \A d \in add : \/ wd[d] > lastWd
                       \/ node[d] # Missing /\ kernel[wd[d]] = node[d]
    BY NumberedNodes DEF WatchInv
  <1> HIDE DEF add, PathOf, G
  <1>8. \A w \in Watches :
          watchers'[p][w] = IF w \in added THEN PathOf(w)
                            ELSE IF w \in removed THEN NoPath
                            ELSE watchers[p][w]
    BY <1>1, <1>3 DEF WatchInv, WatcherType, PathOf, G
  <1>9. \A w \in Watches :
          kernel'[w] = IF w \in replaced \cup removed THEN Missing
                       ELSE IF w \in added THEN node[PathOf(w)]
                       ELSE kernel[w]
    BY <1>1, <1>3 DEF PathOf, G
  <1>10. \A w \in Watches : watchers[p][w] # NoPath => ~(w > lastWd)
    BY Constants DEF WatchInv, KernelType, NoOrphanWatches, Owners, Watches
  <1> HIDE DEF added, replaced, removed
  <1>11. ASSUME NEW d \in add
         PROVE  Watched(p, d)' \/ Stale(p, d)
    <2> DEFINE w == wd[d]
    <2>1. w \in added /\ w \in Watches /\ PathOf(w) = d /\ w \notin removed
      BY <1>6 DEF removed
    <2>2. node[d] # Missing /\ d \in Dirs /\ watchers[p][w] # d
      BY <1>4, <2>1 DEF WatchedPaths
    <2>3. CASE w \in replaced
      <3>1. watchers[p][w] # NoPath
        BY <2>3 DEF replaced
      <3>2. kernel[w] = node[d]
        BY <1>7, <1>10, <2>1, <3>1
      <3> QED
        BY <2>1, <2>2, <3>1, <3>2 DEF Stale
    <2>4. CASE w \notin replaced
      <3>1. watchers'[p][w] = d /\ kernel'[w] = node[d]
        BY <1>8, <1>9, <2>1, <2>4
      <3> QED
        BY <2>1, <2>2, <3>1 DEF Watched
    <2> QED
      BY <2>3, <2>4
  <1>12. ASSUME NEW d \in G, d \notin add, ~Stale(p, d)
         PROVE  Watched(p, d)'
    <2>1. d \in WatchedPaths(p) /\ d \in Dirs
      BY <1>4, <1>12
    <2>2. PICK w \in Watches : watchers[p][w] = d /\ kernel[w] = node[d] /\ node[d] # Missing
      BY <1>12, <2>1 DEF Stale, Watched
    <2>3. w \notin added
      <3>1. SUFFICES ASSUME w \in added PROVE FALSE
        OBVIOUS
      <3> DEFINE e == PathOf(w)
      <3>2. e \in add /\ wd[e] = w
        BY <1>5, <3>1
      <3>3. kernel[w] = node[e]
        BY <1>4, <1>7, <1>10, <2>1, <2>2, <3>2
      <3>4. e = d
        BY <1>4, <2>1, <2>2, <3>2, <3>3 DEF NodesDistinct
      <3> QED
        BY <1>12, <3>2, <3>4
    <2>4. w \notin removed
      BY <1>12, <2>2 DEF removed
    <2>5. w \notin replaced
      BY <2>3 DEF replaced
    <2>6. watchers'[p][w] = d /\ kernel'[w] = node[d]
      BY <1>8, <1>9, <2>2, <2>3, <2>4, <2>5
    <2> QED
      BY <2>2, <2>6 DEF Watched
  <1>13. ASSUME NEW d \in Dirs, d \notin G, NEW w \in Watches
         PROVE  watchers'[p][w] # d
    <2>1. CASE w \in added
      BY <1>4, <1>5, <1>8, <1>13, <2>1
    <2>2. CASE w \in removed
      BY <1>4, <1>8, <1>13, <2>1, <2>2
    <2>3. CASE w \notin added /\ w \notin removed
      BY <1>4, <1>8, <1>13, <2>3 DEF removed
    <2> QED
      BY <2>1, <2>2, <2>3
  <1>14. \A d \in Dirs : IF d \in G THEN Watched(p, d)' \/ Stale(p, d)
                                    ELSE d \notin WatchedPaths(p)'
    BY <1>11, <1>12, <1>13 DEF WatchedPaths
  <1> QED
    BY <1>14 DEF SyncedTo, G

\* After a ForceSync every directory below the home that has a module is watched,
\* and no other, whatever happened to the directories before; the exceptions are the
\* watches that were stale already (Project::ForceSync, GetWatchDirs, UpdateWatchDirs).
THEOREM SyncsWatches == Spec => SyncWatches
  <1>1. ASSUME IInv, NodesDistinct, NEW p \in Projects, ForceSync(p)
        PROVE  SyncedTo(p, GetWatchDirs(p, cache'[p]))
    <2> DEFINE c == LoadCommands(Listed(p))
    <2>1. cache'[p] = c
      BY <1>1 DEF IInv, CacheType, ForceSync
    <2>2. UpdateWatchDirs(p, c) /\ node' = node
      BY <1>1 DEF ForceSync, diskVars
    <2> HIDE DEF c
    <2>3. SyncedTo(p, GetWatchDirs(p, c))
      BY <1>1, <2>2, UpdateSyncs DEF IInv, DiskType
    <2> QED
      BY <2>1, <2>3
  <1>2. IInv /\ NodesDistinct /\ [Next]_vars =>
          [\A p \in Projects : ForceSync(p) =>
             \A d \in Dirs :
               IF d \in GetWatchDirs(p, cache'[p])
                 THEN Watched(p, d)' \/ Stale(p, d)
                 ELSE d \notin WatchedPaths(p)']_vars
    BY <1>1 DEF SyncedTo
  <1> QED
    BY <1>2, NodesHold, PTL DEF Spec, SyncWatches

=============================================================================
