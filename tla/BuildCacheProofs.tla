-------------------------- MODULE BuildCacheProofs --------------------------
(***************************************************************************)
(* Proofs about BuildCache, for every choice of its constants.             *)
(*                                                                         *)
(* TypeCorrect: the type invariant.                                        *)
(* CacheIsSound: with builds run to their end one at a time, a clean cache *)
(* entry never vouches for a stale artifact, however often the user edits, *)
(* reverts, deletes, reconfigures and cleans up.                           *)
(* CacheSurvivesCrashes: nor when builds die anywhere, bypass the cache or *)
(* race with edits, if no content and no settings on record come back.     *)
(* AnswersResolve: a returned artifact never lacks its build info, whoever *)
(* crashes, edits or bypasses the cache.                                   *)
(* InfosAreListed: builds that run to their end orphan no build info.      *)
(* ReuseIsSound, StorageIsSound: what is reused and what is on disk after  *)
(* a build is what the compiler would produce.                             *)
(* BuildsAreClean: every step of a build is one of CleanBuild.  These hold *)
(* of undisturbed builds, and of builds that die or bypass the cache when  *)
(* nothing on record comes back.                                           *)
(* RebuildsAreIdle: building again what was just stored compiles nothing.  *)
(***************************************************************************)
EXTENDS BuildCache, TLAPS

-----------------------------------------------------------------------------
(* Import closures.  Reach(s, f) is the least set that holds f and is closed   *)
(* under imports: each fact about it is proved by showing a closed set.        *)

(* A file is among the files it reaches. *)
LEMMA ReachSelf ==
    ASSUME NEW s, NEW f \in Files
    PROVE  f \in Reach(s, f)
  BY DEF Reach

(* A closed set that holds f holds all that f reaches. *)
LEMMA ReachLeast ==
    ASSUME NEW s, NEW f \in Files, NEW S \in SUBSET Files,
           f \in S, ImportClosed(s, S)
    PROVE  Reach(s, f) \subseteq S
  BY DEF Reach

(* What f reaches is closed under imports. *)
LEMMA ReachClosed ==
    ASSUME NEW s, NEW f \in Files
    PROVE  ImportClosed(s, Reach(s, f))
<1> SUFFICES ASSUME NEW g \in Reach(s, f), NEW h \in Imports(s, g)
             PROVE  h \in Reach(s, f)
  BY DEF ImportClosed
<1>1. h \in Files
  BY DEF Imports, Exists
<1> SUFFICES ASSUME NEW S \in SUBSET Files, f \in S, ImportClosed(s, S)
             PROVE  h \in S
  BY <1>1 DEF Reach
<1>2. g \in S
  BY DEF Reach
<1> QED
  BY <1>2 DEF ImportClosed

(* A file that exists reaches only files that exist. *)
LEMMA ReachExists ==
    ASSUME NEW s, NEW f \in Files, s[f] # None
    PROVE  Reach(s, f) \subseteq Exists(s)
<1>1. Exists(s) \in SUBSET Files /\ f \in Exists(s)
  BY DEF Exists
<1>2. ImportClosed(s, Exists(s))
  BY DEF ImportClosed, Imports
<1> QED
  BY <1>1, <1>2, ReachLeast

(* Where no import falls back to another file, the files imported are those    *)
(* that are wanted and exist.                                                  *)
LEMMA ImportsAreWanted ==
    ASSUME NoFallback, NEW s \in Tree, NEW f \in Files
    PROVE  Imports(s, f) = Wanted(s, f) \cap Exists(s)
<1>1. Wanted(s, f) \subseteq Files
  BY ImportsAreFiles DEF Wanted, Tree
<1>2. ASSUME NEW g \in Wanted(s, f) PROVE Target(s, g) = IF s[g] # None THEN g ELSE None
  BY <1>1, <1>2 DEF Target, NoFallback
<1>3. None \notin Exists(s)
  BY NoneIsNothing DEF Exists
<1>4. ASSUME NEW h \in Imports(s, f) PROVE h \in Wanted(s, f) \cap Exists(s)
  <2>1. h \in Exists(s) /\ \E g \in Wanted(s, f) : h = Target(s, g)
    BY <1>4 DEF Imports
  <2> QED
    BY <2>1, <1>2, <1>3
<1>5. ASSUME NEW h \in Wanted(s, f) \cap Exists(s) PROVE h \in Imports(s, f)
  <2>1. Target(s, h) = h
    BY <1>5 DEF Target, Exists
  <2> QED
    BY <1>5, <2>1 DEF Imports
<1> QED
  BY <1>4, <1>5

(* Two trees that agree on all that f reaches in the first: f reaches at least *)
(* as much in the second.                                                      *)
LEMMA ReachMonotone ==
    ASSUME NoFallback, NEW s \in Tree, NEW t \in Tree, NEW f \in Files,
           s[f] # None,
           \A g \in Reach(s, f) : t[g] = s[g]
    PROVE  Reach(s, f) \subseteq Reach(t, f)
<1> DEFINE S == Reach(s, f) \cap Reach(t, f)
<1>1. S \in SUBSET Files /\ f \in S
  BY ReachSelf DEF Reach
<1>2. ASSUME NEW g \in S, NEW h \in Imports(s, g) PROVE h \in S
  <2>1. g \in Files /\ h \in Files
    BY <1>1, <1>2 DEF Imports, Exists
  <2>2. h \in Reach(s, f)
    BY <1>2, ReachClosed DEF ImportClosed
  <2>3. h \in Wanted(s, g) /\ s[h] # None
    BY <1>2, <2>1, ImportsAreWanted DEF Exists
  <2>4. h \in Wanted(t, g) /\ t[h] # None
    BY <1>2, <2>2, <2>3 DEF Wanted
  <2>5. h \in Imports(t, g)
    BY <2>1, <2>4, ImportsAreWanted DEF Exists
  <2> QED
    BY <1>2, <2>2, <2>5, ReachClosed DEF ImportClosed
<1>3. ImportClosed(s, S)
  BY <1>2 DEF ImportClosed
<1>4. Reach(s, f) \subseteq S
  BY <1>1, <1>3, ReachLeast
<1> QED
  BY <1>4

(* The same when the first tree has some of the files of the second. *)
LEMMA ReachSubtree ==
    ASSUME NoFallback, NEW s \in Tree, NEW t \in Tree, NEW f \in Files,
           s[f] # None,
           \A g \in Files : s[g] \in {None, t[g]}
    PROVE  /\ Reach(s, f) \subseteq Reach(t, f)
           /\ \A g \in Reach(s, f) : s[g] = t[g]
<1>1. Reach(s, f) \subseteq Exists(s)
  BY ReachExists
<1>2. \A g \in Reach(s, f) : t[g] = s[g]
  BY <1>1 DEF Exists
<1> QED
  BY <1>2, ReachMonotone

(* Two trees in which all imports resolve have the same stamp of f once they   *)
(* agree on what f reaches in one of them.                                     *)
LEMMA StampUnique ==
    ASSUME NoFallback, NEW s \in Tree, NEW t \in Tree, NEW f \in Files,
           t[f] # None,
           \A g \in Reach(t, f) : ~Unresolved(t, g),
           \A g \in Reach(t, f) : Stamp(s, f)[g] = t[g]
    PROVE  Stamp(s, f) = Stamp(t, f) /\ s[f] = t[f]
<1>1. Reach(t, f) \subseteq Exists(t)
  BY ReachExists
<1>2. \A g \in Reach(t, f) : g \in Reach(s, f) /\ s[g] = t[g]
  BY <1>1 DEF Stamp, Exists
<1>3. ASSUME NEW g \in Reach(t, f), NEW h \in Imports(s, g) PROVE h \in Reach(t, f)
  <2>1. g \in Files
    BY <1>1 DEF Exists
  <2>2. h \in Wanted(t, g)
    BY <1>2, <1>3, <2>1, ImportsAreWanted DEF Wanted
  <2>3. h \in Files /\ Target(t, h) \in Exists(t)
    BY <2>2, <1>3 DEF Unresolved, Imports, Exists
  <2>4. t[h] # None
    BY <2>3, NoneIsNothing DEF Target, Exists, NoFallback
  <2>5. h \in Imports(t, g)
    BY <2>1, <2>2, <2>3, <2>4, ImportsAreWanted DEF Exists
  <2> QED
    BY <2>5, ReachClosed DEF ImportClosed
<1>4. Reach(s, f) \subseteq Reach(t, f)
  <2>1. ImportClosed(s, Reach(t, f))
    BY <1>3 DEF ImportClosed
  <2>2. Reach(t, f) \in SUBSET Files /\ f \in Reach(t, f)
    BY ReachSelf DEF Reach
  <2> QED
    BY <2>1, <2>2, ReachLeast
<1>5. Reach(s, f) = Reach(t, f)
  BY <1>2, <1>4
<1> QED
  BY <1>2, <1>5, ReachSelf DEF Stamp

-----------------------------------------------------------------------------
(* Types of the operators the actions are built from.                          *)

LEMMA KeyParts ==
    ASSUME NEW k \in Keys
    PROVE  /\ k[1] \in Files /\ k[2] \in Units
           /\ k[2][1] \in Versions /\ k[2][2] \in Profiles
           /\ k = <<k[1], k[2]>>
  BY DEF Keys, Units

LEMMA ReachIsFiles ==
    ASSUME NEW s, NEW F
    PROVE  ReachAll(s, F) \subseteq Files /\ \A f \in Files : Reach(s, f) \subseteq Files
  BY DEF ReachAll, Reach

LEMMA EmptyCacheType == EmptyCache \in Cache
  BY DEF EmptyCache, Cache

LEMMA OnlyType ==
    ASSUME NEW c \in Cache, NEW F
    PROVE  /\ Only(c, F) \in Cache
           /\ Only(c, F).hash = [f \in Files |-> IF f \in F THEN c.hash[f] ELSE None]
           /\ Only(c, F).seen = c.seen \cap F
           /\ Only(c, F).link = [k \in Keys |-> IF k[1] \in F THEN c.link[k] ELSE None]
           /\ Only(c, F).builds = c.builds
           /\ Only(c, F).set = c.set
  BY KeyParts DEF Only, Cache

LEMMA LoadedType ==
    ASSUME TypeOK
    PROVE  Loaded \in Cache
  BY OnlyType, EmptyCacheType DEF Loaded, TypeOK, Usable

LEMMA DropProfilesType ==
    ASSUME TypeOK, NEW c \in Cache
    PROVE  DropProfiles(c) \in Cache
<1> DEFINE link == [k \in Keys |-> IF k[2][2] \in DirtyProfiles(c) THEN None ELSE c.link[k]]
           d == [c EXCEPT !.link = link]
           keep == {f \in Files : Linked(c, f) # {} =>
                                    \E k \in Keys : k[1] = f /\ link[k] # None}
<1>1. link \in [Keys -> BuildId \cup {None}]
  BY DEF Cache
<1>2. d \in Cache
  BY <1>1 DEF Cache
<1>3. Only(d, keep) \in Cache
  BY <1>2, OnlyType
<1>4. DropProfiles(c) = [Only(d, keep) EXCEPT !.set = settings]
  BY DEF DropProfiles
<1>5. settings \in [Profiles -> Settings \cup {None}]
  BY DEF TypeOK
<1> HIDE DEF link, d, keep
<1> QED
  BY <1>3, <1>4, <1>5 DEF Cache

LEMMA KeptType ==
    ASSUME TypeOK
    PROVE  Kept \in Cache
  BY LoadedType, DropProfilesType, OnlyType DEF Kept

LEMMA WithEntriesType ==
    ASSUME NEW c \in Cache, NEW j, NEW s \in Tree
    PROVE  WithEntries(c, j, s) \in Cache
  BY DEF WithEntries, Cache, Tree

LEMMA DiskArtifactsType ==
    ASSUME TypeOK
    PROVE  DiskArtifacts \in [Keys -> Artifact \cup {None}]
  BY DEF DiskArtifacts, NoArtifacts, TypeOK

LEMMA ReadArtifactsType ==
    ASSUME NEW c \in Cache, NEW a \in [Keys -> Artifact \cup {None}]
    PROVE  /\ ReadArtifacts(c, a) \in [Keys -> Reusable \cup {None}]
           /\ ReadBuilds(c) \subseteq BuildId
<1>1. ReadBuilds(c) \subseteq BuildId
  BY DEF ReadBuilds, Cache
<1>2. ASSUME NEW k \in Keys, AllReadable(c, a), c.link[k] # None, c.link[k] \in ReadBuilds(c)
      PROVE  [art |-> a[k], build |-> c.link[k]] \in Reusable
  BY <1>1, <1>2 DEF AllReadable, Reusable
<1> QED
  BY <1>1, <1>2 DEF ReadArtifacts

LEMMA CompilerOutputType ==
    ASSUME NEW s \in Tree, NEW set \in [Profiles -> Settings], NEW k \in Keys
    PROVE  CompilerOutput(s, set, k) \in Artifact \cup {None}
<1>1. Stamp(s, k[1]) \in Tree
  BY DEF Stamp, Tree
<1>2. set[k[2][2]] \in Settings
  BY KeyParts
<1> QED
  BY <1>1, <1>2 DEF CompilerOutput, Compiled, Artifact

LEMMA BuildOfType ==
    ASSUME TypeOK, NEW u \in Units
    PROVE  BuildOf(u) \in BuildId
<1> DEFINE passed == {f \in job[u] : \E g \in todo[u] : f \in Reach(snap, g)}
           srcs == [f \in Files |-> IF f \in passed THEN snap[f] ELSE None]
<1>1. srcs \in Tree
  BY DEF TypeOK, Tree
<1>2. u[1] \in Versions /\ u[2] \in Profiles
  BY DEF Units
<1>3. settings[u[2]] \in Settings /\ todo[u] \subseteq Files
  BY <1>2 DEF TypeOK
<1>4. BuildOf(u) = [version |-> u[1], set |-> settings[u[2]], complete |-> todo[u],
                    srcs |-> srcs]
  BY DEF BuildOf
<1> HIDE DEF passed, srcs
<1> QED
  BY <1>1, <1>2, <1>3, <1>4 DEF BuildId

LEMMA NewBuildsType ==
    ASSUME TypeOK
    PROVE  NewBuilds \subseteq BuildId
  BY BuildOfType DEF NewBuilds

LEMMA ProducedType ==
    ASSUME TypeOK
    PROVE  Produced \in [Keys -> Artifact \cup {None}]
  BY CompilerOutputType DEF Produced, TypeOK

LEMMA MergedType ==
    ASSUME TypeOK
    PROVE  /\ Merged \in Cache
           /\ Merged.hash = mem.hash
           /\ Merged.seen = mem.seen
           /\ Merged.link = [k \in Keys |-> IF fresh[k] # None /\ k[1] \in Entries(mem)
                                            THEN BuildOf(k[2]) ELSE mem.link[k]]
           /\ Merged.set = mem.set
<1> DEFINE link == [k \in Keys |-> IF fresh[k] # None /\ k[1] \in Entries(mem)
                                   THEN BuildOf(k[2]) ELSE mem.link[k]]
<1>1. mem \in Cache
  BY DEF TypeOK
<1>2. link \in [Keys -> BuildId \cup {None}]
  BY <1>1, KeyParts, BuildOfType DEF Cache
<1>3. mem.builds \cup NewBuilds \subseteq BuildId
  BY <1>1, NewBuildsType DEF Cache
<1>4. Merged = [mem EXCEPT !.link = link, !.builds = mem.builds \cup NewBuilds]
  BY DEF Merged
<1> HIDE DEF link
<1>5. /\ Merged \in Cache
      /\ Merged.hash = mem.hash
      /\ Merged.seen = mem.seen
      /\ Merged.link = link
      /\ Merged.set = mem.set
  BY <1>1, <1>2, <1>3, <1>4 DEF Cache
<1> QED
  BY <1>5 DEF link

LEMMA PrunedType ==
    ASSUME TypeOK
    PROVE  /\ Pruned \in Cache
           /\ Pruned.hash = Merged.hash
           /\ Pruned.link = Merged.link
           /\ Pruned.set = Merged.set
<1>1. Merged \in Cache
  BY MergedType
<1>2. LinkedBuilds(Merged) \subseteq Merged.builds
  BY DEF LinkedBuilds
<1> QED
  BY <1>1, <1>2 DEF Pruned, Cache

LEMMA OutcomeType ==
    ASSUME TypeOK, NEW b \in BOOLEAN, NEW new \in [Keys -> Artifact \cup {None}]
    PROVE  Outcome(new, b) \in Outputs
<1> DEFINE arts == [k \in Keys |->
                 IF new[k] # None THEN [art |-> new[k], build |-> BuildOf(k[2])]
                 ELSE IF Retained(new, k) THEN reuse[k] ELSE None]
<1>1. ASSUME NEW k \in Keys PROVE arts[k] \in Reusable \cup {None}
  <2>1. CASE new[k] # None
    BY <2>1, KeyParts, BuildOfType DEF TypeOK, Reusable
  <2>2. CASE new[k] = None
    BY <2>2 DEF TypeOK
  <2> QED
    BY <2>1, <2>2
<1>2. arts \in [Keys -> Reusable \cup {None}]
  BY <1>1
<1>3. NewBuilds \cup oldBuilds \subseteq BuildId
  BY NewBuildsType DEF TypeOK
<1>4. Outcome(new, b) = [failed |-> b, builds |-> NewBuilds \cup oldBuilds, arts |-> arts]
  BY DEF Outcome
<1> HIDE DEF arts
<1> QED
  BY <1>2, <1>3, <1>4 DEF Outputs

-----------------------------------------------------------------------------
(* The type invariant *)

LEMMA InitialTypes ==
    ASSUME Init
    PROVE  TypeOK
<1>1. NoArtifacts \in [Keys -> {None}] /\ NoFiles \in [Units -> SUBSET Files]
  BY DEF NoArtifacts, NoFiles
<1>2. [f \in Files |-> None] \in Tree
  BY DEF Tree
<1> QED
  BY <1>1, <1>2, EmptyCacheType DEF Init, TypeOK

(* Whatever ends a build leaves the variables of the build well typed. *)
LEMMA ForgetTypes ==
    ASSUME TypeOK, Forget,
           src' \in Tree, art' \in [Keys -> Artifact \cup {None}],
           infos' \subseteq BuildId, cutInfos' \subseteq infos',
           cacheFile' \in Cache \cup {None}, settings' \in [Profiles -> Settings]
    PROVE  TypeOK'
<1>1. NoArtifacts \in [Keys -> {None}] /\ NoFiles \in [Units -> SUBSET Files]
  BY DEF NoArtifacts, NoFiles
<1>2. [f \in Files |-> None] \in Tree
  BY DEF Tree
<1> QED
  BY <1>1, <1>2, EmptyCacheType DEF Forget, TypeOK

LEMMA PreprocessTypes ==
    ASSUME TypeOK, Preprocess
    PROVE  TypeOK'
<1> DEFINE r == ReadArtifacts(Loaded, DiskArtifacts)
<1>1. reuse' \in [Keys -> Reusable \cup {None}] /\ oldBuilds' \subseteq BuildId
  BY LoadedType, DiskArtifactsType, ReadArtifactsType DEF Preprocess
<1>2. dirty' \subseteq Files
  BY ReachIsFiles DEF Preprocess, DirtyFiles, Entries
<1>3. todo' \in [Units -> SUBSET Files]
  <2>1. ToCompile(Kept, r, job) \in [Units -> SUBSET Files]
    BY DEF ToCompile, TypeOK
  <2> QED
    BY <2>1 DEF Preprocess
<1>4. mem' \in Cache
  BY KeptType, WithEntriesType DEF Preprocess, TypeOK
<1>5. art' \in [Keys -> Artifact \cup {None}]
  BY DiskArtifactsType DEF Preprocess
<1>6. infos' \subseteq BuildId /\ cutInfos' \subseteq infos'
  BY DEF Preprocess, TypeOK
<1>7. UNCHANGED <<src, cacheFile, settings, cached, job, snap, fresh, pendArts,
                  pendInfos, output>> /\ pc' = "compiling"
  BY DEF Preprocess, request, written
<1> QED
  BY <1>1, <1>2, <1>3, <1>4, <1>5, <1>6, <1>7 DEF TypeOK

LEMMA TypesPreserved ==
    ASSUME TypeOK, [Next]_vars
    PROVE  TypeOK'
<1>1. ASSUME NEW roots \in [Units -> SUBSET Files], NEW m \in CacheModes, WithSources(roots, m)
      PROVE  TypeOK'
  <2>1. m \in BOOLEAN
    BY FlagsAreBoolean DEF CacheModes
  <2>2. [u \in Units |-> ReachAll(src, roots[u])] \in [Units -> SUBSET Files]
    BY ReachIsFiles
  <2> QED
    BY <1>1, <2>1, <2>2 DEF WithSources, TypeOK, disk, checked, written
<1>2. CASE Preprocess
  BY <1>2, PreprocessTypes
<1>3. CASE PreprocessEphemeral
  BY <1>3 DEF PreprocessEphemeral, TypeOK, disk, request, written
<1>4. CASE Compile
  <2>1. mem' \in Cache
    BY <1>4 DEF Compile, TypeOK, Cache, Entries
  <2>2. fresh' \in [Keys -> Artifact \cup {None}] /\ pendInfos' \subseteq BuildId
    BY <1>4, ProducedType, NewBuildsType DEF Compile
  <2>3. pendArts' \subseteq Keys /\ pc' = "writing"
    BY <1>4 DEF Compile
  <2> QED
    BY <1>4, <2>1, <2>2, <2>3 DEF Compile, TypeOK, disk, request
<1>5. CASE CompileInMemory
  BY <1>5, ProducedType DEF CompileInMemory, TypeOK, disk, request, checked
<1>6. CASE CompileErrors
  <2>1. PICK good \in SUBSET {u \in Units : UnitCompiles(u)} :
            output' = Outcome([k \in Keys |-> IF k[2] \in good THEN Produced[k] ELSE None], TRUE)
    BY <1>6 DEF CompileErrors
  <2> DEFINE new == [k \in Keys |-> IF k[2] \in good THEN Produced[k] ELSE None]
  <2>2. new \in [Keys -> Artifact \cup {None}]
    BY ProducedType
  <2>3. Outcome(new, TRUE) \in Outputs
    BY <2>2, OutcomeType
  <2>4. output' \in Outputs
    BY <2>1, <2>3
  <2> QED
    BY <1>6, <2>4 DEF CompileErrors, TypeOK, disk, request, checked, written
<1>7. ASSUME NEW k \in Keys, WriteArtifact(k) PROVE TypeOK'
  <2>1. art' \in [Keys -> Artifact \cup {None}] /\ pendArts' \subseteq Keys
    BY <1>7 DEF WriteArtifact, TypeOK
  <2> QED
    BY <1>7, <2>1 DEF WriteArtifact, TypeOK, request, checked
<1>8. ASSUME NEW b \in pendInfos, WriteBuildInfo(b) PROVE TypeOK'
  BY <1>8 DEF WriteBuildInfo, TypeOK, request, checked
<1>9. ASSUME NEW b \in infos, RemoveOutdatedBuild(b) PROVE TypeOK'
  BY <1>9 DEF RemoveOutdatedBuild, TypeOK, request, checked, written
<1>10. CASE WriteCache
  <2>1. Outcome(fresh, FALSE) \in Outputs
    BY OutcomeType DEF TypeOK
  <2> QED
    BY <1>10, <2>1, PrunedType DEF WriteCache, TypeOK, request, checked, written
<1>11. CASE ConsumeInMemory
  <2>1. Outcome(fresh, FALSE) \in Outputs
    BY OutcomeType DEF TypeOK
  <2> QED
    BY <1>11, <2>1 DEF ConsumeInMemory, TypeOK, disk, request, checked, written
<1>12. CASE Return
  BY <1>12, ForgetTypes DEF Return, TypeOK, disk
<1>13. CASE CompilerFails
  BY <1>13, ForgetTypes DEF CompilerFails, TypeOK, disk
<1>14. ASSUME NEW f \in Files, NEW c \in Contents \cup {None}, Edit(f, c) PROVE TypeOK'
  <2>1. src' \in Tree
    BY <1>14 DEF Edit, TypeOK, Tree
  <2> QED
    BY <1>14, <2>1 DEF Edit, TypeOK, request, checked, written
<1>15. ASSUME NEW p \in Profiles, NEW s \in Settings, ChangeSettings(p, s) PROVE TypeOK'
  BY <1>15 DEF ChangeSettings, TypeOK, request, checked, written
<1>16. ASSUME NEW k \in Keys, DeleteArtifact(k) PROVE TypeOK'
  BY <1>16 DEF DeleteArtifact, TypeOK, request, checked, written
<1>17. CASE Cleanup
  <2>1. NoArtifacts \in [Keys -> Artifact \cup {None}]
    BY DEF NoArtifacts
  <2> QED
    BY <1>17, <2>1 DEF Cleanup, TypeOK, request, checked, written
<1>18. CASE Crash
  <2>1. art' \in [Keys -> Artifact \cup {None}]
    BY <1>18 DEF Crash, TypeOK
  <2>2. infos' \subseteq BuildId /\ cutInfos' \subseteq infos'
    BY <1>18 DEF Crash, TypeOK
  <2>3. cacheFile' \in Cache \cup {None}
    BY <1>18 DEF Crash, TypeOK
  <2> QED
    BY <1>18, <2>1, <2>2, <2>3, ForgetTypes DEF Crash, TypeOK
<1>19. CASE UNCHANGED vars
  BY <1>19 DEF vars, TypeOK, disk, request, checked, written
<1> QED
  BY <1>1, <1>2, <1>3, <1>4, <1>5, <1>6, <1>7, <1>8, <1>9, <1>10, <1>11, <1>12, <1>13,
     <1>14, <1>15, <1>16, <1>17, <1>18, <1>19 DEF Next, Build, Advance, User

(* Every variable keeps its type, whatever the user does and wherever a build  *)
(* dies: cache entries, artifacts and build ids are never confused.            *)
THEOREM TypeCorrect == Spec => []TypeOK
<1>1. Init => TypeOK
  BY InitialTypes
<1>2. TypeOK /\ [Next]_vars => TypeOK'
  BY TypesPreserved
<1> QED
  BY <1>1, <1>2, PTL DEF Spec

-----------------------------------------------------------------------------
(* Soundness of the cache.  The entry of a file and its artifact agree on all  *)
(* the files the entry reaches through other entries; find_and_remove_dirty    *)
(* keeps an entry only when the sources agree as well, and filter completes    *)
(* the cache with entries of the sources that are being compiled.              *)

(* Where cache, artifact and sources meet: a clean entry agrees with the       *)
(* sources, the artifact agrees with the entry, and a stamp that agrees with   *)
(* the sources is theirs.                                                      *)
LEMMA AgreeingIsCurrent ==
    ASSUME TypeOK, NoFallback, NEW c \in Cache, NEW k \in Keys,
           Agrees(c, art), c.link[k] # None, art[k] # None,
           c.set[k[2][2]] = settings[k[2][2]], Clean(c, k[1])
    PROVE  art[k] = CompilerOutput(src, settings, k)
<1> DEFINE f == k[1]
<1>1. f \in Files /\ src \in Tree /\ c.hash \in Tree
  BY KeyParts DEF TypeOK, Cache, Tree
<1>2. /\ c.hash[f] # None
      /\ art[k].set = c.set[k[2][2]]
      /\ \A g \in Reach(c.hash, f) : c.hash[g] = art[k].src[g]
  BY DEF Agrees
<1>3. PICK s \in Tree : /\ Yields(s, f)
                        /\ \A g \in Reach(s, f) : ~Unresolved(s, g)
                        /\ art[k].src = Stamp(s, f)
  BY DEF Agrees, Genuine
<1>4. \A g \in Reach(src, f) : c.hash[g] = src[g] /\ ~Unresolved(src, g)
  BY DEF Clean
<1>5. src[f] # None
  BY <1>1, <1>2, <1>4, ReachSelf
<1>6. Reach(src, f) \subseteq Reach(c.hash, f)
  BY <1>1, <1>4, <1>5, ReachMonotone
<1>7. \A g \in Reach(src, f) : Stamp(s, f)[g] = src[g]
  BY <1>2, <1>3, <1>4, <1>6
<1>8. Stamp(s, f) = Stamp(src, f) /\ s[f] = src[f]
  BY <1>1, <1>4, <1>5, <1>7, StampUnique
<1>9. Yields(src, f)
  BY <1>3, <1>8 DEF Yields
<1>10. art[k] \in Artifact
  BY DEF TypeOK
<1>11. art[k] = [src |-> art[k].src, set |-> art[k].set]
  BY <1>10 DEF Artifact
<1> QED
  BY <1>2, <1>3, <1>8, <1>9, <1>11 DEF CompilerOutput, Compiled

(* What survives find_and_remove_dirty has the hash of the source on disk, and *)
(* so has everything it imports.                                               *)
LEMMA KeptIsUnchanged ==
    ASSUME TypeOK, NEW f \in Files, Kept.hash[f] # None
    PROVE  /\ f \in Entries(DropProfiles(Loaded))
           /\ Kept.hash[f] = DropProfiles(Loaded).hash[f]
           /\ f \notin DirtyFiles(DropProfiles(Loaded))
           /\ \A g \in Reach(src, f) : DropProfiles(Loaded).hash[g] = src[g]
           /\ Kept.hash[f] = src[f]
<1> DEFINE c == DropProfiles(Loaded)
           nodes == ReachAll(src, Entries(c))
           changed == {g \in nodes : c.hash[g] # src[g]}
<1>1. c \in Cache
  BY LoadedType, DropProfilesType
<1>2. Kept.hash = [g \in Files |-> IF g \in Files \ DirtyFiles(c) THEN c.hash[g] ELSE None]
  BY <1>1, OnlyType DEF Kept
<1>3. f \notin DirtyFiles(c) /\ Kept.hash[f] = c.hash[f]
  BY <1>2
<1>4. f \in Entries(c)
  BY <1>3 DEF Entries
<1>5. ~GraphFails(src, Entries(c))
  BY <1>3, <1>4 DEF DirtyFiles
<1>6. Reach(src, f) \subseteq nodes
  BY <1>4 DEF ReachAll
<1>7. f \in Reach(src, f)
  BY ReachSelf
<1>8. Reach(src, f) \cap changed = {}
  BY <1>3, <1>5, <1>6, <1>7 DEF DirtyFiles
<1>9. \A g \in Reach(src, f) : c.hash[g] = src[g]
  BY <1>6, <1>8
<1> QED
  BY <1>3, <1>4, <1>7, <1>9

(* What survives was loaded from the cache file, and nothing was wiped.        *)
LEMMA KeptWasCached ==
    ASSUME TypeOK, NEW k \in Keys, Kept.link[k] # None
    PROVE  /\ cacheFile \in Cache
           /\ cacheFile # None
           /\ ~Wipes
           /\ cacheFile.link[k] # None
           /\ Loaded = Only(cacheFile, Exists(src))
           /\ k[2][2] \notin DirtyProfiles(Loaded)
           /\ cacheFile.hash[k[1]] # None => Kept.hash[k[1]] # None
           /\ \A g \in Files : DropProfiles(Loaded).hash[g] # None
                                  => DropProfiles(Loaded).hash[g] = cacheFile.hash[g]
<1> DEFINE c == Loaded
           dp == DirtyProfiles(c)
           link == [l \in Keys |-> IF l[2][2] \in dp THEN None ELSE c.link[l]]
           keep == {f \in Files : Linked(c, f) # {} =>
                                    \E l \in Keys : l[1] = f /\ link[l] # None}
           d == [c EXCEPT !.link = link]
           dropped == DropProfiles(c)
<1>1. c \in Cache /\ dropped \in Cache
  BY LoadedType, DropProfilesType
<1>2. link \in [Keys -> BuildId \cup {None}] /\ d \in Cache
  BY <1>1 DEF Cache
<1>3. d.link = link /\ d.hash = c.hash
  BY <1>1 DEF Cache
<1>4. dropped = [Only(d, keep) EXCEPT !.set = settings]
  BY DEF DropProfiles
<1>5. Only(d, keep) \in Cache
  BY <1>2, OnlyType
<1>6. dropped.link = Only(d, keep).link /\ dropped.hash = Only(d, keep).hash
  BY <1>4, <1>5 DEF Cache
<1>7. /\ dropped.link = [l \in Keys |-> IF l[1] \in keep THEN link[l] ELSE None]
      /\ dropped.hash = [f \in Files |-> IF f \in keep THEN c.hash[f] ELSE None]
  <2>1. /\ Only(d, keep).link = [l \in Keys |-> IF l[1] \in keep THEN d.link[l] ELSE None]
        /\ Only(d, keep).hash = [f \in Files |-> IF f \in keep THEN d.hash[f] ELSE None]
    BY <1>2, OnlyType
  <2> HIDE DEF d, keep, link, dropped
  <2> QED
    BY <1>3, <1>6, <2>1
<1>8. /\ Kept.link = [l \in Keys |-> IF l[1] \in Files \ DirtyFiles(dropped)
                                     THEN dropped.link[l] ELSE None]
      /\ Kept.hash = [f \in Files |-> IF f \in Files \ DirtyFiles(dropped)
                                      THEN dropped.hash[f] ELSE None]
  BY <1>1, OnlyType DEF Kept
<1>9. k[1] \in Files /\ k[1] \notin DirtyFiles(dropped) /\ k[1] \in keep /\ link[k] # None
  BY <1>7, <1>8, KeyParts
<1>10. k[2][2] \notin dp /\ c.link[k] # None
  BY <1>9
<1>11. Usable /\ Intact /\ Loaded = Only(cacheFile, Exists(src))
  BY <1>10 DEF Loaded, EmptyCache
<1>12. cacheFile \in Cache /\ cacheFile # None /\ ~Wipes
  BY <1>11 DEF Usable, Wipes, TypeOK
<1>13. /\ c.link = [l \in Keys |-> IF l[1] \in Exists(src) THEN cacheFile.link[l] ELSE None]
       /\ c.hash = [f \in Files |-> IF f \in Exists(src) THEN cacheFile.hash[f] ELSE None]
  BY <1>11, <1>12, OnlyType
<1>14. cacheFile.link[k] # None /\ k[1] \in Exists(src)
  BY <1>10, <1>13
<1>15. cacheFile.hash[k[1]] # None => Kept.hash[k[1]] # None
  BY <1>7, <1>8, <1>9, <1>13, <1>14
<1>16. \A g \in Files : dropped.hash[g] # None => dropped.hash[g] = cacheFile.hash[g]
  BY <1>7, <1>13
<1> QED
  BY <1>10, <1>11, <1>12, <1>14, <1>15, <1>16

(* The cache in memory lists the profiles under the settings of the build.     *)
LEMMA KeptSettings ==
    ASSUME TypeOK
    PROVE  Kept.set = settings
<1> DEFINE c == DropProfiles(Loaded)
           link == [k \in Keys |-> IF k[2][2] \in DirtyProfiles(Loaded) THEN None
                                   ELSE Loaded.link[k]]
           d == [Loaded EXCEPT !.link = link]
           keep == {f \in Files : Linked(Loaded, f) # {} =>
                                    \E k \in Keys : k[1] = f /\ link[k] # None}
<1>1. c \in Cache /\ Loaded \in Cache
  BY LoadedType, DropProfilesType
<1>2. Kept.set = c.set
  BY <1>1, OnlyType DEF Kept
<1>3. c = [Only(d, keep) EXCEPT !.set = settings]
  BY DEF DropProfiles
<1>4. link \in [Keys -> BuildId \cup {None}]
  BY <1>1 DEF Cache
<1>5. d \in Cache
  BY <1>1, <1>4 DEF Cache
<1>6. Only(d, keep) \in Cache
  BY <1>5, OnlyType
<1> HIDE DEF d, keep, link
<1>7. c.set = settings
  BY <1>3, <1>6 DEF Cache
<1> QED
  BY <1>2, <1>7

LEMMA WithEntriesParts ==
    ASSUME NEW c \in Cache, NEW j, NEW s \in Tree
    PROVE  /\ WithEntries(c, j, s).hash = [f \in Files |->
                  IF c.hash[f] = None /\ f \in AllFiles(j) THEN s[f] ELSE c.hash[f]]
           /\ WithEntries(c, j, s).link = c.link
           /\ WithEntries(c, j, s).set = c.set
  BY DEF WithEntries, Cache

(* What preprocess keeps still agrees with the artifacts on disk: the hash of  *)
(* an entry and of all it imports is that of the sources and of the cache file.*)
LEMMA KeptAgrees ==
    ASSUME TypeOK, NoFallback, RecordedTogether, pc = "resolved",
           NEW k \in Keys, Kept.link[k] # None, art[k] # None,
           NEW hash \in Tree,
           \A f \in Files : hash[f] \in {None, src[f]},
           \A f \in Files : Kept.hash[f] # None => hash[f] = Kept.hash[f]
    PROVE  /\ hash[k[1]] # None
           /\ art[k].set = settings[k[2][2]]
           /\ \A g \in Reach(hash, k[1]) : hash[g] = art[k].src[g]
           /\ Genuine(art[k], k[1])
<1> DEFINE f == k[1]
           dropped == DropProfiles(Loaded)
<1>1. f \in Files /\ k[2][2] \in Profiles /\ src \in Tree
  BY KeyParts DEF TypeOK
<1>2. /\ cacheFile \in Cache /\ cacheFile # None
      /\ cacheFile.link[k] # None
      /\ Loaded = Only(cacheFile, Exists(src))
      /\ k[2][2] \notin DirtyProfiles(Loaded)
      /\ cacheFile.hash[f] # None => Kept.hash[f] # None
      /\ \A g \in Files : dropped.hash[g] # None => dropped.hash[g] = cacheFile.hash[g]
  BY KeptWasCached
<1>3. Agrees(cacheFile, art)
  BY <1>2 DEF RecordedTogether, DiskAgrees
<1>4. /\ cacheFile.hash[f] # None
      /\ art[k].set = cacheFile.set[k[2][2]]
      /\ \A g \in Reach(cacheFile.hash, f) : cacheFile.hash[g] = art[k].src[g]
      /\ Genuine(art[k], f)
  BY <1>2, <1>3 DEF Agrees
<1>5. Kept.hash[f] # None
  BY <1>2, <1>4
<1>6. /\ \A g \in Reach(src, f) : dropped.hash[g] = src[g]
      /\ Kept.hash[f] = src[f]
  BY <1>1, <1>5, KeptIsUnchanged
<1>7. hash[f] = src[f] /\ src[f] # None
  BY <1>1, <1>5, <1>6
<1>8. Reach(src, f) \subseteq Exists(src)
  BY <1>1, <1>7, ReachExists
<1>9. \A g \in Reach(src, f) : cacheFile.hash[g] = src[g]
  BY <1>2, <1>6, <1>8 DEF Exists
<1>10. cacheFile.hash \in Tree
  BY <1>2 DEF Cache, Tree
<1>11. Reach(src, f) \subseteq Reach(cacheFile.hash, f)
  BY <1>1, <1>7, <1>9, <1>10, ReachMonotone
<1>12. \A g \in Reach(src, f) : art[k].src[g] = src[g]
  BY <1>4, <1>9, <1>11
<1>13. /\ Reach(hash, f) \subseteq Reach(src, f)
       /\ \A g \in Reach(hash, f) : hash[g] = src[g]
  BY <1>1, <1>7, ReachSubtree
<1>14. art[k].set = settings[k[2][2]]
  <2>1. Loaded.set = cacheFile.set
    BY <1>2, OnlyType
  <2>2. cacheFile.set[k[2][2]] \in {None, settings[k[2][2]]}
    BY <1>1, <1>2, <2>1 DEF DirtyProfiles
  <2>3. art[k].set # None
    BY NoneIsNothing DEF TypeOK, Artifact
  <2> QED
    BY <1>4, <2>2, <2>3
<1> QED
  BY <1>4, <1>7, <1>12, <1>13, <1>14

LEMMA PreprocessRecords ==
    ASSUME TypeOK, NoFallback, RecordedTogether, Preprocess
    PROVE  RecordedTogether'
<1>1. pc = "resolved" /\ snap = src /\ AllFiles(job) \subseteq Exists(snap)
  BY DEF Preprocess, RecordedTogether, ReadsAgree
<1>2. /\ mem' = WithEntries(Kept, job, snap)
      /\ todo' = ToCompile(Kept, ReadArtifacts(Loaded, DiskArtifacts), job)
      /\ art' = DiskArtifacts
      /\ pc' = "compiling"
      /\ UNCHANGED <<src, cacheFile, settings, cached, job, snap>>
  BY DEF Preprocess, request
<1>3. Kept \in Cache /\ snap \in Tree /\ src \in Tree /\ mem' \in Cache
  BY <1>2, KeptType, WithEntriesType DEF TypeOK
<1>4. /\ mem'.hash = [f \in Files |-> IF Kept.hash[f] = None /\ f \in AllFiles(job)
                                      THEN snap[f] ELSE Kept.hash[f]]
      /\ mem'.link = Kept.link
      /\ mem'.set = settings
  BY <1>2, <1>3, WithEntriesParts, KeptSettings
<1>5. \A f \in Files : mem'.hash[f] \in {None, src[f]}
  BY <1>1, <1>4, KeptIsUnchanged
<1>6. \A u \in Units : todo'[u] \subseteq Entries(mem')
  <2> SUFFICES ASSUME NEW u \in Units, NEW f \in todo'[u] PROVE f \in Entries(mem')
    OBVIOUS
  <2>1. f \in job[u] /\ f \in Files
    BY <1>2 DEF ToCompile, TypeOK
  <2>2. f \in AllFiles(job) /\ snap[f] # None
    BY <1>1, <2>1 DEF AllFiles, Exists
  <2> QED
    BY <1>4, <2>1, <2>2 DEF Entries
<1>7. Agrees(mem', art')
  <2> SUFFICES ASSUME NEW k \in Keys, mem'.link[k] # None, art'[k] # None
               PROVE  /\ mem'.hash[k[1]] # None
                      /\ art'[k].set = mem'.set[k[2][2]]
                      /\ \A g \in Reach(mem'.hash, k[1]) : mem'.hash[g] = art'[k].src[g]
                      /\ Genuine(art'[k], k[1])
    BY DEF Agrees
  <2>1. Kept.link[k] # None
    BY <1>4
  <2>2. art' = art
    BY <1>2, <2>1, KeptWasCached DEF DiskArtifacts
  <2>3. mem'.hash \in Tree
    BY <1>3 DEF Cache, Tree
  <2>4. \A f \in Files : Kept.hash[f] # None => mem'.hash[f] = Kept.hash[f]
    BY <1>4
  <2>5. /\ mem'.hash[k[1]] # None
        /\ art[k].set = settings[k[2][2]]
        /\ \A g \in Reach(mem'.hash, k[1]) : mem'.hash[g] = art[k].src[g]
        /\ Genuine(art[k], k[1])
    BY <1>1, <1>5, <2>1, <2>2, <2>3, <2>4, KeptAgrees
  <2> QED
    BY <1>4, <2>2, <2>5
<1>8. MemoryAgrees'
  BY <1>1, <1>2, <1>4, <1>5, <1>6, <1>7 DEF MemoryAgrees
<1>9. DiskAgrees'
  <2>1. art' = art \/ art' = NoArtifacts
    BY <1>2 DEF DiskArtifacts
  <2>2. cacheFile # None => Agrees(cacheFile, art)
    BY <1>1 DEF RecordedTogether, DiskAgrees
  <2>3. cacheFile # None => Agrees(cacheFile, NoArtifacts)
    BY DEF Agrees, NoArtifacts
  <2> QED
    BY <1>2, <2>1, <2>2, <2>3 DEF DiskAgrees
<1> QED
  BY <1>2, <1>8, <1>9 DEF RecordedTogether, ReadsAgree, UpcomingAgrees

(* An artifact just compiled agrees with the entry hashed from the same read.  *)
LEMMA ProducedAgrees ==
    ASSUME TypeOK, NoFallback, RecordedTogether, pc = "compiling", Compilable,
           NEW k \in Keys, Produced[k] # None
    PROVE  /\ mem.hash[k[1]] # None
           /\ Produced[k].set = mem.set[k[2][2]]
           /\ \A g \in Reach(mem.hash, k[1]) : mem.hash[g] = Produced[k].src[g]
           /\ Genuine(Produced[k], k[1])
<1> DEFINE f == k[1]
<1>1. f \in Files /\ k[2] \in Units /\ snap \in Tree
  BY KeyParts DEF TypeOK
<1>2. f \in todo[k[2]] /\ Produced[k] = CompilerOutput(snap, settings, k)
  BY DEF Produced
<1>3. /\ Yields(snap, f)
      /\ Produced[k].src = Stamp(snap, f)
      /\ Produced[k].set = settings[k[2][2]]
  BY <1>2 DEF CompilerOutput, Compiled
<1>4. /\ mem.set = settings
      /\ \A g \in Files : mem.hash[g] \in {None, snap[g]}
      /\ f \in Entries(mem)
  BY <1>1, <1>2 DEF RecordedTogether, MemoryAgrees
<1>5. mem.hash \in Tree /\ mem.hash[f] # None
  BY <1>4 DEF TypeOK, Cache, Tree, Entries
<1>6. /\ Reach(mem.hash, f) \subseteq Reach(snap, f)
      /\ \A g \in Reach(mem.hash, f) : mem.hash[g] = snap[g]
  BY <1>1, <1>4, <1>5, ReachSubtree
<1>7. \A g \in Reach(mem.hash, f) : mem.hash[g] = Produced[k].src[g]
  <2> TAKE g \in Reach(mem.hash, f)
  <2>1. g \in Files /\ g \in Reach(snap, f)
    BY <1>6 DEF Reach
  <2> QED
    BY <1>3, <1>6, <2>1 DEF Stamp
<1>8. \A g \in Reach(snap, f) : ~Unresolved(snap, g)
  BY <1>1, <1>2 DEF Compilable, UnitCompiles
<1> QED
  BY <1>1, <1>3, <1>4, <1>5, <1>7, <1>8 DEF Genuine

(* Artifacts that disappear leave what remains in agreement.                   *)
LEMMA FewerAgree ==
    ASSUME NEW c, NEW a, NEW b, Agrees(c, a),
           \A k \in Keys : b[k] \in {None, a[k]}
    PROVE  Agrees(c, b)
  BY DEF Agrees

(* Agreement looks at nothing of a cache but hashes, links and settings.       *)
LEMMA SameAgree ==
    ASSUME NEW c, NEW d, NEW a, Agrees(c, a),
           d.hash = c.hash, d.link = c.link, d.set = c.set
    PROVE  Agrees(d, a)
  BY DEF Agrees

LEMMA CompileRecords ==
    ASSUME TypeOK, TypeOK', NoFallback, RecordedTogether, Compile
    PROVE  RecordedTogether'
<1>1. /\ pc = "compiling" /\ pc' = "writing" /\ Compilable
      /\ fresh' = Produced
      /\ pendArts' = {k \in Keys : Produced[k] # None}
      /\ mem' = [mem EXCEPT !.seen = mem.seen \cup (AllFiles(todo) \cap Entries(mem))]
      /\ UNCHANGED <<art, settings, cached>>
  BY DEF Compile, disk, request
<1>2. mem \in Cache /\ mem' \in Cache
  BY DEF TypeOK
<1>3. mem'.hash = mem.hash /\ mem'.link = mem.link /\ mem'.set = mem.set
  BY <1>1, <1>2 DEF Cache
<1>4. /\ Merged'.hash = mem.hash
      /\ Merged'.set = mem.set
      /\ \A k \in Keys : Merged'.link[k] # None => Produced[k] # None \/ mem.link[k] # None
  <2> DEFINE link == [k \in Keys |-> IF fresh[k] # None /\ k[1] \in Entries(mem)
                                     THEN BuildOf(k[2]) ELSE mem.link[k]]
             builds == mem.builds \cup NewBuilds
  <2>1. Merged' = [mem' EXCEPT !.link = link', !.builds = builds']
    BY DEF Merged
  <2>2. \A k \in Keys : link'[k] # None => Produced[k] # None \/ mem.link[k] # None
    BY <1>1, <1>3
  <2> HIDE DEF link, builds
  <2> QED
    BY <1>2, <1>3, <2>1, <2>2 DEF Cache
<1>5. \A k \in Keys : Upcoming'[k] = IF Produced[k] # None THEN Produced[k] ELSE art[k]
  BY <1>1 DEF Upcoming
<1>6. Agrees(mem, art)
  BY <1>1 DEF RecordedTogether, MemoryAgrees
<1>7. Agrees(Merged', Upcoming')
  <2> SUFFICES ASSUME NEW k \in Keys, Merged'.link[k] # None, Upcoming'[k] # None
               PROVE  /\ mem.hash[k[1]] # None
                      /\ Upcoming'[k].set = mem.set[k[2][2]]
                      /\ \A g \in Reach(mem.hash, k[1]) : mem.hash[g] = Upcoming'[k].src[g]
                      /\ Genuine(Upcoming'[k], k[1])
    BY <1>4 DEF Agrees
  <2>1. CASE Produced[k] # None
    <3>1. Upcoming'[k] = Produced[k]
      BY <1>5, <2>1
    <3> QED
      BY <1>1, <2>1, <3>1, ProducedAgrees
  <2>2. CASE Produced[k] = None
    <3>1. Upcoming'[k] = art[k] /\ mem.link[k] # None
      BY <1>4, <1>5, <2>2
    <3> QED
      BY <1>6, <3>1 DEF Agrees
  <2> QED
    BY <2>1, <2>2
<1>8. UpcomingAgrees'
  BY <1>7 DEF UpcomingAgrees
<1> QED
  BY <1>1, <1>8 DEF RecordedTogether, DiskAgrees, ReadsAgree, MemoryAgrees

(* A step of a build that is writing keeps the promise when it leaves the      *)
(* cache in memory alone and no artifact but the one it stands for changes.    *)
LEMMA WritingRecords ==
    ASSUME RecordedTogether, pc = "writing", pc' = "writing", cached' = cached,
           UNCHANGED <<mem, fresh, job, todo, snap, settings>>,
           \A k \in Keys : Upcoming'[k] \in {None, Upcoming[k]}
    PROVE  RecordedTogether'
<1>1. Merged' = Merged
  BY DEF Merged, NewBuilds, BuildOf
<1>2. Agrees(Merged, Upcoming)
  BY DEF RecordedTogether, UpcomingAgrees
<1>3. Agrees(Merged, Upcoming')
  BY <1>2, FewerAgree
<1>4. Agrees(Merged, Upcoming)'
  BY <1>1, <1>3
<1> QED
  BY <1>4 DEF RecordedTogether, DiskAgrees, ReadsAgree, MemoryAgrees, UpcomingAgrees

LEMMA WriteCacheRecords ==
    ASSUME TypeOK, RecordedTogether, WriteCache
    PROVE  RecordedTogether'
<1>1. /\ pc = "writing" /\ pendArts = {} /\ pc' = "returned"
      /\ cacheFile' = Pruned /\ art' = art /\ cached' = cached
  BY DEF WriteCache, WritingDone, request
<1>2. Agrees(Merged, Upcoming)
  BY <1>1 DEF RecordedTogether, UpcomingAgrees
<1>3. \A k \in Keys : art[k] \in {None, Upcoming[k]}
  BY <1>1 DEF Upcoming
<1>4. Agrees(Merged, art)
  BY <1>2, <1>3, FewerAgree
<1>5. Agrees(Pruned, art)
  BY <1>4, PrunedType, SameAgree
<1> QED
  BY <1>1, <1>5 DEF RecordedTogether, DiskAgrees, ReadsAgree, MemoryAgrees, UpcomingAgrees

LEMMA DeleteRecords ==
    ASSUME TypeOK, RecordedTogether, NEW k \in Keys, DeleteArtifact(k)
    PROVE  RecordedTogether'
<1>1. /\ \A l \in Keys : art'[l] \in {None, art[l]}
      /\ UNCHANGED <<src, cacheFile, settings, pc, cached, job, snap, mem, todo,
                     fresh, pendArts>>
  BY DEF DeleteArtifact, TypeOK, request, checked, written
<1>2. CASE pc = "writing"
  <2>1. \A l \in Keys : Upcoming'[l] \in {None, Upcoming[l]}
    BY <1>1 DEF Upcoming
  <2> QED
    BY <1>1, <1>2, <2>1, WritingRecords
<1>3. CASE pc # "writing"
  <2>1. cacheFile # None => Agrees(cacheFile, art')
    BY <1>1, <1>3, FewerAgree DEF RecordedTogether, DiskAgrees
  <2>2. pc = "compiling" => Agrees(mem, art')
    BY <1>1, FewerAgree DEF RecordedTogether, MemoryAgrees
  <2>3. DiskAgrees'
    BY <1>1, <2>1 DEF DiskAgrees
  <2>4. MemoryAgrees'
    BY <1>1, <2>2 DEF RecordedTogether, MemoryAgrees, Entries
  <2> QED
    BY <1>1, <1>3, <2>3, <2>4 DEF RecordedTogether, ReadsAgree, UpcomingAgrees
<1> QED
  BY <1>2, <1>3

LEMMA InitialRecords ==
    ASSUME Init
    PROVE  RecordedTogether
  BY DEF Init, RecordedTogether, DiskAgrees, ReadsAgree, MemoryAgrees, UpcomingAgrees

(* A step that leaves the disk alone and ends outside of a build's middle.     *)
LEMMA EndRecords ==
    ASSUME RecordedTogether, pc # "writing", cached',
           pc' \in {"idle", "consuming", "returned"},
           UNCHANGED <<art, cacheFile>>
    PROVE  RecordedTogether'
  BY DEF RecordedTogether, DiskAgrees, ReadsAgree, MemoryAgrees, UpcomingAgrees

LEMMA RecordsPreserved ==
    ASSUME Undisturbed, NoFallback, TypeOK, TypeOK', RecordedTogether, [Next]_vars
    PROVE  RecordedTogether'
<1>0. ~MayRace /\ ~MayCrash /\ CacheModes = {TRUE}
  BY DEF Undisturbed, CacheModes
<1>1. ASSUME NEW roots \in [Units -> SUBSET Files], NEW m \in CacheModes, WithSources(roots, m)
      PROVE  RecordedTogether'
  <2>1. /\ pc = "idle" /\ pc' = "resolved" /\ cached' = TRUE
        /\ UNION {roots[u] : u \in Units} \subseteq Exists(src)
        /\ job' = [u \in Units |-> ReachAll(src, roots[u])]
        /\ snap' = src
        /\ UNCHANGED <<src, art, cacheFile>>
    BY <1>0, <1>1 DEF WithSources, disk
  <2>2. \A u \in Units : job'[u] \subseteq Exists(src)
    <3> SUFFICES ASSUME NEW u \in Units, NEW f \in roots[u]
                 PROVE  Reach(src, f) \subseteq Exists(src)
      BY <2>1 DEF ReachAll
    <3>1. f \in Files /\ src[f] # None
      BY <2>1 DEF Exists
    <3> QED
      BY <3>1, ReachExists
  <2>3. AllFiles(job') \subseteq Exists(src)
    BY <2>2 DEF AllFiles
  <2>4. ReadsAgree'
    BY <2>1, <2>3 DEF ReadsAgree
  <2> QED
    BY <2>1, <2>4 DEF RecordedTogether, DiskAgrees, MemoryAgrees, UpcomingAgrees
<1>2. CASE Preprocess
  BY <1>2, PreprocessRecords
<1>3. CASE PreprocessEphemeral
  BY <1>3 DEF PreprocessEphemeral, RecordedTogether
<1>4. CASE Compile
  BY <1>4, CompileRecords
<1>5. CASE CompileInMemory
  BY <1>5, EndRecords DEF CompileInMemory, RecordedTogether, disk, request
<1>6. CASE CompileErrors
  BY <1>6, EndRecords DEF CompileErrors, RecordedTogether, disk, request
<1>7. ASSUME NEW k \in Keys, WriteArtifact(k) PROVE RecordedTogether'
  <2>1. \A l \in Keys : Upcoming'[l] = Upcoming[l]
    BY <1>7 DEF WriteArtifact, Upcoming, TypeOK
  <2> QED
    BY <1>7, <2>1, WritingRecords DEF WriteArtifact, request, checked
<1>8. ASSUME NEW b \in pendInfos, WriteBuildInfo(b) PROVE RecordedTogether'
  <2>1. \A l \in Keys : Upcoming'[l] = Upcoming[l]
    BY <1>8 DEF WriteBuildInfo, Upcoming
  <2> QED
    BY <1>8, <2>1, WritingRecords DEF WriteBuildInfo, request, checked
<1>9. ASSUME NEW b \in infos, RemoveOutdatedBuild(b) PROVE RecordedTogether'
  <2>1. \A l \in Keys : Upcoming'[l] = Upcoming[l]
    BY <1>9 DEF RemoveOutdatedBuild, Upcoming, written
  <2> QED
    BY <1>9, <2>1, WritingRecords
       DEF RemoveOutdatedBuild, WritingDone, request, checked, written
<1>10. CASE WriteCache
  BY <1>10, WriteCacheRecords
<1>11. CASE ConsumeInMemory
  <2>1. pc = "consuming" /\ cached' /\ pc' = "returned" /\ UNCHANGED <<art, cacheFile>>
    BY <1>11 DEF ConsumeInMemory, RecordedTogether, disk, request
  <2> QED
    BY <2>1, EndRecords
<1>12. CASE Return
  BY <1>12, EndRecords DEF Return, Forget, disk
<1>13. CASE CompilerFails
  BY <1>13, EndRecords DEF CompilerFails, Forget, disk
<1>14. ASSUME NEW f \in Files, NEW c \in Contents \cup {None}, Edit(f, c)
       PROVE  RecordedTogether'
  <2>1. /\ pc # "resolved"
        /\ UNCHANGED <<art, cacheFile, settings, pc, cached, job, snap, mem, todo,
                       fresh, pendArts>>
    BY <1>0, <1>14 DEF Edit, request, checked, written
  <2>2. CASE pc = "writing"
    <3>1. \A l \in Keys : Upcoming'[l] = Upcoming[l]
      BY <2>1 DEF Upcoming
    <3> QED
      BY <2>1, <2>2, <3>1, WritingRecords
  <2>3. CASE pc # "writing"
    BY <2>1, <2>3 DEF RecordedTogether, DiskAgrees, ReadsAgree, MemoryAgrees,
                      UpcomingAgrees, Entries
  <2> QED
    BY <2>2, <2>3
<1>15. ASSUME NEW p \in Profiles, NEW s \in Settings, ChangeSettings(p, s)
       PROVE  RecordedTogether'
  BY <1>15, EndRecords DEF ChangeSettings, RecordedTogether, request
<1>16. ASSUME NEW k \in Keys, DeleteArtifact(k) PROVE RecordedTogether'
  BY <1>16, DeleteRecords
<1>17. CASE Cleanup
  BY <1>17 DEF Cleanup, RecordedTogether, DiskAgrees, ReadsAgree, MemoryAgrees,
               UpcomingAgrees, request
<1>18. CASE Crash
  BY <1>0, <1>18 DEF Crash
<1>19. CASE UNCHANGED vars
  <2>1. UNCHANGED <<src, art, cacheFile, settings, pc, cached, job, snap, mem, todo,
                    fresh, pendArts>>
    BY <1>19 DEF vars, disk, request, checked, written
  <2>2. CASE pc = "writing"
    <3>1. \A l \in Keys : Upcoming'[l] = Upcoming[l]
      BY <2>1 DEF Upcoming
    <3> QED
      BY <2>1, <2>2, <3>1, WritingRecords
  <2>3. CASE pc # "writing"
    BY <2>1, <2>3 DEF RecordedTogether, DiskAgrees, ReadsAgree, MemoryAgrees,
                      UpcomingAgrees, Entries
  <2> QED
    BY <2>2, <2>3
<1> QED
  BY <1>1, <1>2, <1>3, <1>4, <1>5, <1>6, <1>7, <1>8, <1>9, <1>10, <1>11, <1>12, <1>13,
     <1>14, <1>15, <1>16, <1>17, <1>18, <1>19 DEF Next, Build, Advance, User

(* Cache entries and artifacts are recorded together.  Builds run to their end *)
(* one at a time, with the cache, no source changes between the two reads of a *)
(* build, and no import falls back to another file than the one it names; the  *)
(* user may edit, create, delete and revert sources, change settings, delete   *)
(* artifacts and clean up at any other moment, in a build or between builds.   *)
THEOREM RecordsAreSound ==
    ASSUME Undisturbed, NoFallback
    PROVE  Spec => []RecordedTogether
<1>1. Init => TypeOK /\ RecordedTogether
  BY InitialTypes, InitialRecords
<1>2. TypeOK /\ RecordedTogether /\ [Next]_vars => TypeOK' /\ RecordedTogether'
  BY TypesPreserved, RecordsPreserved
<1> QED
  BY <1>1, <1>2, PTL DEF Spec

(* The promise of the cache, for every project: under the same assumptions, an *)
(* artifact whose file and imports all match their cache entries is the one    *)
(* the compiler would produce from the sources as they are.                    *)
THEOREM CacheIsSound ==
    ASSUME Undisturbed, NoFallback
    PROVE  Spec => []CleanIsCurrent
<1>1. TypeOK /\ RecordedTogether => CleanIsCurrent
  <2> SUFFICES ASSUME TypeOK, RecordedTogether, pc = "idle", cacheFile # None,
                      NEW k \in Keys, cacheFile.link[k] # None, art[k] # None,
                      cacheFile.set[k[2][2]] = settings[k[2][2]], Clean(cacheFile, k[1])
               PROVE  art[k] = CompilerOutput(src, settings, k)
    BY DEF CleanIsCurrent
  <2>1. cacheFile \in Cache /\ Agrees(cacheFile, art)
    BY DEF TypeOK, RecordedTogether, DiskAgrees
  <2> QED
    BY <2>1, AgreeingIsCurrent
<1> QED
  BY <1>1, TypeCorrect, RecordsAreSound, PTL

-----------------------------------------------------------------------------
(* The operators of preprocess, field by field.                                *)

(* The entries that survive a change of settings. *)
Surviving(c) ==
    {f \in Files : Linked(c, f) # {} =>
        \E k \in Keys : k[1] = f /\ k[2][2] \notin DirtyProfiles(c) /\ c.link[k] # None}

LEMMA DropProfilesParts ==
    ASSUME TypeOK, NEW c \in Cache
    PROVE  /\ DropProfiles(c).hash =
                  [f \in Files |-> IF f \in Surviving(c) THEN c.hash[f] ELSE None]
           /\ DropProfiles(c).link =
                  [k \in Keys |-> IF k[1] \in Surviving(c) /\ k[2][2] \notin DirtyProfiles(c)
                                  THEN c.link[k] ELSE None]
           /\ DropProfiles(c).seen = c.seen \cap Surviving(c)
           /\ DropProfiles(c).builds = c.builds
           /\ DropProfiles(c).set = settings
<1> DEFINE link == [k \in Keys |-> IF k[2][2] \in DirtyProfiles(c) THEN None ELSE c.link[k]]
           d == [c EXCEPT !.link = link]
           keep == {f \in Files : Linked(c, f) # {} =>
                                    \E k \in Keys : k[1] = f /\ link[k] # None}
<1>1. link \in [Keys -> BuildId \cup {None}]
  BY DEF Cache
<1>2. d \in Cache
  BY <1>1 DEF Cache
<1>3. d.hash = c.hash /\ d.link = link /\ d.seen = c.seen /\ d.builds = c.builds
  BY <1>1 DEF Cache
<1>4. keep = Surviving(c)
  <2>1. \A f \in Files : (\E k \in Keys : k[1] = f /\ link[k] # None)
            <=> \E k \in Keys : k[1] = f /\ k[2][2] \notin DirtyProfiles(c) /\ c.link[k] # None
    OBVIOUS
  <2> QED
    BY <2>1 DEF Surviving
<1>5. DropProfiles(c) = [Only(d, keep) EXCEPT !.set = settings]
  BY DEF DropProfiles
<1>6. settings \in [Profiles -> Settings \cup {None}]
  BY DEF TypeOK
<1>7. link = [k \in Keys |-> IF k[2][2] \notin DirtyProfiles(c) THEN c.link[k] ELSE None]
  OBVIOUS
<1> HIDE DEF link, d, keep
<1>8. /\ Only(d, keep) \in Cache
      /\ Only(d, keep).hash = [f \in Files |-> IF f \in keep THEN c.hash[f] ELSE None]
      /\ Only(d, keep).seen = c.seen \cap keep
      /\ Only(d, keep).link = [k \in Keys |-> IF k[1] \in keep THEN link[k] ELSE None]
      /\ Only(d, keep).builds = c.builds
  BY <1>2, <1>3, OnlyType
<1>9. /\ DropProfiles(c).hash = Only(d, keep).hash
      /\ DropProfiles(c).seen = Only(d, keep).seen
      /\ DropProfiles(c).link = Only(d, keep).link
      /\ DropProfiles(c).builds = Only(d, keep).builds
      /\ DropProfiles(c).set = settings
  BY <1>5, <1>6, <1>8 DEF Cache
<1>10. DropProfiles(c).link = [k \in Keys |->
           IF k[1] \in keep /\ k[2][2] \notin DirtyProfiles(c) THEN c.link[k] ELSE None]
  BY <1>7, <1>8, <1>9
<1> QED
  BY <1>4, <1>8, <1>9, <1>10

(* What preprocess loads: the cache file without the files that are gone. *)
LEMMA LoadedParts ==
    ASSUME TypeOK
    PROVE  /\ Usable /\ Intact =>
                 /\ cacheFile \in Cache /\ cacheFile # None /\ ~Wipes
                 /\ \A f \in Files : Loaded.hash[f] = IF src[f] # None THEN cacheFile.hash[f]
                                                      ELSE None
                 /\ \A k \in Keys : Loaded.link[k] = IF src[k[1]] # None THEN cacheFile.link[k]
                                                     ELSE None
                 /\ Loaded.seen = cacheFile.seen \cap Exists(src)
                 /\ Loaded.builds = cacheFile.builds
                 /\ Loaded.set = cacheFile.set
           /\ ~(Usable /\ Intact) =>
                 /\ \A f \in Files : Loaded.hash[f] = None
                 /\ \A k \in Keys : Loaded.link[k] = None
                 /\ Loaded.seen = {}
                 /\ Loaded.builds = {}
<1>1. CASE Usable /\ Intact
  <2>1. cacheFile \in Cache /\ cacheFile # None /\ ~Wipes
    BY <1>1 DEF Usable, Wipes, TypeOK
  <2>2. Loaded = Only(cacheFile, Exists(src))
    BY <1>1 DEF Loaded
  <2>3. \A f \in Files : f \in Exists(src) <=> src[f] # None
    BY DEF Exists
  <2>4. \A k \in Keys : k[1] \in Exists(src) <=> src[k[1]] # None
    BY <2>3, KeyParts
  <2>5. /\ Loaded.hash = [f \in Files |-> IF f \in Exists(src) THEN cacheFile.hash[f] ELSE None]
        /\ Loaded.link = [k \in Keys |-> IF k[1] \in Exists(src) THEN cacheFile.link[k] ELSE None]
        /\ Loaded.seen = cacheFile.seen \cap Exists(src)
        /\ Loaded.builds = cacheFile.builds
        /\ Loaded.set = cacheFile.set
    BY <2>1, <2>2, OnlyType
  <2>6. \A f \in Files : Loaded.hash[f] = IF src[f] # None THEN cacheFile.hash[f] ELSE None
    BY <2>3, <2>5
  <2>7. \A k \in Keys : Loaded.link[k] = IF src[k[1]] # None THEN cacheFile.link[k] ELSE None
    BY <2>4, <2>5
  <2> QED
    BY <1>1, <2>1, <2>5, <2>6, <2>7
<1>2. CASE ~(Usable /\ Intact)
  <2>1. Loaded = EmptyCache
    BY <1>2 DEF Loaded
  <2> QED
    BY <1>2, <2>1 DEF EmptyCache
<1> QED
  BY <1>1, <1>2

(* What preprocess keeps of it. *)
LEMMA KeptParts ==
    ASSUME TypeOK
    PROVE  /\ \A f \in Files : Kept.hash[f] =
                  IF f \in Surviving(Loaded) /\ f \notin DirtyFiles(DropProfiles(Loaded))
                  THEN Loaded.hash[f] ELSE None
           /\ \A k \in Keys : Kept.link[k] =
                  IF /\ k[1] \in Surviving(Loaded) /\ k[2][2] \notin DirtyProfiles(Loaded)
                     /\ k[1] \notin DirtyFiles(DropProfiles(Loaded))
                  THEN Loaded.link[k] ELSE None
           /\ Kept.seen = (Loaded.seen \cap Surviving(Loaded))
                              \ DirtyFiles(DropProfiles(Loaded))
           /\ Kept.builds = Loaded.builds
<1> DEFINE c == DropProfiles(Loaded)
           F == Files \ DirtyFiles(c)
<1>1. Loaded \in Cache /\ c \in Cache
  BY LoadedType, DropProfilesType
<1>2. /\ Only(c, F).hash = [f \in Files |-> IF f \in F THEN c.hash[f] ELSE None]
      /\ Only(c, F).seen = c.seen \cap F
      /\ Only(c, F).link = [k \in Keys |-> IF k[1] \in F THEN c.link[k] ELSE None]
      /\ Only(c, F).builds = c.builds
  BY <1>1, OnlyType
<1>3. Kept = Only(c, F)
  BY DEF Kept
<1>4. Loaded.seen \subseteq Files
  BY <1>1 DEF Cache
<1>5. \A k \in Keys : k[1] \in Files
  BY KeyParts
<1>6. /\ c.hash = [f \in Files |-> IF f \in Surviving(Loaded) THEN Loaded.hash[f] ELSE None]
      /\ c.link = [k \in Keys |->
                     IF k[1] \in Surviving(Loaded) /\ k[2][2] \notin DirtyProfiles(Loaded)
                     THEN Loaded.link[k] ELSE None]
      /\ c.seen = Loaded.seen \cap Surviving(Loaded)
      /\ c.builds = Loaded.builds
  BY <1>1, DropProfilesParts
<1> HIDE DEF c
<1>7. \A f \in Files : Kept.hash[f] =
          IF f \in Surviving(Loaded) /\ f \notin DirtyFiles(c) THEN Loaded.hash[f] ELSE None
  <2> TAKE f \in Files
  <2>1. Kept.hash[f] = IF f \notin DirtyFiles(c) THEN c.hash[f] ELSE None
    BY <1>2, <1>3
  <2>2. c.hash[f] = IF f \in Surviving(Loaded) THEN Loaded.hash[f] ELSE None
    BY <1>6
  <2> QED
    BY <2>1, <2>2
<1>8. \A k \in Keys : Kept.link[k] =
          IF /\ k[1] \in Surviving(Loaded) /\ k[2][2] \notin DirtyProfiles(Loaded)
             /\ k[1] \notin DirtyFiles(c)
          THEN Loaded.link[k] ELSE None
  BY <1>2, <1>3, <1>5, <1>6
<1>9. Kept.seen = (Loaded.seen \cap Surviving(Loaded)) \ DirtyFiles(c)
  BY <1>2, <1>3, <1>4, <1>6
<1>10. Kept.builds = Loaded.builds
  BY <1>2, <1>3, <1>6
<1> QED
  BY <1>7, <1>8, <1>9, <1>10 DEF c

-----------------------------------------------------------------------------
(* Every artifact returned comes with its build info.                          *)

(* The artifacts kept for reuse were attached to build infos that were read,   *)
(* and what the compiler produced is what it was asked for.                    *)
FreshIsProduced == pc \in {"writing", "consuming"} => fresh = Produced
ReuseResolves == \A k \in Keys : reuse[k] # None => reuse[k].build \in oldBuilds
AnswersInv == FreshIsProduced /\ ReuseResolves /\ BuildsResolve

LEMMA OutcomeResolves ==
    ASSUME TypeOK, ReuseResolves, NEW b \in BOOLEAN,
           NEW new \in [Keys -> Artifact \cup {None}],
           \A k \in Keys : new[k] # None => Produced[k] # None,
           NEW k \in Keys, Outcome(new, b).arts[k] # None
    PROVE  Outcome(new, b).arts[k].build \in Outcome(new, b).builds
<1>1. /\ Outcome(new, b).builds = NewBuilds \cup oldBuilds
      /\ Outcome(new, b).arts[k] =
             IF new[k] # None THEN [art |-> new[k], build |-> BuildOf(k[2])]
             ELSE IF Retained(new, k) THEN reuse[k] ELSE None
  BY DEF Outcome
<1>2. CASE new[k] # None
  <2>1. k[1] \in todo[k[2]] /\ k[2] \in Units
    BY <1>2, KeyParts DEF Produced
  <2>2. BuildOf(k[2]) \in NewBuilds
    BY <2>1 DEF NewBuilds
  <2>3. Outcome(new, b).arts[k].build = BuildOf(k[2])
    BY <1>1, <1>2
  <2> QED
    BY <1>1, <2>2, <2>3
<1>3. CASE new[k] = None
  <2>1. Outcome(new, b).arts[k] = reuse[k] /\ reuse[k] # None
    BY <1>1, <1>3
  <2> QED
    BY <1>1, <2>1 DEF ReuseResolves
<1> QED
  BY <1>2, <1>3

(* A step that ends a build by returning an outcome. *)
LEMMA ReturnsResolve ==
    ASSUME TypeOK, ReuseResolves, pc' = "returned", UNCHANGED <<reuse, oldBuilds>>,
           NEW b \in BOOLEAN, NEW new \in [Keys -> Artifact \cup {None}],
           \A k \in Keys : new[k] # None => Produced[k] # None,
           output' = Outcome(new, b)
    PROVE  AnswersInv'
  BY OutcomeResolves DEF AnswersInv, FreshIsProduced, ReuseResolves, BuildsResolve

(* A step that leaves the build where it stands. *)
LEMMA BystandersResolve ==
    ASSUME AnswersInv,
           UNCHANGED <<settings, pc, job, snap, reuse, oldBuilds, todo, fresh, output>>
    PROVE  AnswersInv'
  BY DEF AnswersInv, FreshIsProduced, ReuseResolves, BuildsResolve, Produced

LEMMA ForgetResolves ==
    ASSUME Forget
    PROVE  AnswersInv'
  BY DEF Forget, NoArtifacts, AnswersInv, FreshIsProduced, ReuseResolves, BuildsResolve

LEMMA AnswersPreserved ==
    ASSUME TypeOK, AnswersInv, [Next]_vars
    PROVE  AnswersInv'
<1> USE DEF AnswersInv
<1>1. ASSUME NEW roots \in [Units -> SUBSET Files], NEW m \in CacheModes, WithSources(roots, m)
      PROVE  AnswersInv'
  BY <1>1 DEF WithSources, checked, FreshIsProduced, ReuseResolves, BuildsResolve
<1>2. CASE Preprocess
  <2>1. reuse' = ReadArtifacts(Loaded, DiskArtifacts) /\ oldBuilds' = ReadBuilds(Loaded)
        /\ pc' = "compiling"
    BY <1>2 DEF Preprocess
  <2>2. ReuseResolves'
    BY <2>1 DEF ReuseResolves, ReadArtifacts
  <2> QED
    BY <2>1, <2>2 DEF FreshIsProduced, BuildsResolve
<1>3. CASE PreprocessEphemeral
  BY <1>3 DEF PreprocessEphemeral, FreshIsProduced, ReuseResolves, BuildsResolve
<1>4. CASE Compile
  BY <1>4 DEF Compile, disk, request, FreshIsProduced, ReuseResolves, BuildsResolve, Produced
<1>5. CASE CompileInMemory
  BY <1>5 DEF CompileInMemory, disk, request, checked, FreshIsProduced, ReuseResolves,
              BuildsResolve, Produced
<1>6. CASE CompileErrors
  <2>1. PICK good \in SUBSET {u \in Units : UnitCompiles(u)} :
            output' = Outcome([k \in Keys |-> IF k[2] \in good THEN Produced[k] ELSE None], TRUE)
    BY <1>6 DEF CompileErrors
  <2> DEFINE new == [k \in Keys |-> IF k[2] \in good THEN Produced[k] ELSE None]
  <2>2. new \in [Keys -> Artifact \cup {None}]
    BY ProducedType
  <2>3. \A k \in Keys : new[k] # None => Produced[k] # None
    OBVIOUS
  <2>4. output' = Outcome(new, TRUE) /\ pc' = "returned" /\ UNCHANGED <<reuse, oldBuilds>>
    BY <1>6, <2>1 DEF CompileErrors, checked
  <2> HIDE DEF new
  <2> QED
    BY <2>2, <2>3, <2>4, ReturnsResolve
<1>7. ASSUME NEW k \in Keys, WriteArtifact(k) PROVE AnswersInv'
  BY <1>7, BystandersResolve DEF WriteArtifact, request, checked
<1>8. ASSUME NEW b \in pendInfos, WriteBuildInfo(b) PROVE AnswersInv'
  BY <1>8, BystandersResolve DEF WriteBuildInfo, request, checked
<1>9. ASSUME NEW b \in infos, RemoveOutdatedBuild(b) PROVE AnswersInv'
  BY <1>9, BystandersResolve DEF RemoveOutdatedBuild, request, checked, written
<1>10. CASE WriteCache
  <2>1. pc = "writing" /\ pc' = "returned" /\ output' = Outcome(fresh, FALSE)
        /\ UNCHANGED <<reuse, oldBuilds>>
    BY <1>10 DEF WriteCache, WritingDone, checked
  <2> QED
    BY <2>1, ReturnsResolve DEF FreshIsProduced, TypeOK
<1>11. CASE ConsumeInMemory
  <2>1. pc \in {"writing", "consuming"} /\ pc' = "returned" /\ output' = Outcome(fresh, FALSE)
        /\ UNCHANGED <<reuse, oldBuilds>>
    BY <1>11 DEF ConsumeInMemory, WritingDone, checked
  <2> QED
    BY <2>1, ReturnsResolve DEF FreshIsProduced, TypeOK
<1>12. CASE Return
  BY <1>12, ForgetResolves DEF Return
<1>13. CASE CompilerFails
  BY <1>13, ForgetResolves DEF CompilerFails
<1>14. ASSUME NEW f \in Files, NEW c \in Contents \cup {None}, Edit(f, c) PROVE AnswersInv'
  BY <1>14, BystandersResolve DEF Edit, request, checked, written
<1>15. ASSUME NEW p \in Profiles, NEW s \in Settings, ChangeSettings(p, s) PROVE AnswersInv'
  BY <1>15 DEF ChangeSettings, checked, FreshIsProduced, ReuseResolves, BuildsResolve
<1>16. ASSUME NEW k \in Keys, DeleteArtifact(k) PROVE AnswersInv'
  BY <1>16, BystandersResolve DEF DeleteArtifact, request, checked, written
<1>17. CASE Cleanup
  BY <1>17, BystandersResolve DEF Cleanup, request, checked, written
<1>18. CASE Crash
  BY <1>18, ForgetResolves DEF Crash
<1>19. CASE UNCHANGED vars
  BY <1>19, BystandersResolve DEF vars, disk, request, checked, written
<1> QED
  BY <1>1, <1>2, <1>3, <1>4, <1>5, <1>6, <1>7, <1>8, <1>9, <1>10, <1>11, <1>12, <1>13,
     <1>14, <1>15, <1>16, <1>17, <1>18, <1>19 DEF Next, Build, Advance, User

(* A build that returns an artifact returns the build info it names: also with *)
(* truncated build infos, artifacts deleted or missing, errors of some of the  *)
(* units, and builds that ran without the cache in between.                    *)
THEOREM AnswersResolve == Spec => []BuildsResolve
<1>1. Init => AnswersInv
  BY DEF Init, NoArtifacts, AnswersInv, FreshIsProduced, ReuseResolves, BuildsResolve
<1>2. TypeOK /\ AnswersInv /\ [Next]_vars => AnswersInv'
  BY AnswersPreserved
<1>3. AnswersInv => BuildsResolve
  BY DEF AnswersInv
<1> QED
  BY <1>1, <1>2, <1>3, TypeCorrect, PTL DEF Spec

-----------------------------------------------------------------------------
(* The build infos on disk and those the cache lists.                          *)

(* The build infos of all linked artifacts are listed. *)
LinksListed(c) == \A k \in Keys : c.link[k] # None => c.link[k] \in c.builds

(* From when the cache file is read to when it is rewritten: the infos of what *)
(* was kept are on disk, those of what was compiled are or will be.            *)
InfosListed ==
    /\ cached
    /\ pc # "writing" /\ cacheFile # None => cacheFile.builds = infos /\ LinksListed(cacheFile)
    /\ pc = "compiling" => mem.builds \subseteq infos /\ LinksListed(mem)
    /\ pc = "writing" => Pruned.builds \subseteq infos \cup pendInfos /\ LinksListed(Merged)

LEMMA PrunedBuilds ==
    ASSUME TypeOK
    PROVE  /\ Merged.builds = mem.builds \cup NewBuilds
           /\ Pruned.builds = LinkedBuilds(Merged)
           /\ LinksListed(Merged) => LinksListed(Pruned)
<1>1. Merged.builds = mem.builds \cup NewBuilds
  BY DEF Merged, TypeOK, Cache
<1>2. Pruned.builds = LinkedBuilds(Merged)
  BY MergedType DEF Pruned, Cache
<1>3. ASSUME LinksListed(Merged) PROVE LinksListed(Pruned)
  BY <1>2, <1>3, PrunedType DEF LinksListed, LinkedBuilds
<1> QED
  BY <1>1, <1>2, <1>3

LEMMA PrunedFewer ==
    ASSUME TypeOK
    PROVE  Pruned.builds \subseteq Merged.builds
  BY PrunedBuilds DEF LinkedBuilds

LEMMA PreprocessLists ==
    ASSUME TypeOK, InfosListed, Preprocess
    PROVE  InfosListed'
<1>1. /\ pc = "resolved" /\ pc' = "compiling" /\ cached' = cached
      /\ cacheFile' = cacheFile
      /\ infos' = IF Wipes THEN {} ELSE infos
      /\ mem' = WithEntries(Kept, job, snap)
  BY DEF Preprocess, request
<1>2. cacheFile # None => cacheFile.builds = infos /\ LinksListed(cacheFile)
  BY <1>1 DEF InfosListed
<1>3. infos' = infos
  BY <1>1, <1>2 DEF Wipes, Usable, Intact
<1>4. mem'.builds = Kept.builds /\ mem'.link = Kept.link
  BY <1>1, KeptType DEF WithEntries, Cache, TypeOK
<1>5. CASE Usable /\ Intact
  <2>1. cacheFile # None /\ Loaded.builds = cacheFile.builds
    BY <1>5, LoadedParts
  <2>2. \A k \in Keys : Kept.link[k] # None => Kept.link[k] = cacheFile.link[k]
    BY <1>5, LoadedParts, KeptParts
  <2>3. mem'.builds = infos
    BY <1>2, <1>4, <2>1, KeptParts
  <2>4. LinksListed(mem')
    BY <1>2, <1>4, <2>1, <2>2, <2>3 DEF LinksListed
  <2> QED
    BY <1>1, <1>2, <1>3, <2>3, <2>4 DEF InfosListed
<1>6. CASE ~(Usable /\ Intact)
  <2>1. mem'.builds = {} /\ \A k \in Keys : mem'.link[k] = None
    BY <1>4, <1>6, LoadedParts, KeptParts
  <2>2. LinksListed(mem')
    BY <2>1 DEF LinksListed
  <2> QED
    BY <1>1, <1>2, <1>3, <2>1, <2>2 DEF InfosListed
<1> QED
  BY <1>5, <1>6

LEMMA CompileLists ==
    ASSUME TypeOK, TypeOK', InfosListed, Compile
    PROVE  InfosListed'
<1>1. /\ pc = "compiling" /\ pc' = "writing"
      /\ fresh' = Produced
      /\ pendInfos' = NewBuilds
      /\ mem' = [mem EXCEPT !.seen = mem.seen \cup (AllFiles(todo) \cap Entries(mem))]
      /\ UNCHANGED <<infos, cached, job, snap, settings, todo>>
  BY DEF Compile, disk, request
<1>2. mem.builds \subseteq infos /\ LinksListed(mem)
  BY <1>1 DEF InfosListed
<1>3. mem'.builds = mem.builds /\ mem'.link = mem.link
  BY <1>1 DEF TypeOK, Cache
<1>4. NewBuilds' = NewBuilds /\ \A u : BuildOf(u)' = BuildOf(u)
  BY <1>1 DEF NewBuilds, BuildOf
<1>5. Merged'.builds = mem.builds \cup NewBuilds
  <2>1. (Merged.builds = mem.builds \cup NewBuilds)'
    BY PrunedBuilds, PTL
  <2> QED
    BY <1>3, <1>4, <2>1
<1>6. Pruned'.builds \subseteq Merged'.builds
  <2>1. (Pruned.builds \subseteq Merged.builds)'
    BY PrunedFewer, PTL
  <2> QED
    BY <2>1
<1>7. \A k \in Keys : Merged'.link[k] # None => Merged'.link[k] \in Merged'.builds
  <2> SUFFICES ASSUME NEW k \in Keys, Merged'.link[k] # None
               PROVE  Merged'.link[k] \in mem.builds \cup NewBuilds
    BY <1>5
  <2> DEFINE link == [l \in Keys |-> IF fresh[l] # None /\ l[1] \in Entries(mem)
                                     THEN BuildOf(l[2]) ELSE mem.link[l]]
             builds == mem.builds \cup NewBuilds
  <2>1. Merged' = [mem' EXCEPT !.link = link', !.builds = builds']
    BY DEF Merged
  <2>2. link'[k] = mem.link[k] \/ (Produced[k] # None /\ link'[k] = BuildOf(k[2]))
    BY <1>1, <1>3, <1>4
  <2>3. Merged'.link = link'
    <3> HIDE DEF link, builds
    <3> QED
      BY <2>1 DEF TypeOK, Cache
  <2> HIDE DEF link, builds
  <2>4. CASE Merged'.link[k] = mem.link[k]
    BY <1>2, <2>4 DEF LinksListed
  <2>5. CASE Produced[k] # None /\ Merged'.link[k] = BuildOf(k[2])
    <3>1. k[1] \in todo[k[2]] /\ k[2] \in Units
      BY <2>5, KeyParts DEF Produced
    <3> QED
      BY <2>5, <3>1 DEF NewBuilds
  <2> QED
    BY <2>2, <2>3, <2>4, <2>5
<1>8. LinksListed(Merged)'
  BY <1>7 DEF LinksListed
<1> QED
  BY <1>1, <1>2, <1>5, <1>6, <1>8 DEF InfosListed

(* A step of a build that is writing, which leaves its cache alone and deletes *)
(* no build info the cache will list.                                          *)
LEMMA WritingLists ==
    ASSUME InfosListed, pc = "writing",
           UNCHANGED <<pc, cached, mem, fresh, job, snap, todo, settings>>,
           Pruned.builds \subseteq infos \cup pendInfos
               => Pruned.builds \subseteq infos' \cup pendInfos'
    PROVE  InfosListed'
<1>1. Merged' = Merged
  BY DEF Merged, NewBuilds, BuildOf
<1>2. Pruned' = Pruned
  BY <1>1 DEF Pruned, LinkedBuilds
<1>3. LinksListed(Merged)' <=> LinksListed(Merged)
  BY <1>1 DEF LinksListed
<1> QED
  BY <1>2, <1>3 DEF InfosListed

(* A step that leaves the build infos and the cache file alone, outside of the *)
(* stretch in which the cache in memory counts.                                *)
LEMMA BystandersList ==
    ASSUME InfosListed, cached', pc # "writing",
           pc' \in {"idle", "resolved", "consuming", "returned"},
           UNCHANGED <<infos, cacheFile>>
    PROVE  InfosListed'
  BY DEF InfosListed, LinksListed

LEMMA SameLists ==
    ASSUME InfosListed,
           UNCHANGED <<settings, infos, cacheFile, pc, cached, job, snap, mem, todo,
                       fresh, pendInfos>>
    PROVE  InfosListed'
<1>1. Merged' = Merged
  BY DEF Merged, NewBuilds, BuildOf
<1>2. Pruned' = Pruned
  BY <1>1 DEF Pruned, LinkedBuilds
<1>3. LinksListed(Merged)' <=> LinksListed(Merged)
  BY <1>1 DEF LinksListed
<1> QED
  BY <1>2, <1>3 DEF InfosListed, LinksListed

LEMMA ListsPreserved ==
    ASSUME ~MayCrash, ~MayBypass, TypeOK, TypeOK', InfosListed, [Next]_vars
    PROVE  InfosListed'
<1>0. CacheModes = {TRUE} /\ cached
  BY DEF CacheModes, InfosListed
<1>1. ASSUME NEW roots \in [Units -> SUBSET Files], NEW m \in CacheModes, WithSources(roots, m)
      PROVE  InfosListed'
  BY <1>0, <1>1, BystandersList DEF WithSources, disk
<1>2. CASE Preprocess
  BY <1>2, PreprocessLists
<1>3. CASE PreprocessEphemeral
  BY <1>0, <1>3 DEF PreprocessEphemeral
<1>4. CASE Compile
  BY <1>4, CompileLists
<1>5. CASE CompileInMemory
  BY <1>0, <1>5, BystandersList DEF CompileInMemory, disk, request
<1>6. CASE CompileErrors
  BY <1>0, <1>6, BystandersList DEF CompileErrors, disk, request
<1>7. ASSUME NEW k \in Keys, WriteArtifact(k) PROVE InfosListed'
  BY <1>7, SameLists DEF WriteArtifact, request, checked
<1>8. ASSUME NEW b \in pendInfos, WriteBuildInfo(b) PROVE InfosListed'
  BY <1>8, WritingLists DEF WriteBuildInfo, request, checked
<1>9. ASSUME NEW b \in infos, RemoveOutdatedBuild(b) PROVE InfosListed'
  <2>1. /\ pc = "writing" /\ b \notin Pruned.builds /\ infos' = infos \ {b}
        /\ UNCHANGED <<pc, cached, mem, fresh, job, snap, todo, settings, pendInfos>>
    BY <1>9 DEF RemoveOutdatedBuild, WritingDone, request, checked, written
  <2> QED
    BY <2>1, WritingLists
<1>10. CASE WriteCache
  <2>1. /\ pc = "writing" /\ pendInfos = {} /\ infos \subseteq Pruned.builds
        /\ cacheFile' = Pruned /\ pc' = "returned"
        /\ UNCHANGED <<infos, cached>>
    BY <1>10 DEF WriteCache, WritingDone, request
  <2>2. Pruned.builds = infos /\ LinksListed(Pruned)
    BY <2>1, PrunedBuilds DEF InfosListed
  <2> QED
    BY <1>0, <2>1, <2>2 DEF InfosListed, LinksListed
<1>11. CASE ConsumeInMemory
  <2>1. pc = "consuming"
    BY <1>0, <1>11 DEF ConsumeInMemory
  <2> QED
    BY <1>0, <1>11, <2>1, BystandersList DEF ConsumeInMemory, disk, request
<1>12. CASE Return
  BY <1>12, BystandersList DEF Return, Forget, disk
<1>13. CASE CompilerFails
  BY <1>13, BystandersList DEF CompilerFails, Forget, disk
<1>14. ASSUME NEW f \in Files, NEW c \in Contents \cup {None}, Edit(f, c) PROVE InfosListed'
  BY <1>14, SameLists DEF Edit, request, checked, written
<1>15. ASSUME NEW p \in Profiles, NEW s \in Settings, ChangeSettings(p, s) PROVE InfosListed'
  BY <1>0, <1>15, BystandersList DEF ChangeSettings, request
<1>16. ASSUME NEW k \in Keys, DeleteArtifact(k) PROVE InfosListed'
  BY <1>16, SameLists DEF DeleteArtifact, request, checked, written
<1>17. CASE Cleanup
  BY <1>17 DEF Cleanup, InfosListed, request
<1>18. CASE Crash
  BY <1>18 DEF Crash
<1>19. CASE UNCHANGED vars
  BY <1>19, SameLists DEF vars, disk, request, checked, written
<1> QED
  BY <1>1, <1>2, <1>3, <1>4, <1>5, <1>6, <1>7, <1>8, <1>9, <1>10, <1>11, <1>12, <1>13,
     <1>14, <1>15, <1>16, <1>17, <1>18, <1>19 DEF Next, Build, Advance, User

(* Builds that run to their end, with the cache, leave no build info that the  *)
(* cache does not list and list none that is not there; every artifact of the  *)
(* cache has its build info listed.  The user may do anything but interrupt    *)
(* builds or build without the cache, between the reads of a build as well.    *)
THEOREM InfosAreListed ==
    ASSUME ~MayCrash, ~MayBypass
    PROVE  Spec => []BuildInfosMatchCache
<1>1. Init => TypeOK /\ InfosListed
  BY InitialTypes DEF Init, InfosListed
<1>2. TypeOK /\ InfosListed /\ [Next]_vars => TypeOK' /\ InfosListed'
  BY TypesPreserved, ListsPreserved
<1>3. InfosListed => BuildInfosMatchCache
  BY DEF InfosListed, BuildInfosMatchCache, LinksListed
<1> QED
  BY <1>1, <1>2, <1>3, PTL DEF Spec

-----------------------------------------------------------------------------
(* What a build was asked for, and what it read.                               *)

(* A build compiles files that were there when it read them, and with a file   *)
(* all that it imports.                                                        *)
RequestIsRead ==
    pc # "idle" =>
        \A u \in Units : \A f \in job[u] : snap[f] # None /\ Reach(snap, f) \subseteq job[u]

LEMMA ReachTransitive ==
    ASSUME NEW s, NEW F \in SUBSET Files, NEW f \in ReachAll(s, F)
    PROVE  f \in Files /\ Reach(s, f) \subseteq ReachAll(s, F)
<1>1. PICK g \in F : f \in Reach(s, g)
  BY DEF ReachAll
<1>2. f \in Files /\ Reach(s, g) \in SUBSET Files
  BY <1>1 DEF Reach
<1>3. Reach(s, f) \subseteq Reach(s, g)
  BY <1>1, <1>2, ReachClosed, ReachLeast
<1> QED
  BY <1>2, <1>3 DEF ReachAll

LEMMA RequestPreserved ==
    ASSUME TypeOK, RequestIsRead, [Next]_vars
    PROVE  RequestIsRead'
<1>1. ASSUME NEW roots \in [Units -> SUBSET Files], NEW m \in CacheModes, WithSources(roots, m)
      PROVE  RequestIsRead'
  <2>1. /\ UNION {roots[u] : u \in Units} \subseteq Exists(src)
        /\ job' = [u \in Units |-> ReachAll(src, roots[u])]
        /\ snap' = src
    BY <1>1 DEF WithSources
  <2> SUFFICES ASSUME NEW u \in Units, NEW f \in job'[u]
               PROVE  src[f] # None /\ Reach(src, f) \subseteq job'[u]
    BY <2>1 DEF RequestIsRead
  <2>2. f \in ReachAll(src, roots[u]) /\ job'[u] = ReachAll(src, roots[u])
    BY <2>1
  <2>3. PICK g \in roots[u] : f \in Reach(src, g)
    BY <2>2 DEF ReachAll
  <2>4. g \in Files /\ src[g] # None
    BY <2>1 DEF Exists
  <2>5. src[f] # None
    BY <2>3, <2>4, ReachExists DEF Exists
  <2> QED
    BY <2>2, <2>5, ReachTransitive
<1>2. ASSUME UNCHANGED <<job, snap>>, pc # "idle" \/ pc' = "idle"
      PROVE  RequestIsRead'
  BY <1>2 DEF RequestIsRead
<1>3. ASSUME Forget PROVE RequestIsRead'
  BY <1>3 DEF Forget, RequestIsRead
<1>4. CASE Preprocess
  BY <1>2, <1>4 DEF Preprocess, request
<1>5. CASE PreprocessEphemeral
  BY <1>2, <1>5 DEF PreprocessEphemeral, request
<1>6. CASE Compile
  BY <1>2, <1>6 DEF Compile, request
<1>7. CASE CompileInMemory
  BY <1>2, <1>7 DEF CompileInMemory, request
<1>8. CASE CompileErrors
  BY <1>2, <1>8 DEF CompileErrors, request
<1>9. ASSUME NEW k \in Keys, WriteArtifact(k) PROVE RequestIsRead'
  BY <1>2, <1>9 DEF WriteArtifact, request
<1>10. ASSUME NEW b \in pendInfos, WriteBuildInfo(b) PROVE RequestIsRead'
  BY <1>2, <1>10 DEF WriteBuildInfo, request
<1>11. ASSUME NEW b \in infos, RemoveOutdatedBuild(b) PROVE RequestIsRead'
  BY <1>2, <1>11 DEF RemoveOutdatedBuild, request
<1>12. CASE WriteCache
  BY <1>2, <1>12 DEF WriteCache, WritingDone, request
<1>13. CASE ConsumeInMemory
  BY <1>2, <1>13 DEF ConsumeInMemory, WritingDone, request
<1>14. ASSUME NEW f \in Files, NEW c \in Contents \cup {None}, Edit(f, c) PROVE RequestIsRead'
  BY <1>2, <1>14 DEF Edit, request
<1>15. ASSUME NEW p \in Profiles, NEW s \in Settings, ChangeSettings(p, s) PROVE RequestIsRead'
  BY <1>2, <1>15 DEF ChangeSettings, request
<1>16. ASSUME NEW k \in Keys, DeleteArtifact(k) PROVE RequestIsRead'
  BY <1>2, <1>16 DEF DeleteArtifact, request
<1>17. CASE Cleanup
  BY <1>2, <1>17 DEF Cleanup, request
<1>18. CASE UNCHANGED vars
  BY <1>2, <1>18 DEF vars, request
<1> QED
  BY <1>1, <1>3, <1>4, <1>5, <1>6, <1>7, <1>8, <1>9, <1>10, <1>11, <1>12, <1>13,
     <1>14, <1>15, <1>16, <1>17, <1>18
  DEF Next, Build, Advance, User, Return, CompilerFails, Crash

-----------------------------------------------------------------------------
(* Sources and settings that never return to what is on record.  Builds may    *)
(* die, bypass the cache and race with edits: the artifacts on disk are then   *)
(* newer than the cache file.  But whoever wrote them read the sources after   *)
(* the cache file was written, and a file that still has the content on record *)
(* had it then.                                                                *)

(* What a linked artifact needs: an entry of its file, and one of its profile. *)
LinksAreKnown(c) ==
    \A k \in Keys : c.link[k] # None => c.hash[k[1]] # None /\ c.set[k[2][2]] # None

(* Whatever the cache c says of the artifacts a is true of the sources s under *)
(* the settings set: this is CleanIsCurrent, said of any cache at any time.    *)
Vouches(c, a, s, set) ==
    \A k \in Keys :
        /\ c.link[k] # None
        /\ a[k] # None
        /\ c.set[k[2][2]] = set[k[2][2]]
        /\ \A g \in Reach(s, k[1]) : c.hash[g] = s[g] /\ ~Unresolved(s, g)
        => a[k] = CompilerOutput(s, set, k)

Trusted(c, a) == LinksAreKnown(c) /\ Vouches(c, a, src, settings)

(* What has the content of its entry had it when the build read the sources.   *)
StillAsRead(c) == \A f \in Files : c.hash[f] # None /\ c.hash[f] = src[f] => snap[f] = src[f]

FileIsTrusted ==
    cacheFile # None =>
        /\ Trusted(cacheFile, art)
        /\ pc # "idle" => StillAsRead(cacheFile)

MemoryIsTrusted ==
    pc = "compiling" =>
        /\ Trusted(mem, art) /\ StillAsRead(mem)
        /\ mem.set = settings \/ Entries(mem) = {}

UpcomingIsTrusted ==
    pc = "writing" =>
        /\ Trusted(Merged, Upcoming) /\ StillAsRead(mem)
        /\ \A k \in pendArts : fresh[k] # None /\ fresh[k] = CompilerOutput(snap, settings, k)

TrustInv == FileIsTrusted /\ MemoryIsTrusted /\ UpcomingIsTrusted

(* Two trees that agree on all that f reaches in one of them, where all        *)
(* imports resolve: the compiler sees the same of f in both.                   *)
LEMMA SameClosure ==
    ASSUME NoFallback, NEW s \in Tree, NEW t \in Tree, NEW f \in Files,
           t[f] # None,
           \A g \in Reach(t, f) : ~Unresolved(t, g) /\ s[g] = t[g]
    PROVE  /\ Reach(s, f) = Reach(t, f)
           /\ Stamp(s, f) = Stamp(t, f)
           /\ s[f] = t[f]
           /\ \A g \in Reach(s, f) : ~Unresolved(s, g)
<1>1. Reach(t, f) \subseteq Reach(s, f)
  BY ReachMonotone
<1>2. Reach(t, f) \subseteq Exists(t) /\ Reach(t, f) \subseteq Files
  BY ReachExists, ReachIsFiles
<1>3. \A g \in Reach(t, f) : Stamp(s, f)[g] = t[g]
  BY <1>1, <1>2 DEF Stamp
<1>4. Stamp(s, f) = Stamp(t, f) /\ s[f] = t[f]
  BY <1>3, StampUnique
<1>5. ASSUME NEW g \in Reach(t, f), NEW h \in Wanted(t, g)
      PROVE  h \in Reach(t, f) /\ s[h] # None /\ h \in Files
  <2>1. Target(t, h) \in Exists(t) /\ g \in Files
    BY <1>2, <1>5 DEF Unresolved
  <2>2. h \in Files
    BY <1>5, <2>1, ImportsAreFiles DEF Wanted, Tree
  <2>3. t[h] # None
    BY <2>1, <2>2, NoneIsNothing DEF Target, Exists, NoFallback
  <2>4. h \in Imports(t, g)
    BY <1>5, <2>1, <2>2, <2>3, ImportsAreWanted DEF Exists
  <2>5. h \in Reach(t, f)
    BY <1>5, <2>4, ReachClosed DEF ImportClosed
  <2> QED
    BY <2>2, <2>3, <2>5
<1>6. ASSUME NEW g \in Reach(t, f) PROVE ~Unresolved(s, g) /\ Wanted(s, g) = Wanted(t, g)
  <2>1. Wanted(s, g) = Wanted(t, g)
    BY <1>6 DEF Wanted
  <2> SUFFICES ASSUME NEW h \in Wanted(s, g) PROVE Target(s, h) \in Exists(s)
    BY <2>1 DEF Unresolved
  <2>2. s[h] # None /\ h \in Files
    BY <1>5, <1>6, <2>1
  <2> QED
    BY <2>2 DEF Target, Exists
<1>7. ImportClosed(s, Reach(t, f))
  <2> SUFFICES ASSUME NEW g \in Reach(t, f), NEW h \in Imports(s, g) PROVE h \in Reach(t, f)
    BY DEF ImportClosed
  <2>1. h \in Wanted(s, g)
    BY <1>2, ImportsAreWanted
  <2> QED
    BY <1>5, <1>6, <2>1
<1>8. Reach(s, f) \subseteq Reach(t, f)
  BY <1>2, <1>7, ReachSelf, ReachLeast
<1> QED
  BY <1>1, <1>4, <1>6, <1>8

(* So it produces the same artifact. *)
LEMMA SameOutput ==
    ASSUME NoFallback, NEW s \in Tree, NEW t \in Tree, NEW k \in Keys, NEW set,
           t[k[1]] # None,
           \A g \in Reach(t, k[1]) : ~Unresolved(t, g) /\ s[g] = t[g]
    PROVE  CompilerOutput(s, set, k) = CompilerOutput(t, set, k)
<1>1. k[1] \in Files
  BY KeyParts
<1>2. Stamp(s, k[1]) = Stamp(t, k[1]) /\ s[k[1]] = t[k[1]]
  BY <1>1, SameClosure
<1> QED
  BY <1>2 DEF CompilerOutput, Compiled, Yields

(* What a build produced from the sources it read is current where they still  *)
(* are those on record.                                                        *)
LEMMA ReadIsCurrent ==
    ASSUME NoFallback, src \in Tree, snap \in Tree, NEW c, NEW k \in Keys, NEW set,
           StillAsRead(c), c.hash[k[1]] # None,
           \A g \in Reach(src, k[1]) : c.hash[g] = src[g] /\ ~Unresolved(src, g)
    PROVE  CompilerOutput(snap, set, k) = CompilerOutput(src, set, k)
<1>1. k[1] \in Files /\ k[1] \in Reach(src, k[1])
  BY KeyParts, ReachSelf
<1>2. src[k[1]] # None
  BY <1>1
<1>3. Reach(src, k[1]) \subseteq Exists(src)
  BY <1>1, <1>2, ReachExists
<1>4. \A g \in Reach(src, k[1]) : snap[g] = src[g]
  BY <1>3 DEF StillAsRead, Exists
<1> QED
  BY <1>2, <1>4, SameOutput

(* A file that leaves the content on record for another one, or goes, takes    *)
(* nothing from what a cache vouches for.                                      *)
LEMMA LeavingIsTrusted ==
    ASSUME NoFallback, NEW s \in Tree, NEW t \in Tree, NEW c, NEW a, NEW set, NEW f \in Files,
           LinksAreKnown(c), Vouches(c, a, s, set),
           \A g \in Files : g # f => t[g] = s[g],
           t[f] = None \/ t[f] # c.hash[f]
    PROVE  Vouches(c, a, t, set)
<1> SUFFICES ASSUME NEW k \in Keys, c.link[k] # None, a[k] # None,
                    c.set[k[2][2]] = set[k[2][2]],
                    \A g \in Reach(t, k[1]) : c.hash[g] = t[g] /\ ~Unresolved(t, g)
             PROVE  a[k] = CompilerOutput(t, set, k)
  BY DEF Vouches
<1>1. k[1] \in Files /\ k[1] \in Reach(t, k[1])
  BY KeyParts, ReachSelf
<1>2. t[k[1]] # None
  BY <1>1 DEF LinksAreKnown
<1>3. Reach(t, k[1]) \subseteq Exists(t)
  BY <1>1, <1>2, ReachExists
<1>4. f \notin Reach(t, k[1])
  BY <1>3 DEF Exists
<1>5. \A g \in Reach(t, k[1]) : ~Unresolved(t, g) /\ s[g] = t[g]
  BY <1>3, <1>4 DEF Exists
<1>6. Reach(s, k[1]) = Reach(t, k[1]) /\ \A g \in Reach(s, k[1]) : ~Unresolved(s, g)
  BY <1>1, <1>2, <1>5, SameClosure
<1>7. a[k] = CompilerOutput(s, set, k)
  BY <1>5, <1>6 DEF Vouches
<1> QED
  BY <1>2, <1>5, <1>7, SameOutput

(* Settings that leave the recorded value do not either. *)
LEMMA ReconfiguringIsTrusted ==
    ASSUME NEW c, NEW a, NEW s, NEW set, NEW new, NEW p \in Profiles,
           LinksAreKnown(c), Vouches(c, a, s, set),
           \A q \in Profiles : q # p => new[q] = set[q],
           new[p] # c.set[p]
    PROVE  Vouches(c, a, s, new)
<1> SUFFICES ASSUME NEW k \in Keys, c.link[k] # None, a[k] # None,
                    c.set[k[2][2]] = new[k[2][2]],
                    \A g \in Reach(s, k[1]) : c.hash[g] = s[g] /\ ~Unresolved(s, g)
             PROVE  a[k] = CompilerOutput(s, new, k)
  BY DEF Vouches
<1>1. k[2][2] \in Profiles /\ k[2][2] # p
  BY KeyParts
<1>2. new[k[2][2]] = set[k[2][2]]
  BY <1>1
<1>3. a[k] = CompilerOutput(s, set, k)
  BY <1>2 DEF Vouches
<1> QED
  BY <1>2, <1>3 DEF CompilerOutput, Compiled

(* Artifacts that disappear, or that a build writes, are trusted. *)
LEMMA FewerAreTrusted ==
    ASSUME NEW c, NEW a, NEW b, Trusted(c, a), \A k \in Keys : b[k] \in {None, a[k]}
    PROVE  Trusted(c, b)
  BY DEF Trusted, Vouches

(* Trust looks at nothing of a cache but hashes, links and settings. *)
LEMMA SameIsTrusted ==
    ASSUME NEW c, NEW d, NEW a, Trusted(c, a),
           d.hash = c.hash, d.link = c.link, d.set = c.set
    PROVE  Trusted(d, a)
  BY DEF Trusted, Vouches, LinksAreKnown

LEMMA WrittenIsTrusted ==
    ASSUME NoFallback, TypeOK, NEW c, NEW a, NEW b, Trusted(c, a), StillAsRead(c),
           \A k \in Keys : b[k] \in {None, a[k], CompilerOutput(snap, settings, k)}
    PROVE  Trusted(c, b)
<1> SUFFICES ASSUME NEW k \in Keys, c.link[k] # None, b[k] # None,
                    c.set[k[2][2]] = settings[k[2][2]],
                    \A g \in Reach(src, k[1]) : c.hash[g] = src[g] /\ ~Unresolved(src, g)
             PROVE  b[k] = CompilerOutput(src, settings, k)
  BY DEF Trusted, Vouches
<1>1. c.hash[k[1]] # None /\ src \in Tree /\ snap \in Tree
  BY DEF Trusted, LinksAreKnown, TypeOK
<1>2. CompilerOutput(snap, settings, k) = CompilerOutput(src, settings, k)
  BY <1>1, ReadIsCurrent
<1>3. a[k] # None => a[k] = CompilerOutput(src, settings, k)
  BY DEF Trusted, Vouches
<1> QED
  BY <1>2, <1>3

(* A build that bypasses the cache holds none, and neither does one that has   *)
(* not read it yet.                                                            *)
UnusedIsEmpty ==
    pc \in {"idle", "resolved"} \/ ~cached =>
        mem = EmptyCache /\ reuse = NoArtifacts /\ dirty = {}

LEMMA UnusedPreserved ==
    ASSUME UnusedIsEmpty, [Next]_vars
    PROVE  UnusedIsEmpty'
<1>1. ASSUME UNCHANGED <<mem, reuse, dirty>>,
             pc' \in {"idle", "resolved"} \/ ~cached' => pc \in {"idle", "resolved"} \/ ~cached
      PROVE  UnusedIsEmpty'
  BY <1>1 DEF UnusedIsEmpty
<1>2. ASSUME Forget PROVE UnusedIsEmpty'
  BY <1>2 DEF Forget, UnusedIsEmpty
<1>3. ASSUME NEW roots \in [Units -> SUBSET Files], NEW m \in CacheModes, WithSources(roots, m)
      PROVE  UnusedIsEmpty'
  BY <1>1, <1>3 DEF WithSources, checked
<1>4. CASE Preprocess
  BY <1>4 DEF Preprocess, request, UnusedIsEmpty
<1>5. CASE PreprocessEphemeral
  BY <1>1, <1>5 DEF PreprocessEphemeral, request
<1>6. CASE Compile
  <2>1. /\ pc' = "writing" /\ UNCHANGED <<cached, reuse, dirty>>
        /\ mem' = [mem EXCEPT !.seen = mem.seen \cup (AllFiles(todo) \cap Entries(mem))]
    BY <1>6 DEF Compile, request
  <2>2. mem = EmptyCache => mem' = EmptyCache
    <3> SUFFICES ASSUME mem = EmptyCache PROVE mem' = EmptyCache
      OBVIOUS
    <3>1. Entries(mem) = {} /\ mem.seen = {}
      BY DEF EmptyCache, Entries
    <3>2. mem' = [mem EXCEPT !.seen = {}]
      BY <2>1, <3>1
    <3> QED
      BY <3>2 DEF EmptyCache
  <2> QED
    BY <2>1, <2>2 DEF UnusedIsEmpty
<1>7. CASE CompileInMemory
  BY <1>1, <1>7 DEF CompileInMemory, request, checked
<1>8. CASE CompileErrors
  BY <1>1, <1>8 DEF CompileErrors, request, checked
<1>9. ASSUME NEW k \in Keys, WriteArtifact(k) PROVE UnusedIsEmpty'
  BY <1>1, <1>9 DEF WriteArtifact, request, checked
<1>10. ASSUME NEW b \in pendInfos, WriteBuildInfo(b) PROVE UnusedIsEmpty'
  BY <1>1, <1>10 DEF WriteBuildInfo, request, checked
<1>11. ASSUME NEW b \in infos, RemoveOutdatedBuild(b) PROVE UnusedIsEmpty'
  BY <1>1, <1>11 DEF RemoveOutdatedBuild, request, checked
<1>12. CASE WriteCache
  BY <1>1, <1>12 DEF WriteCache, request, checked
<1>13. CASE ConsumeInMemory
  BY <1>1, <1>13 DEF ConsumeInMemory, request, checked
<1>14. ASSUME NEW f \in Files, NEW c \in Contents \cup {None}, Edit(f, c) PROVE UnusedIsEmpty'
  BY <1>1, <1>14 DEF Edit, request, checked
<1>15. ASSUME NEW p \in Profiles, NEW s \in Settings, ChangeSettings(p, s) PROVE UnusedIsEmpty'
  BY <1>1, <1>15 DEF ChangeSettings, request, checked
<1>16. ASSUME NEW k \in Keys, DeleteArtifact(k) PROVE UnusedIsEmpty'
  BY <1>1, <1>16 DEF DeleteArtifact, request, checked
<1>17. CASE Cleanup
  BY <1>1, <1>17 DEF Cleanup, request, checked
<1>18. CASE UNCHANGED vars
  BY <1>1, <1>18 DEF vars, request, checked
<1> QED
  BY <1>2, <1>3, <1>4, <1>5, <1>6, <1>7, <1>8, <1>9, <1>10, <1>11, <1>12, <1>13,
     <1>14, <1>15, <1>16, <1>17, <1>18
  DEF Next, Build, Advance, User, Return, CompilerFails, Crash

(* What a build keeps in memory was on record, unchanged since it was.         *)
LEMMA PreprocessIsTrusted ==
    ASSUME TypeOK, NoFallback, TrustInv, Preprocess
    PROVE  TrustInv'
<1>1. /\ pc = "resolved" /\ pc' = "compiling"
      /\ cacheFile # None => Trusted(cacheFile, art) /\ StillAsRead(cacheFile)
      /\ mem' = WithEntries(Kept, job, snap)
      /\ art' = DiskArtifacts
      /\ UNCHANGED <<src, cacheFile, settings, snap>>
  BY DEF Preprocess, request, TrustInv, FileIsTrusted
<1>2. Kept \in Cache /\ snap \in Tree /\ src \in Tree
  BY KeptType DEF TypeOK
<1>3. /\ mem'.hash = [f \in Files |-> IF Kept.hash[f] = None /\ f \in AllFiles(job)
                                      THEN snap[f] ELSE Kept.hash[f]]
      /\ mem'.link = Kept.link
      /\ mem'.set = settings
  BY <1>1, <1>2, WithEntriesParts, KeptSettings
<1>4. ASSUME NEW f \in Files, Kept.hash[f] # None
      PROVE  cacheFile # None /\ Kept.hash[f] = cacheFile.hash[f] /\ Kept.hash[f] = src[f]
  <2>1. Kept.hash[f] = Loaded.hash[f]
    BY <1>4, KeptParts
  <2>2. Usable /\ Intact
    BY <1>4, <2>1, LoadedParts
  <2> QED
    BY <1>4, <2>1, <2>2, LoadedParts, KeptIsUnchanged DEF Usable
<1>5. StillAsRead(mem')
  BY <1>1, <1>3, <1>4 DEF StillAsRead
<1>6. ASSUME NEW k \in Keys, Kept.link[k] # None
      PROVE  /\ cacheFile # None /\ cacheFile.link[k] # None /\ DiskArtifacts = art
             /\ cacheFile.hash[k[1]] # None /\ Kept.hash[k[1]] # None
             /\ k[1] \in Files
             /\ cacheFile.set[k[2][2]] = settings[k[2][2]]
  <2>1. /\ cacheFile # None /\ ~Wipes /\ cacheFile.link[k] # None
        /\ k[2][2] \notin DirtyProfiles(Loaded)
        /\ cacheFile.hash[k[1]] # None => Kept.hash[k[1]] # None
        /\ Loaded = Only(cacheFile, Exists(src)) /\ cacheFile \in Cache
    BY <1>6, KeptWasCached
  <2>2. cacheFile.hash[k[1]] # None /\ cacheFile.set[k[2][2]] # None
    BY <1>1, <2>1 DEF Trusted, LinksAreKnown
  <2>3. Loaded.set = cacheFile.set
    BY <2>1, OnlyType
  <2>4. cacheFile.set[k[2][2]] = settings[k[2][2]]
    BY <2>1, <2>2, <2>3, KeyParts DEF DirtyProfiles
  <2> QED
    BY <2>1, <2>2, <2>4, KeyParts DEF DiskArtifacts
<1>7. LinksAreKnown(mem')
  <2> SUFFICES ASSUME NEW k \in Keys, mem'.link[k] # None
               PROVE  mem'.hash[k[1]] # None /\ mem'.set[k[2][2]] # None
    BY DEF LinksAreKnown
  <2>1. /\ Kept.hash[k[1]] # None /\ k[1] \in Files
        /\ cacheFile.set[k[2][2]] = settings[k[2][2]] /\ cacheFile.set[k[2][2]] # None
    BY <1>1, <1>3, <1>6 DEF Trusted, LinksAreKnown
  <2> QED
    BY <1>3, <2>1
<1>8. Vouches(mem', art', src, settings)
  <2> SUFFICES ASSUME NEW k \in Keys, mem'.link[k] # None, art'[k] # None,
                      \A g \in Reach(src, k[1]) : mem'.hash[g] = src[g] /\ ~Unresolved(src, g)
               PROVE  art'[k] = CompilerOutput(src, settings, k)
    BY DEF Vouches
  <2>1. /\ cacheFile # None /\ cacheFile.link[k] # None /\ art' = art
        /\ Kept.hash[k[1]] # None /\ k[1] \in Files
        /\ cacheFile.set[k[2][2]] = settings[k[2][2]]
    BY <1>1, <1>3, <1>6
  <2>2. \A g \in Reach(src, k[1]) : DropProfiles(Loaded).hash[g] = src[g]
    BY <2>1, KeptIsUnchanged
  <2>3. \A g \in Files : DropProfiles(Loaded).hash[g] # None
                            => DropProfiles(Loaded).hash[g] = cacheFile.hash[g]
    BY <1>3, KeptWasCached
  <2>4. Reach(src, k[1]) \subseteq Exists(src)
    BY <1>4, <2>1, ReachExists
  <2>5. \A g \in Reach(src, k[1]) : cacheFile.hash[g] = src[g] /\ ~Unresolved(src, g)
    BY <2>2, <2>3, <2>4 DEF Exists
  <2> QED
    BY <1>1, <2>1, <2>5 DEF Trusted, Vouches
<1>9. FileIsTrusted'
  <2>1. cacheFile # None => Trusted(cacheFile, art')
    BY <1>1, FewerAreTrusted DEF DiskArtifacts, NoArtifacts
  <2>2. cacheFile # None => Trusted(cacheFile, art)'
    BY <1>1, <2>1 DEF Trusted
  <2>3. cacheFile # None => StillAsRead(cacheFile)'
    BY <1>1 DEF StillAsRead
  <2> QED
    BY <1>1, <2>2, <2>3 DEF FileIsTrusted
<1>10. MemoryIsTrusted'
  <2>1. Trusted(mem', art')
    BY <1>7, <1>8 DEF Trusted
  <2>2. Trusted(mem, art)' /\ StillAsRead(mem)'
    BY <1>1, <1>5, <2>1 DEF Trusted, StillAsRead
  <2> QED
    BY <1>1, <1>3, <2>2 DEF MemoryIsTrusted
<1> QED
  BY <1>1, <1>9, <1>10 DEF TrustInv, UpcomingIsTrusted

(* What the compiler produces is current where the sources still are.          *)
LEMMA CompileIsTrusted ==
    ASSUME TypeOK, TypeOK', NoFallback, TrustInv, Compile
    PROVE  TrustInv'
<1>1. /\ pc = "compiling" /\ pc' = "writing"
      /\ fresh' = Produced
      /\ pendArts' = {k \in Keys : Produced[k] # None}
      /\ mem' = [mem EXCEPT !.seen = mem.seen \cup (AllFiles(todo) \cap Entries(mem))]
      /\ UNCHANGED <<src, art, cacheFile, settings, snap>>
  BY DEF Compile, disk, request
<1>2. /\ mem'.hash = mem.hash /\ mem'.link = mem.link /\ mem'.set = mem.set
      /\ Trusted(mem, art) /\ StillAsRead(mem)
      /\ mem.set = settings \/ Entries(mem) = {}
  BY <1>1 DEF TypeOK, Cache, TrustInv, MemoryIsTrusted
<1>3. /\ Merged'.hash = mem.hash /\ Merged'.set = mem.set
      /\ Merged'.link = [k \in Keys |-> IF fresh'[k] # None /\ k[1] \in Entries(mem')
                                        THEN BuildOf(k[2])' ELSE mem'.link[k]]
  <2>1. /\ (Merged.hash = mem.hash)' /\ (Merged.set = mem.set)'
        /\ (Merged.link = [k \in Keys |-> IF fresh[k] # None /\ k[1] \in Entries(mem)
                                          THEN BuildOf(k[2]) ELSE mem.link[k]])'
    BY MergedType, PTL
  <2> QED
    BY <1>2, <2>1
<1>4. Entries(mem') = Entries(mem)
  BY <1>2 DEF Entries
<1>5. ASSUME NEW k \in Keys, Merged'.link[k] # None
      PROVE  \/ mem.link[k] # None
             \/ Produced[k] # None /\ k[1] \in Entries(mem) /\ mem.set = settings
  BY <1>1, <1>2, <1>3, <1>4, <1>5
<1>6. \A k \in Keys : Upcoming'[k] = IF Produced[k] # None THEN Produced[k] ELSE art[k]
  BY <1>1 DEF Upcoming
<1>7. \A k \in Keys : Produced[k] \in {None, CompilerOutput(snap, settings, k)}
  BY DEF Produced
<1>8. LinksAreKnown(Merged')
  <2> SUFFICES ASSUME NEW k \in Keys, Merged'.link[k] # None
               PROVE  mem.hash[k[1]] # None /\ mem.set[k[2][2]] # None
    BY <1>3 DEF LinksAreKnown
  <2>1. CASE mem.link[k] # None
    BY <1>2, <2>1 DEF Trusted, LinksAreKnown
  <2>2. CASE Produced[k] # None /\ k[1] \in Entries(mem) /\ mem.set = settings
    <3>1. settings[k[2][2]] \in Settings
      BY KeyParts DEF TypeOK
    <3> QED
      BY <2>2, <3>1, NoneIsNothing DEF Entries
  <2> QED
    BY <1>5, <2>1, <2>2
<1>9. Vouches(Merged', Upcoming', src, settings)
  <2> SUFFICES ASSUME NEW k \in Keys, Merged'.link[k] # None, Upcoming'[k] # None,
                      mem.set[k[2][2]] = settings[k[2][2]],
                      \A g \in Reach(src, k[1]) : mem.hash[g] = src[g] /\ ~Unresolved(src, g)
               PROVE  Upcoming'[k] = CompilerOutput(src, settings, k)
    BY <1>3 DEF Vouches
  <2>1. mem.hash[k[1]] # None /\ src \in Tree /\ snap \in Tree
    BY <1>3, <1>8 DEF LinksAreKnown, TypeOK
  <2>2. CASE Produced[k] # None
    <3>1. Upcoming'[k] = CompilerOutput(snap, settings, k)
      BY <1>6, <1>7, <2>2
    <3>2. CompilerOutput(snap, settings, k) = CompilerOutput(src, settings, k)
      BY <1>2, <2>1, ReadIsCurrent
    <3> QED
      BY <3>1, <3>2
  <2>3. CASE Produced[k] = None
    <3>1. Upcoming'[k] = art[k] /\ mem.link[k] # None
      BY <1>5, <1>6, <2>3
    <3> QED
      BY <1>2, <3>1 DEF Trusted, Vouches
  <2> QED
    BY <2>2, <2>3
<1>10. UpcomingIsTrusted'
  <2>1. (Trusted(Merged, Upcoming) /\ StillAsRead(mem))'
    BY <1>1, <1>2, <1>8, <1>9 DEF Trusted, StillAsRead
  <2>2. \A k \in pendArts' : fresh'[k] # None /\ fresh'[k] = CompilerOutput(snap, settings, k)
    BY <1>1, <1>7
  <2> QED
    BY <1>1, <2>1, <2>2 DEF UpcomingIsTrusted
<1>11. FileIsTrusted'
  BY <1>1 DEF TrustInv, FileIsTrusted, Trusted, StillAsRead
<1> QED
  BY <1>1, <1>10, <1>11 DEF TrustInv, MemoryIsTrusted

(* What a step does to an artifact: nothing, or it is removed, or written      *)
(* because it is due.                                                          *)
Wrote(k) ==
    \/ art'[k] \in {None, art[k]}
    \/ pc = "writing" /\ k \in pendArts /\ art'[k] = fresh[k]

(* A step that changes neither the sources nor the settings, and no artifact   *)
(* but those the build in progress writes.                                     *)
LEMMA WritingIsTrusted ==
    ASSUME TypeOK, NoFallback, TrustInv, pc # "idle", pc' = pc,
           UNCHANGED <<src, cacheFile, settings, snap, job, mem, todo, fresh>>,
           pendArts' \subseteq pendArts,
           \A k \in Keys : Wrote(k),
           pc = "writing" => \A k \in Keys : Upcoming'[k] \in {None, Upcoming[k]}
    PROVE  TrustInv'
<1>1. \A k \in Keys : art'[k] \in {None, art[k], CompilerOutput(snap, settings, k)}
  BY DEF Wrote, TrustInv, UpcomingIsTrusted
<1>2. cacheFile # None => Trusted(cacheFile, art')
  <2> SUFFICES ASSUME cacheFile # None PROVE Trusted(cacheFile, art')
    OBVIOUS
  <2>1. Trusted(cacheFile, art) /\ StillAsRead(cacheFile)
    BY DEF TrustInv, FileIsTrusted
  <2> QED
    BY <1>1, <2>1, WrittenIsTrusted
<1>3. FileIsTrusted'
  BY <1>2 DEF TrustInv, FileIsTrusted, Trusted, StillAsRead
<1>4. MemoryIsTrusted'
  <2> SUFFICES ASSUME pc = "compiling" PROVE MemoryIsTrusted'
    BY DEF MemoryIsTrusted
  <2>1. Trusted(mem, art) /\ StillAsRead(mem) /\ (mem.set = settings \/ Entries(mem) = {})
    BY DEF TrustInv, MemoryIsTrusted
  <2>2. Trusted(mem, art')
    BY <1>1, <2>1, WrittenIsTrusted
  <2> QED
    BY <2>1, <2>2 DEF MemoryIsTrusted, Trusted, StillAsRead, Entries
<1>5. UpcomingIsTrusted'
  <2> SUFFICES ASSUME pc = "writing" PROVE UpcomingIsTrusted'
    BY DEF UpcomingIsTrusted
  <2>1. /\ Trusted(Merged, Upcoming) /\ StillAsRead(mem)
        /\ \A k \in pendArts : fresh[k] # None /\ fresh[k] = CompilerOutput(snap, settings, k)
    BY DEF TrustInv, UpcomingIsTrusted
  <2>2. Merged' = Merged
    BY DEF Merged, NewBuilds, BuildOf
  <2>3. Trusted(Merged, Upcoming')
    BY <2>1, FewerAreTrusted
  <2>4. Trusted(Merged, Upcoming)'
    BY <2>2, <2>3 DEF Trusted
  <2> QED
    BY <2>1, <2>4 DEF UpcomingIsTrusted, StillAsRead
<1> QED
  BY <1>3, <1>4, <1>5 DEF TrustInv

LEMMA WriteCacheIsTrusted ==
    ASSUME TypeOK, NoFallback, TrustInv, WriteCache
    PROVE  TrustInv'
<1>1. /\ pc = "writing" /\ pc' = "returned" /\ pendArts = {}
      /\ cacheFile' = Pruned
      /\ UNCHANGED <<src, art, settings, snap>>
  BY DEF WriteCache, WritingDone, request
<1>2. Trusted(Merged, Upcoming) /\ StillAsRead(mem)
  BY <1>1 DEF TrustInv, UpcomingIsTrusted
<1>3. \A k \in Keys : art[k] \in {None, Upcoming[k]}
  BY <1>1 DEF Upcoming
<1>4. Trusted(Merged, art)
  BY <1>2, <1>3, FewerAreTrusted
<1>5. Trusted(Pruned, art)
  BY <1>4, PrunedType, SameIsTrusted
<1>6. StillAsRead(Pruned)
  BY <1>2, PrunedType, MergedType DEF StillAsRead
<1>7. FileIsTrusted'
  BY <1>1, <1>5, <1>6 DEF FileIsTrusted, Trusted, StillAsRead
<1> QED
  BY <1>1, <1>7 DEF TrustInv, MemoryIsTrusted, UpcomingIsTrusted

(* An edit leaves what is on record for something else, or deletes the file.   *)
LEMMA EditIsTrusted ==
    ASSUME TypeOK, TypeOK', NoFallback, ~MayRevert, TrustInv,
           NEW f \in Files, NEW c \in Contents \cup {None}, Edit(f, c)
    PROVE  TrustInv'
<1>1. /\ src \in Tree /\ src' \in Tree
      /\ \A g \in Files : g # f => src'[g] = src[g]
      /\ src'[f] = c
      /\ UNCHANGED <<art, cacheFile, settings, pc, snap, job, mem, todo, fresh, pendArts>>
  BY DEF Edit, TypeOK, Tree, request, checked, written
<1>2. c = None \/ c \notin RecordedContents(f)
  BY DEF Edit
<1>3. /\ c = None \/ c # mem.hash[f]
      /\ cacheFile # None => c = None \/ c # cacheFile.hash[f]
  BY <1>2 DEF RecordedContents
<1>4. ASSUME NEW d, NEW a, Trusted(d, a), c = None \/ c # d.hash[f]
      PROVE  LinksAreKnown(d) /\ Vouches(d, a, src', settings)
  <2>1. src'[f] = None \/ src'[f] # d.hash[f]
    BY <1>1, <1>4
  <2>2. LinksAreKnown(d) /\ Vouches(d, a, src, settings)
    BY <1>4 DEF Trusted
  <2> QED
    BY <1>1, <2>1, <2>2, LeavingIsTrusted
<1>5. ASSUME NEW d, StillAsRead(d), c = None \/ c # d.hash[f]
      PROVE  \A g \in Files : d.hash[g] # None /\ d.hash[g] = src'[g] => snap[g] = src'[g]
  BY <1>1, <1>5 DEF StillAsRead
<1>6. FileIsTrusted'
  <2> SUFFICES ASSUME cacheFile # None
               PROVE  (Trusted(cacheFile, art) /\ (pc # "idle" => StillAsRead(cacheFile)))'
    BY <1>1 DEF FileIsTrusted
  <2>1. Trusted(cacheFile, art) /\ (pc # "idle" => StillAsRead(cacheFile))
    BY DEF TrustInv, FileIsTrusted
  <2>2. LinksAreKnown(cacheFile) /\ Vouches(cacheFile, art, src', settings)
    BY <1>3, <1>4, <2>1
  <2>3. pc # "idle" => \A g \in Files : cacheFile.hash[g] # None /\ cacheFile.hash[g] = src'[g]
                                           => snap[g] = src'[g]
    BY <1>3, <1>5, <2>1
  <2> QED
    BY <1>1, <2>2, <2>3 DEF Trusted, StillAsRead
<1>7. MemoryIsTrusted'
  <2> SUFFICES ASSUME pc = "compiling" PROVE MemoryIsTrusted'
    BY <1>1 DEF MemoryIsTrusted
  <2>1. Trusted(mem, art) /\ StillAsRead(mem) /\ (mem.set = settings \/ Entries(mem) = {})
    BY DEF TrustInv, MemoryIsTrusted
  <2>2. LinksAreKnown(mem) /\ Vouches(mem, art, src', settings)
    BY <1>3, <1>4, <2>1
  <2>3. \A g \in Files : mem.hash[g] # None /\ mem.hash[g] = src'[g] => snap[g] = src'[g]
    BY <1>3, <1>5, <2>1
  <2> QED
    BY <1>1, <2>1, <2>2, <2>3 DEF MemoryIsTrusted, Trusted, StillAsRead, Entries
<1>8. UpcomingIsTrusted'
  <2> SUFFICES ASSUME pc = "writing" PROVE UpcomingIsTrusted'
    BY <1>1 DEF UpcomingIsTrusted
  <2>1. /\ Trusted(Merged, Upcoming) /\ StillAsRead(mem)
        /\ \A k \in pendArts : fresh[k] # None /\ fresh[k] = CompilerOutput(snap, settings, k)
    BY DEF TrustInv, UpcomingIsTrusted
  <2>2. Merged' = Merged /\ Upcoming' = Upcoming
    BY <1>1 DEF Merged, NewBuilds, BuildOf, Upcoming
  <2>3. LinksAreKnown(Merged) /\ Vouches(Merged, Upcoming, src', settings)
    BY <1>3, <1>4, <2>1, MergedType
  <2>4. \A g \in Files : mem.hash[g] # None /\ mem.hash[g] = src'[g] => snap[g] = src'[g]
    BY <1>3, <1>5, <2>1
  <2> QED
    BY <1>1, <2>1, <2>2, <2>3, <2>4 DEF UpcomingIsTrusted, Trusted, StillAsRead
<1> QED
  BY <1>6, <1>7, <1>8 DEF TrustInv

LEMMA ConfigureIsTrusted ==
    ASSUME TypeOK, ~MayRevert, TrustInv,
           NEW p \in Profiles, NEW s \in Settings, ChangeSettings(p, s)
    PROVE  TrustInv'
<1>1. /\ pc = "idle" /\ pc' = "idle"
      /\ s \notin RecordedSettings(p)
      /\ \A q \in Profiles : q # p => settings'[q] = settings[q]
      /\ settings'[p] = s
      /\ UNCHANGED <<src, art, cacheFile>>
  BY DEF ChangeSettings, TypeOK
<1>2. FileIsTrusted'
  <2> SUFFICES ASSUME cacheFile # None PROVE Trusted(cacheFile, art)'
    BY <1>1 DEF FileIsTrusted
  <2>1. LinksAreKnown(cacheFile) /\ Vouches(cacheFile, art, src, settings)
    BY DEF TrustInv, FileIsTrusted, Trusted
  <2>2. settings'[p] # cacheFile.set[p]
    BY <1>1 DEF RecordedSettings
  <2>3. Vouches(cacheFile, art, src, settings')
    BY <1>1, <2>1, <2>2, ReconfiguringIsTrusted
  <2> QED
    BY <1>1, <2>1, <2>3 DEF Trusted
<1> QED
  BY <1>1, <1>2 DEF TrustInv, MemoryIsTrusted, UpcomingIsTrusted

(* A step that ends outside of a build's middle, with the sources and settings *)
(* as they are, nothing new on disk, and the sources read kept or forgotten.   *)
LEMMA EndIsTrusted ==
    ASSUME TrustInv, pc' \in {"idle", "resolved", "consuming", "returned"},
           UNCHANGED <<src, settings>>,
           cacheFile' \in {None, cacheFile},
           \A k \in Keys : art'[k] \in {None, art[k]},
           pc' = "idle" \/ snap' = src \/ (pc # "idle" /\ snap' = snap)
    PROVE  TrustInv'
<1>1. cacheFile # None => Trusted(cacheFile, art')
  BY FewerAreTrusted DEF TrustInv, FileIsTrusted
<1>2. FileIsTrusted'
  BY <1>1 DEF TrustInv, FileIsTrusted, Trusted, StillAsRead
<1> QED
  BY <1>2 DEF TrustInv, MemoryIsTrusted, UpcomingIsTrusted

LEMMA TrustPreserved ==
    ASSUME ~MayRevert, NoFallback, TypeOK, TypeOK', UnusedIsEmpty, TrustInv, [Next]_vars
    PROVE  TrustInv'
<1>1. ASSUME NEW roots \in [Units -> SUBSET Files], NEW m \in CacheModes, WithSources(roots, m)
      PROVE  TrustInv'
  BY <1>1, EndIsTrusted DEF WithSources, disk
<1>2. CASE Preprocess
  BY <1>2, PreprocessIsTrusted
<1>3. CASE PreprocessEphemeral
  <2>1. /\ pc = "resolved" /\ pc' = "compiling" /\ mem = EmptyCache /\ mem' = mem
        /\ UNCHANGED <<src, art, cacheFile, settings, snap>>
    BY <1>3 DEF PreprocessEphemeral, disk, request, UnusedIsEmpty
  <2>2. FileIsTrusted'
    BY <2>1 DEF TrustInv, FileIsTrusted, Trusted, StillAsRead
  <2>3. MemoryIsTrusted'
    BY <2>1 DEF EmptyCache, MemoryIsTrusted, Trusted, LinksAreKnown, Vouches, StillAsRead, Entries
  <2> QED
    BY <2>1, <2>2, <2>3 DEF TrustInv, UpcomingIsTrusted
<1>4. CASE Compile
  BY <1>4, CompileIsTrusted
<1>5. CASE CompileInMemory
  BY <1>5, EndIsTrusted DEF CompileInMemory, disk, request
<1>6. CASE CompileErrors
  BY <1>6, EndIsTrusted DEF CompileErrors, disk, request
<1>7. ASSUME NEW k \in Keys, WriteArtifact(k) PROVE TrustInv'
  <2>1. /\ pc = "writing" /\ pc' = pc /\ k \in pendArts
        /\ art' = [art EXCEPT ![k] = fresh[k]] /\ pendArts' = pendArts \ {k}
        /\ UNCHANGED <<src, cacheFile, settings, snap, job, mem, todo, fresh>>
    BY <1>7 DEF WriteArtifact, request, checked
  <2>2. \A l \in Keys : Wrote(l)
    BY <2>1 DEF Wrote, TypeOK
  <2>3. \A l \in Keys : Upcoming'[l] = Upcoming[l]
    BY <2>1 DEF Upcoming, TypeOK
  <2> QED
    BY <2>1, <2>2, <2>3, WritingIsTrusted
<1>8. ASSUME NEW b \in pendInfos, WriteBuildInfo(b) PROVE TrustInv'
  <2>1. /\ pc = "writing" /\ pc' = pc
        /\ UNCHANGED <<src, cacheFile, settings, snap, job, mem, todo, fresh, art, pendArts>>
    BY <1>8 DEF WriteBuildInfo, request, checked
  <2>2. \A l \in Keys : Wrote(l) /\ Upcoming'[l] = Upcoming[l]
    BY <2>1 DEF Wrote, Upcoming
  <2> QED
    BY <2>1, <2>2, WritingIsTrusted
<1>9. ASSUME NEW b \in infos, RemoveOutdatedBuild(b) PROVE TrustInv'
  <2>1. /\ pc = "writing" /\ pc' = pc
        /\ UNCHANGED <<src, cacheFile, settings, snap, job, mem, todo, fresh, art, pendArts>>
    BY <1>9 DEF RemoveOutdatedBuild, WritingDone, request, checked, written
  <2>2. \A l \in Keys : Wrote(l) /\ Upcoming'[l] = Upcoming[l]
    BY <2>1 DEF Wrote, Upcoming
  <2> QED
    BY <2>1, <2>2, WritingIsTrusted
<1>10. CASE WriteCache
  BY <1>10, WriteCacheIsTrusted
<1>11. CASE ConsumeInMemory
  BY <1>11, EndIsTrusted DEF ConsumeInMemory, WritingDone, disk, request
<1>12. CASE Return
  BY <1>12, EndIsTrusted DEF Return, Forget, disk
<1>13. CASE CompilerFails
  BY <1>13, EndIsTrusted DEF CompilerFails, Forget, disk
<1>14. ASSUME NEW f \in Files, NEW c \in Contents \cup {None}, Edit(f, c)
       PROVE  TrustInv'
  BY <1>14, EditIsTrusted
<1>15. ASSUME NEW p \in Profiles, NEW s \in Settings, ChangeSettings(p, s)
       PROVE  TrustInv'
  BY <1>15, ConfigureIsTrusted
<1>16. ASSUME NEW k \in Keys, DeleteArtifact(k) PROVE TrustInv'
  <2>1. \A l \in Keys : art'[l] \in {None, art[l]}
    BY <1>16 DEF DeleteArtifact, TypeOK
  <2>2. \A l \in Keys : Upcoming'[l] \in {None, Upcoming[l]}
    BY <1>16, <2>1 DEF DeleteArtifact, Upcoming, written
  <2>3. CASE pc = "idle"
    BY <1>16, <2>1, <2>3, EndIsTrusted DEF DeleteArtifact
  <2>4. CASE pc # "idle"
    <3>1. /\ pc' = pc /\ pendArts' = pendArts
          /\ UNCHANGED <<src, cacheFile, settings, snap, job, mem, todo, fresh>>
      BY <1>16 DEF DeleteArtifact, request, checked, written
    <3>2. \A l \in Keys : Wrote(l)
      BY <2>1 DEF Wrote
    <3> QED
      BY <2>2, <2>4, <3>1, <3>2, WritingIsTrusted
  <2> QED
    BY <2>3, <2>4
<1>17. CASE Cleanup
  BY <1>17, EndIsTrusted DEF Cleanup, NoArtifacts
<1>18. CASE Crash
  <2>1. \A l \in Keys : art'[l] \in {None, art[l]}
    BY <1>18 DEF Crash, TypeOK
  <2>2. pc' = "idle" /\ cacheFile' \in {None, cacheFile} /\ UNCHANGED <<src, settings>>
    BY <1>18 DEF Crash, Forget
  <2> QED
    BY <2>1, <2>2, EndIsTrusted
<1>19. CASE UNCHANGED vars
  BY <1>19 DEF vars, disk, request, checked, written, TrustInv, FileIsTrusted, MemoryIsTrusted,
               UpcomingIsTrusted, Trusted, StillAsRead, Entries, Merged, NewBuilds, BuildOf,
               Upcoming
<1> QED
  BY <1>1, <1>2, <1>3, <1>4, <1>5, <1>6, <1>7, <1>8, <1>9, <1>10, <1>11, <1>12, <1>13,
     <1>14, <1>15, <1>16, <1>17, <1>18, <1>19 DEF Next, Build, Advance, User

(* The inductive invariant, wherever builds die, whether they use the cache,   *)
(* and whatever is edited between their reads of the sources.                  *)
THEOREM TrustHolds ==
    ASSUME ~MayRevert, NoFallback
    PROVE  Spec => []TrustInv
<1>1. Init => TypeOK /\ UnusedIsEmpty /\ TrustInv
  BY InitialTypes
     DEF Init, UnusedIsEmpty, TrustInv, FileIsTrusted, MemoryIsTrusted, UpcomingIsTrusted
<1>2. TypeOK /\ UnusedIsEmpty /\ TrustInv /\ [Next]_vars
          => (TypeOK /\ UnusedIsEmpty /\ TrustInv)'
  BY TypesPreserved, UnusedPreserved, TrustPreserved
<1> QED
  BY <1>1, <1>2, PTL DEF Spec

(* The promise of the cache survives crashes at any step, builds that bypass   *)
(* the cache and edits between the two reads of the sources, when no file and  *)
(* no profile returns to a content or settings that are on record.             *)
THEOREM CacheSurvivesCrashes ==
    ASSUME ~MayRevert, NoFallback
    PROVE  Spec => []CleanIsCurrent
<1>1. TrustInv => CleanIsCurrent
  BY DEF TrustInv, FileIsTrusted, Trusted, Vouches, CleanIsCurrent, Clean
<1> QED
  BY <1>1, TrustHolds, PTL

-----------------------------------------------------------------------------
(* What is reused and what is compiled.                                        *)

(* What happens behind the cache: nothing, or whatever happens leaves a trace, *)
(* for no source and no settings return to what is on record, and no source    *)
(* changes between the two reads of a build.                                   *)
Traceable == Undisturbed \/ (~MayRevert /\ ~MayRace)

SettingsAreFixed == \A s, t \in Settings : s = t

(* What the filter relies on: the sources do not change between their reads;   *)
(* an artifact the cache file links to is current when its entry is clean and  *)
(* its settings are those of the build; and what memory holds is what was read.*)
ReadsAreOne == pc = "resolved" => snap = src
MemoryIsRead == pc = "compiling" => \A f \in Files : mem.hash[f] \in {None, snap[f]}

Sound(c, k) ==
    /\ c.hash[k[1]] # None /\ c.set[k[2][2]] # None
    /\ c.set[k[2][2]] = settings[k[2][2]] /\ Clean(c, k[1])
           => art[k] = CompilerOutput(src, settings, k)
    /\ Undisturbed => art[k].set = c.set[k[2][2]]

FileIsDependable ==
    pc = "resolved" /\ cacheFile # None =>
        \A k \in Keys : cacheFile.link[k] # None /\ art[k] # None => Sound(cacheFile, k)

Dependable == ReadsAreOne /\ MemoryIsRead /\ FileIsDependable

(* Undisturbed builds are dependable, for cache and artifacts were recorded    *)
(* together.                                                                   *)
LEMMA RecordsAreDependable ==
    ASSUME TypeOK, NoFallback, RecordedTogether
    PROVE  Dependable
<1>1. ASSUME pc = "resolved", cacheFile # None,
             NEW k \in Keys, cacheFile.link[k] # None, art[k] # None
      PROVE  Sound(cacheFile, k)
  <2>1. cacheFile \in Cache /\ Agrees(cacheFile, art)
    BY <1>1 DEF TypeOK, RecordedTogether, DiskAgrees
  <2>2. cacheFile.hash[k[1]] # None /\ art[k].set = cacheFile.set[k[2][2]]
    BY <1>1, <2>1 DEF Agrees
  <2>3. art[k].set # None
    BY <1>1, NoneIsNothing DEF TypeOK, Artifact
  <2>4. cacheFile.set[k[2][2]] = settings[k[2][2]] /\ Clean(cacheFile, k[1])
            => art[k] = CompilerOutput(src, settings, k)
    BY <1>1, <2>1, AgreeingIsCurrent
  <2> QED
    BY <2>2, <2>3, <2>4 DEF Sound
<1>2. FileIsDependable
  BY <1>1 DEF FileIsDependable
<1> QED
  BY <1>2 DEF RecordedTogether, ReadsAgree, MemoryAgrees, Dependable, ReadsAreOne, MemoryIsRead

(* So are builds whose disturbances all leave a trace.                         *)
LEMMA TrustIsDependable ==
    ASSUME ~Undisturbed, ReadsAreOne, MemoryIsRead, TrustInv
    PROVE  Dependable
<1>1. FileIsDependable
  BY DEF FileIsDependable, Sound, TrustInv, FileIsTrusted, Trusted, LinksAreKnown, Vouches, Clean
<1> QED
  BY <1>1 DEF Dependable

(* Without an edit between them, the two reads of a build agree.               *)
LEMMA ReadsPreserved ==
    ASSUME ~MayRace, TypeOK, UnusedIsEmpty, ReadsAreOne, MemoryIsRead, [Next]_vars
    PROVE  ReadsAreOne' /\ MemoryIsRead'
<1>1. ASSUME pc' \notin {"resolved", "compiling"} PROVE ReadsAreOne' /\ MemoryIsRead'
  BY <1>1 DEF ReadsAreOne, MemoryIsRead
<1>2. ASSUME UNCHANGED <<pc, src, snap, mem>> PROVE ReadsAreOne' /\ MemoryIsRead'
  BY <1>2 DEF ReadsAreOne, MemoryIsRead
<1>3. ASSUME NEW roots \in [Units -> SUBSET Files], NEW m \in CacheModes, WithSources(roots, m)
      PROVE  ReadsAreOne' /\ MemoryIsRead'
  BY <1>3 DEF WithSources, disk, ReadsAreOne, MemoryIsRead
<1>4. CASE Preprocess
  <2>1. /\ pc = "resolved" /\ pc' = "compiling" /\ snap' = snap /\ snap = src
        /\ mem' = WithEntries(Kept, job, snap)
    BY <1>4 DEF Preprocess, request, ReadsAreOne
  <2>2. Kept \in Cache /\ snap \in Tree
    BY KeptType DEF TypeOK
  <2>3. mem'.hash = [f \in Files |-> IF Kept.hash[f] = None /\ f \in AllFiles(job)
                                     THEN snap[f] ELSE Kept.hash[f]]
    BY <2>1, <2>2, WithEntriesParts
  <2>4. \A f \in Files : Kept.hash[f] \in {None, src[f]}
    BY KeptIsUnchanged
  <2> QED
    BY <2>1, <2>3, <2>4 DEF ReadsAreOne, MemoryIsRead
<1>5. CASE PreprocessEphemeral
  BY <1>5 DEF PreprocessEphemeral, UnusedIsEmpty, EmptyCache, ReadsAreOne, MemoryIsRead
<1>6. CASE Compile
  BY <1>1, <1>6 DEF Compile
<1>7. CASE CompileInMemory
  BY <1>1, <1>7 DEF CompileInMemory
<1>8. CASE CompileErrors
  BY <1>1, <1>8 DEF CompileErrors
<1>9. ASSUME NEW k \in Keys, WriteArtifact(k) PROVE ReadsAreOne' /\ MemoryIsRead'
  BY <1>1, <1>9 DEF WriteArtifact
<1>10. ASSUME NEW b \in pendInfos, WriteBuildInfo(b) PROVE ReadsAreOne' /\ MemoryIsRead'
  BY <1>1, <1>10 DEF WriteBuildInfo
<1>11. ASSUME NEW b \in infos, RemoveOutdatedBuild(b) PROVE ReadsAreOne' /\ MemoryIsRead'
  BY <1>1, <1>11 DEF RemoveOutdatedBuild, WritingDone
<1>12. CASE WriteCache
  BY <1>1, <1>12 DEF WriteCache
<1>13. CASE ConsumeInMemory
  BY <1>1, <1>13 DEF ConsumeInMemory
<1>14. ASSUME Forget PROVE ReadsAreOne' /\ MemoryIsRead'
  BY <1>1, <1>14 DEF Forget
<1>15. ASSUME NEW f \in Files, NEW c \in Contents \cup {None}, Edit(f, c)
       PROVE  ReadsAreOne' /\ MemoryIsRead'
  BY <1>15 DEF Edit, request, checked, ReadsAreOne, MemoryIsRead
<1>16. ASSUME NEW p \in Profiles, NEW s \in Settings, ChangeSettings(p, s)
       PROVE  ReadsAreOne' /\ MemoryIsRead'
  BY <1>2, <1>16 DEF ChangeSettings, request, checked
<1>17. ASSUME NEW k \in Keys, DeleteArtifact(k) PROVE ReadsAreOne' /\ MemoryIsRead'
  BY <1>2, <1>17 DEF DeleteArtifact, request, checked
<1>18. CASE Cleanup
  BY <1>2, <1>18 DEF Cleanup, request, checked
<1>19. CASE UNCHANGED vars
  BY <1>2, <1>19 DEF vars, disk, request, checked
<1> QED
  BY <1>3, <1>4, <1>5, <1>6, <1>7, <1>8, <1>9, <1>10, <1>11, <1>12, <1>13, <1>14,
     <1>15, <1>16, <1>17, <1>18, <1>19
  DEF Next, Build, Advance, User, Return, CompilerFails, Crash

THEOREM DependableHolds ==
    ASSUME Traceable, NoFallback
    PROVE  Spec => []Dependable
<1>1. CASE Undisturbed
  <2>1. TypeOK /\ RecordedTogether => Dependable
    BY RecordsAreDependable
  <2>2. Spec => []RecordedTogether
    BY <1>1, RecordsAreSound
  <2> QED
    BY <2>1, <2>2, TypeCorrect, PTL
<1>2. CASE ~Undisturbed
  <2>1. ~MayRevert /\ ~MayRace
    BY <1>2 DEF Traceable
  <2>2. Init => UnusedIsEmpty /\ ReadsAreOne /\ MemoryIsRead
    BY DEF Init, UnusedIsEmpty, ReadsAreOne, MemoryIsRead
  <2>3. TypeOK /\ UnusedIsEmpty /\ ReadsAreOne /\ MemoryIsRead /\ [Next]_vars
            => UnusedIsEmpty' /\ ReadsAreOne' /\ MemoryIsRead'
    BY <2>1, UnusedPreserved, ReadsPreserved
  <2>4. Spec => []TrustInv
    BY <2>1, TrustHolds
  <2>5. ReadsAreOne /\ MemoryIsRead /\ TrustInv => Dependable
    BY <1>2, TrustIsDependable
  <2> QED
    BY <2>2, <2>3, <2>4, <2>5, TypeCorrect, PTL DEF Spec
<1> QED
  BY <1>1, <1>2

(* A file the compiler has seen and no artifact is linked to declares no       *)
(* contract: that it has no artifact says nothing is missing.                  *)
SilentAreBare(c) ==
    /\ c.seen \subseteq Entries(c)
    /\ \A f \in c.seen : Linked(c, f) = {} => ~Yields(c.hash, f)

SilenceIsRecorded ==
    /\ cacheFile # None => SilentAreBare(cacheFile)
    /\ pc = "compiling" => SilentAreBare(mem)
    /\ pc = "writing" => SilentAreBare(Merged)

(* Of the files requested: what is reused is what the compiler would produce,  *)
(* or is of former settings and compiled again; what yields an artifact is     *)
(* reused or compiled.  An artifact of former settings bears them, unless a    *)
(* build that died or bypassed the cache has written it anew.                  *)
FilterIsSound ==
    pc \in {"compiling", "writing", "consuming"} =>
        \A k \in Requested(job) :
            /\ reuse[k] # None /\ k[1] \notin dirty =>
                  \/ reuse[k].art = CompilerOutput(snap, settings, k)
                  \/ /\ k[1] \in todo[k[2]]
                     /\ ~SettingsAreFixed
                     /\ Undisturbed => reuse[k].art.set # settings[k[2][2]]
            /\ Yields(snap, k[1]) =>
                  k[1] \in todo[k[2]] \/ (reuse[k] # None /\ k[1] \notin dirty)

(* What is on disk, or soon will be, for the files requested. *)
StoredIsFresh ==
    /\ pc = "compiling" =>
          \A k \in Requested(job) :
              Yields(snap, k[1]) /\ k[1] \notin todo[k[2]]
                  => art[k] \in {None, CompilerOutput(snap, settings, k)}
    /\ pc = "writing" =>
          \A k \in Requested(job) :
              Yields(snap, k[1]) => Upcoming[k] \in {None, CompilerOutput(snap, settings, k)}

FilterInv ==
    /\ SilenceIsRecorded
    /\ FilterIsSound
    /\ StoredIsFresh
    /\ Undisturbed \/ SettingsAreFixed => ReusedIsCurrent

LEMMA RequestedParts ==
    ASSUME NEW j, NEW k \in Requested(j)
    PROVE  k \in Keys /\ k[1] \in j[k[2]]
  BY DEF Requested

LEMMA OutputOfYield ==
    ASSUME TypeOK, NEW k \in Keys
    PROVE  /\ Yields(snap, k[1]) => CompilerOutput(snap, settings, k) # None
           /\ ~Yields(snap, k[1]) => CompilerOutput(snap, settings, k) = None
           /\ Produced[k] = IF k[1] \in todo[k[2]] THEN CompilerOutput(snap, settings, k)
                            ELSE None
<1>1. CompilerOutput(snap, settings, k) =
        IF Yields(snap, k[1]) THEN Compiled(snap, settings, k) ELSE None
  BY DEF CompilerOutput
<1>2. Compiled(snap, settings, k) \in Artifact
  <2>1. Stamp(snap, k[1]) \in Tree
    BY DEF Stamp, Tree, TypeOK
  <2>2. settings[k[2][2]] \in Settings
    BY KeyParts DEF TypeOK
  <2> QED
    BY <2>1, <2>2 DEF Compiled, Artifact
<1>3. Produced[k] = IF k[1] \in todo[k[2]] THEN CompilerOutput(snap, settings, k) ELSE None
  BY DEF Produced
<1> QED
  BY <1>1, <1>2, <1>3, NoneIsNoArtifact

(* Where a reusable artifact comes from. *)
LEMMA ReuseSource ==
    ASSUME TypeOK, NEW k \in Keys, ReadArtifacts(Loaded, DiskArtifacts)[k] # None
    PROVE  /\ Usable /\ Intact /\ DiskArtifacts = art
           /\ src[k[1]] # None
           /\ Loaded.link[k] # None
           /\ cacheFile.link[k] # None
           /\ art[k] # None
           /\ ReadArtifacts(Loaded, DiskArtifacts)[k].art = art[k]
<1>1. /\ Loaded.link[k] # None
      /\ AllReadable(Loaded, DiskArtifacts)
      /\ ReadArtifacts(Loaded, DiskArtifacts)[k].art = DiskArtifacts[k]
  BY DEF ReadArtifacts
<1>2. Usable /\ Intact
  BY <1>1, LoadedParts
<1>3. DiskArtifacts = art
  BY <1>2, LoadedParts DEF DiskArtifacts
<1>4. src[k[1]] # None /\ cacheFile.link[k] # None
  BY <1>1, <1>2, LoadedParts
<1> QED
  BY <1>1, <1>2, <1>3, <1>4 DEF AllReadable

(* An entry with artifacts that is kept keeps one of them. *)
LEMMA KeptHasLink ==
    ASSUME TypeOK, NEW k \in Keys, Loaded.link[k] # None, Kept.hash[k[1]] # None
    PROVE  Linked(Kept, k[1]) # {}
<1>1. k[1] \in Files /\ k \in Linked(Loaded, k[1])
  BY KeyParts DEF Linked
<1>2. k[1] \in Surviving(Loaded) /\ k[1] \notin DirtyFiles(DropProfiles(Loaded))
  BY <1>1, KeptParts
<1>3. PICK l \in Keys : l[1] = k[1] /\ l[2][2] \notin DirtyProfiles(Loaded) /\ Loaded.link[l] # None
  BY <1>1, <1>2 DEF Surviving
<1>4. Kept.link[l] # None
  BY <1>2, <1>3, KeptParts
<1> QED
  BY <1>3, <1>4 DEF Linked

(* What is kept for a file that was compiled and has no artifact. *)
LEMMA KeptSilence ==
    ASSUME TypeOK, SilenceIsRecorded, NEW f \in Kept.seen
    PROVE  /\ f \in Files /\ Kept.hash[f] # None /\ Kept.hash[f] = src[f]
           /\ Linked(Kept, f) = {} => ~Yields(Kept.hash, f)
<1>1. /\ f \in Loaded.seen /\ f \in Surviving(Loaded)
      /\ f \notin DirtyFiles(DropProfiles(Loaded))
  BY KeptParts
<1>2. Usable /\ Intact /\ f \in cacheFile.seen /\ src[f] # None /\ f \in Files
  BY <1>1, LoadedParts DEF Exists
<1>3. SilentAreBare(cacheFile) /\ cacheFile.hash[f] # None
  BY <1>2 DEF SilenceIsRecorded, Usable, SilentAreBare, Entries
<1>4. Kept.hash[f] = cacheFile.hash[f]
  BY <1>1, <1>2, KeptParts, LoadedParts
<1>5. Kept.hash[f] # None /\ Kept.hash[f] = src[f]
  BY <1>2, <1>3, <1>4, KeptIsUnchanged
<1>6. ASSUME Linked(Kept, f) = {} PROVE ~Yields(Kept.hash, f)
  <2>1. Linked(cacheFile, f) = {}
    <3> SUFFICES ASSUME NEW k \in Keys, k[1] = f, cacheFile.link[k] # None PROVE FALSE
      BY DEF Linked
    <3>1. Loaded.link[k] # None
      BY <1>2, LoadedParts
    <3> QED
      BY <1>5, <1>6, <3>1, KeptHasLink
  <2>2. ~Yields(cacheFile.hash, f)
    BY <1>2, <1>3, <2>1 DEF SilentAreBare
  <2> QED
    BY <1>4, <2>2 DEF Yields
<1> QED
  BY <1>2, <1>5, <1>6

(* A reusable artifact of a requested file under the settings of the build: it *)
(* is what the compiler would produce if its entry is kept.                    *)
LEMMA SurvivorIsCurrent ==
    ASSUME TypeOK, NoFallback, Dependable, RequestIsRead, pc = "resolved",
           NEW k \in Requested(job), ReadArtifacts(Loaded, DiskArtifacts)[k] # None,
           Kept.hash[k[1]] # None, k[2][2] \notin DirtyProfiles(Loaded)
    PROVE  art[k] = CompilerOutput(src, settings, k)
<1> DEFINE f == k[1]
           dropped == DropProfiles(Loaded)
<1>1. /\ k \in Keys /\ f \in job[k[2]] /\ f \in Files /\ k[2] \in Units
      /\ k[2][2] \in Profiles /\ src \in Tree
  BY RequestedParts, KeyParts DEF TypeOK
<1>2. /\ Usable /\ Intact /\ src[f] # None /\ art[k] # None
      /\ Loaded.link[k] # None /\ cacheFile.link[k] # None
  BY <1>1, ReuseSource
<1>3. Kept.link[k] # None
  BY <1>1, <1>2, KeptParts
<1>4. /\ cacheFile \in Cache /\ cacheFile # None
      /\ \A g \in Files : dropped.hash[g] # None => dropped.hash[g] = cacheFile.hash[g]
  BY <1>1, <1>3, KeptWasCached
<1>5. \A g \in Reach(src, f) : dropped.hash[g] = src[g]
  BY <1>1, KeptIsUnchanged
<1>6. Reach(src, f) \subseteq Exists(src)
  BY <1>1, <1>2, ReachExists
<1>7. \A g \in Reach(src, f) : cacheFile.hash[g] = src[g]
  BY <1>4, <1>5, <1>6 DEF Exists
<1>8. \A g \in Reach(src, f) : ~Unresolved(src, g)
  <2> TAKE g \in Reach(src, f)
  <2>1. snap = src
    BY DEF Dependable, ReadsAreOne
  <2>2. g \in job[k[2]]
    BY <1>1, <2>1 DEF RequestIsRead
  <2>3. g \in AllFiles(job)
    BY <1>1, <2>2 DEF AllFiles
  <2> QED
    BY <1>2, <2>1, <2>3 DEF Usable, Invalidated
<1>9. Clean(cacheFile, f)
  BY <1>7, <1>8 DEF Clean
<1>10. Sound(cacheFile, k)
  BY <1>1, <1>2, <1>4 DEF Dependable, FileIsDependable
<1>11. cacheFile.set[k[2][2]] = settings[k[2][2]]
  <2>1. Loaded.set = cacheFile.set
    BY <1>2, LoadedParts
  <2>2. cacheFile.set[k[2][2]] \in {None, settings[k[2][2]]}
    BY <1>1, <2>1 DEF DirtyProfiles
  <2> QED
    BY <2>2, <1>10 DEF Sound
<1> QED
  BY <1>9, <1>10, <1>11 DEF Sound

(* One under former settings: its file is compiled again. *)
LEMMA OutdatedIsCompiled ==
    ASSUME TypeOK, Dependable, pc = "resolved",
           NEW k \in Keys, ReadArtifacts(Loaded, DiskArtifacts)[k] # None,
           k[2][2] \in DirtyProfiles(Loaded), NEW r
    PROVE  /\ ~SettingsAreFixed
           /\ Undisturbed => art[k].set # settings[k[2][2]]
           /\ Missing(Kept, r, k[1], k[2])
<1>1. /\ Usable /\ Intact /\ art[k] # None
      /\ Loaded.link[k] # None /\ cacheFile.link[k] # None
  BY ReuseSource
<1>2. cacheFile # None /\ Loaded.set = cacheFile.set
  BY <1>1, LoadedParts
<1>3. Undisturbed => art[k].set = cacheFile.set[k[2][2]]
  BY <1>1, <1>2 DEF Dependable, FileIsDependable, Sound
<1>4. cacheFile.set[k[2][2]] # None /\ cacheFile.set[k[2][2]] # settings[k[2][2]]
  BY <1>2 DEF DirtyProfiles
<1>5. Kept.link[k] = None /\ k = <<k[1], k[2]>>
  BY KeptParts, KeyParts
<1>6. Kept.hash[k[1]] # None => Linked(Kept, k[1]) # {}
  BY <1>1, KeptHasLink
<1>7. Missing(Kept, r, k[1], k[2])
  BY <1>5, <1>6 DEF Missing
<1>8. cacheFile.set[k[2][2]] \in Settings /\ settings[k[2][2]] \in Settings
  BY <1>2, <1>4, KeyParts DEF TypeOK, Cache
<1>9. ~SettingsAreFixed
  BY <1>4, <1>8 DEF SettingsAreFixed
<1> QED
  BY <1>3, <1>4, <1>7, <1>9

(* What yields an artifact and is not compiled again is there to be reused. *)
LEMMA UncompiledIsReused ==
    ASSUME TypeOK, SilenceIsRecorded, NEW k \in Keys, Yields(src, k[1]),
           ~Missing(Kept, ReadArtifacts(Loaded, DiskArtifacts), k[1], k[2])
    PROVE  /\ ReadArtifacts(Loaded, DiskArtifacts)[k] # None
           /\ k[1] \notin DirtyFiles(DropProfiles(Loaded))
<1> DEFINE r == ReadArtifacts(Loaded, DiskArtifacts)
           f == k[1]
<1>1. f \in Files /\ k = <<f, k[2]>>
  BY KeyParts
<1>2. /\ Kept.hash[f] # None
      /\ \/ f \in Kept.seen /\ Linked(Kept, f) = {}
         \/ /\ Kept.link[<<f, k[2]>>] # None
            /\ \A l \in Linked(Kept, f) : l[2][1] = k[2][1] => r[l] # None
  BY DEF Missing
<1>3. f \notin DirtyFiles(DropProfiles(Loaded)) /\ Kept.hash[f] = src[f]
  BY <1>1, <1>2, KeptIsUnchanged
<1>4. ~(f \in Kept.seen /\ Linked(Kept, f) = {})
  BY <1>3, KeptSilence DEF Yields
<1>5. k \in Linked(Kept, f)
  BY <1>1, <1>2, <1>4 DEF Linked
<1> QED
  BY <1>2, <1>3, <1>4, <1>5

LEMMA PreprocessFilters ==
    ASSUME TypeOK, NoFallback, Dependable, RequestIsRead, FilterInv, Preprocess
    PROVE  FilterInv'
<1> DEFINE r == ReadArtifacts(Loaded, DiskArtifacts)
<1>1. /\ pc = "resolved" /\ pc' = "compiling" /\ snap = src
      /\ reuse' = r
      /\ dirty' = DirtyFiles(DropProfiles(Loaded))
      /\ todo' = ToCompile(Kept, r, job)
      /\ mem' = WithEntries(Kept, job, snap)
      /\ art' = DiskArtifacts
      /\ UNCHANGED <<src, cacheFile, settings, job, snap>>
  BY DEF Preprocess, request, Dependable, ReadsAreOne
<1>2. ASSUME NEW k \in Requested(job)
      PROVE  k[1] \in todo'[k[2]] <=> Missing(Kept, r, k[1], k[2])
  <2>1. k[2] \in Units /\ k[1] \in job[k[2]]
    BY RequestedParts, KeyParts
  <2> HIDE DEF r
  <2> QED
    BY <1>1, <2>1 DEF ToCompile
<1>3. ASSUME NEW k \in Requested(job), r[k] # None, k[1] \notin dirty'
      PROVE  \/ r[k].art = CompilerOutput(snap, settings, k)
             \/ /\ k[1] \in todo'[k[2]]
                /\ ~SettingsAreFixed
                /\ Undisturbed => r[k].art.set # settings[k[2][2]]
  <2>1. /\ k \in Keys /\ k[1] \in Files /\ Usable /\ Intact /\ src[k[1]] # None
        /\ Loaded.link[k] # None /\ cacheFile.link[k] # None /\ art[k] # None
        /\ r[k].art = art[k]
    BY <1>3, RequestedParts, KeyParts, ReuseSource
  <2>2. CASE k[2][2] \in DirtyProfiles(Loaded)
    <3>1. /\ ~SettingsAreFixed /\ Missing(Kept, r, k[1], k[2])
          /\ Undisturbed => art[k].set # settings[k[2][2]]
      BY <1>1, <1>3, <2>1, <2>2, OutdatedIsCompiled
    <3> HIDE DEF r
    <3> QED
      BY <1>2, <2>1, <3>1
  <2>3. CASE k[2][2] \notin DirtyProfiles(Loaded)
    <3>1. k[1] \in Surviving(Loaded)
      BY <2>1, <2>3 DEF Surviving
    <3>2. cacheFile # None /\ cacheFile.hash[k[1]] # None
      BY <1>1, <2>1 DEF Usable, Dependable, FileIsDependable, Sound
    <3>3. Kept.hash[k[1]] # None
      BY <1>1, <1>3, <2>1, <3>1, <3>2, KeptParts, LoadedParts
    <3>4. art[k] = CompilerOutput(src, settings, k)
      BY <1>1, <1>3, <2>3, <3>3, SurvivorIsCurrent
    <3> QED
      BY <1>1, <2>1, <3>4
  <2> QED
    BY <2>2, <2>3
<1>4. ASSUME NEW k \in Requested(job), Yields(snap, k[1]), k[1] \notin todo'[k[2]]
      PROVE  r[k] # None /\ k[1] \notin dirty'
  <2>1. k \in Keys
    BY RequestedParts
  <2>2. ~Missing(Kept, r, k[1], k[2])
    BY <1>2, <1>4
  <2> QED
    BY <1>1, <1>4, <2>1, <2>2, UncompiledIsReused DEF FilterInv
<1>5. FilterIsSound'
  <2> HIDE DEF r
  <2> QED
    BY <1>1, <1>3, <1>4 DEF FilterIsSound
<1>6. StoredIsFresh'
  <2>1. ASSUME NEW k \in Requested(job), Yields(snap, k[1]), k[1] \notin todo'[k[2]]
        PROVE  art'[k] = CompilerOutput(snap, settings, k)
    <3>1. r[k] # None /\ k[1] \notin dirty'
      BY <1>4, <2>1
    <3>2. r[k].art = CompilerOutput(snap, settings, k)
      BY <1>3, <2>1, <3>1
    <3>3. r[k].art = art[k] /\ DiskArtifacts = art
      BY <3>1, RequestedParts, ReuseSource
    <3> QED
      BY <1>1, <3>2, <3>3
  <2> QED
    BY <1>1, <2>1 DEF StoredIsFresh
<1>7. SilentAreBare(mem')
  <2>1. Kept \in Cache /\ snap \in Tree
    BY KeptType DEF TypeOK
  <2>2. /\ mem'.hash = [f \in Files |-> IF Kept.hash[f] = None /\ f \in AllFiles(job)
                                        THEN snap[f] ELSE Kept.hash[f]]
        /\ mem'.link = Kept.link
        /\ mem'.seen = Kept.seen
    BY <1>1, <2>1 DEF WithEntries, Cache
  <2>3. \A f \in Kept.seen : f \in Files /\ Kept.hash[f] # None
                              /\ (Linked(Kept, f) = {} => ~Yields(Kept.hash, f))
    BY KeptSilence DEF FilterInv
  <2>4. \A f \in Kept.seen : mem'.hash[f] = Kept.hash[f]
    BY <2>2, <2>3
  <2> QED
    BY <2>2, <2>3, <2>4 DEF SilentAreBare, Entries, Linked, Yields
<1>8. SilenceIsRecorded'
  <2>1. cacheFile # None => SilentAreBare(cacheFile)
    BY DEF FilterInv, SilenceIsRecorded
  <2> QED
    BY <1>1, <1>7, <2>1 DEF SilenceIsRecorded, SilentAreBare, Entries, Linked
<1> QED
  BY <1>1, <1>5, <1>6, <1>8 DEF FilterInv, ReusedIsCurrent

(* The cache of a build that is writing, as far as it matters here. *)
LEMMA MergedParts ==
    ASSUME TypeOK
    PROVE  /\ \A k \in Keys : mem.link[k] # None => Merged.link[k] # None
           /\ \A k \in Keys : fresh[k] # None /\ k[1] \in Entries(mem) => Merged.link[k] # None
           /\ \A k \in Keys : Merged.link[k] # None =>
                  mem.link[k] # None \/ (fresh[k] # None /\ k[1] \in Entries(mem))
           /\ Merged.hash = mem.hash /\ Merged.seen = mem.seen
           /\ Pruned.hash = mem.hash /\ Pruned.seen = mem.seen /\ Pruned.link = Merged.link
<1>1. Merged.link = [k \in Keys |-> IF fresh[k] # None /\ k[1] \in Entries(mem)
                                    THEN BuildOf(k[2]) ELSE mem.link[k]]
  BY MergedType
<1>2. \A k \in Keys : BuildOf(k[2]) # None
  BY KeyParts, BuildOfType, NoneIsNoRecord
<1>3. Pruned.seen = Merged.seen
  BY MergedType DEF Pruned, Cache
<1> QED
  BY <1>1, <1>2, <1>3, MergedType, PrunedType

LEMMA CompileFilters ==
    ASSUME TypeOK, TypeOK', MemoryIsRead, FilterInv, Compile
    PROVE  FilterInv'
<1>1. /\ pc = "compiling" /\ pc' = "writing"
      /\ fresh' = Produced
      /\ pendArts' = {k \in Keys : Produced[k] # None}
      /\ mem' = [mem EXCEPT !.seen = mem.seen \cup (AllFiles(todo) \cap Entries(mem))]
      /\ UNCHANGED <<art, cacheFile, settings, job, snap, reuse, dirty, todo>>
  BY DEF Compile, disk, request
<1>2. /\ mem'.hash = mem.hash /\ mem'.link = mem.link
      /\ mem'.seen = mem.seen \cup (AllFiles(todo) \cap Entries(mem))
  BY <1>1 DEF TypeOK, Cache
<1>3. Entries(mem') = Entries(mem)
  BY <1>2 DEF Entries
<1>4. /\ \A k \in Keys : mem.link[k] # None => Merged'.link[k] # None
      /\ \A k \in Keys : Produced[k] # None /\ k[1] \in Entries(mem) => Merged'.link[k] # None
      /\ Merged'.hash = mem.hash
      /\ Merged'.seen = mem.seen \cup (AllFiles(todo) \cap Entries(mem))
  <2>1. (/\ \A k \in Keys : mem.link[k] # None => Merged.link[k] # None
         /\ \A k \in Keys : fresh[k] # None /\ k[1] \in Entries(mem) => Merged.link[k] # None
         /\ Merged.hash = mem.hash /\ Merged.seen = mem.seen)'
    BY MergedParts, PTL
  <2> QED
    BY <1>1, <1>2, <1>3, <2>1
<1>5. SilentAreBare(Merged')
  <2>1. SilentAreBare(mem) /\ \A f \in Files : mem.hash[f] \in {None, snap[f]}
    BY <1>1 DEF FilterInv, SilenceIsRecorded, MemoryIsRead
  <2>2. Merged'.seen \subseteq Entries(mem)
    BY <1>4, <2>1 DEF SilentAreBare
  <2>3. ASSUME NEW f \in Merged'.seen, \A k \in Keys : k[1] = f => Merged'.link[k] = None
        PROVE  ~Yields(mem.hash, f)
    <3>1. CASE f \in mem.seen
      <4>1. Linked(mem, f) = {}
        BY <1>4, <2>3 DEF Linked
      <4> QED
        BY <2>1, <3>1, <4>1 DEF SilentAreBare
    <3>2. CASE f \in AllFiles(todo) /\ f \in Entries(mem)
      <4>1. PICK u \in Units : f \in todo[u]
        BY <3>2 DEF AllFiles
      <4> DEFINE k == <<f, u>>
      <4>2. k \in Keys /\ k[1] = f /\ k[2] = u /\ f \in Files
        BY <3>2, <4>1 DEF Keys, Entries
      <4> HIDE DEF k
      <4>3. Produced[k] = None
        BY <1>4, <2>3, <3>2, <4>2
      <4>4. ~Yields(snap, f)
        BY <4>1, <4>2, <4>3, OutputOfYield
      <4>5. mem.hash[f] = snap[f]
        BY <2>1, <3>2, <4>2 DEF Entries
      <4> QED
        BY <4>4, <4>5 DEF Yields
    <3> QED
      BY <1>4, <2>3, <3>1, <3>2
  <2> QED
    BY <1>4, <2>2, <2>3 DEF SilentAreBare, Entries, Linked, Yields
<1>6. SilentAreBare(Merged)'
  BY <1>5 DEF SilentAreBare, Entries, Linked, Yields
<1>7. SilenceIsRecorded'
  BY <1>1, <1>6 DEF FilterInv, SilenceIsRecorded, SilentAreBare, Entries, Linked
<1>8. FilterIsSound'
  BY <1>1 DEF FilterInv, FilterIsSound
<1>9. StoredIsFresh'
  <2> SUFFICES ASSUME NEW k \in Requested(job), Yields(snap, k[1])
               PROVE  Upcoming'[k] \in {None, CompilerOutput(snap, settings, k)}
    BY <1>1 DEF StoredIsFresh
  <2>1. k \in Keys
    BY RequestedParts
  <2>2. Upcoming'[k] = IF Produced[k] # None THEN Produced[k] ELSE art[k]
    BY <1>1, <2>1 DEF Upcoming
  <2>3. CASE k[1] \in todo[k[2]]
    BY <2>1, <2>2, <2>3, OutputOfYield
  <2>4. CASE k[1] \notin todo[k[2]]
    <3>1. Upcoming'[k] = art[k]
      BY <2>1, <2>2, <2>4, OutputOfYield
    <3> QED
      BY <1>1, <2>4, <3>1 DEF FilterInv, StoredIsFresh
  <2> QED
    BY <2>3, <2>4
<1> QED
  BY <1>1, <1>7, <1>8, <1>9 DEF FilterInv, ReusedIsCurrent

(* What a build returns is what the compiler would produce, given that what it *)
(* reuses is.                                                                  *)
LEMMA OutcomeIsCurrent ==
    ASSUME TypeOK, FilterIsSound, Undisturbed \/ SettingsAreFixed,
           pc \in {"compiling", "writing", "consuming"},
           NEW b \in BOOLEAN, NEW new \in [Keys -> Artifact \cup {None}],
           \A k \in Keys : new[k] \in {None, Produced[k]},
           ~b => new = Produced,
           NEW k \in Requested(job), Yields(snap, k[1]),
           Outcome(new, b).arts[k] # None,
           b => Outcome(new, b).arts[k].art.set = settings[k[2][2]]
    PROVE  Outcome(new, b).arts[k].art = CompilerOutput(snap, settings, k)
<1>1. k \in Keys
  BY RequestedParts
<1>2. Outcome(new, b).arts[k] =
             IF new[k] # None THEN [art |-> new[k], build |-> BuildOf(k[2])]
             ELSE IF Retained(new, k) THEN reuse[k] ELSE None
  BY <1>1 DEF Outcome
<1>3. CASE new[k] # None
  <2>1. new[k] = Produced[k] /\ Outcome(new, b).arts[k].art = new[k]
    BY <1>1, <1>2, <1>3
  <2> QED
    BY <1>1, <1>3, <2>1, OutputOfYield
<1>4. CASE new[k] = None
  <2>1. /\ Outcome(new, b).arts[k] = reuse[k]
        /\ reuse[k] # None /\ k[1] \notin dirty
    BY <1>2, <1>4 DEF Retained
  <2>2. CASE reuse[k].art = CompilerOutput(snap, settings, k)
    BY <2>1, <2>2
  <2>3. CASE /\ k[1] \in todo[k[2]] /\ ~SettingsAreFixed
             /\ Undisturbed => reuse[k].art.set # settings[k[2][2]]
    <3>1. ~b /\ Produced[k] # None
      BY <1>1, <2>1, <2>3, OutputOfYield
    <3> QED
      BY <1>4, <3>1
  <2> QED
    BY <2>1, <2>2, <2>3 DEF FilterIsSound
<1> QED
  BY <1>3, <1>4

LEMMA FailedOutcome ==
    ASSUME NEW new, NEW b
    PROVE  Outcome(new, b).failed = b
  BY DEF Outcome

(* A step that ends a build by returning an outcome. *)
LEMMA ReturnsCurrent ==
    ASSUME TypeOK, FilterInv, pc \in {"compiling", "writing", "consuming"}, pc' = "returned",
           UNCHANGED <<settings, job, snap>>,
           NEW b \in BOOLEAN, NEW new \in [Keys -> Artifact \cup {None}],
           \A k \in Keys : new[k] \in {None, Produced[k]},
           ~b => new = Produced,
           output' = Outcome(new, b),
           SilenceIsRecorded'
    PROVE  FilterInv'
<1>1. ASSUME Undisturbed \/ SettingsAreFixed PROVE ReusedIsCurrent'
  <2> SUFFICES ASSUME NEW k \in Requested(job), output'.arts[k] # None, Yields(snap, k[1]),
                      output'.failed => output'.arts[k].art.set = settings[k[2][2]]
               PROVE  output'.arts[k].art = CompilerOutput(snap, settings, k)
    BY DEF ReusedIsCurrent
  <2> QED
    BY <1>1, OutcomeIsCurrent, FailedOutcome DEF FilterInv
<1> QED
  BY <1>1 DEF FilterInv, FilterIsSound, StoredIsFresh

(* A step that leaves the build where it stands and writes no artifact but     *)
(* those that are due.                                                         *)
LEMMA BystandersFilter ==
    ASSUME FilterInv,
           UNCHANGED <<cacheFile, settings, pc, job, snap, mem, reuse, dirty, todo, fresh, output>>,
           pc = "compiling" => \A k \in Keys : art'[k] \in {None, art[k]},
           pc = "writing" => \A k \in Keys : Upcoming'[k] \in {None, Upcoming[k]}
    PROVE  FilterInv'
<1>1. Merged' = Merged
  BY DEF Merged, NewBuilds, BuildOf
<1>2. SilenceIsRecorded'
  BY <1>1 DEF FilterInv, SilenceIsRecorded, SilentAreBare, Entries, Linked
<1>3. FilterIsSound' /\ (Undisturbed \/ SettingsAreFixed => ReusedIsCurrent')
  BY DEF FilterInv, FilterIsSound, ReusedIsCurrent
<1>4. StoredIsFresh'
  BY RequestedParts DEF FilterInv, StoredIsFresh
<1> QED
  BY <1>2, <1>3, <1>4 DEF FilterInv

(* A step that ends outside of a build and leaves the cache file alone. *)
LEMMA EndFilter ==
    ASSUME SilenceIsRecorded, pc' \in {"idle", "resolved"},
           cacheFile' = cacheFile \/ cacheFile' = None
    PROVE  FilterInv'
  BY DEF FilterInv, SilenceIsRecorded, FilterIsSound, StoredIsFresh, ReusedIsCurrent,
         SilentAreBare, Entries, Linked

LEMMA FiltersPreserved ==
    ASSUME NoFallback, TypeOK, TypeOK', UnusedIsEmpty, AnswersInv, Dependable,
           RequestIsRead, FilterInv, [Next]_vars
    PROVE  FilterInv'
<1>0. SilenceIsRecorded
  BY DEF FilterInv
<1>1. ASSUME NEW roots \in [Units -> SUBSET Files], NEW m \in CacheModes, WithSources(roots, m)
      PROVE  FilterInv'
  BY <1>0, <1>1, EndFilter DEF WithSources, disk
<1>2. CASE Preprocess
  BY <1>2, PreprocessFilters
<1>3. CASE PreprocessEphemeral
  <2>1. /\ pc = "resolved" /\ pc' = "compiling" /\ todo' = job
        /\ mem = EmptyCache /\ mem' = mem /\ reuse' = NoArtifacts
        /\ UNCHANGED <<art, cacheFile, settings, job, snap>>
    BY <1>3 DEF PreprocessEphemeral, disk, request, UnusedIsEmpty
  <2>2. SilenceIsRecorded'
    BY <1>0, <2>1 DEF EmptyCache, SilenceIsRecorded, SilentAreBare, Entries, Linked
  <2>3. FilterIsSound' /\ StoredIsFresh'
    BY <2>1, RequestedParts DEF NoArtifacts, FilterIsSound, StoredIsFresh
  <2> QED
    BY <2>1, <2>2, <2>3 DEF FilterInv, ReusedIsCurrent
<1>4. CASE Compile
  BY <1>4, CompileFilters DEF Dependable
<1>5. CASE CompileInMemory
  <2>1. /\ pc = "compiling" /\ pc' = "consuming"
        /\ UNCHANGED <<cacheFile, settings, job, snap, reuse, dirty, todo>>
    BY <1>5 DEF CompileInMemory, disk, request, checked
  <2> QED
    BY <1>0, <2>1 DEF FilterInv, SilenceIsRecorded, FilterIsSound, StoredIsFresh,
                      ReusedIsCurrent, SilentAreBare, Entries, Linked
<1>6. CASE CompileErrors
  <2>1. PICK good \in SUBSET {u \in Units : UnitCompiles(u)} :
            output' = Outcome([k \in Keys |-> IF k[2] \in good THEN Produced[k] ELSE None], TRUE)
    BY <1>6 DEF CompileErrors
  <2> DEFINE new == [k \in Keys |-> IF k[2] \in good THEN Produced[k] ELSE None]
  <2>2. new \in [Keys -> Artifact \cup {None}]
    BY ProducedType
  <2>3. \A k \in Keys : new[k] \in {None, Produced[k]}
    OBVIOUS
  <2>4. /\ output' = Outcome(new, TRUE) /\ pc = "compiling" /\ pc' = "returned"
        /\ UNCHANGED <<cacheFile, settings, job, snap>>
    BY <1>6, <2>1 DEF CompileErrors, disk, request
  <2> HIDE DEF new
  <2>5. SilenceIsRecorded'
    BY <1>0, <2>4 DEF SilenceIsRecorded, SilentAreBare, Entries, Linked
  <2> QED
    BY <2>2, <2>3, <2>4, <2>5, ReturnsCurrent
<1>7. ASSUME NEW k \in Keys, WriteArtifact(k) PROVE FilterInv'
  <2>1. \A l \in Keys : Upcoming'[l] = Upcoming[l]
    BY <1>7 DEF WriteArtifact, Upcoming, TypeOK
  <2> QED
    BY <1>7, <2>1, BystandersFilter DEF WriteArtifact, request, checked
<1>8. ASSUME NEW b \in pendInfos, WriteBuildInfo(b) PROVE FilterInv'
  <2>1. \A l \in Keys : Upcoming'[l] = Upcoming[l]
    BY <1>8 DEF WriteBuildInfo, Upcoming
  <2> QED
    BY <1>8, <2>1, BystandersFilter DEF WriteBuildInfo, request, checked
<1>9. ASSUME NEW b \in infos, RemoveOutdatedBuild(b) PROVE FilterInv'
  <2>1. \A l \in Keys : Upcoming'[l] = Upcoming[l]
    BY <1>9 DEF RemoveOutdatedBuild, Upcoming, written
  <2> QED
    BY <1>9, <2>1, BystandersFilter
       DEF RemoveOutdatedBuild, WritingDone, request, checked, written
<1>10. CASE WriteCache
  <2>1. /\ pc = "writing" /\ pc' = "returned" /\ cacheFile' = Pruned
        /\ output' = Outcome(fresh, FALSE)
        /\ UNCHANGED <<settings, job, snap>>
    BY <1>10 DEF WriteCache, WritingDone, request
  <2>2. fresh = Produced /\ fresh \in [Keys -> Artifact \cup {None}]
    BY <2>1 DEF AnswersInv, FreshIsProduced, TypeOK
  <2>3. SilentAreBare(Pruned)
    <3>1. SilentAreBare(Merged)
      BY <1>0, <2>1 DEF SilenceIsRecorded
    <3> QED
      BY <3>1, MergedParts DEF SilentAreBare, Entries, Linked, Yields
  <2>4. SilenceIsRecorded'
    BY <2>1, <2>3 DEF SilenceIsRecorded, SilentAreBare, Entries, Linked
  <2> QED
    BY <2>1, <2>2, <2>4, ReturnsCurrent
<1>11. CASE ConsumeInMemory
  <2>1. /\ pc \in {"writing", "consuming"} /\ pc' = "returned"
        /\ output' = Outcome(fresh, FALSE)
        /\ UNCHANGED <<cacheFile, settings, job, snap>>
    BY <1>11 DEF ConsumeInMemory, WritingDone, disk, request
  <2>2. fresh = Produced /\ fresh \in [Keys -> Artifact \cup {None}]
    BY <2>1 DEF AnswersInv, FreshIsProduced, TypeOK
  <2>3. SilenceIsRecorded'
    BY <1>0, <2>1 DEF SilenceIsRecorded, SilentAreBare, Entries, Linked
  <2> QED
    BY <2>1, <2>2, <2>3, ReturnsCurrent
<1>12. CASE Return
  BY <1>0, <1>12, EndFilter DEF Return, Forget, disk
<1>13. CASE CompilerFails
  BY <1>0, <1>13, EndFilter DEF CompilerFails, Forget, disk
<1>14. ASSUME NEW f \in Files, NEW c \in Contents \cup {None}, Edit(f, c) PROVE FilterInv'
  <2>1. \A l \in Keys : Upcoming'[l] = Upcoming[l]
    BY <1>14 DEF Edit, Upcoming, written
  <2> QED
    BY <1>14, <2>1, BystandersFilter DEF Edit, request, checked, written
<1>15. ASSUME NEW p \in Profiles, NEW s \in Settings, ChangeSettings(p, s) PROVE FilterInv'
  BY <1>0, <1>15, EndFilter DEF ChangeSettings
<1>16. ASSUME NEW k \in Keys, DeleteArtifact(k) PROVE FilterInv'
  <2>1. \A l \in Keys : art'[l] \in {None, art[l]}
    BY <1>16 DEF DeleteArtifact, TypeOK
  <2>2. \A l \in Keys : Upcoming'[l] \in {None, Upcoming[l]}
    BY <1>16, <2>1 DEF DeleteArtifact, Upcoming, written
  <2> QED
    BY <1>16, <2>1, <2>2, BystandersFilter DEF DeleteArtifact, request, checked, written
<1>17. CASE Cleanup
  BY <1>0, <1>17, EndFilter DEF Cleanup
<1>18. CASE Crash
  BY <1>0, <1>18, EndFilter DEF Crash, Forget
<1>19. CASE UNCHANGED vars
  <2>1. \A l \in Keys : Upcoming'[l] = Upcoming[l]
    BY <1>19 DEF vars, disk, written, Upcoming
  <2> QED
    BY <1>19, <2>1, BystandersFilter DEF vars, disk, request, checked, written
<1> QED
  BY <1>1, <1>2, <1>3, <1>4, <1>5, <1>6, <1>7, <1>8, <1>9, <1>10, <1>11, <1>12, <1>13,
     <1>14, <1>15, <1>16, <1>17, <1>18, <1>19 DEF Next, Build, Advance, User

-----------------------------------------------------------------------------
(* The inductive invariant: types, what a build may rely on, and what it has   *)
(* decided.                                                                    *)
CleanInv ==
    TypeOK /\ UnusedIsEmpty /\ AnswersInv /\ Dependable /\ RequestIsRead /\ FilterInv

LEMMA CleanInvInitial ==
    ASSUME Init
    PROVE  CleanInv
<1>1. AnswersInv
  BY DEF Init, NoArtifacts, AnswersInv, FreshIsProduced, ReuseResolves, BuildsResolve
<1>2. RequestIsRead /\ FilterInv /\ UnusedIsEmpty /\ Dependable
  BY DEF Init, RequestIsRead, FilterInv, SilenceIsRecorded, FilterIsSound, StoredIsFresh,
         ReusedIsCurrent, UnusedIsEmpty, Dependable, ReadsAreOne, MemoryIsRead,
         FileIsDependable
<1> QED
  BY <1>1, <1>2, InitialTypes DEF CleanInv

LEMMA CleanInvPreserved ==
    ASSUME NoFallback, CleanInv, Dependable', [Next]_vars
    PROVE  CleanInv'
<1>1. TypeOK'
  BY TypesPreserved DEF CleanInv
<1> QED
  BY <1>1, UnusedPreserved, AnswersPreserved, RequestPreserved, FiltersPreserved DEF CleanInv

THEOREM CleanInvHolds ==
    ASSUME Traceable, NoFallback
    PROVE  Spec => []CleanInv
<1>1. Init => CleanInv
  BY CleanInvInitial
<1>2. CleanInv /\ Dependable' /\ [Next]_vars => CleanInv'
  BY CleanInvPreserved
<1> QED
  BY <1>1, <1>2, DependableHolds, PTL DEF Spec

(* An artifact returned for a file of the build that yields one is what the    *)
(* compiler would produce from the sources the build read, whether it was      *)
(* compiled or reused; when the build reports errors, unless it is an artifact *)
(* of former settings.  Former builds may have died or bypassed the cache when *)
(* nothing on record comes back and the settings never change: else what they  *)
(* left bears the new settings and may be older than the sources.              *)
THEOREM ReuseIsSound ==
    ASSUME Traceable, Undisturbed \/ SettingsAreFixed, NoFallback
    PROVE  Spec => []ReusedIsCurrent
<1>1. CleanInv => ReusedIsCurrent
  BY DEF CleanInv, FilterInv
<1> QED
  BY <1>1, CleanInvHolds, PTL

(* When a build stores its results, the artifacts on disk of all that it was   *)
(* asked to build are those of the sources it read, or the user deleted them,  *)
(* also after builds that died or bypassed the cache if nothing on record      *)
(* comes back.                                                                 *)
THEOREM StorageIsSound ==
    ASSUME Traceable, NoFallback
    PROVE  Spec => StoredIsCurrent
<1>1. CleanInv /\ WriteCache =>
          \A k \in Requested(job) :
              Yields(snap, k[1]) => art[k] \in {None, CompilerOutput(snap, settings, k)}
  <2> SUFFICES ASSUME CleanInv, WriteCache, NEW k \in Requested(job), Yields(snap, k[1])
               PROVE  art[k] \in {None, CompilerOutput(snap, settings, k)}
    OBVIOUS
  <2>1. pc = "writing" /\ pendArts = {}
    BY DEF WriteCache, WritingDone
  <2>2. Upcoming[k] = art[k]
    BY <2>1, RequestedParts DEF Upcoming
  <2> QED
    BY <2>1, <2>2 DEF CleanInv, FilterInv, StoredIsFresh
<1>2. CleanInv /\ [Next]_vars => [WriteCache => \A k \in Requested(job) :
            Yields(snap, k[1]) => art[k] \in {None, CompilerOutput(snap, settings, k)}]_vars
  BY <1>1
<1> QED
  BY <1>2, CleanInvHolds, PTL DEF Spec, StoredIsCurrent

-----------------------------------------------------------------------------
(* Builds implement CleanBuild.                                                *)

(* With two settings profiles of one version a build with the cache may return *)
(* less than one without, and more when the settings change and a contract is  *)
(* removed.                                                                    *)
OneProfile == \A p, q \in Profiles : p = q

(* The request and the answer of CleanBuild, as BuildCache maps them. *)
Asked == IF pc = "idle" THEN None ELSE [job |-> job, snap |-> snap, set |-> settings]
Answered ==
    IF pc # "returned" THEN None
    ELSE IF output.failed THEN Failed
    ELSE [k \in Requested(job) |-> IF output.arts[k] = None THEN None ELSE output.arts[k].art]

(* A build that succeeds returns what the compiler would produce of each file  *)
(* requested, and nothing for a file that yields nothing.                      *)
LEMMA OutcomeIsClean ==
    ASSUME OneProfile, Bare = {} \/ SettingsAreFixed,
           CleanInv, pc \in {"writing", "consuming"}, NEW k \in Requested(job)
    PROVE  (IF Outcome(fresh, FALSE).arts[k] = None THEN None
            ELSE Outcome(fresh, FALSE).arts[k].art) = CompilerOutput(snap, settings, k)
<1> DEFINE arts == Outcome(fresh, FALSE).arts
<1>1. /\ k \in Keys /\ k[1] \in job[k[2]] /\ k[1] \in Files /\ k[2] \in Units
      /\ k[2][2] \in Profiles
  BY RequestedParts, KeyParts
<1>2. TypeOK /\ FilterIsSound /\ fresh = Produced /\ fresh \in [Keys -> Artifact \cup {None}]
  BY DEF CleanInv, AnswersInv, FreshIsProduced, FilterInv, TypeOK
<1>3. arts[k] = IF fresh[k] # None THEN [art |-> fresh[k], build |-> BuildOf(k[2])]
                ELSE IF Retained(fresh, k) THEN reuse[k] ELSE None
  BY <1>1 DEF Outcome
<1>4. reuse[k] # None => reuse[k].art \in Artifact
  BY <1>1, <1>2 DEF TypeOK, Reusable
<1>5. CASE fresh[k] # None
  <2>1. fresh[k] \in Artifact /\ BuildOf(k[2]) \in BuildId
    BY <1>1, <1>2, <1>5, BuildOfType
  <2>2. [art |-> fresh[k], build |-> BuildOf(k[2])] \in Reusable
    BY <2>1 DEF Reusable
  <2>3. arts[k] = [art |-> fresh[k], build |-> BuildOf(k[2])]
    BY <1>3, <1>5
  <2> HIDE DEF arts
  <2>4. arts[k] # None /\ arts[k].art = Produced[k]
    BY <1>2, <2>2, <2>3, NoneIsNoRecord
  <2> USE DEF arts
  <2> QED
    BY <1>1, <1>2, <1>5, <2>4, OutputOfYield
<1>6. CASE fresh[k] = None /\ Yields(snap, k[1])
  <2>1. k[1] \notin todo[k[2]]
    BY <1>1, <1>2, <1>6, OutputOfYield
  <2>2. reuse[k] # None /\ k[1] \notin dirty
    BY <1>2, <1>6, <2>1 DEF FilterIsSound
  <2>3. ASSUME NEW l \in Keys, l[1] = k[1], l[2][1] = k[2][1] PROVE l = k
    <3>1. l[2][2] = k[2][2]
      BY <1>1, KeyParts DEF OneProfile
    <3>2. l[2] = k[2]
      BY <1>1, <2>3, <3>1, KeyParts DEF Units
    <3> QED
      BY <1>1, <2>3, <3>2, KeyParts
  <2>4. Retained(fresh, k)
    BY <1>1, <1>6, <2>2, <2>3 DEF Retained
  <2>5. arts[k] = reuse[k] /\ arts[k] # None
    BY <1>3, <1>6, <2>2, <2>4
  <2>6. arts[k].art = CompilerOutput(snap, settings, k)
    BY <1>2, <1>6, <2>1, <2>2, <2>5 DEF FilterIsSound
  <2> QED
    BY <2>5, <2>6
<1>7. CASE fresh[k] = None /\ ~Yields(snap, k[1])
  <2>1. CompilerOutput(snap, settings, k) = None
    BY <1>1, <1>2, <1>7, OutputOfYield
  <2>2. ASSUME Retained(fresh, k) PROVE FALSE
    <3>1. reuse[k] # None /\ k[1] \notin dirty /\ reuse[k].art \in Artifact
      BY <1>4, <2>2 DEF Retained
    <3>2. reuse[k].art # None
      BY <3>1, NoneIsNoArtifact
    <3>3. Bare = {}
      BY <1>2, <2>1, <3>1, <3>2 DEF FilterIsSound
    <3>4. snap[k[1]] # None
      BY <1>1 DEF CleanInv, RequestIsRead
    <3> QED
      BY <1>7, <3>3, <3>4 DEF Yields
  <2> QED
    BY <1>3, <1>7, <2>1, <2>2
<1> QED
  BY <1>5, <1>6, <1>7

(* CleanBuild speaks of the same sources and the same compiler. *)
LEMMA SameCompiler ==
    ASSUME NEW s, NEW set, NEW k, NEW j
    PROVE  /\ CB!CompilerOutput(s, set, k) = CompilerOutput(s, set, k)
           /\ CB!Requested(j) = Requested(j)
<1>1. CB!Units = Units /\ CB!Keys = Keys
  BY DEF CB!Units, Units, CB!Keys, Keys
<1>2. \A f : CB!Imports(s, f) = Imports(s, f)
  BY DEF CB!Imports, Imports, CB!Wanted, Wanted, CB!Target, Target, CB!Exists, Exists
<1>3. \A S : CB!ImportClosed(s, S) <=> ImportClosed(s, S)
  BY <1>2 DEF CB!ImportClosed, ImportClosed
<1>4. \A f : CB!Reach(s, f) = Reach(s, f)
  BY <1>3 DEF CB!Reach, Reach
<1>5. \A f : CB!Stamp(s, f) = Stamp(s, f)
  BY <1>4 DEF CB!Stamp, Stamp
<1>6. CB!Compiled(s, set, k) = Compiled(s, set, k)
  BY <1>5 DEF CB!Compiled, Compiled
<1>7. CB!Yields(s, k[1]) <=> Yields(s, k[1])
  BY DEF CB!Yields, Yields
<1>8. CB!CompilerOutput(s, set, k) = CompilerOutput(s, set, k)
  BY <1>6, <1>7 DEF CB!CompilerOutput, CompilerOutput
<1>9. CB!Requested(j) = Requested(j)
  BY <1>1 DEF CB!Requested, Requested
<1> QED
  BY <1>8, <1>9

LEMMA AskedIsSomething ==
    ASSUME TypeOK, pc # "idle"
    PROVE  Asked # None
<1>1. Asked \in [job : [Units -> SUBSET Files], snap : Tree, set : [Profiles -> Settings]]
  BY DEF Asked, TypeOK
<1> QED
  BY <1>1, NoneIsNoRequest

(* The four ways a step of a build shows in CleanBuild. *)

LEMMA Stutters ==
    ASSUME UNCHANGED <<src, settings, job, snap, output>>, pc = "idle" <=> pc' = "idle",
           pc = "returned" <=> pc' = "returned"
    PROVE  UNCHANGED CB!vars
<1>1. Asked' = Asked
  BY DEF Asked
<1>2. Answered' = Answered
  BY DEF Answered
<1> QED
  BY <1>1, <1>2 DEF CB!vars, Asked, Answered

LEMMA EndingCloses ==
    ASSUME TypeOK, pc # "idle", pc' = "idle", UNCHANGED <<src, settings>>
    PROVE  CB!Next
<1>1. Asked # None /\ Asked' = None /\ Answered' = None
  BY AskedIsSomething DEF Asked, Answered
<1>2. CB!Close
  BY <1>1 DEF CB!Close, Asked, Answered
<1> QED
  BY <1>2 DEF CB!Next

LEMMA ReturningAnswers ==
    ASSUME TypeOK, pc \notin {"idle", "returned"}, pc' = "returned",
           UNCHANGED <<src, settings, job, snap>>,
           \/ output'.failed = TRUE
           \/ /\ output'.failed = FALSE
              /\ \A k \in Requested(job) :
                    (IF output'.arts[k] = None THEN None ELSE output'.arts[k].art)
                        = CompilerOutput(snap, settings, k)
    PROVE  CB!Next
<1>1. Asked # None /\ Asked' = Asked /\ Answered = None
  BY AskedIsSomething DEF Asked, Answered
<1>2. CB!Clean(Asked) = [k \in Requested(job) |-> CompilerOutput(snap, settings, k)]
  <2>1. Asked = [job |-> job, snap |-> snap, set |-> settings]
    BY DEF Asked
  <2> QED
    BY <2>1, SameCompiler DEF CB!Clean
<1>3. Answered' \in {CB!Clean(Asked), Failed}
  <2>1. CASE output'.failed = TRUE
    BY <2>1 DEF Answered
  <2>2. CASE output'.failed = FALSE /\
             \A k \in Requested(job) :
                (IF output'.arts[k] = None THEN None ELSE output'.arts[k].art)
                    = CompilerOutput(snap, settings, k)
    <3>1. Answered' = [k \in Requested(job) |->
                         IF output'.arts[k] = None THEN None ELSE output'.arts[k].art]
      BY <2>2 DEF Answered
    <3> QED
      BY <1>2, <2>2, <3>1
  <2> QED
    BY <2>1, <2>2
<1>4. CB!Answer
  BY <1>1, <1>3 DEF CB!Answer, Asked, Answered
<1> QED
  BY <1>4 DEF CB!Next

LEMMA ReadingAsks ==
    ASSUME TypeOK, TypeOK', pc = "idle", pc' = "resolved", snap' = src,
           UNCHANGED <<src, settings>>
    PROVE  CB!Next
<1>1. /\ Asked = None /\ Asked' = [job |-> job', snap |-> src, set |-> settings]
      /\ Answered = None /\ Answered' = None
  BY DEF Asked, Answered
<1>2. CB!Ask(job')
  BY <1>1 DEF CB!Ask, Asked, Answered
<1>3. job' \in [CB!Units -> SUBSET Files]
  BY DEF CB!Units, Units, TypeOK
<1> QED
  BY <1>2, <1>3 DEF CB!Next

LEMMA StepsAreClean ==
    ASSUME NoFallback, OneProfile, Bare = {} \/ SettingsAreFixed,
           CleanInv, CleanInv', [Next]_vars
    PROVE  [CB!Next]_CB!vars
<1>0. TypeOK /\ TypeOK'
  BY DEF CleanInv
<1>1. ASSUME NEW roots \in [Units -> SUBSET Files], NEW m \in CacheModes, WithSources(roots, m)
      PROVE  [CB!Next]_CB!vars
  BY <1>0, <1>1, ReadingAsks DEF WithSources, disk
<1>2. CASE Preprocess
  BY <1>2, Stutters DEF Preprocess, request, written
<1>3. CASE PreprocessEphemeral
  BY <1>3, Stutters DEF PreprocessEphemeral, disk, request
<1>4. CASE Compile
  BY <1>4, Stutters DEF Compile, disk, request
<1>5. CASE CompileInMemory
  BY <1>5, Stutters DEF CompileInMemory, disk, request
<1>6. CASE CompileErrors
  <2>1. output'.failed = TRUE
    BY <1>6, FailedOutcome DEF CompileErrors
  <2> QED
    BY <1>0, <1>6, <2>1, ReturningAnswers DEF CompileErrors, disk, request
<1>7. ASSUME NEW k \in Keys, WriteArtifact(k) PROVE [CB!Next]_CB!vars
  BY <1>7, Stutters DEF WriteArtifact, request
<1>8. ASSUME NEW b \in pendInfos, WriteBuildInfo(b) PROVE [CB!Next]_CB!vars
  BY <1>8, Stutters DEF WriteBuildInfo, request
<1>9. ASSUME NEW b \in infos, RemoveOutdatedBuild(b) PROVE [CB!Next]_CB!vars
  BY <1>9, Stutters DEF RemoveOutdatedBuild, request
<1>10. ASSUME pc \in {"writing", "consuming"}, pc' = "returned", output' = Outcome(fresh, FALSE),
              UNCHANGED <<src, settings, job, snap>>
       PROVE  [CB!Next]_CB!vars
  <2>1. output'.failed = FALSE
    BY <1>10, FailedOutcome
  <2>2. \A k \in Requested(job) :
            (IF output'.arts[k] = None THEN None ELSE output'.arts[k].art)
                = CompilerOutput(snap, settings, k)
    BY <1>10, OutcomeIsClean
  <2> QED
    BY <1>0, <1>10, <2>1, <2>2, ReturningAnswers
<1>11. CASE WriteCache
  BY <1>10, <1>11 DEF WriteCache, WritingDone, request
<1>12. CASE ConsumeInMemory
  BY <1>10, <1>12 DEF ConsumeInMemory, WritingDone, disk, request
<1>13. CASE Return
  BY <1>0, <1>13, EndingCloses DEF Return, Forget, disk
<1>14. CASE CompilerFails
  BY <1>0, <1>14, EndingCloses DEF CompilerFails, Forget, disk
<1>15. ASSUME NEW f \in Files, NEW c \in Contents \cup {None}, Edit(f, c)
       PROVE  [CB!Next]_CB!vars
  <2>1. /\ src' \in [Files -> Contents \cup {None}]
        /\ UNCHANGED <<settings, pc, job, snap, output>>
    BY <1>0, <1>15 DEF Edit, TypeOK, Tree, request
  <2>2. UNCHANGED <<Asked, Answered>>
    BY <2>1 DEF Asked, Answered
  <2>3. CB!Edit
    BY <2>1, <2>2 DEF CB!Edit, Asked, Answered
  <2> QED
    BY <2>3 DEF CB!Next
<1>16. ASSUME NEW p \in Profiles, NEW s \in Settings, ChangeSettings(p, s)
       PROVE  [CB!Next]_CB!vars
  <2>1. /\ settings' \in [Profiles -> Settings]
        /\ pc = "idle" /\ pc' = "idle" /\ src' = src
    BY <1>0, <1>16 DEF ChangeSettings, TypeOK
  <2>2. Asked = None /\ UNCHANGED <<Asked, Answered>>
    BY <2>1 DEF Asked, Answered
  <2>3. CB!Reconfigure
    BY <2>1, <2>2 DEF CB!Reconfigure, Asked, Answered
  <2> QED
    BY <2>3 DEF CB!Next
<1>17. ASSUME NEW k \in Keys, DeleteArtifact(k) PROVE [CB!Next]_CB!vars
  BY <1>17, Stutters DEF DeleteArtifact, request
<1>18. CASE Cleanup
  BY <1>18, Stutters DEF Cleanup, request
<1>19. CASE Crash
  BY <1>0, <1>19, EndingCloses DEF Crash, Forget
<1>20. CASE UNCHANGED vars
  BY <1>20, Stutters DEF vars, disk, request
<1> QED
  BY <1>1, <1>2, <1>3, <1>4, <1>5, <1>6, <1>7, <1>8, <1>9, <1>11, <1>12, <1>13,
     <1>14, <1>15, <1>16, <1>17, <1>18, <1>19, <1>20 DEF Next, Build, Advance, User

(* A build with the cache cannot be told from one without: it implements       *)
(* CleanBuild, for any number of files, versions and imports between them.     *)
(* Either builds run undisturbed and anything may come back, or nothing on     *)
(* record does and builds may die at any step and bypass the cache.  The other *)
(* assumptions exclude the three disagreements found between the code and its  *)
(* documentation: imports that fall back to other files, two profiles of one   *)
(* version, and settings that change where files may declare no contract.      *)
THEOREM BuildsAreClean ==
    ASSUME Traceable, NoFallback, OneProfile, Bare = {} \/ SettingsAreFixed
    PROVE  Spec => ImplementsCleanBuild
<1>1. Init => CB!Init
  <2>1. Init => Asked = None /\ Answered = None
    BY DEF Init, Asked, Answered
  <2> QED
    BY <2>1 DEF Init, CB!Init, Tree, Asked, Answered
<1>2. CleanInv /\ CleanInv' /\ [Next]_vars => [CB!Next]_CB!vars
  BY StepsAreClean
<1> QED
  BY <1>1, <1>2, CleanInvHolds, PTL DEF Spec, ImplementsCleanBuild, CB!Spec

-----------------------------------------------------------------------------
(* Building again what was just built compiles nothing.                        *)

(* An artifact is only linked to a file that declares a contract. *)
LinkedYield(c) == \A k \in Keys : c.link[k] # None => Yields(c.hash, k[1])

(* The entries are those of files as they are in s, and with a file there are  *)
(* entries of all its imports, the remapped ones included.                     *)
EntriesAreClosed(s, c) ==
    /\ \A f \in Files : c.hash[f] \in {None, s[f]}
    /\ ImportClosed(s, Entries(c))
    /\ ~GraphFails(s, Entries(c))

(* The entry of a file says that nothing is missing. *)
Settled(c, k) == c.link[k] # None \/ (k[1] \in c.seen /\ ~Yields(c.hash, k[1]))

(* From the request to the stored cache: what is requested is compiled or      *)
(* settled, and nothing in it is unresolved.                                   *)
NothingLeft ==
    /\ cutInfos = {}
    /\ cacheFile # None => LinkedYield(cacheFile)
    /\ pc = "resolved" => ~GraphFails(snap, AllFiles(job))
    /\ pc = "compiling" =>
          /\ LinkedYield(mem)
          /\ EntriesAreClosed(snap, mem) /\ AllFiles(job) \subseteq Entries(mem)
          /\ \A k \in Requested(job) :
                k[1] \in todo[k[2]] \/ (Settled(mem, k) /\ ~Unresolved(snap, k[1]))
    /\ pc = "writing" =>
          /\ mem.set = settings
          /\ LinkedYield(Merged)
          /\ EntriesAreClosed(snap, Merged) /\ AllFiles(job) \subseteq Entries(Merged)
          /\ \A k \in Requested(job) : Settled(Merged, k) /\ ~Unresolved(snap, k[1])

LEMMA ImportsAreReached ==
    ASSUME NEW s, NEW f \in Files
    PROVE  Imports(s, f) \subseteq Reach(s, f)
  BY ReachSelf, ReachClosed DEF ImportClosed

LEMMA ClosedReach ==
    ASSUME NEW s, NEW S \in SUBSET Files, ImportClosed(s, S)
    PROVE  ReachAll(s, S) = S
  BY ReachSelf, ReachLeast DEF ReachAll

(* A closed set of files fails when one of its files does. *)
LEMMA ClosedFails ==
    ASSUME NEW s, NEW S \in SUBSET Files, ImportClosed(s, S)
    PROVE  GraphFails(s, S) <=>
              \E f \in S : \E g \in Wanted(s, f) \cap Strict : Target(s, g) \notin Exists(s)
  BY ClosedReach DEF GraphFails

LEMMA RequestClosed ==
    ASSUME TypeOK, RequestIsRead, pc # "idle"
    PROVE  /\ AllFiles(job) \in SUBSET Files
           /\ ImportClosed(snap, AllFiles(job))
           /\ AllFiles(job) \subseteq Exists(snap)
<1>1. \A u \in Units : job[u] \subseteq Files
  BY DEF TypeOK
<1>2. AllFiles(job) \in SUBSET Files
  BY <1>1 DEF AllFiles
<1>3. ASSUME NEW f \in AllFiles(job)
      PROVE  snap[f] # None /\ Imports(snap, f) \subseteq AllFiles(job)
  <2>1. PICK u \in Units : f \in job[u]
    BY <1>3 DEF AllFiles
  <2>2. snap[f] # None /\ Reach(snap, f) \subseteq job[u]
    BY <2>1 DEF RequestIsRead
  <2>3. Imports(snap, f) \subseteq job[u]
    BY <1>2, <1>3, <2>2, ImportsAreReached
  <2> QED
    BY <2>1, <2>2, <2>3 DEF AllFiles
<1> QED
  BY <1>2, <1>3 DEF ImportClosed, Exists

(* What is kept is kept with all its imports. *)
LEMMA KeptClosed ==
    ASSUME TypeOK
    PROVE  EntriesAreClosed(src, Kept)
<1> DEFINE d == DropProfiles(Loaded)
           nodes == ReachAll(src, Entries(d))
           changed == {g \in nodes : d.hash[g] # src[g]}
<1>1. ASSUME NEW f \in Entries(Kept)
      PROVE  f \in Files /\ f \in Entries(d) /\ ~GraphFails(src, Entries(d))
             /\ Reach(src, f) \subseteq Entries(Kept)
  <2>1. f \in Files /\ Kept.hash[f] # None
    BY <1>1 DEF Entries
  <2>2. /\ f \in Entries(d) /\ f \notin DirtyFiles(d)
        /\ \A g \in Reach(src, f) : d.hash[g] = src[g]
        /\ Kept.hash[f] = src[f]
    BY <2>1, KeptIsUnchanged
  <2>3. ~GraphFails(src, Entries(d))
    BY <2>2 DEF DirtyFiles
  <2>4. ASSUME NEW g \in Reach(src, f) PROVE g \in Entries(Kept)
    <3>1. g \in Files /\ Reach(src, f) \in SUBSET Files
      BY DEF Reach
    <3>2. d.hash[g] = src[g] /\ src[g] # None
      BY <2>1, <2>2, ReachExists DEF Exists
    <3>3. Reach(src, g) \subseteq Reach(src, f)
      BY <2>1, <3>1, ReachClosed, ReachLeast
    <3>4. g \notin DirtyFiles(d)
      BY <2>2, <2>3, <3>3 DEF DirtyFiles
    <3>5. Kept = Only(d, Files \ DirtyFiles(d)) /\ d \in Cache
      BY LoadedType, DropProfilesType DEF Kept
    <3>6. Kept.hash[g] = d.hash[g]
      <4>1. \A F : Only(d, F).hash = [h \in Files |-> IF h \in F THEN d.hash[h] ELSE None]
        BY <3>5, OnlyType
      <4>2. g \in Files \ DirtyFiles(d)
        BY <3>1, <3>4
      <4> HIDE DEF d
      <4> QED
        BY <3>5, <4>1, <4>2
    <3> QED
      BY <3>1, <3>2, <3>6 DEF Entries
  <2> QED
    BY <2>1, <2>2, <2>3, <2>4
<1>2. ImportClosed(src, Entries(Kept))
  BY <1>1, ImportsAreReached DEF ImportClosed
<1>3. ~GraphFails(src, Entries(Kept))
  <2> SUFFICES ASSUME NEW f \in Entries(Kept),
                      \E g \in Wanted(src, f) \cap Strict : Target(src, g) \notin Exists(src)
               PROVE  FALSE
    BY <1>2, ClosedFails DEF Entries
  <2>1. f \in ReachAll(src, Entries(d))
    BY <1>1, ReachSelf DEF ReachAll
  <2> QED
    BY <1>1, <2>1 DEF GraphFails
<1>4. \A f \in Files : Kept.hash[f] \in {None, src[f]}
  BY KeptIsUnchanged
<1> QED
  BY <1>2, <1>3, <1>4 DEF EntriesAreClosed

LEMMA PreprocessLeaves ==
    ASSUME TypeOK, RecordedTogether, RequestIsRead, FilterInv, NothingLeft, ~MayCrash, Preprocess
    PROVE  NothingLeft'
<1> DEFINE r == ReadArtifacts(Loaded, DiskArtifacts)
<1>1. /\ pc = "resolved" /\ pc' = "compiling" /\ snap = src
      /\ todo' = ToCompile(Kept, r, job)
      /\ mem' = WithEntries(Kept, job, snap)
      /\ cutInfos' = {}
      /\ UNCHANGED <<src, cacheFile, job, snap>>
  BY DEF Preprocess, request, RecordedTogether, ReadsAgree, NothingLeft
<1>2. Kept \in Cache /\ snap \in Tree
  BY KeptType DEF TypeOK
<1>3. /\ mem'.hash = [f \in Files |-> IF Kept.hash[f] = None /\ f \in AllFiles(job)
                                      THEN snap[f] ELSE Kept.hash[f]]
      /\ mem'.link = Kept.link
      /\ mem'.seen = Kept.seen
  BY <1>1, <1>2 DEF WithEntries, Cache
<1>4. EntriesAreClosed(src, Kept)
  BY KeptClosed
<1>5. /\ AllFiles(job) \in SUBSET Files
      /\ ImportClosed(src, AllFiles(job))
      /\ AllFiles(job) \subseteq Exists(src)
  BY <1>1, RequestClosed
<1>6. Entries(mem') = Entries(Kept) \cup AllFiles(job)
  BY <1>1, <1>3, <1>5 DEF Entries, Exists
<1>7. EntriesAreClosed(src, mem')
  <2>1. \A f \in Files : mem'.hash[f] \in {None, src[f]}
    BY <1>1, <1>3, <1>4 DEF EntriesAreClosed
  <2>2. ImportClosed(src, Entries(mem'))
    BY <1>4, <1>5, <1>6 DEF EntriesAreClosed, ImportClosed
  <2>3. ~GraphFails(src, AllFiles(job))
    BY <1>1 DEF NothingLeft
  <2>4. Entries(mem') \in SUBSET Files /\ Entries(Kept) \in SUBSET Files
    BY DEF Entries
  <2>5. ~GraphFails(src, Entries(mem'))
    BY <1>4, <1>5, <1>6, <2>2, <2>3, <2>4, ClosedFails DEF EntriesAreClosed
  <2> QED
    BY <2>1, <2>2, <2>5 DEF EntriesAreClosed
<1>8. ASSUME NEW k \in Requested(job), k[1] \notin todo'[k[2]]
      PROVE  Settled(mem', k) /\ ~Unresolved(snap, k[1])
  <2>1. k \in Keys /\ k[1] \in job[k[2]] /\ k[2] \in Units /\ k[1] \in Files /\ k = <<k[1], k[2]>>
    BY RequestedParts, KeyParts
  <2>2. ~Missing(Kept, r, k[1], k[2])
    <3> HIDE DEF r
    <3> QED
      BY <1>1, <1>8, <2>1 DEF ToCompile
  <2>3. /\ Kept.hash[k[1]] # None
        /\ (k[1] \in Kept.seen /\ Linked(Kept, k[1]) = {}) \/ Kept.link[k] # None
    BY <2>1, <2>2 DEF Missing
  <2>4. Usable
    BY <2>1, <2>3, KeptParts, LoadedParts
  <2>5. ~Unresolved(snap, k[1])
    BY <2>1, <2>4 DEF Usable, Invalidated, AllFiles
  <2>6. mem'.hash[k[1]] = Kept.hash[k[1]]
    BY <1>3, <2>1, <2>3
  <2>7. CASE Kept.link[k] # None
    BY <1>3, <2>5, <2>7 DEF Settled
  <2>8. CASE k[1] \in Kept.seen /\ Linked(Kept, k[1]) = {}
    <3>1. ~Yields(Kept.hash, k[1])
      BY <2>8, KeptSilence DEF FilterInv
    <3> QED
      BY <1>3, <2>5, <2>6, <2>8, <3>1 DEF Settled, Yields
  <2> QED
    BY <2>3, <2>7, <2>8
<1>9. LinkedYield(mem')
  <2> SUFFICES ASSUME NEW k \in Keys, Kept.link[k] # None PROVE Yields(mem'.hash, k[1])
    BY <1>3 DEF LinkedYield
  <2>1. /\ cacheFile # None /\ cacheFile.link[k] # None /\ k[1] \in Files
        /\ cacheFile.hash[k[1]] # None => Kept.hash[k[1]] # None
        /\ \A g \in Files : DropProfiles(Loaded).hash[g] # None
                              => DropProfiles(Loaded).hash[g] = cacheFile.hash[g]
    BY KeyParts, KeptWasCached
  <2>2. Yields(cacheFile.hash, k[1])
    BY <2>1 DEF NothingLeft, LinkedYield
  <2>3. Kept.hash[k[1]] # None
    BY <2>1, <2>2 DEF Yields
  <2>4. Kept.hash[k[1]] = cacheFile.hash[k[1]]
    BY <2>1, <2>3, KeptIsUnchanged
  <2>5. mem'.hash[k[1]] = Kept.hash[k[1]]
    BY <1>3, <2>1, <2>3
  <2> QED
    BY <2>2, <2>4, <2>5 DEF Yields
<1>10. cacheFile # None => LinkedYield(cacheFile)
  BY DEF NothingLeft
<1> QED
  BY <1>1, <1>6, <1>7, <1>8, <1>9, <1>10 DEF NothingLeft, LinkedYield, Yields,
     EntriesAreClosed, Entries, Settled

LEMMA CompileLeaves ==
    ASSUME TypeOK, TypeOK', RecordedTogether, RequestIsRead, NothingLeft, Compile
    PROVE  NothingLeft'
<1>1. /\ pc = "compiling" /\ pc' = "writing"
      /\ Compilable
      /\ fresh' = Produced
      /\ mem' = [mem EXCEPT !.seen = mem.seen \cup (AllFiles(todo) \cap Entries(mem))]
      /\ UNCHANGED <<cutInfos, cacheFile, settings, job, snap, todo>>
  BY DEF Compile, disk, request
<1>2. /\ mem'.hash = mem.hash /\ mem'.link = mem.link /\ mem'.set = mem.set
      /\ mem'.seen = mem.seen \cup (AllFiles(todo) \cap Entries(mem))
  BY <1>1 DEF TypeOK, Cache
<1>3. Entries(mem') = Entries(mem)
  BY <1>2 DEF Entries
<1>4. /\ \A k \in Keys : mem.link[k] # None => Merged'.link[k] # None
      /\ \A k \in Keys : Produced[k] # None /\ k[1] \in Entries(mem) => Merged'.link[k] # None
      /\ \A k \in Keys : Merged'.link[k] # None =>
             mem.link[k] # None \/ (Produced[k] # None /\ k[1] \in Entries(mem))
      /\ Merged'.hash = mem.hash
      /\ Merged'.seen = mem.seen \cup (AllFiles(todo) \cap Entries(mem))
  <2>1. (/\ \A k \in Keys : mem.link[k] # None => Merged.link[k] # None
         /\ \A k \in Keys : fresh[k] # None /\ k[1] \in Entries(mem) => Merged.link[k] # None
         /\ \A k \in Keys : Merged.link[k] # None =>
                mem.link[k] # None \/ (fresh[k] # None /\ k[1] \in Entries(mem))
         /\ Merged.hash = mem.hash /\ Merged.seen = mem.seen)'
    BY MergedParts, PTL
  <2> QED
    BY <1>1, <1>2, <1>3, <2>1
<1>5. Entries(Merged') = Entries(mem)
  BY <1>4 DEF Entries
<1>6. \A f \in Entries(mem) : mem.hash[f] = snap[f]
  BY <1>1 DEF RecordedTogether, MemoryAgrees, Entries
<1>7. /\ LinkedYield(mem)
      /\ EntriesAreClosed(snap, mem) /\ AllFiles(job) \subseteq Entries(mem)
  BY <1>1 DEF NothingLeft
<1>8. ASSUME NEW k \in Keys, Merged'.link[k] # None PROVE Yields(mem.hash, k[1])
  <2>1. CASE mem.link[k] # None
    BY <1>7, <2>1 DEF LinkedYield
  <2>2. CASE Produced[k] # None /\ k[1] \in Entries(mem)
    <3>1. Yields(snap, k[1])
      BY <2>2, OutputOfYield
    <3> QED
      BY <1>6, <2>2, <3>1 DEF Yields
  <2> QED
    BY <1>4, <1>8, <2>1, <2>2
<1>9. ASSUME NEW k \in Requested(job)
      PROVE  /\ Merged'.link[k] # None
                \/ (k[1] \in Merged'.seen /\ ~Yields(Merged'.hash, k[1]))
             /\ ~Unresolved(snap, k[1])
  <2>1. /\ k \in Keys /\ k[1] \in job[k[2]] /\ k[2] \in Units /\ k[1] \in Files
        /\ k[1] \in AllFiles(job)
    BY RequestedParts, KeyParts DEF AllFiles
  <2>2. k[1] \in Entries(mem)
    BY <1>7, <2>1
  <2>3. CASE k[1] \in todo[k[2]]
    <3>1. ~Unresolved(snap, k[1])
      BY <1>1, <2>1, <2>3, ReachSelf DEF Compilable, UnitCompiles
    <3>2. CASE Produced[k] # None
      BY <1>4, <2>1, <2>2, <3>1, <3>2
    <3>3. CASE Produced[k] = None
      <4>1. ~Yields(snap, k[1])
        BY <2>1, <2>3, <3>3, OutputOfYield
      <4>2. ~Yields(mem.hash, k[1])
        BY <1>6, <2>2, <4>1 DEF Yields
      <4>3. k[1] \in AllFiles(todo)
        BY <2>1, <2>3 DEF AllFiles
      <4> QED
        BY <1>4, <2>2, <3>1, <4>2, <4>3
    <3> QED
      BY <3>2, <3>3
  <2>4. CASE k[1] \notin todo[k[2]]
    <3>1. Settled(mem, k) /\ ~Unresolved(snap, k[1])
      BY <1>1, <2>4 DEF NothingLeft
    <3> QED
      BY <1>4, <2>1, <3>1 DEF Settled
  <2> QED
    BY <2>3, <2>4
<1>10. mem'.set = settings
  BY <1>1, <1>2 DEF RecordedTogether, MemoryAgrees
<1>11. cutInfos = {} /\ (cacheFile # None => LinkedYield(cacheFile))
  BY DEF NothingLeft
<1>12. (LinkedYield(Merged))'
  BY <1>4, <1>8 DEF LinkedYield, Yields
<1>13. (EntriesAreClosed(snap, Merged) /\ AllFiles(job) \subseteq Entries(Merged))'
  BY <1>1, <1>4, <1>5, <1>7 DEF EntriesAreClosed, Entries
<1>14. (\A k \in Requested(job) : Settled(Merged, k) /\ ~Unresolved(snap, k[1]))'
  BY <1>1, <1>9 DEF Settled, Yields
<1> QED
  BY <1>1, <1>10, <1>11, <1>12, <1>13, <1>14 DEF NothingLeft, LinkedYield, Yields

(* A step of a build that is writing, or of the user, which leaves the build   *)
(* itself alone.                                                               *)
LEMMA BystandersLeave ==
    ASSUME NothingLeft, cutInfos' = {}, cacheFile' \in {None, cacheFile},
           \/ UNCHANGED <<settings, pc, job, snap, mem, todo, fresh>>
           \/ pc' \in {"idle", "consuming", "returned"}
    PROVE  NothingLeft'
<1>1. cacheFile # None => LinkedYield(cacheFile)
  BY DEF NothingLeft
<1>2. (cacheFile # None => LinkedYield(cacheFile))'
  BY <1>1 DEF LinkedYield
<1>3. CASE pc' \in {"idle", "consuming", "returned"}
  BY <1>2, <1>3 DEF NothingLeft
<1>4. CASE UNCHANGED <<settings, pc, job, snap, mem, todo, fresh>>
  <2>1. Merged' = Merged
    BY <1>4 DEF Merged, NewBuilds, BuildOf
  <2> QED
    BY <1>2, <1>4, <2>1 DEF NothingLeft, LinkedYield, EntriesAreClosed, Entries, Settled
<1> QED
  BY <1>3, <1>4

LEMMA LeavesPreserved ==
    ASSUME Undisturbed, NoFallback, CleanInv, CleanInv', RecordedTogether, NothingLeft,
           [Next]_vars
    PROVE  NothingLeft'
<1>0. /\ TypeOK /\ TypeOK' /\ RecordedTogether /\ RequestIsRead /\ RequestIsRead' /\ FilterInv
      /\ ~MayCrash
      /\ cached /\ cutInfos = {} /\ (cacheFile # None => LinkedYield(cacheFile))
  BY DEF CleanInv, Undisturbed, RecordedTogether, NothingLeft
<1>1. ASSUME NEW roots \in [Units -> SUBSET Files], NEW m \in CacheModes, WithSources(roots, m)
      PROVE  NothingLeft'
  <2>1. /\ pc' = "resolved" /\ snap' = src
        /\ job' = [u \in Units |-> ReachAll(src, roots[u])]
        /\ ~GraphFails(src, UNION {roots[u] : u \in Units})
        /\ UNCHANGED <<cutInfos, cacheFile>>
    BY <1>1 DEF WithSources, disk
  <2>2. AllFiles(job') = ReachAll(src, UNION {roots[u] : u \in Units})
    BY <2>1 DEF AllFiles, ReachAll
  <2>3. ImportClosed(src, AllFiles(job')) /\ AllFiles(job') \in SUBSET Files
    <3>1. (pc # "idle")'
      BY <2>1
    <3>2. (/\ AllFiles(job) \in SUBSET Files
           /\ ImportClosed(snap, AllFiles(job))
           /\ AllFiles(job) \subseteq Exists(snap))'
      BY <1>0, <3>1, RequestClosed, PTL
    <3> QED
      BY <2>1, <3>2 DEF ImportClosed, Imports, Wanted, Target, Exists
  <2>4. ~GraphFails(src, AllFiles(job'))
    BY <2>1, <2>2, <2>3, ClosedReach DEF GraphFails
  <2> QED
    BY <1>0, <2>1, <2>4 DEF NothingLeft, LinkedYield
<1>2. CASE Preprocess
  BY <1>0, <1>2, PreprocessLeaves
<1>3. CASE PreprocessEphemeral
  BY <1>0, <1>3 DEF PreprocessEphemeral
<1>4. CASE Compile
  BY <1>0, <1>4, CompileLeaves
<1>5. CASE CompileInMemory
  BY <1>0, <1>5, BystandersLeave DEF CompileInMemory, disk
<1>6. CASE CompileErrors
  BY <1>0, <1>6, BystandersLeave DEF CompileErrors, disk
<1>7. ASSUME NEW k \in Keys, WriteArtifact(k) PROVE NothingLeft'
  BY <1>0, <1>7, BystandersLeave DEF WriteArtifact, request, checked
<1>8. ASSUME NEW b \in pendInfos, WriteBuildInfo(b) PROVE NothingLeft'
  BY <1>0, <1>8, BystandersLeave DEF WriteBuildInfo, request, checked
<1>9. ASSUME NEW b \in infos, RemoveOutdatedBuild(b) PROVE NothingLeft'
  BY <1>0, <1>9, BystandersLeave DEF RemoveOutdatedBuild, request, checked, written
<1>10. CASE WriteCache
  <2>1. /\ pc = "writing" /\ pc' = "returned" /\ cacheFile' = Pruned /\ cutInfos' = cutInfos
    BY <1>10 DEF WriteCache, WritingDone
  <2>2. LinkedYield(Pruned)
    BY <1>0, <2>1, MergedParts DEF NothingLeft, LinkedYield, Yields
  <2> QED
    BY <1>0, <2>1, <2>2 DEF NothingLeft, LinkedYield
<1>11. CASE ConsumeInMemory
  BY <1>0, <1>11, BystandersLeave DEF ConsumeInMemory, disk
<1>12. CASE Return
  BY <1>0, <1>12, BystandersLeave DEF Return, Forget, disk
<1>13. CASE CompilerFails
  BY <1>0, <1>13, BystandersLeave DEF CompilerFails, Forget, disk
<1>14. ASSUME NEW f \in Files, NEW c \in Contents \cup {None}, Edit(f, c) PROVE NothingLeft'
  BY <1>0, <1>14, BystandersLeave DEF Edit, request, checked, written
<1>15. ASSUME NEW p \in Profiles, NEW s \in Settings, ChangeSettings(p, s) PROVE NothingLeft'
  BY <1>0, <1>15, BystandersLeave DEF ChangeSettings
<1>16. ASSUME NEW k \in Keys, DeleteArtifact(k) PROVE NothingLeft'
  BY <1>0, <1>16, BystandersLeave DEF DeleteArtifact, request, checked, written
<1>17. CASE Cleanup
  BY <1>0, <1>17, BystandersLeave DEF Cleanup, request, checked, written
<1>18. CASE Crash
  BY <1>0, <1>18 DEF Crash
<1>19. CASE UNCHANGED vars
  BY <1>0, <1>19, BystandersLeave DEF vars, disk, request, checked, written
<1> QED
  BY <1>1, <1>2, <1>3, <1>4, <1>5, <1>6, <1>7, <1>8, <1>9, <1>10, <1>11, <1>12, <1>13,
     <1>14, <1>15, <1>16, <1>17, <1>18, <1>19 DEF Next, Build, Advance, User

(* What is asked for is stored, and nothing has changed since. *)
Current ==
    /\ TypeOK
    /\ cacheFile # None /\ cacheFile.set = settings
    /\ cacheFile.builds \subseteq infos /\ cutInfos = {}
    /\ LinksListed(cacheFile) /\ LinkedYield(cacheFile) /\ AllReadable(cacheFile, art)
    /\ EntriesAreClosed(src, cacheFile)
    /\ snap = src
    /\ \A k \in Requested(job) :
          Settled(cacheFile, k) /\ cacheFile.hash[k[1]] # None /\ ~Unresolved(snap, k[1])

(* Then all of the cache file is loaded and kept. *)
LEMMA CurrentIsKept ==
    ASSUME Current
    PROVE  /\ Usable /\ Intact /\ DiskArtifacts = art
           /\ \A f \in Files : Kept.hash[f] = cacheFile.hash[f]
           /\ \A k \in Keys : /\ Loaded.link[k] = cacheFile.link[k]
                              /\ Kept.link[k] = cacheFile.link[k]
           /\ Kept.seen = cacheFile.seen \cap Exists(src)
           /\ Loaded.builds = cacheFile.builds
<1> DEFINE d == DropProfiles(Loaded)
<1>0. TypeOK /\ \A f \in Files : cacheFile.hash[f] \in {None, src[f]}
  BY DEF Current, EntriesAreClosed
<1>1. ~Invalidated
  <2> SUFFICES ASSUME NEW u \in Units, NEW f \in job[u] PROVE ~Unresolved(snap, f)
    BY DEF Invalidated, AllFiles
  <2> DEFINE k == <<f, u>>
  <2>1. f \in Files
    BY <1>0 DEF TypeOK
  <2>2. k \in Requested(job) /\ k[1] = f
    BY <2>1 DEF Requested, Keys
  <2> QED
    BY <2>2 DEF Current
<1>2. Usable /\ Intact
  BY <1>1 DEF Current, Usable, Intact
<1>3. /\ DiskArtifacts = art
      /\ \A f \in Files : Loaded.hash[f] = IF src[f] # None THEN cacheFile.hash[f] ELSE None
      /\ \A k \in Keys : Loaded.link[k] = IF src[k[1]] # None THEN cacheFile.link[k] ELSE None
      /\ Loaded.seen = cacheFile.seen \cap Exists(src)
      /\ Loaded.builds = cacheFile.builds
      /\ Loaded.set = settings
  BY <1>0, <1>2, LoadedParts DEF DiskArtifacts, Current
<1>4. \A f \in Files : Loaded.hash[f] = cacheFile.hash[f]
  BY <1>0, <1>3
<1>5. \A k \in Keys : Loaded.link[k] = cacheFile.link[k]
  <2> TAKE k \in Keys
  <2>1. CASE src[k[1]] = None
    <3>1. cacheFile.hash[k[1]] = None
      BY <1>0, <2>1, KeyParts
    <3>2. cacheFile.link[k] = None
      BY <3>1 DEF Current, LinkedYield, Yields
    <3> QED
      BY <1>3, <2>1, <3>2
  <2> QED
    BY <1>3, <2>1
<1>6. DirtyProfiles(Loaded) = {} /\ Surviving(Loaded) = Files
  <2>1. DirtyProfiles(Loaded) = {}
    BY <1>3 DEF DirtyProfiles
  <2>2. \A f \in Files : Linked(Loaded, f) # {} =>
            \E k \in Keys : /\ k[1] = f /\ Loaded.link[k] # None
                           /\ k[2][2] \notin DirtyProfiles(Loaded)
    BY <2>1 DEF Linked
  <2> QED
    BY <2>1, <2>2 DEF Surviving
<1>7. \A f \in Files : d.hash[f] = cacheFile.hash[f]
  BY <1>0, <1>4, <1>6, LoadedType, DropProfilesParts
<1>8. DirtyFiles(d) = {}
  <2> HIDE DEF d
  <2>1. Entries(d) = Entries(cacheFile) /\ Entries(d) \in SUBSET Files
    BY <1>7 DEF Entries
  <2>2. ImportClosed(src, Entries(d)) /\ ~GraphFails(src, Entries(d))
    BY <2>1 DEF Current, EntriesAreClosed
  <2>3. ReachAll(src, Entries(d)) = Entries(d)
    BY <2>1, <2>2, ClosedReach
  <2>4. {f \in ReachAll(src, Entries(d)) : d.hash[f] # src[f]} = {}
    BY <1>0, <1>7, <2>1, <2>3 DEF Entries
  <2> QED
    BY <2>2, <2>4 DEF DirtyFiles
<1>9. Loaded.seen \subseteq Files
  BY <1>0, LoadedType DEF Cache
<1>10. \A f \in Files : Kept.hash[f] = cacheFile.hash[f]
  BY <1>0, <1>4, <1>6, <1>8, KeptParts
<1>11. \A k \in Keys : Kept.link[k] = cacheFile.link[k]
  BY <1>0, <1>5, <1>6, <1>8, KeptParts, KeyParts
<1>12. Kept.seen = cacheFile.seen \cap Exists(src)
  BY <1>0, <1>3, <1>6, <1>8, <1>9, KeptParts
<1> QED
  BY <1>2, <1>3, <1>5, <1>10, <1>11, <1>12

LEMMA CurrentIsIdle ==
    ASSUME Current
    PROVE  \A u \in Units : ToCompile(Kept, ReadArtifacts(Loaded, DiskArtifacts), job)[u] = {}
<1> DEFINE r == ReadArtifacts(Loaded, DiskArtifacts)
<1>1. TypeOK /\ AllReadable(cacheFile, art) /\ cacheFile \in Cache
  BY DEF Current, TypeOK
<1>2. ASSUME NEW k \in Keys, cacheFile.link[k] # None PROVE r[k] # None
  <2>1. AllReadable(Loaded, art)
    BY <1>1, CurrentIsKept DEF AllReadable
  <2>2. Loaded.link[k] = cacheFile.link[k] /\ Loaded.link[k] \in ReadBuilds(Loaded)
    BY <1>2, CurrentIsKept DEF ReadBuilds, Current, LinksListed
  <2>3. r[k] = [art |-> art[k], build |-> cacheFile.link[k]]
    BY <1>2, <2>1, <2>2, CurrentIsKept DEF ReadArtifacts
  <2>4. art[k] \in Artifact /\ cacheFile.link[k] \in BuildId
    BY <1>1, <1>2 DEF AllReadable, TypeOK, Cache
  <2>5. [art |-> art[k], build |-> cacheFile.link[k]] \in Reusable
    BY <2>4 DEF Reusable
  <2> QED
    BY <2>3, <2>5, NoneIsNoRecord
<1> HIDE DEF r
<1>3. ASSUME NEW u \in Units, NEW f \in job[u] PROVE ~Missing(Kept, r, f, u)
  <2> DEFINE k == <<f, u>>
  <2>1. k \in Keys /\ k[1] = f /\ k[2] = u /\ f \in Files /\ k \in Requested(job)
    BY <1>1 DEF TypeOK, Requested, Keys
  <2> HIDE DEF k
  <2>2. Settled(cacheFile, k) /\ cacheFile.hash[f] # None
    BY <2>1 DEF Current
  <2>3. Kept.hash[f] # None
    BY <2>1, <2>2, CurrentIsKept
  <2>4. ~\E l \in Linked(Kept, f) : l[2][1] = u[1] /\ r[l] = None
    BY <1>2, CurrentIsKept DEF Linked
  <2>5. CASE cacheFile.link[k] # None
    <3>1. Kept.link[<<f, u>>] # None
      BY <2>1, <2>5, CurrentIsKept DEF k
    <3> QED
      BY <2>3, <2>4, <3>1 DEF Missing
  <2>6. CASE f \in cacheFile.seen /\ ~Yields(cacheFile.hash, f)
    <3>1. Linked(Kept, f) = {}
      BY <2>6, CurrentIsKept DEF Linked, Current, LinkedYield
    <3>2. f \in Kept.seen
      BY <2>1, <2>2, <2>6, CurrentIsKept DEF Exists, Current, EntriesAreClosed
    <3> QED
      BY <2>3, <3>1, <3>2 DEF Missing
  <2> QED
    BY <2>1, <2>2, <2>5, <2>6 DEF Settled
<1>4. ToCompile(Kept, r, job) = [u \in Units |-> {f \in job[u] : Missing(Kept, r, f, u)}]
  BY DEF ToCompile
<1>5. \A u \in Units : ToCompile(Kept, r, job)[u] = {}
  BY <1>3, <1>4
<1> QED
  BY <1>5 DEF r

LEMMA StoringIsCurrent ==
    ASSUME TypeOK, TypeOK', InfosListed', NothingLeft, WriteCache, src = snap,
           AllReadable(Pruned, art)
    PROVE  Current'
<1>1. /\ pc = "writing" /\ pc' = "returned" /\ cacheFile' = Pruned
      /\ UNCHANGED <<src, art, cutInfos, settings, job, snap>>
  BY DEF WriteCache, WritingDone, request
<1>2. /\ Pruned.hash = Merged.hash /\ Pruned.seen = Merged.seen /\ Pruned.link = Merged.link
      /\ Pruned.set = mem.set /\ Pruned \in Cache
  BY MergedParts, MergedType, PrunedType
<1>3. Entries(Pruned) = Entries(Merged)
  BY <1>2 DEF Entries
<1>4. Pruned # None
  BY <1>2, NoneIsNoRecord
<1>5. (cacheFile.builds = infos /\ LinksListed(cacheFile))'
  BY <1>1, <1>4 DEF InfosListed
<1>6. LinkedYield(Pruned)
  BY <1>1, <1>2 DEF NothingLeft, LinkedYield, Yields
<1>7. EntriesAreClosed(src, Pruned)
  BY <1>1, <1>2, <1>3 DEF NothingLeft, EntriesAreClosed
<1>8. ASSUME NEW k \in Requested(job)
      PROVE  Settled(Pruned, k) /\ Pruned.hash[k[1]] # None /\ ~Unresolved(snap, k[1])
  <2>1. k[1] \in Entries(Merged)
    BY <1>1, RequestedParts, KeyParts DEF NothingLeft, AllFiles
  <2>2. Settled(Merged, k) /\ ~Unresolved(snap, k[1])
    BY <1>1 DEF NothingLeft
  <2> QED
    BY <1>2, <2>1, <2>2 DEF Settled, Entries, Yields
<1> QED
  BY <1>1, <1>2, <1>4, <1>5, <1>6, <1>7, <1>8
  DEF Current, NothingLeft, LinkedYield, EntriesAreClosed, Settled, AllReadable, Entries, Yields

(* Building again what a build has just stored compiles nothing: the cache     *)
(* file it wrote is accepted, nothing in it is dirty and no artifact that was  *)
(* asked for is missing, when the artifacts it names can be read and no source *)
(* was edited while it was built.                                              *)
THEOREM RebuildsAreIdle ==
    ASSUME Undisturbed, NoFallback
    PROVE  Spec => RebuildIsIdle
<1>1. Init => InfosListed /\ NothingLeft
  BY DEF Init, InfosListed, NothingLeft
<1>2. CleanInv /\ CleanInv' /\ RecordedTogether /\ InfosListed /\ NothingLeft /\ [Next]_vars
        => InfosListed' /\ NothingLeft'
  <2> SUFFICES ASSUME CleanInv, CleanInv', RecordedTogether, InfosListed, NothingLeft, [Next]_vars
               PROVE  InfosListed' /\ NothingLeft'
    OBVIOUS
  <2>1. TypeOK /\ TypeOK' /\ ~MayCrash /\ ~MayBypass
    BY DEF CleanInv, Undisturbed
  <2>2. InfosListed'
    BY <2>1, ListsPreserved
  <2>3. NothingLeft'
    BY LeavesPreserved
  <2> QED
    BY <2>2, <2>3
<1>3. CleanInv /\ CleanInv' /\ InfosListed' /\ NothingLeft /\ WriteCache /\ src = snap
        /\ AllReadable(Pruned, art)
        => (\A u \in Units : ToCompile(Kept, ReadArtifacts(Loaded, DiskArtifacts), job)[u] = {})'
  <2> SUFFICES ASSUME CleanInv, CleanInv', InfosListed', NothingLeft, WriteCache, src = snap,
                      AllReadable(Pruned, art)
               PROVE (\A u \in Units :
                        ToCompile(Kept, ReadArtifacts(Loaded, DiskArtifacts), job)[u] = {})'
    OBVIOUS
  <2>1. Current'
    BY StoringIsCurrent DEF CleanInv
  <2> QED
    BY <2>1, CurrentIsIdle, PTL
<1>4. Spec => []CleanInv /\ []RecordedTogether
  BY CleanInvHolds, RecordsAreSound DEF Traceable
<1> QED
  BY <1>1, <1>2, <1>3, <1>4, PTL DEF Spec, RebuildIsIdle

=============================================================================
