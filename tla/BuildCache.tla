----------------------------- MODULE BuildCache -----------------------------
(***************************************************************************)
(* The incremental build of a Project: cache.rs and compile/project.rs.    *)
(*                                                                         *)
(* One process at a time builds; each build may be the first of a fresh    *)
(* process.  A build reads the sources and resolves their imports          *)
(* (with_sources), loads the cache file, the cached artifacts and build    *)
(* infos, reads the cached sources a second time to find the dirty ones    *)
(* and keeps only what has to be compiled (preprocess), compiles, writes   *)
(* artifacts and build infos one file at a time, prunes build infos no     *)
(* artifact refers to and rewrites the cache file (consume).               *)
(*                                                                         *)
(* Around it the user edits, creates and deletes sources, changes          *)
(* settings, deletes artifacts, cleans the project, builds without the     *)
(* cache, and interrupts builds.                                           *)
(***************************************************************************)
EXTENDS SourceTree, FiniteSets

CONSTANTS
    MayRevert,    \* sources and settings may return to a recorded value
    MayRace,      \* sources may change between the two reads of one build
    MayCrash,     \* a build may die between any two steps, or in one
    MayBypass,    \* builds may run with the cache disabled (Project::cached)
    MaxInfos      \* how many build infos a dying build may leave (a bound for TLC)

(* One build at a time, run to its end, with the cache, and no edit between   *)
(* its two reads of the sources.                                               *)
Undisturbed == ~MayRace /\ ~MayCrash /\ ~MayBypass

ASSUME FlagsAreBoolean == {MayRevert, MayRace, MayCrash, MayBypass} \subseteq BOOLEAN

VARIABLES
    \* on disk
    src,          \* Tree: the sources
    art,          \* Keys -> Artifact or None: the artifact files
    infos,        \* the build info files, by id
    cutInfos,     \* those of them an interrupted write left truncated
    cacheFile,    \* the cache file, None when missing or truncated
    \* the configuration of the project
    settings,     \* Profiles -> Settings
    \* the build in progress
    pc,           \* where it stands
    cached,       \* whether it uses the cache
    job,          \* Units -> the files each unit compiles, imports included
    snap,         \* Tree: the sources as with_sources read them
    mem,          \* CompilerCache: the cache in memory
    reuse,        \* Keys -> cached artifact with its build id, or None
    oldBuilds,    \* the build infos that could be read
    dirty,        \* dirty_sources
    todo,         \* Units -> the files that need artifacts
    fresh,        \* Keys -> Artifact or None: what the compiler produced
    pendArts,     \* artifact files still to be written
    pendInfos,    \* build infos still to be written
    output        \* what the build returned, until the caller drops it

disk == <<src, art, infos, cutInfos, cacheFile, settings>>
request == <<cached, job, snap>>
checked == <<mem, reuse, oldBuilds, dirty, todo>>
written == <<fresh, pendArts, pendInfos>>
vars == <<disk, pc, request, checked, written, output>>

-----------------------------------------------------------------------------
(* RawBuildInfo's id hashes the compiler version and the whole input: the     *)
(* settings, the sources passed and, as the output selection, which of them    *)
(* are compiled completely.                                                    *)
BuildId == [version : Versions, set : Settings, srcs : Tree, complete : SUBSET Files]

(* CompilerCache, its CacheEntry fields as functions from files: `link` is    *)
(* CacheEntry::artifacts, by (file, unit), with the build id of each artifact. *)
Cache == [hash : [Files -> Contents \cup {None}],
          seen : SUBSET Files,
          link : [Keys -> BuildId \cup {None}],
          builds : SUBSET BuildId,
          set : [Profiles -> Settings \cup {None}]]

EmptyCache == [hash |-> [f \in Files |-> None],
               seen |-> {},
               link |-> [k \in Keys |-> None],
               builds |-> {},
               set |-> [p \in Profiles |-> None]]

Reusable == [art : Artifact, build : BuildId]

ASSUME NoneIsNoRecord == None \notin BuildId \cup Reusable \cup Cache

Entries(c) == {f \in Files : c.hash[f] # None}
Linked(c, f) == {k \in Keys : k[1] = f /\ c.link[k] # None}

(* The cache without the entries outside F. *)
Only(c, F) ==
    [c EXCEPT !.hash = [f \in Files |-> IF f \in F THEN c.hash[f] ELSE None],
              !.seen = c.seen \cap F,
              !.link = [k \in Keys |-> IF k[1] \in F THEN c.link[k] ELSE None]]

NoArtifacts == [k \in Keys |-> None]
NoFiles == [u \in Units |-> {}]
AllFiles(j) == UNION {j[u] : u \in Units}

-----------------------------------------------------------------------------
(* ArtifactsCache::new: what is loaded, and whether loading wipes the          *)
(* artifacts directory (which holds the build infos as well).                  *)

Invalidated == \E f \in AllFiles(job) : Unresolved(snap, f)
Usable == ~Invalidated /\ cacheFile # None
Intact == cacheFile.builds \subseteq infos
Wipes == Usable /\ ~Intact

Loaded == IF Usable /\ Intact THEN Only(cacheFile, Exists(src)) ELSE EmptyCache

(* One artifact that cannot be read empties the whole set. *)
AllReadable(c, a) == \A k \in Keys : c.link[k] # None => a[k] # None
ReadBuilds(c) == IF c.builds \cap cutInfos = {} THEN c.builds ELSE {}

(* Mutant: artifacts that cannot be read are not skipped. *)
ReadArtifactsUnseen(c, a) ==
    [k \in Keys |->
        IF c.link[k] # None /\ c.link[k] \in ReadBuilds(c)
        THEN [art |-> a[k], build |-> c.link[k]]
        ELSE None]

(* Mutant: artifacts whose build info cannot be read are not skipped. *)
ReadArtifactsUnattached(c, a) ==
    [k \in Keys |->
        IF AllReadable(c, a) /\ c.link[k] # None
        THEN [art |-> a[k], build |-> c.link[k]]
        ELSE None]

ReadArtifacts(c, a) ==
    [k \in Keys |->
        IF AllReadable(c, a) /\ c.link[k] # None /\ c.link[k] \in ReadBuilds(c)
        THEN [art |-> a[k], build |-> c.link[k]]
        ELSE None]

-----------------------------------------------------------------------------
(* find_and_remove_dirty *)

DirtyProfiles(c) == {p \in Profiles : c.set[p] # None /\ c.set[p] # settings[p]}

(* Entries that had no artifacts stay; those that lose their last one go. *)
DropProfiles(c) ==
    LET dp == DirtyProfiles(c)
        link == [k \in Keys |-> IF k[2][2] \in dp THEN None ELSE c.link[k]]
        keep == {f \in Files : Linked(c, f) # {} =>
                                 \E k \in Keys : k[1] = f /\ link[k] # None}
    IN  [Only([c EXCEPT !.link = link], keep) EXCEPT !.set = settings]

(* Mutant: the files that import a changed file are not dirty. *)
DirtyFilesAlone(c) ==
    {f \in ReachAll(src, Entries(c)) : c.hash[f] # src[f]}

(* The files whose content no longer has the hash of their entry, with all     *)
(* that import them, on a graph of the cached files and their imports.         *)
DirtyFiles(c) ==
    LET nodes == ReachAll(src, Entries(c))
        changed == {f \in nodes : c.hash[f] # src[f]}
    IN  IF GraphFails(src, Entries(c))
        THEN Entries(c)
        ELSE {f \in nodes : Reach(src, f) \cap changed # {}}

-----------------------------------------------------------------------------
(* ArtifactsCacheInner::filter *)

(* Mutant: files that produced no artifact are compiled again. *)
MissingUnseen(c, r, f, u) ==
    \/ c.hash[f] = None
    \/ c.link[<<f, u>>] = None
    \/ \E k \in Linked(c, f) : k[2][1] = u[1] /\ r[k] = None

(* Mutant: a listed artifact is not looked for among those read. *)
MissingUnread(c, r, f, u) ==
    \/ c.hash[f] = None
    \/ ~(f \in c.seen /\ Linked(c, f) = {}) /\ c.link[<<f, u>>] = None

(* is_missing_artifacts: c is the cache without dirty entries, r the artifacts *)
(* read.  The check asks for the artifacts of every profile of the version.    *)
Missing(c, r, f, u) ==
    \/ c.hash[f] = None
    \/ /\ ~(f \in c.seen /\ Linked(c, f) = {})
       /\ \/ c.link[<<f, u>>] = None
          \/ \E k \in Linked(c, f) : k[2][1] = u[1] /\ r[k] = None

ToCompile(c, r, j) == [u \in Units |-> {f \in j[u] : Missing(c, r, f, u)}]

(* Every file in scope gets an entry, hashed from the first read. *)
WithEntries(c, j, s) ==
    [c EXCEPT !.hash = [f \in Files |->
        IF c.hash[f] = None /\ f \in AllFiles(j) THEN s[f] ELSE c.hash[f]]]

Kept == LET c == DropProfiles(Loaded) IN Only(c, Files \ DirtyFiles(c))
DiskArtifacts == IF Wipes THEN NoArtifacts ELSE art

-----------------------------------------------------------------------------
(* The compiler and consume *)

BuildOf(u) ==
    LET passed == {f \in job[u] : \E g \in todo[u] : f \in Reach(snap, g)}
    IN  [version |-> u[1], set |-> settings[u[2]], complete |-> todo[u],
         srcs |-> [f \in Files |-> IF f \in passed THEN snap[f] ELSE None]]

NewBuilds == {BuildOf(u) : u \in {v \in Units : todo[v] # {}}}

Produced ==
    [k \in Keys |->
        IF k[1] \in todo[k[2]] THEN CompilerOutput(snap, settings, k) ELSE None]

(* Mutant: the sources are hashed when the cache is written. *)
MergedRehashed ==
    [mem EXCEPT !.link = [k \in Keys |->
                            IF fresh[k] # None /\ k[1] \in Entries(mem)
                            THEN BuildOf(k[2]) ELSE mem.link[k]],
                !.hash = [f \in Files |-> IF mem.hash[f] # None THEN src[f] ELSE None],
                !.builds = mem.builds \cup NewBuilds]

(* Mutant: the new builds are not listed. *)
MergedUnlisted ==
    [mem EXCEPT !.link = [k \in Keys |->
                            IF fresh[k] # None /\ k[1] \in Entries(mem)
                            THEN BuildOf(k[2]) ELSE mem.link[k]]]

(* merge_artifacts for every written artifact, the new builds added. *)
Merged ==
    [mem EXCEPT !.link = [k \in Keys |->
                            IF fresh[k] # None /\ k[1] \in Entries(mem)
                            THEN BuildOf(k[2]) ELSE mem.link[k]],
                !.builds = mem.builds \cup NewBuilds]

(* remove_outdated_builds *)
LinkedBuilds(c) == {b \in c.builds : \E k \in Keys : c.link[k] = b}
Pruned == [Merged EXCEPT !.builds = LinkedBuilds(Merged)]

(* Mutant: dirty artifacts are not dropped. *)
RetainedDirty(new, k) ==
    /\ reuse[k] # None
    /\ \E u \in Units : u[1] = k[2][1] /\ k[1] \in job[u]
    /\ ~\E l \in Keys : l[1] = k[1] /\ l[2][1] = k[2][1] /\ new[l] # None

(* Mutant: versions are not compared. *)
RetainedVersionless(new, k) ==
    /\ reuse[k] # None
    /\ \E u \in Units : u[1] = k[2][1] /\ k[1] \in job[u]
    /\ k[1] \notin dirty
    /\ ~\E l \in Keys : l[1] = k[1] /\ new[l] # None

(* consume drops reusable artifacts that are out of scope (by file and         *)
(* version), dirty, or among the new ones: file, name and version are          *)
(* compared, the profile is not.                                               *)
Retained(new, k) ==
    /\ reuse[k] # None
    /\ \E u \in Units : u[1] = k[2][1] /\ k[1] \in job[u]
    /\ k[1] \notin dirty
    /\ ~\E l \in Keys : l[1] = k[1] /\ l[2][1] = k[2][1] /\ new[l] # None

Outputs == [failed : BOOLEAN, builds : SUBSET BuildId,
            arts : [Keys -> Reusable \cup {None}]]

(* ProjectCompileOutput: the artifacts compiled and reused, each with its     *)
(* build, and the build infos that come with them.                             *)
Outcome(new, failed) ==
    [failed |-> failed,
     builds |-> NewBuilds \cup oldBuilds,
     arts |-> [k \in Keys |->
                 IF new[k] # None THEN [art |-> new[k], build |-> BuildOf(k[2])]
                 ELSE IF Retained(new, k) THEN reuse[k] ELSE None]]

-----------------------------------------------------------------------------
Init ==
    /\ src \in Tree
    /\ art = NoArtifacts
    /\ infos = {}
    /\ cutInfos = {}
    /\ cacheFile = None
    /\ settings \in [Profiles -> Settings]
    /\ pc = "idle"
    /\ cached = TRUE
    /\ job = NoFiles
    /\ snap = [f \in Files |-> None]
    /\ mem = EmptyCache
    /\ reuse = NoArtifacts
    /\ oldBuilds = {}
    /\ dirty = {}
    /\ todo = NoFiles
    /\ fresh = NoArtifacts
    /\ pendArts = {}
    /\ pendInfos = {}
    /\ output = None

(* What a process holds dies with it, or with the next build. *)
Forget ==
    /\ pc' = "idle"
    /\ cached' = TRUE
    /\ job' = NoFiles
    /\ snap' = [f \in Files |-> None]
    /\ mem' = EmptyCache
    /\ reuse' = NoArtifacts
    /\ oldBuilds' = {}
    /\ dirty' = {}
    /\ todo' = NoFiles
    /\ fresh' = NoArtifacts
    /\ pendArts' = {}
    /\ pendInfos' = {}
    /\ output' = None

-----------------------------------------------------------------------------
(* ProjectCompiler::with_sources: the input files are read and the graph is    *)
(* resolved; a graph error ends the build before it touches anything.          *)
WithSources(roots, useCache) ==
    /\ pc = "idle"
    /\ UNION {roots[u] : u \in Units} \in (SUBSET Exists(src)) \ {{}}
    /\ ~GraphFails(src, UNION {roots[u] : u \in Units})
    /\ pc' = "resolved"
    /\ cached' = useCache
    /\ job' = [u \in Units |-> ReachAll(src, roots[u])]
    /\ snap' = src
    /\ UNCHANGED <<disk, checked, written, output>>

(* preprocess with Project::cached: ArtifactsCache::new, find_and_remove_dirty *)
(* on the second read of the sources, and filter for every unit.               *)
Preprocess ==
    /\ pc = "resolved"
    /\ cached
    /\ LET r == ReadArtifacts(Loaded, DiskArtifacts)
       IN  /\ reuse' = r
           /\ oldBuilds' = ReadBuilds(Loaded)
           /\ dirty' = DirtyFiles(DropProfiles(Loaded))
           /\ todo' = ToCompile(Kept, r, job)
           /\ mem' = WithEntries(Kept, job, snap)
    /\ art' = DiskArtifacts
    /\ infos' = IF Wipes THEN {} ELSE infos
    /\ cutInfos' = IF Wipes THEN {} ELSE cutInfos
    /\ pc' = "compiling"
    /\ UNCHANGED <<src, cacheFile, settings, request, written, output>>

(* preprocess with ArtifactsCache::Ephemeral filters nothing out. *)
PreprocessEphemeral ==
    /\ pc = "resolved"
    /\ ~cached
    /\ todo' = job
    /\ pc' = "compiling"
    /\ UNCHANGED <<disk, request, mem, reuse, oldBuilds, dirty, written, output>>

(* The compiler reports an error when an import of a source it is given, the   *)
(* files to compile and all their imports, cannot be found.                    *)
UnitCompiles(u) ==
    \A f \in todo[u] : \A g \in Reach(snap, f) : ~Unresolved(snap, g)

Compilable == \A u \in Units : UnitCompiles(u)

(* CompilerSources::compile and write_artifacts: the compiler runs, every file *)
(* it was asked about is marked as seen, and the artifacts go to disk next.    *)
Compile ==
    /\ pc = "compiling"
    /\ Compilable
    /\ fresh' = Produced
    /\ pendArts' = {k \in Keys : Produced[k] # None}
    /\ pendInfos' = NewBuilds
    /\ mem' = [mem EXCEPT !.seen = mem.seen \cup (AllFiles(todo) \cap Entries(mem))]
    /\ pc' = "writing"
    /\ UNCHANGED <<disk, request, reuse, oldBuilds, dirty, todo, output>>

(* The same with Project::no_artifacts: output, but nothing on disk. *)
CompileInMemory ==
    /\ pc = "compiling"
    /\ Compilable
    /\ fresh' = Produced
    /\ pc' = "consuming"
    /\ UNCHANGED <<disk, request, checked, pendArts, pendInfos, output>>

(* Some unit reports errors: neither artifacts nor the cache are written; what  *)
(* the other units produced and the reusable artifacts are in the output.       *)
CompileErrors ==
    /\ pc = "compiling"
    /\ AllFiles(todo) # {}
    /\ \E good \in SUBSET {u \in Units : UnitCompiles(u)} :
          output' = Outcome([k \in Keys |-> IF k[2] \in good THEN Produced[k] ELSE None], TRUE)
    /\ pc' = "returned"
    /\ UNCHANGED <<disk, request, checked, written>>

(* write_all *)
WriteArtifact(k) ==
    /\ pc = "writing"
    /\ k \in pendArts
    /\ art' = [art EXCEPT ![k] = fresh[k]]
    /\ pendArts' = pendArts \ {k}
    /\ UNCHANGED <<src, infos, cutInfos, cacheFile, settings, pc, request, checked,
                   fresh, pendInfos, output>>

(* write_build_infos, after the artifacts *)
WriteBuildInfo(b) ==
    /\ pc = "writing"
    /\ pendArts = {}
    /\ b \in pendInfos
    /\ infos' = infos \cup {b}
    /\ cutInfos' = cutInfos \ {b}
    /\ pendInfos' = pendInfos \ {b}
    /\ UNCHANGED <<src, art, cacheFile, settings, pc, request, checked,
                   fresh, pendArts, output>>

(* Mutant: the cache file is written before the artifacts. *)
WritingDoneEarly == pc = "writing"

WritingDone == pc = "writing" /\ pendArts = {} /\ pendInfos = {}

(* consume with write_to_disk: remove_outdated_builds deletes the build infos  *)
(* the new cache does not list, one file at a time.                            *)
RemoveOutdatedBuild(b) ==
    /\ WritingDone
    /\ cached
    /\ b \in infos \ Pruned.builds
    /\ infos' = infos \ {b}
    /\ cutInfos' = cutInfos \ {b}
    /\ UNCHANGED <<src, art, cacheFile, settings, pc, request, checked, written, output>>

(* consume: the cache file is rewritten and the build returns. *)
WriteCache ==
    /\ WritingDone
    /\ cached
    /\ infos \subseteq Pruned.builds
    /\ cacheFile' = Pruned
    /\ output' = Outcome(fresh, FALSE)
    /\ pc' = "returned"
    /\ UNCHANGED <<src, art, infos, cutInfos, settings, request, checked, written>>

(* consume without write_to_disk, or on ArtifactsCache::Ephemeral *)
ConsumeInMemory ==
    /\ \/ pc = "consuming"
       \/ WritingDone /\ ~cached
    /\ output' = Outcome(fresh, FALSE)
    /\ pc' = "returned"
    /\ UNCHANGED <<disk, request, checked, written>>

(* The caller is done with the output. *)
Return ==
    /\ pc = "returned"
    /\ Forget
    /\ UNCHANGED disk

(* The compiler cannot be run: compile returns Err and nothing is written. *)
CompilerFails ==
    /\ pc = "compiling"
    /\ Forget
    /\ UNCHANGED disk

CacheModes == {TRUE, ~MayBypass}

(* One step of a build that has been started. *)
Advance ==
    \/ Preprocess
    \/ PreprocessEphemeral
    \/ Compile
    \/ CompileInMemory
    \/ CompileErrors
    \/ \E k \in Keys : WriteArtifact(k)
    \/ \E b \in pendInfos : WriteBuildInfo(b)
    \/ \E b \in infos : RemoveOutdatedBuild(b)
    \/ WriteCache
    \/ ConsumeInMemory
    \/ Return
    \/ CompilerFails

Build ==
    \/ \E roots \in [Units -> SUBSET Files], useCache \in CacheModes :
           WithSources(roots, useCache)
    \/ Advance

-----------------------------------------------------------------------------
(* The user, between and during builds *)

(* Contents of f and settings of p that a cache or an artifact may still hold. *)
RecordedContents(f) ==
    {snap[f], mem.hash[f]}
        \cup {a.src[f] : a \in {art[k] : k \in Keys} \ {None}}
        \cup {a.src[f] : a \in {fresh[k] : k \in Keys} \ {None}}
        \cup (IF cacheFile = None THEN {} ELSE {cacheFile.hash[f]})

RecordedSettings(p) ==
    {a.set : a \in {art[k] : k \in Keys} \ {None}}
        \cup (IF cacheFile = None THEN {} ELSE {cacheFile.set[p]})

(* A file is edited, created or deleted.  Without MayRace this does not happen *)
(* between the two reads of one build.                                         *)
Edit(f, c) ==
    /\ c # src[f]
    /\ MayRace \/ pc # "resolved"
    /\ MayRevert \/ c = None \/ c \notin RecordedContents(f)
    /\ src' = [src EXCEPT ![f] = c]
    /\ UNCHANGED <<art, infos, cutInfos, cacheFile, settings,
                   pc, request, checked, written, output>>

(* The settings of a project are fixed while it builds. *)
ChangeSettings(p, s) ==
    /\ pc = "idle"
    /\ s # settings[p]
    /\ MayRevert \/ s \notin RecordedSettings(p)
    /\ settings' = [settings EXCEPT ![p] = s]
    /\ UNCHANGED <<src, art, infos, cutInfos, cacheFile,
                   pc, request, checked, written, output>>

DeleteArtifact(k) ==
    /\ art[k] # None
    /\ art' = [art EXCEPT ![k] = None]
    /\ UNCHANGED <<src, infos, cutInfos, cacheFile, settings,
                   pc, request, checked, written, output>>

(* Project::cleanup removes the cache file first; interrupted, it leaves the   *)
(* artifacts directory behind.                                                 *)
Cleanup ==
    /\ pc = "idle"
    /\ cacheFile' = None
    /\ \/ /\ art' = NoArtifacts
          /\ infos' = {}
          /\ cutInfos' = {}
       \/ /\ MayCrash
          /\ UNCHANGED <<art, infos, cutInfos>>
    /\ UNCHANGED <<src, settings, pc, request, checked, written, output>>

(* The process dies.  The file it was writing, if any, is left truncated: an   *)
(* artifact or a cache file then reads as missing, a build info still exists.  *)
Crash ==
    /\ MayCrash
    /\ pc \notin {"idle", "returned"}
    /\ \/ UNCHANGED <<art, infos, cutInfos, cacheFile>>
       \/ /\ \E k \in pendArts : art' = [art EXCEPT ![k] = None]
          /\ UNCHANGED <<infos, cutInfos, cacheFile>>
       \/ /\ pendArts = {}
          /\ \E b \in pendInfos : infos' = infos \cup {b} /\ cutInfos' = cutInfos \cup {b}
          /\ UNCHANGED <<art, cacheFile>>
       \/ /\ WritingDone /\ cached /\ infos \subseteq Pruned.builds
          /\ cacheFile' = None
          /\ UNCHANGED <<art, infos, cutInfos>>
    /\ Cardinality(infos') <= MaxInfos
    /\ Forget
    /\ UNCHANGED <<src, settings>>

User ==
    \/ \E f \in Files, c \in Contents \cup {None} : Edit(f, c)
    \/ \E p \in Profiles, s \in Settings : ChangeSettings(p, s)
    \/ \E k \in Keys : DeleteArtifact(k)
    \/ Cleanup

Next == Build \/ User \/ Crash

Spec == Init /\ [][Next]_vars

-----------------------------------------------------------------------------
(* Types: every variable holds what its Rust counterpart can. *)
TypeOK ==
    /\ src \in Tree
    /\ art \in [Keys -> Artifact \cup {None}]
    /\ infos \subseteq BuildId
    /\ cutInfos \subseteq infos
    /\ cacheFile \in Cache \cup {None}
    /\ settings \in [Profiles -> Settings]
    /\ pc \in {"idle", "resolved", "compiling", "writing", "consuming", "returned"}
    /\ cached \in BOOLEAN
    /\ job \in [Units -> SUBSET Files]
    /\ snap \in Tree
    /\ mem \in Cache
    /\ reuse \in [Keys -> Reusable \cup {None}]
    /\ oldBuilds \subseteq BuildId
    /\ dirty \subseteq Files
    /\ todo \in [Units -> SUBSET Files]
    /\ fresh \in [Keys -> Artifact \cup {None}]
    /\ pendArts \subseteq Keys
    /\ pendInfos \subseteq BuildId
    /\ output \in Outputs \cup {None}

(* "Files that were not changed need no recompilation": when the cache file    *)
(* holds a clean entry for a file, that is when no file among it and its       *)
(* imports differs from its entry, then the artifact on disk is the one the    *)
(* compiler would produce now.                                                 *)
Clean(c, f) ==
    \A g \in Reach(src, f) : c.hash[g] = src[g] /\ ~Unresolved(src, g)

CleanIsCurrent ==
    pc = "idle" /\ cacheFile # None =>
        \A k \in Keys :
            /\ cacheFile.link[k] # None
            /\ art[k] # None
            /\ cacheFile.set[k[2][2]] = settings[k[2][2]]
            /\ Clean(cacheFile, k[1])
            => art[k] = CompilerOutput(src, settings, k)

(* Why it is so: what the cache says of a file and the artifact on disk were    *)
(* recorded together, for the file and for all of its imports the cache has an  *)
(* entry of, and the artifact was compiled from a tree whose imports resolve.   *)
Genuine(x, f) ==
    \E s \in Tree :
        /\ Yields(s, f)
        /\ \A g \in Reach(s, f) : ~Unresolved(s, g)
        /\ x.src = Stamp(s, f)

Agrees(c, a) ==
    \A k \in Keys :
        c.link[k] # None /\ a[k] # None =>
            /\ c.hash[k[1]] # None
            /\ a[k].set = c.set[k[2][2]]
            /\ \A g \in Reach(c.hash, k[1]) : c.hash[g] = a[k].src[g]
            /\ Genuine(a[k], k[1])

(* The artifacts directory once the artifacts still pending are written. *)
Upcoming == [k \in Keys |-> IF k \in pendArts THEN fresh[k] ELSE art[k]]

DiskAgrees == pc # "writing" /\ cacheFile # None => Agrees(cacheFile, art)
ReadsAgree == pc = "resolved" => snap = src /\ AllFiles(job) \subseteq Exists(snap)
MemoryAgrees ==
    pc = "compiling" =>
        /\ Agrees(mem, art)
        /\ mem.set = settings
        /\ \A f \in Files : mem.hash[f] \in {None, snap[f]}
        /\ \A u \in Units : todo[u] \subseteq Entries(mem)
UpcomingAgrees == pc = "writing" => Agrees(Merged, Upcoming)

RecordedTogether ==
    /\ cached
    /\ DiskAgrees
    /\ ReadsAgree
    /\ MemoryAgrees
    /\ UpcomingAgrees

(* Whatever was read while a build was going on, the artifacts it returns were *)
(* compiled from the sources the build itself read, under its settings, and    *)
(* none is missing: the answer is that of a build without a cache.             *)
ASSUME NoneIsNoRequest ==
    None \notin [job : [Units -> SUBSET Files], snap : Tree, set : [Profiles -> Settings]]

CB == INSTANCE CleanBuild WITH
    request <- IF pc = "idle" THEN None
               ELSE [job |-> job, snap |-> snap, set |-> settings],
    answer <- IF pc # "returned" THEN None
              ELSE IF output.failed THEN Failed
              ELSE [k \in Requested(job) |->
                       IF output.arts[k] = None THEN None ELSE output.arts[k].art]

ImplementsCleanBuild == CB!Spec

(* A reused artifact of a file that yields one is never stale; when the build  *)
(* reports errors, unless it bears the settings of a former build.             *)
ReusedIsCurrent ==
    pc = "returned" =>
        \A k \in Requested(job) :
            /\ output.arts[k] # None /\ Yields(snap, k[1])
            /\ output.failed => output.arts[k].art.set = settings[k[2][2]]
            => output.arts[k].art = CompilerOutput(snap, settings, k)

(* Every artifact a build returns names a build info it returns as well:       *)
(* builds[artifact.build_id] never misses.                                     *)
BuildsResolve ==
    pc = "returned" =>
        \A k \in Keys : output.arts[k] # None => output.arts[k].build \in output.builds

(* The build infos on disk are those the cache lists, and it lists what its    *)
(* artifacts refer to: nothing is orphaned and nothing dangles.                *)
BuildInfosMatchCache ==
    pc = "idle" /\ cacheFile # None =>
        /\ cacheFile.builds = infos
        /\ \A k \in Keys : cacheFile.link[k] # None => cacheFile.link[k] \in cacheFile.builds

(* consume "rebuilds" the artifacts "by merging all artifacts that were        *)
(* filtered out in the previous step and the artifacts that were just          *)
(* compiled": a build that succeeds returns every artifact it was asked for.   *)
ReturnsRequested ==
    pc = "returned" /\ ~output.failed =>
        \A k \in Requested(job) : Yields(snap, k[1]) => output.arts[k] # None

(* A build that stored its results leaves on disk, for all that it was asked   *)
(* to build, artifacts of the sources it read (unless the user deletes them).  *)
StoredIsCurrent ==
    [][WriteCache => \A k \in Requested(job) :
            Yields(snap, k[1]) => art[k] \in {None, CompilerOutput(snap, settings, k)}]_vars

(* Building again what was just built and stored, with nothing changed in      *)
(* between, compiles nothing.                                                  *)
RebuildIsIdle ==
    [][WriteCache /\ src = snap /\ AllReadable(Pruned, art)
        => (\A u \in Units : ToCompile(Kept, ReadArtifacts(Loaded, DiskArtifacts), job)[u] = {})']_vars
=============================================================================
