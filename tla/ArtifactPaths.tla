---------------------------- MODULE ArtifactPaths ----------------------------
(***************************************************************************)
(* Where the artifacts of a build are written (artifact_output/mod.rs):    *)
(* `out/<file name>/<contract>[.<version>][.<profile>].json`, an           *)
(* alternative below a parent's name when that is taken, and the path an   *)
(* artifact already has when the cache knows one.  The state runs over     *)
(* several builds, each of which compiles some of the files with some      *)
(* compilers, after the entries of the files that changed were dropped.    *)
(*                                                                         *)
(* A path is the parts it is put together from.  Two paths that differ     *)
(* only in case are one file on some systems, which is why the code        *)
(* compares them in lower case, and `disk` holds files by that form.       *)
(***************************************************************************)
EXTENDS Naturals, Sequences, FiniteSets, SequencesExt

CONSTANTS
    Files,      \* the source files in path order, each the sequence of its names
    Contracts,  \* [file -> the names of its contracts in order], <<>>: none
    Stem,       \* [file -> file name without the extension]
    Jobs,       \* the sets of files a build may compile, with the <<version, profile>> of each
                \* compiler run on a file: [files -> Seq(version \X profile)]
    Primary,    \* [file -> the profile the file itself is compiled with]
    LowerCase,  \* [name -> its lower case]
    MaxDepth,   \* the longest sequence of names among the files
    MaxBuilds,  \* bound on the builds of a behaviour
    MaxChanged  \* bound on the files that change between two builds

\* The keys of a map, and the compiler runs on a file, differ.
ASSUME FilesDiffer ==
    /\ Files \in Seq(ToSet(Files)) /\ IsInjective(Files)
    /\ MaxDepth \in Nat
    /\ \A f \in ToSet(Files) :
           /\ Len(f) \in 1 .. MaxDepth
           /\ Contracts[f] \in Seq(ToSet(Contracts[f])) /\ IsInjective(Contracts[f])
ASSUME RunsDiffer ==
    \A jobs \in Jobs :
        /\ DOMAIN jobs \subseteq ToSet(Files)
        /\ \A f \in DOMAIN jobs :
               /\ jobs[f] \in Seq(ToSet(jobs[f])) /\ IsInjective(jobs[f])
               /\ \A u \in ToSet(jobs[f]) : u = <<u[1], u[2]>>

VARIABLES
    cached,     \* the artifacts the cache lists: file, name, version, profile, path
    disk,       \* [path in lower case -> the artifact last written there]
    batch,      \* the artifacts the last build placed that the cache did not know
    dirty,      \* the files whose entries the last build dropped
    builds

pathVars == <<cached, disk, batch, dirty, builds>>

FileSet == ToSet(Files)
None == ""
Out == "out"
Apply(f, x) == IF x \in DOMAIN f THEN f[x] ELSE x
Id(a) == [file |-> a.file, name |-> a.name, version |-> a.version, profile |-> a.profile]

\* to_slash_lossy().to_lowercase(): versions and profiles are in lower case.
Lower(p) == [p EXCEPT !.comps = [i \in DOMAIN @ |-> Apply(LowerCase, @[i])],
                      !.name = Apply(LowerCase, @)]

\* The name of an artifact's file, in a directory named like the source file.
\* `base`: the artifacts directory, or none; `number`: what its first name ends with.
OutputFile(item) ==
    [base |-> Out, number |-> 0, comps |-> <<Last(item.file)>>, name |-> item.name,
     version |-> IF item.withVersion THEN item.version ELSE None,
     profile |-> IF item.withProfile THEN item.profile ELSE None]

(***************************************************************************)
(* A path that is not taken: below the file's parents, one more at a time, *)
(* and when all of those are taken with a number.  The numbered path is    *)
(* relative, and it is compared as such.                                   *)
(***************************************************************************)
Climbed(path, file, k) == [path EXCEPT !.comps = SubSeq(file, Len(file) - k, Len(file))]
Numbered(path, n) == [path EXCEPT !.number = n, !.base = None]

\* A mutant: below the nearest parent, taken or not.
ConflictFreeNearest(taken, path, file) ==
    IF Len(file) > 1 THEN Climbed(path, file, 1) ELSE Numbered(path, 1)

ConflictFree(taken, path, file) ==
    LET free == {k \in 1 .. Len(file) - 1 : Lower(Climbed(path, file, k)) \notin taken}
        num == CHOOSE n \in 1 .. Cardinality(taken) + 1 :
                  /\ Lower(Numbered(path, n)) \notin taken
                  /\ \A m \in 1 .. n - 1 : Lower(Numbered(path, m)) \in taken
    IN IF free # {} THEN Climbed(path, file, CHOOSE k \in free : \A j \in free : k <= j)
       ELSE Numbered(path, num)

\* A mutant: the context is not asked.
ExistingNone(ctx, item) == {}

\* What the cache knows of an artifact, after the dirty files were removed.
Existing(ctx, item) == {a \in ctx : Id(a) = Id(item)}

GetArtifactPath(ctx, taken, item) ==
    LET existing == Existing(ctx, item) IN
    IF existing # {} THEN (CHOOSE a \in existing : TRUE).path
    ELSE IF Lower(OutputFile(item)) \in taken
         THEN ConflictFree(taken, OutputFile(item), item.file)
         ELSE OutputFile(item)

\* A mutant: only this build's artifacts count as taken.
PrepopulatedNone(ctx) == {}

\* Taken before the first artifact of a build is placed: what the cache lists.
Prepopulated(ctx) == {Lower(a.path) : a \in ctx}

(***************************************************************************)
(* The artifacts of a build in the order they are placed.                  *)
(***************************************************************************)
Rank(file) == CHOOSE i \in DOMAIN Files : Files[i] = file

Several(units, i) == Cardinality({units[n][i] : n \in DOMAIN units}) > 1

\* A contract's artifacts: one for each compiler and profile.
ContractItems(jobs, file, name) ==
    [n \in DOMAIN jobs[file] |->
        LET u == jobs[file][n] IN
        [file |-> file, name |-> name, version |-> u[1], profile |-> u[2],
         withVersion |-> Several(jobs[file], 1),
         withProfile |-> Several(jobs[file], 2) /\ Primary[file] # u[2]]]

\* A file with an ast and no contract has an artifact under its stem.
StandaloneItems(jobs, file) ==
    [n \in DOMAIN jobs[file] |->
        LET u == jobs[file][n] IN
        [file |-> file, name |-> Stem[file], version |-> u[1], profile |-> u[2],
         withVersion |-> Several(jobs[file], 1), withProfile |-> Several(jobs[file], 2)]]

HasContracts(file) == Contracts[file] # <<>>

FileItems(jobs, file) ==
    IF HasContracts(file)
    THEN FlattenSeq([j \in DOMAIN Contracts[file] |->
            ContractItems(jobs, file, Contracts[file][j])])
    ELSE StandaloneItems(jobs, file)

InOrder(jobs, files) ==
    FlattenSeq([i \in DOMAIN Files |->
        IF Files[i] \in files THEN FileItems(jobs, Files[i]) ELSE <<>>])

\* Contracts first, those of top-most files before others.
Items(jobs) ==
    FlattenSeq([d \in 1 .. MaxDepth |->
        InOrder(jobs, {f \in DOMAIN jobs : HasContracts(f) /\ Len(f) = d})])
    \o InOrder(jobs, {f \in DOMAIN jobs : ~HasContracts(f)})

Listed(item, path) ==
    [file |-> item.file, name |-> item.name, version |-> item.version,
     profile |-> item.profile, path |-> path]

\* output_to_artifacts: each artifact is placed with the paths of those before it taken.
Place(ctx, taken, item) ==
    LET path == GetArtifactPath(ctx, taken, item)
    IN  [taken |-> taken \cup {Lower(path)}, path |-> path]
Placements(ctx, items) ==
    LET placed[n \in 0 .. Len(items)] ==
            IF n = 0 THEN [taken |-> Prepopulated(ctx), path |-> None]
            ELSE Place(ctx, placed[n - 1].taken, items[n])
    IN placed
Placed(ctx, items) ==
    [n \in 1 .. Len(items) |-> Listed(items[n], Placements(ctx, items)[n].path)]

(***************************************************************************)
(* A build.                                                                *)
(***************************************************************************)

\* Artifacts::join_all: what was relative is now below the artifacts directory.
JoinAll(out) == [i \in DOMAIN out |-> [out[i] EXCEPT !.path.base = Out]]

\* Artifacts::write_all, by file: what is in a path is what was last written there.
WriteAll(d, out) ==
    LET at(p) == {i \in DOMAIN out : Lower(out[i].path) = p}
        written == {Lower(out[i].path) : i \in DOMAIN out}
        after(i, j) == \/ Rank(out[i].file) > Rank(out[j].file)
                       \/ out[i].file = out[j].file /\ i >= j
        last(p) == CHOOSE i \in at(p) : \A j \in at(p) : after(i, j)
    IN [p \in DOMAIN d \cup written |-> IF p \in written THEN Id(out[last(p)]) ELSE d[p]]

\* CacheEntry::merge_artifacts
Merged(ctx, out) ==
    {a \in ctx : \A i \in DOMAIN out : Id(out[i]) # Id(a)} \cup ToSet(out)

PathsInit ==
    /\ cached = {}
    /\ disk = <<>>
    /\ batch = {}
    /\ dirty = {}
    /\ builds = 0

\* on_output and ArtifactsCache::consume.  The files that changed lost their entries; a clean file is
\* compiled for a compiler the cache has no artifact of, or to write an extra file.
OnOutput(changed, jobs) ==
    /\ builds < MaxBuilds
    /\ builds' = builds + 1
    /\ LET ctx == {a \in cached : a.file \notin changed}
           out == JoinAll(Placed(ctx, Items(jobs)))
       IN /\ disk' = WriteAll(disk, out)
          /\ cached' = Merged(ctx, out)
          /\ batch' = {a \in ToSet(out) : Existing(ctx, a) = {}}
    /\ dirty' = changed

PathsNext ==
    \E changed \in SUBSET FileSet, jobs \in Jobs :
        /\ changed \subseteq {a.file : a \in cached} /\ Cardinality(changed) <= MaxChanged
        /\ OnOutput(changed, jobs)

PathsSpec == PathsInit /\ [][PathsNext]_pathVars

(***************************************************************************)
(* Properties                                                              *)
(***************************************************************************)
SameFile(a, b) == Lower(a.path) = Lower(b.path)

\* Two artifacts the cache lists are never in one file, even where case does not count, unless
\* two builds both had to number one (artifact_output/mod.rs:698).
PathsApart ==
    \A a, b \in cached :
        (a # b /\ SameFile(a, b)) => a.path.number > 0 /\ ~({a, b} \subseteq batch)

\* The file an entry of the cache names holds the artifact of that contract, compiler and
\* profile, whatever was built in between: the next build reads it (artifact_output/mod.rs:665).
ArtifactsSurvive ==
    \A a \in cached : a.path.number = 0 =>
        Lower(a.path) \in DOMAIN disk /\ disk[Lower(a.path)] = Id(a)

\* A contract whose file did not change keeps the file of its artifact when it is compiled again
\* ("we use consistent output paths", artifact_output/mod.rs:827).
PathsStay ==
    [][\A a \in cached, b \in cached' :
          Id(a) = Id(b) /\ a.file \notin dirty' => a.path = b.path]_pathVars

=============================================================================
