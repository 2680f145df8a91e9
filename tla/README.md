# Verification of foundry-compilers

TLA+ models of how a Solidity project is built, from its imports and remappings
to its artifacts and their linking, as implemented in `src/crates`, the TLC
instances that check them and the TLAPS proofs of the results that hold for
every instance.  Paths below are relative to
`src/crates/compilers/src` unless they start with another crate.

## The system

`Project::compile` turns the sources of a project into artifacts.  It is a
sequential state machine (`compile/project.rs`) around a cache on disk:

| part | state it keeps | operations | correct when |
|---|---|---|---|
| **Remappings** (`artifacts/solc`: `remappings/`) | none | search the library folders, parse and print | every library is found by its name; the search ends |
| **Import paths** (`config.rs`, `core`: `utils/`) | include paths | resolve an import | the file meant is found |
| **Import graph** (`resolver/`) | nodes, edges, unresolved imports | read sources, resolve imports, walk | index and place agree; closed under imports; an import that does not resolve is reported, not guessed |
| **Version and profile selection** (`resolver/mod.rs`) | none | assigns each file a compiler version and a settings profile | no file gets what its imports refuse; one version for all if there is one |
| **Compiler cache** (`cache.rs`) | the cache file: per source file a content hash, whether the compiler has seen it, its artifacts; build ids; settings | load, invalidate, find dirty files, filter, merge, prune, write | it never vouches for a stale artifact, and a second build of the same compiles nothing |
| **Preprocessed caches** (`cache/iface.rs`, `cache.rs`) | interface hashes, mocks | decide which tests are dirty | no stale test |
| **Project compiler** (`compile/project.rs`) | the state of one build | with_sources, preprocess, compile, write_artifacts, write_cache | its output is that of a build without a cache |
| **Compilers and their inputs** (`filter.rs`, `compilers/`, settings in `artifacts/`) | recorded settings | compare settings, select outputs, sanitise, strip paths, merge restrictions | each compiler is asked for what is missing, with what it knows |
| **Parallel compile** (`compile/project.rs`) | a pool of workers for each build | run jobs, collect, fail | all jobs or an error, and it returns |
| **Reporter** (`report/mod.rs`) | a global reporter, a scoped one per thread, a counter of scopes | install, scope, drop a guard, report | events reach the reporter of the scope they occur in |
| **Artifact output** (`artifact_output/`) | artifact files and extra files | choose paths, write, read back | paths never collide; extra files are those of the source |
| **Build output** (`compile/output/`, `buildinfo.rs`) | build info files, the returned output | aggregate, search, take apart, judge, prune | every artifact finds its build info; taking one hides no other |
| **Source maps, linking** (`artifacts/solc`) | none | parse; link libraries | what is read is what was written; every reference gets its address |
| **Flattener** (`flatten.rs`, `config.rs`) | edits of the sources | order, rename, remove, replace | names mean what they meant |
| **Installers, other artifact types** | none, or files outside the project | run processes, translate JSON | |

How they interact: `with_sources` reads the sources, builds the graph and
assigns files to units (a version and a profile); imports are resolved with the
remappings found when the project was configured.  `preprocess` loads the cache
file, reads all artifacts and build infos it lists, **reads the cached sources
a second time** to find the dirty ones, and removes from every unit what needs
no compilation.  `compile` selects the outputs, builds an input for each unit,
lets a preprocessor change it, and runs the units on one thread or on a pool,
reporting through `report`.  `write_artifacts` writes artifacts and then build infos one
file after the other, `write_cache` prunes old build infos and rewrites the
cache file.  Nothing is locked and nothing is renamed into place, so the disk is
shared with the user, who edits at any time, and with builds that died.

The hard parts are edits between two steps of a build, builds that stop half
way, state that one kind of build leaves for another (with and without cache,
with other settings, versions or profiles), the one counter all threads share
in the reporter, and tables that several passes must keep in step: index and
place in the graph, settings asked for and recorded, paths given and taken,
edits of one text.  `PROJECT.json` lists them with their lines, and the
properties that cover each.

## Modules

| module | models |
|---|---|
| `SourceTree` | files, contents, imports, what the compiler makes of them |
| `CleanBuild` | abstract: a build answers exactly what a compiler run over the sources it read would, or fails |
| `BuildCache` | the cache and the project compiler, with the user and crashes around them |
| `DirtySources` | the same decision with a preprocessor: interfaces, mocks |
| `Reporter` | `report/mod.rs`, every atomic access a step |
| `CompileJobs` | abstract: all jobs compiled or an error, and an answer in the end |
| `ParallelCompile` | `compile_sequential` and `compile_parallel` over `Reporter` |
| `RemappingSearch`, `RemappingText` | the search for remappings; their text and relative forms |
| `ImportPaths` | resolution of imports, over both |
| `ImportGraph` | `resolve_sources` and `NodesIter` |
| `VersionSelection` | `into_sources_by_version` |
| `CompilerInputs` | settings, sparse output, compiler inputs, for solc, resolc and Vyper |
| `SettingsRestrictions` | restrictions, their merging and application |
| `ArtifactPaths`, `ExtraOutputs`, `CompileOutput` | where artifacts go; the files beside them; the output callers get |
| `SourceMap`, `Linking` | reading source maps; linking bytecode |
| `FlattenSources` | sources, order and edits common to both flatteners |
| `Flattener`, `FlattenScan`, `Flatteners` | the flattener on the AST, the one on the text, the two together |
| `AstWalk` | the visitor of the AST |
| `MC...` | instances for TLC |
| `BuildCacheProofs` | proofs about the cache, with what they need of closures, and about what a build answers and leaves |
| `SequenceLemmas` | facts on numbers and sequences for the proofs |
| `ParallelCompileProofs` | proofs about `Reporter` and `ParallelCompile` |
| `ImportsProofs` | proofs about `ImportGraph` and `RemappingSearch` |
| `SelectionProofs` | proofs about `VersionSelection` and `SettingsRestrictions` |
| `InputsProofs` | proofs about `CompilerInputs` and `DirtySources` |
| `OutputsProofs` | proofs about `ArtifactPaths`, `ExtraOutputs`, `CompileOutput`, `SourceMap` and `Linking` |
| `FlattenerProofs` | proofs about `Flattener` |

The MC modules that put several components into one run (`MCImports`,
`MCInputs`, `MCOutputs`, `MCFlatten`) have a variable `part` that says which of
them moves in a behaviour; the others keep one of their initial states.  These
components have no state in common: what one leaves for the next (remappings
for imports, units for inputs) is an input of the next, taken from a set that
contains it.

### SourceTree

A tree maps files to contents.  A content stands for what matters of it: its
hash (equal contents, equal hashes), which files it imports (`Wants`) and
whether it declares contracts (`Bare`).  `Target` is path resolution:
`Fallback[f]` is the file an import of `f` resolves to once `f` is gone (a file
of that name in the next library directory), and `Strict` holds files imported
through a remapping, whose path is only checked when it is read, so that a
missing one fails the whole graph.  `Reach` is what `NodesIter` visits; it is
defined as the least closed set, not by recursion, so that it can be reasoned
about.  Compilers are deterministic: an artifact is known by the contents the
compiler saw and the settings.

### BuildCache

| code | model |
|---|---|
| sources, `artifacts/`, `build-info/`, the cache file | `src`, `art`, `infos` and `cutInfos`, `cacheFile` |
| `CompilerCache` in memory | `mem` |
| `cached_artifacts`, `cached_builds`, `dirty_sources`, the filtered sources | `reuse`, `oldBuilds`, `dirty`, `todo` |
| compiled output, what is still to be written | `fresh`, `pendArts`, `pendInfos` |
| `ProjectCompiler::with_sources` | `WithSources` |
| `preprocess`: `ArtifactsCache::new`, `find_and_remove_dirty`, `filter` | `Preprocess` with `Loaded`, `ReadArtifacts`, `DropProfiles`, `DirtyFiles`, `ToCompile`, `WithEntries` |
| `ArtifactsCache::Ephemeral` | `PreprocessEphemeral`, `ConsumeInMemory` |
| `CompilerSources::compile` | `Compile`, `CompileInMemory`, `CompileErrors`, `CompilerFails` |
| `write_all`, `write_build_infos` | `WriteArtifact`, `WriteBuildInfo`, one file a step |
| `remove_outdated_builds`, `consume` | `RemoveOutdatedBuild`, `WriteCache`, `Outcome`, `Retained` |
| `Project::cleanup` | `Cleanup` |
| a process that dies, in the middle of a write or not | `Crash` |

`preprocess` is one step, so that the artifacts, the build infos and the second
read of the sources are taken at one moment; the first read is a step earlier.
Flags say what the environment does: `MayRevert` (a content returns that some
record still holds), `MayRace` (an edit falls between the two reads), `MayCrash`,
`MayBypass` (`Project::cached` is false).  `Undisturbed` means none of the last
three.

Abstractions: one artifact for each file and unit stands for all contracts of
the file; `can_use_cached` is equality of settings; project paths are fixed;
build infos lie inside the artifacts directory as they do by default, so wiping
one wipes both.  What a build does besides is in modules of its own:
preprocessors in `DirtySources`, sparse output and the comparison of settings in
`CompilerInputs`, extra files in `ExtraOutputs`, several contracts of a file and
their paths in `ArtifactPaths`.

### DirtySources

A content has an interface and an implementation.  `Dirty` is
`find_and_remove_dirty` with the order of its walk: `Changed` are the files whose
content changed, then `Marked` goes over the files by path, and for a mock
`Populated` marks its importers.  `Reads` says what a compilation saw of each
import: of a source imported by a preprocessed test only the interface, unless a
test among the imports is a mock.  The preprocessor itself lives outside the
repository; it is modelled by what the cache expects of it (the list of mocks
for the files it was given).

### Reporter and ParallelCompile

`at[t]` says where thread `t` stands inside a library call.  Installing is
`Claim`, `Store`, `Publish`; entering a scope is `EnterScope` (replace the
thread-local), `CountScope`; leaving is `LeaveScope` (decrement), `RestoreScope`;
reporting is `GetDefault` (read the counter, and the thread-local if it is not
zero, which only the thread itself changes), `HearGlobal`, `Heard`.  Atomics are
sequentially consistent in the model; the code orders the counter with
acquire and release, and each thread relies on the counter only for its own
scopes, which it counts before it reports.  Guards are dropped innermost first.

In `ParallelCompile` a builder without workers runs `compile_sequential`; one
with workers looks at its reporter (`Start`, `Capture`), and each worker scopes it
for each job (`TakeJob` ... `DropGuard`, `Collect`).  `Return` waits for the pool.

### Remappings, import paths and the graph

A path is a sequence of names, a tree a set of files and a map of symbolic
links.  `RemappingSearch` walks a library folder with a stack of frames, one for
each call of `find_remapping_candidates`; `OpenLibrary`, `Descend`, `AvoidLink`,
`SkipDirectory`, `Return` and `FinishLibrary` are its branches, `Candidates` and
`Merged` what a call returns, `Inserted` the priorities of `find_many`.
`RemappingText` has `from_str`, `fmt` and the relative forms.  `ImportPaths`
searches, may save and read the configuration (`Reload`), and resolves one import
written in one of the ways a file may write it.  In `ImportGraph` `PopNode`,
`Import...`, `PushNode` and `ReadFails` build the arrays, `Link` the edges, and
`StartWalk`, `WalkNode`, `EndWalk` are `NodesIter`; `Reachable` is the reference.
`PopNode` has no branch for a path without a directory (`resolver/mod.rs:397`): a
path that was read as a file has one.

### VersionSelection, SettingsRestrictions and CompilerInputs

`VersionSelection` goes through the languages.  The loops of the code are loops of
the model, one visit a step: `StartWalk` and `VisitNode` go over what a file
imports, `Candidates` then narrows the versions of the file, `OneForAll` or
`Spread` assigns them, `ChooseProfile` takes the first allowed profile after a walk
of the same kind.  `BeginUnit`, `AddInput`, `InsertImport` and `EndUnit` collect the
sources of a unit; `processed` is the set `insert_imports` shares between files.  `Version` numbers stand for installed releases and for those that
are offered for installation.  `SettingsRestrictions` merges rules one at a time.

`CompilerInputs` has a small cache of its own (`cachedConfig`, and `held` artifacts
with the settings they were compiled with) because its subject is what
`BuildCache` abstracts to equality of settings.  A build is `BeginBuild`,
`SelectOutput`, `BuildInput`, `StripPrefix`, `RunCompiler`, `FinishBuild`, in the order
of `CompilerSources::compile`; each step works on the settings the step before
left, so a selection made for absolute paths is stripped with the sources.  What
solc and Vyper accept is external.  `DroppedBefore` and `PartOf` are the options and
releases of `Settings::sanitize`; `Since` says from when solc really knows an option,
also of the two that `sanitize` has no release for.

### Artifacts and output

`ArtifactPaths` runs `on_output` several times over one output directory:
`Items` are the contracts and standalone files of a build in their order, files
in fewer directories first; `Placements` gives one after the other a path
(`GetArtifactPath`, `ConflictFree`) with those before it taken, `WriteAll` writes.
`batch` holds what the last build placed and the cache did not know: a path with a
number is compared before it is made absolute, so that only within one build does
it differ from all others.
`ExtraOutputs` has a contract compiled for several units and options that change
between builds.  `CompileOutput` extends an output job by job, makes artifacts of
the contracts, and then lets callers take out contracts and artifacts, compiled
ones before cached ones, and strip prefixes; a search that takes nothing out is
not a step.  `SourceMap` starts from any map whose elements have
their fields in order, each a value, -1 or left out (`ElementText`), and reads one
element with each call: field by field into a builder (`Reading`), from which and
the last element `Finish` makes the next.  Words are as narrow as `DepthLimit` says,
so that a jump and a depth meet in one.  `Linking` replaces placeholders one
library at a time (`Linked`); `link_all` stops at the first call that says all is
linked (`Calls`), and `given` records what the calls it made were given.  A list may
be empty; `link_all` then answers no, whatever is linked.

### Flatteners and the visitor

A source is a sequence of items that own ranges of words.  In `Flattener` every
pass (`AppendFilenames`, `RenameTopLevelDefinitions`,
`RenameContractLevelTypes`, `RemoveQualifiedImports`, `UpdateInheritdocs`,
`RemoveDirectives`) adds edits, of a file those of `FilenameOf`, `RenamedIn`,
`QualifiedIn`, `UnqualifiedIn`, `TagsIn` and `ErasedIn`, and `ApplyUpdates` applies
them one after the other, each moved by what those before it changed (`Applied`).
`Image` says what one item should read in the result.  Contracts declare structs,
for all that `collect_contract_level_definitions` takes up, and modifiers, which it
does not.  `FlattenScan` searches the text for aliases: `Sought` says of each word
whether the expression of `re.rs:44` can match there, by what comes before the word
and what after it (`of = "tight"`: none of the dot, bracket or space it wants;
`of = "quoted"`: a quotation mark earlier on the line).  `AstWalk` is one path from the root of a syntax
tree down and whether the visitor goes along it: `Ast` has the node kinds and
their fields, `Walks` what `visitor.rs` enters of each, `ReferenceKinds` which nodes
bear a reference and `CollectedKinds` which of them the flattener's visitor has a
method for.

## What is checked

| run | instance | shows |
|---|---|---|
| `build_edit` | 2 files, 2 contents, reverts, edits during builds, deleted artifacts | `TypeOK`; `CleanIsCurrent`: a clean entry means the artifact is current; `RecordedTogether`, its inductive reason; `ReusedIsCurrent`; `ImplementsCleanBuild`: refinement of `CleanBuild`; `StoredIsCurrent`; `RebuildIsIdle` |
| `build_crash` | 2 files, 2 contents, crashes, builds without cache | `BuildsResolve`, `ImplementsCleanBuild` |
| `build_units` | 2 files, 2 versions, 2 settings, a remapped import | `BuildInfosMatchCache`, `ImplementsCleanBuild` |
| `parallel_compile` | 2 builders, 2 workers, 2 jobs, 2 reporters | `ScopeIsHeard`, `BuildIsHeard`, `ImplementsCompileJobs` (with liveness) |
| `imports` | trees with every subset of 8 library files in `lib`, 4 in `node_modules`, or with links; every graph of 3 files with up to 2 imports | `NoEndlessWalk`; `ImportsResolve`: imports find the file that was meant, include paths lead to it; `IndexIsPlace`; `GraphIsComplete`; `WalkEnds` |
| `inputs` | 6 files in 3 languages, 5 configurations; rules with all bounds up to 2; 3 input files and a library with all requirements; 4 files with sources, mocks and tests | `AskedExactly`; `InputAccepted`; `OneConfiguration`; `MergeIsConjunction`; `OneVersionIfPossible`; `UnitsFit`; `UnitsAreClosed`; `TestsAreCurrent` |
| `outputs` | 3 files whose contracts' names collide over 3 builds; 3 units and 5 selections; 2 jobs, cached artifacts and 3 requests; maps of 3 elements; code of 3 words and 3 links | `PathsApart`, `ArtifactsSurvive`, `PathsStay`; `ExtrasCurrent`; `Accounted`, `VerdictExplained`; `ParsedIsMap`; `LinkedIsPlaced` |
| `flatten` | 3 files and every form of reference between them; all paths of a syntax tree | `RewritesItems`, `NamesResolve`, `BasesFirst`, `BothAgree`, `ReferencesCollectedElsewhere` |

Bounds.  Two files, one importing the other, are the smallest project in which a
clean file can be stale because of another; with two contents an edit, a revert
and a content without the import or without contracts all occur.  Whether the
import is there depends on the content (`MCWants`) or not (`MCWantsB`).  Two
versions are what a shared cache entry needs, two settings a change and its
reversal.  In `build_crash`, the user only edits existing files and builds the
whole project, and at most `MaxInfos` build infos lie about when a build dies.  In
`build_units` each unit compiles everything or nothing.  `MaxDepth` bounds how
deep a caller nests its scopes; workers add theirs.  Contents are symmetric in
`build_crash`, where neither imports nor contracts depend on them.

`build_crash` assumes that an edit never returns to contents some record still
holds.  Without that the property fails, as it must when entries are compared by
content and artifacts are overwritten in place: see `build_bypass`.

In `imports` a library inside a library inside a library is where merging of
candidates first has two levels to choose between, and three files are a cycle
beside another edge.  In `inputs` two changes of the configuration are a change
and its reversal (`MaxConfigures`), one edit makes some files dirty and others not
(`MaxEdits`), three rules are a merge whose result is merged again (`MaxRules`), and
two changes and two builds (`MaxChanges`, `MaxBuilds` of `DirtySources`) are a source
that changes after its test was compiled, with another change beside it; a chain of
a source, another, a mock and a test is needed for the mock's importers to be
reached through the mock alone.  In `outputs` the third build (`MaxBuilds` of
`ArtifactPaths`) is the first in which a path recorded by the cache meets one chosen
beside it; at most one file changes between two (`MaxChanged`); the third request
(`MaxAsks`), element (`MaxElements`) and link (`MaxLinks`) is the first that meets
the leavings of two; two libraries in one call (`MaxListed`) are what `link_all` may
stop between.

Fairness.  `ParallelCompile` states it for a thread in a call or with a job, which
takes its next step (the operating system schedules it and compiler processes
end), and for `pool.install`, which returns once its workers are done.  Nobody has
to start a build, take its result or leave a scope.  `MCImports` states it for a
walk over the graph, a loop that nothing interrupts.  The other modules promise
nothing about progress.

### Where code and docs differ

| run | violates | what happens |
|---|---|---|
| `build_bypass` | `CleanIsCurrent` | a build with `cached = false` replaces an artifact; the source is reverted; the cache reuses the wrong artifact |
| `build_profiles` | `ReturnsRequested` | `consume` matches artifacts by file, name and version; an artifact of another profile is dropped from the output |
| `build_fallback` | `ImplementsCleanBuild` | a deleted import resolves to another library and its importer is not compiled again |
| `inputs_narrowed` | `ReusedHasOutputs` | the cache keeps wider settings on record while it stores artifacts with fewer outputs, and reuses them |

The instances of the passing runs leave out what leads there: no bypass together
with reverts, one profile, no fallback; `OneConfiguration` is about the settings
that decide, not about the outputs asked for.  They also leave out, or state around,
the following, which modelling showed and no run is about:

- cache: settings change in the build in which a file loses its last contract, and
  the old artifact is returned (`cache.rs:1231` against `:743`); a mock is never
  dirty itself, only its importers are (`cache.rs:935`), so `TestsAreCurrent` excepts
  the mocks; where a source imports a mock and is found dirty on its own, what
  imports the source stays clean although the mock read another implementation,
  since files that are dirty already are not visited again (the comment at
  `cache.rs:836` says they will be), so that `CleanTestsAreCurrent` assumes
  `SourcesImportSources`;
- reporter: the global reporter is silent on all threads while any thread has a
  scope (`report/mod.rs:247` against `:11`);
- versions: of files without a version, those of one language are reported
  (`resolver/mod.rs:925` against `:825`);
- remappings: a library with a contract at its top and a nested `src` gets none
  (`find.rs:225` against `:23`); a nested library outside a source directory is
  mapped to its `lib` (`find.rs:418`); a deeper `src` of a later library replaces a
  shallower one (`find.rs:66`); a link seen before drops its directory's candidates;
- import paths: whether a path exists is asked of the process's directory
  (`config.rs:533`);
- artifact paths: a numbered path is compared in another form than it is taken in
  (`artifact_output/mod.rs:729` against `:681`); the `IS_TEST` check never matches a
  file below the root (`compile/output/mod.rs:879` against `:863`);
  `find_artifact` ignores profiles; `generatedSources`, or an `ir` file without the
  `ir` value, makes every build a full one;
- inputs: command line arguments, remappings and include paths of a project are not
  compared; a selection of outputs by file is overwritten by the sparse filter; of
  a Vyper input only the outputs are sanitised (nothing calls `VyperInput::sanitized`), so
  that every Vyper is handed the EVM version and the search paths that were chosen;
  `eof_version` and `simple_counter_for_loop_unchecked_increment` go to every solc
  (`artifacts/solc` `lib.rs:300`); `InputAccepted` excepts these four; resolc gets the
  first of several Yul sources;
- flattener: contracts `X`, `X` and `X_0` collide (`flatten.rs:328` against `:256`);
  errors and events of a file are not collected (`:576`); in import cycles names
  decide the order (`:854` against `:827`); of two feature pragmas one is lost
  (`:706`); the override list of a variable is not walked (`visitor.rs:296`);
  modifiers are left out of "all references to items defined in scope of contracts"
  (`:393` against `:646`): `D.m` keeps `D` where that is an alias or a contract that got
  a number, and the result does not compile, so `NamesResolve` excepts such paths
  (`OutdatedModifier`); the ASTs of compilers without identifier paths have the
  reference of a type name in `UserDefinedTypeName`, which is not collected (`:71`), and
  bases and types keep their names, which `ReferencesCollectedElsewhere` excepts;
- text flattener: an alias is replaced only before a dot, a bracket or a space
  (`re.rs:44`), so that `Q[]`, `type(Q)`, `=> Q)` and `returns (Q)` keep it where the
  other flattener renames it, and not on a line with a quotation mark before it;
  `BothAgree` leaves out files where that decides.  Nor is an alias replaced whose
  match would begin inside the match before it; no program of the instance has that;
- source maps and linking: the index 2^32 - 1 reads as none; libraries whose names
  share 36 characters share the old placeholder; a file path with a colon is not
  linked by its full name.

## What is proved

For every set of files, contents, versions, profiles, settings, threads, jobs,
rules and so on.  The modules' `ASSUME`s say that the constants have their
types, that `None` is none of the values it stands beside, that orders are
orders, and that the keys of a map and the compiler runs on a file differ; TLC
evaluates them on every run.  Beyond that a theorem assumes what its row says and
nothing else.

| theorem | states | assuming |
|---|---|---|
| `TypeCorrect` | `TypeOK` | |
| `RecordsAreSound`, `CacheIsSound`, `RebuildsAreIdle` | `RecordedTogether`, `CleanIsCurrent`, `RebuildIsIdle` | `Undisturbed`, `NoFallback` |
| `CacheSurvivesCrashes` | `CleanIsCurrent` | `~MayRevert`, `NoFallback` |
| `StorageIsSound` | `StoredIsCurrent` | `Traceable`, `NoFallback` |
| `ReuseIsSound` | `ReusedIsCurrent` | the same, and `Undisturbed` or `SettingsAreFixed` |
| `BuildsAreClean` | `ImplementsCleanBuild` | `Traceable`, `NoFallback`, `OneProfile`, and that every file has contracts (`Bare = {}`) or `SettingsAreFixed` |
| `AnswersResolve` | `BuildsResolve` | |
| `InfosAreListed` | `BuildInfosMatchCache` | `~MayCrash`, `~MayBypass` |
| `ScopesAreHeard`, `BuildsAreHeard` | `ScopeIsHeard`, `BuildIsHeard` | |
| `SafetyOfCompileJobs` | initial states and steps of `CompileJobs` | |
| `IndicesArePlaces`, `FinishedGraphsAreComplete` | `IndexIsPlace`, `GraphIsComplete` | |
| `WalksAreComplete` | the set of nodes a finished walk has returned | |
| `SearchesAreBounded` | `NoEndlessWalk` | |
| `FilesFitTheirUnits`, `OneVersionSuffices`, `UnitsAreImportClosed` | `UnitsFit`, `OneVersionIfPossible`, `UnitsAreClosed` | |
| `MergingIsConjunction` | `MergeIsConjunction` | |
| `ArtifactsShareSettings` | `OneConfiguration` | |
| `InputsAreAccepted`, `InputsAskExactly` | `InputAccepted`, `AskedExactly` | `AbsoluteKeys` |
| `CleanTestsAreCurrent` | `TestsAreCurrent` | `SourcesImportSources` |
| `ExtrasAreCurrent` | `ExtrasCurrent` | |
| `VerdictsAreExplained` | `VerdictExplained` | |
| `ContractsAreAccounted` | `Accounted` | `JobsHaveIds` |
| `ArtifactsAreApart`, `ArtifactsDoSurvive`, `PathsDoStay` | `PathsApart`, `ArtifactsSurvive`, `PathsStay` | |
| `CodeIsLinked` | `LinkedIsPlaced` | |
| `MapsAreRead` | `ParsedIsMap` | |
| `BasesComeFirst` | `BasesFirst` | `ImportsAreAcyclic` |
| `NamesAreResolved` | `NamesResolve` | `NamesAreFree` |
| `ItemsAreRewritten` | `RewritesItems` | |

The assumptions, and what fails without them:

- `Undisturbed`: no crash, no bypassed build, no edit between the two reads of
  the sources.  `build_bypass` is the counterexample without the second.
- `~MayRevert`: what a file is edited to, and what settings are changed to, is on
  no record any more: not in the cache file, an artifact or a build in progress.
  Files may still be deleted.  Then `CleanIsCurrent` survives all that
  `Undisturbed` excludes.
- `Traceable`: `Undisturbed`, or `~MayRevert` and no edit between the two reads.
  With such an edit a build answers from two different readings of its sources.
  `MayRace` is FALSE in all runs; that such an edit makes no clean entry vouch for a
  stale artifact is what `CacheSurvivesCrashes` proves, when nothing on record returns.
- `SettingsAreFixed`, in `ReuseIsSound`: a build that died or bypassed the cache has
  written an artifact under new settings, the source is edited, and a build that
  uses the cache and fails returns it: a stale artifact under the present settings,
  which the entry of the former ones has not made dirty.
- `NoFallback`: an import resolves to the file it names or to none.
  `build_fallback` is the counterexample.
- `OneProfile`: `build_profiles` is the counterexample.
- `Bare = {} \/ SettingsAreFixed`: an artifact of a file that lost its contracts in
  the build in which the settings changed is returned with the old settings.
  `ReusedIsCurrent` speaks of files with contracts and needs no such assumption;
  a build that failed may return such artifacts of any file, and the property
  says so.
- `SourcesImportSources`: no source imports a test, a script or a mock.  The
  known disagreements say what happens where one does.
- `JobsHaveIds`: the jobs of a build have build infos of different ids.  An id is a
  hash of versions and input, so two profiles of equal settings would share one.
- `AbsoluteKeys`: no settings select outputs by a file name relative to the root.
  Stripping the root from the sources' names gives them that name, and one of
  the two selections would replace the other.
- `ImportsAreAcyclic`: no two files import each other, directly or not.  All files
  of a cycle have equally many dependencies, and their names decide the order.
- `NamesAreFree`: no definition bears a name that is made by numbering another one,
  and an error, which is neither renamed nor numbered, shares its name with nothing
  and has no alias.  Otherwise two definitions of the result have one name.

`ProgramsCompile`, an `ASSUME` of `FlattenSources`, is what the compiler has checked
before `Flattener::new` gets a syntax tree from it: ids tell declarations apart, a
path names what its file imports, imports come first on the way to a declaration, a
base is a contract that is known before.

### The cache

`CleanIsCurrent` is not inductive: it speaks of an idle build only, and of
entries that agree with the current sources.  The reason it holds is that entry
and artifact were *recorded together*: for any linked artifact, the entries of
its file and of all it imports, as far as the cache knows them, hold the contents
the artifact was compiled from (`Agrees`), and the artifact was compiled from a
tree whose imports resolve (`Genuine`).  That relation moves with the build: it
holds of cache file and disk when no artifact is being written, of the memory and
the disk while compiling, and of the merged cache and the artifacts *to be*
written while writing (`Upcoming`).  `TypeOK /\ RecordedTogether` is inductive.
Two facts carry the step of `Preprocess`: dropping dirty files keeps every import
of a kept file kept (`DirtyFiles` is closed under importers), and a file whose
entries all match has the import closure the artifact was compiled from, so its
stamp is the same (`StampUnique`).  The facts on closures
come first in `BuildCacheProofs`.

With crashes and bypassed builds this is gone: the artifacts on disk are then newer
than the cache file.  `CacheSurvivesCrashes` rests on another invariant, `TrustInv`.
A cache *vouches* for an artifact if the artifact is current whenever the entries
are clean (`Vouches`); this is `CleanIsCurrent`, said of the cache file, of the
memory of a build and of the merged cache at every moment, not only between
builds.  An edit leaves what is on record, so it can only take clean entries away
(`LeavingIsTrusted`).  And when a build overwrites an artifact, it has read its
sources after the cache file was written: a file that has the content of its entry
now had it then (`StillAsRead`), so the new artifact is current as well where the
entries are clean (`ReadIsCurrent`).  This needs nobody to finish, and holds
wherever edits fall.

What a build answers needs more: what it *decided not to compile* must be right
until the answer is given.  Of the above it needs only what is `Dependable` when the
build filters: it has read its sources once, and what the cache file links to is
current if clean.  Both `RecordedTogether` and `TrustInv` imply that, so one proof
serves undisturbed builds and those after a crash (`DependableHolds`).  `CleanInv`
adds that a build that bypasses the cache holds none (`UnusedIsEmpty`), that the sources a build
is asked for are closed under imports and were there when it read them
(`RequestIsRead`), that a file the compiler has seen and no artifact is linked to
has no contracts (`SilenceIsRecorded`), that what is requested and has contracts
is compiled or reused, and current if it is reused (`FilterIsSound`), and that
what is not compiled is current on disk and stays so while other artifacts are
written (`StoredIsFresh`).  `BuildsAreClean` then has one
case for each way a build can end; all other steps are stutters.
`BuildsResolve` needs none of this and holds under crashes: an artifact is only
loaded if its build info could be read (`ReuseResolves`), and a new one comes
with its own.  `RebuildsAreIdle` compares two runs of `Preprocess`, the one that
was and the one that would follow; it needs that the build infos on disk are the
listed ones, and that from the request to the stored cache nothing requested is
left that would have to be compiled again (`NothingLeft`).  A crash breaks both
`BuildInfosMatchCache` and `RebuildIsIdle`: the build infos just written are not
listed, and one that was listed and is truncated stays listed until its own files
are compiled again; until then no build reuses anything.

### Preprocessed caches

`Walk` is a recursive function over the files by path.  That it exists is itself
to be proved (`WalkIsFunction`), and what holds along it is proved by the least
number at which it would not (`LeastNumber`, `NumbersAreReached` in
`SequenceLemmas`): this stands in for induction.  `WalkIsSound` says that of the files looked at so far, a clean
one that is no mock has no `Reasons`, and a mock that imports something dirty has
only dirty importers.  A file that becomes dirty later does not change that: an
import that is a reason for it is one for its importers too, and a path from a
clean file into what a mock's visit marked leaves through a file that was dirty
before (`Entering`, `ImportersAreMarked`).  `DirtyInv` says that entries are
hashes of contents, that the list of mocks is what the entries say, and that the
artifact of a file all of whose imports have entries was compiled from what these
say (`RecordsAreKnown`); a test may well have an entry when its source lost it.

### Reporter and parallel compile

`ScopeIsHeard` depends on the shared counter being positive whenever a thread is
in a scope.  The invariant says what the counter counts: the guards that exist
on all threads, without those that have been pushed and not yet counted
(`ScopesAreCounted`, a cardinality over the positions of all stacks), that guards
nest, and that a thread's thread-local is the innermost guard's but within
`set_scoped` and a drop.  For `BuildIsHeard` it says which call of the library a
worker is in at which point of its job (`CallsInPlace`), what it captured
(`CapturedIsCurrent`), and for the refinement that queue, workers and results
share the jobs of a build without overlap (`Accounting`).

### Graph, versions and units

`IndexIsPlace` is about files that are numbered before they are stored; with it
`Inv` says which files are reachable, that the edges so far are the imports so
far, and that inputs come first.  A walk's invariant is that what it returned is
closed under imports but for what is on the stack.  `VersionSelection` walks in
the same way (`WalkInv`, `UnitInv`), so that `Closure`, which is not computed by
any step, can be shown to be what the steps computed.  `Settled` says of a
language that every file has a version that fits and the best common one if
there is one; `LanguagesInv` moves it over the languages and `LanguageInv` over
the files of one.  `Best` picks the highest of a set of versions that is finite:
`LargestExists` is by well-founded induction on subsets.

### The search for remappings

`NoEndlessWalk` counts how often one directory is on the search's stack.  A link
may lead back to a directory that is being searched, but not twice: the search
remembers where links led.  `StackInv` says that each frame but the first is
where its crossing, an entry of the frame below, really leads; that crossings
that are links lead to places that are remembered, each to another one; and with
that that a frame reached from another without a link has the longer path.  Two
frames in one directory therefore have a link between them, and the number of
links up to a frame tells the frames of one directory apart
(`PlacesAreCounted`).

### Inputs and outputs

The input of a job is a function of what the first job of the build left and of
the settings (`JobInv`), so that what four steps did to it can be looked up at
the last.  `HeldInv` relates the artifacts on disk to the settings in the cache,
and those of the build to its own.  `ExtrasInv` and `GradedInv` only add types and
the kinds of files to their properties.  `Accounted` counts places in a map of
maps of lists, of contracts, of artifacts just compiled and of cached ones.
`ContractsInv` adds to it that in each a file has one key, whichever form its name
has, that a list holds the entries of its own file and name, of each build at most
one, and that while jobs are left all names are absolute and their builds are not
in the output yet.  All removals, of contracts or of artifacts, are then one
relation between maps, `Taking`, or `Keeping` when nothing is found, and adding a
job is `ExtendedIs`: each list is longer by the job's entry or unchanged.

### Where artifacts are placed

`PathsInv` says that the cache knows artifacts by file, name, version and profile,
each with a path below the artifacts directory, next to `PathsApart` and
`ArtifactsSurvive`.  A build's items differ in those four (`ItemsApart`), as files,
contracts and compiler runs do and `FlattenSeq` keeps them apart
(`FlattenKeepsApart`).  `PlacementsApart` goes along the items: what the cache
knows gets the path it has, and what it does not gets one that neither a cached
artifact nor an earlier item has.  Where all parents are taken some number is not,
as there are more numbers to try than paths taken (`SomeNumberIsFree`).  What an
entry names was therefore written for that entry last (`WrittenSurvives`).

### Linking

`LinkInv` relates the code to what it was (`LinkedTo`): what is still referred to is
what was referred to and was given no address; every placeholder of the rest is an
address, its own library's unless another shares it; nothing else changed.  Each
call keeps this (`NotReferred`, `Referred`), and so does any list of them
(`CalledAllIs`, along the list).  Once nothing is referred to no placeholder is left,
so that the text can be decoded.

### Source maps

`MapInv` relates each element that was returned, and the last one, to what was said
last of each of its fields (`Tells`).  `ElementIsRead` goes along the fields of one
text: what the builder holds after so many colons is what was written of so many
fields, or a number did not fit.  `WordsHold` is the arithmetic of the shared word:
setting jump and depth and reading them gives back both, if the depth is below
`DepthLimit`.  A field of -1 says 0, and of the index that there is none
(`Meant`, `Heard`); the index 2^32 - 1 reads as none too, which `SaidIndex` says.

### Flattener

`BasesFirst` rests on the order of the files alone.  `Before` is an order in which
any two files compare, so that a set of files can be sorted (`FilesAreSorted`: the
number of files up to a file is its place, and no two have the same), and what a
file imports has fewer dependencies than the file itself (`ImportsAreEarlier`).
`NamesResolve` needs the invariant `NamesInv`: once they are given, the names are
the final names of some order of the definitions of each name.  Then definitions
that are alone keep a name that no longer one can be, of those with a name in
common each has the number of its own place (`FinalNamesDiffer`), and what an item
is rewritten to begins with the final name of what it leads to (`ImagesLead`).

### Only model-checked

- Liveness: `WalkEnds` and the fairness of `ImplementsCompileJobs`.
- What filtered and sorted sequences and texts that are searched compute: the prover
  has no induction over these library operators, and one would have to go through
  their definitions as `FlattenIsFunction` does for `FlattenSeq`.  This is
  `ImportsResolve`.
- `BothAgree`: the flatteners agree on the instances only.  Of files with aliases that
  are words of the text, with several pragmas, or with names where the search does not
  look, they make different texts, so there is no such theorem for all files.
- `ReferencesCollectedElsewhere`: `AstWalk` has no parameters and a path down the tree
  is bounded by its state, so that TLC's check is of all there is.

## Plan

1. Two processes that build one project.

## Not modelled

- Running, finding and installing compilers, and the reporter that writes compiler
  input and output to files: processes and I/O.
- The JSON of compilers as data (`artifacts/`), except where a choice depends on it,
  and formatting of reports and errors: translation without state of its own.
- Parsing of Solidity, Vyper and Yul: `solar` and regular expressions.
- `buildinfo.rs` as data: a build info is known by its id.
- `project_util`, `compile/many.rs`: test helpers, and a loop without a cache.
- The map of sources of a build's output, which is only searched and taken apart as
  the maps of contracts are.
- A second process on the same directories, which is listed as a hazard without a
  property.
