---------------------------- MODULE CompileOutput ----------------------------
(***************************************************************************)
(* The output of a build (compile/output): the jobs' outputs put together  *)
(* (AggregatedCompilerOutput), the artifacts just compiled and those read  *)
(* from the cache (ProjectCompileOutput), what callers take out of them,   *)
(* and whether the build counts as failed.                                 *)
(*                                                                         *)
(* A file inside the project is named relative to its root in a compiler's *)
(* output and its diagnostics; join_all makes the keys of contracts        *)
(* absolute and leaves the diagnostics as they are.                        *)
(***************************************************************************)
EXTENDS Naturals, Sequences, FiniteSets, SequencesExt

CONSTANTS
    PathOrder,   \* the files in path order
    Outside,     \* files outside the project's root: named absolutely by the compiler
    JobLists,    \* the sequences of compile jobs a build may run, each with its output
    OlderJobs,   \* jobs of earlier builds whose artifacts a build may read from the cache
    Infos,       \* what callers ask for: sequences of the parts between colons
    NotNames,    \* parts that end in .sol or hold a slash
    Codes,       \* error codes to ignore
    Ignored,     \* files below an ignored path, as the compiler names them
    DotTSol,     \* files named *.t.sol
    IsTest,      \* the <<file, name>> whose abi has IS_TEST
    NothingFound, \* None: a model value
    MaxAsks      \* bound on what callers ask of one output

Severities == <<"error", "warning", "info">>

ASSUME PathsAreOrdered == PathOrder \in Seq(ToSet(PathOrder))

\* Severity of artifacts/error.rs: a compiler reports nothing else.
ASSUME JobsReportDiagnostics ==
    \A jobs \in JobLists :
        /\ jobs \in Seq(ToSet(jobs))
        /\ \A job \in ToSet(jobs) :
               /\ job.errors \in Seq(ToSet(job.errors))
               /\ \A e \in ToSet(job.errors) : e.severity \in ToSet(Severities)

VARIABLES
    todo,        \* jobs whose output was not added yet
    errors,
    contracts,   \* VersionedContracts: [key -> [name -> Seq(entry)]]
    infos,       \* build_infos: the ids of the jobs
    compiled,    \* compiled_artifacts: [key -> [name -> Seq(entry)]]
    stored,      \* cached_artifacts
    older,       \* the job whose artifacts were cached
    taken,       \* entries of `contracts` that callers took out
    handed,      \* those of `compiled`
    reused,      \* those of `stored`
    asks         \* questions asked

outputVars == <<todo, errors, contracts, infos, compiled, stored, older, taken, handed, reused, asks>>

PathSet == ToSet(PathOrder)
SpdxOrSize == {1878, 5574}

\* How the compiler names a file, and Path::join(root).
Relative(f) == <<IF f \in Outside THEN "abs" ELSE "rel", f>>
JoinRoot(key) == <<"abs", key[2]>>
StripRoot(key) == Relative(key[2])

(***************************************************************************)
(* Maps of files, names and versions.                                      *)
(***************************************************************************)
\* Keys in the order of the map: absolute paths first.
KeyOrder == [i \in DOMAIN PathOrder |-> <<"abs", PathOrder[i]>>]
            \o [i \in DOMAIN PathOrder |-> <<"rel", PathOrder[i]>>]

\* VersionedContracts::get looks the path and the name up.
Get(map, key, name) ==
    IF key \in DOMAIN map /\ name \in DOMAIN map[key] /\ map[key][name] # <<>>
    THEN map[key][name][1] ELSE NothingFound

Without(map, x) == [y \in DOMAIN map \ {x} |-> map[y]]

\* A mutant: the versions that are left are not put back.
RemoveEntryForgetting(c, name) == Without(c, name)

\* remove_entry, take the first and put what is left back.
RemoveEntry(c, name) ==
    IF name \notin DOMAIN c THEN c
    ELSE IF Len(c[name]) <= 1 THEN Without(c, name)
    ELSE [c EXCEPT ![name] = Tail(@)]

\* Artifacts::remove leaves a file without contracts in the map, VersionedContracts::remove drops it.
RemoveArtifact(map, key, name) ==
    IF key \in DOMAIN map THEN [map EXCEPT ![key] = RemoveEntry(@, name)] ELSE map
RemoveContract(map, key, name) ==
    IF key \notin DOMAIN map THEN map
    ELSE IF DOMAIN RemoveEntry(map[key], name) = {} THEN Without(map, key)
    ELSE [map EXCEPT ![key] = RemoveEntry(@, name)]

\* The file remove_first finds the name in: the first that has it.
Holder(map, name) ==
    LET with == {i \in DOMAIN KeyOrder :
                    KeyOrder[i] \in DOMAIN map /\ name \in DOMAIN map[KeyOrder[i]]}
    IN {KeyOrder[i] : i \in {j \in with : \A h \in with : j <= h}}
RemoveFirstNamed(map, name) ==
    [k \in DOMAIN map |-> IF k \in Holder(map, name) THEN RemoveEntry(map[k], name) ELSE map[k]]
TakenFirst(map, name) ==
    LET with == Holder(map, name) IN
    IF with = {} THEN NothingFound ELSE map[CHOOSE k \in with : TRUE][name][1]

(***************************************************************************)
(* Adding the outputs of the jobs.                                         *)
(***************************************************************************)
\* retain_files and join_all: what the job compiled beyond its dirty files is left out.
Retained(job) == {c \in job.contracts : c[1] \in job.dirty}
Entry(job, c) ==
    [id |-> c, version |-> job.version, build |-> job.id, profile |-> job.profile]

EntriesOf(job) == {Entry(job, c) : c \in Retained(job)}

\* A build info's id is a hash of what the compiler was given: the jobs of a build differ in it,
\* and jobs that share it have the same contracts.
ASSUME JobsHaveIds ==
    LET all == (UNION {ToSet(jobs) : jobs \in JobLists}) \cup OlderJobs
    IN /\ \A jobs \in JobLists : \A i, j \in DOMAIN jobs : jobs[i].id = jobs[j].id => i = j
       /\ \A j, k \in all : j.id = k.id => EntriesOf(j) = EntriesOf(k)
       /\ \A j \in all : \A c \in j.contracts : c = <<c[1], c[2]>> /\ Entry(j, c) # NothingFound

Pushed(seq, e) == Append(seq, e)

At(map, x, default) == IF x \in DOMAIN map THEN map[x] ELSE default

Extended(map, job) ==
    LET key(c) == JoinRoot(Relative(c[1]))
        new(k) == {c \in Retained(job) : key(c) = k}
    IN [k \in DOMAIN map \cup {key(c) : c \in Retained(job)} |->
            LET old == At(map, k, <<>>)
            IN [n \in DOMAIN old \cup {c[2] : c \in new(k)} |->
                    IF \E c \in new(k) : c[2] = n
                    THEN Pushed(At(old, n, <<>>), Entry(job, CHOOSE c \in new(k) : c[2] = n))
                    ELSE old[n]]]

OutputInit ==
    /\ todo \in JobLists
    /\ errors = <<>>
    /\ contracts = <<>>
    /\ infos = <<>>
    /\ compiled = <<>>
    /\ older \in OlderJobs
    /\ stored = Extended(<<>>, older)
    /\ taken = {} /\ handed = {} /\ reused = {}
    /\ asks = 0

\* AggregatedCompilerOutput::extend; after the last job the artifacts are made of the contracts.
Extend ==
    /\ todo # <<>>
    /\ LET job == Head(todo) IN
       /\ infos' = Append(infos, job.id)
       /\ errors' = errors \o job.errors
       /\ contracts' = Extended(contracts, job)
       /\ compiled' = IF Len(todo) = 1 THEN contracts' ELSE compiled
    /\ todo' = Tail(todo)
    /\ UNCHANGED <<stored, older, taken, handed, reused, asks>>

(***************************************************************************)
(* Taking.                                                                 *)
(***************************************************************************)
\* ContractInfo::new: the part after the last colon is the name and the one before it the path,
\* unless the last part looks like a file: then all of it is a name.
ParseInfo(info) ==
    IF Last(info) \in NotNames THEN [path |-> NothingFound, name |-> info]
    ELSE [path |-> IF Len(info) > 1 THEN info[Len(info) - 1] ELSE NothingFound,
          name |-> Last(info)]

\* What remove_contract returns, of contracts or of artifacts, and what it leaves.
Got(map, i) == IF i.path = NothingFound THEN TakenFirst(map, i.name) ELSE Get(map, i.path, i.name)
ContractsLeft(map, i) ==
    IF i.path = NothingFound THEN RemoveFirstNamed(map, i.name)
    ELSE RemoveContract(map, i.path, i.name)
ArtifactsLeft(map, i) ==
    IF i.path = NothingFound THEN RemoveFirstNamed(map, i.name)
    ELSE RemoveArtifact(map, i.path, i.name)

\* remove_contract of the aggregated output.
TakeContract(info) ==
    LET i == ParseInfo(info)
    IN /\ contracts' = ContractsLeft(contracts, i)
       /\ taken' = taken \cup ({Got(contracts, i)} \ {NothingFound})
       /\ UNCHANGED <<todo, errors, infos, compiled, stored, older, handed, reused>>

\* ProjectCompileOutput::remove_contract: an artifact just compiled, or else a cached one.
TakeArtifact(info) ==
    LET i == ParseInfo(info)
    IN /\ compiled' = ArtifactsLeft(compiled, i)
       /\ handed' = handed \cup ({Got(compiled, i)} \ {NothingFound})
       /\ IF Got(compiled, i) # NothingFound
          THEN UNCHANGED <<stored, reused>>
          ELSE /\ stored' = ArtifactsLeft(stored, i)
               /\ reused' = reused \cup ({Got(stored, i)} \ {NothingFound})
       /\ UNCHANGED <<todo, errors, contracts, infos, older, taken>>

\* with_stripped_file_prefixes(root), of the aggregated output and the artifacts.
Stripped(map) == [k \in {StripRoot(o) : o \in DOMAIN map} |->
                    map[CHOOSE o \in DOMAIN map : StripRoot(o) = k]]
StripPrefixes ==
    /\ contracts' = Stripped(contracts)
    /\ compiled' = Stripped(compiled)
    /\ stored' = Stripped(stored)
    /\ UNCHANGED <<todo, errors, infos, older, taken, handed, reused>>

Ask ==
    /\ todo = <<>>
    /\ asks < MaxAsks
    /\ asks' = asks + 1
    /\ \/ \E info \in Infos : TakeContract(info) \/ TakeArtifact(info)
       \/ StripPrefixes

OutputNext == Extend \/ Ask

OutputSpec == OutputInit /\ [][OutputNext]_outputVars

(***************************************************************************)
(* Diagnostics.  A later severity is a lower one.                          *)
(***************************************************************************)
SeverityRank(s) == CHOOSE i \in DOMAIN Severities : Severities[i] = s
Diagnostics == ToSet(errors)

\* A file is a test by its name, or when a contract of it has IS_TEST in its abi.
TestFile(key) ==
    \/ key[2] \in DotTSol
    \/ key \in DOMAIN contracts /\ \E n \in DOMAIN contracts[key] :
           contracts[key][n] # <<>> /\ <<key[2], n>> \in IsTest

\* A mutant: errors can be ignored by their code.
ShouldIgnoreAny(e) == e.code \in Codes

ShouldIgnore(e) ==
    /\ e.severity = "warning"
    /\ e.code # 0
    /\ \/ e.code \in Codes
       \/ /\ e.file # NothingFound
          /\ \/ e.file \in Ignored
             \/ TestFile(Relative(e.file)) /\ e.code \in SpdxOrSize

HasWarning == \E e \in Diagnostics : ~ShouldIgnore(e)

HasError(filter) ==
    \E e \in Diagnostics :
        \/ e.severity = "error"
        \/ /\ SeverityRank(filter) >= SeverityRank(e.severity)
           /\ filter = "warning" => HasWarning

Shown == {e \in Diagnostics : ~ShouldIgnore(e)}

(***************************************************************************)
(* Properties                                                              *)
(***************************************************************************)
\* Where entries are: file, name, and place among the versions.
Places(map) ==
    UNION {UNION {{<<k, n, i>> : i \in DOMAIN map[k][n]} : n \in DOMAIN map[k]} : k \in DOMAIN map}
EntryAt(map, p) == map[p[1]][p[2]][p[3]]

\* Each of the entries is in the map at one place, or was taken.
AccountedIn(map, gone, entries) ==
    LET places == Places(map)
        held == {EntryAt(map, p) : p \in places}
    IN /\ held \cup gone = entries
       /\ held \cap gone = {}
       /\ \A p, q \in places : EntryAt(map, p) = EntryAt(map, q) => p = q

\* What the jobs whose output was added compiled, of the files they were run for.
CompiledByJobs ==
    UNION {EntriesOf(j) : j \in {k \in UNION {ToSet(l) : l \in JobLists} : k.id \in ToSet(infos)}}

\* A contract that a job compiled, of a file the job was run for, is in the output under its own
\* version and build exactly once until a caller takes it, however other versions and files of
\* that name are taken first (output/mod.rs:557); and so is the artifact made of it (:383), and
\* each artifact of the cache, which only a request that finds none compiled takes out.
Accounted ==
    /\ AccountedIn(contracts, taken, CompiledByJobs)
    /\ todo = <<>> => AccountedIn(compiled, handed, CompiledByJobs)
    /\ AccountedIn(stored, reused, EntriesOf(older))

\* A build fails exactly when a diagnostic that is shown reaches the configured severity.  Two
\* cases differ: when warnings count and one is present any diagnostic shown makes it fail, an
\* info too, and when infos count an ignored warning does, with nothing shown (output/mod.rs:827).
VerdictExplained ==
    \A filter \in ToSet(Severities) :
        HasError(filter) <=>
            \/ \E e \in Shown : SeverityRank(filter) >= SeverityRank(e.severity)
            \/ filter = "warning" /\ Shown # {} /\ \E w \in Diagnostics : w.severity = "warning"
            \/ filter = "info" /\ Diagnostics # {}

=============================================================================
