--------------------------- MODULE OutputsProofs ---------------------------
(***************************************************************************)
(* Proofs about what becomes of a compiler's output: the extra files that  *)
(* are written next to the artifacts (ExtraOutputs), for any units and     *)
(* any selections of outputs, and the verdict over the diagnostics of a    *)
(* build and what becomes of its contracts when outputs are put together   *)
(* and contracts are taken out (CompileOutput), for any jobs; the files    *)
(* its artifacts are placed in (ArtifactPaths), over any builds; the       *)
(* linking of its code (Linking), by any calls; and the reading of its     *)
(* source maps (SourceMap), of any elements.                               *)
(***************************************************************************)
EXTENDS ExtraOutputs, CompileOutput, ArtifactPaths, SourceMap, Linking,
        SequenceLemmas

-----------------------------------------------------------------------------
(* Extra files.                                                                *)

(* What is_dirty does not look for: every artifact has it. *)
AlwaysKept == {"abi", "bin", "deployedBin"}

(* The files written only when their content is in the artifact. *)
LookedFor == {"metadata", "ir", "irOptimized", "ewasm", "assembly", "legacyAssembly", "sourceMap"}

(* An extra file is one of a known kind, an artifact in the cache has the abi and the bytecode
   its compiler had an output for, and the property holds. *)
ExtrasInv ==
    /\ extras \subseteq AllFiles
    /\ \A u \in Units : artifact[u] = NoArtifact \/ AlwaysKept \cap Emits \subseteq artifact[u]
    /\ ExtrasCurrent

LEMMA FilesAreKnown ==
    ASSUME NEW selection
    PROVE  FilesOf(selection) \subseteq AllFiles
  BY DEF FilesOf, AllFiles

LEMMA KindsOfFiles ==
    AllFiles \subseteq AlwaysKept \cup LookedFor \cup {"generatedSources"}
  BY DEF AllFiles, EvmFiles, AlwaysKept, LookedFor

(* An output a file is written from is asked of the compiler. *)
LEMMA FilesAreAskedFor ==
    ASSUME NEW k \in AlwaysKept \cup LookedFor, k \in extras, k \in Emits
    PROVE  k \in Emitted
<1>1. k \in OutputSelection(values, extras)
  BY DEF OutputSelection, Basic, AlwaysKept, LookedFor
<1> QED
  BY <1>1 DEF Emitted

LEMMA ArtifactsHaveBytecode == AlwaysKept \cap Emits \subseteq Kept(Emitted)
  BY DEF AlwaysKept, Kept, Emitted, OutputSelection, Basic

LEMMA ExtrasStart == ExtraInit => ExtrasInv
<1> SUFFICES ASSUME ExtraInit
             PROVE  ExtrasInv
  OBVIOUS
<1>1. extras \subseteq AllFiles
  BY FilesAreKnown DEF ExtraInit
<1>2. ExtrasCurrent
  BY DEF ExtraInit, ExtrasCurrent
<1> QED
  BY <1>1, <1>2 DEF ExtraInit, ExtrasInv

(* Compiled: the first artifact of a version is the unit's own. *)
LEMMA CompiledFilesAreCurrent ==
    ASSUME NEW u \in Units, NEW k \in extras, extras \subseteq AllFiles,
           FindArtifact(u) = u, k \in Emits \/ k = "generatedSources"
    PROVE  <<u, k>> \in HandleArtifacts(Emitted)
<1>1. k \in Writable(Emitted)
  BY KindsOfFiles, FilesAreAskedFor DEF Writable
<1>2. <<FindArtifact(u), k>> \in HandleArtifacts(Emitted)
  BY <1>1 DEF HandleArtifacts
<1> QED
  BY <1>2

(* Read from the cache: nothing that a file is written from is missing. *)
LEMMA CachedFilesAreCurrent ==
    ASSUME ExtrasInv, ~MustCompile, NEW u \in Units, NEW k \in extras,
           k \in Emits \/ k = "generatedSources"
    PROVE  <<u, k>> \in HandleCached
<1>1. artifact[u] # NoArtifact /\ ~IsDirty(artifact[u])
  BY DEF MustCompile
<1>2. k # "generatedSources" /\ (k \in LookedFor => k \in artifact[u])
  BY <1>1 DEF IsDirty, LookedFor
<1>3. k \in AlwaysKept => k \in artifact[u]
  BY <1>1, <1>2 DEF ExtrasInv
<1>4. k \in artifact[u]
  BY <1>2, <1>3, KindsOfFiles DEF ExtrasInv
<1>5. <<u, k>> \in {<<u, x>> : x \in Writable(artifact[u])}
  BY <1>4 DEF Writable
<1> QED
  BY <1>5 DEF HandleCached

LEMMA ExtrasStep == ExtrasInv /\ [ExtraNext]_extraVars => ExtrasInv'
<1> SUFFICES ASSUME ExtrasInv, [ExtraNext]_extraVars
             PROVE  ExtrasInv'
  OBVIOUS
<1>1. CASE Configure
  <2>1. extras' \subseteq AllFiles
    BY <1>1, FilesAreKnown DEF Configure
  <2>2. ExtrasCurrent'
    BY <1>1 DEF Configure, ExtrasCurrent
  <2> QED
    BY <1>1, <2>1, <2>2 DEF Configure, ExtrasInv
<1>2. CASE Edit
  <2>1. ExtrasCurrent'
    BY <1>2 DEF Edit, ExtrasCurrent
  <2> QED
    BY <1>2, <2>1 DEF Edit, ExtrasInv
<1>3. CASE BuildCompiling
  <2>1. UNCHANGED <<values, extras>> /\ current' = current \cup HandleArtifacts(Emitted)
        /\ artifact' = [u \in Units |-> Kept(Emitted)]
    BY <1>3 DEF BuildCompiling
  <2>2. extras' \subseteq AllFiles
    BY <2>1 DEF ExtrasInv
  <2>3. ASSUME NEW u \in Units
        PROVE  AlwaysKept \cap Emits \subseteq artifact'[u]
    BY <2>1, ArtifactsHaveBytecode
  <2>4. ASSUME NEW u \in Units, NEW k \in extras', FindArtifact(u) = u,
               k \in Emits \/ k = "generatedSources"
        PROVE  <<u, k>> \in current'
    BY <2>1, <2>2, <2>4, CompiledFilesAreCurrent
  <2>5. ExtrasCurrent'
    BY <2>4 DEF ExtrasCurrent
  <2> QED
    BY <2>1, <2>2, <2>3, <2>5 DEF ExtrasInv
<1>4. CASE BuildFromCache
  <2>1. UNCHANGED <<extras, artifact>> /\ current' = current \cup HandleCached /\ ~MustCompile
    BY <1>4 DEF BuildFromCache
  <2>2. ASSUME NEW u \in Units, NEW k \in extras', k \in Emits \/ k = "generatedSources"
        PROVE  <<u, k>> \in current'
    BY <2>1, <2>2, CachedFilesAreCurrent
  <2>3. ExtrasCurrent'
    BY <2>2 DEF ExtrasCurrent
  <2> QED
    BY <2>1, <2>3 DEF ExtrasInv
<1>5. CASE UNCHANGED extraVars
  BY <1>5 DEF extraVars, ExtrasInv, ExtrasCurrent
<1> QED
  BY <1>1, <1>2, <1>3, <1>4, <1>5 DEF ExtraNext

(* After a build every extra file that is asked for and that the compiler has an output for is on
   disk and of the current source, whether the build compiled the units or read their artifacts
   from the cache, for every history of edits and of changed selections (configurable.rs,
   cache.rs missing_extra_files). *)
THEOREM ExtrasAreCurrent == ExtraSpec => []ExtrasCurrent
<1>1. ExtrasInv => ExtrasCurrent
  BY DEF ExtrasInv
<1> QED
  BY <1>1, ExtrasStart, ExtrasStep, PTL DEF ExtraSpec

-----------------------------------------------------------------------------
(* Diagnostics.                                                                *)

(* A sequence over any set is one over its own elements. *)
LEMMA OfItsOwn ==
    ASSUME NEW S, NEW s \in Seq(S)
    PROVE  s \in Seq(ToSet(s))
  BY DEF ToSet

(* What the jobs report, and what was reported so far, has one of the three severities. *)
Graded(diagnostics) ==
    /\ diagnostics \in Seq(ToSet(diagnostics))
    /\ \A e \in ToSet(diagnostics) : e.severity \in ToSet(Severities)

GradedInv ==
    /\ Graded(errors)
    /\ todo \in Seq(ToSet(todo))
    /\ \A job \in ToSet(todo) : Graded(job.errors)

LEMMA ThreeSeverities == ToSet(Severities) = {"error", "warning", "info"}
<1>1. DOMAIN Severities = {1, 2, 3}
  BY DEF Severities
<1> QED
  BY <1>1 DEF Severities, ToSet

LEMMA Ranks ==
    /\ SeverityRank("error") = 1
    /\ SeverityRank("warning") = 2
    /\ SeverityRank("info") = 3
<1>1. DOMAIN Severities = {1, 2, 3}
  BY DEF Severities
<1>2. Severities[1] = "error" /\ Severities[2] = "warning" /\ Severities[3] = "info"
  BY DEF Severities
<1>3. ASSUME NEW i \in {1, 2, 3}
      PROVE  SeverityRank(Severities[i]) = i
  <2>1. \A j \in {1, 2, 3} : Severities[j] = Severities[i] <=> j = i
    BY <1>2
  <2> QED
    BY <1>1, <2>1 DEF SeverityRank
<1> QED
  BY <1>2, <1>3

(* Only warnings are ever left out. *)
LEMMA IgnoredAreWarnings ==
    ASSUME NEW e \in Diagnostics, e \notin Shown
    PROVE  e.severity = "warning"
  BY DEF Shown, ShouldIgnore

LEMMA ErrorsCount ==
    ASSUME GradedInv
    PROVE  HasError("error") <=>
               \E e \in Shown : SeverityRank("error") >= SeverityRank(e.severity)
<1>1. \A e \in Diagnostics : e.severity \in {"error", "warning", "info"}
  BY ThreeSeverities DEF GradedInv, Graded, Diagnostics
<1>2. \A e \in Diagnostics :
          SeverityRank("error") >= SeverityRank(e.severity) <=> e.severity = "error"
  BY <1>1, Ranks
<1>3. \A e \in Diagnostics : e.severity = "error" => e \in Shown
  BY IgnoredAreWarnings
<1> QED
  BY <1>2, <1>3 DEF HasError, Shown

LEMMA WarningsCount ==
    ASSUME GradedInv
    PROVE  HasError("warning") <=>
               \/ \E e \in Shown : SeverityRank("warning") >= SeverityRank(e.severity)
               \/ Shown # {} /\ \E w \in Diagnostics : w.severity = "warning"
<1>1. \A e \in Diagnostics : e.severity \in {"error", "warning", "info"}
  BY ThreeSeverities DEF GradedInv, Graded, Diagnostics
<1>2. \A e \in Diagnostics :
          SeverityRank("warning") >= SeverityRank(e.severity) <=>
              e.severity \in {"error", "warning"}
  BY <1>1, Ranks
<1>3. \A e \in Diagnostics : e.severity = "error" => e \in Shown
  BY IgnoredAreWarnings
<1>4. HasWarning <=> Shown # {}
  BY DEF HasWarning, Shown
<1>5. Shown \subseteq Diagnostics
  BY DEF Shown
<1> QED
  BY <1>2, <1>3, <1>4, <1>5 DEF HasError

LEMMA InfosCount ==
    ASSUME GradedInv
    PROVE  HasError("info") <=> Diagnostics # {}
<1>1. \A e \in Diagnostics : e.severity \in {"error", "warning", "info"}
  BY ThreeSeverities DEF GradedInv, Graded, Diagnostics
<1>2. \A e \in Diagnostics : SeverityRank("info") >= SeverityRank(e.severity)
  BY <1>1, Ranks
<1> QED
  BY <1>2 DEF HasError

LEMMA GradedVerdict == GradedInv => VerdictExplained
<1> SUFFICES ASSUME GradedInv
             PROVE  VerdictExplained
  OBVIOUS
<1>1. Shown \subseteq Diagnostics
  BY DEF Shown
<1> QED
  BY <1>1, ErrorsCount, WarningsCount, InfosCount, ThreeSeverities DEF VerdictExplained

LEMMA GradedStart == OutputInit => GradedInv
<1> SUFFICES ASSUME OutputInit
             PROVE  GradedInv
  OBVIOUS
<1>1. ToSet(<<>>) = {}
  BY DEF ToSet
<1>2. Graded(errors)
  BY <1>1 DEF OutputInit, Graded
<1> QED
  BY <1>2, JobsReportDiagnostics DEF OutputInit, GradedInv, Graded

LEMMA GradedStep == GradedInv /\ [OutputNext]_outputVars => GradedInv'
<1> SUFFICES ASSUME GradedInv, [OutputNext]_outputVars
             PROVE  GradedInv'
  OBVIOUS
<1>1. CASE Extend
  <2> DEFINE more == Head(todo).errors
  <2>1. todo # <<>> /\ todo' = Tail(todo) /\ errors' = errors \o more
    BY <1>1 DEF Extend
  <2>2. Head(todo) \in ToSet(todo) /\ Tail(todo) \in Seq(ToSet(todo))
    BY <2>1 DEF GradedInv, ToSet
  <2>3. Graded(more)
    BY <2>2 DEF GradedInv
  <2>4. ToSet(errors') \subseteq ToSet(errors) \cup ToSet(more)
    <3> PICK S : S = ToSet(errors) \cup ToSet(more)
      OBVIOUS
    <3>1. errors \in Seq(ToSet(errors)) /\ more \in Seq(ToSet(more))
      BY <2>3 DEF GradedInv, Graded
    <3>2. errors \in Seq(S) /\ more \in Seq(S)
      BY <3>1
    <3> HIDE DEF more
    <3>3. errors' \in Seq(S)
      BY <2>1, <3>2
    <3> QED
      BY <3>3 DEF ToSet
  <2>5. Graded(errors')
    <3>1. errors' \in Seq(ToSet(errors) \cup ToSet(more))
      BY <2>1, <2>3 DEF GradedInv, Graded
    <3> QED
      BY <2>3, <2>4, <3>1, OfItsOwn DEF GradedInv, Graded
  <2>6. ToSet(todo') \subseteq ToSet(todo)
    BY <2>1, <2>2 DEF ToSet
  <2> QED
    BY <2>1, <2>2, <2>5, <2>6, OfItsOwn DEF GradedInv
<1>2. CASE Ask
  <2>1. UNCHANGED <<todo, errors>>
    BY <1>2 DEF Ask, TakeContract, TakeArtifact, StripPrefixes
  <2> QED
    BY <2>1 DEF GradedInv, Graded
<1>3. CASE UNCHANGED outputVars
  BY <1>3 DEF outputVars, GradedInv, Graded
<1> QED
  BY <1>1, <1>2, <1>3 DEF OutputNext

(* A build counts as failed exactly when a diagnostic that is shown reaches the configured
   severity, but for the two cases the property names, for every sequence of jobs, whatever they
   report and whatever is ignored (compile/output/mod.rs has_error). *)
THEOREM VerdictsAreExplained == OutputSpec => []VerdictExplained
<1> QED
  BY GradedVerdict, GradedStart, GradedStep, PTL DEF OutputSpec


-----------------------------------------------------------------------------
(* Contracts put together and taken apart.                                     *)

BuildJobs == UNION {ToSet(jobs) : jobs \in JobLists}
AllJobs == BuildJobs \cup OlderJobs
AllEntries == UNION {EntriesOf(j) : j \in AllJobs}

(* The map has one key per file, which is absolute while jobs are added; each  *)
(* list holds a file's contract of one name, of one build at most once.        *)
IsContracts(map, ids) ==
    /\ \A k \in DOMAIN map : k = <<k[1], k[2]>>
    /\ \A k, l \in DOMAIN map : k[2] = l[2] => k = l
    /\ \A k \in DOMAIN map : \A n \in DOMAIN map[k] :
          /\ map[k][n] \in Seq(AllEntries) /\ map[k][n] # <<>>
          /\ \A i \in DOMAIN map[k][n] :
                map[k][n][i].id = <<k[2], n>> /\ map[k][n][i].build \in ids
          /\ \A i, j \in DOMAIN map[k][n] : map[k][n][i].build = map[k][n][j].build => i = j

(* An entry is held at some place. *)
Holds(map, e) ==
    \E k \in DOMAIN map : \E n \in DOMAIN map[k] : \E i \in DOMAIN map[k][n] : e = map[k][n][i]

LEMMA HeldAtPlaces ==
    ASSUME NEW map
    PROVE  \A e : e \in {EntryAt(map, p) : p \in Places(map)} <=> Holds(map, e)
<1>1. ASSUME NEW p \in Places(map) PROVE Holds(map, EntryAt(map, p))
  <2>1. PICK k, n, i :
            k \in DOMAIN map /\ n \in DOMAIN map[k] /\ i \in DOMAIN map[k][n] /\ p = <<k, n, i>>
    BY <1>1 DEF Places
  <2> QED
    BY <2>1 DEF Holds, EntryAt
<1>2. ASSUME NEW e, Holds(map, e) PROVE \E p \in Places(map) : e = EntryAt(map, p)
  <2>1. PICK k, n, i :
            k \in DOMAIN map /\ n \in DOMAIN map[k] /\ i \in DOMAIN map[k][n] /\ e = map[k][n][i]
    BY <1>2 DEF Holds
  <2>2. <<k, n, i>> \in Places(map)
    BY <2>1 DEF Places
  <2> QED
    BY <2>1, <2>2 DEF EntryAt
<1> QED
  BY <1>1, <1>2

(* Two places hold different entries. *)
LEMMA PlacesDiffer ==
    ASSUME NEW map, NEW ids, IsContracts(map, ids),
           NEW p \in Places(map), NEW q \in Places(map), EntryAt(map, p) = EntryAt(map, q)
    PROVE  p = q
<1>1. PICK k, n, i :
          k \in DOMAIN map /\ n \in DOMAIN map[k] /\ i \in DOMAIN map[k][n] /\ p = <<k, n, i>>
  BY DEF Places
<1>2. PICK l, m, j :
          l \in DOMAIN map /\ m \in DOMAIN map[l] /\ j \in DOMAIN map[l][m] /\ q = <<l, m, j>>
  BY DEF Places
<1>3. map[k][n][i] = map[l][m][j]
  BY <1>1, <1>2 DEF EntryAt
<1>4. map[k][n][i].id = <<k[2], n>> /\ map[l][m][j].id = <<l[2], m>>
  BY <1>1, <1>2 DEF IsContracts
<1>5. <<k[2], n>> = <<l[2], m>>
  BY <1>3, <1>4
<1>6. k[2] = l[2] /\ n = m
  BY <1>5
<1>7. k = l /\ n = m
  BY <1>1, <1>2, <1>6 DEF IsContracts
<1>8. i = j
  BY <1>1, <1>2, <1>3, <1>7 DEF IsContracts
<1> QED
  BY <1>1, <1>2, <1>7, <1>8

(* One entry taken: the first of one list, which is gone with its last.        *)
Taking(map, k, n, rest) ==
    /\ k \in DOMAIN map /\ n \in DOMAIN map[k]
    /\ DOMAIN rest \subseteq DOMAIN map
    /\ \A l \in DOMAIN map : \A m \in DOMAIN map[l] :
          IF l = k /\ m = n
          THEN IF Len(map[k][n]) <= 1 THEN k \in DOMAIN rest => n \notin DOMAIN rest[k]
               ELSE k \in DOMAIN rest /\ n \in DOMAIN rest[k] /\ rest[k][n] = Tail(map[k][n])
          ELSE l \in DOMAIN rest /\ m \in DOMAIN rest[l] /\ rest[l][m] = map[l][m]
    /\ \A l \in DOMAIN rest : DOMAIN rest[l] \subseteq DOMAIN map[l]

LEMMA TakingIsSound ==
    ASSUME NEW map, NEW ids, IsContracts(map, ids),
           NEW k, NEW n, NEW rest, Taking(map, k, n, rest)
    PROVE  /\ IsContracts(rest, ids)
           /\ Holds(map, map[k][n][1])
           /\ \A e : Holds(rest, e) <=> Holds(map, e) /\ e # map[k][n][1]
<1> PICK s : s = map[k][n]
  OBVIOUS
<1>1. k \in DOMAIN map /\ n \in DOMAIN map[k] /\ s \in Seq(AllEntries) /\ s # <<>>
  BY DEF Taking, IsContracts
<1>2. /\ Tail(s) \in Seq(AllEntries)
      /\ Len(s) \in Nat \ {0}
      /\ DOMAIN s = 1 .. Len(s) /\ DOMAIN Tail(s) = 1 .. (Len(s) - 1)
      /\ \A i \in DOMAIN Tail(s) : i + 1 \in DOMAIN s /\ Tail(s)[i] = s[i + 1]
      /\ \A i \in DOMAIN s : i # 1 => i - 1 \in DOMAIN Tail(s) /\ Tail(s)[i - 1] = s[i]
      /\ 1 \in DOMAIN s
      /\ Len(s) > 1 => Tail(s) # <<>>
  BY <1>1, Tails
<1>3. ASSUME NEW l \in DOMAIN rest, NEW m \in DOMAIN rest[l]
      PROVE  /\ l \in DOMAIN map /\ m \in DOMAIN map[l]
             /\ (l # k \/ m # n) => rest[l][m] = map[l][m]
             /\ (l = k /\ m = n) => Len(s) > 1 /\ rest[l][m] = Tail(s)
  BY <1>2, <1>3 DEF Taking
<1>4. ASSUME NEW l \in DOMAIN map, NEW m \in DOMAIN map[l], l # k \/ m # n
      PROVE  l \in DOMAIN rest /\ m \in DOMAIN rest[l] /\ rest[l][m] = map[l][m]
  BY <1>4 DEF Taking
<1>5. Len(s) > 1 => k \in DOMAIN rest /\ n \in DOMAIN rest[k] /\ rest[k][n] = Tail(s)
  BY <1>1, <1>2 DEF Taking
<1>6. IsContracts(rest, ids)
  <2>1. /\ \A l \in DOMAIN rest : l = <<l[1], l[2]>>
        /\ \A l, m \in DOMAIN rest : l[2] = m[2] => l = m
    BY DEF IsContracts, Taking
  <2>2. ASSUME NEW l \in DOMAIN rest, NEW m \in DOMAIN rest[l]
        PROVE  /\ rest[l][m] \in Seq(AllEntries) /\ rest[l][m] # <<>>
               /\ \A i \in DOMAIN rest[l][m] :
                     rest[l][m][i].id = <<l[2], m>> /\ rest[l][m][i].build \in ids
               /\ \A i, j \in DOMAIN rest[l][m] : rest[l][m][i].build = rest[l][m][j].build => i = j
    <3>1. CASE l # k \/ m # n
      BY <2>2, <3>1, <1>3 DEF IsContracts
    <3>2. CASE l = k /\ m = n
      <4>1. rest[l][m] = Tail(s) /\ Len(s) > 1
        BY <2>2, <3>2, <1>3
      <4>2. /\ \A i \in DOMAIN s : s[i].id = <<k[2], n>> /\ s[i].build \in ids
            /\ \A i, j \in DOMAIN s : s[i].build = s[j].build => i = j
        BY <1>1 DEF IsContracts
      <4>3. \A i, j \in DOMAIN Tail(s) : Tail(s)[i].build = Tail(s)[j].build => i = j
        <5> SUFFICES ASSUME NEW i \in DOMAIN Tail(s), NEW j \in DOMAIN Tail(s),
                            Tail(s)[i].build = Tail(s)[j].build
                     PROVE  i = j
          OBVIOUS
        <5>1. /\ i + 1 \in DOMAIN s /\ j + 1 \in DOMAIN s
              /\ Tail(s)[i] = s[i + 1] /\ Tail(s)[j] = s[j + 1]
          BY <1>2
        <5>2. i + 1 = j + 1
          BY <4>2, <5>1
        <5>3. i \in Int /\ j \in Int
          BY <1>2
        <5> QED
          BY <5>2, <5>3
      <4>4. \A i \in DOMAIN Tail(s) : Tail(s)[i].id = <<k[2], n>> /\ Tail(s)[i].build \in ids
        BY <1>2, <4>2
      <4>5. Tail(s) # <<>>
        BY <1>2, <4>1
      <4>6. rest[l][m] \in Seq(AllEntries) /\ rest[l][m] # <<>>
        BY <1>2, <4>1, <4>5
      <4>7. \A i \in DOMAIN rest[l][m] : rest[l][m][i].id = <<l[2], m>> /\ rest[l][m][i].build \in ids
        BY <3>2, <4>1, <4>4
      <4>8. \A i, j \in DOMAIN rest[l][m] : rest[l][m][i].build = rest[l][m][j].build => i = j
        BY <4>1, <4>3
      <4> QED
        BY <4>6, <4>7, <4>8
    <3> QED
      BY <3>1, <3>2
  <2> QED
    BY <2>1, <2>2 DEF IsContracts
<1>7. Holds(map, s[1])
  BY <1>1, <1>2 DEF Holds
<1>8. ASSUME NEW e, Holds(rest, e) PROVE Holds(map, e) /\ e # s[1]
  <2>1. PICK l, m, i :
            l \in DOMAIN rest /\ m \in DOMAIN rest[l] /\ i \in DOMAIN rest[l][m] /\ e = rest[l][m][i]
    BY <1>8 DEF Holds
  <2>2. CASE l # k \/ m # n
    <3>1. l \in DOMAIN map /\ m \in DOMAIN map[l] /\ e = map[l][m][i] /\ i \in DOMAIN map[l][m]
      BY <1>3, <2>1, <2>2
    <3>2. e.id = <<l[2], m>> /\ s[1].id = <<k[2], n>>
      BY <1>1, <1>2, <3>1 DEF IsContracts
    <3>3. e = s[1] => l[2] = k[2] /\ m = n
      BY <3>2
    <3>4. l[2] = k[2] => l = k
      BY <1>1, <3>1 DEF IsContracts
    <3> QED
      BY <2>2, <3>1, <3>3, <3>4 DEF Holds
  <2>3. CASE l = k /\ m = n
    <3>1. i \in DOMAIN Tail(s) /\ e = Tail(s)[i]
      BY <1>3, <2>1, <2>3
    <3>2. i + 1 \in DOMAIN s /\ e = s[i + 1] /\ i + 1 # 1
      BY <1>2, <3>1
    <3>3. e # s[1]
      BY <1>1, <1>2, <3>2 DEF IsContracts
    <3> QED
      BY <1>1, <3>2, <3>3 DEF Holds
  <2> QED
    BY <2>2, <2>3
<1>9. ASSUME NEW e, Holds(map, e), e # s[1] PROVE Holds(rest, e)
  <2>1. PICK l, m, i :
            l \in DOMAIN map /\ m \in DOMAIN map[l] /\ i \in DOMAIN map[l][m] /\ e = map[l][m][i]
    BY <1>9 DEF Holds
  <2>2. CASE l # k \/ m # n
    BY <1>4, <2>1, <2>2 DEF Holds
  <2>3. CASE l = k /\ m = n
    <3>1. i \in DOMAIN s /\ i # 1
      BY <1>9, <2>1, <2>3
    <3>2. i - 1 \in DOMAIN Tail(s) /\ Tail(s)[i - 1] = e
      BY <1>2, <2>1, <2>3, <3>1
    <3>3. Len(s) > 1
      BY <1>2, <3>2
    <3> QED
      BY <1>5, <3>2, <3>3 DEF Holds
  <2> QED
    BY <2>2, <2>3
<1> QED
  BY <1>6, <1>7, <1>8, <1>9

(* remove_entry takes the first of a name's entries. *)
LEMMA RemoveEntryIsTaking ==
    ASSUME NEW c, NEW n \in DOMAIN c
    PROVE  /\ DOMAIN RemoveEntry(c, n) \subseteq DOMAIN c
           /\ \A m \in DOMAIN c : m # n => m \in DOMAIN RemoveEntry(c, n) /\ RemoveEntry(c, n)[m] = c[m]
           /\ IF Len(c[n]) <= 1 THEN n \notin DOMAIN RemoveEntry(c, n)
              ELSE n \in DOMAIN RemoveEntry(c, n) /\ RemoveEntry(c, n)[n] = Tail(c[n])
<1>1. CASE Len(c[n]) <= 1
  <2>1. RemoveEntry(c, n) = [m \in DOMAIN c \ {n} |-> c[m]]
    BY <1>1 DEF RemoveEntry, Without
  <2> QED
    BY <1>1, <2>1
<1>2. CASE ~(Len(c[n]) <= 1)
  <2>1. RemoveEntry(c, n) = [c EXCEPT ![n] = Tail(c[n])]
    BY <1>2 DEF RemoveEntry
  <2> QED
    BY <1>2, <2>1
<1> QED
  BY <1>1, <1>2

(* What is left of a file is put back. *)
LEMMA ReplacedIsTaking ==
    ASSUME NEW map, NEW key \in DOMAIN map, NEW n \in DOMAIN map[key], NEW c, NEW rest,
           c = RemoveEntry(map[key], n), rest = [map EXCEPT ![key] = c]
    PROVE  Taking(map, key, n, rest)
<1>1. /\ DOMAIN c \subseteq DOMAIN map[key]
      /\ \A m \in DOMAIN map[key] : m # n => m \in DOMAIN c /\ c[m] = map[key][m]
      /\ IF Len(map[key][n]) <= 1 THEN n \notin DOMAIN c
         ELSE n \in DOMAIN c /\ c[n] = Tail(map[key][n])
  BY RemoveEntryIsTaking
<1>2. DOMAIN rest = DOMAIN map /\ \A l \in DOMAIN map : rest[l] = IF l = key THEN c ELSE map[l]
  OBVIOUS
<1>3. \A l \in DOMAIN map : \A m \in DOMAIN map[l] :
         IF l = key /\ m = n
         THEN IF Len(map[key][n]) <= 1 THEN key \in DOMAIN rest => n \notin DOMAIN rest[key]
              ELSE key \in DOMAIN rest /\ n \in DOMAIN rest[key] /\ rest[key][n] = Tail(map[key][n])
         ELSE l \in DOMAIN rest /\ m \in DOMAIN rest[l] /\ rest[l][m] = map[l][m]
  <2> SUFFICES ASSUME NEW l \in DOMAIN map, NEW m \in DOMAIN map[l]
               PROVE  IF l = key /\ m = n
                      THEN IF Len(map[key][n]) <= 1 THEN n \notin DOMAIN c
                           ELSE n \in DOMAIN c /\ c[n] = Tail(map[key][n])
                      ELSE m \in DOMAIN rest[l] /\ rest[l][m] = map[l][m]
    BY <1>2
  <2>1. CASE l = key
    BY <1>1, <1>2, <2>1
  <2>2. CASE l # key
    BY <1>2, <2>2
  <2> QED
    BY <2>1, <2>2
<1>4. \A l \in DOMAIN rest : DOMAIN rest[l] \subseteq DOMAIN map[l]
  BY <1>1, <1>2
<1> QED
  BY <1>2, <1>3, <1>4 DEF Taking

LEMMA RemoveContractIsTaking ==
    ASSUME NEW map, NEW key \in DOMAIN map, NEW n \in DOMAIN map[key]
    PROVE  Taking(map, key, n, RemoveContract(map, key, n))
<1> PICK rest : rest = RemoveContract(map, key, n)
  OBVIOUS
<1> SUFFICES Taking(map, key, n, rest)
  OBVIOUS
<1>1. PICK c : c = RemoveEntry(map[key], n)
  OBVIOUS
<1>2. /\ \A m \in DOMAIN map[key] : m # n => m \in DOMAIN c
      /\ Len(map[key][n]) <= 1 \/ n \in DOMAIN c
  BY <1>1, RemoveEntryIsTaking
<1>3. CASE DOMAIN c = {}
  <2>1. rest = [l \in DOMAIN map \ {key} |-> map[l]]
    BY <1>1, <1>3 DEF RemoveContract, Without
  <2>2. DOMAIN rest = DOMAIN map \ {key} /\ \A l \in DOMAIN rest : rest[l] = map[l]
    BY <2>1
  <2>3. \A m \in DOMAIN map[key] : m = n /\ Len(map[key][n]) <= 1
    BY <1>2, <1>3
  <2> QED
    BY <2>2, <2>3 DEF Taking
<1>4. CASE DOMAIN c # {}
  <2>1. rest = [map EXCEPT ![key] = c]
    BY <1>1, <1>4 DEF RemoveContract
  <2> QED
    BY <1>1, <2>1, ReplacedIsTaking
<1> QED
  BY <1>3, <1>4

LEMMA RemoveArtifactIsTaking ==
    ASSUME NEW map, NEW key \in DOMAIN map, NEW n \in DOMAIN map[key]
    PROVE  Taking(map, key, n, RemoveArtifact(map, key, n))
<1> PICK c, rest : c = RemoveEntry(map[key], n) /\ rest = RemoveArtifact(map, key, n)
  OBVIOUS
<1>1. rest = [map EXCEPT ![key] = c]
  BY DEF RemoveArtifact
<1> QED
  BY <1>1, ReplacedIsTaking

(* A name is taken from the first file that has it. *)
LEMMA HolderIsFirst ==
    ASSUME NEW map, NEW n, Holder(map, n) # {}
    PROVE  \E k \in DOMAIN map : Holder(map, n) = {k} /\ n \in DOMAIN map[k]
<1> DEFINE with == {i \in DOMAIN KeyOrder : KeyOrder[i] \in DOMAIN map /\ n \in DOMAIN map[KeyOrder[i]]}
           low == {j \in with : \A h \in with : j <= h}
<1>1. Holder(map, n) = {KeyOrder[i] : i \in low}
  BY DEF Holder
<1>2. PICK i \in low : TRUE
  BY <1>1
<1>3. with \subseteq Nat
  <2>1. KeyOrder \in Seq({"abs", "rel"} \X PathSet)
    <3>1. PathOrder \in Seq(PathSet)
      BY PathsAreOrdered DEF PathSet
    <3>2. \A j \in DOMAIN PathOrder : PathOrder[j] \in PathSet
      BY <3>1
    <3>3. \A w \in {"abs", "rel"} :
              [j \in DOMAIN PathOrder |-> <<w, PathOrder[j]>>] \in Seq({"abs", "rel"} \X PathSet)
      BY <3>1, <3>2
    <3> QED
      BY <3>3 DEF KeyOrder
  <2> QED
    BY <2>1
<1>4. \A j \in low : j = i
  BY <1>2, <1>3
<1>5. Holder(map, n) = {KeyOrder[i]}
  <2> HIDE DEF low
  <2> QED
    BY <1>1, <1>2, <1>4
<1> QED
  BY <1>2, <1>5

LEMMA RemoveFirstIsTaking ==
    ASSUME NEW map, NEW n, Holder(map, n) # {}
    PROVE  \E k \in DOMAIN map :
               /\ Taking(map, k, n, RemoveFirstNamed(map, n))
               /\ TakenFirst(map, n) = map[k][n][1]
<1>1. PICK k \in DOMAIN map : Holder(map, n) = {k} /\ n \in DOMAIN map[k]
  BY HolderIsFirst
<1>2. TakenFirst(map, n) = map[k][n][1]
  <2>1. (CHOOSE l \in {k} : TRUE) = k
    OBVIOUS
  <2> QED
    BY <1>1, <2>1 DEF TakenFirst
<1> PICK rest : rest = RemoveFirstNamed(map, n)
  OBVIOUS
<1>3. PICK c : c = RemoveEntry(map[k], n)
  OBVIOUS
<1>4. DOMAIN rest = DOMAIN map /\ \A l \in DOMAIN map : rest[l] = IF l = k THEN c ELSE map[l]
  BY <1>1, <1>3 DEF RemoveFirstNamed
<1>5. /\ DOMAIN c \subseteq DOMAIN map[k]
      /\ \A m \in DOMAIN map[k] : m # n => m \in DOMAIN c /\ c[m] = map[k][m]
      /\ IF Len(map[k][n]) <= 1 THEN n \notin DOMAIN c
         ELSE n \in DOMAIN c /\ c[n] = Tail(map[k][n])
  BY <1>1, <1>3, RemoveEntryIsTaking
<1>6. Taking(map, k, n, rest)
  BY <1>1, <1>4, <1>5 DEF Taking
<1> QED
  BY <1>2, <1>6

(* Nothing taken: a file without names may go. *)
Keeping(map, rest) ==
    /\ DOMAIN rest \subseteq DOMAIN map
    /\ \A l \in DOMAIN rest : rest[l] = map[l]
    /\ \A l \in DOMAIN map \ DOMAIN rest : DOMAIN map[l] = {}

LEMMA KeepingIsSound ==
    ASSUME NEW map, NEW ids, IsContracts(map, ids), NEW rest, Keeping(map, rest)
    PROVE  IsContracts(rest, ids) /\ \A e : Holds(rest, e) <=> Holds(map, e)
<1>1. IsContracts(rest, ids)
  BY DEF Keeping, IsContracts
<1>2. ASSUME NEW e PROVE Holds(rest, e) <=> Holds(map, e)
  BY DEF Keeping, Holds
<1> QED
  BY <1>1, <1>2

LEMMA NothingRemoved ==
    ASSUME NEW map, NEW key, NEW n, key \in DOMAIN map => n \notin DOMAIN map[key]
    PROVE  Keeping(map, RemoveContract(map, key, n))
<1>1. CASE key \notin DOMAIN map
  BY <1>1 DEF Keeping, RemoveContract
<1>2. CASE key \in DOMAIN map
  <2>1. RemoveEntry(map[key], n) = map[key]
    BY <1>2 DEF RemoveEntry
  <2> PICK rest : rest = RemoveContract(map, key, n)
    OBVIOUS
  <2>2. CASE DOMAIN map[key] = {}
    <3>1. rest = [l \in DOMAIN map \ {key} |-> map[l]]
      BY <1>2, <2>1, <2>2 DEF RemoveContract, Without
    <3>2. DOMAIN rest = DOMAIN map \ {key} /\ \A l \in DOMAIN rest : rest[l] = map[l]
      BY <3>1
    <3> QED
      BY <2>2, <3>2 DEF Keeping
  <2>3. CASE DOMAIN map[key] # {}
    <3>1. rest = [map EXCEPT ![key] = map[key]]
      BY <1>2, <2>1, <2>3 DEF RemoveContract
    <3>2. DOMAIN rest = DOMAIN map /\ \A l \in DOMAIN map : rest[l] = map[l]
      BY <3>1
    <3> QED
      BY <3>2 DEF Keeping
  <2> QED
    BY <2>2, <2>3
<1> QED
  BY <1>1, <1>2

LEMMA NoArtifactRemoved ==
    ASSUME NEW map, NEW key, NEW n, key \in DOMAIN map => n \notin DOMAIN map[key]
    PROVE  Keeping(map, RemoveArtifact(map, key, n))
<1>1. CASE key \notin DOMAIN map
  BY <1>1 DEF Keeping, RemoveArtifact
<1>2. CASE key \in DOMAIN map
  <2>1. RemoveEntry(map[key], n) = map[key]
    BY <1>2 DEF RemoveEntry
  <2> PICK rest : rest = RemoveArtifact(map, key, n)
    OBVIOUS
  <2>2. rest = [map EXCEPT ![key] = map[key]]
    BY <1>2, <2>1 DEF RemoveArtifact
  <2>3. DOMAIN rest = DOMAIN map /\ \A l \in DOMAIN map : rest[l] = map[l]
    BY <2>2
  <2> QED
    BY <2>3 DEF Keeping
<1> QED
  BY <1>1, <1>2

LEMMA NothingFirst ==
    ASSUME NEW map, NEW n, Holder(map, n) = {}
    PROVE  Keeping(map, RemoveFirstNamed(map, n)) /\ TakenFirst(map, n) = NothingFound
  BY DEF Keeping, RemoveFirstNamed, TakenFirst

LEMMA JobsAre ==
    ASSUME NEW job \in AllJobs, NEW c \in job.contracts
    PROVE  c = <<c[1], c[2]>> /\ Entry(job, c) # NothingFound
  BY JobsHaveIds DEF AllJobs, BuildJobs

LEMMA EntriesExist == NothingFound \notin AllEntries
  BY JobsAre DEF AllEntries, EntriesOf, Retained

(* What is returned is one of the entries, and all that goes. *)
LEMMA GotIsSound ==
    ASSUME NEW map, NEW ids, NEW i, NEW rest, NEW got,
           IsContracts(map, ids),
           rest = ContractsLeft(map, i) \/ rest = ArtifactsLeft(map, i),
           got = Got(map, i)
    PROVE  /\ IsContracts(rest, ids)
           /\ \/ got = NothingFound /\ \A e : Holds(rest, e) <=> Holds(map, e)
              \/ /\ got # NothingFound /\ Holds(map, got)
                 /\ \A e : Holds(rest, e) <=> Holds(map, e) /\ e # got
<1> PICK key, n : key = i.path /\ n = i.name
  OBVIOUS
<1>1. ASSUME got = NothingFound, Keeping(map, rest)
      PROVE  IsContracts(rest, ids) /\ \A e : Holds(rest, e) <=> Holds(map, e)
  BY <1>1, KeepingIsSound
<1>2. ASSUME NEW k, Taking(map, k, n, rest), got = map[k][n][1]
      PROVE  /\ IsContracts(rest, ids)
             /\ got # NothingFound /\ Holds(map, got)
             /\ \A e : Holds(rest, e) <=> Holds(map, e) /\ e # got
  <2>1. /\ IsContracts(rest, ids)
        /\ Holds(map, got)
        /\ \A e : Holds(rest, e) <=> Holds(map, e) /\ e # got
    BY <1>2, TakingIsSound
  <2>2. got \in AllEntries
    BY <2>1 DEF Holds, IsContracts
  <2> QED
    BY <2>1, <2>2, EntriesExist
<1>3. CASE key = NothingFound
  <2>1. got = TakenFirst(map, n) /\ rest = RemoveFirstNamed(map, n)
    BY <1>3 DEF Got, ContractsLeft, ArtifactsLeft
  <2>2. CASE Holder(map, n) = {}
    BY <1>1, <2>1, <2>2, NothingFirst
  <2>3. CASE Holder(map, n) # {}
    BY <1>2, <2>1, <2>3, RemoveFirstIsTaking
  <2> QED
    BY <2>2, <2>3
<1>4. CASE key # NothingFound
  <2>1. /\ got = Get(map, key, n)
        /\ rest = RemoveContract(map, key, n) \/ rest = RemoveArtifact(map, key, n)
    BY <1>4 DEF Got, ContractsLeft, ArtifactsLeft
  <2>2. CASE key \in DOMAIN map /\ n \in DOMAIN map[key]
    <3>1. map[key][n] # <<>>
      BY <2>2 DEF IsContracts
    <3>2. got = map[key][n][1]
      BY <2>1, <2>2, <3>1 DEF Get
    <3> QED
      BY <1>2, <2>1, <2>2, <3>2, RemoveContractIsTaking, RemoveArtifactIsTaking
  <2>3. CASE ~(key \in DOMAIN map /\ n \in DOMAIN map[key])
    <3>1. got = NothingFound
      BY <2>1, <2>3 DEF Get
    <3> QED
      BY <1>1, <2>1, <2>3, <3>1, NothingRemoved, NoArtifactRemoved
  <2> QED
    BY <2>2, <2>3
<1> QED
  BY <1>3, <1>4

(* A file's root does not tell files apart. *)
LEMMA StrippedIsSound ==
    ASSUME NEW map, NEW ids, IsContracts(map, ids)
    PROVE  /\ IsContracts(Stripped(map), ids)
           /\ \A e : Holds(Stripped(map), e) <=> Holds(map, e)
<1> PICK short : short = Stripped(map)
  OBVIOUS
<1>1. \A o : StripRoot(o)[2] = o[2] /\ StripRoot(o) = <<StripRoot(o)[1], StripRoot(o)[2]>>
  BY DEF StripRoot, Relative
<1>2. \A o, p : o[2] = p[2] => StripRoot(o) = StripRoot(p)
  BY DEF StripRoot, Relative
<1>3. DOMAIN short = {StripRoot(o) : o \in DOMAIN map}
  BY DEF Stripped
<1>4. ASSUME NEW o \in DOMAIN map
      PROVE  StripRoot(o) \in DOMAIN short /\ short[StripRoot(o)] = map[o]
  <2>1. \A p \in DOMAIN map : StripRoot(p) = StripRoot(o) => p = o
    BY <1>1 DEF IsContracts
  <2>2. (CHOOSE p \in DOMAIN map : StripRoot(p) = StripRoot(o)) = o
    BY <2>1
  <2>3. StripRoot(o) \in {StripRoot(p) : p \in DOMAIN map}
    OBVIOUS
  <2>4. short[StripRoot(o)] = map[CHOOSE p \in DOMAIN map : StripRoot(p) = StripRoot(o)]
    BY <2>3 DEF Stripped
  <2> QED
    BY <1>3, <2>2, <2>3, <2>4
<1>5. \A k \in DOMAIN short : \E o \in DOMAIN map : k = StripRoot(o) /\ k[2] = o[2] /\ short[k] = map[o]
  BY <1>1, <1>3, <1>4
<1>6. IsContracts(short, ids)
  <2>1. \A k \in DOMAIN short : k = <<k[1], k[2]>>
    BY <1>1, <1>5
  <2>2. \A k, l \in DOMAIN short : k[2] = l[2] => k = l
    BY <1>2, <1>5
  <2>3. ASSUME NEW k \in DOMAIN short, NEW n \in DOMAIN short[k]
        PROVE  /\ short[k][n] \in Seq(AllEntries) /\ short[k][n] # <<>>
               /\ \A i \in DOMAIN short[k][n] :
                     short[k][n][i].id = <<k[2], n>> /\ short[k][n][i].build \in ids
               /\ \A i, j \in DOMAIN short[k][n] : short[k][n][i].build = short[k][n][j].build => i = j
    <3>1. PICK o \in DOMAIN map : k[2] = o[2] /\ short[k] = map[o]
      BY <1>5
    <3> QED
      BY <2>3, <3>1 DEF IsContracts
  <2> QED
    BY <2>1, <2>2, <2>3 DEF IsContracts
<1>7. ASSUME NEW e PROVE Holds(short, e) <=> Holds(map, e)
  <2>1. Holds(short, e) => Holds(map, e)
    BY <1>5 DEF Holds
  <2>2. ASSUME Holds(map, e) PROVE Holds(short, e)
    <3>1. PICK o \in DOMAIN map : \E n \in DOMAIN map[o] : \E i \in DOMAIN map[o][n] : e = map[o][n][i]
      BY <2>2 DEF Holds
    <3>2. StripRoot(o) \in DOMAIN short /\ short[StripRoot(o)] = map[o]
      BY <1>4
    <3> PICK k : k = StripRoot(o)
      OBVIOUS
    <3> QED
      BY <3>1, <3>2 DEF Holds
  <2> QED
    BY <2>1, <2>2
<1> QED
  BY <1>6, <1>7

(* The keys join_all makes. *)
Absolute(map) == \A k \in DOMAIN map : k = <<"abs", k[2]>>

LEMMA RetainedArePairs ==
    ASSUME NEW job \in AllJobs, NEW c \in Retained(job)
    PROVE  c = <<c[1], c[2]>>
  BY JobsAre DEF Retained

(* One file and name gets the job's entry at the end, the others stay. *)
LEMMA ExtendedIs ==
    ASSUME NEW map, Absolute(map), NEW job \in AllJobs
    PROVE  LET longer == Extended(map, job) IN
           /\ Absolute(longer)
           /\ DOMAIN map \subseteq DOMAIN longer
           /\ \A k \in DOMAIN map : DOMAIN map[k] \subseteq DOMAIN longer[k]
           /\ \A c \in Retained(job) :
                 <<"abs", c[1]>> \in DOMAIN longer /\ c[2] \in DOMAIN longer[<<"abs", c[1]>>]
           /\ \A k \in DOMAIN longer : \A n \in DOMAIN longer[k] :
                 IF <<k[2], n>> \in Retained(job)
                 THEN longer[k][n] =
                        IF k \in DOMAIN map /\ n \in DOMAIN map[k]
                        THEN Append(map[k][n], Entry(job, <<k[2], n>>))
                        ELSE Append(<<>>, Entry(job, <<k[2], n>>))
                 ELSE k \in DOMAIN map /\ n \in DOMAIN map[k] /\ longer[k][n] = map[k][n]
<1> DEFINE new(k) == {c \in Retained(job) : <<"abs", c[1]>> = k}
           names(k) == {c[2] : c \in new(k)}
           old(k) == IF k \in DOMAIN map THEN map[k] ELSE <<>>
           keys == DOMAIN map \cup {<<"abs", c[1]>> : c \in Retained(job)}
<1> PICK longer : longer = Extended(map, job)
  OBVIOUS
<1>1. longer = [k \in keys |->
                   [n \in DOMAIN old(k) \cup names(k) |->
                       IF \E c \in new(k) : c[2] = n
                       THEN Append(IF n \in DOMAIN old(k) THEN old(k)[n] ELSE <<>>,
                                   Entry(job, CHOOSE c \in new(k) : c[2] = n))
                       ELSE old(k)[n]]]
  BY DEF Extended, JoinRoot, Relative, At, Pushed
<1>2. DOMAIN longer = keys
  BY <1>1
<1>3. ASSUME NEW k \in keys
      PROVE  /\ DOMAIN longer[k] = DOMAIN old(k) \cup names(k)
             /\ \A n \in DOMAIN longer[k] :
                   longer[k][n] = IF \E c \in new(k) : c[2] = n
                                  THEN Append(IF n \in DOMAIN old(k) THEN old(k)[n] ELSE <<>>,
                                              Entry(job, CHOOSE c \in new(k) : c[2] = n))
                                  ELSE old(k)[n]
  <2> HIDE DEF new, names, old, keys
  <2> QED
    BY <1>1, <1>3
<1>4. ASSUME NEW k \in keys PROVE k = <<"abs", k[2]>>
  BY <1>4 DEF Absolute
<1>5. ASSUME NEW k \in keys, NEW n
      PROVE  \A c : c \in new(k) /\ c[2] = n <=> c = <<k[2], n>> /\ <<k[2], n>> \in Retained(job)
  <2>1. k = <<"abs", k[2]>>
    BY <1>4
  <2>2. ASSUME NEW c, c \in new(k), c[2] = n PROVE c = <<k[2], n>> /\ c \in Retained(job)
    <3>1. c \in Retained(job) /\ c = <<c[1], c[2]>> /\ <<"abs", c[1]>> = k
      BY <2>2, RetainedArePairs
    <3> QED
      BY <2>1, <2>2, <3>1
  <2>3. ASSUME <<k[2], n>> \in Retained(job) PROVE <<k[2], n>> \in new(k)
    BY <2>1, <2>3
  <2> QED
    BY <2>2, <2>3
<1>6. ASSUME NEW k \in keys, NEW n
      PROVE  /\ (\E c \in new(k) : c[2] = n) <=> <<k[2], n>> \in Retained(job)
             /\ <<k[2], n>> \in Retained(job) => (CHOOSE c \in new(k) : c[2] = n) = <<k[2], n>>
  <2> HIDE DEF new
  <2> QED
    BY <1>5, <1>6
<1>7. ASSUME NEW k \in DOMAIN longer, NEW n \in DOMAIN longer[k]
      PROVE  IF <<k[2], n>> \in Retained(job)
             THEN longer[k][n] =
                    IF k \in DOMAIN map /\ n \in DOMAIN map[k]
                    THEN Append(map[k][n], Entry(job, <<k[2], n>>))
                    ELSE Append(<<>>, Entry(job, <<k[2], n>>))
             ELSE k \in DOMAIN map /\ n \in DOMAIN map[k] /\ longer[k][n] = map[k][n]
  <2>1. k \in keys
    BY <1>2, <1>7
  <2>2. /\ n \in DOMAIN old(k) \cup names(k)
        /\ longer[k][n] = IF \E c \in new(k) : c[2] = n
                          THEN Append(IF n \in DOMAIN old(k) THEN old(k)[n] ELSE <<>>,
                                      Entry(job, CHOOSE c \in new(k) : c[2] = n))
                          ELSE old(k)[n]
    BY <1>3, <1>7, <2>1
  <2>3. n \in names(k) => \E c \in new(k) : c[2] = n
    OBVIOUS
  <2>4. /\ n \in DOMAIN old(k) <=> k \in DOMAIN map /\ n \in DOMAIN map[k]
        /\ k \in DOMAIN map => old(k) = map[k]
    OBVIOUS
  <2> HIDE DEF new, names, old, keys
  <2>5. CASE <<k[2], n>> \in Retained(job)
    BY <1>6, <2>1, <2>2, <2>4, <2>5
  <2>6. CASE <<k[2], n>> \notin Retained(job)
    BY <1>6, <2>1, <2>2, <2>3, <2>4, <2>6
  <2> QED
    BY <2>5, <2>6
<1>8. Absolute(longer)
  BY <1>2, <1>4 DEF Absolute
<1>9. DOMAIN map \subseteq DOMAIN longer /\ \A k \in DOMAIN map : DOMAIN map[k] \subseteq DOMAIN longer[k]
  BY <1>2, <1>3
<1>10. ASSUME NEW c \in Retained(job)
       PROVE  <<"abs", c[1]>> \in DOMAIN longer /\ c[2] \in DOMAIN longer[<<"abs", c[1]>>]
  <2>1. <<"abs", c[1]>> \in keys /\ c[2] \in names(<<"abs", c[1]>>)
    OBVIOUS
  <2> QED
    BY <1>2, <1>3, <2>1
<1> QED
  BY <1>7, <1>8, <1>9, <1>10

(* A list that gets one more entry, of a build it has none of. *)
LEMMA OneMore ==
    ASSUME NEW s \in Seq(AllEntries), NEW e \in AllEntries
    PROVE  /\ Append(s, e) \in Seq(AllEntries) /\ Append(s, e) # <<>>
           /\ DOMAIN s \subseteq DOMAIN Append(s, e)
           /\ \A i \in DOMAIN s : Append(s, e)[i] = s[i]
           /\ \E added \in DOMAIN Append(s, e) :
                 /\ Append(s, e)[added] = e
                 /\ \A i \in DOMAIN Append(s, e) : i = added \/ i \in DOMAIN s
<1>1. Len(s) \in Nat /\ DOMAIN s = 1 .. Len(s) /\ DOMAIN Append(s, e) = 1 .. (Len(s) + 1)
  OBVIOUS
<1>2. Append(s, e)[Len(s) + 1] = e /\ \A i \in DOMAIN s : Append(s, e)[i] = s[i]
  BY <1>1
<1>3. Len(s) + 1 \in DOMAIN Append(s, e)
  BY <1>1
<1>4. \A i \in DOMAIN Append(s, e) : i = Len(s) + 1 \/ i \in DOMAIN s
  BY <1>1
<1>5. Append(s, e) \in Seq(AllEntries) /\ Append(s, e) # <<>>
  BY <1>3
<1> QED
  BY <1>1, <1>2, <1>3, <1>4, <1>5

(* The job's entries join the ones that were held. *)
LEMMA ExtendedIsSound ==
    ASSUME NEW map, NEW ids, IsContracts(map, ids), Absolute(map),
           NEW job \in AllJobs, job.id \notin ids
    PROVE  /\ IsContracts(Extended(map, job), ids \cup {job.id})
           /\ Absolute(Extended(map, job))
           /\ \A e : Holds(Extended(map, job), e) <=> Holds(map, e) \/ e \in EntriesOf(job)
<1> PICK longer : longer = Extended(map, job)
  OBVIOUS
<1> PICK more : more = ids \cup {job.id}
  OBVIOUS
<1> DEFINE entry(k, n) == Entry(job, <<k[2], n>>)
           before(k, n) == IF k \in DOMAIN map /\ n \in DOMAIN map[k] THEN map[k][n] ELSE <<>>
<1>1. /\ Absolute(longer)
      /\ DOMAIN map \subseteq DOMAIN longer
      /\ \A k \in DOMAIN map : DOMAIN map[k] \subseteq DOMAIN longer[k]
      /\ \A c \in Retained(job) :
            <<"abs", c[1]>> \in DOMAIN longer /\ c[2] \in DOMAIN longer[<<"abs", c[1]>>]
  BY ExtendedIs
<1>2. ASSUME NEW k \in DOMAIN longer, NEW n \in DOMAIN longer[k]
      PROVE  IF <<k[2], n>> \in Retained(job)
             THEN longer[k][n] = Append(before(k, n), entry(k, n))
             ELSE k \in DOMAIN map /\ n \in DOMAIN map[k] /\ longer[k][n] = map[k][n]
  <2>1. IF <<k[2], n>> \in Retained(job)
        THEN longer[k][n] =
               IF k \in DOMAIN map /\ n \in DOMAIN map[k]
               THEN Append(map[k][n], Entry(job, <<k[2], n>>))
               ELSE Append(<<>>, Entry(job, <<k[2], n>>))
        ELSE k \in DOMAIN map /\ n \in DOMAIN map[k] /\ longer[k][n] = map[k][n]
    BY <1>2, ExtendedIs
  <2>2. CASE k \in DOMAIN map /\ n \in DOMAIN map[k]
    <3>1. before(k, n) = map[k][n]
      BY <2>2
    <3> HIDE DEF before
    <3> QED
      BY <2>1, <2>2, <3>1
  <2>3. CASE ~(k \in DOMAIN map /\ n \in DOMAIN map[k])
    <3>1. before(k, n) = <<>>
      BY <2>3
    <3> HIDE DEF before
    <3> QED
      BY <2>1, <2>3, <3>1
  <2> QED
    BY <2>2, <2>3
<1>3. ASSUME NEW k, NEW n
      PROVE  /\ before(k, n) \in Seq(AllEntries)
             /\ \A i \in DOMAIN before(k, n) :
                   /\ k \in DOMAIN map /\ n \in DOMAIN map[k] /\ before(k, n) = map[k][n]
                   /\ before(k, n)[i].id = <<k[2], n>> /\ before(k, n)[i].build \in ids
             /\ \A i, j \in DOMAIN before(k, n) : before(k, n)[i].build = before(k, n)[j].build => i = j
  BY DEF IsContracts
<1>4. ASSUME NEW k, NEW n, <<k[2], n>> \in Retained(job)
      PROVE  /\ entry(k, n) \in AllEntries /\ entry(k, n) \in EntriesOf(job)
             /\ entry(k, n).id = <<k[2], n>> /\ entry(k, n).build = job.id
  BY <1>4 DEF AllEntries, EntriesOf, Entry
<1> HIDE DEF entry, before
<1>5. ASSUME NEW k \in DOMAIN longer, NEW n \in DOMAIN longer[k], <<k[2], n>> \in Retained(job)
      PROVE  /\ longer[k][n] \in Seq(AllEntries) /\ longer[k][n] # <<>>
             /\ DOMAIN before(k, n) \subseteq DOMAIN longer[k][n]
             /\ \A i \in DOMAIN before(k, n) : longer[k][n][i] = before(k, n)[i]
             /\ \E added \in DOMAIN longer[k][n] :
                   /\ longer[k][n][added] = entry(k, n)
                   /\ \A i \in DOMAIN longer[k][n] : i = added \/ i \in DOMAIN before(k, n)
  <2>1. longer[k][n] = Append(before(k, n), entry(k, n))
    BY <1>2, <1>5
  <2>2. before(k, n) \in Seq(AllEntries) /\ entry(k, n) \in AllEntries
    BY <1>3, <1>4, <1>5
  <2> QED
    BY <2>1, <2>2, OneMore
<1>6. ASSUME NEW k \in DOMAIN longer, NEW n \in DOMAIN longer[k]
      PROVE  /\ longer[k][n] \in Seq(AllEntries) /\ longer[k][n] # <<>>
             /\ \A i \in DOMAIN longer[k][n] :
                   longer[k][n][i].id = <<k[2], n>> /\ longer[k][n][i].build \in more
             /\ \A i, j \in DOMAIN longer[k][n] : longer[k][n][i].build = longer[k][n][j].build => i = j
  <2>1. CASE <<k[2], n>> \notin Retained(job)
    <3>1. k \in DOMAIN map /\ n \in DOMAIN map[k] /\ longer[k][n] = map[k][n]
      BY <1>2, <1>6, <2>1
    <3> QED
      BY <3>1 DEF IsContracts
  <2>2. CASE <<k[2], n>> \in Retained(job)
    <3> PICK added \in DOMAIN longer[k][n] :
           /\ longer[k][n][added] = entry(k, n)
           /\ \A i \in DOMAIN longer[k][n] : i = added \/ i \in DOMAIN before(k, n)
      BY <1>5, <1>6, <2>2
    <3>1. longer[k][n] \in Seq(AllEntries) /\ longer[k][n] # <<>>
      BY <1>5, <1>6, <2>2
    <3>2. longer[k][n][added].id = <<k[2], n>> /\ longer[k][n][added].build = job.id
      BY <1>4, <2>2
    <3>3. ASSUME NEW i \in DOMAIN longer[k][n], i # added
          PROVE  /\ i \in DOMAIN before(k, n)
                 /\ longer[k][n][i] = before(k, n)[i]
                 /\ longer[k][n][i].id = <<k[2], n>> /\ longer[k][n][i].build \in ids
      BY <1>3, <1>5, <1>6, <2>2, <3>3
    <3>4. ASSUME NEW i \in DOMAIN longer[k][n]
          PROVE  longer[k][n][i].id = <<k[2], n>> /\ longer[k][n][i].build \in more
      BY <3>2, <3>3, <3>4
    <3>5. ASSUME NEW i \in DOMAIN longer[k][n], NEW j \in DOMAIN longer[k][n],
                 longer[k][n][i].build = longer[k][n][j].build
          PROVE  i = j
      <4>1. CASE i = added \/ j = added
        BY <3>2, <3>3, <3>5, <4>1
      <4>2. CASE i # added /\ j # added
        BY <1>3, <3>3, <3>5, <4>2
      <4> QED
        BY <4>1, <4>2
    <3> QED
      BY <3>1, <3>4, <3>5
  <2> QED
    BY <2>1, <2>2
<1>7. IsContracts(longer, more)
  <2>1. /\ \A k \in DOMAIN longer : k = <<k[1], k[2]>>
        /\ \A k, l \in DOMAIN longer : k[2] = l[2] => k = l
    BY <1>1 DEF Absolute
  <2> QED
    BY <1>6, <2>1 DEF IsContracts
<1>8. ASSUME NEW e, Holds(longer, e) PROVE Holds(map, e) \/ e \in EntriesOf(job)
  <2>1. PICK k, n, i :
            k \in DOMAIN longer /\ n \in DOMAIN longer[k] /\ i \in DOMAIN longer[k][n] /\ e = longer[k][n][i]
    BY <1>8 DEF Holds
  <2>2. CASE <<k[2], n>> \notin Retained(job)
    BY <1>2, <2>1, <2>2 DEF Holds
  <2>3. CASE <<k[2], n>> \in Retained(job)
    <3>1. e = entry(k, n) \/ (i \in DOMAIN before(k, n) /\ e = before(k, n)[i])
      BY <1>5, <2>1, <2>3
    <3>2. e = entry(k, n) => e \in EntriesOf(job)
      BY <1>4, <2>3
    <3>3. i \in DOMAIN before(k, n) /\ e = before(k, n)[i] => Holds(map, e)
      BY <1>3 DEF Holds
    <3> QED
      BY <3>1, <3>2, <3>3
  <2> QED
    BY <2>2, <2>3
<1>9. ASSUME NEW e, Holds(map, e) PROVE Holds(longer, e)
  <2>1. PICK k, n, i :
            k \in DOMAIN map /\ n \in DOMAIN map[k] /\ i \in DOMAIN map[k][n] /\ e = map[k][n][i]
    BY <1>9 DEF Holds
  <2>2. k \in DOMAIN longer /\ n \in DOMAIN longer[k] /\ before(k, n) = map[k][n]
    BY <1>1, <2>1 DEF before
  <2>3. n \in DOMAIN longer[k]
    BY <1>1, <2>1
  <2>4. CASE <<k[2], n>> \in Retained(job)
    <3>1. i \in DOMAIN longer[k][n] /\ longer[k][n][i] = e
      BY <1>5, <2>1, <2>2, <2>3, <2>4
    <3> QED
      BY <2>2, <2>3, <3>1 DEF Holds
  <2>5. CASE <<k[2], n>> \notin Retained(job)
    <3>1. i \in DOMAIN longer[k][n] /\ longer[k][n][i] = e
      BY <1>2, <2>1, <2>2, <2>3, <2>5
    <3> QED
      BY <2>2, <2>3, <3>1 DEF Holds
  <2> QED
    BY <2>4, <2>5
<1>10. ASSUME NEW e, e \in EntriesOf(job) PROVE Holds(longer, e)
  <2>1. PICK c \in Retained(job) : e = Entry(job, c)
    BY <1>10 DEF EntriesOf
  <2>2. PICK k : k = <<"abs", c[1]>>
    OBVIOUS
  <2>3. k \in DOMAIN longer /\ c[2] \in DOMAIN longer[k] /\ <<k[2], c[2]>> = c
    BY <1>1, <2>2, RetainedArePairs
  <2>4. entry(k, c[2]) = e
    BY <2>1, <2>3 DEF entry
  <2> QED
    BY <1>5, <2>3, <2>4 DEF Holds
<1> QED
  BY <1>1, <1>7, <1>8, <1>9, <1>10

(* What the jobs whose build is in the output compiled. *)
CompiledBy(ids) ==
    UNION {EntriesOf(j) : j \in {k \in BuildJobs : k.id \in ids}}

(* A map of the builds' entries that accounts for some of them. *)
Keeps(map, ids, gone, entries) == IsContracts(map, ids) /\ AccountedIn(map, gone, entries)

(* While jobs are left the files are named absolutely and nothing was taken; the jobs left have
   ids of their own. *)
ContractsInv ==
    /\ todo \in Seq(BuildJobs)
    /\ \A i, j \in DOMAIN todo : todo[i].id = todo[j].id => i = j
    /\ \A i \in DOMAIN todo : todo[i].id \notin ToSet(infos)
    /\ infos \in Seq(ToSet(infos))
    /\ todo # <<>> => Absolute(contracts) /\ taken = {} /\ handed = {}
    /\ Keeps(contracts, ToSet(infos), taken, CompiledBy(ToSet(infos)))
    /\ todo = <<>> => Keeps(compiled, ToSet(infos), handed, CompiledBy(ToSet(infos)))
    /\ Keeps(stored, {older.id}, reused, EntriesOf(older))

LEMMA ContractsGiveAccounted == ContractsInv => Accounted
  BY DEF ContractsInv, Accounted, Keeps, CompiledByJobs, CompiledBy, BuildJobs

LEMMA HeldOrTaken ==
    ASSUME NEW map, NEW ids, NEW gone, NEW entries, IsContracts(map, ids)
    PROVE  Keeps(map, ids, gone, entries) <=>
               /\ \A e : e \in entries <=> Holds(map, e) \/ e \in gone
               /\ \A e \in gone : ~Holds(map, e)
<1> PICK held : held = {EntryAt(map, p) : p \in Places(map)}
  OBVIOUS
<1>1. \A e : e \in held <=> Holds(map, e)
  BY HeldAtPlaces
<1>2. \A p, q \in Places(map) : EntryAt(map, p) = EntryAt(map, q) => p = q
  BY PlacesDiffer
<1>3. Keeps(map, ids, gone, entries) <=> held \cup gone = entries /\ held \cap gone = {}
  BY <1>2 DEF Keeps, AccountedIn
<1>4. held \cup gone = entries <=> \A e : e \in entries <=> e \in held \/ e \in gone
  OBVIOUS
<1>5. held \cap gone = {} <=> \A e \in gone : e \notin held
  OBVIOUS
<1> QED
  BY <1>1, <1>3, <1>4, <1>5

(* An empty map accounts for nothing. *)
LEMMA NothingKept ==
    ASSUME NEW map, NEW ids, NEW gone, NEW entries, DOMAIN map = {}, gone = {}, entries = {}
    PROVE  Keeps(map, ids, gone, entries)
<1>1. IsContracts(map, ids) /\ \A e : ~Holds(map, e)
  BY DEF IsContracts, Holds
<1> QED
  BY <1>1, HeldOrTaken

(* The invariant of the next state, said of its variables. *)
LEMMA PrimedOfContracts ==
    /\ Keeps(contracts, ToSet(infos), taken, CompiledBy(ToSet(infos)))'
          <=> Keeps(contracts', ToSet(infos'), taken', CompiledBy(ToSet(infos')))
    /\ Keeps(compiled, ToSet(infos), handed, CompiledBy(ToSet(infos)))'
          <=> Keeps(compiled', ToSet(infos'), handed', CompiledBy(ToSet(infos')))
    /\ Keeps(stored, {older.id}, reused, EntriesOf(older))'
          <=> Keeps(stored', {older'.id}, reused', EntriesOf(older'))
    /\ Absolute(contracts)' <=> Absolute(contracts')
<1>1. Keeps(contracts, ToSet(infos), taken, CompiledBy(ToSet(infos)))'
          <=> Keeps(contracts', ToSet(infos'), taken', CompiledBy(ToSet(infos')))
  BY DEF Keeps, IsContracts, AccountedIn, Places, EntryAt, ToSet, CompiledBy, BuildJobs,
         AllEntries, AllJobs, EntriesOf, Retained, Entry
<1>2. Keeps(compiled, ToSet(infos), handed, CompiledBy(ToSet(infos)))'
          <=> Keeps(compiled', ToSet(infos'), handed', CompiledBy(ToSet(infos')))
  BY DEF Keeps, IsContracts, AccountedIn, Places, EntryAt, ToSet, CompiledBy, BuildJobs,
         AllEntries, AllJobs, EntriesOf, Retained, Entry
<1>3. Keeps(stored, {older.id}, reused, EntriesOf(older))'
          <=> Keeps(stored', {older'.id}, reused', EntriesOf(older'))
  BY DEF Keeps, IsContracts, AccountedIn, Places, EntryAt, ToSet, BuildJobs,
         AllEntries, AllJobs, EntriesOf, Retained, Entry
<1>4. Absolute(contracts)' <=> Absolute(contracts')
  BY DEF Absolute
<1> QED
  BY <1>1, <1>2, <1>3, <1>4

LEMMA ContractsStart == OutputInit => ContractsInv
<1> SUFFICES ASSUME OutputInit
             PROVE  ContractsInv
  OBVIOUS
<1>1. todo \in Seq(BuildJobs)
  BY JobsReportDiagnostics DEF OutputInit, BuildJobs
<1>2. \A i, j \in DOMAIN todo : todo[i].id = todo[j].id => i = j
  BY JobsHaveIds DEF OutputInit
<1>3. /\ infos = <<>> /\ contracts = <<>> /\ compiled = <<>> /\ taken = {} /\ handed = {}
      /\ older \in OlderJobs /\ stored = Extended(<<>>, older) /\ reused = {}
  BY DEF OutputInit
<1>4. ToSet(infos) = {} /\ infos \in Seq(ToSet(infos))
  BY <1>3 DEF ToSet
<1>5. DOMAIN contracts = {} /\ DOMAIN compiled = {}
  BY <1>3
<1>6. CompiledBy(ToSet(infos)) = {}
  BY <1>4 DEF CompiledBy
<1>7. /\ Keeps(contracts, ToSet(infos), taken, CompiledBy(ToSet(infos)))
      /\ Keeps(compiled, ToSet(infos), handed, CompiledBy(ToSet(infos)))
  BY <1>3, <1>5, <1>6, NothingKept
<1>8. Absolute(contracts)
  BY <1>5 DEF Absolute
<1>9. Keeps(stored, {older.id}, reused, EntriesOf(older))
  <2> PICK none : none = <<>>
    OBVIOUS
  <2>1. IsContracts(none, {}) /\ Absolute(none) /\ \A e : ~Holds(none, e)
    BY DEF IsContracts, Absolute, Holds
  <2>2. older \in AllJobs /\ stored = Extended(none, older)
    BY <1>3 DEF AllJobs
  <2>3. /\ IsContracts(stored, {} \cup {older.id})
        /\ \A e : Holds(stored, e) <=> Holds(none, e) \/ e \in EntriesOf(older)
    BY <2>1, <2>2, ExtendedIsSound
  <2>4. {} \cup {older.id} = {older.id}
    OBVIOUS
  <2> QED
    BY <1>3, <2>1, <2>3, <2>4, HeldOrTaken
<1> QED
  BY <1>1, <1>2, <1>3, <1>4, <1>7, <1>8, <1>9 DEF ContractsInv

LEMMA ExtendKeepsContracts ==
    ASSUME ContractsInv, Extend
    PROVE  ContractsInv'
<1> PICK job : job = Head(todo)
  OBVIOUS
<1>1. /\ todo # <<>> /\ todo' = Tail(todo)
      /\ infos' = Append(infos, job.id) /\ contracts' = Extended(contracts, job) /\ taken' = taken
      /\ compiled' = IF Len(todo) = 1 THEN contracts' ELSE compiled
      /\ handed' = handed /\ UNCHANGED <<stored, older, reused>>
  BY DEF Extend
<1>2. /\ todo \in Seq(BuildJobs) /\ todo[1] = job /\ job \in BuildJobs /\ job \in AllJobs
      /\ taken = {} /\ handed = {}
  BY <1>1 DEF ContractsInv, AllJobs
<1>3. /\ Tail(todo) \in Seq(BuildJobs)
      /\ Len(todo) \in Nat \ {0}
      /\ DOMAIN todo = 1 .. Len(todo) /\ DOMAIN Tail(todo) = 1 .. (Len(todo) - 1)
      /\ \A i \in DOMAIN Tail(todo) : i + 1 \in DOMAIN todo /\ Tail(todo)[i] = todo[i + 1]
      /\ 1 \in DOMAIN todo
  BY <1>1, <1>2, Tails
<1>4. ToSet(infos') = ToSet(infos) \cup {job.id} /\ infos' \in Seq(ToSet(infos'))
  <2>1. infos \in Seq(ToSet(infos))
    BY DEF ContractsInv
  <2>2. infos' \in Seq(ToSet(infos) \cup {job.id})
    BY <1>1, <2>1
  <2>3. DOMAIN infos' = DOMAIN infos \cup {Len(infos) + 1} /\ infos'[Len(infos) + 1] = job.id
        /\ \A i \in DOMAIN infos : infos'[i] = infos[i]
    BY <1>1, <2>1
  <2>4. ToSet(infos') = ToSet(infos) \cup {job.id}
    BY <2>3 DEF ToSet
  <2> QED
    BY <2>2, <2>4
<1>5. job.id \notin ToSet(infos)
  BY <1>2, <1>3 DEF ContractsInv
<1>6. \A i, j \in DOMAIN todo' : todo'[i].id = todo'[j].id => i = j
  <2> SUFFICES ASSUME NEW i \in DOMAIN Tail(todo), NEW j \in DOMAIN Tail(todo),
                      Tail(todo)[i].id = Tail(todo)[j].id
               PROVE  i = j
    BY <1>1
  <2>1. i + 1 = j + 1
    BY <1>3 DEF ContractsInv
  <2>2. i \in Int /\ j \in Int
    BY <1>3
  <2> QED
    BY <2>1, <2>2
<1>7. ASSUME NEW i \in DOMAIN todo' PROVE todo'[i].id \notin ToSet(infos')
  <2>1. i + 1 \in DOMAIN todo /\ todo'[i] = todo[i + 1] /\ i + 1 # 1
    BY <1>1, <1>3, <1>7
  <2>2. todo[i + 1].id # job.id
    BY <1>2, <1>3, <2>1 DEF ContractsInv
  <2>3. todo[i + 1].id \notin ToSet(infos)
    BY <2>1 DEF ContractsInv
  <2> QED
    BY <1>4, <2>1, <2>2, <2>3
<1>8. /\ IsContracts(contracts, ToSet(infos)) /\ Absolute(contracts)
      /\ \A e : e \in CompiledBy(ToSet(infos)) <=> Holds(contracts, e)
  <2>1. Keeps(contracts, ToSet(infos), taken, CompiledBy(ToSet(infos))) /\ Absolute(contracts)
    BY <1>1 DEF ContractsInv
  <2>2. IsContracts(contracts, ToSet(infos))
    BY <2>1 DEF Keeps
  <2> QED
    BY <1>2, <2>1, <2>2, HeldOrTaken
<1>9. /\ IsContracts(Extended(contracts, job), ToSet(infos) \cup {job.id})
      /\ Absolute(Extended(contracts, job))
      /\ \A e : Holds(Extended(contracts, job), e) <=> Holds(contracts, e) \/ e \in EntriesOf(job)
  BY <1>2, <1>5, <1>8, ExtendedIsSound
<1>10. \A e : e \in CompiledBy(ToSet(infos')) <=> e \in CompiledBy(ToSet(infos)) \/ e \in EntriesOf(job)
  <2>1. \A j \in BuildJobs : j.id = job.id => EntriesOf(j) = EntriesOf(job)
    BY <1>2, JobsHaveIds DEF BuildJobs
  <2> QED
    BY <1>2, <1>4, <2>1 DEF CompiledBy
<1>11. Keeps(contracts', ToSet(infos'), taken', CompiledBy(ToSet(infos')))
  <2>1. IsContracts(contracts', ToSet(infos'))
    BY <1>1, <1>4, <1>9
  <2>2. \A e : e \in CompiledBy(ToSet(infos')) <=> Holds(contracts', e) \/ e \in taken'
    BY <1>1, <1>2, <1>8, <1>9, <1>10
  <2>3. \A e \in taken' : ~Holds(contracts', e)
    BY <1>1, <1>2
  <2> QED
    BY <2>1, <2>2, <2>3, HeldOrTaken
<1>12. todo' = <<>> => Keeps(compiled', ToSet(infos'), handed', CompiledBy(ToSet(infos')))
  <2>1. todo' = <<>> => Len(todo) = 1
    BY <1>1, <1>3
  <2> QED
    BY <1>1, <1>2, <1>11, <2>1
<1>13. Keeps(stored', {older'.id}, reused', EntriesOf(older'))
  BY <1>1 DEF ContractsInv
<1>14. Absolute(contracts') /\ taken' = {} /\ handed' = {}
  BY <1>1, <1>2, <1>9
<1> QED
  BY <1>1, <1>3, <1>4, <1>6, <1>7, <1>11, <1>12, <1>13, <1>14, PrimedOfContracts DEF ContractsInv

(* A request takes at most one entry out, and remembers it. *)
LEMMA TakingKeeps ==
    ASSUME NEW map, NEW ids, NEW gone, NEW entries, NEW i, NEW rest, NEW more,
           Keeps(map, ids, gone, entries),
           rest = ContractsLeft(map, i) \/ rest = ArtifactsLeft(map, i),
           more = gone \cup ({Got(map, i)} \ {NothingFound})
    PROVE  Keeps(rest, ids, more, entries)
<1> PICK got : got = Got(map, i)
  OBVIOUS
<1>1. /\ IsContracts(map, ids)
      /\ \A e : e \in entries <=> Holds(map, e) \/ e \in gone
      /\ \A e \in gone : ~Holds(map, e)
  BY HeldOrTaken DEF Keeps
<1>2. /\ IsContracts(rest, ids)
      /\ \/ got = NothingFound /\ \A e : Holds(rest, e) <=> Holds(map, e)
         \/ /\ got # NothingFound /\ Holds(map, got)
            /\ \A e : Holds(rest, e) <=> Holds(map, e) /\ e # got
  BY <1>1, GotIsSound
<1>3. \A e : e \in more <=> e \in gone \/ (e = got /\ e # NothingFound)
  OBVIOUS
<1>4. \A e : e \in entries <=> Holds(rest, e) \/ e \in more
  BY <1>1, <1>2, <1>3
<1>5. \A e \in more : ~Holds(rest, e)
  BY <1>1, <1>2, <1>3
<1> QED
  BY <1>2, <1>4, <1>5, HeldOrTaken

LEMMA StrippingKeeps ==
    ASSUME NEW map, NEW ids, NEW gone, NEW entries, Keeps(map, ids, gone, entries)
    PROVE  Keeps(Stripped(map), ids, gone, entries)
<1>1. /\ IsContracts(map, ids)
      /\ \A e : e \in entries <=> Holds(map, e) \/ e \in gone
      /\ \A e \in gone : ~Holds(map, e)
  BY HeldOrTaken DEF Keeps
<1>2. IsContracts(Stripped(map), ids) /\ \A e : Holds(Stripped(map), e) <=> Holds(map, e)
  BY <1>1, StrippedIsSound
<1> QED
  BY <1>1, <1>2, HeldOrTaken

LEMMA AskKeepsContracts ==
    ASSUME ContractsInv, Ask
    PROVE  ContractsInv'
<1> PICK ids : ids = ToSet(infos)
  OBVIOUS
<1>1. UNCHANGED <<todo, infos, older>> /\ todo = <<>>
  BY DEF Ask, TakeContract, TakeArtifact, StripPrefixes
<1>2. /\ Keeps(contracts, ids, taken, CompiledBy(ids))
      /\ Keeps(compiled, ids, handed, CompiledBy(ids))
      /\ Keeps(stored, {older.id}, reused, EntriesOf(older))
  BY <1>1 DEF ContractsInv
<1>3. /\ Keeps(contracts', ids, taken', CompiledBy(ids))
      /\ Keeps(compiled', ids, handed', CompiledBy(ids))
      /\ Keeps(stored', {older.id}, reused', EntriesOf(older))
  <2>1. ASSUME NEW info \in Infos, TakeContract(info)
        PROVE  /\ Keeps(contracts', ids, taken', CompiledBy(ids))
               /\ Keeps(compiled', ids, handed', CompiledBy(ids))
               /\ Keeps(stored', {older.id}, reused', EntriesOf(older))
    <3>1. Keeps(contracts', ids, taken', CompiledBy(ids))
      BY <1>2, <2>1, TakingKeeps DEF TakeContract
    <3> QED
      BY <1>2, <2>1, <3>1 DEF TakeContract
  <2>2. ASSUME NEW info \in Infos, TakeArtifact(info)
        PROVE  /\ Keeps(contracts', ids, taken', CompiledBy(ids))
               /\ Keeps(compiled', ids, handed', CompiledBy(ids))
               /\ Keeps(stored', {older.id}, reused', EntriesOf(older))
    <3> PICK i : i = ParseInfo(info)
      OBVIOUS
    <3>1. Keeps(compiled', ids, handed', CompiledBy(ids))
      BY <1>2, <2>2, TakingKeeps DEF TakeArtifact
    <3>2. Keeps(stored', {older.id}, reused', EntriesOf(older))
      <4>1. CASE Got(compiled, i) # NothingFound
        BY <1>2, <2>2, <4>1 DEF TakeArtifact
      <4>2. CASE Got(compiled, i) = NothingFound
        <5>1. /\ stored' = ArtifactsLeft(stored, i)
              /\ reused' = reused \cup ({Got(stored, i)} \ {NothingFound})
          BY <2>2, <4>2 DEF TakeArtifact
        <5> QED
          BY <1>2, <5>1, TakingKeeps
      <4> QED
        BY <4>1, <4>2
    <3> QED
      BY <1>2, <2>2, <3>1, <3>2 DEF TakeArtifact
  <2>3. CASE StripPrefixes
    BY <1>2, <2>3, StrippingKeeps DEF StripPrefixes
  <2> QED
    BY <2>1, <2>2, <2>3 DEF Ask
<1>4. /\ Keeps(contracts', ToSet(infos'), taken', CompiledBy(ToSet(infos')))
      /\ Keeps(compiled', ToSet(infos'), handed', CompiledBy(ToSet(infos')))
      /\ Keeps(stored', {older'.id}, reused', EntriesOf(older'))
  BY <1>1, <1>3
<1>5. /\ todo' \in Seq(BuildJobs) /\ todo' = <<>>
      /\ \A i, j \in DOMAIN todo' : todo'[i].id = todo'[j].id => i = j
      /\ \A i \in DOMAIN todo' : todo'[i].id \notin ToSet(infos')
      /\ infos' \in Seq(ToSet(infos'))
  BY <1>1 DEF ContractsInv
<1> QED
  BY <1>4, <1>5, PrimedOfContracts DEF ContractsInv

LEMMA ContractsStep == ContractsInv /\ [OutputNext]_outputVars => ContractsInv'
<1> SUFFICES ASSUME ContractsInv, [OutputNext]_outputVars
             PROVE  ContractsInv'
  OBVIOUS
<1>1. CASE UNCHANGED outputVars
  BY <1>1, PrimedOfContracts DEF outputVars, ContractsInv
<1> QED
  BY <1>1, ExtendKeepsContracts, AskKeepsContracts DEF OutputNext

(* Every contract a job of the build compiled, of a file the job was run for, is in the output
   under its version and build at one place until a caller takes it, and then no more; and so is
   the artifact made of it, and each that was cached: for any jobs, any paths and any sequence of
   removals and of stripped prefixes (compile/output/mod.rs extend, join_all and
   remove_contract). *)
THEOREM ContractsAreAccounted == OutputSpec => []Accounted
<1> QED
  BY ContractsGiveAccounted, ContractsStart, ContractsStep, PTL DEF OutputSpec

-----------------------------------------------------------------------------
(* What is placed.                                                             *)

AllRuns == UNION {UNION {ToSet(jobs[f]) : f \in DOMAIN jobs} : jobs \in Jobs}
AllNames == (UNION {ToSet(Contracts[f]) : f \in FileSet}) \cup {Stem[f] : f \in FileSet}
ItemSet ==
    [file : FileSet, name : AllNames, version : {u[1] : u \in AllRuns},
     profile : {u[2] : u \in AllRuns}, withVersion : BOOLEAN, withProfile : BOOLEAN]
ItemKey == [x \in ItemSet |-> Id(x)]

LEMMA RunsOfFile ==
    ASSUME NEW jobs \in Jobs, NEW file \in DOMAIN jobs
    PROVE  /\ file \in FileSet
           /\ Len(jobs[file]) \in Nat /\ DOMAIN jobs[file] = 1 .. Len(jobs[file])
           /\ \A n \in DOMAIN jobs[file] : jobs[file][n] \in AllRuns
           /\ \A n, m \in DOMAIN jobs[file] :
                 jobs[file][n][1] = jobs[file][m][1] /\ jobs[file][n][2] = jobs[file][m][2] => n = m
<1>1. /\ DOMAIN jobs \subseteq FileSet
      /\ jobs[file] \in Seq(ToSet(jobs[file])) /\ IsInjective(jobs[file])
      /\ \A u \in ToSet(jobs[file]) : u = <<u[1], u[2]>>
  BY RunsDiffer DEF FileSet
<1>2. \A n \in DOMAIN jobs[file] : jobs[file][n] \in ToSet(jobs[file])
  BY DEF ToSet
<1>3. \A n \in DOMAIN jobs[file] : jobs[file][n] = <<jobs[file][n][1], jobs[file][n][2]>>
  BY <1>1, <1>2
<1>4. \A n \in DOMAIN jobs[file] : jobs[file][n] \in AllRuns
  BY <1>2 DEF AllRuns
<1>5. ASSUME NEW n \in DOMAIN jobs[file], NEW m \in DOMAIN jobs[file],
             jobs[file][n][1] = jobs[file][m][1], jobs[file][n][2] = jobs[file][m][2]
      PROVE  n = m
  <2>1. jobs[file][n] = jobs[file][m]
    BY <1>3, <1>5
  <2> QED
    BY <1>1, <2>1 DEF IsInjective
<1> QED
  BY <1>1, <1>4, <1>5

(* The artifacts of one name: one for each run. *)
LEMMA RunsTellApart ==
    ASSUME NEW jobs \in Jobs, NEW file \in DOMAIN jobs, NEW name \in AllNames,
           NEW s, DOMAIN s = DOMAIN jobs[file],
           \A n \in DOMAIN s :
               /\ s[n] \in ItemSet /\ s[n].file = file /\ s[n].name = name
               /\ s[n].version = jobs[file][n][1] /\ s[n].profile = jobs[file][n][2]
    PROVE  s = [n \in DOMAIN s |-> s[n]] => s \in Seq(ItemSet) /\ KeysDiffer(s, ItemKey)
<1>1. DOMAIN s = 1 .. Len(jobs[file]) /\ Len(jobs[file]) \in Nat
  BY RunsOfFile
<1>2. ASSUME NEW n \in DOMAIN s, NEW m \in DOMAIN s, ItemKey[s[n]] = ItemKey[s[m]]
      PROVE  n = m
  <2>1. Id(s[n]) = Id(s[m])
    BY <1>2 DEF ItemKey
  <2>2. s[n].version = s[m].version /\ s[n].profile = s[m].profile
    BY <2>1 DEF Id
  <2> QED
    BY <2>2, RunsOfFile
<1>3. ASSUME s = [n \in DOMAIN s |-> s[n]] PROVE s \in Seq(ItemSet)
  BY <1>1, <1>3
<1> QED
  BY <1>2, <1>3 DEF KeysDiffer

LEMMA ContractItemsApart ==
    ASSUME NEW jobs \in Jobs, NEW file \in DOMAIN jobs, NEW name \in AllNames
    PROVE  /\ ContractItems(jobs, file, name) \in Seq(ItemSet)
           /\ KeysDiffer(ContractItems(jobs, file, name), ItemKey)
           /\ \A x \in ToSet(ContractItems(jobs, file, name)) : x.file = file /\ x.name = name
<1> PICK s : s = ContractItems(jobs, file, name)
  OBVIOUS
<1>1. DOMAIN s = DOMAIN jobs[file] /\ s = [n \in DOMAIN s |-> s[n]]
  BY DEF ContractItems
<1>2. ASSUME NEW n \in DOMAIN s
      PROVE  /\ s[n] \in ItemSet /\ s[n].file = file /\ s[n].name = name
             /\ s[n].version = jobs[file][n][1] /\ s[n].profile = jobs[file][n][2]
  <2> PICK v, p : v = Several(jobs[file], 1) /\ p = (Several(jobs[file], 2) /\ Primary[file] # jobs[file][n][2])
    OBVIOUS
  <2>1. s[n] = [file |-> file, name |-> name, version |-> jobs[file][n][1],
                profile |-> jobs[file][n][2], withVersion |-> v, withProfile |-> p]
    BY <1>1 DEF ContractItems
  <2>3. v \in BOOLEAN /\ p \in BOOLEAN
    BY DEF Several
  <2>2. jobs[file][n] \in AllRuns /\ file \in FileSet
    BY <1>1, RunsOfFile
  <2> QED
    BY <2>1, <2>2, <2>3 DEF ItemSet
<1>3. s \in Seq(ItemSet) /\ KeysDiffer(s, ItemKey)
  BY <1>1, <1>2, RunsTellApart
<1> QED
  BY <1>2, <1>3 DEF ToSet

LEMMA StandaloneItemsApart ==
    ASSUME NEW jobs \in Jobs, NEW file \in DOMAIN jobs
    PROVE  /\ StandaloneItems(jobs, file) \in Seq(ItemSet)
           /\ KeysDiffer(StandaloneItems(jobs, file), ItemKey)
           /\ \A x \in ToSet(StandaloneItems(jobs, file)) : x.file = file
<1> PICK s : s = StandaloneItems(jobs, file)
  OBVIOUS
<1>1. DOMAIN s = DOMAIN jobs[file] /\ s = [n \in DOMAIN s |-> s[n]]
  BY DEF StandaloneItems
<1>2. file \in FileSet /\ Stem[file] \in AllNames
  BY RunsOfFile DEF AllNames
<1>3. ASSUME NEW n \in DOMAIN s
      PROVE  /\ s[n] \in ItemSet /\ s[n].file = file /\ s[n].name = Stem[file]
             /\ s[n].version = jobs[file][n][1] /\ s[n].profile = jobs[file][n][2]
  <2> PICK v, p : v = Several(jobs[file], 1) /\ p = (Several(jobs[file], 2))
    OBVIOUS
  <2>1. s[n] = [file |-> file, name |-> Stem[file], version |-> jobs[file][n][1],
                profile |-> jobs[file][n][2], withVersion |-> v, withProfile |-> p]
    BY <1>1 DEF StandaloneItems
  <2>3. v \in BOOLEAN /\ p \in BOOLEAN
    BY DEF Several
  <2>2. jobs[file][n] \in AllRuns
    BY <1>1, RunsOfFile
  <2> QED
    BY <1>2, <2>1, <2>2, <2>3 DEF ItemSet
<1>4. s \in Seq(ItemSet) /\ KeysDiffer(s, ItemKey)
  BY <1>1, <1>2, <1>3, RunsTellApart
<1> QED
  BY <1>3, <1>4 DEF ToSet

LEMMA SameKeys ==
    ASSUME NEW x \in ItemSet, NEW y \in ItemSet, ItemKey[x] = ItemKey[y]
    PROVE  x.file = y.file /\ x.name = y.name
<1>1. Id(x) = Id(y)
  BY DEF ItemKey
<1> QED
  BY <1>1 DEF Id

LEMMA FileItemsApart ==
    ASSUME NEW jobs \in Jobs, NEW file \in DOMAIN jobs
    PROVE  /\ FileItems(jobs, file) \in Seq(ItemSet)
           /\ KeysDiffer(FileItems(jobs, file), ItemKey)
           /\ \A x \in ToSet(FileItems(jobs, file)) : x.file = file
<1>1. CASE ~HasContracts(file)
  BY <1>1, StandaloneItemsApart DEF FileItems
<1>2. CASE HasContracts(file)
  <2> PICK names : names = Contracts[file]
    OBVIOUS
  <2> PICK N : N = Len(names)
    OBVIOUS
  <2> PICK seqs : seqs = [j \in DOMAIN names |-> ContractItems(jobs, file, names[j])]
    OBVIOUS
  <2>1. file \in FileSet /\ names \in Seq(ToSet(names)) /\ IsInjective(names)
    BY FilesDiffer, RunsOfFile DEF FileSet
  <2>2. N \in Nat /\ DOMAIN names = 1 .. N
    BY <2>1
  <2>3. DOMAIN seqs = 1 .. N /\ N = Len(seqs) /\ \A j \in 1 .. N : seqs[j] = ContractItems(jobs, file, names[j])
    BY <2>2
  <2>4. \A j \in 1 .. N : names[j] \in AllNames
    BY <2>1, <2>2 DEF AllNames, ToSet
  <2>5. ASSUME NEW j \in 1 .. N
        PROVE  /\ seqs[j] \in Seq(ItemSet) /\ KeysDiffer(seqs[j], ItemKey)
               /\ \A x \in ToSet(seqs[j]) : x \in ItemSet /\ x.file = file /\ x.name = names[j]
    <3>1. /\ seqs[j] \in Seq(ItemSet) /\ KeysDiffer(seqs[j], ItemKey)
          /\ \A x \in ToSet(seqs[j]) : x.file = file /\ x.name = names[j]
      BY <2>3, <2>4, ContractItemsApart
    <3> QED
      BY <3>1, ElementsOf
  <2>6. ASSUME NEW j \in 1 .. N, NEW k \in 1 .. N, NEW x \in ToSet(seqs[j]), NEW y \in ToSet(seqs[k]),
               ItemKey[x] = ItemKey[y]
        PROVE  j = k
    <3>1. x \in ItemSet /\ y \in ItemSet /\ x.name = names[j] /\ y.name = names[k]
      BY <2>5
    <3>2. names[j] = names[k]
      BY <2>6, <3>1, SameKeys
    <3> QED
      BY <2>1, <2>2, <3>2 DEF IsInjective
  <2>9. /\ \A k \in 1 .. N : seqs[k] \in Seq(ItemSet) /\ KeysDiffer(seqs[k], ItemKey)
        /\ \A k, l \in 1 .. N : \A x \in ToSet(seqs[k]), y \in ToSet(seqs[l]) :
              ItemKey[x] = ItemKey[y] => k = l
    BY <2>5, <2>6
  <2>11. TellsApart(ItemKey, ItemSet, seqs, N)
    BY <2>2, <2>3, <2>9 DEF TellsApart
  <2>7. /\ FlattenSeq(seqs) \in Seq(ItemSet)
        /\ \A x \in ToSet(FlattenSeq(seqs)) : \E k \in 1 .. N : x \in ToSet(seqs[k])
        /\ KeysDiffer(FlattenSeq(seqs), ItemKey)
    BY <2>11, FlattenKeepsApart
  <2>8. FileItems(jobs, file) = FlattenSeq(seqs)
    BY <1>2 DEF FileItems
  <2>10. ASSUME NEW x \in ToSet(FlattenSeq(seqs)) PROVE x.file = file
    <3>1. PICK k \in 1 .. N : x \in ToSet(seqs[k])
      BY <2>7
    <3> QED
      BY <2>5, <3>1
  <2> QED
    BY <2>7, <2>8, <2>10
<1> QED
  BY <1>1, <1>2

LEMMA InOrderApart ==
    ASSUME NEW jobs \in Jobs, NEW files \in SUBSET DOMAIN jobs
    PROVE  /\ InOrder(jobs, files) \in Seq(ItemSet)
           /\ KeysDiffer(InOrder(jobs, files), ItemKey)
           /\ \A x \in ToSet(InOrder(jobs, files)) : x \in ItemSet /\ x.file \in files
<1> PICK N : N = Len(Files)
  OBVIOUS
<1> PICK seqs : seqs = [i \in DOMAIN Files |->
                          IF Files[i] \in files THEN FileItems(jobs, Files[i]) ELSE <<>>]
  OBVIOUS
<1>1. N \in Nat /\ DOMAIN Files = 1 .. N /\ IsInjective(Files)
  BY FilesDiffer
<1>2. DOMAIN seqs = 1 .. N /\ N = Len(seqs)
      /\ \A i \in 1 .. N : seqs[i] = IF Files[i] \in files THEN FileItems(jobs, Files[i]) ELSE <<>>
  BY <1>1
<1>3. ASSUME NEW i \in 1 .. N
      PROVE  /\ seqs[i] \in Seq(ItemSet) /\ KeysDiffer(seqs[i], ItemKey)
             /\ \A x \in ToSet(seqs[i]) : x \in ItemSet /\ x.file = Files[i] /\ x.file \in files
  <2>1. CASE Files[i] \in files
    <3>1. /\ seqs[i] \in Seq(ItemSet) /\ KeysDiffer(seqs[i], ItemKey)
          /\ \A x \in ToSet(seqs[i]) : x.file = Files[i]
      BY <1>2, <2>1, FileItemsApart
    <3>2. ToSet(seqs[i]) \subseteq ItemSet
      BY <3>1, ElementsOf
    <3> QED
      BY <2>1, <3>1, <3>2
  <2>2. CASE Files[i] \notin files
    <3>1. seqs[i] = <<>>
      BY <1>2, <2>2
    <3> QED
      BY <3>1, NothingDiffers
  <2> QED
    BY <2>1, <2>2
<1>4. ASSUME NEW i \in 1 .. N, NEW j \in 1 .. N, NEW x \in ToSet(seqs[i]), NEW y \in ToSet(seqs[j]),
             ItemKey[x] = ItemKey[y]
      PROVE  i = j
  <2>2. x \in ItemSet /\ x.file = Files[i] /\ y \in ItemSet /\ y.file = Files[j]
    BY <1>3, <1>4
  <2>1. Files[i] = Files[j]
    BY <1>4, <2>2, SameKeys
  <2> QED
    BY <1>1, <2>1 DEF IsInjective
<1>9. /\ \A k \in 1 .. N : seqs[k] \in Seq(ItemSet) /\ KeysDiffer(seqs[k], ItemKey)
      /\ \A k, l \in 1 .. N : \A x \in ToSet(seqs[k]), y \in ToSet(seqs[l]) :
            ItemKey[x] = ItemKey[y] => k = l
  BY <1>3, <1>4
<1>11. TellsApart(ItemKey, ItemSet, seqs, N)
  BY <1>1, <1>2, <1>9 DEF TellsApart
<1>5. /\ FlattenSeq(seqs) \in Seq(ItemSet)
      /\ \A x \in ToSet(FlattenSeq(seqs)) : \E k \in 1 .. N : x \in ToSet(seqs[k])
      /\ KeysDiffer(FlattenSeq(seqs), ItemKey)
  BY <1>11, FlattenKeepsApart
<1>6. InOrder(jobs, files) = FlattenSeq(seqs)
  BY DEF InOrder
<1>7. \A x \in ToSet(FlattenSeq(seqs)) : x \in ItemSet /\ x.file \in files
  BY <1>3, <1>5
<1> QED
  BY <1>5, <1>6, <1>7

(* No two artifacts of a build are of one contract, compiler and profile. *)
LEMMA ItemsApart ==
    ASSUME NEW jobs \in Jobs
    PROVE  Items(jobs) \in Seq(ItemSet) /\ KeysDiffer(Items(jobs), ItemKey)
<1> DEFINE with(d) == {f \in DOMAIN jobs : HasContracts(f) /\ Len(f) = d}
           without == {f \in DOMAIN jobs : ~HasContracts(f)}
<1> PICK N : N = MaxDepth
  OBVIOUS
<1> PICK seqs : seqs = [d \in 1 .. N |-> InOrder(jobs, with(d))]
  OBVIOUS
<1>1. N \in Nat
  BY FilesDiffer
<1>2. DOMAIN seqs = 1 .. N /\ N = Len(seqs) /\ \A d \in 1 .. N : seqs[d] = InOrder(jobs, with(d))
  BY <1>1
<1>3. ASSUME NEW d \in 1 .. N
      PROVE  /\ seqs[d] \in Seq(ItemSet) /\ KeysDiffer(seqs[d], ItemKey)
             /\ \A x \in ToSet(seqs[d]) : x \in ItemSet /\ HasContracts(x.file) /\ Len(x.file) = d
  <2>1. with(d) \in SUBSET DOMAIN jobs
    OBVIOUS
  <2> QED
    BY <1>2, <2>1, InOrderApart
<1>4. ASSUME NEW d \in 1 .. N, NEW e \in 1 .. N, NEW x \in ToSet(seqs[d]), NEW y \in ToSet(seqs[e]),
             ItemKey[x] = ItemKey[y]
      PROVE  d = e
  BY <1>3, <1>4, SameKeys
<1>9. /\ \A k \in 1 .. N : seqs[k] \in Seq(ItemSet) /\ KeysDiffer(seqs[k], ItemKey)
      /\ \A k, l \in 1 .. N : \A x \in ToSet(seqs[k]), y \in ToSet(seqs[l]) :
            ItemKey[x] = ItemKey[y] => k = l
  BY <1>3, <1>4
<1>11. TellsApart(ItemKey, ItemSet, seqs, N)
  BY <1>1, <1>2, <1>9 DEF TellsApart
<1>5. /\ FlattenSeq(seqs) \in Seq(ItemSet)
      /\ \A x \in ToSet(FlattenSeq(seqs)) : \E k \in 1 .. N : x \in ToSet(seqs[k])
      /\ KeysDiffer(FlattenSeq(seqs), ItemKey)
  BY <1>11, FlattenKeepsApart
<1>6. /\ InOrder(jobs, without) \in Seq(ItemSet) /\ KeysDiffer(InOrder(jobs, without), ItemKey)
      /\ \A x \in ToSet(InOrder(jobs, without)) : x \in ItemSet /\ ~HasContracts(x.file)
  <2>1. without \in SUBSET DOMAIN jobs
    OBVIOUS
  <2> QED
    BY <2>1, InOrderApart
<1>7. Items(jobs) = FlattenSeq(seqs) \o InOrder(jobs, without)
  BY DEF Items
<1>8. ASSUME NEW x \in ToSet(FlattenSeq(seqs)), NEW y \in ToSet(InOrder(jobs, without))
      PROVE  ItemKey[x] # ItemKey[y]
  <2>1. x \in ItemSet /\ HasContracts(x.file)
    BY <1>3, <1>5, <1>8
  <2> QED
    BY <1>6, <1>8, <2>1, SameKeys
<1>10. ASSUME NEW s, NEW t, s = FlattenSeq(seqs), t = InOrder(jobs, without)
       PROVE  s \o t \in Seq(ItemSet) /\ KeysDiffer(s \o t, ItemKey)
  <2>1. /\ s \in Seq(ItemSet) /\ t \in Seq(ItemSet) /\ KeysDiffer(s, ItemKey) /\ KeysDiffer(t, ItemKey)
        /\ \A x \in ToSet(s), y \in ToSet(t) : ItemKey[x] # ItemKey[y]
    BY <1>5, <1>6, <1>8, <1>10
  <2> QED
    BY <2>1, ConcatKeepsApart
<1> QED
  BY <1>7, <1>10

-----------------------------------------------------------------------------
(* Where an artifact is placed.                                                *)

PathOf(base, number, comps, name, version, profile) ==
    [base |-> base, number |-> number, comps |-> comps, name |-> name, version |-> version,
     profile |-> profile]

LEMMA PathParts ==
    ASSUME NEW p, NEW b, NEW n, NEW c, NEW m, NEW v, NEW f, p = PathOf(b, n, c, m, v, f)
    PROVE  p.base = b /\ p.number = n /\ p.comps = c /\ p.name = m /\ p.version = v /\ p.profile = f
  BY DEF PathOf

(* What has these parts and no other is the path of them.                    *)
HasParts(q) ==
    /\ DOMAIN q = {"base", "number", "comps", "name", "version", "profile"}
    /\ q = [k \in DOMAIN q |-> q[k]]

LEMMA PathIs ==
    ASSUME NEW q, HasParts(q)
    PROVE  q = PathOf(q.base, q.number, q.comps, q.name, q.version, q.profile)
  BY DEF HasParts, PathOf

LEMMA FieldsAre ==
    ASSUME NEW p, NEW b, NEW n, NEW c, NEW m, NEW v, NEW f, p = PathOf(b, n, c, m, v, f)
    PROVE  DOMAIN p = {"base", "number", "comps", "name", "version", "profile"}
  BY DEF PathOf

IsPath(p) ==
    /\ p = PathOf(p.base, p.number, p.comps, p.name, p.version, p.profile)
    /\ p.number \in Nat
\* What has a number is relative until it is joined.
Base(number) == IF number = 0 THEN Out ELSE None
Below(p) == [p EXCEPT !.base = Out]
\* What get_artifact_path makes of an artifact the cache does not know.
IsFree(p, used) ==
    /\ IsPath(p) /\ p.base = Base(p.number)
    /\ Lower(p) \notin used

LEMMA LowerIs ==
    ASSUME NEW p, IsPath(p),
           NEW c, NEW m, c = [i \in DOMAIN p.comps |-> Apply(LowerCase, p.comps[i])],
           m = Apply(LowerCase, p.name)
    PROVE  Lower(p) = PathOf(p.base, p.number, c, m, p.version, p.profile)
<1>1. p = PathOf(p.base, p.number, p.comps, p.name, p.version, p.profile)
  BY DEF IsPath
<1>2. DOMAIN p = {"base", "number", "comps", "name", "version", "profile"}
  BY <1>1, FieldsAre
<1> PICK q : q = [p EXCEPT !.comps = c, !.name = m]
  OBVIOUS
<1>3. /\ q.base = p.base /\ q.number = p.number /\ q.comps = c /\ q.name = m
      /\ q.version = p.version /\ q.profile = p.profile
  BY <1>2
<1>4. HasParts(q)
  BY <1>2 DEF HasParts
<1>5. q = PathOf(q.base, q.number, q.comps, q.name, q.version, q.profile)
  BY <1>4, PathIs
<1>6. Lower(p) = q
  BY DEF Lower
<1> QED
  BY <1>3, <1>5, <1>6

LEMMA BelowIs ==
    ASSUME NEW p, IsPath(p)
    PROVE  /\ Below(p) = PathOf(Out, p.number, p.comps, p.name, p.version, p.profile)
           /\ IsPath(Below(p)) /\ Below(p).base = Out /\ Below(p).number = p.number
           /\ p.base = Out => Below(p) = p
<1>1. p = PathOf(p.base, p.number, p.comps, p.name, p.version, p.profile) /\ p.number \in Nat
  BY DEF IsPath
<1>2. Below(p) = PathOf(Out, p.number, p.comps, p.name, p.version, p.profile)
  BY <1>1 DEF Below, PathOf
<1>3. IsPath(Below(p)) /\ Below(p).base = Out /\ Below(p).number = p.number
  <2>1. /\ Below(p).base = Out /\ Below(p).number = p.number /\ Below(p).comps = p.comps
        /\ Below(p).name = p.name /\ Below(p).version = p.version /\ Below(p).profile = p.profile
    BY <1>2, PathParts
  <2> QED
    BY <1>1, <1>2, <2>1 DEF IsPath
<1>4. p.base = Out => Below(p) = p
  BY <1>1, <1>2
<1> QED
  BY <1>2, <1>3, <1>4

(* What is made absolute stays apart: the relative ones are those with a number. *)
LEMMA BelowApart ==
    ASSUME NEW p, NEW q, IsPath(p), IsPath(q), p.base = Base(p.number), q.base = Base(q.number),
           Lower(Below(p)) = Lower(Below(q))
    PROVE  p.number = q.number /\ Lower(p) = Lower(q)
<1> PICK r, s : r = Below(p) /\ s = Below(q)
  OBVIOUS
<1>1. /\ IsPath(r) /\ r = PathOf(Out, p.number, p.comps, p.name, p.version, p.profile)
      /\ IsPath(s) /\ s = PathOf(Out, q.number, q.comps, q.name, q.version, q.profile)
  BY BelowIs
<1>2. /\ r.base = Out /\ r.number = p.number /\ r.comps = p.comps
      /\ r.name = p.name /\ r.version = p.version /\ r.profile = p.profile
      /\ s.base = Out /\ s.number = q.number /\ s.comps = q.comps
      /\ s.name = q.name /\ s.version = q.version /\ s.profile = q.profile
  BY <1>1, PathParts
<1> PICK c, d : /\ c = [i \in DOMAIN p.comps |-> Apply(LowerCase, p.comps[i])]
                /\ d = [i \in DOMAIN q.comps |-> Apply(LowerCase, q.comps[i])]
  OBVIOUS
<1> PICK m, n : m = Apply(LowerCase, p.name) /\ n = Apply(LowerCase, q.name)
  OBVIOUS
<1>3. /\ Lower(r) = PathOf(Out, p.number, c, m, p.version, p.profile)
      /\ Lower(s) = PathOf(Out, q.number, d, n, q.version, q.profile)
  <2>1. c = [i \in DOMAIN r.comps |-> Apply(LowerCase, r.comps[i])] /\ m = Apply(LowerCase, r.name)
    BY <1>2
  <2>2. d = [i \in DOMAIN s.comps |-> Apply(LowerCase, s.comps[i])] /\ n = Apply(LowerCase, s.name)
    BY <1>2
  <2>3. Lower(r) = PathOf(r.base, r.number, c, m, r.version, r.profile)
    BY <1>1, <2>1, LowerIs
  <2>4. Lower(s) = PathOf(s.base, s.number, d, n, s.version, s.profile)
    BY <1>1, <2>2, LowerIs
  <2> QED
    BY <1>2, <2>3, <2>4
<1>4. p.number = q.number /\ c = d /\ m = n /\ p.version = q.version /\ p.profile = q.profile
  <2> PICK x : x = Lower(r)
    OBVIOUS
  <2>1. /\ x.number = p.number /\ x.comps = c /\ x.name = m
        /\ x.version = p.version /\ x.profile = p.profile
    BY <1>3, PathParts
  <2>2. x = PathOf(Out, q.number, d, n, q.version, q.profile)
    BY <1>3
  <2>3. /\ x.number = q.number /\ x.comps = d /\ x.name = n
        /\ x.version = q.version /\ x.profile = q.profile
    BY <2>2, PathParts
  <2> QED
    BY <2>1, <2>3
<1>5. p.base = q.base
  BY <1>4
<1>6. /\ Lower(p) = PathOf(p.base, p.number, c, m, p.version, p.profile)
      /\ Lower(q) = PathOf(q.base, q.number, d, n, q.version, q.profile)
  BY LowerIs
<1> QED
  BY <1>4, <1>5, <1>6

LEMMA OutputFileIs ==
    ASSUME NEW item \in ItemSet
    PROVE  /\ IsPath(OutputFile(item)) /\ OutputFile(item).base = Out /\ OutputFile(item).number = 0
           /\ \A k : /\ IsPath(Climbed(OutputFile(item), item.file, k))
                     /\ Climbed(OutputFile(item), item.file, k).base = Out
                     /\ Climbed(OutputFile(item), item.file, k).number = 0
           /\ \A n \in Nat : /\ IsPath(Numbered(OutputFile(item), n))
                             /\ Numbered(OutputFile(item), n).base = None
                             /\ Numbered(OutputFile(item), n).number = n
<1> PICK r : r = OutputFile(item)
  OBVIOUS
<1> PICK c, v, f : /\ c = <<Last(item.file)>>
                   /\ v = IF item.withVersion THEN item.version ELSE None
                   /\ f = IF item.withProfile THEN item.profile ELSE None
  OBVIOUS
<1>1. r = PathOf(Out, 0, c, item.name, v, f)
  BY DEF OutputFile, PathOf
<1>9. ASSUME NEW q, NEW b, NEW n \in Nat, NEW s, q = PathOf(b, n, s, item.name, v, f)
      PROVE  IsPath(q) /\ q.base = b /\ q.number = n
  <2>1. /\ q.base = b /\ q.number = n /\ q.comps = s /\ q.name = item.name
        /\ q.version = v /\ q.profile = f
    BY <1>9, PathParts
  <2> QED
    BY <1>9, <2>1 DEF IsPath
<1>2. IsPath(r) /\ r.base = Out /\ r.number = 0
  BY <1>1, <1>9
<1>3. ASSUME NEW k
      PROVE  /\ IsPath(Climbed(r, item.file, k))
             /\ Climbed(r, item.file, k).base = Out
             /\ Climbed(r, item.file, k).number = 0
  <2> PICK s : s = SubSeq(item.file, Len(item.file) - k, Len(item.file))
    OBVIOUS
  <2> PICK q : q = [r EXCEPT !.comps = s]
    OBVIOUS
  <2>1. DOMAIN r = {"base", "number", "comps", "name", "version", "profile"}
    BY <1>1, FieldsAre
  <2>3. /\ q.base = r.base /\ q.number = r.number /\ q.comps = s /\ q.name = r.name
        /\ q.version = r.version /\ q.profile = r.profile
    BY <2>1
  <2>4. HasParts(q)
    BY <2>1 DEF HasParts
  <2>5. q = PathOf(q.base, q.number, q.comps, q.name, q.version, q.profile)
    BY <2>4, PathIs
  <2>6. r.base = Out /\ r.number = 0 /\ r.name = item.name /\ r.version = v /\ r.profile = f
    BY <1>1, PathParts
  <2>7. Climbed(r, item.file, k) = q
    BY DEF Climbed
  <2>2. Climbed(r, item.file, k) = PathOf(Out, 0, s, item.name, v, f)
    BY <2>3, <2>5, <2>6, <2>7
  <2> QED
    BY <2>2, <1>9
<1>4. ASSUME NEW n \in Nat
      PROVE  /\ IsPath(Numbered(r, n)) /\ Numbered(r, n).base = None /\ Numbered(r, n).number = n
  <2> PICK q : q = [r EXCEPT !.number = n, !.base = None]
    OBVIOUS
  <2>1. DOMAIN r = {"base", "number", "comps", "name", "version", "profile"}
    BY <1>1, FieldsAre
  <2>3. /\ q.base = None /\ q.number = n /\ q.comps = r.comps /\ q.name = r.name
        /\ q.version = r.version /\ q.profile = r.profile
    BY <2>1
  <2>4. HasParts(q)
    BY <2>1 DEF HasParts
  <2>5. q = PathOf(q.base, q.number, q.comps, q.name, q.version, q.profile)
    BY <2>4, PathIs
  <2>6. r.comps = c /\ r.name = item.name /\ r.version = v /\ r.profile = f
    BY <1>1, PathParts
  <2>7. Numbered(r, n) = q
    BY DEF Numbered
  <2>2. Numbered(r, n) = PathOf(None, n, c, item.name, v, f)
    BY <2>3, <2>5, <2>6, <2>7
  <2> QED
    BY <2>2, <1>9
<1> QED
  BY <1>2, <1>3, <1>4

(* Among more numbers than there are paths taken one gives a free path.      *)
LEMMA SomeNumberIsFree ==
    ASSUME NEW item \in ItemSet, NEW used, IsFiniteSet(used)
    PROVE  \E n \in 1 .. Cardinality(used) + 1 :
              Lower(Numbered(OutputFile(item), n)) \notin used
<1> SUFFICES ASSUME \A n \in 1 .. Cardinality(used) + 1 : Lower(Numbered(OutputFile(item), n)) \in used
             PROVE  FALSE
  OBVIOUS
<1> PICK C : C = Cardinality(used)
  OBVIOUS
<1>1. C \in Nat
  BY FS_CardinalityType
<1> PICK f : f = [n \in 1 .. C + 1 |-> Lower(Numbered(OutputFile(item), n))]
  OBVIOUS
<1>2. f \in [1 .. C + 1 -> used]
  OBVIOUS
<1>3. \A n \in 1 .. C + 1 : f[n].number = n
  <2> TAKE n \in 1 .. C + 1
  <2> PICK q : q = Numbered(OutputFile(item), n)
    OBVIOUS
  <2>1. n \in Nat
    BY <1>1
  <2>2. IsPath(q) /\ q.number = n
    BY <2>1, OutputFileIs
  <2>4. \E c, m : Lower(q) = PathOf(q.base, q.number, c, m, q.version, q.profile)
    BY <2>2, LowerIs
  <2>3. Lower(q).number = n
    BY <2>2, <2>4, PathParts
  <2> QED
    BY <2>3
<1>4. f \in Injection(1 .. C + 1, used)
  <2>1. \A m, n \in 1 .. C + 1 : f[m] = f[n] => m = n
    BY <1>3
  <2> QED
    BY <1>2, <2>1 DEF Injection, IsInjective
<1>5. Cardinality(1 .. C + 1) <= C
  BY <1>4, FS_Injection
<1>6. Cardinality(1 .. C + 1) = C + 1
  BY <1>1, FS_Interval
<1> QED
  BY <1>1, <1>5, <1>6

(* An artifact the cache does not know is placed where nothing is.           *)
LEMMA ConflictFreeIsFree ==
    ASSUME NEW item \in ItemSet, NEW used, IsFiniteSet(used)
    PROVE  IsFree(ConflictFree(used, OutputFile(item), item.file), used)
<1> PICK path, file : path = OutputFile(item) /\ file = item.file
  OBVIOUS
<1> PICK free : free = {k \in 1 .. Len(file) - 1 : Lower(Climbed(path, file, k)) \notin used}
  OBVIOUS
<1> PICK num : num = CHOOSE n \in 1 .. Cardinality(used) + 1 :
                        /\ Lower(Numbered(path, n)) \notin used
                        /\ \A m \in 1 .. n - 1 : Lower(Numbered(path, m)) \in used
  OBVIOUS
<1>1. ConflictFree(used, path, file)
        = IF free # {} THEN Climbed(path, file, CHOOSE k \in free : \A j \in free : k <= j)
          ELSE Numbered(path, num)
  BY DEF ConflictFree
<1>2. CASE free # {}
  <2>1. free \in SUBSET Nat
    <3>1. Len(file) \in Nat
      <4>1. file \in FileSet
        BY DEF ItemSet
      <4> QED
        BY <4>1, FilesDiffer DEF FileSet
    <3> QED
      BY <3>1
  <2>2. \E k \in free : \A j \in free : k <= j
    BY <1>2, <2>1, LeastNumber
  <2> PICK k : k = CHOOSE n \in free : \A j \in free : n <= j
    OBVIOUS
  <2>3. k \in free
    BY <2>2
  <2>4. Lower(Climbed(path, file, k)) \notin used
    BY <2>3
  <2>5. ConflictFree(used, path, file) = Climbed(path, file, k)
    BY <1>1, <1>2
  <2>6. IsPath(Climbed(path, file, k)) /\ Climbed(path, file, k).base = Out
        /\ Climbed(path, file, k).number = 0
    BY OutputFileIs
  <2> QED
    BY <2>4, <2>5, <2>6 DEF IsFree, Base
<1>3. CASE free = {}
  <2> PICK C : C = Cardinality(used)
    OBVIOUS
  <2>1. C \in Nat
    BY FS_CardinalityType
  <2> DEFINE Open == {n \in 1 .. C + 1 : Lower(Numbered(path, n)) \notin used}
  <2>2. Open \in SUBSET Nat /\ Open # {}
    BY <2>1, SomeNumberIsFree
  <2>3. PICK least \in Open : \A n \in Open : least <= n
    <3> HIDE DEF Open
    <3> QED
      BY <2>2, LeastNumber
  <2>4. \A m \in 1 .. least - 1 : m \notin Open /\ m \in 1 .. C + 1
    <3>1. least \in 1 .. C + 1
      OBVIOUS
    <3>2. \A m \in Open : m \in Nat /\ least <= m
      BY <2>2, <2>3
    <3> HIDE DEF Open
    <3> QED
      BY <2>1, <3>1, <3>2
  <2>5. \A m \in 1 .. least - 1 : Lower(Numbered(path, m)) \in used
    BY <2>4
  <2>6. num \in 1 .. C + 1 /\ Lower(Numbered(path, num)) \notin used
    BY <2>3, <2>5
  <2> HIDE DEF Open
  <2>7. num \in Nat /\ num # 0
    <3>1. num \in 1 .. C + 1
      BY <2>6
    <3> QED
      BY ONLY <2>1, <3>1
  <2>8. ConflictFree(used, path, file) = Numbered(path, num)
    BY <1>1, <1>3
  <2> QED
    BY <2>6, <2>7, <2>8, OutputFileIs DEF IsFree, Base
<1> QED
  BY <1>2, <1>3

LEMMA PathIsFree ==
    ASSUME NEW ctx, NEW item \in ItemSet, NEW used, IsFiniteSet(used), Existing(ctx, item) = {}
    PROVE  IsFree(GetArtifactPath(ctx, used, item), used)
<1>1. CASE Lower(OutputFile(item)) \in used
  BY <1>1, ConflictFreeIsFree DEF GetArtifactPath
<1>2. CASE Lower(OutputFile(item)) \notin used
  <2>1. GetArtifactPath(ctx, used, item) = OutputFile(item)
    BY <1>2 DEF GetArtifactPath
  <2> QED
    BY <1>2, <2>1, OutputFileIs DEF IsFree, Base
<1> QED
  BY <1>1, <1>2

-----------------------------------------------------------------------------
(* The artifacts of a build, placed one after the other.                       *)

LEMMA PlacementsIs ==
    ASSUME NEW ctx, NEW items, Len(items) \in Nat
    PROVE  /\ Placements(ctx, items)[0] = [taken |-> Prepopulated(ctx), path |-> None]
           /\ \A n \in 1 .. Len(items) :
                 Placements(ctx, items)[n] = Place(ctx, Placements(ctx, items)[n - 1].taken, items[n])
<1> PICK N : N = Len(items)
  OBVIOUS
<1> PICK first : first = [taken |-> Prepopulated(ctx), path |-> None]
  OBVIOUS
<1> DEFINE Equation(w, k) ==
               w[k] = IF k = 0 THEN first ELSE Place(ctx, w[k - 1].taken, items[k])
           Reached == {n \in 0 .. N : \E w : \A k \in 0 .. n : Equation(w, k)}
<1>1. N \in Nat
  OBVIOUS
<1>2. 0 \in Reached
  <2> DEFINE w == [k \in {0} |-> first]
  <2>1. \A k \in 0 .. 0 : Equation(w, k)
    OBVIOUS
  <2>2. 0 \in 0 .. N
    BY <1>1
  <2> HIDE DEF Equation, w
  <2> QED
    BY <2>1, <2>2
<1>3. ASSUME NEW n \in 0 .. N, n \in Reached, n + 1 <= N
      PROVE  n + 1 \in Reached
  <2>1. PICK w : \A k \in 0 .. n : Equation(w, k)
    BY <1>3
  <2> DEFINE u == [k \in 0 .. (n + 1) |->
                      IF k = n + 1 THEN Place(ctx, w[n].taken, items[n + 1]) ELSE w[k]]
  <2>2. \A k \in 0 .. n : u[k] = w[k]
    BY <1>1
  <2>3. u[n + 1] = Place(ctx, u[n].taken, items[n + 1])
    BY <1>1, <2>2
  <2>4. \A k \in 0 .. n : Equation(u, k)
    <3> HIDE DEF u
    <3> QED
      BY <1>1, <2>1, <2>2
  <2>5. Equation(u, n + 1)
    <3> HIDE DEF u
    <3> QED
      BY <1>1, <2>3
  <2>6. \A k \in 0 .. (n + 1) : Equation(u, k)
    <3> HIDE DEF Equation
    <3> QED
      BY <1>1, <2>4, <2>5
  <2>7. n + 1 \in 0 .. N
    BY <1>1, <1>3
  <2> HIDE DEF Equation, u
  <2> QED
    BY <2>6, <2>7
<1>4. N \in Reached
  <2> HIDE DEF Reached
  <2>1. 0 .. N \subseteq Reached
    BY <1>1, <1>2, <1>3, NumbersAreReached
  <2> QED
    BY <1>1, <2>1
<1>5. PICK w : \A k \in 0 .. N : Equation(w, k)
  BY <1>4
<1> DEFINE Rule(v) == [k \in 0 .. N |-> IF k = 0 THEN first ELSE Place(ctx, v[k - 1].taken, items[k])]
<1>6. [k \in 0 .. N |-> w[k]] = Rule([k \in 0 .. N |-> w[k]])
  <2> DEFINE v == [k \in 0 .. N |-> w[k]]
  <2>1. \A k \in 0 .. N : k # 0 => v[k - 1] = w[k - 1]
    BY <1>1
  <2>2. \A k \in 0 .. N : Equation(v, k)
    <3> HIDE DEF v
    <3>1. \A k \in 0 .. N : v[k] = w[k]
      BY DEF v
    <3> QED
      BY <1>5, <2>1, <3>1
  <2>3. \A k \in 0 .. N : v[k] = Rule(v)[k]
    <3> HIDE DEF v
    <3> QED
      BY <2>2
  <2>4. DOMAIN Rule(v) = 0 .. N /\ Rule(v) = [k \in 0 .. N |-> Rule(v)[k]]
    <3> HIDE DEF v
    <3> QED
      OBVIOUS
  <2>5. v = [k \in 0 .. N |-> v[k]]
    OBVIOUS
  <2>6. v = Rule(v)
    <3> HIDE DEF Rule, v
    <3>1. [k \in 0 .. N |-> v[k]] = [k \in 0 .. N |-> Rule(v)[k]]
      BY <2>3
    <3> QED
      BY <2>4, <2>5, <3>1
  <2> HIDE DEF Rule
  <2> QED
    BY <2>6
<1>7. Placements(ctx, items) = CHOOSE v : v = Rule(v)
  BY DEF Placements
<1> HIDE DEF Rule
<1>8. Placements(ctx, items) = Rule(Placements(ctx, items))
  BY <1>6, <1>7
<1> QED
  BY <1>1, <1>8 DEF Rule

(* What is placed has the path the cache knows, or one that neither the cache *)
(* nor what was placed before it has.                                         *)
PlacedApart(ctx, items, P) ==
    \A i \in 1 .. Len(items) :
        /\ Existing(ctx, items[i]) # {} => \E a \in Existing(ctx, items[i]) : P[i].path = a.path
        /\ Existing(ctx, items[i]) = {} =>
              /\ IsFree(P[i].path, Prepopulated(ctx))
              /\ \A j \in 1 .. i - 1 : Lower(P[j].path) # Lower(P[i].path)

LEMMA PlacementsApart ==
    ASSUME NEW ctx, IsFiniteSet(ctx), NEW items \in Seq(ItemSet), NEW P, P = Placements(ctx, items)
    PROVE  PlacedApart(ctx, items, P)
<1> PICK N : N = Len(items)
  OBVIOUS
<1>1. N \in Nat /\ \A i \in 1 .. N : items[i] \in ItemSet
  OBVIOUS
<1>2. /\ P[0] = [taken |-> Prepopulated(ctx), path |-> None]
      /\ \A n \in 1 .. N : P[n] = Place(ctx, P[n - 1].taken, items[n])
  BY <1>1, PlacementsIs
<1>3. \A n \in 1 .. N : /\ P[n].path = GetArtifactPath(ctx, P[n - 1].taken, items[n])
                        /\ P[n].taken = P[n - 1].taken \cup {Lower(P[n].path)}
  <2> TAKE n \in 1 .. N
  <2> PICK before, path : before = P[n - 1].taken /\ path = GetArtifactPath(ctx, before, items[n])
    OBVIOUS
  <2>1. P[n] = [taken |-> before \cup {Lower(path)}, path |-> path]
    <3>1. P[n] = Place(ctx, before, items[n])
      BY <1>2
    <3> QED
      BY <3>1 DEF Place
  <2>2. P[n].path = path /\ P[n].taken = before \cup {Lower(path)}
    BY <2>1
  <2> QED
    BY <2>2
<1>4. P[0].taken = Prepopulated(ctx)
  BY <1>2
<1>5. IsFiniteSet(Prepopulated(ctx))
  <2> PICK f : f = [a \in ctx |-> Lower(a.path)]
    OBVIOUS
  <2>1. f \in Surjection(ctx, Prepopulated(ctx))
    BY DEF Surjection, Prepopulated
  <2> QED
    BY <2>1, FS_Surjection
<1> DEFINE Good == {n \in 0 .. N : /\ IsFiniteSet(P[n].taken)
                                   /\ Prepopulated(ctx) \subseteq P[n].taken
                                   /\ \A j \in 1 .. n : Lower(P[j].path) \in P[n].taken}
<1>6. 0 \in Good
  BY <1>1, <1>4, <1>5
<1>7. ASSUME NEW n \in 0 .. N, n \in Good, n + 1 <= N
      PROVE  n + 1 \in Good
  <2>1. n + 1 \in 1 .. N /\ n + 1 \in 0 .. N /\ (n + 1) - 1 = n
    BY <1>1, <1>7
  <2>2. P[n + 1].taken = P[n].taken \cup {Lower(P[n + 1].path)}
    BY <1>3, <2>1
  <2>3. IsFiniteSet(P[n + 1].taken)
    <3> PICK t, x : t = P[n].taken /\ x = Lower(P[n + 1].path)
      OBVIOUS
    <3>1. IsFiniteSet(t)
      BY <1>7
    <3>2. IsFiniteSet(t \cup {x})
      BY <3>1, FS_AddElement
    <3> QED
      BY <2>2, <3>2
  <2>4. \A j \in 1 .. (n + 1) : Lower(P[j].path) \in P[n + 1].taken
    <3>1. \A j \in 1 .. (n + 1) : j \in 1 .. n \/ j = n + 1
      BY <1>1
    <3> QED
      BY <1>7, <2>2, <3>1
  <2> QED
    BY <1>7, <2>1, <2>2, <2>3, <2>4
<1>8. 0 .. N \subseteq Good
  <2> HIDE DEF Good
  <2> QED
    BY <1>1, <1>6, <1>7, NumbersAreReached
<1> SUFFICES ASSUME NEW i \in 1 .. N
             PROVE  /\ Existing(ctx, items[i]) # {} =>
                          \E a \in Existing(ctx, items[i]) : P[i].path = a.path
                    /\ Existing(ctx, items[i]) = {} =>
                          /\ IsFree(P[i].path, Prepopulated(ctx))
                          /\ \A j \in 1 .. i - 1 : Lower(P[j].path) # Lower(P[i].path)
  BY DEF PlacedApart
<1> PICK used : used = P[i - 1].taken
  OBVIOUS
<1>9. /\ IsFiniteSet(used) /\ Prepopulated(ctx) \subseteq used
      /\ \A j \in 1 .. i - 1 : Lower(P[j].path) \in used
  <2>1. i - 1 \in 0 .. N
    BY <1>1
  <2>2. i - 1 \in Good
    BY <1>8, <2>1
  <2> QED
    BY <2>2
<1>10. P[i].path = GetArtifactPath(ctx, used, items[i])
  BY <1>3
<1>11. ASSUME Existing(ctx, items[i]) # {}
       PROVE  \E a \in Existing(ctx, items[i]) : P[i].path = a.path
  <2>1. P[i].path = (CHOOSE a \in Existing(ctx, items[i]) : TRUE).path
    BY <1>10, <1>11 DEF GetArtifactPath
  <2> QED
    BY <1>11, <2>1
<1>12. ASSUME Existing(ctx, items[i]) = {}
       PROVE  /\ IsFree(P[i].path, Prepopulated(ctx))
              /\ \A j \in 1 .. i - 1 : Lower(P[j].path) # Lower(P[i].path)
  <2>1. IsFree(P[i].path, used)
    BY <1>1, <1>9, <1>10, <1>12, PathIsFree
  <2> QED
    BY <1>9, <2>1 DEF IsFree
<1> QED
  BY <1>11, <1>12

-----------------------------------------------------------------------------
(* What a build leaves in the cache and on the disk.                           *)

IsListed(a) == a = Listed(a, a.path) /\ IsPath(a.path) /\ a.path.base = Out
AllListed(C) ==
    /\ IsFiniteSet(C)
    /\ \A a \in C : IsListed(a)
    /\ \A a, b \in C : Id(a) = Id(b) => a = b
Apart(C, B) == \A a, b \in C : (a # b /\ SameFile(a, b)) => a.path.number > 0 /\ ~({a, b} \subseteq B)
Survive(C, D) ==
    \A a \in C : a.path.number = 0 => Lower(a.path) \in DOMAIN D /\ D[Lower(a.path)] = Id(a)

LEMMA ListedIs ==
    ASSUME NEW item, NEW p
    PROVE  /\ Id(Listed(item, p)) = Id(item) /\ Listed(item, p).path = p
           /\ Listed(item, p).file = item.file
           /\ [Listed(item, p) EXCEPT !.path.base = Out] = Listed(item, Below(p))
           /\ Listed(Listed(item, p), p) = Listed(item, p)
<1> PICK r : r = Listed(item, p)
  OBVIOUS
<1>1. r = [file |-> item.file, name |-> item.name, version |-> item.version,
           profile |-> item.profile, path |-> p]
  BY DEF Listed
<1>2. /\ r.file = item.file /\ r.name = item.name /\ r.version = item.version
      /\ r.profile = item.profile /\ r.path = p
  BY <1>1
<1>3. Id(r) = Id(item)
  BY <1>2 DEF Id
<1>4. [r EXCEPT !.path.base = Out] = Listed(item, Below(p))
  <2> PICK q : q = Below(p)
    OBVIOUS
  <2>1. [r EXCEPT !.path = q] = [file |-> item.file, name |-> item.name, version |-> item.version,
                                 profile |-> item.profile, path |-> q]
    BY <1>1
  <2>2. [r EXCEPT !.path.base = Out] = [r EXCEPT !.path = q]
    BY <1>2 DEF Below
  <2> QED
    BY <2>1, <2>2 DEF Listed
<1>5. Listed(r, p) = r
  BY <1>1, <1>2 DEF Listed
<1> QED
  BY <1>2, <1>3, <1>4, <1>5

LEMMA ListedParts ==
    ASSUME NEW item, NEW p
    PROVE  Id(Listed(item, p)) = Id(item) /\ Listed(item, p).path = p
  BY ListedIs

LEMMA LowerKeepsNumber ==
    ASSUME NEW p, IsPath(p)
    PROVE  Lower(p).number = p.number
<1>1. \E c, m : Lower(p) = PathOf(p.base, p.number, c, m, p.version, p.profile)
  BY LowerIs
<1> QED
  BY <1>1, PathParts

LEMMA SameIds ==
    ASSUME NEW a, NEW b, Id(a) = Id(b)
    PROVE  /\ a.file = b.file
           /\ \A p : Listed(a, p) = Listed(b, p)
<1> PICK r : r = Id(a)
  OBVIOUS
<1>1. r.file = a.file /\ r.name = a.name /\ r.version = a.version /\ r.profile = a.profile
  BY DEF Id
<1>2. r.file = b.file /\ r.name = b.name /\ r.version = b.version /\ r.profile = b.profile
  BY DEF Id
<1> QED
  BY <1>1, <1>2 DEF Listed

(* Each artifact of a build is one the cache knows or in a file of its own.  *)
IsApart(ctx, out, N) ==
    /\ DOMAIN out = 1 .. N /\ N \in Nat
    /\ \A i, j \in DOMAIN out : Id(out[i]) = Id(out[j]) => i = j
    /\ \A i \in DOMAIN out : Existing(ctx, out[i]) # {} => out[i] \in ctx
    /\ \A i \in DOMAIN out : Existing(ctx, out[i]) = {} =>
          /\ IsListed(out[i])
          /\ \A a \in ctx : SameFile(a, out[i]) => a.path.number > 0 /\ out[i].path.number > 0
          /\ \A j \in DOMAIN out :
                Existing(ctx, out[j]) = {} /\ SameFile(out[i], out[j]) => i = j

LEMMA OutputApart ==
    ASSUME NEW jobs \in Jobs, NEW ctx, AllListed(ctx)
    PROVE  IsApart(ctx, JoinAll(Placed(ctx, Items(jobs))), Len(Items(jobs)))
<1> PICK out : out = JoinAll(Placed(ctx, Items(jobs)))
  OBVIOUS
<1> PICK items : items = Items(jobs)
  OBVIOUS
<1> PICK P : P = Placements(ctx, items)
  OBVIOUS
<1> PICK N : N = Len(items)
  OBVIOUS
<1> DEFINE known(i) == Existing(ctx, items[i]) # {}
<1>1. items \in Seq(ItemSet) /\ KeysDiffer(items, ItemKey)
  BY ItemsApart
<1>2. N \in Nat /\ DOMAIN items = 1 .. N /\ \A i \in 1 .. N : items[i] \in ItemSet
  BY <1>1
<1>3. IsFiniteSet(ctx)
  BY DEF AllListed
<1>4. \A i \in 1 .. N :
          /\ known(i) => \E a \in Existing(ctx, items[i]) : P[i].path = a.path
          /\ ~known(i) => /\ IsFree(P[i].path, Prepopulated(ctx))
                          /\ \A j \in 1 .. i - 1 : Lower(P[j].path) # Lower(P[i].path)
  <2>1. PlacedApart(ctx, items, P)
    BY <1>1, <1>3, PlacementsApart
  <2> QED
    BY <2>1 DEF PlacedApart
<1>5. DOMAIN out = 1 .. N /\ \A i \in 1 .. N : out[i] = Listed(items[i], Below(P[i].path))
  <2>1. DOMAIN Placed(ctx, items) = 1 .. N
        /\ \A i \in 1 .. N : Placed(ctx, items)[i] = Listed(items[i], P[i].path)
    BY DEF Placed
  <2>2. DOMAIN out = 1 .. N
        /\ \A i \in 1 .. N : out[i] = [Placed(ctx, items)[i] EXCEPT !.path.base = Out]
    BY <2>1 DEF JoinAll
  <2>3. ASSUME NEW i \in 1 .. N PROVE out[i] = Listed(items[i], Below(P[i].path))
    <3>1. out[i] = [Listed(items[i], P[i].path) EXCEPT !.path.base = Out]
      BY <2>1, <2>2
    <3>2. [Listed(items[i], P[i].path) EXCEPT !.path.base = Out] = Listed(items[i], Below(P[i].path))
      BY ListedIs, ZenonT(40)
    <3> QED
      BY <3>1, <3>2
  <2> QED
    BY <2>2, <2>3
<1>6. \A i \in 1 .. N : /\ Id(out[i]) = Id(items[i]) /\ out[i].path = Below(P[i].path)
                        /\ Existing(ctx, out[i]) = Existing(ctx, items[i])
  <2>1. \A i \in 1 .. N : Id(out[i]) = Id(items[i]) /\ out[i].path = Below(P[i].path)
    <3> TAKE i \in 1 .. N
    <3> PICK q : q = Below(P[i].path)
      OBVIOUS
    <3>1. out[i] = Listed(items[i], q)
      BY <1>5
    <3>2. Id(Listed(items[i], q)) = Id(items[i]) /\ Listed(items[i], q).path = q
      BY ListedParts
    <3> QED
      BY <3>1, <3>2
  <2> QED
    BY <2>1 DEF Existing
<1>7. ASSUME NEW i \in DOMAIN out, NEW j \in DOMAIN out, Id(out[i]) = Id(out[j])
      PROVE  i = j
  <2>1. Id(items[i]) = Id(items[j])
    BY <1>5, <1>6, <1>7
  <2>2. ItemKey[items[i]] = ItemKey[items[j]]
    BY <1>2, <1>5, <2>1 DEF ItemKey
  <2> QED
    BY <1>1, <1>2, <1>5, <2>2 DEF KeysDiffer
<1>8. ASSUME NEW i \in DOMAIN out, Existing(ctx, out[i]) # {}
      PROVE  out[i] \in ctx
  <2>1. i \in 1 .. N /\ known(i)
    BY <1>5, <1>6, <1>8
  <2>2. PICK a \in Existing(ctx, items[i]) : P[i].path = a.path
    BY <1>4, <2>1
  <2>3. a \in ctx /\ Id(a) = Id(items[i]) /\ IsListed(a)
    BY <2>2 DEF Existing, AllListed
  <2>4. Below(a.path) = a.path
    BY <2>3, BelowIs DEF IsListed
  <2>5. out[i] = Listed(items[i], a.path)
    BY <1>5, <2>1, <2>2, <2>4
  <2>6. Listed(items[i], a.path) = Listed(a, a.path)
    BY <2>3, SameIds
  <2> QED
    BY <2>3, <2>5, <2>6 DEF IsListed
<1>9. ASSUME NEW i \in DOMAIN out, Existing(ctx, out[i]) = {}
      PROVE  /\ i \in 1 .. N /\ IsFree(P[i].path, Prepopulated(ctx))
             /\ \A j \in 1 .. i - 1 : Lower(P[j].path) # Lower(P[i].path)
             /\ IsPath(P[i].path) /\ P[i].path.base = Base(P[i].path.number)
             /\ Lower(P[i].path) \notin Prepopulated(ctx)
             /\ out[i].path.number = P[i].path.number
             /\ IsListed(out[i])
  <2>1. i \in 1 .. N /\ ~known(i)
    BY <1>5, <1>6, <1>9
  <2>2. /\ IsFree(P[i].path, Prepopulated(ctx))
        /\ \A j \in 1 .. i - 1 : Lower(P[j].path) # Lower(P[i].path)
    BY <1>4, <2>1
  <2>3. /\ IsPath(P[i].path) /\ P[i].path.base = Base(P[i].path.number)
        /\ Lower(P[i].path) \notin Prepopulated(ctx)
    BY <2>2 DEF IsFree
  <2> PICK q : q = Below(P[i].path)
    OBVIOUS
  <2>4. out[i] = Listed(items[i], q) /\ out[i].path = q
    BY <1>5, <1>6, <2>1
  <2>5. IsPath(q) /\ q.base = Out /\ q.number = P[i].path.number
    BY <2>3, BelowIs
  <2>6. Listed(out[i], q) = out[i]
    BY <2>4, ListedIs
  <2>7. IsListed(out[i])
    BY <2>4, <2>5, <2>6 DEF IsListed
  <2> QED
    BY <2>1, <2>2, <2>3, <2>4, <2>5, <2>7
<1>10. ASSUME NEW i \in DOMAIN out, Existing(ctx, out[i]) = {}, NEW a \in ctx, SameFile(a, out[i])
       PROVE  a.path.number > 0 /\ out[i].path.number > 0
  <2> PICK p : p = P[i].path
    OBVIOUS
  <2>1. /\ IsPath(p) /\ p.base = Base(p.number) /\ Lower(p) \notin Prepopulated(ctx)
        /\ out[i].path.number = p.number /\ i \in 1 .. N
    BY <1>9, <1>10
  <2>2. out[i].path = Below(p)
    BY <1>6, <2>1
  <2>3. Lower(a.path) = Lower(Below(p)) /\ Lower(a.path) \in Prepopulated(ctx)
    BY <1>10, <2>2 DEF SameFile, Prepopulated
  <2>4. p.number # 0
    <3>1. ASSUME p.number = 0 PROVE FALSE
      <4>1. Below(p) = p
        BY <2>1, <3>1, BelowIs DEF Base
      <4> QED
        BY <2>1, <2>3, <4>1
    <3> QED
      BY <3>1
  <2>5. IsPath(a.path) /\ IsPath(Below(p)) /\ Below(p).number = p.number
    BY <2>1, BelowIs DEF AllListed, IsListed
  <2>6. a.path.number = p.number
    BY <2>3, <2>5, LowerKeepsNumber
  <2>7. p.number \in Nat
    BY <2>1 DEF IsPath
  <2> QED
    BY <2>1, <2>4, <2>6, <2>7
<1>11. ASSUME NEW i \in DOMAIN out, Existing(ctx, out[i]) = {},
              NEW j \in DOMAIN out, Existing(ctx, out[j]) = {}, SameFile(out[i], out[j])
       PROVE  i = j
  <2>1. /\ i \in 1 .. N /\ IsPath(P[i].path) /\ P[i].path.base = Base(P[i].path.number)
        /\ \A k \in 1 .. i - 1 : Lower(P[k].path) # Lower(P[i].path)
    BY <1>9, <1>11
  <2>2. /\ j \in 1 .. N /\ IsPath(P[j].path) /\ P[j].path.base = Base(P[j].path.number)
        /\ \A k \in 1 .. j - 1 : Lower(P[k].path) # Lower(P[j].path)
    BY <1>9, <1>11
  <2>3. Lower(Below(P[i].path)) = Lower(Below(P[j].path))
    BY <1>6, <1>11, <2>1, <2>2 DEF SameFile
  <2>4. Lower(P[i].path) = Lower(P[j].path)
    BY <2>1, <2>2, <2>3, BelowApart
  <2>5. ~(i < j) /\ ~(j < i)
    <3>1. i < j => i \in 1 .. j - 1
      BY <1>2, <2>1, <2>2
    <3>2. j < i => j \in 1 .. i - 1
      BY <1>2, <2>1, <2>2
    <3> QED
      BY <2>1, <2>2, <2>4, <3>1, <3>2
  <2> QED
    BY <1>2, <2>1, <2>2, <2>5
<1> QED
  BY <1>2, <1>5, <1>7, <1>8, <1>9, <1>10, <1>11 DEF IsApart

Unchanged(C, changed) == {a \in C : a.file \notin changed}
Joined(C, changed, jobs) == JoinAll(Placed(Unchanged(C, changed), Items(jobs)))
CachedAfter(C, changed, jobs) == Merged(Unchanged(C, changed), Joined(C, changed, jobs))
BatchAfter(C, changed, jobs) ==
    {a \in ToSet(Joined(C, changed, jobs)) : Existing(Unchanged(C, changed), a) = {}}

LEMMA KeptIsKnown ==
    ASSUME NEW C, AllListed(C), NEW changed
    PROVE  AllListed(Unchanged(C, changed)) /\ Unchanged(C, changed) \subseteq C
<1> PICK ctx : ctx = Unchanged(C, changed)
  OBVIOUS
<1>1. ctx \subseteq C
  BY DEF Unchanged
<1>2. IsFiniteSet(ctx)
  BY <1>1, FS_Subset DEF AllListed
<1> QED
  BY <1>1, <1>2 DEF AllListed

LEMMA FilesAfterBuild ==
    ASSUME NEW C, NEW B, AllListed(C), Apart(C, B), NEW changed, NEW jobs \in Jobs
    PROVE  /\ AllListed(CachedAfter(C, changed, jobs))
           /\ Apart(CachedAfter(C, changed, jobs), BatchAfter(C, changed, jobs))
           /\ \A a \in C, b \in CachedAfter(C, changed, jobs) :
                 Id(a) = Id(b) /\ a.file \notin changed => a.path = b.path
<1> PICK ctx, out : ctx = Unchanged(C, changed) /\ out = Joined(C, changed, jobs)
  OBVIOUS
<1> PICK B2 : B2 = BatchAfter(C, changed, jobs)
  OBVIOUS
<1> PICK C2 : C2 = CachedAfter(C, changed, jobs)
  OBVIOUS
<1> PICK N : N = Len(Items(jobs))
  OBVIOUS
<1>0. C2 = Merged(ctx, out) /\ B2 = {a \in ToSet(out) : Existing(ctx, a) = {}}
  BY DEF CachedAfter, BatchAfter
<1>1. AllListed(ctx) /\ ctx \subseteq C
  BY KeptIsKnown
<1>2. IsApart(ctx, out, N)
  BY <1>1, OutputApart DEF Joined
<1> USE DEF IsApart
<1>3. ASSUME NEW a \in C2
      PROVE  \/ a \in ctx
             \/ a \in B2 /\ \E i \in DOMAIN out : a = out[i] /\ Existing(ctx, out[i]) = {}
  <2>1. a \in ctx \/ a \in ToSet(out)
    BY <1>0 DEF Merged
  <2>2. CASE a \in ToSet(out)
    <3>1. PICK i \in DOMAIN out : a = out[i]
      BY <2>2 DEF ToSet
    <3> QED
      BY <1>0, <1>2, <2>2, <3>1
  <2> QED
    BY <2>1, <2>2
<1>4. \A a \in B2 : \A b \in ctx : Id(b) # Id(a)
  BY <1>0 DEF Existing
<1>5. AllListed(C2)
  <2>1. IsFiniteSet(C2)
    <3> PICK kept : kept = {a \in ctx : \A i \in DOMAIN out : Id(out[i]) # Id(a)}
      OBVIOUS
    <3>1. IsFiniteSet(kept)
      BY <1>1, FS_Subset DEF AllListed
    <3>2. IsFiniteSet(ToSet(out))
      <4> PICK f : f = [i \in 1 .. N |-> out[i]]
        OBVIOUS
      <4>1. f \in Surjection(1 .. N, ToSet(out))
        BY <1>2 DEF Surjection, ToSet
      <4>2. IsFiniteSet(1 .. N)
        BY <1>2, FS_Interval
      <4> QED
        BY <4>1, <4>2, FS_Surjection
    <3>3. C2 = kept \cup ToSet(out)
      BY <1>0 DEF Merged
    <3>4. IsFiniteSet(kept \cup ToSet(out))
      BY <3>1, <3>2, FS_Union
    <3> QED
      BY <3>3, <3>4
  <2>2. \A a \in C2 : IsListed(a)
    BY <1>1, <1>2, <1>3 DEF AllListed
  <2>3. ASSUME NEW a \in C2, NEW b \in C2, Id(a) = Id(b)
        PROVE  a = b
    <3>1. CASE a \in ctx /\ b \in ctx
      BY <1>1, <2>3, <3>1 DEF AllListed
    <3>2. CASE a \in B2 /\ b \in B2
      <4>1. PICK i \in DOMAIN out, j \in DOMAIN out : a = out[i] /\ b = out[j]
        BY <1>0, <3>2 DEF ToSet
      <4> QED
        BY <1>2, <2>3, <4>1
    <3> QED
      BY <1>3, <1>4, <2>3, <3>1, <3>2
  <2> QED
    BY <2>1, <2>2, <2>3 DEF AllListed
<1>6. ASSUME NEW a \in C2, NEW b \in C2, a # b, SameFile(a, b)
      PROVE  a.path.number > 0 /\ ~({a, b} \subseteq B2)
  <2>1. CASE a \in ctx /\ b \in ctx
    <3>1. a.path.number > 0
      BY <1>1, <1>6, <2>1 DEF Apart
    <3>2. a \notin B2
      BY <1>4, <2>1
    <3> QED
      BY <3>1, <3>2
  <2>2. CASE a \in ctx /\ b \notin ctx
    <3>1. PICK i \in DOMAIN out : b = out[i] /\ Existing(ctx, out[i]) = {}
      BY <1>3, <2>2
    <3>2. a \notin B2
      BY <1>4, <2>2
    <3> QED
      BY <1>2, <1>6, <2>2, <3>1, <3>2
  <2>3. CASE a \notin ctx /\ b \in ctx
    <3>1. PICK i \in DOMAIN out : a = out[i] /\ Existing(ctx, out[i]) = {}
      BY <1>3, <2>3
    <3>2. b \notin B2
      BY <1>4, <2>3
    <3>3. SameFile(b, a)
      BY <1>6 DEF SameFile
    <3> QED
      BY <1>2, <2>3, <3>1, <3>2, <3>3
  <2>4. CASE a \notin ctx /\ b \notin ctx
    <3>1. PICK i \in DOMAIN out : a = out[i] /\ Existing(ctx, out[i]) = {}
      BY <1>3, <2>4
    <3>2. PICK j \in DOMAIN out : b = out[j] /\ Existing(ctx, out[j]) = {}
      BY <1>3, <2>4
    <3> QED
      BY <1>2, <1>6, <3>1, <3>2
  <2> QED
    BY <2>1, <2>2, <2>3, <2>4
<1>7. ASSUME NEW a \in C, NEW b \in C2, Id(a) = Id(b), a.file \notin changed
      PROVE  a.path = b.path
  <2>1. a \in ctx
    BY <1>7 DEF Unchanged
  <2>2. b \in ctx
    BY <1>3, <1>4, <1>7, <2>1
  <2> QED
    BY <1>1, <1>7, <2>1, <2>2 DEF AllListed
<1> QED
  BY <1>5, <1>6, <1>7 DEF Apart

(* What an entry names is there: no other artifact of the build is in its file. *)
LEMMA WrittenSurvives ==
    ASSUME NEW C, NEW C2, NEW B2, NEW D, NEW ctx, ctx \subseteq C, NEW out,
           C2 = Merged(ctx, out), Apart(C2, B2), Survive(C, D),
           NEW N \in Nat, DOMAIN out = 1 .. N,
           \A i, j \in DOMAIN out : Id(out[i]) = Id(out[j]) => i = j
    PROVE  Survive(C2, WriteAll(D, out))
<1> PICK named : named = {Lower(out[i].path) : i \in DOMAIN out}
  OBVIOUS
<1> DEFINE at(p) == {i \in DOMAIN out : Lower(out[i].path) = p}
           after(i, j) == \/ Rank(out[i].file) > Rank(out[j].file)
                          \/ out[i].file = out[j].file /\ i >= j
           final(p) == CHOOSE i \in at(p) : \A j \in at(p) : after(i, j)
<1> PICK D2 : D2 = WriteAll(D, out)
  OBVIOUS
<1>1. /\ DOMAIN D2 = DOMAIN D \cup named
      /\ \A p \in DOMAIN D \cup named : D2[p] = IF p \in named THEN Id(out[final(p)]) ELSE D[p]
  BY DEF WriteAll
<1> SUFFICES ASSUME NEW a \in C2, a.path.number = 0
             PROVE  Lower(a.path) \in DOMAIN D2 /\ D2[Lower(a.path)] = Id(a)
  BY DEF Survive
<1> PICK q : q = Lower(a.path)
  OBVIOUS
<1>2. CASE q \in named
  <2>1. PICK i \in DOMAIN out : Lower(out[i].path) = q
    BY <1>2
  <2>2. \A j \in at(q) : out[j] = a
    <3> TAKE j \in at(q)
    <3>1. out[j] \in C2 /\ SameFile(a, out[j])
      BY DEF Merged, ToSet, SameFile
    <3> QED
      BY <3>1 DEF Apart
  <2>3. at(q) = {i}
    BY <2>1, <2>2
  <2>4. after(i, i)
    BY <2>1
  <2>5. final(q) = i
    <3> HIDE DEF at, after
    <3> QED
      BY <2>3, <2>4
  <2>6. out[i] = a
    BY <2>2, <2>3
  <2> HIDE DEF final
  <2> QED
    BY <1>1, <1>2, <2>5, <2>6
<1>3. CASE q \notin named
  <2>1. a \in C
    BY <1>3 DEF Merged, ToSet
  <2>2. q \in DOMAIN D /\ D[q] = Id(a)
    BY <2>1 DEF Survive
  <2> HIDE DEF final
  <2> QED
    BY <1>1, <1>3, <2>2
<1> QED
  BY <1>2, <1>3

(***************************************************************************)
(* The inductive invariant: what the cache lists is known by its contract, *)
(* file, compiler and profile and has a path below the artifacts           *)
(* directory; the files are apart and hold what they are listed for.       *)
(***************************************************************************)
PathsInv == AllListed(cached) /\ PathsApart /\ ArtifactsSurvive

LEMMA PathsInitInv == PathsInit => PathsInv
<1>1. IsFiniteSet({})
  BY FS_EmptySet
<1> QED
  BY <1>1 DEF PathsInit, PathsInv, AllListed, PathsApart, ArtifactsSurvive

LEMMA PathsNextInv == PathsInv /\ [PathsNext]_pathVars => PathsInv'
<1> SUFFICES ASSUME PathsInv, [PathsNext]_pathVars PROVE PathsInv'
  OBVIOUS
<1>1. CASE UNCHANGED pathVars
  BY <1>1 DEF pathVars, PathsInv, AllListed, PathsApart, ArtifactsSurvive
<1>2. CASE PathsNext
  <2>1. PICK changed \in SUBSET FileSet, jobs \in Jobs : OnOutput(changed, jobs)
    BY <1>2 DEF PathsNext
  <2> PICK C2, B2 : C2 = CachedAfter(cached, changed, jobs) /\ B2 = BatchAfter(cached, changed, jobs)
    OBVIOUS
  <2> PICK ctx, out : ctx = Unchanged(cached, changed) /\ out = Joined(cached, changed, jobs)
    OBVIOUS
  <2>2. cached' = C2 /\ disk' = WriteAll(disk, out) /\ batch' = B2
    BY <2>1 DEF OnOutput, CachedAfter, BatchAfter, Joined, Unchanged
  <2>3. AllListed(cached) /\ Apart(cached, batch) /\ Survive(cached, disk)
    BY DEF PathsInv, PathsApart, Apart, ArtifactsSurvive, Survive
  <2>4. AllListed(C2) /\ Apart(C2, B2)
    BY <2>3, FilesAfterBuild
  <2>5. Survive(C2, WriteAll(disk, out))
    <3>1. AllListed(ctx) /\ ctx \subseteq cached
      BY <2>3, KeptIsKnown
    <3>2. IsApart(ctx, out, Len(Items(jobs)))
      BY <3>1, OutputApart DEF Joined
    <3>3. /\ DOMAIN out = 1 .. Len(Items(jobs)) /\ Len(Items(jobs)) \in Nat
          /\ \A i, j \in DOMAIN out : Id(out[i]) = Id(out[j]) => i = j
      BY <3>2 DEF IsApart
    <3>4. C2 = Merged(ctx, out)
      BY DEF CachedAfter
    <3> QED
      BY <2>3, <2>4, <3>1, <3>3, <3>4, WrittenSurvives
  <2>6. AllListed(cached)' /\ PathsApart' /\ ArtifactsSurvive'
    BY <2>2, <2>4, <2>5 DEF AllListed, PathsApart, Apart, ArtifactsSurvive, Survive
  <2> QED
    BY <2>6 DEF PathsInv
<1> QED
  BY <1>1, <1>2

(* Files known, files apart (artifact_output/mod.rs:672, 863): no two artifacts the cache  *)
(* lists are in one file, except two that both needed a number in different builds.        *)
THEOREM ArtifactsAreApart == PathsSpec => []PathsApart
<1>1. PathsSpec => []PathsInv
  BY PathsInitInv, PathsNextInv, PTL DEF PathsSpec
<1>2. PathsInv => PathsApart
  BY DEF PathsInv
<1> QED
  BY <1>1, <1>2, PTL

(* What an entry of the cache names holds that artifact, whatever was built since          *)
(* (artifact_output/mod.rs:665, compile/project.rs write_all).                             *)
THEOREM ArtifactsDoSurvive == PathsSpec => []ArtifactsSurvive
<1>1. PathsSpec => []PathsInv
  BY PathsInitInv, PathsNextInv, PTL DEF PathsSpec
<1>2. PathsInv => ArtifactsSurvive
  BY DEF PathsInv
<1> QED
  BY <1>1, <1>2, PTL

(* The artifact of a file that did not change stays where it is                            *)
(* (artifact_output/mod.rs:827).                                                           *)
THEOREM PathsDoStay == PathsSpec => PathsStay
<1>1. PathsSpec => []PathsInv
  BY PathsInitInv, PathsNextInv, PTL DEF PathsSpec
<1>2. ASSUME PathsInv, [PathsNext]_pathVars
      PROVE  [\A a \in cached, b \in cached' :
                Id(a) = Id(b) /\ a.file \notin dirty' => a.path = b.path]_pathVars
  <2>1. CASE UNCHANGED pathVars
    BY <2>1
  <2>2. CASE PathsNext
    <3>1. PICK changed \in SUBSET FileSet, jobs \in Jobs : OnOutput(changed, jobs)
      BY <2>2 DEF PathsNext
    <3>2. cached' = CachedAfter(cached, changed, jobs) /\ dirty' = changed
      BY <3>1 DEF OnOutput, CachedAfter, Joined, Unchanged
    <3>3. AllListed(cached) /\ Apart(cached, batch)
      BY <1>2 DEF PathsInv, PathsApart, Apart
    <3>4. \A a \in cached, b \in CachedAfter(cached, changed, jobs) :
             Id(a) = Id(b) /\ a.file \notin changed => a.path = b.path
      BY <3>3, FilesAfterBuild
    <3> QED
      BY <3>2, <3>4
  <2> QED
    BY <1>2, <2>1, <2>2
<1> QED
  BY <1>1, <1>2, PTL DEF PathsSpec, PathsStay

-----------------------------------------------------------------------------
(* Linking. *)

BytecodeParts == {"code", "references", "decoded", "reply", "given"}

LEMMA PartsOfBytecode ==
    ASSUME NEW w, NEW r, NEW d, NEW a, NEW g, NEW s, s = Bytecode(w, r, d, a, g)
    PROVE  /\ DOMAIN s = BytecodeParts
           /\ s.code = w /\ s.references = r /\ s.decoded = d /\ s.reply = a /\ s.given = g
  BY DEF Bytecode, BytecodeParts

LEMMA PartsOfReplied ==
    ASSUME NEW s, DOMAIN s = BytecodeParts, NEW a, NEW t, t = Replied(s, a)
    PROVE  /\ DOMAIN t = BytecodeParts
           /\ t.code = s.code /\ t.references = s.references /\ t.decoded = s.decoded
           /\ t.reply = a /\ t.given = s.given
  BY DEF Replied, BytecodeParts

(* What the calls so far made of a placeholder; what is still referred to.    *)
LinkedTo(words, refs, isCode, addresses) ==
    /\ DOMAIN words = DOMAIN original
    /\ refs = Referenced(original) \ DOMAIN addresses
    /\ isCode <=> refs = {}
    /\ \A i \in DOMAIN original \ Unlinked(original) : words[i] = original[i]
    /\ \A i \in Unlinked(original) :
          /\ words[i] = original[i] \/ words[i].is = "address"
          /\ original[i].of \notin refs => words[i].is = "address"
          /\ ~Shared(original[i]) =>
                words[i] = IF original[i].of \in DOMAIN addresses
                           THEN AddressOf(addresses[original[i].of]) ELSE original[i]

IsLinked(s) == DOMAIN s = BytecodeParts /\ LinkedTo(s.code, s.references, s.decoded, s.given)

(* An address for what is not referred to any more changes nothing.           *)
LEMMA NotReferred ==
    ASSUME NEW w, NEW r, NEW d, NEW g, LinkedTo(w, r, d, g),
           NEW lib, lib \notin r, NEW address
    PROVE  LinkedTo(w, r, d, Given(g, lib, address))
<1> PICK h : h = Given(g, lib, address)
  OBVIOUS
<1>1. DOMAIN h = DOMAIN g \cup {lib} /\ \A l \in DOMAIN g : h[l] = g[l]
  BY DEF Given
<1>2. r = Referenced(original) \ DOMAIN h
  BY <1>1 DEF LinkedTo
<1>3. ASSUME NEW i \in Unlinked(original)
      PROVE  /\ original[i].of \in Referenced(original)
             /\ original[i].of \in DOMAIN h <=> original[i].of \in DOMAIN g
             /\ original[i].of \in DOMAIN g => h[original[i].of] = g[original[i].of]
  <2>1. original[i].of \in Referenced(original)
    BY DEF Referenced
  <2> QED
    BY <1>1, <1>2, <2>1 DEF LinkedTo
<1>4. LinkedTo(w, r, d, h)
  BY <1>2, <1>3 DEF LinkedTo
<1> QED
  BY <1>4

(* Only the placeholders of the library are replaced, the shared ones with them. *)
LEMMA Referred ==
    ASSUME NEW w, NEW r, NEW d, NEW g, LinkedTo(w, r, d, g),
           NEW lib \in r, NEW address,
           NEW left, left = r \ {lib}, NEW words, words = Replaced(w, lib, address),
           NEW done, done <=> (left = {} /\ Unlinked(words) = {})
    PROVE  LinkedTo(words, left, done, Given(g, lib, address))
<1> PICK h : h = Given(g, lib, address)
  OBVIOUS
<1>1. lib \in Referenced(original) /\ lib \notin DOMAIN g
  BY DEF LinkedTo
<1>2. DOMAIN h = DOMAIN g \cup {lib} /\ h[lib] = address /\ \A l \in DOMAIN g : h[l] = g[l]
  BY <1>1 DEF Given
<1>3. DOMAIN words = DOMAIN original /\ left = Referenced(original) \ DOMAIN h
  BY <1>2 DEF LinkedTo, Replaced
<1>4. ASSUME NEW i \in DOMAIN original
      PROVE  words[i] = IF Matches(w[i], lib) THEN AddressOf(address) ELSE w[i]
  BY DEF LinkedTo, Replaced
<1>5. AddressOf(address).is = "address"
  BY DEF AddressOf
<1>6. ASSUME NEW i \in DOMAIN original \ Unlinked(original)
      PROVE  words[i] = original[i]
  <2>1. w[i] = original[i] /\ original[i].is \notin {"hash", "name"}
    BY DEF LinkedTo, Unlinked
  <2> QED
    BY <1>4, <2>1 DEF Matches
<1>7. ASSUME NEW i \in Unlinked(original)
      PROVE  /\ i \in DOMAIN original /\ original[i].is \in {"hash", "name"}
             /\ w[i] = original[i] \/ w[i].is = "address"
             /\ words[i] = original[i] \/ words[i].is = "address"
             /\ original[i].of \notin left => words[i].is = "address"
             /\ ~Shared(original[i]) =>
                   words[i] = IF original[i].of \in DOMAIN h
                              THEN AddressOf(h[original[i].of]) ELSE original[i]
  <2>1. i \in DOMAIN original /\ original[i].is \in {"hash", "name"}
    BY DEF Unlinked
  <2>2. w[i] = original[i] \/ w[i].is = "address"
    BY DEF LinkedTo
  <2>3. words[i] = original[i] \/ words[i].is = "address"
    BY <1>4, <1>5, <2>1, <2>2
  <2>4. original[i].of \notin left => words[i].is = "address"
    <3>1. CASE original[i].of \in r
      <4>1. original[i].of \notin left => original[i].of = lib
        BY <3>1
      <4>2. w[i] = original[i] /\ original[i].of = lib => Matches(w[i], lib)
        BY <2>1 DEF Matches
      <4> QED
        BY <1>4, <1>5, <2>1, <2>2, <4>1, <4>2
    <3>2. CASE original[i].of \notin r
      <4>1. w[i].is = "address"
        BY <3>2 DEF LinkedTo
      <4> QED
        BY <1>4, <1>5, <2>1, <4>1
    <3> QED
      BY <3>1, <3>2
  <2>5. ASSUME ~Shared(original[i])
        PROVE  words[i] = IF original[i].of \in DOMAIN h
                          THEN AddressOf(h[original[i].of]) ELSE original[i]
    <3>1. w[i] = IF original[i].of \in DOMAIN g THEN AddressOf(g[original[i].of]) ELSE original[i]
      BY <2>5 DEF LinkedTo
    <3>2. CASE original[i].of \in DOMAIN g
      <4>1. w[i] = AddressOf(g[original[i].of]) /\ w[i].is = "address"
        BY <3>1, <3>2 DEF AddressOf
      <4>2. ~Matches(w[i], lib)
        BY <4>1 DEF Matches
      <4> QED
        BY <1>2, <1>4, <2>1, <3>2, <4>1, <4>2
    <3>3. CASE original[i].of \notin DOMAIN g
      <4>1. w[i] = original[i]
        BY <3>1, <3>3
      <4>2. CASE original[i].of = lib
        <5>1. Matches(w[i], lib)
          BY <2>1, <4>1, <4>2 DEF Matches
        <5> QED
          BY <1>2, <1>4, <2>1, <4>2, <5>1
      <4>3. CASE original[i].of # lib
        <5>1. ~Matches(w[i], lib)
          BY <1>1, <2>1, <2>5, <4>1, <4>3 DEF Matches, Shared
        <5> QED
          BY <1>2, <1>4, <2>1, <3>3, <4>1, <4>3, <5>1
      <4> QED
        BY <4>2, <4>3
    <3> QED
      BY <3>2, <3>3
  <2> QED
    BY <2>1, <2>2, <2>3, <2>4, <2>5
<1>8. left = {} => Unlinked(words) = {}
  <2> SUFFICES ASSUME left = {}, NEW i \in Unlinked(words)
               PROVE  FALSE
    OBVIOUS
  <2>1. i \in DOMAIN original /\ words[i].is \in {"hash", "name"}
    BY <1>3 DEF Unlinked
  <2>2. i \notin Unlinked(original)
    BY <1>7, <2>1
  <2>3. words[i] = original[i] /\ original[i].is \notin {"hash", "name"}
    BY <1>6, <2>1, <2>2 DEF Unlinked
  <2> QED
    BY <2>1, <2>3
<1>9. LinkedTo(words, left, done, h)
  <2>1. done <=> left = {}
    BY <1>8
  <2> QED
    BY <1>3, <1>6, <1>7, <2>1 DEF LinkedTo
<1> QED
  BY <1>9

(* One call.                                                                  *)
LEMMA LinkedIs ==
    ASSUME NEW s, IsLinked(s), NEW lib \in Known, NEW address,
           NEW t, t = Linked(s, lib, address)
    PROVE  /\ DOMAIN t = BytecodeParts /\ t.given = s.given
           /\ t.reply <=> t.decoded
           /\ LinkedTo(t.code, t.references, t.decoded, Given(s.given, lib, address))
<1>1. DOMAIN s = BytecodeParts /\ LinkedTo(s.code, s.references, s.decoded, s.given)
  BY DEF IsLinked
<1>2. s.decoded <=> s.references = {}
  BY <1>1 DEF LinkedTo
<1>3. lib \in s.references => lib \in OfFile(lib[1])
  BY DEF OfFile
<1>4. CASE s.decoded
  <2>0. PICK says : says = TRUE
    OBVIOUS
  <2>1. t = Replied(s, says)
    BY <2>0, <1>4 DEF Linked
  <2>2. /\ DOMAIN t = BytecodeParts
        /\ t.code = s.code /\ t.references = s.references /\ t.decoded = s.decoded
        /\ t.reply = says /\ t.given = s.given
    BY <1>1, <2>1, PartsOfReplied
  <2>3. LinkedTo(s.code, s.references, s.decoded, Given(s.given, lib, address))
    BY <1>1, <1>2, <1>4, NotReferred
  <2> QED
    BY <2>0, <1>4, <2>2, <2>3
<1>5. CASE ~s.decoded /\ OfFile(lib[1]) \cap s.references = {}
  <2>0. PICK says : says = FALSE
    OBVIOUS
  <2>1. t = Replied(s, says)
    BY <2>0, <1>5 DEF Linked
  <2>2. /\ DOMAIN t = BytecodeParts
        /\ t.code = s.code /\ t.references = s.references /\ t.decoded = s.decoded
        /\ t.reply = says /\ t.given = s.given
    BY <1>1, <2>1, PartsOfReplied
  <2>3. lib \notin s.references
    BY <1>3, <1>5
  <2>4. LinkedTo(s.code, s.references, s.decoded, Given(s.given, lib, address))
    BY <1>1, <2>3, NotReferred
  <2> QED
    BY <2>0, <1>5, <2>2, <2>4
<1>6. CASE ~s.decoded /\ OfFile(lib[1]) \cap s.references # {}
  <2> PICK left, words :
         /\ left = s.references \ {lib}
         /\ words = IF lib \in s.references THEN Replaced(s.code, lib, address) ELSE s.code
    OBVIOUS
  <2> DEFINE done == left = {} /\ Unlinked(words) = {}
  <2>1. t = Bytecode(words, left, done, done, s.given)
    BY <1>6 DEF Linked
  <2>2. /\ DOMAIN t = BytecodeParts
        /\ t.code = words /\ t.references = left /\ t.decoded = done
        /\ t.reply = done /\ t.given = s.given
    <3> HIDE DEF done
    <3> QED
      BY <2>1, PartsOfBytecode
  <2>3. t.decoded <=> (left = {} /\ Unlinked(words) = {})
    BY <2>2
  <2>4. t.reply <=> t.decoded
    BY <2>2
  <2>5. LinkedTo(words, left, t.decoded, Given(s.given, lib, address))
    <3> HIDE DEF done
    <3>1. CASE lib \in s.references
      BY <1>1, <2>3, <3>1, Referred
    <3>2. CASE lib \notin s.references
      <4>1. words = s.code /\ left = s.references
        BY <3>2
      <4>2. t.decoded <=> s.decoded
        BY <1>2, <1>6, <2>3, <4>1
      <4>3. LinkedTo(words, left, s.decoded, Given(s.given, lib, address))
        BY <1>1, <3>2, <4>1, NotReferred
      <4> QED
        BY <4>2, <4>3 DEF LinkedTo
    <3> QED
      BY <3>1, <3>2
  <2> QED
    BY <2>2, <2>4, <2>5
<1> QED
  BY <1>4, <1>5, <1>6

LEMMA CalledIs ==
    ASSUME NEW s, IsLinked(s), NEW lib \in Known, NEW address, NEW byName,
           NEW t, t = Called(s, lib, address, byName)
    PROVE  IsLinked(t) /\ (t.reply <=> t.decoded)
<1>1. CASE byName /\ lib[1] \in Colons
  <2>1. t = Replied(s, s.decoded)
    BY <1>1 DEF Called
  <2>2. DOMAIN s = BytecodeParts
    BY DEF IsLinked
  <2>3. /\ DOMAIN t = BytecodeParts
        /\ t.code = s.code /\ t.references = s.references /\ t.decoded = s.decoded
        /\ t.reply = s.decoded /\ t.given = s.given
    BY <2>1, <2>2, PartsOfReplied
  <2> QED
    BY <2>3 DEF IsLinked
<1>2. CASE ~(byName /\ lib[1] \in Colons)
  <2> PICK u, h : u = Linked(s, lib, address) /\ h = Given(s.given, lib, address)
    OBVIOUS
  <2>1. t = [u EXCEPT !.given = h]
    BY <1>2 DEF Called
  <2>2. /\ DOMAIN u = BytecodeParts /\ (u.reply <=> u.decoded)
        /\ LinkedTo(u.code, u.references, u.decoded, h)
    BY LinkedIs
  <2>3. /\ DOMAIN t = BytecodeParts
        /\ t.code = u.code /\ t.references = u.references /\ t.decoded = u.decoded
        /\ t.reply = u.reply /\ t.given = h
    BY <2>1, <2>2 DEF BytecodeParts
  <2> QED
    BY <2>2, <2>3 DEF IsLinked
<1> QED
  BY <1>1, <1>2

LEMMA CallsAre ==
    ASSUME NEW s, NEW libs, NEW byName, Len(libs) \in Nat
    PROVE  /\ Calls(s, libs, byName)[0] = Replied(s, FALSE)
           /\ \A n \in 1 .. Len(libs) :
                 Calls(s, libs, byName)[n] = CalledUnlessDone(Calls(s, libs, byName)[n - 1], libs[n], byName)
<1> PICK N : N = Len(libs)
  OBVIOUS
<1> PICK first : first = Replied(s, FALSE)
  OBVIOUS
<1> DEFINE Equation(w, k) ==
               w[k] = IF k = 0 THEN first ELSE CalledUnlessDone(w[k - 1], libs[k], byName)
           Reached == {n \in 0 .. N : \E w : \A k \in 0 .. n : Equation(w, k)}
<1>1. N \in Nat
  OBVIOUS
<1>2. 0 \in Reached
  <2> DEFINE w == [k \in {0} |-> first]
  <2>1. \A k \in 0 .. 0 : Equation(w, k)
    OBVIOUS
  <2>2. 0 \in 0 .. N
    BY <1>1
  <2> HIDE DEF Equation, w
  <2> QED
    BY <2>1, <2>2
<1>3. ASSUME NEW n \in 0 .. N, n \in Reached, n + 1 <= N
      PROVE  n + 1 \in Reached
  <2>1. PICK w : \A k \in 0 .. n : Equation(w, k)
    BY <1>3
  <2> DEFINE u == [k \in 0 .. (n + 1) |->
                      IF k = n + 1 THEN CalledUnlessDone(w[n], libs[n + 1], byName) ELSE w[k]]
  <2>2. \A k \in 0 .. n : u[k] = w[k]
    BY <1>1
  <2>3. u[n + 1] = CalledUnlessDone(u[n], libs[n + 1], byName)
    BY <1>1, <2>2
  <2>4. \A k \in 0 .. n : Equation(u, k)
    <3> HIDE DEF u
    <3> SUFFICES ASSUME NEW k \in 0 .. n PROVE Equation(u, k)
      OBVIOUS
    <3>1. u[k] = w[k] /\ Equation(w, k)
      BY <2>1, <2>2
    <3>2. k # 0 => u[k - 1] = w[k - 1]
      BY <1>1, <2>2
    <3> QED
      BY <3>1, <3>2
  <2>5. Equation(u, n + 1)
    <3> HIDE DEF u
    <3>1. (n + 1) - 1 = n /\ n + 1 # 0
      BY <1>1
    <3> QED
      BY <2>3, <3>1
  <2>6. \A k \in 0 .. (n + 1) : Equation(u, k)
    <3> HIDE DEF Equation
    <3> QED
      BY <1>1, <2>4, <2>5
  <2>7. n + 1 \in 0 .. N
    BY <1>1, <1>3
  <2> HIDE DEF Equation, u
  <2> QED
    BY <2>6, <2>7
<1>4. N \in Reached
  <2> HIDE DEF Reached
  <2>1. 0 .. N \subseteq Reached
    BY <1>1, <1>2, <1>3, NumbersAreReached
  <2> QED
    BY <1>1, <2>1
<1>5. PICK w : \A k \in 0 .. N : Equation(w, k)
  BY <1>4
<1> DEFINE Rule(v) == [k \in 0 .. N |-> IF k = 0 THEN first ELSE CalledUnlessDone(v[k - 1], libs[k], byName)]
<1>6. [k \in 0 .. N |-> w[k]] = Rule([k \in 0 .. N |-> w[k]])
  <2> DEFINE v == [k \in 0 .. N |-> w[k]]
  <2>1. \A k \in 0 .. N : k # 0 => v[k - 1] = w[k - 1]
    BY <1>1
  <2>2. \A k \in 0 .. N : Equation(v, k)
    <3> HIDE DEF v
    <3>1. \A k \in 0 .. N : v[k] = w[k]
      BY DEF v
    <3> QED
      BY <1>5, <2>1, <3>1
  <2>3. \A k \in 0 .. N : v[k] = Rule(v)[k]
    <3> HIDE DEF v
    <3> QED
      BY <2>2
  <2>4. DOMAIN Rule(v) = 0 .. N /\ Rule(v) = [k \in 0 .. N |-> Rule(v)[k]]
    <3> HIDE DEF v
    <3> QED
      OBVIOUS
  <2>5. v = [k \in 0 .. N |-> v[k]]
    OBVIOUS
  <2>6. v = Rule(v)
    <3> HIDE DEF Rule, v
    <3>1. [k \in 0 .. N |-> v[k]] = [k \in 0 .. N |-> Rule(v)[k]]
      BY <2>3
    <3> QED
      BY <2>4, <2>5, <3>1
  <2> HIDE DEF Rule
  <2> QED
    BY <2>6
<1>7. Calls(s, libs, byName) = CHOOSE v : v = Rule(v)
  BY DEF Calls
<1> HIDE DEF Rule
<1>8. Calls(s, libs, byName) = Rule(Calls(s, libs, byName))
  BY <1>6, <1>7
<1> QED
  BY <1>1, <1>8 DEF Rule

(* However many: what was linked before the first call that says all is.     *)
LEMMA CalledAllIs ==
    ASSUME NEW s, IsLinked(s), NEW libs \in Lists, NEW byName,
           NEW t, t = CalledAll(s, libs, byName),
           NEW n, n = Len(libs)
    PROVE  IsLinked(t) /\ n \in Nat /\ (t.reply <=> (n > 0 /\ t.decoded))
<1> PICK N, run : N = Len(libs) /\ run = Calls(s, libs, byName)
  OBVIOUS
<1>1. N \in Nat /\ \A i \in 1 .. N : libs[i] \in Known \X Addresses
  <2>1. PICK m \in 0 .. MaxListed : libs \in [1 .. m -> Known \X Addresses]
    BY DEF Lists
  <2>2. m \in Nat /\ Len(libs) = m
    BY <2>1, ListsAreBounded
  <2> QED
    BY <2>1, <2>2
<1>2. run[0] = Replied(s, FALSE)
  BY <1>1, CallsAre
<1>3. \A i \in 1 .. N : run[i] = CalledUnlessDone(run[i - 1], libs[i], byName)
  <2>1. Len(libs) \in Nat /\ 1 .. N = 1 .. Len(libs)
    BY <1>1
  <2>2. \A i \in 1 .. Len(libs) :
           Calls(s, libs, byName)[i] = CalledUnlessDone(Calls(s, libs, byName)[i - 1], libs[i], byName)
    BY <2>1, CallsAre
  <2> QED
    BY <2>1, <2>2
<1>4. IsLinked(run[0]) /\ ~run[0].reply
  <2>0. PICK says : says = FALSE
    OBVIOUS
  <2>1. run[0] = Replied(s, says)
    BY <1>2, <2>0
  <2>2. /\ DOMAIN run[0] = BytecodeParts
        /\ run[0].code = s.code /\ run[0].references = s.references
        /\ run[0].decoded = s.decoded /\ run[0].reply = says /\ run[0].given = s.given
    BY <2>1, PartsOfReplied DEF IsLinked
  <2> QED
    BY <2>0, <2>2 DEF IsLinked
<1> DEFINE Good(i) == IsLinked(run[i]) /\ IF i = 0 THEN ~run[i].reply ELSE run[i].reply <=> run[i].decoded
           Reached == {i \in 0 .. N : Good(i)}
<1>5. 0 \in Reached
  BY <1>1, <1>4
<1>6. ASSUME NEW i \in 0 .. N, i \in Reached, i + 1 <= N
      PROVE  i + 1 \in Reached
  <2>1. i + 1 \in 1 .. N /\ (i + 1) - 1 = i /\ i + 1 # 0
    BY <1>1, <1>6
  <2>2. IsLinked(run[i]) /\ (i = 0 => ~run[i].reply) /\ (i # 0 => (run[i].reply <=> run[i].decoded))
    BY <1>6
  <2>3. run[i + 1] = CalledUnlessDone(run[i], libs[i + 1], byName)
    BY <1>3, <2>1
  <2>4. libs[i + 1] \in Known \X Addresses
    BY <1>1, <2>1
  <2>5. IsLinked(run[i + 1]) /\ (run[i + 1].reply <=> run[i + 1].decoded)
    <3>1. CASE run[i].reply
      <4>1. run[i + 1] = run[i]
        BY <2>3, <3>1 DEF CalledUnlessDone
      <4> QED
        BY <2>2, <3>1, <4>1
    <3>2. CASE ~run[i].reply
      <4> PICK lib, address : lib = libs[i + 1][1] /\ address = libs[i + 1][2]
        OBVIOUS
      <4>1. lib \in Known
        BY <2>4
      <4>2. run[i + 1] = Called(run[i], lib, address, byName)
        BY <2>3, <3>2 DEF CalledUnlessDone
      <4> QED
        BY <2>2, <4>1, <4>2, CalledIs
    <3> QED
      BY <3>1, <3>2
  <2>6. i + 1 \in 0 .. N
    BY <1>1, <1>6
  <2> QED
    BY <2>1, <2>5, <2>6
<1>7. Good(N)
  <2> HIDE DEF Reached
  <2>1. 0 .. N \subseteq Reached
    BY <1>1, <1>5, <1>6, NumbersAreReached
  <2>2. N \in Reached
    BY <1>1, <2>1
  <2> QED
    BY <2>2 DEF Reached
<1>8. t = run[N]
  BY DEF CalledAll
<1> HIDE DEF Reached
<1> QED
  BY <1>1, <1>7, <1>8

LinkInv ==
    /\ LinkedTo(code, references, decoded, given)
    /\ calls \in Nat
    /\ reply <=> listed > 0 /\ decoded

LEMMA LinkStart == LinkInit => LinkInv
<1> SUFFICES ASSUME LinkInit PROVE LinkInv
  OBVIOUS
<1>1. DOMAIN given = {}
  BY DEF LinkInit
<1>2. references = Referenced(original) /\ code = original
  BY DEF LinkInit
<1>3. decoded <=> references = {}
  BY DEF LinkInit, Referenced
<1>4. \A i \in Unlinked(original) : original[i].of \in Referenced(original)
  BY DEF Referenced
<1>5. LinkedTo(code, references, decoded, given)
  BY <1>1, <1>2, <1>3, <1>4 DEF LinkedTo
<1> QED
  BY <1>5 DEF LinkInit, LinkInv

LEMMA BecomeIsLinked ==
    ASSUME LinkInv, NEW t, IsLinked(t), NEW n, t.reply <=> n > 0 /\ t.decoded, Become(t, n)
    PROVE  LinkInv'
<1>1. LinkedTo(t.code, t.references, t.decoded, t.given)
  BY DEF IsLinked
<1>2. /\ code' = t.code /\ references' = t.references /\ decoded' = t.decoded
      /\ reply' = t.reply /\ given' = t.given /\ original' = original /\ calls' = calls + 1
      /\ listed' = n
  BY DEF Become
<1>3. LinkedTo(code, references, decoded, given)'
  BY <1>1, <1>2 DEF LinkedTo, Referenced, Unlinked, Shared
<1>4. calls' \in Nat
  BY <1>2 DEF LinkInv
<1>5. reply' <=> listed' > 0 /\ decoded'
  BY <1>2
<1> QED
  BY <1>3, <1>4, <1>5 DEF LinkInv

LEMMA LinkStep == LinkInv /\ [LinkNext]_linkVars => LinkInv'
<1> SUFFICES ASSUME LinkInv, [LinkNext]_linkVars PROVE LinkInv'
  OBVIOUS
<1>1. IsLinked(Now)
  <2>1. LinkedTo(code, references, decoded, given)
    BY DEF LinkInv
  <2>2. /\ DOMAIN Now = BytecodeParts
        /\ Now.code = code /\ Now.references = references /\ Now.decoded = decoded
        /\ Now.given = given
    BY PartsOfBytecode DEF Now
  <2> QED
    BY <2>1, <2>2 DEF IsLinked
<1>3. ASSUME NEW lib \in Known, NEW address \in Addresses, NEW byName,
             Become(Called(Now, lib, address, byName), 1)
      PROVE  LinkInv'
  <2> PICK t : t = Called(Now, lib, address, byName)
    OBVIOUS
  <2>1. IsLinked(t) /\ (t.reply <=> 1 > 0 /\ t.decoded)
    BY <1>1, CalledIs
  <2> QED
    BY <1>3, <2>1, BecomeIsLinked
<1>4. ASSUME NEW libs \in Lists, NEW byName, Become(CalledAll(Now, libs, byName), Len(libs))
      PROVE  LinkInv'
  <2> PICK t, n : t = CalledAll(Now, libs, byName) /\ n = Len(libs)
    OBVIOUS
  <2>1. IsLinked(t) /\ (t.reply <=> n > 0 /\ t.decoded)
    BY <1>1, CalledAllIs
  <2> QED
    BY <1>4, <2>1, BecomeIsLinked
<1>5. CASE UNCHANGED linkVars
  BY <1>5 DEF linkVars, LinkInv, LinkedTo, Referenced, Unlinked, Shared
<1>6. CASE \E lib \in Known, address \in Addresses : Link(lib, address) \/ LinkFullyQualified(lib, address)
  BY <1>3, <1>6 DEF Link, LinkFullyQualified
<1>7. CASE \E libs \in Lists : LinkAll(libs) \/ LinkAllFullyQualified(libs)
  BY <1>4, <1>7 DEF LinkAll, LinkAllFullyQualified
<1> QED
  BY <1>5, <1>6, <1>7 DEF LinkNext

LEMMA LinkedFollows == LinkInv => LinkedIsPlaced
<1> SUFFICES ASSUME LinkInv PROVE LinkedIsPlaced
  OBVIOUS
<1>1. LinkedTo(code, references, decoded, given)
  BY DEF LinkInv
<1>2. decoded <=> Referenced(original) \subseteq DOMAIN given
  BY <1>1 DEF LinkedTo
<1>3. ASSUME decoded, NEW i \in DOMAIN code, ~Shared(original[i])
      PROVE  code[i] = IF i \in Unlinked(original)
                       THEN AddressOf(given[original[i].of]) ELSE original[i]
  <2>1. i \in Unlinked(original) => original[i].of \in Referenced(original)
    BY DEF Referenced
  <2> QED
    BY <1>1, <1>2, <1>3, <2>1 DEF LinkedTo
<1> QED
  BY <1>2, <1>3 DEF LinkedIsPlaced, LinkInv

(* Bytecode::link and the calls over it (artifacts/solc/src/bytecode.rs:144): code is    *)
(* decoded exactly when every library it refers to was given an address, the last call   *)
(* says so if it was given a library, and each placeholder that no two libraries share   *)
(* is then the first address given to its own, for any code, libraries and calls.        *)
THEOREM CodeIsLinked == LinkSpec => []LinkedIsPlaced
<1>1. LinkSpec => []LinkInv
  BY LinkStart, LinkStep, PTL DEF LinkSpec
<1> QED
  BY <1>1, LinkedFollows, PTL

-----------------------------------------------------------------------------
(* Source maps. *)

Fields == ToSet(FieldOrder)

LEMMA FiveFields ==
    /\ Fields = {"offset", "length", "index", "jump", "depth"}
    /\ Len(FieldOrder) = 5 /\ DOMAIN FieldOrder = 1 .. 5
    /\ \A i, j \in 1 .. 5 : FieldOrder[i] = FieldOrder[j] => i = j
    /\ \A i \in 1 .. 5 : FieldOrder[i] \in Fields
    /\ \A f \in Fields : \E i \in 1 .. 5 : FieldOrder[i] = f
<1>1. FieldOrder = <<"offset", "length", "index", "jump", "depth">>
  BY DEF FieldOrder
<1>2. /\ Len(FieldOrder) = 5 /\ DOMAIN FieldOrder = 1 .. 5
      /\ FieldOrder[1] = "offset" /\ FieldOrder[2] = "length" /\ FieldOrder[3] = "index"
      /\ FieldOrder[4] = "jump" /\ FieldOrder[5] = "depth"
  BY <1>1
<1>3. 1 .. 5 = {1, 2, 3, 4, 5}
  OBVIOUS
<1>4. Fields = {FieldOrder[i] : i \in 1 .. 5}
  BY <1>2 DEF Fields, ToSet
<1>5. Fields = {"offset", "length", "index", "jump", "depth"}
  BY <1>2, <1>3, <1>4
<1>6. \A i, j \in 1 .. 5 : FieldOrder[i] = FieldOrder[j] => i = j
  BY <1>2, <1>3
<1>7. \A i \in 1 .. 5 : FieldOrder[i] \in Fields
  BY <1>4
<1>8. \A f \in Fields : \E i \in 1 .. 5 : FieldOrder[i] = f
  BY <1>4
<1> QED
  BY <1>2, <1>5, <1>6, <1>7, <1>8

LEMMA ThreeJumps ==
    /\ ToSet(Jumps) = {"in", "out", "regular"}
    /\ Jumps[1] = "in" /\ Jumps[2] = "out" /\ Jumps[3] = "regular"
    /\ DOMAIN Jumps = 1 .. 3
<1>1. /\ Jumps[1] = "in" /\ Jumps[2] = "out" /\ Jumps[3] = "regular"
      /\ DOMAIN Jumps = 1 .. 3
  BY DEF Jumps
<1>2. 1 .. 3 = {1, 2, 3}
  OBVIOUS
<1> QED
  BY <1>1, <1>2 DEF ToSet

(* What fits when it is read: not the depth, for which finish looks.          *)
FitsWord(b, f) == f # "jump" => \A v \in b[f] : v < WordLimit

LEMMA OptionsAre ==
    ASSUME NEW b \in WrittenElements
    PROVE  /\ b = [f \in Fields |-> b[f]] /\ DOMAIN b = Fields
           /\ \A f \in Fields : b[f] = {} \/ \E v : b[f] = {v}
           /\ \A f \in Fields \ {"jump"} : b[f] \subseteq Nat \cup {-1}
           /\ b["jump"] \subseteq {"in", "out", "regular"}
<1>1. b = [f \in Fields |-> b[f]]
  BY ElementsAreOptions DEF Fields
<1>2. DOMAIN b = Fields
  BY <1>1
<1>3. ASSUME NEW f \in Fields PROVE b[f] = {} \/ \E v : b[f] = {v}
  <2>1. \A v, w \in b[f] : v = w
    BY ElementsAreOptions DEF Fields
  <2> SUFFICES ASSUME b[f] # {} PROVE \E v : b[f] = {v}
    OBVIOUS
  <2>2. PICK v \in b[f] : TRUE
    OBVIOUS
  <2>3. b[f] = {v}
    BY <2>1, <2>2
  <2> QED
    BY <2>3
<1>4. \A f \in Fields \ {"jump"} : b[f] \subseteq Nat \cup {-1}
  BY ElementsAreOptions DEF Fields
<1> QED
  BY <1>1, <1>2, <1>3, <1>4, ElementsAreOptions, ThreeJumps

(* What the values of an element mean.                                        *)
Heard(b) == [f \in Fields |-> {Meant(f, v) : v \in b[f]}]

LEMMA MeantIs ==
    /\ \A f \in Fields \ {"jump"} : \A v \in Nat \cup {-1} :
          /\ Meant(f, v) = IF v = -1 /\ f # "index" THEN 0 ELSE v
          /\ Meant(f, v) \in Nat \cup {-1} /\ (f # "index" => Meant(f, v) \in Nat)
    /\ \A v : Meant("jump", v) = v
<1>1. \A v : Meant("jump", v) = v
  BY DEF Meant
<1>2. ASSUME NEW f \in Fields \ {"jump"}, NEW v \in Nat \cup {-1}
      PROVE  Meant(f, v) = IF v = -1 /\ f # "index" THEN 0 ELSE v
  <2>1. Unsaid(f) = IF f = "index" THEN -1 ELSE 0
    BY <1>2 DEF Unsaid
  <2> QED
    BY <1>2, <2>1 DEF Meant
<1> QED
  BY <1>1, <1>2

LEMMA HeardIs ==
    ASSUME NEW b \in WrittenElements, NEW h, h = Heard(b)
    PROVE  /\ h = [f \in Fields |-> h[f]] /\ DOMAIN h = Fields
           /\ \A f \in Fields : /\ b[f] = {} => h[f] = {}
                               /\ \A v : b[f] = {v} => h[f] = {Meant(f, v)}
           /\ \A f \in Fields : h[f] = {} \/ \E v : h[f] = {v}
           /\ \A f \in {"offset", "length", "depth"} : h[f] \subseteq Nat
           /\ h["index"] \subseteq Nat \cup {-1} /\ h["jump"] \subseteq {"in", "out", "regular"}
<1>1. h = [f \in Fields |-> h[f]] /\ DOMAIN h = Fields
      /\ \A f \in Fields : h[f] = {Meant(f, v) : v \in b[f]}
  BY DEF Heard
<1>2. \A f \in Fields : b[f] = {} \/ \E v : b[f] = {v}
  BY OptionsAre
<1>3. \A f \in Fields : /\ b[f] = {} => h[f] = {}
                       /\ \A v : b[f] = {v} => h[f] = {Meant(f, v)}
  BY <1>1
<1>4. /\ \A f \in {"offset", "length", "depth"} : f \in Fields \ {"jump"} /\ f # "index"
      /\ "index" \in Fields \ {"jump"} /\ "jump" \in Fields
  BY FiveFields
<1>5. \A f \in Fields \ {"jump"} : b[f] \subseteq Nat \cup {-1}
  BY OptionsAre
<1>6. \A f \in {"offset", "length", "depth"} : h[f] \subseteq Nat
  BY <1>1, <1>4, <1>5, MeantIs
<1>7. h["index"] \subseteq Nat \cup {-1}
  BY <1>1, <1>4, <1>5, MeantIs
<1>8. h["jump"] \subseteq {"in", "out", "regular"}
  BY <1>1, <1>4, MeantIs, OptionsAre
<1> QED
  BY <1>1, <1>2, <1>3, <1>6, <1>7, <1>8

(* One token.                                                                 *)
LEMMA ReadFieldIs ==
    ASSUME NEW builder, builder # Bad, NEW n \in 1 .. 5, NEW tokens, NEW t, tokens = {t}
    PROVE  ReadField(builder, n, tokens) = ReadToken(builder, FieldOrder[n], t)
<1>1. tokens # {} /\ ~(n > Len(FieldOrder))
  BY FiveFields
<1> DEFINE token == CHOOSE x \in tokens : TRUE
<1>2. token = t
  OBVIOUS
<1>3. ReadField(builder, n, tokens) = ReadToken(builder, FieldOrder[n], token)
  BY <1>1 DEF ReadField
<1> HIDE DEF token
<1> QED
  BY <1>2, <1>3

IsBuilder(builder) == builder = [f \in Fields |-> builder[f]]

LEMMA FieldIsRead ==
    ASSUME NEW b \in WrittenElements, NEW n \in 1 .. 5, NEW h, h = Heard(b),
           NEW builder, IsBuilder(builder), builder # Bad, builder[FieldOrder[n]] = {},
           NEW next, next = ReadField(builder, n, FieldText(b, FieldOrder[n]))
    PROVE  /\ FitsWord(b, FieldOrder[n]) =>
                 next = [builder EXCEPT ![FieldOrder[n]] = h[FieldOrder[n]]]
           /\ ~FitsWord(b, FieldOrder[n]) => next = Bad
<1> PICK f : f = FieldOrder[n]
  OBVIOUS
<1>1. f \in Fields /\ n <= Len(FieldOrder)
  BY FiveFields
<1>2. builder = [builder EXCEPT ![f] = {}]
  BY <1>1 DEF IsBuilder
<1>3. CASE b[f] = {}
  <2>1. FieldText(b, f) = {}
    BY <1>3 DEF FieldText
  <2>2. next = builder
    BY <1>1, <2>1 DEF ReadField
  <2>3. FitsWord(b, f)
    BY <1>3 DEF FitsWord
  <2>4. h[f] = {}
    BY <1>1, <1>3, HeardIs
  <2> QED
    BY <1>2, <2>2, <2>3, <2>4
<1>4. CASE b[f] # {}
  <2>1. PICK v : b[f] = {v}
    BY <1>1, <1>4, OptionsAre
  <2>2. PICK t : t = IF f = "jump" THEN Mark(v) ELSE Number(v)
    OBVIOUS
  <2>3. FieldText(b, f) = {t}
    BY <2>1, <2>2 DEF FieldText
  <2>4. next = ReadToken(builder, f, t)
    <3> PICK tokens : tokens = FieldText(b, f)
      OBVIOUS
    <3>1. tokens = {t}
      BY <2>3
    <3>2. next = ReadField(builder, n, tokens)
      OBVIOUS
    <3>3. ReadField(builder, n, tokens) = ReadToken(builder, FieldOrder[n], t)
      BY <3>1, ReadFieldIs
    <3> QED
      BY <3>2, <3>3
  <2>0. PICK m : m = Meant(f, v)
    OBVIOUS
  <2>5. h[f] = {m}
    BY <1>1, <2>0, <2>1, HeardIs
  <2>6. CASE f = "jump"
    <3>1. t = Mark(v) /\ v \in {"in", "out", "regular"} /\ m = v
      BY <2>0, <2>1, <2>2, <2>6, OptionsAre, MeantIs
    <3>2. t.is = v /\ t.is # "number"
      BY <3>1 DEF Mark
    <3>3. next = [builder EXCEPT ![f] = {v}]
      BY <2>4, <2>6, <3>2 DEF ReadToken, SetField
    <3>4. FitsWord(b, f)
      BY <2>6 DEF FitsWord
    <3> QED
      BY <2>5, <3>1, <3>3, <3>4
  <2>7. CASE f # "jump"
    <3>1. v \in Nat \cup {-1} /\ m = IF v = -1 /\ f # "index" THEN 0 ELSE v
      BY <1>1, <2>0, <2>1, <2>7, OptionsAre, MeantIs
    <3>2. t.is = "number" /\ t.value = v
      BY <2>2, <2>7 DEF Number
    <3>3. next = IF f = "jump" \/ v < -1 \/ v >= WordLimit THEN Bad
                 ELSE SetField(builder, f, m)
      BY <2>4, <3>1, <3>2 DEF ReadToken, ReadNumber
    <3>4. WordLimit \in Nat \ {0}
      BY WordsAreWords DEF WordLimit
    <3>5. FitsWord(b, f) <=> v < WordLimit
      BY <2>1, <2>7 DEF FitsWord
    <3>6. CASE v < WordLimit
      <4>1. ~(f = "jump" \/ v < -1 \/ v >= WordLimit)
        BY <2>7, <3>1, <3>4, <3>6
      <4>2. next = [builder EXCEPT ![f] = {m}]
        BY <3>3, <4>1 DEF SetField
      <4> QED
        BY <2>5, <3>5, <3>6, <4>2
    <3>7. CASE ~(v < WordLimit)
      <4>1. v >= WordLimit
        BY <3>1, <3>4, <3>7
      <4> QED
        BY <3>3, <3>5, <3>7, <4>1
    <3> QED
      BY <3>6, <3>7
  <2> QED
    BY <2>6, <2>7
<1> QED
  BY <1>3, <1>4

(* The first fields of what was written, and nothing of the others.           *)
Until(b, n) == [f \in Fields |-> IF \E i \in 1 .. n : FieldOrder[i] = f THEN b[f] ELSE {}]

LEMMA UntilIs ==
    ASSUME NEW b, NEW n \in 0 .. 4
    PROVE  /\ IsBuilder(Until(b, n)) /\ Until(b, n) # Bad
           /\ Until(b, n)[FieldOrder[n + 1]] = {}
           /\ Until(b, n + 1) = [Until(b, n) EXCEPT ![FieldOrder[n + 1]] = b[FieldOrder[n + 1]]]
           /\ Until(b, 0) = NoField
<1> PICK u, v : u = Until(b, n) /\ v = Until(b, n + 1)
  OBVIOUS
<1>1. n + 1 \in 1 .. 5 /\ FieldOrder[n + 1] \in Fields
  BY FiveFields
<1>2. u = [f \in Fields |-> u[f]] /\ DOMAIN u = Fields
  BY DEF Until
<1>3. u # Bad
  BY <1>1, <1>2 DEF Bad
<1>4. \A i \in 1 .. n : FieldOrder[i] # FieldOrder[n + 1]
  BY <1>1, FiveFields
<1>5. u[FieldOrder[n + 1]] = {}
  BY <1>1, <1>4 DEF Until
<1>6. v = [u EXCEPT ![FieldOrder[n + 1]] = b[FieldOrder[n + 1]]]
  <2> PICK w : w = [u EXCEPT ![FieldOrder[n + 1]] = b[FieldOrder[n + 1]]]
    OBVIOUS
  <2>1. w = [f \in Fields |-> w[f]] /\ v = [f \in Fields |-> v[f]]
    BY <1>2 DEF Until
  <2>2. ASSUME NEW f \in Fields PROVE w[f] = v[f]
    <3>1. w[f] = IF f = FieldOrder[n + 1] THEN b[f] ELSE u[f]
      BY <1>1, <1>2
    <3>2. v[f] = IF \E i \in 1 .. (n + 1) : FieldOrder[i] = f THEN b[f] ELSE {}
      BY DEF Until
    <3>3. u[f] = IF \E i \in 1 .. n : FieldOrder[i] = f THEN b[f] ELSE {}
      BY DEF Until
    <3>4. (\E i \in 1 .. (n + 1) : FieldOrder[i] = f)
            <=> (f = FieldOrder[n + 1] \/ \E i \in 1 .. n : FieldOrder[i] = f)
      <4>1. 1 .. (n + 1) = (1 .. n) \cup {n + 1}
        OBVIOUS
      <4> QED
        BY <4>1
    <3> QED
      BY <3>1, <3>2, <3>3, <3>4
  <2> QED
    BY <2>1, <2>2
<1>7. Until(b, 0) = NoField
  BY DEF Until, NoField, Fields
<1> QED
  BY <1>2, <1>3, <1>5, <1>6, <1>7 DEF IsBuilder

LEMMA ReadingIs ==
    ASSUME NEW text, Len(text) \in Nat
    PROVE  /\ Reading(text)[0] = NoField
           /\ \A n \in 1 .. Len(text) :
                 Reading(text)[n] = ReadField(Reading(text)[n - 1], n, text[n])
<1> PICK N : N = Len(text)
  OBVIOUS
<1> PICK first : first = NoField
  OBVIOUS
<1> DEFINE Equation(w, k) ==
               w[k] = IF k = 0 THEN first ELSE ReadField(w[k - 1], k, text[k])
           Reached == {n \in 0 .. N : \E w : \A k \in 0 .. n : Equation(w, k)}
<1>1. N \in Nat
  OBVIOUS
<1>2. 0 \in Reached
  <2> DEFINE w == [k \in {0} |-> first]
  <2>1. \A k \in 0 .. 0 : Equation(w, k)
    OBVIOUS
  <2>2. 0 \in 0 .. N
    BY <1>1
  <2> HIDE DEF Equation, w
  <2> QED
    BY <2>1, <2>2
<1>3. ASSUME NEW n \in 0 .. N, n \in Reached, n + 1 <= N
      PROVE  n + 1 \in Reached
  <2>1. PICK w : \A k \in 0 .. n : Equation(w, k)
    BY <1>3
  <2> DEFINE u == [k \in 0 .. (n + 1) |->
                      IF k = n + 1 THEN ReadField(w[n], n + 1, text[n + 1]) ELSE w[k]]
  <2>2. \A k \in 0 .. n : u[k] = w[k]
    BY <1>1
  <2>3. u[n + 1] = ReadField(u[n], n + 1, text[n + 1])
    BY <1>1, <2>2
  <2>4. \A k \in 0 .. n : Equation(u, k)
    <3> HIDE DEF u
    <3> SUFFICES ASSUME NEW k \in 0 .. n PROVE Equation(u, k)
      OBVIOUS
    <3>1. u[k] = w[k] /\ Equation(w, k)
      BY <2>1, <2>2
    <3>2. k # 0 => u[k - 1] = w[k - 1]
      BY <1>1, <2>2
    <3> QED
      BY <3>1, <3>2
  <2>5. Equation(u, n + 1)
    <3> HIDE DEF u
    <3>1. (n + 1) - 1 = n /\ n + 1 # 0
      BY <1>1
    <3> QED
      BY <2>3, <3>1
  <2>6. \A k \in 0 .. (n + 1) : Equation(u, k)
    <3> HIDE DEF Equation
    <3> QED
      BY <1>1, <2>4, <2>5
  <2>7. n + 1 \in 0 .. N
    BY <1>1, <1>3
  <2> HIDE DEF Equation, u
  <2> QED
    BY <2>6, <2>7
<1>4. N \in Reached
  <2> HIDE DEF Reached
  <2>1. 0 .. N \subseteq Reached
    BY <1>1, <1>2, <1>3, NumbersAreReached
  <2> QED
    BY <1>1, <2>1
<1>5. PICK w : \A k \in 0 .. N : Equation(w, k)
  BY <1>4
<1> DEFINE Rule(v) == [k \in 0 .. N |-> IF k = 0 THEN first ELSE ReadField(v[k - 1], k, text[k])]
<1>6. [k \in 0 .. N |-> w[k]] = Rule([k \in 0 .. N |-> w[k]])
  <2> DEFINE v == [k \in 0 .. N |-> w[k]]
  <2>1. \A k \in 0 .. N : k # 0 => v[k - 1] = w[k - 1]
    BY <1>1
  <2>2. \A k \in 0 .. N : Equation(v, k)
    <3> HIDE DEF v
    <3>1. \A k \in 0 .. N : v[k] = w[k]
      BY DEF v
    <3> QED
      BY <1>5, <2>1, <3>1
  <2>3. \A k \in 0 .. N : v[k] = Rule(v)[k]
    <3> HIDE DEF v
    <3> QED
      BY <2>2
  <2>4. DOMAIN Rule(v) = 0 .. N /\ Rule(v) = [k \in 0 .. N |-> Rule(v)[k]]
    <3> HIDE DEF v
    <3> QED
      OBVIOUS
  <2>5. v = [k \in 0 .. N |-> v[k]]
    OBVIOUS
  <2>6. v = Rule(v)
    <3> HIDE DEF Rule, v
    <3>1. [k \in 0 .. N |-> v[k]] = [k \in 0 .. N |-> Rule(v)[k]]
      BY <2>3
    <3> QED
      BY <2>4, <2>5, <3>1
  <2> HIDE DEF Rule
  <2> QED
    BY <2>6
<1>7. Reading(text) = CHOOSE v : v = Rule(v)
  BY DEF Reading
<1> HIDE DEF Rule
<1>8. Reading(text) = Rule(Reading(text))
  BY <1>6, <1>7
<1> QED
  BY <1>1, <1>8 DEF Rule

(* As many fields have a text as there are up to the last.                    *)
LEMMA TextIs ==
    ASSUME NEW b, NEW text, text = ElementText(b)
    PROVE  /\ Len(text) \in 0 .. 5
           /\ \A i \in 1 .. Len(text) : text[i] = FieldText(b, FieldOrder[i])
           /\ \A i \in 1 .. 5 : i > Len(text) => b[FieldOrder[i]] = {}
<1> PICK there : there = {i \in DOMAIN FieldOrder : b[FieldOrder[i]] # {}}
  OBVIOUS
<1>1. there \subseteq 1 .. 5 /\ \A i \in 1 .. 5 : i \notin there => b[FieldOrder[i]] = {}
  BY FiveFields
<1>2. there # {} => \E i \in there : \A j \in there : j <= i
  <2>1. 1 .. 5 = {1, 2, 3, 4, 5}
    OBVIOUS
  <2>2. \/ 5 \in there
        \/ 5 \notin there /\ 4 \in there
        \/ 5 \notin there /\ 4 \notin there /\ 3 \in there
        \/ 5 \notin there /\ 4 \notin there /\ 3 \notin there /\ 2 \in there
        \/ there \subseteq {1}
    BY <1>1, <2>1
  <2>3. 5 \in there => \A j \in there : j <= 5
    BY <1>1
  <2>4. 5 \notin there /\ 4 \in there => \A j \in there : j <= 4
    BY <1>1, <2>1
  <2>5. 5 \notin there /\ 4 \notin there /\ 3 \in there => \A j \in there : j <= 3
    BY <1>1, <2>1
  <2>6. 5 \notin there /\ 4 \notin there /\ 3 \notin there /\ 2 \in there => \A j \in there : j <= 2
    BY <1>1, <2>1
  <2>7. there \subseteq {1} /\ there # {} => 1 \in there /\ \A j \in there : j <= 1
    OBVIOUS
  <2> QED
    BY <2>2, <2>3, <2>4, <2>5, <2>6, <2>7
<1> DEFINE upTo == IF there = {} THEN 0 ELSE CHOOSE i \in there : \A j \in there : j <= i
<1>3. upTo \in 0 .. 5 /\ \A j \in there : j <= upTo
  <2>1. CASE there = {}
    BY <2>1
  <2>2. CASE there # {}
    <3>1. upTo \in there /\ \A j \in there : j <= upTo
      BY <1>2, <2>2
    <3> HIDE DEF upTo
    <3> QED
      BY <1>1, <3>1
  <2> QED
    BY <2>1, <2>2
<1>4. text = [i \in 1 .. upTo |-> FieldText(b, FieldOrder[i])]
  BY DEF ElementText
<1> HIDE DEF upTo
<1>5. Len(text) = upTo
  BY <1>3, <1>4
<1>6. \A i \in 1 .. 5 : i > upTo => i \notin there
  BY <1>3
<1> QED
  BY <1>1, <1>3, <1>4, <1>5, <1>6

(* What is read of an element is what was written of it, if that fits.        *)
LEMMA ElementIsRead ==
    ASSUME NEW b \in WrittenElements, NEW text, text = ElementText(b),
           NEW builder, builder = Reading(text)[Len(text)], NEW h, h = Heard(b)
    PROVE  /\ (\A f \in Fields : FitsWord(b, f)) => builder = h
           /\ (\E f \in Fields : ~FitsWord(b, f)) => builder = Bad
           /\ h # Bad
<1> PICK N, run : N = Len(text) /\ run = Reading(text)
  OBVIOUS
<1>1. /\ N \in 0 .. 5 /\ N \in Nat
      /\ \A i \in 1 .. N : text[i] = FieldText(b, FieldOrder[i])
      /\ \A i \in 1 .. 5 : i > N => b[FieldOrder[i]] = {}
  <2>1. /\ Len(text) \in 0 .. 5
        /\ \A i \in 1 .. Len(text) : text[i] = FieldText(b, FieldOrder[i])
        /\ \A i \in 1 .. 5 : i > Len(text) => b[FieldOrder[i]] = {}
    BY TextIs
  <2>2. N \in 0 .. 5
    BY <2>1
  <2>3. N \in Nat
    BY <2>2
  <2>4. \A i \in 1 .. N : text[i] = FieldText(b, FieldOrder[i])
    BY <2>1
  <2>5. \A i \in 1 .. 5 : i > N => b[FieldOrder[i]] = {}
    BY <2>1
  <2> QED
    BY <2>2, <2>3, <2>4, <2>5
<1>2. /\ run[0] = NoField
      /\ \A n \in 1 .. N : run[n] = ReadField(run[n - 1], n, text[n])
  <2>1. Len(text) \in Nat /\ 1 .. N = 1 .. Len(text)
    BY <1>1
  <2>2. /\ Reading(text)[0] = NoField
        /\ \A n \in 1 .. Len(text) : Reading(text)[n] = ReadField(Reading(text)[n - 1], n, text[n])
    BY <2>1, ReadingIs
  <2> QED
    BY <2>1, <2>2
<1> DEFINE Fit(n) == \A i \in 1 .. n : FitsWord(b, FieldOrder[i])
           Good(n) == (Fit(n) => run[n] = Until(h, n)) /\ (~Fit(n) => run[n] = Bad)
           Reached == {n \in 0 .. N : Good(n)}
<1>3. 0 \in Reached
  <2>1. Until(h, 0) = NoField
    BY UntilIs
  <2>2. Fit(0)
    OBVIOUS
  <2>3. 0 \in 0 .. N
    BY <1>1
  <2> HIDE DEF Fit
  <2> QED
    BY <1>2, <2>1, <2>2, <2>3
<1>4. ASSUME NEW n \in 0 .. N, n \in Reached, n + 1 <= N
      PROVE  n + 1 \in Reached
  <2>1. n \in 0 .. 4 /\ n + 1 \in 1 .. N /\ n + 1 \in 1 .. 5 /\ n + 1 \in 0 .. N /\ (n + 1) - 1 = n
    BY <1>1, <1>4
  <2>2. run[n + 1] = ReadField(run[n], n + 1, FieldText(b, FieldOrder[n + 1]))
    BY <1>1, <1>2, <2>1
  <2>3. Fit(n + 1) <=> Fit(n) /\ FitsWord(b, FieldOrder[n + 1])
    <3>1. 1 .. (n + 1) = (1 .. n) \cup {n + 1}
      BY <2>1
    <3> QED
      BY <3>1
  <2>4. CASE ~Fit(n)
    <3> HIDE DEF Fit
    <3>1. run[n] = Bad
      BY <1>4, <2>4
    <3>2. run[n + 1] = Bad
      BY <2>2, <3>1 DEF ReadField
    <3> QED
      BY <2>1, <2>3, <2>4, <3>2
  <2>5. CASE Fit(n)
    <3> PICK u, next : u = Until(h, n) /\ next = ReadField(u, n + 1, FieldText(b, FieldOrder[n + 1]))
      OBVIOUS
    <3>1. next = run[n + 1]
      <4> HIDE DEF Fit
      <4>1. run[n] = u
        BY <1>4, <2>5
      <4> QED
        BY <2>2, <4>1
    <3>2. /\ IsBuilder(u) /\ u # Bad /\ u[FieldOrder[n + 1]] = {}
          /\ Until(h, n + 1) = [u EXCEPT ![FieldOrder[n + 1]] = h[FieldOrder[n + 1]]]
      BY <2>1, UntilIs
    <3>3. /\ FitsWord(b, FieldOrder[n + 1]) =>
                next = [u EXCEPT ![FieldOrder[n + 1]] = h[FieldOrder[n + 1]]]
          /\ ~FitsWord(b, FieldOrder[n + 1]) => next = Bad
      BY <2>1, <3>2, FieldIsRead
    <3>4. (FitsWord(b, FieldOrder[n + 1]) => run[n + 1] = Until(h, n + 1))
          /\ (~FitsWord(b, FieldOrder[n + 1]) => run[n + 1] = Bad)
      BY <3>1, <3>2, <3>3
    <3> HIDE DEF Fit
    <3> QED
      BY <2>1, <2>3, <2>5, <3>4
  <2> HIDE DEF Reached
  <2> QED
    BY <2>4, <2>5
<1>5. Good(N)
  <2> HIDE DEF Reached
  <2>1. 0 .. N \subseteq Reached
    BY <1>1, <1>3, <1>4, NumbersAreReached
  <2>2. N \in Reached
    BY <1>1, <2>1
  <2> HIDE DEF Good
  <2> QED
    BY <2>2 DEF Reached
<1>6. Fit(N) <=> \A f \in Fields : FitsWord(b, f)
  <2>1. \A i \in 1 .. 5 : i > N => FitsWord(b, FieldOrder[i])
    BY <1>1 DEF FitsWord
  <2>2. (\A f \in Fields : FitsWord(b, f)) <=> \A i \in 1 .. 5 : FitsWord(b, FieldOrder[i])
    BY FiveFields
  <2>3. \A i \in 1 .. 5 : i \in 1 .. N \/ i > N
    BY <1>1
  <2>4. \A i \in 1 .. N : i \in 1 .. 5
    BY <1>1
  <2> QED
    BY <2>1, <2>2, <2>3, <2>4
<1>7. Until(h, N) = h
  <2>1. h = [f \in Fields |-> h[f]]
    BY HeardIs
  <2>2. ASSUME NEW f \in Fields
        PROVE  (IF \E i \in 1 .. N : FieldOrder[i] = f THEN h[f] ELSE {}) = h[f]
    <3>1. PICK i \in 1 .. 5 : FieldOrder[i] = f
      BY FiveFields
    <3>2. i \in 1 .. N \/ h[f] = {}
      BY <1>1, <3>1, HeardIs
    <3> QED
      BY <3>1, <3>2
  <2>3. Until(h, N) = [f \in Fields |-> h[f]]
    BY <2>2 DEF Until
  <2> QED
    BY <2>1, <2>3
<1>8. h # Bad
  <2>1. DOMAIN h = Fields /\ "offset" \in Fields
    BY HeardIs, FiveFields
  <2> QED
    BY <2>1 DEF Bad
<1> HIDE DEF Fit
<1> QED
  BY <1>5, <1>6, <1>7, <1>8

(* The jump and the depth of a word, and the index.                           *)
LEMMA WordsHold ==
    ASSUME NEW jump \in {"in", "out", "regular"}, NEW depth \in Nat, depth < DepthLimit,
           NEW e, e.word = Packed(jump, depth)
    PROVE  JumpOf(e) = jump /\ DepthOf(e) = depth /\ e.word \in Nat
<1> PICK D : D = DepthLimit
  OBVIOUS
<1>1. D \in Nat \ {0}
  BY WordsAreWords
<1>2. PICK k \in {0, 1, 2} : Jumps[k + 1] = jump
  BY ThreeJumps
<1>3. (CHOOSE i \in DOMAIN Jumps : Jumps[i] = jump) = k + 1
  <2>1. k + 1 \in DOMAIN Jumps /\ \A i \in DOMAIN Jumps : Jumps[i] = jump => i = k + 1
    <3>1. DOMAIN Jumps = {1, 2, 3}
      BY ThreeJumps
    <3> QED
      BY <1>2, <3>1, ThreeJumps
  <2> QED
    BY <1>2, <2>1
<1>4. e.word = k * D + depth
  <2>1. ((k + 1) - 1) = k
    OBVIOUS
  <2> QED
    BY <1>3, <2>1 DEF Packed
<1>5. (k * D + depth) \div D = k /\ (k * D + depth) % D = depth /\ k * D + depth \in Nat
  <2>1. CASE k = 0
    BY <1>1, <2>1
  <2>2. CASE k = 1
    BY <1>1, <2>2
  <2>3. CASE k = 2
    BY <1>1, <2>3
  <2> QED
    BY <2>1, <2>2, <2>3
<1>6. e.word \div DepthLimit = k /\ e.word % DepthLimit = depth
  BY <1>4, <1>5
<1> QED
  BY <1>2, <1>4, <1>5, <1>6 DEF JumpOf, DepthOf

LEMMA IndexHolds ==
    ASSUME NEW n \in Nat \cup {-1}, n < WordLimit, NEW e, e.index = IF n = -1 THEN -1 ELSE Signed(n)
    PROVE  IndexOf(e) = IF n = WordLimit - 1 THEN -1 ELSE n
<1> PICK D : D = DepthLimit
  OBVIOUS
<1>1. D \in Nat \ {0} /\ WordLimit = 4 * D
  BY WordsAreWords DEF WordLimit
<1>2. CASE n = -1
  BY <1>1, <1>2 DEF IndexOf
<1>3. CASE n \in Nat /\ n < 2 * D
  <2>1. e.index = n
    BY <1>1, <1>3 DEF Signed
  <2>2. n % (4 * D) = n
    BY <1>1, <1>3
  <2> QED
    BY <1>1, <1>3, <2>1, <2>2 DEF IndexOf
<1>4. CASE n \in Nat /\ n >= 2 * D
  <2>1. e.index = n - 4 * D
    BY <1>1, <1>4 DEF Signed
  <2>2. (n - 4 * D) % (4 * D) = n
    BY <1>1, <1>4
  <2> QED
    BY <1>1, <1>4, <2>1, <2>2 DEF IndexOf
<1> QED
  BY <1>1, <1>2, <1>3, <1>4

LEMMA ValueIs ==
    ASSUME NEW option, NEW default
    PROVE  /\ option = {} => Value(option, default) = default
           /\ \A v : option = {v} => Value(option, default) = v
  BY DEF Value

LEMMA NumberIs ==
    ASSUME NEW option, NEW default \in Nat, option = {} \/ \E v : option = {v}, option \subseteq Nat
    PROVE  Value(option, default) \in Nat
  BY ValueIs

(* What was said last is what is written now, or what was said before.        *)
SaidOf(map, told, field) ==
    IF told = {} THEN Unsaid(field)
    ELSE Meant(field, CHOOSE v \in map[CHOOSE j \in told : \A k \in told : k <= j][field] : TRUE)

LEMMA SaidGoesOn ==
    ASSUME NEW map, NEW field, NEW i \in Nat
    PROVE  /\ Said(map, 0, field) = Unsaid(field)
           /\ map[i + 1][field] = {} => Said(map, i + 1, field) = Said(map, i, field)
           /\ \A v : map[i + 1][field] = {v} => Said(map, i + 1, field) = Meant(field, v)
<1> DEFINE Told(n) == {j \in 1 .. n : map[j][field] # {}}
<1>1. \A n : Said(map, n, field) = SaidOf(map, Told(n), field)
  BY DEF Said, SaidOf
<1>2. Said(map, 0, field) = Unsaid(field)
  <2>1. Told(0) = {}
    OBVIOUS
  <2> HIDE DEF Told
  <2> QED
    BY <1>1, <2>1 DEF SaidOf
<1> PICK before, option : before = Said(map, i, field) /\ option = map[i + 1][field]
  OBVIOUS
<1>3. 1 .. (i + 1) = (1 .. i) \cup {i + 1}
  OBVIOUS
<1>4. CASE option = {}
  <2>1. Told(i + 1) = Told(i)
    BY <1>3, <1>4
  <2> HIDE DEF Told
  <2>2. Said(map, i + 1, field) = before
    BY <1>1, <2>1
  <2> QED
    BY <1>2, <1>4, <2>2
<1>5. CASE option # {}
  <2>1. i + 1 \in Told(i + 1) /\ \A k \in Told(i + 1) : k <= i + 1
    BY <1>3, <1>5
  <2>2. \A m \in Told(i + 1) : (\A k \in Told(i + 1) : k <= m) => m = i + 1
    <3> SUFFICES ASSUME NEW m \in Told(i + 1), \A k \in Told(i + 1) : k <= m
                 PROVE  m = i + 1
      OBVIOUS
    <3>1. m <= i + 1 /\ i + 1 <= m /\ m \in Int
      BY <2>1
    <3> QED
      BY <3>1
  <2>3. PICK told : told = Told(i + 1)
    OBVIOUS
  <2>4. (CHOOSE m \in told : \A k \in told : k <= m) = i + 1
    <3> HIDE DEF Told
    <3> QED
      BY <2>1, <2>2, <2>3
  <2>5. told # {}
    BY <2>1, <2>3
  <2>6. SaidOf(map, told, field) = Meant(field, CHOOSE v \in option : TRUE)
    BY <2>4, <2>5 DEF SaidOf
  <2>7. Said(map, i + 1, field) = SaidOf(map, told, field)
    BY <1>1, <2>3
  <2> HIDE DEF Told
  <2>8. \A v : option = {v} => (CHOOSE x \in option : TRUE) = v
    OBVIOUS
  <2> QED
    BY <1>2, <1>5, <2>6, <2>7, <2>8
<1> QED
  BY <1>2, <1>4, <1>5

Tells(map, e, i) ==
    /\ e \in [offset : Nat, length : Nat, index : Int, word : Nat]
    /\ e.offset = Said(map, i, "offset") /\ e.length = Said(map, i, "length")
    /\ Said(map, i, "index") \in Nat \cup {-1} /\ Said(map, i, "index") < WordLimit
    /\ e.index = IF Said(map, i, "index") = -1 THEN -1 ELSE Signed(Said(map, i, "index"))
    /\ Said(map, i, "jump") \in {"in", "out", "regular"}
    /\ Said(map, i, "depth") \in Nat /\ Said(map, i, "depth") < DepthLimit
    /\ e.word = Packed(Said(map, i, "jump"), Said(map, i, "depth"))

LEMMA NothingTold == ASSUME NEW map PROVE Tells(map, Element, 0)
<1>1. /\ Said(map, 0, "offset") = 0 /\ Said(map, 0, "length") = 0 /\ Said(map, 0, "index") = -1
      /\ Said(map, 0, "jump") = "in" /\ Said(map, 0, "depth") = 0
  <2>1. \A field : Said(map, 0, field) = Unsaid(field)
    <3>1. 0 \in Nat
      OBVIOUS
    <3> QED
      BY <3>1, SaidGoesOn
  <2>2. /\ Unsaid("offset") = 0 /\ Unsaid("length") = 0 /\ Unsaid("index") = -1
        /\ Unsaid("jump") = "in" /\ Unsaid("depth") = 0
    BY DEF Unsaid
  <2> QED
    BY <2>1, <2>2
<1>2. DepthLimit > 0 /\ WordLimit > -1
  BY WordsAreWords DEF WordLimit
<1> PICK w : w = Packed("in", 0)
  OBVIOUS
<1>3. w \in Nat
  <2>1. PICK e : e = [word |-> w]
    OBVIOUS
  <2>2. e.word = Packed("in", 0)
    BY <2>1
  <2> QED
    BY <1>2, <2>1, <2>2, WordsHold
<1>4. Element = [offset |-> 0, length |-> 0, index |-> -1, word |-> w]
  BY DEF Element
<1> QED
  BY <1>1, <1>2, <1>3, <1>4 DEF Tells

LEMMA HeardFits ==
    ASSUME NEW b \in WrittenElements, NEW h, h = Heard(b)
    PROVE  /\ (\A d \in b["depth"] : d < DepthLimit) <=> (\A d \in h["depth"] : d < DepthLimit)
           /\ Fits(b) => \A v \in h["index"] : v < WordLimit
<1>1. DepthLimit \in Nat \ {0}
  BY WordsAreWords
<1>2. "depth" \in Fields \ {"jump"} /\ "index" \in Fields \ {"jump"}
  BY FiveFields
<1>3. /\ b["depth"] = {} \/ \E v \in Nat \cup {-1} : b["depth"] = {v}
      /\ b["index"] = {} \/ \E v \in Nat \cup {-1} : b["index"] = {v}
  <2>1. /\ b["depth"] \subseteq Nat \cup {-1} /\ b["index"] \subseteq Nat \cup {-1}
        /\ (b["depth"] = {} \/ \E v : b["depth"] = {v}) /\ (b["index"] = {} \/ \E v : b["index"] = {v})
    BY <1>2, OptionsAre
  <2> QED
    BY <2>1
<1>4. (\A d \in b["depth"] : d < DepthLimit) <=> (\A d \in h["depth"] : d < DepthLimit)
  <2>1. CASE b["depth"] = {}
    <3>1. h["depth"] = {}
      BY <1>2, <2>1, HeardIs
    <3> QED
      BY <2>1, <3>1
  <2>2. CASE b["depth"] # {}
    <3>1. PICK v \in Nat \cup {-1} : b["depth"] = {v}
      BY <1>3, <2>2
    <3>2. h["depth"] = {Meant("depth", v)}
      BY <1>2, <3>1, HeardIs
    <3>3. Meant("depth", v) = IF v = -1 THEN 0 ELSE v
      BY <1>2, MeantIs
    <3>4. v < DepthLimit <=> Meant("depth", v) < DepthLimit
      BY <1>1, <3>3
    <3> QED
      BY <3>1, <3>2, <3>4
  <2> QED
    BY <2>1, <2>2
<1>5. ASSUME Fits(b) PROVE \A v \in h["index"] : v < WordLimit
  <2>1. CASE b["index"] = {}
    <3>1. h["index"] = {}
      BY <1>2, <2>1, HeardIs
    <3> QED
      BY <3>1
  <2>2. CASE b["index"] # {}
    <3>1. PICK v \in Nat \cup {-1} : b["index"] = {v}
      BY <1>3, <2>2
    <3>2. h["index"] = {Meant("index", v)}
      BY <1>2, <3>1, HeardIs
    <3>3. Meant("index", v) = v
      BY <1>2, MeantIs
    <3>4. v < WordLimit
      BY <1>5, <3>1 DEF Fits
    <3> QED
      BY <3>2, <3>3, <3>4
  <2> QED
    BY <2>1, <2>2
<1> QED
  BY <1>4, <1>5

LEMMA FinishTells ==
    ASSUME NEW map, NEW prev, NEW i \in Nat, Tells(map, prev, i),
           NEW c \in WrittenElements, c = map[i + 1], Fits(c), NEW b, b = Heard(c),
           NEW e, e = Finish(b, prev)
    PROVE  Tells(map, e, i + 1)
<1>1. \A field \in Fields : Said(map, i + 1, field) = Value(b[field], Said(map, i, field))
  <2> TAKE field \in Fields
  <2>1. CASE c[field] = {}
    BY <2>1, SaidGoesOn, HeardIs, ValueIs
  <2>2. CASE c[field] # {}
    <3>1. PICK v : c[field] = {v}
      BY <2>2, OptionsAre
    <3>2. Said(map, i + 1, field) = Meant(field, v) /\ b[field] = {Meant(field, v)}
      BY <3>1, SaidGoesOn, HeardIs
    <3> QED
      BY <3>2, ValueIs
  <2> QED
    BY <2>1, <2>2
<1>2. JumpOf(prev) = Said(map, i, "jump") /\ DepthOf(prev) = Said(map, i, "depth")
  BY WordsHold DEF Tells
<1>3. \A f \in Fields : b[f] = {} \/ \E v : b[f] = {v}
  <2> TAKE f \in Fields
  <2>1. CASE c[f] = {}
    BY <2>1, HeardIs
  <2>2. CASE c[f] # {}
    <3>1. PICK v : c[f] = {v}
      BY <2>2, OptionsAre
    <3>2. b[f] = {Meant(f, v)}
      BY <3>1, HeardIs
    <3> QED
      BY <3>2
  <2> QED
    BY <2>1, <2>2
<1>4. "offset" \in Fields /\ "length" \in Fields /\ "index" \in Fields /\ "jump" \in Fields /\ "depth" \in Fields
  BY FiveFields
<1>5. DepthLimit \in Nat \ {0} /\ WordLimit = 4 * DepthLimit
  BY WordsAreWords DEF WordLimit
<1>6. b["depth"] \subseteq Nat /\ \A d \in b["depth"] : d < DepthLimit
  BY HeardIs, HeardFits DEF Fits
<1>7. b["index"] \subseteq Nat \cup {-1} /\ \A v \in b["index"] : v < WordLimit
  BY HeardIs, HeardFits
<1> PICK offset, length, index, jump, depth :
       /\ offset = Said(map, i + 1, "offset") /\ length = Said(map, i + 1, "length")
       /\ index = Said(map, i + 1, "index") /\ jump = Said(map, i + 1, "jump") /\ depth = Said(map, i + 1, "depth")
  OBVIOUS
<1>8. offset \in Nat /\ length \in Nat
  <2>1. b["offset"] \subseteq Nat /\ b["length"] \subseteq Nat
    BY HeardIs
  <2>2. Said(map, i, "offset") \in Nat /\ Said(map, i, "length") \in Nat
    BY DEF Tells
  <2>3. offset = Value(b["offset"], Said(map, i, "offset")) /\ length = Value(b["length"], Said(map, i, "length"))
    BY <1>1, <1>4
  <2>4. b["offset"] = {} \/ \E v : b["offset"] = {v}
    BY <1>3, <1>4
  <2>5. b["length"] = {} \/ \E v : b["length"] = {v}
    BY <1>3, <1>4
  <2>6. offset \in Nat
    BY <2>1, <2>2, <2>3, <2>4, NumberIs
  <2>7. length \in Nat
    BY <2>1, <2>2, <2>3, <2>5, NumberIs
  <2> QED
    BY <2>6, <2>7
<1>9. jump \in {"in", "out", "regular"}
  <2>1. b["jump"] = {} \/ \E v \in {"in", "out", "regular"} : b["jump"] = {v}
    <3>1. b["jump"] \subseteq {"in", "out", "regular"}
      BY HeardIs
    <3> QED
      BY <1>3, <1>4, <3>1
  <2>2. jump = Value(b["jump"], Said(map, i, "jump")) /\ Said(map, i, "jump") \in {"in", "out", "regular"}
    BY <1>1, <1>4 DEF Tells
  <2> QED
    BY <2>1, <2>2, ValueIs
<1>10. depth \in Nat /\ depth < DepthLimit
  <2>1. b["depth"] = {} \/ \E v \in Nat : b["depth"] = {v} /\ v < DepthLimit
    <3>1. b["depth"] \subseteq Nat /\ \A d \in b["depth"] : d < DepthLimit
      BY <1>6
    <3> QED
      BY <1>3, <1>4, <3>1
  <2>2. depth = Value(b["depth"], Said(map, i, "depth")) /\ Said(map, i, "depth") \in Nat /\ Said(map, i, "depth") < DepthLimit
    BY <1>1, <1>4 DEF Tells
  <2> QED
    BY <2>1, <2>2, ValueIs
<1>11. /\ index \in Nat \cup {-1} /\ index < WordLimit
      /\ (IF b["index"] = {} THEN prev.index ELSE Signed(Value(b["index"], 0)))
            = IF index = -1 THEN -1 ELSE Signed(index)
  <2>1. index = Value(b["index"], Said(map, i, "index"))
    BY <1>1, <1>4
  <2>2. CASE b["index"] = {}
    <3>1. index = Said(map, i, "index")
      BY <2>1, <2>2, ValueIs
    <3> QED
      BY <2>2, <3>1 DEF Tells
  <2>3. CASE b["index"] # {}
    <3>1. PICK v \in Nat \cup {-1} : b["index"] = {v} /\ v < WordLimit
      <4>1. b["index"] \subseteq Nat \cup {-1} /\ \A v \in b["index"] : v < WordLimit
        BY <1>7
      <4> QED
        BY <1>3, <1>4, <2>3, <4>1
    <3>2. index = v /\ Value(b["index"], 0) = v
      BY <2>1, <3>1, ValueIs
    <3>3. Signed(-1) = -1
      BY <1>5 DEF Signed
    <3> QED
      BY <2>3, <3>1, <3>2, <3>3
  <2> QED
    BY <2>2, <2>3
<1> PICK n, w : n = (IF index = -1 THEN -1 ELSE Signed(index)) /\ w = Packed(jump, depth)
  OBVIOUS
<1>12. n \in Int
  BY <1>5, <1>11 DEF Signed
<1>13. w \in Nat
  <2>1. PICK x : x = [word |-> w]
    OBVIOUS
  <2>2. x.word = Packed(jump, depth)
    BY <2>1
  <2> QED
    BY <1>9, <1>10, <2>1, <2>2, WordsHold
<1>14. e = [offset |-> offset, length |-> length, index |-> n, word |-> w]
  <2>1. /\ Value(b["offset"], prev.offset) = offset /\ Value(b["length"], prev.length) = length
        /\ Value(b["jump"], JumpOf(prev)) = jump /\ Value(b["depth"], DepthOf(prev)) = depth
    BY <1>1, <1>2, <1>4 DEF Tells
  <2> QED
    BY <1>11, <2>1 DEF Finish
<1> QED
  BY <1>8, <1>9, <1>10, <1>11, <1>12, <1>13, <1>14 DEF Tells

MapInv ==
    /\ \E n \in Nat : written \in [1 .. n -> WrittenElements]
    /\ elements \in Seq([offset : Nat, length : Nat, index : Int, word : Nat])
    /\ position \in 0 .. Len(written) /\ (ended <=> position = Len(written))
    /\ refused => \E i \in DOMAIN written : ~Fits(written[i])
    /\ ~refused =>
          /\ Len(elements) = position /\ Tells(written, last, position)
          /\ \A i \in 1 .. position : Fits(written[i]) /\ Tells(written, elements[i], i)

LEMMA WrittenIs ==
    ASSUME NEW n \in Nat, written \in [1 .. n -> WrittenElements]
    PROVE  Len(written) = n /\ DOMAIN written = 1 .. n
  OBVIOUS

LEMMA MapStart == MapInit => MapInv
<1> SUFFICES ASSUME MapInit PROVE MapInv
  OBVIOUS
<1>1. PICK n \in 0 .. MaxElements : written \in [1 .. n -> WrittenElements]
  BY DEF MapInit
<1>2. n \in Nat
  BY WordsAreWords
<1>3. Len(written) = n
  BY <1>1, <1>2, WrittenIs
<1>4. written = <<>> <=> n = 0
  BY <1>1, <1>2, <1>3
<1>5. position = 0 /\ (ended <=> written = <<>>) /\ last = Element /\ elements = <<>> /\ ~refused
  BY DEF MapInit
<1>6. Tells(written, last, position)
  BY <1>5, NothingTold
<1> QED
  BY <1>1, <1>2, <1>3, <1>4, <1>5, <1>6 DEF MapInv

(* finish and the reader together refuse what does not fit.                   *)
LEMMA RefusedAre ==
    ASSUME NEW b \in WrittenElements, NEW h, h = Heard(b)
    PROVE  Fits(b) <=> (\A f \in Fields : FitsWord(b, f)) /\ ~TooDeep(h)
<1>1. DepthLimit \in Nat \ {0} /\ WordLimit = 4 * DepthLimit
  BY WordsAreWords DEF WordLimit
<1>2. b["depth"] \subseteq Nat \cup {-1} /\ h["depth"] \subseteq Nat
  BY OptionsAre, HeardIs, FiveFields
<1>3. TooDeep(h) <=> \E d \in h["depth"] : ~(d < DepthLimit)
  BY <1>1, <1>2 DEF TooDeep
<1>4. TooDeep(h) <=> \E d \in b["depth"] : ~(d < DepthLimit)
  BY <1>3, HeardFits
<1>5. (\A d \in b["depth"] : d < DepthLimit) => \A d \in b["depth"] : d < WordLimit
  BY <1>1, <1>2
<1> QED
  BY <1>4, <1>5, FiveFields DEF Fits, FitsWord

LEMMA AppendIs ==
    ASSUME NEW S, NEW s \in Seq(S), NEW e \in S, NEW more, more = Append(s, e)
    PROVE  /\ more \in Seq(S) /\ Len(more) = Len(s) + 1 /\ more[Len(s) + 1] = e
           /\ \A i \in 1 .. Len(s) : more[i] = s[i]
  BY AppendProperties

LEMMA MapStep == MapInv /\ [MapNext]_mapVars => MapInv'
<1> SUFFICES ASSUME MapInv, [MapNext]_mapVars PROVE MapInv'
  OBVIOUS
<1>1. CASE UNCHANGED mapVars
  BY <1>1 DEF mapVars, MapInv
<1>2. CASE Advance
  <2>1. PICK n \in Nat : written \in [1 .. n -> WrittenElements]
    BY DEF MapInv
  <2>2. Len(written) = n /\ DOMAIN written = 1 .. n
    BY <2>1, WrittenIs
  <2> PICK p : p = position
    OBVIOUS
  <2>3. /\ ~refused /\ p \in 0 .. n /\ p # n /\ Len(elements) = p /\ Tells(written, last, p)
        /\ \A i \in 1 .. p : Fits(written[i]) /\ Tells(written, elements[i], i)
        /\ elements \in Seq([offset : Nat, length : Nat, index : Int, word : Nat])
    BY <1>2, <2>2 DEF MapInv, Advance
  <2>4. p + 1 \in 1 .. n /\ p + 1 \in 0 .. n /\ p \in Nat
    BY <2>3
  <2> PICK b, h, text, builder, e :
         /\ b = written[p + 1] /\ h = Heard(b) /\ text = ElementText(b)
         /\ builder = Reading(text)[Len(text)] /\ e = Finish(builder, last)
    OBVIOUS
  <2>5. /\ position' = p + 1 /\ ended' = (p + 1 = n) /\ written' = written
        /\ IF builder = Bad \/ TooDeep(builder)
           THEN refused' = TRUE /\ elements' = elements
           ELSE elements' = Append(elements, e) /\ last' = e /\ refused' = FALSE
    BY <1>2, <2>2 DEF Advance
  <2>6. b \in WrittenElements
    BY <2>1, <2>4
  <2>7. /\ (\A f \in Fields : FitsWord(b, f)) => builder = h
        /\ (\E f \in Fields : ~FitsWord(b, f)) => builder = Bad
        /\ h # Bad
    BY <2>6, ElementIsRead
  <2>8. Fits(b) <=> ~(builder = Bad \/ TooDeep(builder))
    BY <2>6, <2>7, RefusedAre
  <2>9. CASE ~Fits(b)
    <3>1. refused' /\ elements' = elements
      BY <2>5, <2>8, <2>9
    <3>2. \E i \in DOMAIN written : ~Fits(written[i])
      BY <2>2, <2>4, <2>9
    <3> QED
      BY <2>1, <2>2, <2>3, <2>4, <2>5, <3>1, <3>2 DEF MapInv
  <2>10. CASE Fits(b)
    <3>1. elements' = Append(elements, e) /\ last' = e /\ ~refused'
      BY <2>5, <2>8, <2>10
    <3>2. builder = h
      BY <2>6, <2>7, <2>10, RefusedAre
    <3>3. Tells(written, e, p + 1)
      BY <2>3, <2>4, <2>6, <2>10, <3>2, FinishTells
    <3>4. e \in [offset : Nat, length : Nat, index : Int, word : Nat]
      BY <3>3 DEF Tells
    <3>5. /\ elements' \in Seq([offset : Nat, length : Nat, index : Int, word : Nat])
          /\ Len(elements') = p + 1 /\ elements'[p + 1] = e
          /\ \A i \in 1 .. p : elements'[i] = elements[i]
      BY <2>3, <3>1, <3>4, AppendIs
    <3>6. \A i \in 1 .. (p + 1) : Fits(written[i]) /\ Tells(written, elements'[i], i)
      <4>1. \A i \in 1 .. (p + 1) : i \in 1 .. p \/ i = p + 1
        BY <2>4
      <4> QED
        BY <2>3, <2>10, <3>3, <3>5, <4>1
    <3>7. /\ Tells(written', last', position')
          /\ \A i \in 1 .. position' : Fits(written'[i]) /\ Tells(written', elements'[i], i)
      BY <2>5, <3>1, <3>3, <3>6
    <3> QED
      BY <2>1, <2>2, <2>4, <2>5, <3>1, <3>5, <3>7 DEF MapInv
  <2> QED
    BY <2>9, <2>10
<1> QED
  BY <1>1, <1>2 DEF MapNext

LEMMA MapFollows == MapInv => ParsedIsMap
<1> SUFFICES ASSUME MapInv PROVE ParsedIsMap
  OBVIOUS
<1>1. PICK n \in Nat : written \in [1 .. n -> WrittenElements]
  BY DEF MapInv
<1>2. Len(written) = n /\ DOMAIN written = 1 .. n
  BY <1>1, WrittenIs
<1>3. ASSUME NEW e, NEW i, Tells(written, e, i)
      PROVE  /\ <<e.offset, e.length>> = <<Said(written, i, "offset"), Said(written, i, "length")>>
             /\ <<IndexOf(e), JumpOf(e), DepthOf(e)>> = <<SaidIndex(written, i), Said(written, i, "jump"), Said(written, i, "depth")>>
  <2>1. JumpOf(e) = Said(written, i, "jump") /\ DepthOf(e) = Said(written, i, "depth")
    BY <1>3, WordsHold DEF Tells
  <2>2. IndexOf(e) = SaidIndex(written, i)
    BY <1>3, IndexHolds DEF Tells, SaidIndex
  <2> QED
    BY <1>3, <2>1, <2>2 DEF Tells
<1>4. ASSUME ~refused, ended
      PROVE  /\ Len(elements) = Len(written)
             /\ \A i \in DOMAIN written : Fits(written[i]) /\ Tells(written, elements[i], i)
  BY <1>2, <1>4 DEF MapInv
<1> QED
  BY <1>3, <1>4 DEF ParsedIsMap, MapInv

(* Parser::advance (artifacts/solc/src/sourcemap.rs:463): a source map is read as it was   *)
(* written, however many elements of whatever values, or refused because a number does    *)
(* not fit.                                                                                *)
THEOREM MapsAreRead == MapSpec => []ParsedIsMap
<1>1. MapSpec => []MapInv
  BY MapStart, MapStep, PTL DEF MapSpec
<1> QED
  BY <1>1, MapFollows, PTL

=============================================================================
