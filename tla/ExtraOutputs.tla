----------------------------- MODULE ExtraOutputs -----------------------------
(***************************************************************************)
(* What an artifact holds and which files are written next to it           *)
(* (artifact_output/configurable.rs, and the output selection it asks of   *)
(* the compiler).  One contract is compiled for several units, a compiler  *)
(* version and a profile each.  Its source is edited and the options are   *)
(* changed between builds; a build compiles all units or reads all of them *)
(* from the cache, as missing_extra_files makes every source dirty when    *)
(* one artifact lacks what a file is to be written from (cache.rs:1002).   *)
(*                                                                         *)
(* An extra file on disk is either of the current source or stale.         *)
(***************************************************************************)
EXTENDS Naturals, Sequences, FiniteSets

CONSTANTS
    UnitOrder,    \* sequence of <<version, profile>>
    Selections,   \* the sets of output names that may be configured
    Emits         \* what this compiler has an output for

VARIABLES
    values,       \* ExtraOutputValues: what to keep in the artifact
    extras,       \* ExtraOutputFiles: what to write to a file of its own
    requested,    \* the output selection of the settings in the cache
    artifact,     \* [unit -> what its cached artifact holds], {}: none, or of an older source
    current,      \* the <<unit, extra>> whose file on disk is of the current source
    lastBuild     \* "none", "compiled" or "cached": since the last change

extraVars == <<values, extras, requested, artifact, current, lastBuild>>

Units == {UnitOrder[i] : i \in DOMAIN UnitOrder}
NoArtifact == {}

(***************************************************************************)
(* Options.                                                                *)
(***************************************************************************)
\* "evm" stands for everything below it.
EvmValues == {"assembly", "legacyAssembly", "gasEstimates", "methodIdentifiers",
              "generatedSources", "sourceMap", "opcodes"}
EvmFiles == {"assembly", "legacyAssembly", "generatedSources", "sourceMap", "bin", "deployedBin"}

\* Each named value; not the abi, which every artifact has, nor the bytecode.
AllValues == EvmValues \cup {"ast", "userdoc", "devdoc", "storageLayout", "transientStorageLayout",
                             "metadata", "ir", "irOptimized", "irOptimizedAst", "ewasm",
                             "functionDebugData"}
AllFiles == EvmFiles \cup {"abi", "metadata", "ir", "irOptimized", "ewasm"}

ValuesOf(selection) ==
    (selection \cap (AllValues \ {"ast"})) \cup (IF "evm" \in selection THEN EvmValues ELSE {})
FilesOf(selection) ==
    (selection \cap AllFiles) \cup (IF "evm" \in selection THEN EvmFiles ELSE {})

\* ContractOutputSelection::basic
Basic == {"abi", "bin", "sourceMap", "linkReferences", "deployedBin", "methodIdentifiers"}

\* What is asked of the compiler: values, and the outputs that only a file is written from.
OutputSelection(vs, fs) ==
    Basic \cup vs
    \cup (fs \cap {"ir", "irOptimized", "metadata", "assembly", "legacyAssembly", "ewasm"})

(***************************************************************************)
(* From the compiler's contract to the artifact and the extra files.       *)
(***************************************************************************)
Emitted == OutputSelection(values, extras) \cap Emits

\* contract_to_artifact: always the abi, the bytecode with its source map and the identifiers.
Kept(contract) ==
    contract \cap (values \cup {"abi", "bin", "sourceMap", "deployedBin", "methodIdentifiers"})

\* Every process_* function writes its file when it is asked for and there is content;
\* the list of generated sources is never absent, only empty.
Writable(has) == extras \cap (has \cup {"generatedSources"})

\* Artifacts::find_artifact: the first artifact of the version.
FindArtifact(unit) ==
    UnitOrder[CHOOSE i \in DOMAIN UnitOrder :
                /\ UnitOrder[i][1] = unit[1]
                /\ \A j \in 1 .. i - 1 : UnitOrder[j][1] # unit[1]]

\* handle_artifacts
HandleArtifacts(contract) == {<<FindArtifact(u), k>> : u \in Units, k \in Writable(contract)}

\* handle_cached_artifacts
HandleCached == UNION {{<<u, k>> : k \in Writable(artifact[u])} : u \in Units}

\* A mutant: the optimized ir is not looked for.
IsDirtyButIr(a) ==
    \/ ~(extras \cap {"metadata", "ewasm", "assembly", "legacyAssembly", "sourceMap"}
            \subseteq a)
    \/ "generatedSources" \in extras

\* ConfigurableArtifacts::is_dirty: data an extra file is written from is not in the artifact.
IsDirty(a) ==
    \/ ~(extras \cap {"metadata", "ir", "irOptimized", "ewasm", "assembly", "legacyAssembly",
                      "sourceMap"} \subseteq a)
    \/ "generatedSources" \in extras

(***************************************************************************)
(* Steps.                                                                  *)
(***************************************************************************)
ExtraInit ==
    /\ \E v, f \in Selections : values = ValuesOf(v) /\ extras = FilesOf(f)
    /\ requested = {}
    /\ artifact = [u \in Units |-> NoArtifact]
    /\ current = {}
    /\ lastBuild = "none"

Configure ==
    /\ \E v, f \in Selections : values' = ValuesOf(v) /\ extras' = FilesOf(f)
    /\ lastBuild' = "none"
    /\ UNCHANGED <<requested, artifact, current>>

\* The source changes: the cache drops its entry, and the files on disk are stale.
Edit ==
    /\ artifact' = [u \in Units |-> NoArtifact]
    /\ current' = {}
    /\ lastBuild' = "none"
    /\ UNCHANGED <<values, extras, requested>>

\* can_use_cached: the cached settings asked for at least as much.
CanUseCached == OutputSelection(values, extras) \subseteq requested

MustCompile ==
    \/ ~CanUseCached
    \/ \E u \in Units : artifact[u] = NoArtifact
    \/ \E u \in Units : IsDirty(artifact[u])

\* The settings in the cache are replaced only when they could not be used.
BuildCompiling ==
    /\ MustCompile
    /\ artifact' = [u \in Units |-> Kept(Emitted)]
    /\ current' = current \cup HandleArtifacts(Emitted)
    /\ requested' = IF CanUseCached THEN requested ELSE OutputSelection(values, extras)
    /\ lastBuild' = "compiled"
    /\ UNCHANGED <<values, extras>>

BuildFromCache ==
    /\ ~MustCompile
    /\ current' = current \cup HandleCached
    /\ lastBuild' = "cached"
    /\ UNCHANGED <<values, extras, requested, artifact>>

ExtraNext == Configure \/ Edit \/ BuildCompiling \/ BuildFromCache

ExtraSpec == ExtraInit /\ [][ExtraNext]_extraVars

(***************************************************************************)
(* Properties                                                              *)
(***************************************************************************)
\* After a build every extra file that is asked for, and that the compiler has an output for, is
\* on disk and is of the current source, whether the build compiled or not.  For the first unit
\* of a version only: the extra files of another profile of that version overwrite those of the
\* first (configurable.rs:175, Artifacts::find_artifact).
ExtrasCurrent ==
    lastBuild # "none" =>
        \A u \in Units, k \in extras :
            FindArtifact(u) = u /\ (k \in Emits \/ k = "generatedSources") =>
                <<u, k>> \in current

=============================================================================
