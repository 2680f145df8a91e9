---------------------------- MODULE CompilerInputs ----------------------------
(***************************************************************************)
(* From a project's settings to what a compiler is given and what comes    *)
(* back (CompilerSources::compile, filter.rs, compilers/, and the settings *)
(* of artifacts/).  A build compares its settings with those its cache was *)
(* compiled with, then runs one compiler for each language: only the files *)
(* without a usable artifact, and of those only the ones a filter lets     *)
(* through and the libraries they link to, are asked for output; the       *)
(* others go along as imports.                                             *)
(*                                                                         *)
(* A path is <<"abs", f>> or, once the project's root was stripped from a  *)
(* file below it, <<"rel", f>>; <<"*">> is every file.  Settings name the  *)
(* outputs of a file by contract, "*" for all and "" for the file itself;  *)
(* 0 is an EVM version that is not set, 1 all up to Byzantium; version     *)
(* 0.8.10 of a compiler is 810.                                            *)
(***************************************************************************)
EXTENDS Naturals, Sequences, FiniteSets, FiniteSetsExt, Functions, TLC

CONSTANTS
    SourceFiles,
    ImportsOf,      \* [file -> the files it imports, directly or not]
    LanguageOf,     \* [file -> "Solidity", "Yul" or "Vyper"]
    Libraries,      \* files that declare a library
    Interfaces,     \* .vyi files
    Outsiders,      \* files that are not below the project's root
    Configs,        \* what a user may choose: settings of solc, vyper and the project's remappings
    Patterns,       \* the sets of files a custom filter may match
    SolidityTools,  \* subset of {"solc", "resolc"}: the compiler of Solidity and Yul
    VersionOf,      \* [language -> compiler version]
    Since,          \* [option -> the version that introduced it], solc
    EvmSince,       \* the versions that introduced the EVM versions 1, 2, ...
    ResolcKnows,    \* outputs resolc can be asked for
    VyperLacks,     \* outputs Vyper cannot be asked for
    MaxConfigures, MaxEdits  \* bounds on what a user does

ASSUME ConfigsAreSettings ==
    \A c \in Configs :
        /\ DOMAIN c = {"solc", "vyper", "remappings", "includes"}
        /\ DOMAIN c.solc = {"select", "options", "evm", "remappings", "libs", "args"}
        /\ DOMAIN c.vyper = {"select", "evm", "search"}
        /\ c.solc.evm \in 0 .. Len(EvmSince)
ASSUME CompilersHaveVersions == VersionOf \in [{"Solidity", "Yul", "Vyper"} -> Nat]
\* A newer EVM version is known to no older compiler (normalize_version_solc).
ASSUME EvmVersionsAreOrdered ==
    /\ EvmSince \in Seq(Nat) /\ EvmSince # <<>>
    /\ \A i, j \in DOMAIN EvmSince : i <= j => EvmSince[i] <= EvmSince[j]

\* The options Settings::sanitize drops, and before which version of solc.
DroppedBefore ==
    [bytecodeHash |-> 600, debug |-> 600, viaIR |-> 705, inliner |-> 805, modelChecker |-> 807,
     debugInfo |-> 810, invariants |-> 810, cborMetadata |-> 818, eld |-> 818,
     showProvedSafe |-> 820, showUnsupported |-> 820]

\* An option that goes with the one it is part of.
PartOf ==
    [debugInfo |-> "debug", revertStrings |-> "debug", invariants |-> "modelChecker",
     eld |-> "modelChecker", showProvedSafe |-> "modelChecker", showUnsupported |-> "modelChecker"]

\* solc knew an option no later than that.
ASSUME OptionsHaveVersions ==
    \A o \in DOMAIN DroppedBefore :
        o \in DOMAIN Since /\ Since[o] \in Nat /\ Since[o] <= DroppedBefore[o]

VARIABLES
    config, pattern, tool,
    cachedConfig,   \* the settings in the cache, {} before there is one
    held,           \* [file -> its artifact on disk]
    kept,           \* those this build may use
    done,           \* the jobs' artifacts of this build
    jobs,           \* languages this build still has to compile
    stage,          \* "idle", "job", "selected", "built", "stripped"
    sources,        \* [file -> TRUE: complete, FALSE: optimized] of the job
    wanted,         \* actually_dirty
    input,
    configures, edits

inputVars == <<config, pattern, tool, cachedConfig, held, kept, done, jobs, stage, sources, wanted,
               input, configures, edits>>

Tools == {"solc", "vyper"}
Star == <<"*">>
NoInput == [language |-> "none"]
Abs(f) == <<"abs", f>>
\* strip_prefix of the project's root
Relative(key) == IF key[1] = "abs" /\ key[2] \notin Outsiders THEN <<"rel", key[2]>> ELSE key
Tool(language) == IF language = "Vyper" THEN "vyper" ELSE "solc"
MapKeys(m, Key(_)) ==
    [k \in {Key(o) : o \in DOMAIN m} |-> m[CHOOSE o \in DOMAIN m : Key(o) = k]]
\* What is new replaces what is old.
Over(new, old) ==
    [k \in DOMAIN new \cup DOMAIN old |-> IF k \in DOMAIN new THEN new[k] ELSE old[k]]
EachOutput(select, Keep(_)) ==
    [k \in DOMAIN select |-> [c \in DOMAIN select[k] |-> Keep(select[k][c])]]

(***************************************************************************)
(* Settings.                                                               *)
(***************************************************************************)
\* OutputSelection::is_subset_of
Subset(a, b) ==
    \A k \in DOMAIN a : k \in DOMAIN b /\
        \A c \in DOMAIN a[k] : c \in DOMAIN b[k] /\ a[k][c] \subseteq b[k][c]

\* The settings but for the outputs and the arguments of the command line.
Effect(s) == [s EXCEPT !.select = <<>>, !.args = {}]
VyperEffect(s) == [s EXCEPT !.select = <<>>]

\* A mutant: only the settings of solc are compared.
UsableForSolc(now, cached) ==
    /\ Effect(now.solc) = Effect(cached.solc)
    /\ \A t \in Tools : Subset(now[t].select, cached[t].select)

\* can_use_cached of the settings of each compiler.
UsableFor(now, cached) ==
    /\ Effect(now.solc) = Effect(cached.solc)
    /\ VyperEffect(now.vyper) = VyperEffect(cached.vyper)
    /\ \A t \in Tools : Subset(now[t].select, cached[t].select)

\* A mutant: a compiler that is not the newest gets the version it introduced itself.
NormalizedNewest(evm, version) ==
    IF version < EvmSince[1] THEN 0
    ELSE IF version >= EvmSince[Len(EvmSince)] THEN evm
    ELSE Max({e \in DOMAIN EvmSince : version >= EvmSince[e]})

\* EvmVersion::normalize_version_solc: compilers before 0.4.21 cannot be told one.
Normalized(evm, version) ==
    IF version < EvmSince[1] THEN 0
    ELSE IF version >= EvmSince[Len(EvmSince)] THEN evm
    ELSE Max({e \in DOMAIN EvmSince : evm >= e /\ version >= EvmSince[e]})

\* An option that sanitize says nothing of is taken by every version.
Takes(version, option) ==
    \A o \in {option} \cup {PartOf[x] : x \in {option} \cap DOMAIN PartOf} :
        o \in DOMAIN DroppedBefore => version >= DroppedBefore[o]

\* Settings::sanitize and SolcInput::new.
Sanitized(s, language) ==
    [s EXCEPT !.options = {o \in @ : Takes(VersionOf[language], o)},
              !.evm = IF @ = 0 THEN 0 ELSE Normalized(@, VersionOf[language]),
              !.remappings = IF language = "Yul" THEN {} ELSE @]

\* VyperSettings::sanitize_output_selection: nothing chosen becomes the abi.
SanitizedOutputs(select) ==
    EachOutput(select, LAMBDA outs : (IF outs = {} THEN {"abi"} ELSE outs) \ VyperLacks)

\* Settings::strip_prefix
StrippedSettings(s) ==
    [s EXCEPT !.select = MapKeys(@, Relative),
              !.libs = {Relative(k) : k \in @},
              !.remappings = {Relative(k) : k \in @}]
\* VyperSettings::strip_prefix
StrippedVyper(s) ==
    [s EXCEPT !.select = MapKeys(@, Relative), !.search = {Relative(k) : k \in @}]

(***************************************************************************)
(* The user, and the beginning of a build.                                 *)
(***************************************************************************)
InputInit ==
    /\ config \in Configs /\ pattern \in Patterns /\ tool \in SolidityTools
    /\ cachedConfig = {}
    /\ held = <<>> /\ kept = <<>> /\ done = <<>>
    /\ jobs = <<>> /\ stage = "idle"
    /\ sources = <<>> /\ wanted = {} /\ input = NoInput
    /\ configures = 0 /\ edits = 0

ConfigureInputs ==
    /\ stage = "idle" /\ configures < MaxConfigures
    /\ config' \in Configs /\ pattern' \in Patterns
    /\ configures' = configures + 1
    /\ UNCHANGED <<tool, cachedConfig, held, kept, done, jobs, stage, sources, wanted, input, edits>>

\* A file changes: it and its importers lose their artifacts in the next build.
EditSource ==
    /\ stage = "idle" /\ edits < MaxEdits
    /\ \E f \in SourceFiles :
           held' = Restrict(held, {g \in DOMAIN held : g # f /\ f \notin ImportsOf[g]})
    /\ edits' = edits + 1
    /\ UNCHANGED <<config, pattern, tool, cachedConfig, kept, done, jobs, stage, sources, wanted,
                   input, configures>>

\* find_and_remove_dirty: a profile whose settings the cache cannot serve loses its artifacts.
BeginBuild ==
    /\ stage = "idle"
    /\ kept' = IF \A c \in cachedConfig : UsableFor(config, c) THEN held ELSE <<>>
    /\ jobs' = <<"Solidity", "Yul", "Vyper">>
    /\ stage' = "job"
    /\ UNCHANGED <<config, pattern, tool, cachedConfig, held, done, sources, wanted, input,
                   configures, edits>>

(***************************************************************************)
(* One job.                                                                *)
(***************************************************************************)
\* ArtifactsCacheInner::filter: complete without an artifact, optimized when imported by such.
Filtered(language) ==
    LET all == {f \in SourceFiles : LanguageOf[f] = language}
        complete == all \ DOMAIN kept
    IN [f \in complete \cup (all \cap UNION {ImportsOf[g] : g \in complete}) |-> f \in complete]

\* compilation_dependencies: every library a Solidity file reaches.
Dependencies(f) == {g \in ImportsOf[f] : LanguageOf[f] = "Solidity" /\ g \in Libraries}

\* A mutant: libraries are left to the filter.
FullCompilationFiltered(srcs) == {f \in DOMAIN srcs : srcs[f] /\ f \in pattern}

\* sparse_sources
FullCompilation(srcs) ==
    {f \in UNION {{g} \cup Dependencies(g) : g \in {x \in DOMAIN srcs : srcs[x] /\ x \in pattern}} :
        f \in DOMAIN srcs /\ srcs[f]}

\* update_output_selection: each file has its own, none has an empty one.
Selection(s, srcs, full) ==
    LET default == IF Star \in DOMAIN s.select THEN s.select[Star]
                   ELSE ("*" :> {"abi", "bin"})
    IN [k \in (DOMAIN s.select \ {Star}) \cup {Abs(f) : f \in DOMAIN srcs} |->
            IF k \in {Abs(f) : f \in DOMAIN srcs}
            THEN IF k[2] \in full THEN default ELSE <<>>
            ELSE s.select[k]]

\* with_remappings, with_include_paths: the project's replace those of the settings.
Configured(language) ==
    IF Tool(language) = "solc" THEN [config.solc EXCEPT !.remappings = config.remappings]
    ELSE [config.vyper EXCEPT !.search = config.includes]

SelectOutput ==
    /\ stage = "job" /\ jobs # <<>>
    /\ LET srcs == Filtered(Head(jobs))
           full == FullCompilation(srcs)
       IN IF full = {}
          THEN /\ jobs' = Tail(jobs)
               /\ UNCHANGED <<stage, sources, wanted, input>>
          ELSE /\ stage' = "selected"
               /\ sources' = srcs
               /\ wanted' = full
               /\ LET s == Configured(Head(jobs)) IN
                  input' = [language |-> Head(jobs), names |-> {Abs(f) : f \in DOMAIN srcs},
                            interfaces |-> {},
                            settings |-> [s EXCEPT !.select = Selection(s, srcs, full)]]
               /\ UNCHANGED jobs
    /\ UNCHANGED <<config, pattern, tool, cachedConfig, held, kept, done, configures, edits>>

\* CompilerInput::build of each language.
BuiltVyper(in) ==
    LET vyi == {k \in in.names : k[2] \in Interfaces}
        rest == [k \in DOMAIN in.settings.select \ vyi |-> in.settings.select[k]]
    IN [in EXCEPT !.names = @ \ vyi, !.interfaces = vyi,
                  !.settings.select = SanitizedOutputs(rest)]
BuiltSolc(in) == [in EXCEPT !.settings = Sanitized(@, in.language)]

\* ResolcVersionedInput::build
BuiltResolc(in) ==
    [in EXCEPT !.settings =
        LET s == Sanitized(@, in.language)
        IN [s EXCEPT !.select = EachOutput(@, LAMBDA outs : outs \cap ResolcKnows)]]

BuildInput ==
    /\ stage = "selected"
    /\ input' = IF input.language = "Vyper" THEN BuiltVyper(input) ELSE BuiltSolc(input)
    /\ stage' = "built"
    /\ UNCHANGED <<config, pattern, tool, cachedConfig, held, kept, done, jobs, sources, wanted,
                   configures, edits>>

StripInput(in) ==
    [in EXCEPT !.names = {Relative(k) : k \in @}, !.interfaces = {Relative(k) : k \in @},
               !.settings = IF in.language = "Vyper" THEN StrippedVyper(@)
                            ELSE StrippedSettings(@)]

StripPrefix ==
    /\ stage = "built"
    /\ input' = StripInput(input)
    /\ stage' = "stripped"
    /\ UNCHANGED <<config, pattern, tool, cachedConfig, held, kept, done, jobs, sources, wanted,
                   configures, edits>>

\* MultiCompiler::compile: resolc's input is built of the one for solc.
Handed ==
    IF tool = "resolc" /\ input.language # "Vyper" THEN BuiltResolc(input) ELSE input

\* The compiler: for each file what is selected for it and for all.
Chosen(select, key) ==
    UNION {UNION {select[k][c] : c \in DOMAIN select[k]} : k \in DOMAIN select \cap {key, Star}}
Given(key) == IF key \in Handed.names THEN Chosen(Handed.settings.select, key) ELSE {}

\* Output of files that are not wanted is dropped, names are absolute again.  A wanted file is
\* marked as seen even when there is no output of it.
Compared(language) ==
    IF Tool(language) = "solc" THEN Effect(config.solc) ELSE VyperEffect(config.vyper)

RunCompiler ==
    /\ stage = "stripped"
    /\ ~(tool = "resolc" /\ input.language = "Yul")
    /\ done' = Over([f \in wanted |-> [outs |-> Given(Relative(Abs(f))),
                                       under |-> Compared(input.language)]], done)
    /\ jobs' = Tail(jobs)
    /\ stage' = "job"
    /\ sources' = <<>> /\ wanted' = {} /\ input' = NoInput
    /\ UNCHANGED <<config, pattern, tool, cachedConfig, held, kept, configures, edits>>

\* Yul cannot be read back from resolc: the whole build fails.
ResolcYulFails ==
    /\ stage = "stripped" /\ tool = "resolc" /\ input.language = "Yul"
    /\ jobs' = <<>> /\ kept' = <<>> /\ done' = <<>>
    /\ stage' = "idle"
    /\ sources' = <<>> /\ wanted' = {} /\ input' = NoInput
    /\ UNCHANGED <<config, pattern, tool, cachedConfig, held, configures, edits>>

\* A profile the cache could serve keeps its settings, also when they ask for more.
FinishBuild ==
    /\ stage = "job" /\ jobs = <<>>
    /\ held' = Over(done, kept)
    /\ cachedConfig' = IF \E c \in cachedConfig : UsableFor(config, c) THEN cachedConfig ELSE {config}
    /\ stage' = "idle"
    /\ kept' = <<>> /\ done' = <<>>
    /\ UNCHANGED <<config, pattern, tool, jobs, sources, wanted, input, configures, edits>>

InputNext ==
    \/ ConfigureInputs \/ EditSource \/ BeginBuild \/ SelectOutput \/ BuildInput \/ StripPrefix
    \/ RunCompiler \/ ResolcYulFails \/ FinishBuild

InputSpec == InputInit /\ [][InputNext]_inputVars

(***************************************************************************)
(* Properties.                                                             *)
(***************************************************************************)
\* The outputs of f the settings ask for, of those its compiler can be asked for.
Asked(f) ==
    LET select == config[Tool(LanguageOf[f])].select
        all == IF Star \in DOMAIN select THEN select[Star] ELSE ("*" :> {"abi", "bin"})
        outs == UNION {all[c] : c \in DOMAIN all}
    IN IF f \in Interfaces THEN {}
       ELSE IF LanguageOf[f] = "Vyper" THEN outs \ VyperLacks
       ELSE IF tool = "resolc" THEN outs \cap ResolcKnows
       ELSE outs

\* The compiler is asked, under the name it is given the file by, for all the settings ask of
\* each file that has to be compiled and that the filter matches, and of each library such a
\* file may have to be linked to: neither the filter, nor the outputs a compiler does not know,
\* nor the stripped paths lose any.
WantedIsCompiled ==
    stage = "stripped" =>
        \A f \in DOMAIN sources :
            /\ sources[f]
            /\ f \in pattern
               \/ \E g \in DOMAIN sources \cap pattern : sources[g] /\ f \in Dependencies(g)
            => f \in wanted /\ Asked(f) \subseteq Given(Relative(Abs(f)))

\* Files that only go along as imports produce nothing: their artifacts would replace those in
\* the cache, or those a filter keeps from being compiled.
OthersAreSilent ==
    stage = "stripped" => \A f \in SourceFiles \ wanted : Given(Relative(Abs(f))) = {}

\* A build asks for what is missing, all of it and nothing else.
AskedExactly == WantedIsCompiled /\ OthersAreSilent

\* A compiler is handed nothing its version does not know: no newer option, no EVM version but
\* the newest it has up to the one chosen, no remappings for Yul, no outputs of another compiler;
\* a library is linked under the name its source has in the same input.  Excepted are the options
\* sanitize has no version for (eof_version, simple_counter_for_loop_unchecked_increment), which
\* every solc is handed; and Vyper's EVM version and search paths, which every Vyper is handed as
\* they were chosen.
InputAccepted ==
    stage = "stripped" =>
        LET s == Handed.settings
            version == VersionOf[input.language]
            evm == config.solc.evm
        IN IF input.language = "Vyper"
           THEN /\ \A k \in DOMAIN s.select : \A c \in DOMAIN s.select[k] :
                       s.select[k][c] \cap VyperLacks = {}
                /\ Handed.interfaces \cap DOMAIN s.select = {}
                /\ s.evm = config.vyper.evm /\ s.search = {Relative(k) : k \in config.includes}
           ELSE /\ \A o \in s.options \cap DOMAIN DroppedBefore : version >= Since[o]
                /\ s.evm <= evm /\ (s.evm # 0 => version >= EvmSince[s.evm])
                /\ \A e \in 1 .. evm : version >= EvmSince[e] => s.evm >= e
                /\ input.language = "Yul" => s.remappings = {}
                /\ tool = "resolc" => \A k \in DOMAIN s.select : \A c \in DOMAIN s.select[k] :
                                          s.select[k][c] \subseteq ResolcKnows
                /\ \A f \in DOMAIN sources :
                       Abs(f) \in config.solc.libs =>
                           Relative(Abs(f)) \in s.libs \cap Handed.names

\* Whatever the settings were before, with whatever they were replaced and how many files were
\* compiled in between: a build never mixes artifacts of different settings.
OneConfiguration ==
    stage # "idle" =>
        \A f \in DOMAIN Over(done, kept) :
            Over(done, kept)[f].under = Compared(LanguageOf[f])

\* An artifact that is reused has all the outputs the settings ask for.  It need not: the cache
\* keeps the settings that asked for more while files are compiled with those that ask for less.
ReusedHasOutputs ==
    stage # "idle" => \A f \in DOMAIN kept : Asked(f) \subseteq kept[f].outs
=============================================================================
