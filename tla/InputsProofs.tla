---------------------------- MODULE InputsProofs ----------------------------
(***************************************************************************)
(* Proofs about what compilers are handed: their inputs (CompilerInputs),  *)
(* for any project, settings, compilers and sequence of builds; and that   *)
(* with a preprocessor what is not handed to them is current               *)
(* (DirtySources).                                                         *)
(***************************************************************************)
EXTENDS CompilerInputs, DirtySources, SequenceLemmas

-----------------------------------------------------------------------------
(* Inputs of compilers.                                                        *)

JobLanguages == {"Solidity", "Yul", "Vyper"}
JobStages == {"selected", "built", "stripped"}

(* What the compared settings of a configuration are for a language. *)
ComparedIn(c, language) ==
    IF Tool(language) = "solc" THEN Effect(c.solc) ELSE VyperEffect(c.vyper)

(* The input of the job of a language, at each stage. *)
SelectedInput(language) ==
    LET s == Configured(language)
    IN [language |-> language, names |-> {Abs(f) : f \in DOMAIN sources}, interfaces |-> {},
        settings |-> [s EXCEPT !.select = Selection(s, sources, wanted)]]
BuiltInput(language) ==
    IF language = "Vyper" THEN BuiltVyper(SelectedInput(language))
    ELSE BuiltSolc(SelectedInput(language))

(* The files and the input of a job are what the first language left, the settings and the
   artifacts this build may use make them. *)
JobInv ==
    /\ config \in Configs
    /\ jobs \in Seq(JobLanguages)
    /\ stage \in {"idle", "job"} \cup JobStages
    /\ stage \in JobStages =>
           /\ jobs # <<>>
           /\ sources = Filtered(Head(jobs))
           /\ wanted = FullCompilation(sources)
    /\ stage = "selected" => input = SelectedInput(Head(jobs))
    /\ stage = "built" => input = BuiltInput(Head(jobs))
    /\ stage = "stripped" => input = StripInput(BuiltInput(Head(jobs)))

(* Artifacts on disk were compiled under the settings in the cache, those this build has under
   its own. *)
HeldInv ==
    /\ cachedConfig = {} \/ \E c : cachedConfig = {c}
    /\ cachedConfig = {} => DOMAIN held = {}
    /\ \A c \in cachedConfig : \A f \in DOMAIN held :
           held[f].under = ComparedIn(c, LanguageOf[f])
    /\ stage = "idle" => DOMAIN kept = {} /\ DOMAIN done = {}
    /\ stage # "idle" =>
           /\ \A f \in DOMAIN kept : kept[f].under = Compared(LanguageOf[f])
           /\ \A f \in DOMAIN done : done[f].under = Compared(LanguageOf[f])

-----------------------------------------------------------------------------
(* The jobs.                                                                   *)

LEMMA InputLanguage ==
    ASSUME NEW l
    PROVE  /\ SelectedInput(l).language = l
           /\ BuiltInput(l).language = l
           /\ StripInput(BuiltInput(l)).language = l
<1>1. /\ SelectedInput(l).language = l
      /\ DOMAIN SelectedInput(l) = {"language", "names", "interfaces", "settings"}
  BY DEF SelectedInput
<1>2. /\ BuiltInput(l).language = l
      /\ DOMAIN BuiltInput(l) = {"language", "names", "interfaces", "settings"}
  BY <1>1 DEF BuiltInput, BuiltVyper, BuiltSolc
<1>3. StripInput(BuiltInput(l)).language = l
  BY <1>2 DEF StripInput
<1> QED
  BY <1>1, <1>2, <1>3

LEMMA JobStart == InputInit => JobInv
  BY DEF InputInit, JobInv, JobStages, JobLanguages

LEMMA SameJob ==
    ASSUME JobInv, stage \in JobStages, stage' \in JobStages,
           UNCHANGED <<config, pattern, kept, jobs, sources, wanted>>
    PROVE  /\ config' \in Configs /\ jobs' \in Seq(JobLanguages) /\ jobs' # <<>>
           /\ sources' = Filtered(Head(jobs))'
           /\ wanted' = FullCompilation(sources)'
           /\ SelectedInput(Head(jobs))' = SelectedInput(Head(jobs))
           /\ BuiltInput(Head(jobs))' = BuiltInput(Head(jobs))
<1>1. /\ jobs' = jobs /\ sources' = sources /\ wanted' = wanted /\ config' = config
      /\ kept' = kept /\ pattern' = pattern
  OBVIOUS
<1>2. Filtered(Head(jobs))' = Filtered(Head(jobs))
  BY <1>1 DEF Filtered
<1>3. FullCompilation(sources)' = FullCompilation(sources)
  BY <1>1 DEF FullCompilation
<1>4. SelectedInput(Head(jobs))' = SelectedInput(Head(jobs))
  BY <1>1 DEF SelectedInput, Configured, Selection
<1>5. BuiltInput(Head(jobs))' = BuiltInput(Head(jobs))
  BY <1>1, <1>4 DEF BuiltInput, BuiltVyper, BuiltSolc
<1> QED
  BY <1>1, <1>2, <1>3, <1>4, <1>5 DEF JobInv

LEMMA JobStep == JobInv /\ [InputNext]_inputVars => JobInv'
<1> SUFFICES ASSUME JobInv, [InputNext]_inputVars
             PROVE  JobInv'
  OBVIOUS
<1> USE DEF JobStages
<1>1. CASE ConfigureInputs
  BY <1>1 DEF ConfigureInputs, JobInv
<1>2. CASE EditSource
  BY <1>2 DEF EditSource, JobInv
<1>3. CASE BeginBuild
  BY <1>3 DEF BeginBuild, JobInv, JobLanguages
<1>4. CASE SelectOutput
  <2> DEFINE srcs == Filtered(Head(jobs))
  <2>1. /\ stage = "job" /\ jobs # <<>>
        /\ UNCHANGED <<config, pattern, kept>>
    BY <1>4 DEF SelectOutput
  <2>2. CASE FullCompilation(srcs) = {}
    <3>1. jobs' = Tail(jobs) /\ UNCHANGED <<stage, sources, wanted, input>>
      BY <1>4, <2>2 DEF SelectOutput
    <3> QED
      BY <2>1, <3>1 DEF JobInv
  <2>3. CASE FullCompilation(srcs) # {}
    <3>1. /\ stage' = "selected" /\ sources' = srcs /\ wanted' = FullCompilation(srcs)
          /\ jobs' = jobs
      BY <1>4, <2>3 DEF SelectOutput
    <3>2. input' = SelectedInput(Head(jobs))'
      BY <1>4, <2>1, <2>3, <3>1 DEF SelectOutput, SelectedInput, Configured, Selection
    <3>3. Filtered(Head(jobs))' = srcs
      BY <2>1, <3>1 DEF Filtered
    <3>4. FullCompilation(sources)' = FullCompilation(srcs)
      BY <2>1, <3>1 DEF FullCompilation
    <3> QED
      BY <2>1, <3>1, <3>2, <3>3, <3>4 DEF JobInv
  <2> QED
    BY <2>2, <2>3
<1>5. CASE BuildInput
  <2>1. /\ stage = "selected" /\ stage' = "built"
        /\ UNCHANGED <<config, pattern, kept, jobs, sources, wanted>>
        /\ input' = IF input.language = "Vyper" THEN BuiltVyper(input) ELSE BuiltSolc(input)
    BY <1>5 DEF BuildInput
  <2>2. input = SelectedInput(Head(jobs)) /\ input.language = Head(jobs)
    BY <2>1, InputLanguage DEF JobInv
  <2>3. input' = BuiltInput(Head(jobs))
    BY <2>1, <2>2 DEF BuiltInput
  <2> QED
    BY <2>1, <2>3, SameJob DEF JobInv
<1>6. CASE StripPrefix
  <2>1. /\ stage = "built" /\ stage' = "stripped"
        /\ UNCHANGED <<config, pattern, kept, jobs, sources, wanted>>
        /\ input' = StripInput(input)
    BY <1>6 DEF StripPrefix
  <2>2. input' = StripInput(BuiltInput(Head(jobs)))
    BY <2>1 DEF JobInv
  <2>3. StripInput(BuiltInput(Head(jobs)))' = StripInput(BuiltInput(Head(jobs)))
    BY <2>1, SameJob DEF StripInput, StrippedVyper, StrippedSettings
  <2> QED
    BY <2>1, <2>2, <2>3, SameJob DEF JobInv
<1>7. CASE RunCompiler
  <2>1. /\ stage = "stripped" /\ stage' = "job" /\ jobs' = Tail(jobs) /\ config' = config
    BY <1>7 DEF RunCompiler
  <2> QED
    BY <2>1 DEF JobInv
<1>8. CASE ResolcYulFails
  BY <1>8 DEF ResolcYulFails, JobInv
<1>9. CASE FinishBuild
  BY <1>9 DEF FinishBuild, JobInv
<1>10. CASE UNCHANGED inputVars
  <2>1. UNCHANGED <<config, pattern, kept, jobs, sources, wanted, stage, input>>
    BY <1>10 DEF inputVars
  <2>2. CASE stage \in JobStages
    <3>1. StripInput(BuiltInput(Head(jobs)))' = StripInput(BuiltInput(Head(jobs)))
      BY <2>1, <2>2, SameJob DEF StripInput, StrippedVyper, StrippedSettings
    <3> QED
      BY <2>1, <2>2, <3>1, SameJob DEF JobInv
  <2>3. CASE stage \notin JobStages
    BY <2>1, <2>3 DEF JobInv
  <2> QED
    BY <2>2, <2>3
<1> QED
  BY <1>1, <1>2, <1>3, <1>4, <1>5, <1>6, <1>7, <1>8, <1>9, <1>10 DEF InputNext

LEMMA JobInvHolds == InputSpec => []JobInv
  BY JobStart, JobStep, PTL DEF InputSpec

(* A job compiles files of its language only. *)
LEMMA WantedHaveTheLanguage ==
    ASSUME JobInv, stage = "stripped"
    PROVE  /\ input.language = Head(jobs) /\ Head(jobs) \in JobLanguages
           /\ wanted \subseteq DOMAIN sources
           /\ \A f \in DOMAIN sources : f \in SourceFiles /\ LanguageOf[f] = Head(jobs)
<1>1. input.language = Head(jobs)
  BY InputLanguage DEF JobInv
<1>2. sources = Filtered(Head(jobs)) /\ wanted = FullCompilation(sources)
  BY DEF JobInv, JobStages
<1>3. DOMAIN sources \subseteq {f \in SourceFiles : LanguageOf[f] = Head(jobs)}
  BY <1>2 DEF Filtered
<1>4. wanted \subseteq DOMAIN sources
  BY <1>2 DEF FullCompilation
<1>5. Head(jobs) \in JobLanguages
  BY DEF JobInv, JobStages
<1> QED
  BY <1>1, <1>3, <1>4, <1>5

-----------------------------------------------------------------------------
(* The settings artifacts were compiled under.                                 *)

LEMMA UsableComparesEqual ==
    ASSUME NEW c, UsableFor(config, c), NEW l
    PROVE  ComparedIn(c, l) = Compared(l)
  BY DEF UsableFor, ComparedIn, Compared

LEMMA HeldStart == InputInit => HeldInv
  BY DEF InputInit, HeldInv

LEMMA HeldStep == JobInv /\ HeldInv /\ [InputNext]_inputVars => HeldInv'
<1> SUFFICES ASSUME JobInv, HeldInv, [InputNext]_inputVars
             PROVE  HeldInv'
  OBVIOUS
<1>1. CASE ConfigureInputs
  BY <1>1 DEF ConfigureInputs, HeldInv
<1>2. CASE EditSource
  <2>1. UNCHANGED <<cachedConfig, kept, done, stage>> /\ stage = "idle"
    BY <1>2 DEF EditSource
  <2>2. /\ DOMAIN held' \subseteq DOMAIN held
        /\ \A f \in DOMAIN held' : held'[f] = held[f]
    BY <1>2 DEF EditSource, Restrict
  <2> QED
    BY <2>1, <2>2 DEF HeldInv
<1>3. CASE BeginBuild
  <2>1. /\ stage = "idle" /\ stage' = "job" /\ UNCHANGED <<config, cachedConfig, held, done>>
        /\ kept' = IF \A c \in cachedConfig : UsableFor(config, c) THEN held ELSE <<>>
    BY <1>3 DEF BeginBuild
  <2>2. ASSUME NEW f \in DOMAIN kept'
        PROVE  kept'[f].under = Compared(LanguageOf[f])'
    <3>1. kept' = held /\ \A c \in cachedConfig : UsableFor(config, c)
      BY <2>1, <2>2
    <3>2. PICK c : c \in cachedConfig
      BY <2>2, <3>1 DEF HeldInv
    <3>3. held[f].under = ComparedIn(c, LanguageOf[f])
      BY <2>2, <3>1, <3>2 DEF HeldInv
    <3>4. ComparedIn(c, LanguageOf[f]) = Compared(LanguageOf[f])
      BY <3>1, <3>2, UsableComparesEqual
    <3>5. Compared(LanguageOf[f])' = Compared(LanguageOf[f])
      BY <2>1 DEF Compared
    <3> QED
      BY <3>1, <3>3, <3>4, <3>5
  <2> QED
    BY <2>1, <2>2 DEF HeldInv
<1>4. CASE SelectOutput \/ BuildInput \/ StripPrefix
  <2>1. /\ UNCHANGED <<config, cachedConfig, held, kept, done>>
        /\ stage # "idle" /\ stage' # "idle"
    BY <1>4 DEF SelectOutput, BuildInput, StripPrefix
  <2>2. \A l : Compared(l)' = Compared(l)
    BY <2>1 DEF Compared
  <2> QED
    BY <2>1, <2>2 DEF HeldInv
<1>5. CASE RunCompiler
  <2> DEFINE new == [f \in wanted |-> [outs |-> Given(Relative(Abs(f))),
                                       under |-> Compared(input.language)]]
  <2>1. /\ stage = "stripped" /\ stage' = "job" /\ UNCHANGED <<config, cachedConfig, held, kept>>
        /\ done' = Over(new, done)
    BY <1>5 DEF RunCompiler
  <2>2. \A l : Compared(l)' = Compared(l)
    BY <2>1 DEF Compared
  <2>3. ASSUME NEW f \in wanted
        PROVE  new[f].under = Compared(LanguageOf[f])
    BY <2>1, <2>3, WantedHaveTheLanguage
  <2>4. DOMAIN new = wanted
    OBVIOUS
  <2> HIDE DEF new
  <2>5. ASSUME NEW f \in DOMAIN done'
        PROVE  done'[f].under = Compared(LanguageOf[f])
    <3>1. f \in wanted \cup DOMAIN done
      BY <2>1, <2>4, <2>5 DEF Over
    <3>2. done'[f] = IF f \in wanted THEN new[f] ELSE done[f]
      BY <2>1, <2>4, <3>1 DEF Over
    <3> QED
      BY <2>1, <2>3, <3>1, <3>2 DEF HeldInv
  <2> QED
    BY <2>1, <2>2, <2>5 DEF HeldInv
<1>6. CASE ResolcYulFails
  <2>1. /\ UNCHANGED <<cachedConfig, held>> /\ stage' = "idle"
        /\ DOMAIN kept' = {} /\ DOMAIN done' = {}
    BY <1>6 DEF ResolcYulFails
  <2> QED
    BY <2>1 DEF HeldInv
<1>7. CASE FinishBuild
  <2>1. /\ stage = "job" /\ stage' = "idle" /\ held' = Over(done, kept)
        /\ cachedConfig' = IF \E c \in cachedConfig : UsableFor(config, c)
                           THEN cachedConfig ELSE {config}
        /\ kept' = <<>> /\ done' = <<>>
    BY <1>7 DEF FinishBuild
  <2>2. ASSUME NEW f \in DOMAIN held'
        PROVE  held'[f].under = Compared(LanguageOf[f])
    <3>1. \/ f \in DOMAIN done /\ held'[f] = done[f]
          \/ f \in DOMAIN kept /\ held'[f] = kept[f]
      BY <2>1, <2>2 DEF Over
    <3> QED
      BY <2>1, <3>1 DEF HeldInv
  <2>3. ASSUME NEW c \in cachedConfig', NEW l
        PROVE  ComparedIn(c, l) = Compared(l)
    <3>1. CASE \E d \in cachedConfig : UsableFor(config, d)
      <4>1. UsableFor(config, c)
        BY <2>1, <2>3, <3>1 DEF HeldInv
      <4> QED
        BY <4>1, UsableComparesEqual
    <3>2. CASE ~\E d \in cachedConfig : UsableFor(config, d)
      BY <2>1, <2>3, <3>2 DEF ComparedIn, Compared
    <3> QED
      BY <3>1, <3>2
  <2>4. cachedConfig' # {} /\ \E c : cachedConfig' = {c}
    BY <2>1 DEF HeldInv
  <2>5. DOMAIN kept' = {} /\ DOMAIN done' = {}
    BY <2>1
  <2>6. \A c \in cachedConfig' : \A f \in DOMAIN held' :
            held'[f].under = ComparedIn(c, LanguageOf[f])
    BY <2>2, <2>3
  <2> QED
    BY <2>1, <2>4, <2>5, <2>6 DEF HeldInv
<1>8. CASE UNCHANGED inputVars
  <2>1. UNCHANGED <<config, cachedConfig, held, kept, done, stage>>
    BY <1>8 DEF inputVars
  <2>2. \A l : Compared(l)' = Compared(l)
    BY <2>1 DEF Compared
  <2> QED
    BY <2>1, <2>2 DEF HeldInv
<1> QED
  BY <1>1, <1>2, <1>3, <1>4, <1>5, <1>6, <1>7, <1>8 DEF InputNext

(* A build never mixes artifacts that were compiled under different settings, for every project
   and every history of changed settings, edited files and failed builds (cache.rs
   find_and_remove_dirty, CompilerSettings::can_use_cached). *)
THEOREM ArtifactsShareSettings == InputSpec => []OneConfiguration
<1>1. ASSUME HeldInv
      PROVE  OneConfiguration
  <2>1. ASSUME NEW f \in DOMAIN Over(done, kept)
        PROVE  \/ f \in DOMAIN done /\ Over(done, kept)[f] = done[f]
               \/ f \in DOMAIN kept /\ Over(done, kept)[f] = kept[f]
    BY DEF Over
  <2> QED
    BY <1>1, <2>1 DEF HeldInv, OneConfiguration
<1> QED
  BY <1>1, JobStart, JobStep, HeldStart, HeldStep, PTL DEF InputSpec

-----------------------------------------------------------------------------
(* EVM versions.                                                               *)

(* What a compiler of version v is told when e is chosen: the newest version it knows up to e. *)
IsNewest(e, v, newest) ==
    /\ newest \in 0 .. e
    /\ newest # 0 => v >= EvmSince[newest]
    /\ \A x \in 1 .. e : v >= EvmSince[x] => newest >= x

LEMMA GreatestNumber ==
    ASSUME NEW n \in Nat, NEW S \in SUBSET (0 .. n), S # {}
    PROVE  Max(S) \in S /\ \A x \in S : Max(S) >= x
<1> DEFINE T == {n - x : x \in S}
<1>1. T \in SUBSET Nat /\ T # {}
  <2>1. \A x \in S : x \in 0 .. n
    OBVIOUS
  <2>2. \A x \in 0 .. n : n - x \in Nat
    OBVIOUS
  <2>3. T \subseteq Nat
    BY <2>1, <2>2
  <2> QED
    BY <2>3
<1>2. PICK k \in T : \A j \in T : k <= j
  <2> HIDE DEF T
  <2> QED
    BY <1>1, LeastNumber
<1>3. PICK m \in S : k = n - m
  OBVIOUS
<1>4. \A x \in S : n - m <= n - x
  BY <1>2, <1>3
<1>5. \A x \in S : m >= x
  BY <1>4
<1> QED
  BY <1>5 DEF Max

LEMMA NormalizedIsNewest ==
    ASSUME NEW v \in Nat, NEW e \in 1 .. Len(EvmSince)
    PROVE  IsNewest(e, v, Normalized(e, v))
<1> DEFINE last == Len(EvmSince)
           known == {x \in DOMAIN EvmSince : e >= x /\ v >= EvmSince[x]}
<1>1. /\ last \in Nat /\ last > 0 /\ DOMAIN EvmSince = 1 .. last
      /\ \A x \in 1 .. last : EvmSince[x] \in Nat /\ EvmSince[1] <= EvmSince[x]
      /\ \A x \in 1 .. e : EvmSince[x] <= EvmSince[e] /\ EvmSince[e] <= EvmSince[last]
  BY EvmVersionsAreOrdered
<1>2. CASE v < EvmSince[1]
  <2>1. Normalized(e, v) = 0
    BY <1>2 DEF Normalized
  <2>2. ASSUME NEW x \in 1 .. e
        PROVE  ~(v >= EvmSince[x])
    BY <1>1, <1>2
  <2> QED
    BY <2>1, <2>2 DEF IsNewest
<1>3. CASE v >= EvmSince[last]
  <2>1. ~(v < EvmSince[1])
    BY <1>1, <1>3
  <2>2. Normalized(e, v) = e
    BY <1>3, <2>1 DEF Normalized
  <2>3. v >= EvmSince[e]
    BY <1>1, <1>3
  <2> QED
    BY <2>2, <2>3 DEF IsNewest
<1>4. CASE ~(v < EvmSince[1]) /\ ~(v >= EvmSince[last])
  <2>1. Normalized(e, v) = Max(known)
    BY <1>4 DEF Normalized
  <2>2. 1 \in known
    BY <1>1, <1>4
  <2>3. known \subseteq 0 .. e
    BY <1>1
  <2>4. Max(known) \in known /\ \A x \in known : Max(known) >= x
    <3> HIDE DEF known
    <3>1. e \in Nat /\ known \in SUBSET (0 .. e) /\ known # {}
      BY <1>1, <2>2, <2>3
    <3> QED
      BY <3>1, GreatestNumber
  <2>5. \A x \in 1 .. e : v >= EvmSince[x] => x \in known
    BY <1>1
  <2>6. Max(known) \in 1 .. e /\ v >= EvmSince[Max(known)]
    <3>1. \A x \in known : x \in 1 .. e /\ v >= EvmSince[x]
      BY <1>1
    <3> HIDE DEF known
    <3> QED
      BY <2>4, <3>1
  <2> HIDE DEF known
  <2> QED
    BY <2>1, <2>4, <2>5, <2>6 DEF IsNewest
<1> QED
  BY <1>2, <1>3, <1>4

(* Asked twice, of the version a first compiler was told, nothing changes. *)
LEMMA NewestOfNewest ==
    ASSUME NEW v \in Nat, NEW e \in 0 .. Len(EvmSince), NEW m, NEW n,
           IsNewest(e, v, m), IsNewest(m, v, n)
    PROVE  IsNewest(e, v, n)
<1>1. m \in 0 .. e /\ n \in 0 .. m /\ e \in Nat
  BY DEF IsNewest
<1>2. ASSUME NEW x \in 1 .. e, v >= EvmSince[x]
      PROVE  n >= x
  <2>1. m >= x
    BY <1>2 DEF IsNewest
  <2>2. x \in 1 .. m
    BY <1>1, <2>1
  <2> QED
    BY <1>2, <2>2 DEF IsNewest
<1>3. n \in 0 .. e
  BY <1>1
<1> QED
  BY <1>2, <1>3 DEF IsNewest

LEMMA NoneIsNewest ==
    ASSUME NEW v
    PROVE  IsNewest(0, v, 0)
  BY DEF IsNewest


-----------------------------------------------------------------------------
(* What a compiler is handed.                                                  *)

SolcFields == {"select", "options", "evm", "remappings", "libs", "args"}
InputFields == {"language", "names", "interfaces", "settings"}

LEMMA SanitizedSettings ==
    ASSUME NEW s, DOMAIN s = SolcFields, NEW l \in JobLanguages,
           s.evm \in 0 .. Len(EvmSince)
    PROVE  /\ DOMAIN Sanitized(s, l) = SolcFields
           /\ Sanitized(s, l).select = s.select /\ Sanitized(s, l).libs = s.libs
           /\ Sanitized(s, l).options = {o \in s.options : Takes(VersionOf[l], o)}
           /\ l = "Yul" => Sanitized(s, l).remappings = {}
           /\ IsNewest(s.evm, VersionOf[l], Sanitized(s, l).evm)
<1>1. /\ DOMAIN Sanitized(s, l) = SolcFields
      /\ Sanitized(s, l).select = s.select /\ Sanitized(s, l).libs = s.libs
      /\ Sanitized(s, l).options = {o \in s.options : Takes(VersionOf[l], o)}
      /\ l = "Yul" => Sanitized(s, l).remappings = {}
      /\ Sanitized(s, l).evm = IF s.evm = 0 THEN 0 ELSE Normalized(s.evm, VersionOf[l])
  BY DEF Sanitized, SolcFields
<1>2. VersionOf[l] \in Nat
  BY CompilersHaveVersions DEF JobLanguages
<1>3. CASE s.evm = 0
  BY <1>1, <1>3, NoneIsNewest
<1>4. CASE s.evm # 0
  <2>1. s.evm \in 1 .. Len(EvmSince)
    BY <1>4
  <2> QED
    BY <1>1, <1>2, <1>4, <2>1, NormalizedIsNewest
<1> QED
  BY <1>1, <1>3, <1>4

(* An option that is dropped before some version is known to those that take it. *)
LEMMA TakenIsKnown ==
    ASSUME NEW l \in JobLanguages, NEW o \in DOMAIN DroppedBefore, Takes(VersionOf[l], o)
    PROVE  VersionOf[l] >= Since[o]
<1>1. VersionOf[l] \in Nat
  BY CompilersHaveVersions DEF JobLanguages
<1>2. Since[o] \in Nat /\ Since[o] <= DroppedBefore[o]
  BY OptionsHaveVersions
<1>3. VersionOf[l] >= DroppedBefore[o]
  BY DEF Takes
<1>4. DroppedBefore[o] \in Nat
  BY DEF DroppedBefore
<1> QED
  BY <1>1, <1>2, <1>3, <1>4

(* The job of Solidity or Yul: what is selected, built and stripped, field by field. *)
LEMMA SolcInput ==
    ASSUME JobInv, NEW l \in JobLanguages, l # "Vyper"
    PROVE  LET in == StripInput(BuiltInput(l))
               sel == Selection(Configured(l), sources, wanted)
           IN /\ DOMAIN in = InputFields /\ DOMAIN in.settings = SolcFields
              /\ in.names = {Relative(Abs(f)) : f \in DOMAIN sources}
              /\ in.settings.select = MapKeys(sel, Relative)
              /\ in.settings.libs = {Relative(k) : k \in config.solc.libs}
              /\ \A o \in in.settings.options \cap DOMAIN DroppedBefore : VersionOf[l] >= Since[o]
              /\ l = "Yul" => in.settings.remappings = {}
              /\ IsNewest(config.solc.evm, VersionOf[l], in.settings.evm)
<1> DEFINE s == Configured(l)
           sel == Selection(s, sources, wanted)
           t == [s EXCEPT !.select = sel]
           u == Sanitized(t, l)
<1>1. /\ DOMAIN config.solc = SolcFields /\ config.solc.evm \in 0 .. Len(EvmSince)
      /\ s = [config.solc EXCEPT !.remappings = config.remappings]
  BY ConfigsAreSettings DEF JobInv, JobLanguages, Configured, Tool, SolcFields
<1>2. /\ DOMAIN s = SolcFields /\ s.evm = config.solc.evm /\ s.libs = config.solc.libs
  BY <1>1 DEF SolcFields
<1>3. /\ DOMAIN t = SolcFields /\ t.select = sel /\ t.evm = config.solc.evm
      /\ t.libs = config.solc.libs
  <2> HIDE DEF s, sel
  <2> QED
    BY <1>2 DEF SolcFields
<1>4. SelectedInput(l) = [language |-> l, names |-> {Abs(f) : f \in DOMAIN sources},
                          interfaces |-> {}, settings |-> t]
  BY DEF SelectedInput
<1> HIDE DEF t
<1>5. BuiltInput(l) = [language |-> l, names |-> {Abs(f) : f \in DOMAIN sources},
                       interfaces |-> {}, settings |-> u]
  BY <1>4 DEF BuiltInput, BuiltSolc
<1>6. /\ DOMAIN u = SolcFields /\ u.select = sel /\ u.libs = config.solc.libs
      /\ u.options = {o \in t.options : Takes(VersionOf[l], o)}
      /\ l = "Yul" => u.remappings = {}
      /\ IsNewest(config.solc.evm, VersionOf[l], u.evm)
  <2> HIDE DEF sel
  <2> QED
    BY <1>1, <1>3, SanitizedSettings
<1> HIDE DEF u, sel
<1>7. /\ StripInput(BuiltInput(l)).names = {Relative(k) : k \in {Abs(f) : f \in DOMAIN sources}}
      /\ StripInput(BuiltInput(l)).settings = StrippedSettings(u)
      /\ DOMAIN StripInput(BuiltInput(l)) = InputFields
  BY <1>5 DEF StripInput, InputFields
<1>8. /\ DOMAIN StrippedSettings(u) = SolcFields
      /\ StrippedSettings(u).select = MapKeys(sel, Relative)
      /\ StrippedSettings(u).libs = {Relative(k) : k \in config.solc.libs}
      /\ StrippedSettings(u).remappings = {Relative(k) : k \in u.remappings}
      /\ StrippedSettings(u).options = u.options /\ StrippedSettings(u).evm = u.evm
  BY <1>6 DEF StrippedSettings, SolcFields
<1>9. {Relative(k) : k \in {Abs(f) : f \in DOMAIN sources}}
          = {Relative(Abs(f)) : f \in DOMAIN sources}
  OBVIOUS
<1>10. l = "Yul" => StrippedSettings(u).remappings = {}
  BY <1>6, <1>8
<1>11. \A o \in u.options \cap DOMAIN DroppedBefore : VersionOf[l] >= Since[o]
  BY <1>6, TakenIsKnown
<1> QED
  BY <1>6, <1>7, <1>8, <1>9, <1>10, <1>11 DEF sel


(* The job of Vyper; interfaces are handed apart, without a selection. *)
LEMMA VyperInput ==
    ASSUME JobInv
    PROVE  LET in == StripInput(BuiltInput("Vyper"))
               sel == Selection(Configured("Vyper"), sources, wanted)
               apart == {k \in {Abs(f) : f \in DOMAIN sources} : k[2] \in Interfaces}
               rest == [k \in DOMAIN sel \ apart |-> sel[k]]
           IN /\ in.names = {Relative(k) : k \in {Abs(f) : f \in DOMAIN sources} \ apart}
              /\ in.interfaces = {Relative(k) : k \in apart}
              /\ in.settings.select = MapKeys(SanitizedOutputs(rest), Relative)
              /\ in.settings.evm = config.vyper.evm
              /\ in.settings.search = {Relative(k) : k \in config.includes}
<1> DEFINE s == Configured("Vyper")
           sel == Selection(s, sources, wanted)
           names == {Abs(f) : f \in DOMAIN sources}
           apart == {k \in names : k[2] \in Interfaces}
           rest == [k \in DOMAIN sel \ apart |-> sel[k]]
           t == [s EXCEPT !.select = sel]
           u == [t EXCEPT !.select = SanitizedOutputs(rest)]
<1>1. s = [config.vyper EXCEPT !.search = config.includes]
      /\ DOMAIN config.vyper = {"select", "evm", "search"}
  BY ConfigsAreSettings DEF JobInv, Configured, Tool
<1>2. DOMAIN s = {"select", "evm", "search"} /\ s.evm = config.vyper.evm /\ s.search = config.includes
  BY <1>1
<1>3. DOMAIN t = {"select", "evm", "search"} /\ t.select = sel
      /\ t.evm = config.vyper.evm /\ t.search = config.includes
  <2> HIDE DEF s, sel
  <2> QED
    BY <1>2
<1>4. SelectedInput("Vyper") = [language |-> "Vyper", names |-> names, interfaces |-> {},
                                settings |-> t]
  BY DEF SelectedInput
<1> HIDE DEF t, names
<1>5. BuiltInput("Vyper") = BuiltVyper(SelectedInput("Vyper"))
  BY DEF BuiltInput
<1>6. LET in == BuiltVyper(SelectedInput("Vyper"))
      IN /\ DOMAIN in = InputFields /\ in.language = "Vyper"
         /\ in.names = names \ apart /\ in.interfaces = apart /\ in.settings = u
  <2> DEFINE in == SelectedInput("Vyper")
             vyi == {k \in in.names : k[2] \in Interfaces}
             others == [k \in DOMAIN in.settings.select \ vyi |-> in.settings.select[k]]
  <2>1. in.names = names /\ in.settings = t /\ in.language = "Vyper" /\ DOMAIN in = InputFields
    BY <1>4 DEF InputFields
  <2>2. vyi = apart /\ others = rest
    BY <1>3, <2>1
  <2>3. BuiltVyper(in) = [in EXCEPT !.names = @ \ apart, !.interfaces = apart,
                                    !.settings.select = SanitizedOutputs(rest)]
    BY <2>2 DEF BuiltVyper
  <2> HIDE DEF rest, apart, in
  <2> QED
    BY <2>1, <2>3 DEF InputFields, in
<1>7. DOMAIN u = {"select", "evm", "search"} /\ u.select = SanitizedOutputs(rest)
      /\ u.evm = config.vyper.evm /\ u.search = config.includes
  <2> HIDE DEF rest
  <2> QED
    BY <1>3
<1> HIDE DEF u, rest, apart
<1>8. /\ StripInput(BuiltInput("Vyper")).names = {Relative(k) : k \in names \ apart}
      /\ StripInput(BuiltInput("Vyper")).interfaces = {Relative(k) : k \in apart}
      /\ StripInput(BuiltInput("Vyper")).settings = StrippedVyper(u)
  BY <1>5, <1>6 DEF StripInput, InputFields
<1>9. /\ StrippedVyper(u).select = MapKeys(SanitizedOutputs(rest), Relative)
      /\ StrippedVyper(u).evm = config.vyper.evm
      /\ StrippedVyper(u).search = {Relative(k) : k \in config.includes}
  BY <1>7 DEF StrippedVyper
<1> QED
  BY <1>8, <1>9 DEF names, apart, rest

(* resolc's input keeps all but the outputs resolc cannot be asked for. *)
LEMMA HandedSettings ==
    ASSUME JobInv, stage = "stripped", input.language # "Vyper"
    PROVE  /\ Handed.names = input.names
           /\ Handed.settings.libs = input.settings.libs
           /\ Handed.settings.options \subseteq input.settings.options
           /\ input.language = "Yul" => Handed.settings.remappings = {}
           /\ IsNewest(config.solc.evm, VersionOf[input.language], Handed.settings.evm)
           /\ Handed.settings.select =
                  IF tool = "resolc"
                  THEN EachOutput(input.settings.select, LAMBDA outs : outs \cap ResolcKnows)
                  ELSE input.settings.select
<1> DEFINE l == input.language
           s == input.settings
           u == Sanitized(s, l)
<1>1. l \in JobLanguages /\ input = StripInput(BuiltInput(l)) /\ l # "Vyper"
  BY WantedHaveTheLanguage DEF JobInv
<1>2. /\ DOMAIN input = InputFields /\ DOMAIN s = SolcFields
      /\ l = "Yul" => s.remappings = {}
      /\ IsNewest(config.solc.evm, VersionOf[l], s.evm)
  BY <1>1, SolcInput
<1>3. config.solc.evm \in 0 .. Len(EvmSince) /\ VersionOf[l] \in Nat
  BY <1>1, ConfigsAreSettings, CompilersHaveVersions DEF JobInv, JobLanguages
<1>4. CASE tool # "resolc"
  BY <1>2, <1>4 DEF Handed
<1>5. CASE tool = "resolc"
  <2> DEFINE out == [u EXCEPT !.select =
                        EachOutput(@, LAMBDA outs : outs \cap ResolcKnows)]
  <2>1. s.evm \in 0 .. Len(EvmSince)
    BY <1>2, <1>3, EvmVersionsAreOrdered DEF IsNewest
  <2>2. /\ DOMAIN u = SolcFields /\ u.select = s.select /\ u.libs = s.libs
        /\ u.options \subseteq s.options
        /\ l = "Yul" => u.remappings = {}
        /\ IsNewest(s.evm, VersionOf[l], u.evm)
    <3> HIDE DEF l, s
    <3>1. u.options = {o \in s.options : Takes(VersionOf[l], o)}
      BY <1>1, <1>2, <2>1, SanitizedSettings DEF l, s
    <3> QED
      BY <1>1, <1>2, <2>1, <3>1, SanitizedSettings
  <2>3. IsNewest(config.solc.evm, VersionOf[l], u.evm)
    BY <1>2, <1>3, <2>2, NewestOfNewest
  <2>4. Handed = [input EXCEPT !.settings = out]
    BY <1>5 DEF Handed, BuiltResolc
  <2>5. Handed.settings = out /\ Handed.names = input.names
    <3> HIDE DEF out
    <3> QED
      BY <1>2, <2>4 DEF InputFields
  <2>6. /\ out.select = EachOutput(u.select, LAMBDA outs : outs \cap ResolcKnows)
        /\ out.libs = u.libs /\ out.options = u.options /\ out.remappings = u.remappings
        /\ out.evm = u.evm
    <3> HIDE DEF u
    <3> QED
      BY <2>2 DEF SolcFields
  <2> HIDE DEF out, u
  <2> QED
    BY <1>5, <2>2, <2>3, <2>5, <2>6
<1> QED
  BY <1>4, <1>5


-----------------------------------------------------------------------------
(* Paths.                                                                      *)

(* A file a selection names: all of them, or one by its absolute path. *)
IsKey(k) == k = Star \/ k = Abs(k[2])

(* No settings name a file relative to the project's root: that is the name strip_prefix gives
   the file itself, and one of the two selections would replace the other. *)
AbsoluteKeys == \A c \in Configs, t \in Tools : \A k \in DOMAIN c[t].select : IsKey(k)

LEMMA RelativeIsInjective ==
    ASSUME NEW k, IsKey(k), NEW m, IsKey(m), Relative(k) = Relative(m)
    PROVE  k = m
<1>1. Relative(Star) = Star /\ Star[1] = "*"
  BY DEF Relative, Star
<1>2. \A f : Relative(Abs(f)) = IF f \in Outsiders THEN <<"abs", f>> ELSE <<"rel", f>>
  BY DEF Relative, Abs
<1>3. \A f : Relative(Abs(f))[1] \in {"abs", "rel"} /\ Relative(Abs(f))[2] = f
  BY <1>2
<1> QED
  BY <1>1, <1>3 DEF IsKey

LEMMA FilesAreKeys ==
    ASSUME NEW f
    PROVE  IsKey(Abs(f)) /\ Abs(f) # Star /\ Abs(f)[2] = f
  BY DEF IsKey, Abs, Star

(* Stripping the root from the keys of a map moves every entry, and joins none. *)
LEMMA KeysMapped ==
    ASSUME NEW m, \A k \in DOMAIN m : IsKey(k)
    PROVE  /\ DOMAIN MapKeys(m, Relative) = {Relative(k) : k \in DOMAIN m}
           /\ \A k \in DOMAIN m : MapKeys(m, Relative)[Relative(k)] = m[k]
<1>1. DOMAIN MapKeys(m, Relative) = {Relative(k) : k \in DOMAIN m}
  BY DEF MapKeys
<1>2. ASSUME NEW k \in DOMAIN m
      PROVE  MapKeys(m, Relative)[Relative(k)] = m[k]
  <2>1. MapKeys(m, Relative)[Relative(k)]
            = m[CHOOSE o \in DOMAIN m : Relative(o) = Relative(k)]
    BY DEF MapKeys
  <2>2. (CHOOSE o \in DOMAIN m : Relative(o) = Relative(k)) \in DOMAIN m
        /\ Relative(CHOOSE o \in DOMAIN m : Relative(o) = Relative(k)) = Relative(k)
    OBVIOUS
  <2>3. (CHOOSE o \in DOMAIN m : Relative(o) = Relative(k)) = k
    BY <2>2, RelativeIsInjective
  <2> QED
    BY <2>1, <2>3
<1> QED
  BY <1>1, <1>2

(* update_output_selection: what each file of a job is asked for. *)
Default(language) ==
    LET select == config[Tool(language)].select
    IN IF Star \in DOMAIN select THEN select[Star] ELSE ("*" :> {"abi", "bin"})

LEMMA SelectedOutputs ==
    ASSUME JobInv, AbsoluteKeys, NEW l \in JobLanguages
    PROVE  LET sel == Selection(Configured(l), sources, wanted)
           IN /\ \A k \in DOMAIN sel : IsKey(k) /\ k # Star
              /\ \A f \in DOMAIN sources :
                     /\ Abs(f) \in DOMAIN sel
                     /\ f \in wanted => sel[Abs(f)] = Default(l)
                     /\ f \notin wanted => sel[Abs(f)] = <<>>
<1> DEFINE s == Configured(l)
           sel == Selection(s, sources, wanted)
           names == {Abs(f) : f \in DOMAIN sources}
           default == IF Star \in DOMAIN s.select THEN s.select[Star]
                      ELSE ("*" :> {"abi", "bin"})
<1>1. s.select = config[Tool(l)].select
  <2>1. DOMAIN config.solc = SolcFields /\ DOMAIN config.vyper = {"select", "evm", "search"}
    BY ConfigsAreSettings DEF JobInv, SolcFields
  <2> QED
    BY <2>1 DEF Configured, Tool, SolcFields
<1>2. \A k \in DOMAIN s.select : IsKey(k)
  BY <1>1 DEF JobInv, AbsoluteKeys, Tool, Tools
<1> HIDE DEF s
<1>3. /\ DOMAIN sel = (DOMAIN s.select \ {Star}) \cup names
      /\ \A k \in names : sel[k] = IF k[2] \in wanted THEN default ELSE <<>>
  BY DEF Selection
<1> HIDE DEF sel
<1>4. \A k \in names : IsKey(k) /\ k # Star
  BY FilesAreKeys
<1>5. default = Default(l)
  BY <1>1 DEF Default
<1>6. \A f \in DOMAIN sources : Abs(f) \in names /\ Abs(f)[2] = f
  BY FilesAreKeys
<1> HIDE DEF default, names
<1>7. \A k \in DOMAIN sel : IsKey(k) /\ k # Star
  BY <1>2, <1>3, <1>4
<1>8. \A f \in DOMAIN sources :
          /\ Abs(f) \in DOMAIN sel
          /\ f \in wanted => sel[Abs(f)] = Default(l)
          /\ f \notin wanted => sel[Abs(f)] = <<>>
  BY <1>3, <1>5, <1>6
<1> QED
  BY <1>7, <1>8 DEF sel, s

(* What of a selection a compiler can be asked for. *)
Narrowed(outs) ==
    IF input.language = "Vyper" THEN (IF outs = {} THEN {"abi"} ELSE outs) \ VyperLacks
    ELSE IF tool = "resolc" THEN outs \cap ResolcKnows
    ELSE outs

(* Vyper's interfaces are not compiled. *)
CompiledKeys ==
    {Abs(f) : f \in {g \in DOMAIN sources : input.language = "Vyper" => g \notin Interfaces}}

(* A file is handed over under its stripped name, and asked for what is selected for it. *)
LEMMA HandedOutputs ==
    ASSUME JobInv, AbsoluteKeys, stage = "stripped"
    PROVE  LET sel == Selection(Configured(input.language), sources, wanted)
               handed == Handed.settings.select
           IN /\ Handed.names = {Relative(k) : k \in CompiledKeys}
              /\ \A k \in DOMAIN handed : \E o \in DOMAIN sel :
                     /\ k = Relative(o)
                     /\ \A f \in Interfaces \cap DOMAIN sources :
                            input.language = "Vyper" => o # Abs(f)
              /\ \A k \in CompiledKeys :
                     /\ Relative(k) \in DOMAIN handed
                     /\ DOMAIN handed[Relative(k)] = DOMAIN sel[k]
              /\ \A k \in DOMAIN sel : Relative(k) \in DOMAIN handed =>
                     \A c \in DOMAIN sel[k] :
                         handed[Relative(k)][c] = Narrowed(sel[k][c])
<1> DEFINE l == input.language
           sel == Selection(Configured(l), sources, wanted)
           handed == Handed.settings.select
           names == {Abs(f) : f \in DOMAIN sources}
           apart == {k \in names : k[2] \in Interfaces}
           rest == [k \in DOMAIN sel \ apart |-> sel[k]]
<1>1. l \in JobLanguages /\ input = StripInput(BuiltInput(l))
  BY WantedHaveTheLanguage DEF JobInv
<1>2. /\ \A k \in DOMAIN sel : IsKey(k)
      /\ names \subseteq DOMAIN sel
  BY <1>1, SelectedOutputs
<1>3. \A f \in DOMAIN sources : Abs(f) \in apart <=> f \in Interfaces
  BY FilesAreKeys
<1>4. CASE l # "Vyper"
  <2>1. Handed.names = {Relative(Abs(f)) : f \in DOMAIN sources}
        /\ input.settings.select = MapKeys(sel, Relative)
    BY <1>1, <1>4, SolcInput, HandedSettings
  <2>2. CompiledKeys = names
    BY <1>4 DEF CompiledKeys
  <2>3. {Relative(k) : k \in CompiledKeys} = {Relative(Abs(f)) : f \in DOMAIN sources}
    BY <2>2
  <2> DEFINE mapped == MapKeys(sel, Relative)
  <2>4. /\ DOMAIN mapped = {Relative(k) : k \in DOMAIN sel}
        /\ \A k \in DOMAIN sel : mapped[Relative(k)] = sel[k]
    <3> HIDE DEF sel
    <3> QED
      BY <1>2, KeysMapped
  <2> HIDE DEF mapped, sel
  <2>5. /\ DOMAIN handed = DOMAIN mapped
        /\ \A k \in DOMAIN mapped :
               /\ DOMAIN handed[k] = DOMAIN mapped[k]
               /\ \A c \in DOMAIN mapped[k] : handed[k][c] = Narrowed(mapped[k][c])
    <3>1. CASE tool = "resolc"
      <4>1. handed = EachOutput(mapped, LAMBDA outs : outs \cap ResolcKnows)
        BY <1>4, <2>1, <3>1, HandedSettings DEF mapped
      <4> QED
        BY <1>4, <3>1, <4>1 DEF EachOutput, Narrowed
    <3>2. CASE tool # "resolc"
      <4>1. handed = mapped
        BY <1>4, <2>1, <3>2, HandedSettings DEF mapped
      <4> QED
        BY <1>4, <3>2, <4>1 DEF Narrowed
    <3> QED
      BY <3>1, <3>2
  <2> HIDE DEF handed, names
  <2> QED
    BY <1>2, <1>4, <2>1, <2>2, <2>3, <2>4, <2>5 DEF handed, sel
<1>5. CASE l = "Vyper"
  <2>1. /\ Handed = input
        /\ Handed.names = {Relative(k) : k \in names \ apart}
        /\ handed = MapKeys(SanitizedOutputs(rest), Relative)
    BY <1>1, <1>5, VyperInput DEF Handed
  <2>2. CompiledKeys = names \ apart
    BY <1>3, <1>5 DEF CompiledKeys
  <2> DEFINE clean == SanitizedOutputs(rest)
  <2>3. /\ DOMAIN clean = DOMAIN sel \ apart
        /\ \A k \in DOMAIN clean :
               /\ DOMAIN clean[k] = DOMAIN sel[k]
               /\ \A c \in DOMAIN sel[k] : clean[k][c] = Narrowed(sel[k][c])
    BY <1>5 DEF SanitizedOutputs, EachOutput, Narrowed
  <2>4. /\ DOMAIN handed = {Relative(k) : k \in DOMAIN clean}
        /\ \A k \in DOMAIN clean : handed[Relative(k)] = clean[k]
    <3> HIDE DEF clean, sel, handed
    <3> QED
      BY <1>2, <2>1, <2>3, KeysMapped DEF clean
  <2>5. \A k \in DOMAIN sel : Relative(k) \in DOMAIN handed => k \in DOMAIN clean
    <3> HIDE DEF clean, sel, handed
    <3> QED
      BY <1>2, <2>3, <2>4, RelativeIsInjective
  <2> HIDE DEF clean, sel, handed
  <2>6. \A k \in DOMAIN handed : \E o \in DOMAIN sel :
            k = Relative(o) /\ \A f \in Interfaces \cap DOMAIN sources : o # Abs(f)
    BY <1>3, <2>3, <2>4
  <2> HIDE DEF names, apart
  <2> QED
    BY <1>2, <1>5, <2>1, <2>2, <2>3, <2>4, <2>5, <2>6 DEF handed, sel
<1> QED
  BY <1>4, <1>5


-----------------------------------------------------------------------------
(* The theorems.                                                               *)

LEMMA AcceptedByVyper ==
    ASSUME JobInv, AbsoluteKeys, stage = "stripped", input.language = "Vyper"
    PROVE  InputAccepted
<1> DEFINE sel == Selection(Configured("Vyper"), sources, wanted)
           apart == {k \in {Abs(f) : f \in DOMAIN sources} : k[2] \in Interfaces}
           rest == [k \in DOMAIN sel \ apart |-> sel[k]]
           clean == SanitizedOutputs(rest)
           select == Handed.settings.select
<1>1. /\ Handed = input /\ input.interfaces = {Relative(k) : k \in apart}
      /\ select = MapKeys(clean, Relative)
      /\ Handed.settings.evm = config.vyper.evm
      /\ Handed.settings.search = {Relative(k) : k \in config.includes}
  <2>1. input = StripInput(BuiltInput("Vyper"))
    BY WantedHaveTheLanguage DEF JobInv
  <2> QED
    BY <2>1, VyperInput DEF Handed
<1>2. \A k \in DOMAIN sel : IsKey(k)
  BY SelectedOutputs DEF JobLanguages
<1>3. DOMAIN clean = DOMAIN sel \ apart
      /\ \A k \in DOMAIN clean : \A c \in DOMAIN clean[k] : clean[k][c] \cap VyperLacks = {}
  BY DEF SanitizedOutputs, EachOutput
<1> HIDE DEF clean, sel
<1>4. /\ DOMAIN select = {Relative(k) : k \in DOMAIN clean}
      /\ \A k \in DOMAIN clean : select[Relative(k)] = clean[k]
  <2> HIDE DEF select
  <2> QED
    BY <1>1, <1>2, <1>3, KeysMapped
<1>5. \A k \in apart : IsKey(k)
  BY FilesAreKeys
<1> HIDE DEF select, apart
<1>6. \A k \in DOMAIN select : \A c \in DOMAIN select[k] : select[k][c] \cap VyperLacks = {}
  BY <1>3, <1>4
<1>7. {Relative(k) : k \in apart} \cap DOMAIN select = {}
  BY <1>2, <1>3, <1>4, <1>5, RelativeIsInjective
<1> QED
  BY <1>1, <1>6, <1>7 DEF InputAccepted, select

LEMMA AcceptedBySolc ==
    ASSUME JobInv, stage = "stripped", input.language # "Vyper"
    PROVE  InputAccepted
<1> DEFINE s == Handed.settings
           l == input.language
           evm == config.solc.evm
<1>1. l \in JobLanguages /\ input = StripInput(BuiltInput(l))
  BY WantedHaveTheLanguage DEF JobInv
<1>2. /\ input.names = {Relative(Abs(f)) : f \in DOMAIN sources}
      /\ input.settings.libs = {Relative(k) : k \in config.solc.libs}
      /\ \A o \in input.settings.options \cap DOMAIN DroppedBefore : VersionOf[l] >= Since[o]
  BY <1>1, SolcInput
<1>3. /\ Handed.names = input.names /\ s.libs = input.settings.libs
      /\ s.options \subseteq input.settings.options
      /\ l = "Yul" => s.remappings = {}
      /\ IsNewest(evm, VersionOf[l], s.evm)
      /\ tool = "resolc" =>
             s.select = EachOutput(input.settings.select, LAMBDA outs : outs \cap ResolcKnows)
  BY HandedSettings
<1> HIDE DEF s, l
<1>4. /\ s.evm <= evm /\ (s.evm # 0 => VersionOf[l] >= EvmSince[s.evm])
      /\ \A e \in 1 .. evm : VersionOf[l] >= EvmSince[e] => s.evm >= e
  <2>1. evm \in Nat
    BY ConfigsAreSettings, EvmVersionsAreOrdered DEF JobInv
  <2>2. /\ s.evm \in 0 .. evm /\ (s.evm # 0 => VersionOf[l] >= EvmSince[s.evm])
        /\ \A e \in 1 .. evm : VersionOf[l] >= EvmSince[e] => s.evm >= e
    BY <1>3 DEF IsNewest
  <2> HIDE DEF evm
  <2> QED
    BY <2>1, <2>2
<1>5. tool = "resolc" => \A k \in DOMAIN s.select : \A c \in DOMAIN s.select[k] :
                             s.select[k][c] \subseteq ResolcKnows
  BY <1>3 DEF EachOutput
<1>6. \A f \in DOMAIN sources :
          Abs(f) \in config.solc.libs => Relative(Abs(f)) \in s.libs \cap Handed.names
  BY <1>2, <1>3
<1>7. \A o \in s.options \cap DOMAIN DroppedBefore : VersionOf[l] >= Since[o]
  BY <1>2, <1>3
<1> QED
  BY <1>3, <1>4, <1>5, <1>6, <1>7 DEF InputAccepted, s, l

(* A compiler is handed nothing its version does not know, but for the options that sanitize has
   no version for and Vyper's EVM version and search paths, for every compiler, settings and job
   (Settings::sanitize, EvmVersion::normalize_version_solc, the inputs' build and strip_prefix of
   each compiler). *)
THEOREM InputsAreAccepted == ASSUME AbsoluteKeys PROVE InputSpec => []InputAccepted
<1>1. JobInv => InputAccepted
  BY AcceptedByVyper, AcceptedBySolc DEF InputAccepted
<1> QED
  BY <1>1, JobInvHolds, PTL

(* Every output a file is asked for is asked of its compiler. *)
LEMMA AllIsAskedFor ==
    ASSUME JobInv, AbsoluteKeys, stage = "stripped", NEW f \in wanted
    PROVE  Asked(f) \subseteq Given(Relative(Abs(f)))
<1> DEFINE l == input.language
           sel == Selection(Configured(l), sources, wanted)
           handed == Handed.settings.select
           key == Relative(Abs(f))
           all == Default(l)
<1>1. /\ l \in JobLanguages /\ f \in DOMAIN sources /\ LanguageOf[f] = l
  BY WantedHaveTheLanguage
<1>2. CASE f \in Interfaces
  BY <1>2 DEF Asked
<1>3. CASE f \notin Interfaces
  <2>1. sel[Abs(f)] = all
    BY <1>1, SelectedOutputs
  <2>2. Abs(f) \in CompiledKeys /\ Abs(f) \in DOMAIN sel
    BY <1>1, <1>3, SelectedOutputs DEF CompiledKeys
  <2> HIDE DEF sel, handed
  <2>3. /\ key \in Handed.names /\ key \in DOMAIN handed
        /\ DOMAIN handed[key] = DOMAIN all
        /\ \A c \in DOMAIN all : handed[key][c] = Narrowed(all[c])
    BY <2>1, <2>2, HandedOutputs DEF sel, handed
  <2> HIDE DEF all
  <2>4. ASSUME NEW x \in Asked(f)
        PROVE  \E c \in DOMAIN all : x \in Narrowed(all[c])
    <3>1. PICK c \in DOMAIN all :
              /\ x \in all[c]
              /\ l = "Vyper" => x \notin VyperLacks
              /\ l # "Vyper" /\ tool = "resolc" => x \in ResolcKnows
      BY <1>1, <1>3 DEF Asked, Default, all
    <3> QED
      BY <3>1 DEF Narrowed
  <2>5. ASSUME NEW c \in DOMAIN all
        PROVE  Narrowed(all[c]) \subseteq Given(key)
    <3>1. handed[key][c] \subseteq Chosen(handed, key)
      BY <2>3 DEF Chosen
    <3> QED
      BY <2>3, <3>1 DEF Given, handed
  <2> QED
    BY <2>4, <2>5
<1> QED
  BY <1>2, <1>3

(* Nothing is asked for a file that is not wanted. *)
LEMMA OthersAreNotAskedFor ==
    ASSUME JobInv, AbsoluteKeys, stage = "stripped", NEW f \in SourceFiles \ wanted
    PROVE  Given(Relative(Abs(f))) = {}
<1> DEFINE l == input.language
           sel == Selection(Configured(l), sources, wanted)
           handed == Handed.settings.select
           key == Relative(Abs(f))
<1>1. CASE key \notin Handed.names
  BY <1>1 DEF Given
<1>2. CASE key \in Handed.names
  <2>1. Handed.names = {Relative(k) : k \in CompiledKeys}
    BY HandedOutputs
  <2>2. \A k \in CompiledKeys : IsKey(k)
    BY FilesAreKeys DEF CompiledKeys
  <2>3. Abs(f) \in CompiledKeys
    <3>1. PICK k \in CompiledKeys : Relative(k) = key
      BY <1>2, <2>1
    <3> QED
      BY <2>2, <3>1, FilesAreKeys, RelativeIsInjective
  <2>4. f \in DOMAIN sources
    <3>1. PICK g \in DOMAIN sources : Abs(g) = Abs(f)
      BY <2>3 DEF CompiledKeys
    <3> QED
      BY <3>1, FilesAreKeys
  <2>5. l \in JobLanguages
    BY WantedHaveTheLanguage
  <2>6. sel[Abs(f)] = <<>> /\ \A k \in DOMAIN sel : IsKey(k) /\ k # Star
    BY <2>4, <2>5, SelectedOutputs
  <2>7. DOMAIN handed[key] = {}
    BY <2>3, <2>6, HandedOutputs
  <2>8. Star \notin DOMAIN handed
    <3>1. \A k \in DOMAIN handed : \E o \in DOMAIN sel : k = Relative(o)
      BY HandedOutputs
    <3>2. Relative(Star) = Star /\ IsKey(Star)
      BY DEF Relative, Star, IsKey
    <3> HIDE DEF sel, handed
    <3> QED
      BY <2>6, <3>1, <3>2, RelativeIsInjective
  <2> HIDE DEF sel, handed, key
  <2>9. Chosen(handed, key) = {}
    BY <2>7, <2>8 DEF Chosen
  <2> QED
    BY <1>2, <2>9 DEF Given, handed, key
<1> QED
  BY <1>1, <1>2

(* A build asks its compilers for what is missing, all of it and nothing else: neither a filter,
   nor the outputs a compiler does not know, nor the stripped paths lose a file or an output
   (filter.rs sparse_sources, update_output_selection, the inputs' build and strip_prefix). *)
THEOREM InputsAskExactly == ASSUME AbsoluteKeys PROVE InputSpec => []AskedExactly
<1>1. ASSUME JobInv
      PROVE  AskedExactly
  <2>1. ASSUME stage = "stripped", NEW f \in DOMAIN sources, sources[f],
               f \in pattern
               \/ \E g \in DOMAIN sources \cap pattern : sources[g] /\ f \in Dependencies(g)
        PROVE  f \in wanted
    <3>1. wanted = FullCompilation(sources)
      BY <1>1, <2>1 DEF JobInv, JobStages
    <3> QED
      BY <2>1, <3>1 DEF FullCompilation
  <2>2. WantedIsCompiled
    BY <1>1, <2>1, AllIsAskedFor DEF WantedIsCompiled
  <2>3. OthersAreSilent
    BY <1>1, OthersAreNotAskedFor DEF OthersAreSilent
  <2> QED
    BY <2>2, <2>3 DEF AskedExactly
<1> QED
  BY <1>1, JobInvHolds, PTL

-----------------------------------------------------------------------------
(***************************************************************************)
(* Dirty sources.                                                          *)
(*                                                                         *)
(* The walk over the files by path keeps two facts of the files it has     *)
(* looked at (WalkIsSound): one that is clean and no mock has no reason to *)
(* be dirty, and a mock that imports something dirty has only dirty        *)
(* importers.  Reasons that come up later do not break them, as what makes *)
(* an import dirty is itself a reason of its importers.                    *)
(***************************************************************************)

(* Sources import sources only.  Without it the theorem fails: a source that *)
(* imports a mock and was found dirty first keeps the test that imports it   *)
(* clean (populate_dirty_files, cache.rs:836, does not go on from it).       *)
SourcesImportSources == \A l \in Layouts : \A f \in l.src : l.needs[f] \subseteq l.src

-----------------------------------------------------------------------------
(* Spreading *)

LEMMA SpreadingIsClosed ==
    ASSUME NEW first, NEW within, NEW step
    PROVE  /\ Spreading(first, within, step) \subseteq within
           /\ first \cap within \subseteq Spreading(first, within, step)
           /\ \A g \in Spreading(first, within, step) :
                  step[g] \cap within \subseteq Spreading(first, within, step)
<1>1. ASSUME NEW g \in Spreading(first, within, step), NEW h \in step[g] \cap within
      PROVE  h \in Spreading(first, within, step)
  <2> SUFFICES ASSUME NEW S \in SUBSET within, first \cap within \subseteq S,
                      \A k \in S : step[k] \cap within \subseteq S
               PROVE  h \in S
    BY <1>1 DEF Spreading
  <2>1. g \in S
    BY <1>1 DEF Spreading
  <2> QED
    BY <2>1, <1>1
<1>2. first \cap within \subseteq Spreading(first, within, step)
  BY DEF Spreading
<1>3. Spreading(first, within, step) \subseteq within
  BY DEF Spreading
<1> QED
  BY <1>1, <1>2, <1>3

LEMMA SpreadingIsLeast ==
    ASSUME NEW first, NEW within, NEW step, NEW S \in SUBSET within,
           first \cap within \subseteq S,
           \A g \in S : step[g] \cap within \subseteq S
    PROVE  Spreading(first, within, step) \subseteq S
  BY DEF Spreading

(* What is known of a layout. *)
LEMMA LayoutTypes ==
    ASSUME layout \in Layouts
    PROVE  /\ layout.src \subseteq Paths
           /\ layout.needs \in [Paths -> SUBSET Paths]
           /\ \A n \in 1 .. Len(layout.order) : layout.order[n] \in Paths
           /\ \A f \in Paths : \E n \in 1 .. Len(layout.order) : layout.order[n] = f
           /\ Len(layout.order) \in Nat
<1>1. layout.order \in Seq(Paths) /\ layout.src \subseteq Paths /\ layout.needs \in [Paths -> SUBSET Paths]
  BY LayoutsAreProjects DEF Paths
<1>2. Paths = {layout.order[n] : n \in DOMAIN layout.order}
  BY DEF Paths, ToSet
<1>3. DOMAIN layout.order = 1 .. Len(layout.order) /\ Len(layout.order) \in Nat
  BY <1>1
<1> QED
  BY <1>1, <1>2, <1>3

(* All imports of a file are among the files, with all they import. *)
LEMMA ImportsAreClosed ==
    ASSUME layout \in Layouts, NEW f \in Paths
    PROVE  /\ AllImports(f) \subseteq Paths
           /\ layout.needs[f] \subseteq AllImports(f)
           /\ \A g \in AllImports(f) : layout.needs[g] \subseteq AllImports(f)
           /\ \A g \in AllImports(f) : AllImports(g) \subseteq AllImports(f)
<1> DEFINE A == AllImports(f)
<1>1. layout.needs \in [Paths -> SUBSET Paths]
  BY LayoutTypes
<1>2. /\ A \subseteq Paths
      /\ layout.needs[f] \cap Paths \subseteq A
      /\ \A g \in A : layout.needs[g] \cap Paths \subseteq A
  BY SpreadingIsClosed DEF AllImports
<1>3. /\ layout.needs[f] \subseteq A
      /\ \A g \in A : layout.needs[g] \subseteq A
  BY <1>1, <1>2
<1>4. ASSUME NEW g \in A PROVE AllImports(g) \subseteq A
  <2>1. A \in SUBSET Paths /\ layout.needs[g] \cap Paths \subseteq A
    BY <1>2, <1>4
  <2> HIDE DEF A
  <2>2. Spreading(layout.needs[g], Paths, layout.needs) \subseteq A
    BY <1>2, <2>1, SpreadingIsLeast
  <2> QED
    BY <2>2 DEF AllImports
<1> QED
  BY <1>2, <1>3, <1>4

(* Sources import sources only, directly or not. *)
LEMMA SourcesReachSources ==
    ASSUME layout \in Layouts, SourcesImportSources, NEW f \in layout.src
    PROVE  AllImports(f) \subseteq layout.src
<1>1. layout.src \in SUBSET Paths /\ \A g \in layout.src : layout.needs[g] \subseteq layout.src
  BY LayoutTypes DEF SourcesImportSources
<1>2. Spreading(layout.needs[f], Paths, layout.needs) \subseteq layout.src
  <2>1. \A g \in layout.src : layout.needs[g] \cap Paths \subseteq layout.src
    BY <1>1
  <2>2. layout.needs[f] \cap Paths \subseteq layout.src
    BY <1>1
  <2> QED
    BY <1>1, <2>1, <2>2, SpreadingIsLeast
<1> QED
  BY <1>2 DEF AllImports

(* Who reaches into a set from outside does so over a file outside of it that *)
(* imports one in it.                                                         *)
LEMMA Entering ==
    ASSUME layout \in Layouts, NEW f \in Paths, NEW U, f \notin U,
           NEW i \in AllImports(f) \cap U
    PROVE  \E p \in {f} \cup AllImports(f), q \in U \cap AllImports(f) :
               p \notin U /\ p \in Paths /\ q \in Paths /\ q \in layout.needs[p] /\ p \in Importers[q]
<1>1. layout.needs \in [Paths -> SUBSET Paths]
  BY LayoutTypes
<1>2. AllImports(f) \subseteq Paths /\ layout.needs[f] \subseteq AllImports(f)
      /\ \A g \in AllImports(f) : layout.needs[g] \subseteq AllImports(f)
  BY ImportsAreClosed
<1>3. \E p \in ({f} \cup AllImports(f)) \ U, q \in U : q \in layout.needs[p]
  <2> SUFFICES ASSUME ~ \E p \in ({f} \cup AllImports(f)) \ U, q \in U : q \in layout.needs[p]
               PROVE  FALSE
    OBVIOUS
  <2> DEFINE R == AllImports(f) \ U
  <2>1. layout.needs[f] \cap Paths \subseteq R
    BY <1>2
  <2>2. \A g \in R : layout.needs[g] \cap Paths \subseteq R
    BY <1>2
  <2>3. R \in SUBSET Paths
    BY <1>2
  <2>4. i \notin R
    OBVIOUS
  <2> HIDE DEF R
  <2>5. Spreading(layout.needs[f], Paths, layout.needs) \subseteq R
    BY <2>1, <2>2, <2>3, SpreadingIsLeast
  <2> QED
    BY <2>4, <2>5 DEF AllImports
<1>4. PICK p \in ({f} \cup AllImports(f)) \ U, q \in U : q \in layout.needs[p]
  BY <1>3
<1>5. p \in Paths /\ q \in AllImports(f) /\ q \in Paths
  BY <1>2, <1>4
<1>6. p \in Importers[q]
  BY <1>4, <1>5 DEF Importers
<1> QED
  BY <1>4, <1>5, <1>6

-----------------------------------------------------------------------------
(* The walk. *)

Contents(cached) == [f \in DOMAIN cached |-> cached[f].content]

(* A cache holds the hashes of what its files contained. *)
IsCache(cached) ==
    /\ DOMAIN cached \subseteq Paths
    /\ \A f \in DOMAIN cached : cached[f] = Hashes(Contents(cached), f)

LEMMA NodesAreClosed ==
    ASSUME layout \in Layouts, NEW cached, DOMAIN cached \subseteq Paths
    PROVE  /\ GraphNodes(cached) \subseteq Paths
           /\ DOMAIN cached \subseteq GraphNodes(cached)
           /\ \A f \in GraphNodes(cached) : AllImports(f) \subseteq GraphNodes(cached)
<1>1. GraphNodes(cached) \subseteq Paths /\ DOMAIN cached \subseteq GraphNodes(cached)
  BY ImportsAreClosed DEF GraphNodes
<1>2. ASSUME NEW f \in GraphNodes(cached) PROVE AllImports(f) \subseteq GraphNodes(cached)
  <2>1. CASE f \in DOMAIN cached
    BY <2>1 DEF GraphNodes
  <2>2. ASSUME NEW g \in DOMAIN cached, f \in AllImports(g)
        PROVE  AllImports(f) \subseteq GraphNodes(cached)
    <3>1. AllImports(f) \subseteq AllImports(g)
      BY <2>2, ImportsAreClosed
    <3> QED
      BY <3>1 DEF GraphNodes
  <2> QED
    BY <1>2, <2>1, <2>2 DEF GraphNodes
<1> QED
  BY <1>1, <1>2

(* An interface does not change without the content. *)
LEMMA InterfacesAreOfContents ==
    ASSUME NEW cached, IsCache(cached), NEW f, InterfaceChanged(cached, f)
    PROVE  ContentChanged(cached, f)
<1> SUFFICES ASSUME f \in DOMAIN cached, cached[f].content = Hashes(text, f).content
             PROVE  cached[f].interface = Hashes(text, f).interface
  BY DEF InterfaceChanged, ContentChanged
<1>1. cached[f].content = text[f]
  BY DEF Hashes
<1>2. cached[f] = Hashes(Contents(cached), f) /\ Contents(cached)[f] = text[f]
  BY <1>1 DEF IsCache, Contents
<1> QED
  BY <1>2 DEF Hashes

(* What the walk knows of the files it has looked at. *)
WalkIsSound(cached, listed, seen, dirty) ==
    /\ Changed(cached) \subseteq dirty
    /\ dirty \subseteq GraphNodes(cached)
    /\ seen \subseteq GraphNodes(cached)
    /\ \A f \in seen \ dirty :
          IF IsSource(f) \/ f \notin listed THEN Reasons(cached, listed, dirty, f) = {}
          ELSE AllImports(f) \cap dirty # {} => Importers[f] \cap GraphNodes(cached) \subseteq dirty

(* A file that becomes dirty has reasons, which are as good for its importers. *)
LEMMA FileIsMarked ==
    ASSUME layout \in Layouts, NEW cached, IsCache(cached), NEW listed, NEW seen, NEW dirty,
           WalkIsSound(cached, listed, seen, dirty),
           NEW g \in GraphNodes(cached) \ dirty, Reasons(cached, listed, dirty, g) # {},
           IsSource(g) \/ g \notin listed
    PROVE  WalkIsSound(cached, listed, seen \cup {g}, dirty \cup {g})
<1>1. /\ Changed(cached) \subseteq dirty
      /\ dirty \subseteq GraphNodes(cached)
      /\ seen \subseteq GraphNodes(cached)
  BY DEF WalkIsSound
<1>2. PICK j \in Reasons(cached, listed, dirty, g) : TRUE
  OBVIOUS
<1>3. j \in AllImports(g) \cap dirty /\ (IsSource(g) \/ ~IsSource(j) \/ InterfaceChanged(cached, j))
  BY <1>2 DEF Reasons
<1>4. ~ContentChanged(cached, g) /\ ~InterfaceChanged(cached, g)
  BY <1>1, InterfacesAreOfContents DEF Changed
<1>5. ASSUME NEW f \in (seen \cup {g}) \ (dirty \cup {g})
      PROVE  IF IsSource(f) \/ f \notin listed THEN Reasons(cached, listed, dirty \cup {g}, f) = {}
             ELSE AllImports(f) \cap (dirty \cup {g}) # {} =>
                      Importers[f] \cap GraphNodes(cached) \subseteq dirty \cup {g}
  <2>1. f \in seen \ dirty /\ f \in Paths
    BY <1>1, <1>5, NodesAreClosed DEF IsCache
  <2>2. g \in AllImports(f) => j \in AllImports(f) \cap dirty
    BY <1>3, <2>1, ImportsAreClosed
  <2>3. CASE IsSource(f) \/ f \notin listed
    <3>1. Reasons(cached, listed, dirty, f) = {}
      BY <2>1, <2>3 DEF WalkIsSound
    <3>2. g \notin Reasons(cached, listed, dirty \cup {g}, f)
      <4> SUFFICES ASSUME g \in Reasons(cached, listed, dirty \cup {g}, f) PROVE FALSE
        OBVIOUS
      <4>1. g \in AllImports(f) /\ (IsSource(f) \/ ~IsSource(g))
        BY <1>4, <2>3 DEF Reasons
      <4>2. j \in Reasons(cached, listed, dirty, f)
        BY <1>3, <2>2, <4>1 DEF Reasons
      <4> QED
        BY <3>1, <4>2
    <3>3. Reasons(cached, listed, dirty \cup {g}, f) \subseteq Reasons(cached, listed, dirty, f) \cup {g}
      BY DEF Reasons
    <3> QED
      BY <2>3, <3>1, <3>2, <3>3
  <2>4. CASE ~(IsSource(f) \/ f \notin listed)
    <3>1. AllImports(f) \cap dirty # {} => Importers[f] \cap GraphNodes(cached) \subseteq dirty
      BY <2>1, <2>4 DEF WalkIsSound
    <3>2. AllImports(f) \cap (dirty \cup {g}) # {} => AllImports(f) \cap dirty # {}
      BY <2>2
    <3> QED
      BY <2>4, <3>1, <3>2
  <2> QED
    BY <2>3, <2>4
<1> QED
  BY <1>1, <1>5 DEF WalkIsSound

(* The importers of a mock that become dirty are tests. *)
LEMMA TestsArePopulated ==
    ASSUME layout \in Layouts, SourcesImportSources, NEW cached, IsCache(cached), NEW dirty,
           NEW m \in Paths, ~IsSource(m)
    PROVE  \A g \in Spreading(Importers[m], GraphNodes(cached) \ dirty, Importers) : ~IsSource(g)
<1> DEFINE within == GraphNodes(cached) \ dirty
           T == {f \in within : ~IsSource(f)}
<1>1. \A f \in layout.src : layout.needs[f] \subseteq layout.src
  BY DEF SourcesImportSources
<1>2. ASSUME NEW f \in Paths, ~IsSource(f), NEW p \in Importers[f] PROVE ~IsSource(p)
  <2>1. f \in layout.needs[p]
    BY <1>2 DEF Importers
  <2> QED
    BY <1>1, <1>2, <2>1 DEF IsSource
<1>3. within \subseteq Paths
  BY NodesAreClosed DEF IsCache
<1>4. Importers[m] \cap within \subseteq T
  BY <1>2
<1>5. \A f \in T : Importers[f] \cap within \subseteq T
  BY <1>2, <1>3
<1>6. T \in SUBSET within /\ \A g \in T : ~IsSource(g)
  OBVIOUS
<1> HIDE DEF T
<1>7. Spreading(Importers[m], within, Importers) \subseteq T
  BY <1>4, <1>5, <1>6, SpreadingIsLeast
<1> QED
  BY <1>6, <1>7

(* A mock with a dirty import makes its importers dirty. Who of the files seen *)
(* imports one of these without being one of them imports another that was     *)
(* dirty before.                                                               *)
LEMMA ImportersAreMarked ==
    ASSUME layout \in Layouts, SourcesImportSources, NEW cached, IsCache(cached), NEW listed,
           NEW seen, NEW dirty, WalkIsSound(cached, listed, seen, dirty),
           NEW m \in GraphNodes(cached) \ dirty, m \in listed, ~IsSource(m)
    PROVE  WalkIsSound(cached, listed, seen \cup {m}, Populated(cached, dirty, m))
<1> DEFINE S == Spreading(Importers[m], GraphNodes(cached) \ dirty, Importers)
           after == dirty \cup S
<1>1. /\ Changed(cached) \subseteq dirty
      /\ dirty \subseteq GraphNodes(cached)
      /\ seen \subseteq GraphNodes(cached)
  BY DEF WalkIsSound
<1>2. /\ S \subseteq GraphNodes(cached) \ dirty
      /\ Importers[m] \cap (GraphNodes(cached) \ dirty) \subseteq S
      /\ \A g \in S : Importers[g] \cap (GraphNodes(cached) \ dirty) \subseteq S
  BY SpreadingIsClosed
<1>3. m \in Paths
  BY NodesAreClosed DEF IsCache
<1>4. \A g \in S : ~IsSource(g)
  BY <1>3, TestsArePopulated
<1>5. Populated(cached, dirty, m) = after
  BY DEF Populated
<1> HIDE DEF S
<1>6. ASSUME NEW f \in seen \ after, NEW i \in AllImports(f) \cap S
      PROVE  \E p \in AllImports(f) \cap dirty : ~IsSource(p)
  <2>1. f \in GraphNodes(cached) /\ f \in Paths /\ f \notin S /\ f \notin dirty
    BY <1>1, <1>6, NodesAreClosed DEF IsCache
  <2>2. PICK p \in {f} \cup AllImports(f), q \in S \cap AllImports(f) :
               p \notin S /\ p \in Paths /\ q \in Paths /\ q \in layout.needs[p] /\ p \in Importers[q]
    BY <2>1, <1>6, Entering
  <2>3. p \in GraphNodes(cached)
    BY <2>1, <2>2, NodesAreClosed DEF IsCache
  <2>4. p \in dirty
    BY <1>2, <2>2, <2>3
  <2>5. ~IsSource(p)
    BY <1>4, <2>2 DEF IsSource, SourcesImportSources
  <2> QED
    BY <2>1, <2>2, <2>4, <2>5
<1>7. ASSUME NEW f \in (seen \cup {m}) \ after
      PROVE  IF IsSource(f) \/ f \notin listed THEN Reasons(cached, listed, after, f) = {}
             ELSE AllImports(f) \cap after # {} =>
                      Importers[f] \cap GraphNodes(cached) \subseteq after
  <2>1. CASE f = m
    <3>1. Importers[m] \cap GraphNodes(cached) \subseteq after
      BY <1>2
    <3> QED
      BY <2>1, <3>1
  <2>2. CASE f # m /\ (IsSource(f) \/ f \notin listed)
    <3>1. Reasons(cached, listed, dirty, f) = {}
      BY <1>7, <2>2 DEF WalkIsSound
    <3>2. AllImports(f) \cap S = {}
      <4> SUFFICES ASSUME NEW i \in AllImports(f) \cap S PROVE FALSE
        OBVIOUS
      <4>1. PICK p \in AllImports(f) \cap dirty : ~IsSource(p)
        BY <1>6, <1>7, <2>2
      <4>2. p \in Reasons(cached, listed, dirty, f)
        BY <4>1 DEF Reasons
      <4> QED
        BY <3>1, <4>2
    <3>3. Reasons(cached, listed, after, f) = Reasons(cached, listed, dirty, f)
      BY <3>2 DEF Reasons
    <3> QED
      BY <2>2, <3>1, <3>3
  <2>3. CASE f # m /\ ~(IsSource(f) \/ f \notin listed)
    <3>1. AllImports(f) \cap dirty # {} => Importers[f] \cap GraphNodes(cached) \subseteq dirty
      BY <1>7, <2>3 DEF WalkIsSound
    <3>2. AllImports(f) \cap after # {} => AllImports(f) \cap dirty # {}
      BY <1>6, <1>7, <2>3
    <3> QED
      BY <2>3, <3>1, <3>2
  <2> QED
    BY <2>1, <2>2, <2>3
<1>8. Changed(cached) \subseteq after /\ after \subseteq GraphNodes(cached) /\ seen \cup {m} \subseteq GraphNodes(cached)
  BY <1>1, <1>2
<1> QED
  BY <1>5, <1>7, <1>8 DEF WalkIsSound

LEMMA MarkIsSound ==
    ASSUME layout \in Layouts, SourcesImportSources, NEW cached, IsCache(cached), NEW listed,
           NEW seen, NEW dirty, WalkIsSound(cached, listed, seen, dirty),
           NEW g \in GraphNodes(cached)
    PROVE  WalkIsSound(cached, listed, seen \cup {g}, Marked(cached, listed, dirty, g))
<1>1. CASE g \in dirty
  <2>1. Marked(cached, listed, dirty, g) = dirty
    BY <1>1 DEF Marked
  <2> QED
    BY <1>1, <2>1 DEF WalkIsSound
<1>2. CASE g \notin dirty /\ Reasons(cached, listed, dirty, g) = {}
  <2>1. Marked(cached, listed, dirty, g) = dirty
    BY <1>2 DEF Marked
  <2>2. g \in listed => AllImports(g) \cap dirty = {}
    BY <1>2 DEF Reasons
  <2> QED
    BY <1>2, <2>1, <2>2 DEF WalkIsSound
<1>3. CASE g \notin dirty /\ Reasons(cached, listed, dirty, g) # {} /\ (IsSource(g) \/ g \notin listed)
  <2>1. Marked(cached, listed, dirty, g) = dirty \cup {g}
    BY <1>3 DEF Marked
  <2> QED
    BY <1>3, <2>1, FileIsMarked
<1>4. CASE g \notin dirty /\ Reasons(cached, listed, dirty, g) # {} /\ ~(IsSource(g) \/ g \notin listed)
  <2>1. Marked(cached, listed, dirty, g) = Populated(cached, dirty, g)
    BY <1>4 DEF Marked
  <2> QED
    BY <1>4, <2>1, ImportersAreMarked
<1> QED
  BY <1>1, <1>2, <1>3, <1>4

-----------------------------------------------------------------------------
(* The walk is the function its equation describes: it exists as far as the  *)
(* order goes, as the least number it did not reach had one before it.       *)

(* What is dirty after one more file. *)
Visited(cached, listed, dirty, f) ==
    IF f \in GraphNodes(cached) THEN Marked(cached, listed, dirty, f) ELSE dirty

LEMMA WalkIsFunction ==
    ASSUME layout \in Layouts, NEW cached, NEW listed
    PROVE  /\ Walk(cached, listed)[0] = Changed(cached)
           /\ \A n \in 1 .. Len(layout.order) :
                  Walk(cached, listed)[n]
                    = Visited(cached, listed, Walk(cached, listed)[n - 1], layout.order[n])
<1> DEFINE N == Len(layout.order)
           Equation(w, k) ==
               w[k] = IF k = 0 THEN Changed(cached)
                      ELSE Visited(cached, listed, w[k - 1], layout.order[k])
           Reached == {n \in 0 .. N : \E w : \A k \in 0 .. n : Equation(w, k)}
<1>1. N \in Nat
  BY LayoutTypes
<1>2. 0 \in Reached
  <2> DEFINE w == [k \in {0} |-> Changed(cached)]
  <2>1. \A k \in 0 .. 0 : Equation(w, k)
    OBVIOUS
  <2>2. 0 \in 0 .. N
    BY <1>1
  <2> HIDE DEF Equation, w, N
  <2> QED
    BY <2>1, <2>2
<1>3. ASSUME NEW n \in 0 .. N, n \in Reached, n + 1 <= N
      PROVE  n + 1 \in Reached
  <2>1. PICK w : \A k \in 0 .. n : Equation(w, k)
    BY <1>3
  <2> DEFINE u == [k \in 0 .. (n + 1) |->
                      IF k = n + 1 THEN Visited(cached, listed, w[n], layout.order[n + 1]) ELSE w[k]]
  <2>2. \A k \in 0 .. n : u[k] = w[k]
    BY <1>1
  <2>3. u[n + 1] = Visited(cached, listed, u[n], layout.order[n + 1])
    BY <1>1, <2>2
  <2>4. \A k \in 0 .. n : Equation(u, k)
    <3> HIDE DEF u
    <3> QED
      BY <1>1, <2>1, <2>2
  <2>5. Equation(u, n + 1)
    <3> HIDE DEF u
    <3> QED
      BY <1>1, <2>3
  <2>6. \A k \in 0 .. (n + 1) : Equation(u, k)
    <3> HIDE DEF Equation
    <3> QED
      BY <1>1, <2>4, <2>5
  <2>7. n + 1 \in 0 .. N
    BY <1>1, <1>3
  <2> HIDE DEF Equation, u, N
  <2> QED
    BY <2>6, <2>7
<1>4. N \in Reached
  <2> HIDE DEF Reached, N
  <2>1. 0 .. N \subseteq Reached
    BY <1>1, <1>2, <1>3, NumbersAreReached
  <2> QED
    BY <1>1, <2>1
<1>5. PICK w : \A k \in 0 .. N : Equation(w, k)
  BY <1>4
<1> DEFINE Rule(v) == [k \in 0 .. N |-> IF k = 0 THEN Changed(cached)
                                        ELSE IF layout.order[k] \in GraphNodes(cached)
                                        THEN Marked(cached, listed, v[k - 1], layout.order[k])
                                        ELSE v[k - 1]]
<1>6. [k \in 0 .. N |-> w[k]] = Rule([k \in 0 .. N |-> w[k]])
  <2> DEFINE v == [k \in 0 .. N |-> w[k]]
  <2>1. \A k \in 0 .. N : k # 0 => v[k - 1] = w[k - 1]
    BY <1>1
  <2>2. \A k \in 0 .. N : Equation(v, k)
    <3> HIDE DEF v
    <3>1. \A k \in 0 .. N : v[k] = w[k]
      BY DEF v
    <3> QED
      BY <1>5, <2>1, <3>1
  <2>3. \A k \in 0 .. N : v[k] = Rule(v)[k]
    <3> HIDE DEF v
    <3> QED
      BY <2>2 DEF Visited
  <2>4. DOMAIN Rule(v) = 0 .. N /\ Rule(v) = [k \in 0 .. N |-> Rule(v)[k]]
    <3> HIDE DEF v
    <3> QED
      OBVIOUS
  <2>5. v = [k \in 0 .. N |-> v[k]]
    OBVIOUS
  <2> HIDE DEF Rule, v
  <2> QED
    BY <2>3, <2>4, <2>5
<1>7. Walk(cached, listed) = CHOOSE v : v = Rule(v)
  BY DEF Walk
<1> HIDE DEF Rule
<1>8. Walk(cached, listed) = Rule(Walk(cached, listed))
  BY <1>6, <1>7
<1> QED
  BY <1>1, <1>8 DEF Rule, Visited

(* What is left clean of a preprocessed cache has no reason to be dirty. *)
LEMMA WalkEndsSound ==
    ASSUME layout \in Layouts, SourcesImportSources, NEW cached, IsCache(cached), NEW listed
    PROVE  WalkIsSound(cached, listed, GraphNodes(cached), Walk(cached, listed)[Len(layout.order)])
<1> DEFINE N == Len(layout.order)
           W == Walk(cached, listed)
           Seen(n) == {layout.order[k] : k \in 1 .. n} \cap GraphNodes(cached)
           Sound == {n \in 0 .. N : WalkIsSound(cached, listed, Seen(n), W[n])}
<1>1. N \in Nat
  BY LayoutTypes
<1>2. W[0] = Changed(cached) /\ \A n \in 1 .. N : W[n] = Visited(cached, listed, W[n - 1], layout.order[n])
  BY WalkIsFunction
<1> HIDE DEF W
<1>3. 0 \in Sound
  <2>1. Seen(0) = {}
    OBVIOUS
  <2>2. Changed(cached) \subseteq GraphNodes(cached)
    BY DEF Changed
  <2>3. WalkIsSound(cached, listed, {}, Changed(cached))
    BY <2>2 DEF WalkIsSound
  <2>4. 0 \in 0 .. N
    BY <1>1
  <2> HIDE DEF Seen, N
  <2> QED
    BY <1>2, <2>1, <2>3, <2>4
<1>4. ASSUME NEW n \in 0 .. N, n \in Sound, n + 1 <= N
      PROVE  n + 1 \in Sound
  <2>1. PICK g : g = layout.order[n + 1]
    OBVIOUS
  <2>2. n + 1 \in 1 .. N /\ n + 1 \in 0 .. N /\ (n + 1) - 1 = n
    BY <1>1, <1>4
  <2>3. W[n + 1] = Visited(cached, listed, W[n], g)
    BY <1>2, <2>1, <2>2
  <2>4. WalkIsSound(cached, listed, Seen(n), W[n])
    BY <1>4
  <2>5. 1 .. (n + 1) = (1 .. n) \cup {n + 1}
    BY <1>1
  <2>6. {layout.order[k] : k \in 1 .. (n + 1)} = {layout.order[k] : k \in 1 .. n} \cup {g}
    BY <2>1, <2>5
  <2>7. CASE g \in GraphNodes(cached)
    <3>1. Seen(n + 1) = Seen(n) \cup {g}
      BY <2>6, <2>7
    <3>2. W[n + 1] = Marked(cached, listed, W[n], g)
      BY <2>3, <2>7 DEF Visited
    <3> HIDE DEF Seen
    <3>3. WalkIsSound(cached, listed, Seen(n) \cup {g}, Marked(cached, listed, W[n], g))
      BY <2>4, <2>7, MarkIsSound
    <3> QED
      BY <2>2, <3>1, <3>2, <3>3
  <2>8. CASE g \notin GraphNodes(cached)
    <3>1. Seen(n + 1) = Seen(n)
      BY <2>6, <2>8
    <3>2. W[n + 1] = W[n]
      BY <2>3, <2>8 DEF Visited
    <3> HIDE DEF Seen
    <3> QED
      BY <2>2, <2>4, <3>1, <3>2
  <2> QED
    BY <2>7, <2>8
<1>5. N \in Sound
  <2> HIDE DEF Sound, N
  <2>1. 0 .. N \subseteq Sound
    BY <1>1, <1>3, <1>4, NumbersAreReached
  <2> QED
    BY <1>1, <2>1
<1>6. Seen(N) = GraphNodes(cached)
  <2>1. GraphNodes(cached) \subseteq Paths
    BY NodesAreClosed DEF IsCache
  <2>2. \A f \in Paths : \E n \in 1 .. N : layout.order[n] = f
    BY LayoutTypes
  <2>3. GraphNodes(cached) \subseteq {layout.order[k] : k \in 1 .. N}
    <3> HIDE DEF N
    <3> QED
      BY <2>1, <2>2
  <2>4. Seen(N) = {layout.order[k] : k \in 1 .. N} \cap GraphNodes(cached)
    OBVIOUS
  <2> HIDE DEF Seen, N
  <2> QED
    BY <2>3, <2>4
<1> QED
  BY <1>5, <1>6 DEF W

-----------------------------------------------------------------------------
(* What is clean. *)

(* Without a preprocessor what imports something dirty is dirty. *)
LEMMA CleanImportsClean ==
    ASSUME layout \in Layouts, NEW cached, IsCache(cached), NEW listed,
           NEW f \in DOMAIN cached \ Dirty(cached, listed, FALSE)
    PROVE  AllImports(f) \cap Dirty(cached, listed, FALSE) = {}
<1> DEFINE U == Spreading(Changed(cached), GraphNodes(cached), Importers)
<1>1. Dirty(cached, listed, FALSE) = U
  BY DEF Dirty
<1>2. \A g \in U : Importers[g] \cap GraphNodes(cached) \subseteq U
  BY SpreadingIsClosed
<1> HIDE DEF U
<1> SUFFICES ASSUME NEW i \in AllImports(f) \cap U PROVE FALSE
  BY <1>1
<1>3. f \in GraphNodes(cached) /\ f \in Paths /\ f \notin U
  BY <1>1, NodesAreClosed DEF IsCache
<1>4. PICK p \in {f} \cup AllImports(f), q \in U \cap AllImports(f) : p \notin U /\ p \in Importers[q]
  BY <1>3, Entering
<1>5. p \in GraphNodes(cached)
  BY <1>3, <1>4, NodesAreClosed DEF IsCache
<1> QED
  BY <1>2, <1>4, <1>5

(* What is not dirty has the content its entry says. *)
LEMMA CleanIsUnchanged ==
    ASSUME layout \in Layouts, SourcesImportSources, NEW cached, IsCache(cached), NEW listed, NEW mode \in BOOLEAN,
           NEW f \in GraphNodes(cached) \ Dirty(cached, listed, mode)
    PROVE  f \in DOMAIN cached /\ text[f] = Contents(cached)[f] /\ cached[f] = Hashes(text, f)
<1>1. Changed(cached) \subseteq Dirty(cached, listed, mode)
  <2>1. CASE mode = TRUE
    BY <2>1, WalkEndsSound DEF Dirty, WalkIsSound
  <2>2. CASE mode = FALSE
    <3>1. Changed(cached) \subseteq GraphNodes(cached)
      BY DEF Changed
    <3> QED
      BY <2>2, <3>1, SpreadingIsClosed DEF Dirty
  <2> QED
    BY <2>1, <2>2
<1>2. ~ContentChanged(cached, f)
  BY <1>1 DEF Changed
<1>3. f \in DOMAIN cached /\ cached[f].content = text[f]
  BY <1>2 DEF ContentChanged, Hashes
<1>4. Contents(cached)[f] = text[f] /\ cached[f] = Hashes(Contents(cached), f)
  BY <1>3 DEF Contents, IsCache
<1> QED
  BY <1>3, <1>4 DEF Hashes

(* A test that is clean and no mock has clean tests among its imports, its  *)
(* sources have the interfaces their entries say, and a mock among its      *)
(* imports imports nothing dirty.                                           *)
LEMMA CleanTests ==
    ASSUME layout \in Layouts, SourcesImportSources, NEW cached, IsCache(cached), NEW listed,
           NEW f \in DOMAIN cached \ (Dirty(cached, listed, TRUE) \cup listed), ~IsSource(f)
    PROVE  /\ \A i \in AllImports(f) \cap Dirty(cached, listed, TRUE) :
                  IsSource(i) /\ ~InterfaceChanged(cached, i)
           /\ \A t \in AllImports(f) \cap listed :
                  ~IsSource(t) => AllImports(t) \cap Dirty(cached, listed, TRUE) = {}
<1> DEFINE dirty == Dirty(cached, listed, TRUE)
           nodes == GraphNodes(cached)
<1>1. WalkIsSound(cached, listed, nodes, dirty)
  BY WalkEndsSound DEF Dirty
<1>2. /\ f \in nodes /\ f \in Paths /\ f \notin dirty /\ f \notin listed
      /\ AllImports(f) \subseteq nodes /\ AllImports(f) \subseteq Paths
  BY NodesAreClosed DEF IsCache
<1> HIDE DEF dirty
<1>3. Reasons(cached, listed, dirty, f) = {}
  BY <1>1, <1>2 DEF WalkIsSound
<1>4. \A i \in AllImports(f) \cap dirty : IsSource(i) /\ ~InterfaceChanged(cached, i)
  BY <1>3 DEF Reasons
<1>5. ASSUME NEW t \in AllImports(f) \cap listed, ~IsSource(t), AllImports(t) \cap dirty # {}
      PROVE  FALSE
  <2>1. t \in nodes \ dirty
    BY <1>2, <1>4, <1>5
  <2>2. Importers[t] \cap nodes \subseteq dirty
    BY <1>1, <1>5, <2>1 DEF WalkIsSound
  <2> DEFINE U == {t}
  <2>3. f \notin U /\ t \in AllImports(f) \cap U /\ \A q \in U : q = t
    BY <1>2, <1>5
  <2> HIDE DEF U
  <2>4. PICK p \in {f} \cup AllImports(f), q \in U \cap AllImports(f) :
               p \in Paths /\ q \in layout.needs[p] /\ p \in Importers[q]
    BY <1>2, <2>3, Entering
  <2>5. p \in dirty
    BY <1>2, <2>2, <2>3, <2>4
  <2>6. ~IsSource(p)
    BY <1>5, <2>3, <2>4 DEF IsSource, SourcesImportSources
  <2> QED
    BY <1>2, <1>4, <2>4, <2>5, <2>6
<1> QED
  BY <1>4, <1>5 DEF dirty

LEMMA CleanSources ==
    ASSUME layout \in Layouts, SourcesImportSources, NEW cached, IsCache(cached), NEW listed,
           NEW f \in DOMAIN cached \ Dirty(cached, listed, TRUE), IsSource(f)
    PROVE  AllImports(f) \cap Dirty(cached, listed, TRUE) = {}
<1> DEFINE dirty == Dirty(cached, listed, TRUE)
<1>1. WalkIsSound(cached, listed, GraphNodes(cached), dirty)
  BY WalkEndsSound DEF Dirty
<1>2. f \in GraphNodes(cached) \ dirty
  BY NodesAreClosed DEF IsCache
<1> HIDE DEF dirty
<1>3. Reasons(cached, listed, dirty, f) = {}
  BY <1>1, <1>2 DEF WalkIsSound
<1> QED
  BY <1>3 DEF Reasons, dirty

(* The mocks of a cache are the tests it knows to extend a source's contract. *)
MocksOf(cached, listed, mode) ==
    IF mode THEN \A f \in DOMAIN cached : f \in listed <=> Extends(Contents(cached), f)
    ELSE listed = {}

LEMMA ReadsAgree ==
    ASSUME NEW was, NEW is, NEW f, NEW mode,
           Wholly(was, f, mode) = Wholly(is, f, mode),
           \A g \in {f} \cup AllImports(f) :
               IF g \in Wholly(is, f, mode) THEN was[g] = is[g] ELSE was[g].interface = is[g].interface
    PROVE  Reads(was, f, mode) = Reads(is, f, mode)
<1> DEFINE Read(texts) == [g \in {f} \cup AllImports(f) |->
                              IF g \in Wholly(is, f, mode) THEN texts[g] ELSE texts[g].interface]
<1>1. Reads(was, f, mode) = Read(was) /\ Reads(is, f, mode) = Read(is)
  BY DEF Reads
<1>2. \A g \in {f} \cup AllImports(f) : Read(was)[g] = Read(is)[g]
  OBVIOUS
<1>3. Read(was) = Read(is)
  BY <1>2
<1> QED
  BY <1>1, <1>3

(* A clean file that is no mock is compiled from the same as when it was,    *)
(* whether the entries or the files are asked.                               *)
LEMMA CleanReadsTheSame ==
    ASSUME layout \in Layouts, SourcesImportSources, NEW cached, IsCache(cached), NEW listed, NEW mode \in BOOLEAN,
           MocksOf(cached, listed, mode),
           NEW f \in DOMAIN cached \ (Dirty(cached, listed, mode) \cup listed)
    PROVE  /\ AllImports(f) \subseteq DOMAIN cached
           /\ Reads(Contents(cached), f, mode) = Reads(text, f, mode)
<1> DEFINE dirty == Dirty(cached, listed, mode)
           all == {f} \cup AllImports(f)
           was == Contents(cached)
<1>1. f \in Paths /\ AllImports(f) \subseteq GraphNodes(cached) /\ f \in GraphNodes(cached) /\ AllImports(f) \subseteq Paths
  BY NodesAreClosed DEF IsCache
<1>2. \A g \in GraphNodes(cached) \ dirty : g \in DOMAIN cached /\ text[g] = was[g]
  BY CleanIsUnchanged
<1>3. CASE IsSource(f) \/ mode = FALSE
  <2>1. AllImports(f) \cap dirty = {}
    BY <1>3, CleanSources, CleanImportsClean
  <2>2. \A g \in all : g \in DOMAIN cached /\ text[g] = was[g]
    BY <1>1, <1>2, <2>1
  <2>3. Wholly(was, f, mode) = all /\ Wholly(text, f, mode) = all
    BY <1>3 DEF Wholly
  <2> HIDE DEF was, dirty
  <2>4. Reads(was, f, mode) = Reads(text, f, mode)
    BY <2>2, <2>3, ReadsAgree
  <2> QED
    BY <2>2, <2>4 DEF was
<1>4. CASE ~IsSource(f) /\ mode = TRUE
  <2> DEFINE tests == all \ layout.src
  <2>1. /\ \A i \in AllImports(f) \cap dirty : IsSource(i) /\ ~InterfaceChanged(cached, i)
        /\ \A t \in AllImports(f) \cap listed : ~IsSource(t) => AllImports(t) \cap dirty = {}
    BY <1>4, CleanTests
  <2>2. \A g \in all : g \in DOMAIN cached
    BY <1>1, <1>2, <2>1 DEF InterfaceChanged
  <2>3. \A t \in tests : ~IsSource(t) /\ t \notin dirty /\ text[t] = was[t]
    BY <1>1, <1>2, <2>1 DEF IsSource
  <2>4. \A t \in tests : Extends(was, t) <=> Extends(text, t)
    BY <2>3 DEF Extends
  <2>5. Wholly(was, f, mode) = Wholly(text, f, mode)
    BY <1>4, <2>4 DEF Wholly
  <2>6. ASSUME NEW g \in Wholly(text, f, mode) \cap all PROVE text[g] = was[g]
    <3>1. CASE g \in tests
      BY <2>3, <3>1
    <3>2. ASSUME NEW t \in tests, Extends(text, t), g \in AllImports(t)
          PROVE  text[g] = was[g]
      <4>1. t \in listed
        BY <1>4, <2>2, <2>4, <3>2 DEF MocksOf
      <4>2. t \in AllImports(f) /\ ~IsSource(t)
        BY <2>3, <3>2, <4>1
      <4>3. g \notin dirty
        BY <2>1, <3>2, <4>1, <4>2
      <4> QED
        BY <1>1, <1>2, <4>3
    <3> QED
      BY <1>4, <2>6, <3>1, <3>2 DEF Wholly
  <2>7. ASSUME NEW g \in all \ Wholly(text, f, mode) PROVE text[g].interface = was[g].interface
    <3>1. g \in layout.src /\ g \in AllImports(f)
      BY <1>4, <2>7 DEF Wholly, IsSource
    <3>2. CASE g \in dirty
      <4>1. ~InterfaceChanged(cached, g) /\ g \in DOMAIN cached
        BY <2>1, <2>2, <3>1, <3>2
      <4>2. cached[g].interface = text[g].interface
        BY <3>1, <4>1 DEF InterfaceChanged, Hashes, IsSource
      <4>3. cached[g] = Hashes(was, g)
        BY <4>1 DEF IsCache
      <4> QED
        BY <3>1, <4>2, <4>3 DEF Hashes, IsSource
    <3>3. CASE g \notin dirty
      BY <1>1, <1>2, <3>1, <3>3
    <3> QED
      BY <3>2, <3>3
  <2> HIDE DEF was, dirty
  <2>8. Reads(was, f, mode) = Reads(text, f, mode)
    BY <2>5, <2>6, <2>7, ReadsAgree
  <2> QED
    BY <2>2, <2>8 DEF was
<1> QED
  BY <1>3, <1>4

-----------------------------------------------------------------------------
(* The invariant: the cache holds the hashes of what its files contained,    *)
(* its mocks are the tests known to extend a source's contract, and of a     *)
(* file all of whose imports it knows the artifact was compiled from what    *)
(* the entries say.                                                          *)
RecordsAreKnown ==
    \A f \in DOMAIN entries \ mocks :
        AllImports(f) \subseteq DOMAIN entries =>
            built[f] = Reads(Contents(entries), f, preprocessed)

DirtyInv ==
    /\ layout \in Layouts
    /\ preprocessed \in BOOLEAN
    /\ IsCache(entries)
    /\ DOMAIN entries \subseteq DOMAIN built
    /\ MocksOf(entries, mocks, preprocessed)
    /\ RecordsAreKnown

LEMMA StartIsKnown == DirtyInit => DirtyInv
<1> SUFFICES ASSUME DirtyInit PROVE DirtyInv
  OBVIOUS
<1>1. DOMAIN entries = {} /\ mocks = {} /\ preprocessed = FALSE /\ layout \in Layouts
  BY DEF DirtyInit
<1> QED
  BY <1>1 DEF DirtyInv, IsCache, MocksOf, RecordsAreKnown

LEMMA SameLayout ==
    ASSUME layout' = layout
    PROVE  /\ Paths' = Paths
           /\ \A f : IsSource(f)' = IsSource(f)
           /\ \A f : AllImports(f)' = AllImports(f)
           /\ \A texts, f : Hashes(texts, f)' = Hashes(texts, f)
           /\ \A texts, f : Extends(texts, f)' = Extends(texts, f)
           /\ \A texts, f, mode : Reads(texts, f, mode)' = Reads(texts, f, mode)
<1>1. Paths' = Paths
  BY DEF Paths
<1>2. \A f : IsSource(f)' = IsSource(f)
  BY DEF IsSource
<1>3. \A f : AllImports(f)' = AllImports(f)
  BY <1>1 DEF AllImports, Spreading
<1>4. \A texts, f : Hashes(texts, f)' = Hashes(texts, f)
  BY DEF Hashes, IsSource
<1>5. \A texts, f : Extends(texts, f)' = Extends(texts, f)
  BY DEF Extends, IsSource
<1>6. \A texts, f, mode : Wholly(texts, f, mode)' = Wholly(texts, f, mode)
  BY <1>2, <1>3, <1>5 DEF Wholly
<1>7. \A texts, f, mode : Reads(texts, f, mode)' = Reads(texts, f, mode)
  BY <1>3, <1>6 DEF Reads
<1> QED
  BY <1>1, <1>2, <1>3, <1>4, <1>5, <1>7

LEMMA CacheStays ==
    ASSUME DirtyInv, UNCHANGED <<layout, entries, mocks, preprocessed, built>>
    PROVE  DirtyInv'
<1>1. (layout \in Layouts)' /\ (preprocessed \in BOOLEAN)' /\ (DOMAIN entries \subseteq DOMAIN built)'
  BY DEF DirtyInv
<1>2. IsCache(entries)'
  <2>1. DOMAIN entries \subseteq Paths' /\ \A f \in DOMAIN entries : entries[f] = Hashes(Contents(entries), f)'
    BY SameLayout DEF DirtyInv, IsCache
  <2> QED
    BY <2>1 DEF IsCache, Contents, Hashes, IsSource
<1>3. MocksOf(entries, mocks, preprocessed)'
  BY DEF DirtyInv, MocksOf, Extends, Contents, IsSource
<1>4. RecordsAreKnown'
  <2>1. \A f \in DOMAIN entries \ mocks :
            AllImports(f)' \subseteq DOMAIN entries =>
                built[f] = Reads(Contents(entries), f, preprocessed)
    BY SameLayout DEF DirtyInv, RecordsAreKnown
  <2>2. Contents(entries)' = Contents(entries)
    BY DEF Contents
  <2>3. \A f : Reads(Contents(entries), f, preprocessed)' = Reads(Contents(entries), f, preprocessed)
    <3>1. \A texts, f, mode : Reads(texts, f, mode)' = Reads(texts, f, mode)
      BY SameLayout
    <3> QED
      BY <2>2, <3>1 DEF Reads, Wholly, Extends, IsSource
  <2> QED
    BY <2>1, <2>3 DEF RecordsAreKnown
<1> QED
  BY <1>1, <1>2, <1>3, <1>4 DEF DirtyInv

(* After a build every entry is that of the file as it is now: what is kept   *)
(* is clean, and the rest has been compiled.                                  *)
LEMMA BuildIsKnown ==
    ASSUME DirtyInv, SourcesImportSources, NEW f \in Paths, NEW mode \in BOOLEAN, BuildFile(f, mode)
    PROVE  DirtyInv'
<1>1. PICK cached : cached = IF mode = preprocessed THEN entries ELSE <<>>
  OBVIOUS
<1>2. PICK listed : listed = IF mode = preprocessed THEN mocks ELSE {}
  OBVIOUS
<1>3. PICK reused : reused = DOMAIN cached \ Dirty(cached, listed, mode)
  OBVIOUS
<1>4. PICK complete : complete = ({f} \cup AllImports(f)) \ reused
  OBVIOUS
<1>5. PICK given : given = complete \cup UNION {AllImports(g) : g \in complete}
  OBVIOUS
<1>6. /\ preprocessed' = mode
      /\ layout' = layout /\ text' = text
      /\ entries' = [g \in reused \cup complete |-> IF g \in complete THEN Hashes(text, g) ELSE cached[g]]
      /\ built' = [g \in DOMAIN built \cup complete |->
                      IF g \in complete THEN Reads(text, g, mode) ELSE built[g]]
      /\ mocks' = IF mode THEN Listed(listed, given) ELSE listed
  <2>1. PICK clean : clean = Restrict(cached, DOMAIN cached \ Dirty(cached, listed, mode))
    OBVIOUS
  <2>2. DOMAIN clean = reused /\ \A g \in reused : clean[g] = cached[g]
    BY <1>3, <2>1 DEF Restrict
  <2>3. entries' = [g \in DOMAIN clean \cup complete |->
                        IF g \in complete THEN Hashes(text, g) ELSE clean[g]]
    BY <1>1, <1>2, <1>4, <2>1, <2>2 DEF BuildFile
  <2>4. entries' = [g \in reused \cup complete |-> IF g \in complete THEN Hashes(text, g) ELSE cached[g]]
    BY <2>2, <2>3
  <2>5. complete = ({f} \cup AllImports(f)) \ DOMAIN clean
    BY <1>4, <2>2
  <2>6. /\ preprocessed' = mode
        /\ layout' = layout /\ text' = text
        /\ built' = [g \in DOMAIN built \cup complete |->
                        IF g \in complete THEN Reads(text, g, mode) ELSE built[g]]
        /\ mocks' = IF mode THEN Listed(listed, given) ELSE listed
    BY <1>1, <1>2, <1>5, <2>1, <2>5 DEF BuildFile
  <2> QED
    BY <2>4, <2>6
<1>7. layout \in Layouts /\ layout' \in Layouts
  BY <1>6 DEF DirtyInv
<1>8. IsCache(cached) /\ MocksOf(cached, listed, mode) /\ DOMAIN cached \subseteq DOMAIN built
  <2>1. CASE mode = preprocessed
    BY <1>1, <1>2, <2>1 DEF DirtyInv
  <2>2. CASE mode # preprocessed
    <3>1. DOMAIN cached = {} /\ listed = {}
      BY <1>1, <1>2, <2>2
    <3> QED
      BY <3>1 DEF IsCache, MocksOf
  <2> QED
    BY <2>1, <2>2
<1>9. AllImports(f) \subseteq Paths /\ reused \subseteq Paths /\ complete \subseteq Paths
  BY <1>3, <1>4, <1>7, <1>8, ImportsAreClosed DEF IsCache
<1>10. \A g \in reused : text[g] = Contents(cached)[g] /\ cached[g] = Hashes(text, g)
  <2>1. reused \subseteq GraphNodes(cached) \ Dirty(cached, listed, mode)
    BY <1>3, <1>7, <1>8, NodesAreClosed DEF IsCache
  <2> QED
    BY <1>7, <1>8, <2>1, CleanIsUnchanged
<1>11. DOMAIN entries' = reused \cup complete /\ \A g \in DOMAIN entries' : entries'[g] = Hashes(text, g)
  BY <1>6, <1>10
<1>12. PICK now : now = Contents(entries')
  OBVIOUS
<1>13. DOMAIN now = reused \cup complete /\ \A g \in DOMAIN now : now[g] = text[g]
  <2>1. DOMAIN now = DOMAIN entries' /\ \A g \in DOMAIN entries' : now[g] = entries'[g].content
    BY <1>12 DEF Contents
  <2>2. \A g \in DOMAIN entries' : entries'[g].content = text[g]
    <3>1. \A g : Hashes(text, g).content = text[g]
      BY DEF Hashes
    <3> QED
      BY <1>11, <3>1
  <2> QED
    BY <1>11, <2>1, <2>2
<1>14. Contents(entries)' = now
  BY <1>12 DEF Contents
<1>15. IsCache(entries)'
  <2>1. \A g \in DOMAIN entries' : entries'[g] = Hashes(now, g)
    BY <1>11, <1>13 DEF Hashes
  <2>2. \A g : Hashes(Contents(entries), g)' = Hashes(now, g)
    BY <1>6, <1>14 DEF Hashes, IsSource
  <2>3. Paths' = Paths
    BY <1>6, SameLayout
  <2> QED
    BY <1>9, <1>11, <2>1, <2>2, <2>3 DEF IsCache
<1>16. (DOMAIN entries \subseteq DOMAIN built)'
  <2>1. reused \subseteq DOMAIN built /\ DOMAIN built' = DOMAIN built \cup complete
    BY <1>3, <1>6, <1>8
  <2> QED
    BY <1>11, <2>1
<1>17. ASSUME mode = TRUE, NEW g \in reused \cup complete
       PROVE  g \in mocks' <=> Extends(text, g)
  <2>1. g \in mocks' <=> IF g \in given THEN Extends(text, g) ELSE g \in listed
    BY <1>6, <1>9, <1>17 DEF Listed
  <2>2. g \notin given => g \in reused
    BY <1>5, <1>17
  <2>3. g \in reused => (g \in listed <=> Extends(text, g))
    <3>1. g \in reused => (g \in listed <=> Extends(Contents(cached), g))
      BY <1>3, <1>8, <1>17 DEF MocksOf
    <3> QED
      BY <1>10, <3>1 DEF Extends
  <2> QED
    BY <2>1, <2>2, <2>3
<1>18. mode = FALSE => listed = {} /\ mocks' = {}
  BY <1>6, <1>8 DEF MocksOf
<1>19. MocksOf(entries, mocks, preprocessed)'
  <2>1. \A g : Extends(Contents(entries), g)' = Extends(now, g)
    BY <1>6, <1>14 DEF Extends, IsSource
  <2>2. \A g \in DOMAIN entries' : Extends(now, g) = Extends(text, g)
    BY <1>11, <1>13 DEF Extends
  <2>3. IF mode THEN \A g \in DOMAIN entries' : g \in mocks' <=> Extends(now, g) ELSE mocks' = {}
    BY <1>11, <1>17, <1>18, <2>2
  <2> QED
    BY <1>6, <2>1, <2>3 DEF MocksOf
<1>20. ASSUME NEW g \in (reused \cup complete) \ mocks', AllImports(g) \subseteq reused \cup complete
       PROVE  built'[g] = Reads(now, g, mode)
  <2>1. Reads(now, g, mode) = Reads(text, g, mode)
    <3>1. \A h \in {g} \cup AllImports(g) : now[h] = text[h]
      BY <1>13, <1>20
    <3>2. Wholly(now, g, mode) = Wholly(text, g, mode)
      <4>1. \A h \in {g} \cup AllImports(g) : Extends(now, h) <=> Extends(text, h)
        BY <3>1 DEF Extends
      <4> QED
        BY <4>1 DEF Wholly
    <3> QED
      BY <3>1, <3>2, ReadsAgree
  <2>2. CASE g \in complete
    BY <1>6, <2>1, <2>2
  <2>3. CASE g \notin complete
    <3>1. g \in reused /\ g \in DOMAIN cached \ Dirty(cached, listed, mode)
      BY <1>3, <1>20, <2>3
    <3>2. g \notin listed
      <4>1. CASE mode = TRUE
        <5>1. g \in listed => Extends(Contents(cached), g)
          BY <1>8, <3>1, <4>1 DEF MocksOf
        <5>2. g \in listed => Extends(text, g)
          BY <1>10, <3>1, <5>1 DEF Extends
        <5> QED
          BY <1>17, <1>20, <4>1, <5>2
      <4> QED
        BY <1>18, <4>1
    <3>3. AllImports(g) \subseteq DOMAIN cached /\ Reads(Contents(cached), g, mode) = Reads(text, g, mode)
      BY <1>7, <1>8, <3>1, <3>2, CleanReadsTheSame
    <3>4. cached = entries /\ listed = mocks /\ mode = preprocessed
      BY <1>1, <1>2, <3>1
    <3>5. built[g] = Reads(Contents(entries), g, preprocessed)
      BY <3>1, <3>2, <3>3, <3>4 DEF DirtyInv, RecordsAreKnown
    <3>6. built'[g] = built[g]
      BY <1>6, <1>8, <2>3, <3>1
    <3> QED
      BY <2>1, <3>3, <3>4, <3>5, <3>6
  <2> QED
    BY <2>2, <2>3
<1>21. RecordsAreKnown'
  <2>1. \A g : Reads(Contents(entries), g, preprocessed)' = Reads(now, g, mode)
    <3>1. \A g : AllImports(g)' = AllImports(g) /\ IsSource(g)' = IsSource(g)
      BY <1>6, SameLayout
    <3>2. \A g : Extends(Contents(entries), g)' = Extends(now, g)
      BY <1>6, <1>14 DEF Extends, IsSource
    <3>3. \A g : Wholly(Contents(entries), g, preprocessed)' = Wholly(now, g, mode)
      BY <1>6, <3>1, <3>2 DEF Wholly
    <3> QED
      BY <1>14, <3>1, <3>3 DEF Reads
  <2>2. \A g : AllImports(g)' = AllImports(g)
    BY <1>6, SameLayout
  <2> QED
    BY <1>11, <1>20, <2>1, <2>2 DEF RecordsAreKnown
<1> QED
  BY <1>6, <1>7, <1>15, <1>16, <1>19, <1>21 DEF DirtyInv

LEMMA DirtyStep ==
    ASSUME SourcesImportSources
    PROVE  DirtyInv /\ [DirtyNext]_dirtyVars => DirtyInv'
<1> SUFFICES ASSUME DirtyInv, [DirtyNext]_dirtyVars PROVE DirtyInv'
  OBVIOUS
<1>1. ASSUME NEW f \in Paths, NEW t \in Texts, Change(f, t) PROVE DirtyInv'
  BY <1>1, CacheStays DEF Change
<1>2. ASSUME NEW f \in Paths, NEW mode \in BOOLEAN, BuildFile(f, mode) PROVE DirtyInv'
  BY <1>2, BuildIsKnown
<1>3. CASE UNCHANGED dirtyVars
  BY <1>3, CacheStays DEF dirtyVars
<1> QED
  BY <1>1, <1>2, <1>3 DEF DirtyNext

(* With a preprocessor and without: a file with an entry that is neither     *)
(* found dirty (find_and_remove_dirty, cache.rs:900) nor a mock was compiled *)
(* from what it would be compiled from now, for any files, imports and order *)
(* of the files, after any builds and changes.                               *)
THEOREM CleanTestsAreCurrent ==
    ASSUME SourcesImportSources
    PROVE  DirtySpec => []TestsAreCurrent
<1>1. DirtyInv => TestsAreCurrent
  <2> SUFFICES ASSUME DirtyInv, NEW f \in DOMAIN entries \ (Found \cup mocks)
               PROVE  built[f] = Reads(text, f, preprocessed)
    BY DEF TestsAreCurrent
  <2>1. AllImports(f) \subseteq DOMAIN entries /\ Reads(Contents(entries), f, preprocessed) = Reads(text, f, preprocessed)
    BY CleanReadsTheSame DEF DirtyInv, Found
  <2> QED
    BY <2>1 DEF DirtyInv, RecordsAreKnown
<1> QED
  BY <1>1, StartIsKnown, DirtyStep, PTL DEF DirtySpec

=============================================================================
