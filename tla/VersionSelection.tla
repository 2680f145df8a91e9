-------------------------- MODULE VersionSelection --------------------------
(***************************************************************************)
(* Which compiler version and which settings profile each input file is    *)
(* compiled with: Graph::into_sources_by_version.                          *)
(*                                                                         *)
(* For each language in turn, every input file keeps the versions that its *)
(* requirement and those of all files it imports allow; then one version   *)
(* is chosen for all files or, when none suits all, one for each.  After   *)
(* that every file gets the first profile whose settings all these files   *)
(* allow, and each unit (a language, version and profile) the closure of its *)
(* files.                                                                  *)
(***************************************************************************)
EXTENDS Naturals, Sequences, FiniteSets

CONSTANTS
    Inputs,      \* the input files, in the order of the graph
    Imported,    \* files that are only imported
    Languages,
    Versions,    \* released compiler versions, as numbers in their order
    Profiles,    \* names of the settings profiles, in the order of the project
    Projects,    \* what to consider: of each file its imports, the versions it
                 \* requires and the profiles it allows, of an input its language,
                 \* and the versions that are installed
    None

ASSUME VersionsAreNumbers == Versions \subseteq Nat /\ None \notin Nat

ASSUME VersionsAreFinite == IsFiniteSet(Versions)

Elems(s) == {s[i] : i \in DOMAIN s}
ASSUME InputsAndProfilesAreListed ==
    Inputs \in Seq(Elems(Inputs)) /\ Profiles \in Seq(Elems(Profiles))
Files == Elems(Inputs) \cup Imported

(* Comparators of a requirement are joined by "and": what it allows is a      *)
(* range.                                                                      *)
Ranges == {{v \in Versions : lo <= v /\ v <= hi} : lo, hi \in Versions}

ASSUME ProjectsHaveTypes ==
    \A p \in Projects :
        /\ p.imports \in [Files -> Seq(Files)]
        /\ p.lang \in [Elems(Inputs) -> Languages]
        /\ p.requires \in [Files -> Ranges]
        /\ p.allows \in [Files -> SUBSET DOMAIN Profiles]
        /\ p.installed \subseteq Versions

VARIABLES
    imports,     \* Files -> the files each imports
    lang,        \* the language of each input file
    requires,    \* the versions pragma and restrictions of a file allow
    allows,      \* the profiles that satisfy the restrictions of a file
    installed,   \* versions installed
    offline,     \* Project::offline
    phase,       \* "language", "files", "choose", "spread", "chosen",
                 \* "profiles", "units", "done", "failed"
    language,    \* the language at hand
    waiting,     \* languages not looked at yet
    pos,         \* the input file looked at next
    candidates,  \* `all_candidates`: the versions each file can be compiled with
    version,     \* the version of each file (`versioned_nodes`, by file)
    errors,      \* errors: the file and the files named as being in conflict
    profile,     \* the index of the profile of each file
    queue,       \* files to be looked at: NodesIter's stack, insert_imports' dependencies
    nodes,       \* `nodes`: the file at hand and what it imports, in breadth-first order
    unit,        \* the unit whose files are collected, None between two
    processed,   \* `processed_sources` of that unit
    compiled     \* the files compiled in each unit

project == <<imports, lang, requires, allows, installed, offline>>
walk == <<queue, nodes>>
unitVars == <<unit, processed, compiled>>
selectionVars == <<project, phase, language, waiting, pos, candidates, version, errors,
                   profile, walk, unitVars>>

Units == Languages \X Versions \X DOMAIN Profiles
Unversioned == [f \in Elems(Inputs) |-> None]

SelectionInit ==
    /\ \E p \in Projects :
          /\ imports = p.imports
          /\ lang = p.lang
          /\ requires = p.requires
          /\ allows = p.allows
          /\ installed = p.installed
    /\ offline \in BOOLEAN
    /\ phase = "language"
    /\ language = CHOOSE l \in Languages : TRUE
    /\ waiting = {lang[f] : f \in Elems(Inputs)}
    /\ pos = 1
    /\ candidates = [f \in Elems(Inputs) |-> {}]
    /\ version = Unversioned
    /\ errors = {}
    /\ profile = Unversioned
    /\ queue = <<>> /\ nodes = <<>>
    /\ unit = None /\ processed = {}
    /\ compiled = [u \in Units |-> {}]

-----------------------------------------------------------------------------
Largest(S) == CHOOSE v \in S : \A w \in S : w <= v
Least(S) == CHOOSE v \in S : \A w \in S : v <= w

Available == IF offline THEN installed ELSE Versions

(* What the files before position k of s leave of a set of candidates. *)
Retained(all, s, rule, k) == {v \in all : \A i \in 1 .. k : v \in rule[s[i]]}

(* The first position at which nothing is left, None when something is. *)
FailsAt(all, s, rule) ==
    LET bad == {k \in DOMAIN s : Retained(all, s, rule, k) = {}}
    IN  IF bad = {} THEN None ELSE Least(bad)

(* The error of retain_compatible_versions and retain_compatible_profiles: the *)
(* file that left no candidate alone when it has none, else together with the   *)
(* first file that shares none with it, else all files.                         *)
Culprits(all, s, rule) ==
    LET failed == s[FailsAt(all, s, rule)]
        fit == all \cap rule[failed]
        against == {i \in DOMAIN s : fit \cap rule[s[i]] = {}}
    IN  IF fit = {} THEN {failed}
        ELSE IF against # {} THEN {failed, s[Least(against)]}
        ELSE Elems(s)

(* remove_candidate: the highest installed version, else the highest. *)
Best(S) == IF S \cap installed # {} THEN Largest(S \cap installed) ELSE Largest(S)

(* The derived order of CompilerVersion puts every installed version before    *)
(* every remote one; this is the last in that order.                           *)
LastOf(S) == IF S \subseteq installed THEN Largest(S) ELSE Largest(S \ installed)

OfLanguage(l) == {f \in Elems(Inputs) : lang[f] = l}
InUse(F) == {version[f] : f \in F} \ {None}

-----------------------------------------------------------------------------
(* The languages come out of a hash map in any order.  A language without      *)
(* compilers ends the search.                                                  *)
BeginLanguage(l) ==
    /\ phase = "language"
    /\ l \in waiting
    /\ language' = l
    /\ waiting' = waiting \ {l}
    /\ pos' = 1
    /\ IF Available = {}
       THEN phase' = "failed" /\ errors' = errors \cup {<<l, {}>>}
       ELSE phase' = "files" /\ errors' = errors
    /\ UNCHANGED <<project, candidates, version, profile, walk, unitVars>>

AtFile == phase = "files" /\ pos \in DOMAIN Inputs
File == Inputs[pos]

OtherLanguage ==
    /\ AtFile
    /\ lang[File] # language
    /\ pos' = pos + 1
    /\ UNCHANGED <<project, phase, language, waiting, candidates, version, errors,
                   profile, walk, unitVars>>

(* A file is looked at with all it imports: node_ids.                          *)
StartWalk ==
    /\ \/ AtFile /\ lang[File] = language
       \/ phase = "profiles" /\ pos \in DOMAIN Inputs
    /\ walk = <<<<>>, <<>>>>
    /\ queue' = <<File>>
    /\ UNCHANGED <<project, phase, language, waiting, pos, candidates, version, errors,
                   profile, nodes, unitVars>>

(* NodesIter::next; what it returns a second time is left out, it restricts   *)
(* nothing twice.                                                              *)
VisitNode ==
    /\ phase \in {"files", "profiles"}
    /\ queue # <<>>
    /\ IF Head(queue) \in Elems(nodes)
       THEN queue' = Tail(queue) /\ nodes' = nodes
       ELSE /\ queue' = Tail(queue) \o imports[Head(queue)]
            /\ nodes' = Append(nodes, Head(queue))
    /\ UNCHANGED <<project, phase, language, waiting, pos, candidates, version, errors,
                   profile, unitVars>>

Walked == queue = <<>> /\ nodes # <<>>
EndWalk == nodes' = <<>> /\ queue' = queue

Candidates ==
    /\ AtFile /\ Walked
    /\ FailsAt(Available, nodes, requires) = None
    /\ LET ok == Retained(Available, nodes, requires, Len(nodes))
       IN  /\ candidates' = [candidates EXCEPT ![File] = ok]
           /\ version' = [version EXCEPT ![File] = Best(ok)]
    /\ pos' = pos + 1
    /\ EndWalk
    /\ UNCHANGED <<project, phase, language, waiting, errors, profile, unitVars>>

(* Errors are gathered, the search goes on. *)
NoCandidate ==
    /\ AtFile /\ Walked
    /\ FailsAt(Available, nodes, requires) # None
    /\ errors' = errors \cup {<<File, Culprits(Available, nodes, requires)>>}
    /\ pos' = pos + 1
    /\ EndWalk
    /\ UNCHANGED <<project, phase, language, waiting, candidates, version, profile, unitVars>>

(* Mutant: what was chosen file by file stays. *)
FilesDoneChosen ==
    /\ phase = "files"
    /\ pos \notin DOMAIN Inputs
    /\ phase' = "chosen"
    /\ UNCHANGED <<project, language, waiting, pos, candidates, version, errors,
                   profile, walk, unitVars>>

(* More than one version was chosen: start again with what suits all, or with *)
(* none (resolve_multiple_versions).                                           *)
FilesDone ==
    /\ phase = "files"
    /\ pos \notin DOMAIN Inputs
    /\ phase' = IF Cardinality(InUse(OfLanguage(language))) > 1 THEN "choose" ELSE "chosen"
    /\ UNCHANGED <<project, language, waiting, pos, candidates, version, errors,
                   profile, walk, unitVars>>

HaveCandidates == {f \in OfLanguage(language) : candidates[f] # {}}
Common == {v \in Versions : \A f \in HaveCandidates : v \in candidates[f]}

OneForAll ==
    /\ phase = "choose"
    /\ Common # {}
    /\ version' = [f \in Elems(Inputs) |->
                      IF f \in HaveCandidates THEN Best(Common) ELSE version[f]]
    /\ phase' = "chosen"
    /\ UNCHANGED <<project, language, waiting, pos, candidates, errors, profile, walk, unitVars>>

NoneForAll ==
    /\ phase = "choose"
    /\ Common = {}
    /\ version' = [f \in Elems(Inputs) |->
                      IF f \in HaveCandidates THEN None ELSE version[f]]
    /\ pos' = 1
    /\ phase' = "spread"
    /\ UNCHANGED <<project, language, waiting, candidates, errors, profile, walk, unitVars>>

(* Mutant: a version that is in use is taken for every file. *)
SpreadReuse ==
    /\ phase = "spread"
    /\ pos \in DOMAIN Inputs
    /\ version' = IF File \notin HaveCandidates THEN version
                  ELSE LET again == InUse(HaveCandidates)
                       IN  [version EXCEPT ![File] =
                               IF again # {} THEN LastOf(again) ELSE Best(candidates[File])]
    /\ pos' = pos + 1
    /\ UNCHANGED <<project, phase, language, waiting, candidates, errors, profile, walk, unitVars>>

(* A file takes a version that is in use already if it can. *)
Spread ==
    /\ phase = "spread"
    /\ pos \in DOMAIN Inputs
    /\ version' = IF File \notin HaveCandidates THEN version
                  ELSE LET again == candidates[File] \cap InUse(HaveCandidates)
                       IN  [version EXCEPT ![File] =
                               IF again # {} THEN LastOf(again) ELSE Best(candidates[File])]
    /\ pos' = pos + 1
    /\ UNCHANGED <<project, phase, language, waiting, candidates, errors, profile, walk, unitVars>>

SpreadDone ==
    /\ phase = "spread"
    /\ pos \notin DOMAIN Inputs
    /\ phase' = "chosen"
    /\ UNCHANGED <<project, language, waiting, pos, candidates, version, errors,
                   profile, walk, unitVars>>

(* The errors of a language end the search, whatever languages wait. *)
EndLanguage ==
    /\ phase = "chosen"
    /\ pos' = 1
    /\ phase' = IF errors # {} THEN "failed" ELSE IF waiting = {} THEN "profiles" ELSE "language"
    /\ UNCHANGED <<project, language, waiting, candidates, version, errors, profile, walk, unitVars>>

-----------------------------------------------------------------------------
(* resolve_settings: the first profile that suits the file and its imports. *)
ChooseProfile ==
    /\ phase = "profiles"
    /\ pos \in DOMAIN Inputs /\ Walked
    /\ LET left == Retained(DOMAIN Profiles, nodes, allows, Len(nodes))
       IN  IF left = {}
           THEN /\ errors' = errors \cup {<<File, Culprits(DOMAIN Profiles, nodes, allows)>>}
                /\ profile' = profile
           ELSE /\ profile' = [profile EXCEPT ![File] = Least(left)]
                /\ errors' = errors
    /\ pos' = pos + 1
    /\ EndWalk
    /\ UNCHANGED <<project, phase, language, waiting, candidates, version, unitVars>>

ProfilesDone ==
    /\ phase = "profiles"
    /\ pos \notin DOMAIN Inputs
    /\ pos' = 1
    /\ phase' = IF errors # {} THEN "failed" ELSE "units"
    /\ UNCHANGED <<project, language, waiting, candidates, version, errors, profile, walk, unitVars>>

UnitOf(f) == <<lang[f], version[f], profile[f]>>
Members(u) == {f \in Elems(Inputs) : UnitOf(f) = u}

selected == <<project, phase, language, waiting, candidates, version, errors, profile, nodes>>

(* The input files of a unit count as processed from the start.               *)
BeginUnit(u) ==
    /\ phase = "units" /\ unit = None
    /\ Members(u) # {}
    /\ compiled[u] = {}
    /\ unit' = u
    /\ processed' = Members(u)
    /\ pos' = 1
    /\ UNCHANGED <<selected, queue, compiled>>

Collecting == phase = "units" /\ unit # None

AddInput ==
    /\ Collecting
    /\ queue = <<>> /\ pos \in DOMAIN Inputs
    /\ IF File \in Members(unit)
       THEN /\ compiled' = [compiled EXCEPT ![unit] = @ \cup {File}]
            /\ queue' = imports[File]
       ELSE UNCHANGED <<compiled, queue>>
    /\ pos' = pos + 1
    /\ UNCHANGED <<selected, unit, processed>>

(* Mutant: the imports of a file are not followed further. *)
InsertImportShallow ==
    /\ Collecting
    /\ queue # <<>>
    /\ IF Head(queue) \in processed
       THEN queue' = Tail(queue) /\ UNCHANGED <<processed, compiled>>
       ELSE /\ processed' = processed \cup {Head(queue)}
            /\ compiled' = [compiled EXCEPT ![unit] = @ \cup {Head(queue)}]
            /\ queue' = Tail(queue)
    /\ UNCHANGED <<selected, pos, unit>>

(* insert_imports: what is not processed yet is added, followed by its imports. *)
InsertImport ==
    /\ Collecting
    /\ queue # <<>>
    /\ IF Head(queue) \in processed
       THEN queue' = Tail(queue) /\ UNCHANGED <<processed, compiled>>
       ELSE /\ processed' = processed \cup {Head(queue)}
            /\ compiled' = [compiled EXCEPT ![unit] = @ \cup {Head(queue)}]
            /\ queue' = imports[Head(queue)] \o Tail(queue)
    /\ UNCHANGED <<selected, pos, unit>>

EndUnit ==
    /\ Collecting
    /\ queue = <<>> /\ pos \notin DOMAIN Inputs
    /\ unit' = None
    /\ UNCHANGED <<selected, pos, queue, processed, compiled>>

UnitsDone ==
    /\ phase = "units" /\ unit = None
    /\ \A u \in Units : Members(u) # {} => compiled[u] # {}
    /\ phase' = "done"
    /\ UNCHANGED <<project, language, waiting, pos, candidates, version, errors,
                   profile, walk, unitVars>>

SelectionNext ==
    \/ \E l \in Languages : BeginLanguage(l)
    \/ OtherLanguage
    \/ StartWalk
    \/ VisitNode
    \/ Candidates
    \/ NoCandidate
    \/ FilesDone
    \/ OneForAll
    \/ NoneForAll
    \/ Spread
    \/ SpreadDone
    \/ EndLanguage
    \/ ChooseProfile
    \/ ProfilesDone
    \/ \E u \in Units : BeginUnit(u)
    \/ AddInput
    \/ InsertImport
    \/ EndUnit
    \/ UnitsDone

SelectionSpec == SelectionInit /\ [][SelectionNext]_selectionVars

-----------------------------------------------------------------------------
ImportClosed(S) == \A f \in S : Elems(imports[f]) \subseteq S
Closure(F) ==
    {g \in Files : \A S \in SUBSET Files : F \subseteq S /\ ImportClosed(S) => g \in S}

(* The versions a file can be compiled with, and its imports. *)
Fits(f) == {v \in Available : \A g \in Closure({f}) : v \in requires[g]}

Resolved == phase \in {"profiles", "units", "done"}

(* No file is compiled with a version that it or a file it imports refuses,   *)
(* nor, offline, with one that is not installed; every file gets one.          *)
VersionsFit == Resolved => \A f \in Elems(Inputs) : version[f] \in Fits(f)

(* When some version suits all files of a language, one is used for all, and   *)
(* it is the highest installed one, or the highest if none is installed.       *)
OneVersionIfPossible ==
    Resolved =>
        \A l \in {lang[f] : f \in Elems(Inputs)} :
            LET all == {v \in Versions : \A f \in OfLanguage(l) : v \in Fits(f)}
            IN  all # {} => \A f \in OfLanguage(l) : version[f] = Best(all)

(* The profile of a file suits the file and all it imports, and no profile      *)
(* listed before it does.                                                       *)
ProfilesFit ==
    phase \in {"units", "done"} =>
        \A f \in Elems(Inputs) :
            LET suits == {p \in DOMAIN Profiles : \A g \in Closure({f}) : p \in allows[g]}
            IN  profile[f] \in suits /\ \A p \in suits : profile[f] <= p

(* Every file goes to a unit, a version and a profile, that it and all it      *)
(* imports allow.                                                               *)
UnitsFit == VersionsFit /\ ProfilesFit

(* Each unit is given its files with all they import, also where another unit *)
(* compiles those imports; nothing is compiled without a reason.               *)
UnitsAreClosed ==
    phase = "done" => \A u \in Units : compiled[u] = Closure(Members(u))

=============================================================================
