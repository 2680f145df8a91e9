------------------------ MODULE SettingsRestrictions ------------------------
(***************************************************************************)
(* The restrictions a user puts on the settings of a file's compilation    *)
(* (Restriction, SolcRestrictions, RestrictionsWithVersion).  Several may  *)
(* apply to one file: they are merged, and the profiles whose settings do  *)
(* not satisfy the result are not considered for the file.                 *)
(*                                                                         *)
(* An option is the set of at most one element.                            *)
(***************************************************************************)
EXTENDS Integers, FiniteSets, FiniteSetsExt

CONSTANTS
    Rules,            \* what may be declared, one record for each rule
    RestrictedSettings,  \* settings to consider
    MaxRules          \* how many rules one file has

IsOption(S) == \A x, y \in S : x = y

\* A Restriction of numbers, its bounds set or not.
AreBounds(r) == /\ r.min \in SUBSET Nat /\ IsOption(r.min)
                /\ r.max \in SUBSET Nat /\ IsOption(r.max)

ASSUME RulesHoldOptions ==
    \A r \in Rules : /\ AreBounds(r.evm) /\ AreBounds(r.runs)
                     /\ IsOption(r.viaIr) /\ IsOption(r.hash) /\ IsOption(r.version)

ASSUME SettingsHoldOptions ==
    \A s \in RestrictedSettings : s.evm \cup s.runs \subseteq Nat /\ IsOption(s.hash)

VARIABLES declared, merged

restrictionVars == <<declared, merged>>

Unrestricted == [min |-> {}, max |-> {}]
NoRule == [evm |-> Unrestricted, runs |-> Unrestricted, viaIr |-> {}, hash |-> {}, version |-> {}]

\* Restriction::satisfies: a value that is not set satisfies no bound.
WithinBounds(r, value) ==
    /\ \A m \in r.min : value # {} /\ \A v \in value : v >= m
    /\ \A m \in r.max : value # {} /\ \A v \in value : v <= m

\* A mutant: of two upper bounds the greater one.
MergedBoundsWider(a, b) ==
    LET r == [min |-> IF a.min \cup b.min = {} THEN {} ELSE {Max(a.min \cup b.min)},
              max |-> IF a.max \cup b.max = {} THEN {} ELSE {Max(a.max \cup b.max)}]
    IN IF \E low \in r.min, high \in r.max : low > high THEN {} ELSE {r}

\* Restriction::merge
MergedBounds(a, b) ==
    LET r == [min |-> IF a.min \cup b.min = {} THEN {} ELSE {Max(a.min \cup b.min)},
              max |-> IF a.max \cup b.max = {} THEN {} ELSE {Min(a.max \cup b.max)}]
    IN IF \E low \in r.min, high \in r.max : low > high THEN {} ELSE {r}

\* Restriction::apply
Applied(r, value) ==
    IF value = {} THEN IF r.min # {} THEN r.min ELSE r.max
    ELSE IF \E v \in value, m \in r.min : v < m THEN r.min
    ELSE IF \E v \in value, m \in r.max : v > m THEN r.max
    ELSE value

\* SolcRestrictions::merge of RestrictionsWithVersion::merge: an option of a rule.
MergedRules(a, b) ==
    IF Cardinality(a.viaIr \cup b.viaIr) > 1 \/ Cardinality(a.hash \cup b.hash) > 1 THEN {}
    ELSE {[evm |-> evm, runs |-> runs, viaIr |-> a.viaIr \cup b.viaIr,
           hash |-> a.hash \cup b.hash,
           version |-> IF a.version = {} THEN b.version
                       ELSE IF b.version = {} THEN a.version
                       ELSE {x \cap y : x \in a.version, y \in b.version}] :
              evm \in MergedBounds(a.evm, b.evm), runs \in MergedBounds(a.runs, b.runs)}

\* SolcSettings::satisfies_restrictions, and the version the requirements let through.
SatisfiesRule(s, r) ==
    /\ WithinBounds(r.evm, s.evm)
    /\ r.viaIr \subseteq {s.viaIr = {TRUE}}
    /\ r.hash \subseteq s.hash
    /\ WithinBounds(r.runs, s.runs)
    /\ \A m \in r.runs.min : m = 0 \/ s.optimizer = {TRUE}
    /\ \A versions \in r.version : s.version \in versions

RestrictionsInit == declared = {} /\ merged = {NoRule}

Declare(rule) ==
    /\ Cardinality(declared) < MaxRules
    /\ \E m \in merged : merged' = MergedRules(m, rule)
    /\ declared' = declared \cup {rule}

RestrictionsNext == \E rule \in Rules : Declare(rule)
RestrictionsSpec == RestrictionsInit /\ [][RestrictionsNext]_restrictionVars

(***************************************************************************)
(* Properties.                                                             *)
(***************************************************************************)
\* Settings satisfy the merged restrictions when they satisfy each, so that neither the order
\* of the rules nor one rule's bound hides another's; a merge fails only when no settings
\* satisfy all; and a value moved to the restriction fits it.
MergeIsConjunction ==
    declared # {} =>
        /\ \A s \in RestrictedSettings :
               (\E m \in merged : SatisfiesRule(s, m)) <=> \A r \in declared : SatisfiesRule(s, r)
        /\ \A m \in merged, s \in RestrictedSettings :
               m.runs # Unrestricted => WithinBounds(m.runs, Applied(m.runs, s.runs))
=============================================================================
