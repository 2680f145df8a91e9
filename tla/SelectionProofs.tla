--------------------------- MODULE SelectionProofs ---------------------------
(***************************************************************************)
(* Proofs about what a file is compiled with: SettingsRestrictions, for    *)
(* any rules and any settings, and VersionSelection, for any graph of      *)
(* imports, requirements, versions and profiles.                           *)
(*                                                                         *)
(* MergingIsConjunction: settings satisfy the merged restrictions of a     *)
(* file when they satisfy every rule declared for it, and merging fails    *)
(* only when no settings can.                                              *)
(*                                                                         *)
(* FilesFitTheirUnits, OneVersionSuffices, UnitsAreImportClosed: versions, *)
(* profiles and sources are what the files and all they import call for.   *)
(***************************************************************************)
EXTENDS SettingsRestrictions, VersionSelection, FiniteSetTheorems, WellFoundedInduction, TLAPS

-----------------------------------------------------------------------------
(* Options.                                                                    *)

LEMMA EmptyIsOption == IsOption({})
  BY DEF IsOption

(* A set of at most one element is what Cardinality says it is. *)
LEMMA OptionSize ==
    ASSUME NEW S, NEW T, IsOption(S), IsOption(T)
    PROVE  ~(Cardinality(S \cup T) > 1) <=> IsOption(S \cup T)
<1>1. \A P : IsOption(P) => P = {} \/ \E x : P = {x}
  BY DEF IsOption
<1>2. \A P : P = {} \/ (\E x : P = {x}) => IsFiniteSet(P)
  BY FS_EmptySet, FS_Singleton
<1>3. IsFiniteSet(S \cup T)
  BY <1>1, <1>2, FS_Union
<1>4. ASSUME IsOption(S \cup T) PROVE ~(Cardinality(S \cup T) > 1)
  <2>1. CASE S \cup T = {}
    <3>1. Cardinality(S \cup T) = 0
      BY <2>1, FS_EmptySet
    <3> QED
      BY <3>1
  <2>2. CASE \E x : S \cup T = {x}
    <3>1. Cardinality(S \cup T) = 1
      BY <2>2, FS_Singleton
    <3> QED
      BY <3>1
  <2> QED
    BY <1>1, <1>4, <2>1, <2>2
<1>5. ASSUME NEW x \in S \cup T, NEW y \in S \cup T, x # y
      PROVE  Cardinality(S \cup T) > 1
  <2>1. IsFiniteSet({x}) /\ Cardinality({x}) = 1
    BY FS_Singleton
  <2>2. IsFiniteSet({x} \cup {y}) /\ Cardinality({x} \cup {y}) = 2
    <3>1. y \notin {x}
      BY <1>5
    <3>2. Cardinality({x} \cup {y}) = Cardinality({x}) + 1
      BY <2>1, <3>1, FS_AddElement
    <3> QED
      BY <2>1, <3>2, FS_AddElement
  <2>3. {x} \cup {y} \subseteq S \cup T
    OBVIOUS
  <2>4. Cardinality({x} \cup {y}) <= Cardinality(S \cup T)
    BY <1>3, <2>3, FS_Subset
  <2>5. Cardinality(S \cup T) \in Nat
    BY <1>3, FS_CardinalityType
  <2> HIDE <1>5
  <2> QED
    BY <2>2, <2>4, <2>5
<1> QED
  BY <1>4, <1>5 DEF IsOption

(* The greatest and the least of two optional numbers. *)
LEMMA OptionExtremes ==
    ASSUME NEW S \in SUBSET Nat, NEW T \in SUBSET Nat, IsOption(S), IsOption(T),
           S \cup T # {}
    PROVE  /\ Max(S \cup T) \in S \cup T /\ \A y \in S \cup T : Max(S \cup T) >= y
           /\ Min(S \cup T) \in S \cup T /\ \A y \in S \cup T : Min(S \cup T) =< y
<1>1. \E x \in S \cup T : \A y \in S \cup T : x >= y
  <2>1. CASE S = {} \/ T = {}
    <3>1. PICK x \in S \cup T : TRUE
      OBVIOUS
    <3>2. S \cup T = {x} /\ x \in Nat
      BY <2>1, <3>1 DEF IsOption
    <3> QED
      BY <3>2
  <2>2. CASE S # {} /\ T # {}
    <3>1. PICK x \in S, y \in T : TRUE
      BY <2>2
    <3>2. S = {x} /\ T = {y} /\ x \in Nat /\ y \in Nat
      BY <3>1 DEF IsOption
    <3> QED
      BY <3>2
  <2> QED
    BY <2>1, <2>2
<1>2. \E x \in S \cup T : \A y \in S \cup T : x =< y
  <2>1. CASE S = {} \/ T = {}
    <3>1. PICK x \in S \cup T : TRUE
      OBVIOUS
    <3>2. S \cup T = {x} /\ x \in Nat
      BY <2>1, <3>1 DEF IsOption
    <3> QED
      BY <3>2
  <2>2. CASE S # {} /\ T # {}
    <3>1. PICK x \in S, y \in T : TRUE
      BY <2>2
    <3>2. S = {x} /\ T = {y} /\ x \in Nat /\ y \in Nat
      BY <3>1 DEF IsOption
    <3> QED
      BY <3>2
  <2> QED
    BY <2>1, <2>2
<1> QED
  BY <1>1, <1>2 DEF Max, Min

-----------------------------------------------------------------------------
(* Merging two restrictions.                                                   *)

(* Bounds that some value satisfies. *)
Satisfiable(r) ==
    /\ AreBounds(r) /\ r = [min |-> r.min, max |-> r.max]
    /\ \A low \in r.min, high \in r.max : low <= high

(* The one bound that a merge leaves of two on the same side. *)
LEMMA MergedSides ==
    ASSUME NEW a, NEW b, AreBounds(a), AreBounds(b)
    PROVE  LET low == IF a.min \cup b.min = {} THEN {} ELSE {Max(a.min \cup b.min)}
               high == IF a.max \cup b.max = {} THEN {} ELSE {Min(a.max \cup b.max)}
           IN  /\ low \subseteq a.min \cup b.min /\ high \subseteq a.max \cup b.max
               /\ AreBounds([min |-> low, max |-> high])
               /\ \A x \in a.min \cup b.min : \E m \in low : m >= x
               /\ \A x \in a.max \cup b.max : \E m \in high : m <= x
<1>1. /\ a.min \in SUBSET Nat /\ b.min \in SUBSET Nat /\ IsOption(a.min) /\ IsOption(b.min)
      /\ a.max \in SUBSET Nat /\ b.max \in SUBSET Nat /\ IsOption(a.max) /\ IsOption(b.max)
  BY DEF AreBounds
<1>2. a.min \cup b.min # {} =>
        /\ Max(a.min \cup b.min) \in a.min \cup b.min
        /\ \A x \in a.min \cup b.min : Max(a.min \cup b.min) >= x
  BY <1>1, OptionExtremes
<1>3. a.max \cup b.max # {} =>
        /\ Min(a.max \cup b.max) \in a.max \cup b.max
        /\ \A x \in a.max \cup b.max : Min(a.max \cup b.max) =< x
  BY <1>1, OptionExtremes
<1> DEFINE low == IF a.min \cup b.min = {} THEN {} ELSE {Max(a.min \cup b.min)}
           high == IF a.max \cup b.max = {} THEN {} ELSE {Min(a.max \cup b.max)}
<1>4. low \subseteq a.min \cup b.min /\ high \subseteq a.max \cup b.max
  BY <1>2, <1>3
<1>5. IsOption(low) /\ IsOption(high)
  BY DEF IsOption
<1>6. \A x \in a.min \cup b.min : \E m \in low : m >= x
  BY <1>2
<1>7. \A x \in a.max \cup b.max : \E m \in high : m <= x
  BY <1>3
<1> HIDE DEF low, high
<1>8. AreBounds([min |-> low, max |-> high])
  BY <1>1, <1>4, <1>5 DEF AreBounds
<1>9. /\ low \subseteq a.min \cup b.min /\ high \subseteq a.max \cup b.max
      /\ AreBounds([min |-> low, max |-> high])
      /\ \A x \in a.min \cup b.min : \E m \in low : m >= x
      /\ \A x \in a.max \cup b.max : \E m \in high : m <= x
  BY <1>4, <1>6, <1>7, <1>8
<1> QED
  BY <1>9 DEF low, high

(* A value satisfies the merged bounds when it satisfies both. *)
LEMMA BoundsMerge ==
    ASSUME NEW a, NEW b, AreBounds(a), AreBounds(b)
    PROVE  /\ \A m \in MergedBounds(a, b) :
                 Satisfiable(m) /\ m.min \subseteq a.min \cup b.min
                 /\ \A x \in a.min \cup b.min : \E y \in m.min : y >= x
           /\ \A m, n \in MergedBounds(a, b) : m = n
           /\ \A value \in SUBSET Nat :
                 (\E m \in MergedBounds(a, b) : WithinBounds(m, value))
                     <=> WithinBounds(a, value) /\ WithinBounds(b, value)
<1> DEFINE low == IF a.min \cup b.min = {} THEN {} ELSE {Max(a.min \cup b.min)}
           high == IF a.max \cup b.max = {} THEN {} ELSE {Min(a.max \cup b.max)}
           r == [min |-> low, max |-> high]
           crossed == \E x \in low, y \in high : x > y
<1>1. MergedBounds(a, b) = IF crossed THEN {} ELSE {r}
  BY DEF MergedBounds
<1>2. /\ low \subseteq a.min \cup b.min /\ high \subseteq a.max \cup b.max
      /\ AreBounds([min |-> low, max |-> high])
      /\ \A x \in a.min \cup b.min : \E m \in low : m >= x
      /\ \A x \in a.max \cup b.max : \E m \in high : m <= x
  BY MergedSides
<1>3. /\ a.min \in SUBSET Nat /\ b.min \in SUBSET Nat
      /\ a.max \in SUBSET Nat /\ b.max \in SUBSET Nat
  BY DEF AreBounds
<1> HIDE DEF low, high
<1>4. r.min = low /\ r.max = high /\ low \in SUBSET Nat /\ high \in SUBSET Nat
  BY <1>2, <1>3
<1>5. ~crossed => Satisfiable(r)
  BY <1>2, <1>4 DEF Satisfiable
<1>6. ASSUME NEW value \in SUBSET Nat
      PROVE  WithinBounds(r, value) <=> WithinBounds(a, value) /\ WithinBounds(b, value)
  <2>1. ASSUME WithinBounds(r, value) PROVE WithinBounds(a, value) /\ WithinBounds(b, value)
    <3>1. ASSUME NEW x \in a.min \cup b.min PROVE value # {} /\ \A v \in value : v >= x
      <4>1. PICK m \in low : m >= x
        BY <1>2
      <4>2. value # {} /\ \A v \in value : v >= m
        BY <1>4, <2>1 DEF WithinBounds
      <4>3. x \in Nat /\ m \in Nat
        BY <1>3, <1>4
      <4> QED
        BY <4>1, <4>2, <4>3
    <3>2. ASSUME NEW x \in a.max \cup b.max PROVE value # {} /\ \A v \in value : v <= x
      <4>1. PICK m \in high : m <= x
        BY <1>2
      <4>2. value # {} /\ \A v \in value : v <= m
        BY <1>4, <2>1 DEF WithinBounds
      <4>3. x \in Nat /\ m \in Nat
        BY <1>3, <1>4
      <4> QED
        BY <4>1, <4>2, <4>3
    <3> QED
      BY <3>1, <3>2 DEF WithinBounds
  <2>2. ASSUME WithinBounds(a, value), WithinBounds(b, value) PROVE WithinBounds(r, value)
    BY <1>2, <1>4, <2>2 DEF WithinBounds
  <2> QED
    BY <2>1, <2>2
<1>7. ASSUME NEW value \in SUBSET Nat, WithinBounds(r, value) PROVE ~crossed
  <2> SUFFICES ASSUME NEW x \in low, NEW y \in high, x > y PROVE FALSE
    OBVIOUS
  <2>1. PICK v \in value : v >= x /\ v <= y
    BY <1>4, <1>7 DEF WithinBounds
  <2>2. x \in Nat /\ y \in Nat /\ v \in Nat
    BY <1>4
  <2> QED
    BY <2>1, <2>2
<1> HIDE DEF crossed, r
<1>8. \A m \in MergedBounds(a, b) : m = r /\ ~crossed
  BY <1>1
<1>9. ~crossed => r \in MergedBounds(a, b)
  BY <1>1
<1>10. r.min \subseteq a.min \cup b.min /\ \A x \in a.min \cup b.min : \E y \in r.min : y >= x
  BY <1>2, <1>4
<1> QED
  BY <1>5, <1>6, <1>7, <1>8, <1>9, <1>10

-----------------------------------------------------------------------------
(* Merging two rules.                                                          *)

(* What a rule says of each setting, every option set at most once. *)
WellFormed(r) ==
    /\ AreBounds(r.evm) /\ AreBounds(r.runs)
    /\ IsOption(r.viaIr) /\ IsOption(r.hash) /\ IsOption(r.version)

(* Settings with an option of an answer and an option of a hash. *)
Choosable(s) == s.evm \cup s.runs \subseteq Nat /\ IsOption(s.hash)

LEMMA RunsMerge ==
    ASSUME NEW s, NEW a, NEW b, NEW m, AreBounds(a), AreBounds(b),
           m.min \subseteq a.min \cup b.min, \A x \in a.min \cup b.min : \E y \in m.min : y >= x
    PROVE  (\A x \in m.min : x = 0 \/ s.optimizer = {TRUE})
               <=> \A x \in a.min \cup b.min : x = 0 \/ s.optimizer = {TRUE}
<1>1. ASSUME NEW x \in a.min \cup b.min, \A y \in m.min : y = 0
      PROVE  x = 0
  <2>1. PICK y \in m.min : y >= x
    BY <1>1
  <2>2. x \in Nat /\ y = 0
    BY <1>1 DEF AreBounds
  <2> QED
    BY <2>1, <2>2
<1> QED
  BY <1>1

LEMMA RulesMerge ==
    ASSUME NEW a, NEW b, WellFormed(a), WellFormed(b)
    PROVE  /\ \A m \in MergedRules(a, b) : WellFormed(m) /\ Satisfiable(m.runs)
           /\ \A m, n \in MergedRules(a, b) : m = n
           /\ \A s : Choosable(s) =>
                 ((\E m \in MergedRules(a, b) : SatisfiesRule(s, m))
                     <=> SatisfiesRule(s, a) /\ SatisfiesRule(s, b))
<1> DEFINE versions == IF a.version = {} THEN b.version
                      ELSE IF b.version = {} THEN a.version
                      ELSE {x \cap y : x \in a.version, y \in b.version}
           viaIr == a.viaIr \cup b.viaIr
           hash == a.hash \cup b.hash
           with(evm, runs) == [evm |-> evm, runs |-> runs, viaIr |-> viaIr, hash |-> hash,
                               version |-> versions]
           evms == MergedBounds(a.evm, b.evm)
           runss == MergedBounds(a.runs, b.runs)
<1>1. MergedRules(a, b) = IF IsOption(viaIr) /\ IsOption(hash)
                          THEN {with(evm, runs) : evm \in evms, runs \in runss} ELSE {}
  <2>1. /\ ~(Cardinality(viaIr) > 1) <=> IsOption(viaIr)
        /\ ~(Cardinality(hash) > 1) <=> IsOption(hash)
    BY OptionSize DEF WellFormed
  <2> QED
    BY <2>1 DEF MergedRules
<1>2. IsOption(versions)
  <2>1. CASE a.version = {} \/ b.version = {}
    BY <2>1 DEF WellFormed
  <2>2. CASE a.version # {} /\ b.version # {}
    <3>1. PICK x \in a.version, y \in b.version : TRUE
      BY <2>2
    <3>2. a.version = {x} /\ b.version = {y}
      BY <3>1 DEF WellFormed, IsOption
    <3>3. versions = {x \cap y}
      BY <2>2, <3>2
    <3> HIDE DEF versions
    <3> QED
      BY <3>3 DEF IsOption
  <2> QED
    BY <2>1, <2>2
<1>3. ASSUME NEW s
      PROVE  (\A vs \in versions : s.version \in vs)
               <=> /\ \A vs \in a.version : s.version \in vs
                   /\ \A vs \in b.version : s.version \in vs
  <2>1. CASE a.version = {} \/ b.version = {}
    BY <2>1
  <2>2. CASE a.version # {} /\ b.version # {}
    <3>1. PICK x \in a.version, y \in b.version : TRUE
      BY <2>2
    <3>2. a.version = {x} /\ b.version = {y}
      BY <3>1 DEF WellFormed, IsOption
    <3>3. versions = {x \cap y}
      BY <2>2, <3>2
    <3> HIDE DEF versions
    <3> QED
      BY <3>2, <3>3
  <2> QED
    BY <2>1, <2>2
<1>4. \A s : viaIr \subseteq {s.viaIr = {TRUE}} => IsOption(viaIr)
  BY DEF IsOption
<1>5. \A s : IsOption(s.hash) /\ hash \subseteq s.hash => IsOption(hash)
  BY DEF IsOption
<1>6. /\ \A m \in evms : AreBounds(m)
      /\ \A m, n \in evms : m = n
      /\ \A value \in SUBSET Nat :
            (\E m \in evms : WithinBounds(m, value))
                <=> WithinBounds(a.evm, value) /\ WithinBounds(b.evm, value)
  BY BoundsMerge DEF WellFormed, Satisfiable
<1>7. /\ \A m \in runss : /\ AreBounds(m) /\ Satisfiable(m)
                          /\ m.min \subseteq a.runs.min \cup b.runs.min
                          /\ \A x \in a.runs.min \cup b.runs.min : \E y \in m.min : y >= x
      /\ \A m, n \in runss : m = n
      /\ \A value \in SUBSET Nat :
            (\E m \in runss : WithinBounds(m, value))
                <=> WithinBounds(a.runs, value) /\ WithinBounds(b.runs, value)
  BY BoundsMerge DEF WellFormed, Satisfiable
<1>8. \A s : \A m \in runss :
          (\A x \in m.min : x = 0 \/ s.optimizer = {TRUE})
              <=> (\A x \in a.runs.min \cup b.runs.min : x = 0 \/ s.optimizer = {TRUE})
  BY <1>7, RunsMerge DEF WellFormed
<1> HIDE DEF versions, viaIr, hash, evms, runss
<1>9. \A evm, runs : /\ with(evm, runs).evm = evm /\ with(evm, runs).runs = runs
                     /\ with(evm, runs).viaIr = viaIr /\ with(evm, runs).hash = hash
                     /\ with(evm, runs).version = versions
  OBVIOUS
<1> HIDE DEF with
<1>10. \A m \in MergedRules(a, b) : WellFormed(m) /\ Satisfiable(m.runs)
  BY <1>1, <1>2, <1>6, <1>7, <1>9 DEF WellFormed
<1>11. \A m, n \in MergedRules(a, b) : m = n
  BY <1>1, <1>6, <1>7
<1>12. ASSUME NEW s, Choosable(s), NEW m \in MergedRules(a, b), SatisfiesRule(s, m)
       PROVE  SatisfiesRule(s, a) /\ SatisfiesRule(s, b)
  <2>1. PICK evm \in evms, runs \in runss : m = with(evm, runs)
    BY <1>1, <1>12
  <2>2. /\ WithinBounds(evm, s.evm) /\ WithinBounds(runs, s.runs)
        /\ viaIr \subseteq {s.viaIr = {TRUE}} /\ hash \subseteq s.hash
        /\ \A x \in runs.min : x = 0 \/ s.optimizer = {TRUE}
        /\ \A vs \in versions : s.version \in vs
    <3>1. /\ m.evm = evm /\ m.runs = runs /\ m.viaIr = viaIr /\ m.hash = hash
          /\ m.version = versions
      BY <1>9, <2>1
    <3> QED
      BY <1>12, <3>1 DEF SatisfiesRule
  <2>3. s.evm \in SUBSET Nat /\ s.runs \in SUBSET Nat
    BY <1>12 DEF Choosable
  <2>4. WithinBounds(a.evm, s.evm) /\ WithinBounds(b.evm, s.evm)
    BY <1>6, <2>2, <2>3
  <2>5. WithinBounds(a.runs, s.runs) /\ WithinBounds(b.runs, s.runs)
    BY <1>7, <2>2, <2>3
  <2>6. \A x \in a.runs.min \cup b.runs.min : x = 0 \/ s.optimizer = {TRUE}
    BY <1>8, <2>2
  <2>7. a.viaIr \cup b.viaIr \subseteq {s.viaIr = {TRUE}} /\ a.hash \cup b.hash \subseteq s.hash
    BY <2>2 DEF viaIr, hash
  <2> QED
    BY <1>3, <2>2, <2>4, <2>5, <2>6, <2>7 DEF SatisfiesRule
<1>13. ASSUME NEW s, Choosable(s), SatisfiesRule(s, a), SatisfiesRule(s, b)
       PROVE  \E m \in MergedRules(a, b) : SatisfiesRule(s, m)
  <2>1. s.evm \in SUBSET Nat /\ s.runs \in SUBSET Nat /\ IsOption(s.hash)
    BY <1>13 DEF Choosable
  <2>2. PICK evm \in evms : WithinBounds(evm, s.evm)
    BY <1>6, <1>13, <2>1 DEF SatisfiesRule
  <2>3. PICK runs \in runss : WithinBounds(runs, s.runs)
    BY <1>7, <1>13, <2>1 DEF SatisfiesRule
  <2>4. viaIr \subseteq {s.viaIr = {TRUE}} /\ hash \subseteq s.hash
    BY <1>13 DEF SatisfiesRule, viaIr, hash
  <2>5. with(evm, runs) \in MergedRules(a, b)
    <3>1. IsOption(viaIr) /\ IsOption(hash)
      BY <1>4, <1>5, <2>1, <2>4
    <3>2. MergedRules(a, b) = {with(e, r) : e \in evms, r \in runss}
      BY <1>1, <3>1
    <3> QED
      BY <3>2
  <2>6. \A x \in runs.min : x = 0 \/ s.optimizer = {TRUE}
    BY <1>8, <1>13 DEF SatisfiesRule
  <2>7. \A vs \in versions : s.version \in vs
    BY <1>3, <1>13 DEF SatisfiesRule
  <2>8. SatisfiesRule(s, with(evm, runs))
    <3> DEFINE m == with(evm, runs)
    <3>1. /\ m.evm = evm /\ m.runs = runs /\ m.viaIr = viaIr /\ m.hash = hash
          /\ m.version = versions
      BY <1>9
    <3> HIDE DEF m
    <3>2. SatisfiesRule(s, m)
      BY <2>2, <2>3, <2>4, <2>6, <2>7, <3>1 DEF SatisfiesRule
    <3> QED
      BY <3>2 DEF m
  <2> QED
    BY <2>5, <2>8
<1> QED
  BY <1>10, <1>11, <1>12, <1>13

-----------------------------------------------------------------------------
(* All rules of a file.                                                        *)

(* At most one rule is the result of merging; it is well formed, and what it   *)
(* says of the settings is what the declared rules say together.  Before the   *)
(* first rule it is the rule that restricts nothing.                           *)
MergedInv ==
    /\ declared \subseteq Rules
    /\ \A m \in merged : WellFormed(m) /\ Satisfiable(m.runs)
    /\ \A m, n \in merged : m = n
    /\ \A s \in RestrictedSettings :
          (\E m \in merged : SatisfiesRule(s, m)) <=> \A r \in declared : SatisfiesRule(s, r)

LEMMA NothingMerged ==
    ASSUME RestrictionsInit
    PROVE  MergedInv
<1>1. AreBounds(Unrestricted) /\ Satisfiable(Unrestricted)
  BY EmptyIsOption DEF AreBounds, Satisfiable, Unrestricted
<1>2. WellFormed(NoRule) /\ Satisfiable(NoRule.runs)
  BY <1>1, EmptyIsOption DEF WellFormed, NoRule
<1>3. \A s : SatisfiesRule(s, NoRule)
  BY DEF SatisfiesRule, NoRule, WithinBounds, Unrestricted
<1> QED
  BY <1>2, <1>3 DEF RestrictionsInit, MergedInv

LEMMA DeclarePreserves ==
    ASSUME MergedInv, NEW rule \in Rules, Declare(rule)
    PROVE  MergedInv'
<1>1. PICK m \in merged : merged' = MergedRules(m, rule)
  BY DEF Declare
<1>2. declared' = declared \cup {rule}
  BY DEF Declare
<1>3. WellFormed(m) /\ WellFormed(rule) /\ \A n \in merged : n = m
  BY RulesHoldOptions DEF MergedInv, WellFormed
<1>4. ASSUME NEW s \in RestrictedSettings
      PROVE  (\E n \in merged' : SatisfiesRule(s, n)) <=> \A r \in declared' : SatisfiesRule(s, r)
  <2>1. Choosable(s)
    BY SettingsHoldOptions DEF Choosable
  <2>2. (\E n \in merged' : SatisfiesRule(s, n)) <=> SatisfiesRule(s, m) /\ SatisfiesRule(s, rule)
    BY <1>1, <1>3, <2>1, RulesMerge
  <2>3. SatisfiesRule(s, m) <=> \A r \in declared : SatisfiesRule(s, r)
    BY <1>1, <1>3 DEF MergedInv
  <2> QED
    BY <1>2, <2>2, <2>3
<1> QED
  BY <1>1, <1>2, <1>3, <1>4, RulesMerge DEF MergedInv

(* A value that is moved to a restriction some value satisfies, satisfies it. *)
LEMMA AppliedFits ==
    ASSUME NEW r, Satisfiable(r), r # Unrestricted, NEW value \in SUBSET Nat
    PROVE  WithinBounds(r, Applied(r, value))
<1>1. /\ r.min \in SUBSET Nat /\ r.max \in SUBSET Nat
      /\ \A x, y \in r.min : x = y
      /\ \A x, y \in r.max : x = y
      /\ \A low \in r.min, high \in r.max : low <= high
  BY DEF Satisfiable, AreBounds, IsOption
<1>2. r.min # {} \/ r.max # {}
  BY DEF Satisfiable, Unrestricted
<1>3. CASE Applied(r, value) = r.min /\ r.min # {}
  BY <1>1, <1>3 DEF WithinBounds
<1>4. CASE /\ Applied(r, value) = r.max /\ r.max # {}
  BY <1>1, <1>4 DEF WithinBounds
<1>5. CASE /\ Applied(r, value) = value /\ value # {}
           /\ ~\E v \in value, m \in r.min : v < m
           /\ ~\E v \in value, m \in r.max : v > m
  <2>1. ASSUME NEW v \in value, NEW m \in r.min PROVE v >= m
    <3>1. v \in Nat /\ m \in Nat /\ ~(v < m)
      BY <1>1, <1>5
    <3> QED
      BY <3>1
  <2>2. ASSUME NEW v \in value, NEW m \in r.max PROVE v <= m
    <3>1. v \in Nat /\ m \in Nat /\ ~(v > m)
      BY <1>1, <1>5
    <3> QED
      BY <3>1
  <2> QED
    BY <1>5, <2>1, <2>2 DEF WithinBounds
<1> QED
  BY <1>2, <1>3, <1>4, <1>5 DEF Applied

(* Settings satisfy the merged restrictions of a file when they satisfy every  *)
(* rule declared for it, in whatever order the rules are merged and whichever  *)
(* bounds they leave open; merging fails only when no settings can satisfy     *)
(* all; and a value moved to the merged restriction fits it.                   *)
THEOREM MergingIsConjunction == RestrictionsSpec => []MergeIsConjunction
<1>1. RestrictionsInit => MergedInv
  BY NothingMerged
<1>2. MergedInv /\ [RestrictionsNext]_restrictionVars => MergedInv'
  <2>1. MergedInv /\ UNCHANGED restrictionVars => MergedInv'
    BY DEF MergedInv, restrictionVars
  <2> QED
    BY <2>1, DeclarePreserves DEF RestrictionsNext
<1>3. MergedInv => MergeIsConjunction
  <2> SUFFICES ASSUME MergedInv, NEW m \in merged, NEW s \in RestrictedSettings,
                      m.runs # Unrestricted
               PROVE  WithinBounds(m.runs, Applied(m.runs, s.runs))
    BY DEF MergeIsConjunction, MergedInv
  <2>1. Satisfiable(m.runs) /\ s.runs \in SUBSET Nat
    BY SettingsHoldOptions DEF MergedInv
  <2> QED
    BY <2>1, AppliedFits
<1> QED
  BY <1>1, <1>2, <1>3, PTL DEF RestrictionsSpec

-----------------------------------------------------------------------------
(* The search for versions, profiles and sources: its invariant.               *)

(* The languages of the input files, and the phases that choose versions for one of them. *)
UsedLanguages == {lang[f] : f \in Elems(Inputs)}
AtLanguage == phase \in {"files", "choose", "spread", "chosen"}

SelectionTypes ==
    /\ imports \in [Files -> Seq(Files)]
    /\ lang \in [Elems(Inputs) -> Languages]
    /\ requires \in [Files -> SUBSET Versions]
    /\ allows \in [Files -> SUBSET DOMAIN Profiles]
    /\ installed \subseteq Versions
    /\ offline \in BOOLEAN
    /\ pos \in Nat \ {0}
    /\ candidates \in [Elems(Inputs) -> SUBSET Versions]
    /\ version \in [Elems(Inputs) -> Versions \cup {None}]
    /\ profile \in [Elems(Inputs) -> DOMAIN Profiles \cup {None}]
    /\ queue \in Seq(Files)
    /\ nodes \in Seq(Files)
    /\ compiled \in [Units -> SUBSET Files]

(* The files looked at so far and the queue hold what the file at hand reaches and nothing else. *)
WalkInv ==
    /\ phase \notin {"files", "profiles"} => nodes = <<>>
    /\ phase \notin {"files", "profiles", "units"} => queue = <<>>
    /\ phase \in {"files", "profiles"} /\ (queue # <<>> \/ nodes # <<>>) =>
           /\ pos \in DOMAIN Inputs
           /\ File \in Elems(nodes) \cup Elems(queue)
           /\ Elems(nodes) \cup Elems(queue) \subseteq Closure({File})
           /\ \A g \in Elems(nodes) : Elems(imports[g]) \subseteq Elems(nodes) \cup Elems(queue)
           /\ phase = "files" => lang[File] = language

(* The candidates of a file are the versions it can be compiled with. *)
HasFits(f) == candidates[f] = Fits(f) /\ Fits(f) # {}

FitsAll(l) == {v \in Versions : \A f \in OfLanguage(l) : v \in Fits(f)}
Settled(l) ==
    \A f \in OfLanguage(l) :
        version[f] \in Fits(f) /\ (FitsAll(l) # {} => version[f] = Best(FitsAll(l)))

(* The languages dealt with are settled; how far the one at hand is depends on the phase. *)
LanguagesInv ==
    /\ phase = "language" => errors = {}
    /\ phase = "language" => \A l \in UsedLanguages \ waiting : Settled(l)
    /\ AtLanguage =>
           /\ language \notin waiting
           /\ errors = {} => \A l \in UsedLanguages \ (waiting \cup {language}) : Settled(l)
    /\ Resolved => \A l \in UsedLanguages : Settled(l)

LanguageInv ==
    errors = {} =>
        /\ phase = "files" =>
               \A i \in DOMAIN Inputs :
                   i < pos /\ lang[Inputs[i]] = language =>
                       HasFits(Inputs[i]) /\ version[Inputs[i]] = Best(Fits(Inputs[i]))
        /\ phase \in {"choose", "spread"} => \A f \in OfLanguage(language) : HasFits(f)
        /\ phase = "spread" =>
               /\ FitsAll(language) = {}
               /\ \A f \in OfLanguage(language) : version[f] \in Fits(f) \cup {None}
               /\ \A i \in DOMAIN Inputs :
                      i < pos /\ lang[Inputs[i]] = language =>
                          version[Inputs[i]] \in Fits(Inputs[i])
        /\ phase = "chosen" => Settled(language)

Suits(f) == {p \in DOMAIN Profiles : \A g \in Closure({f}) : p \in allows[g]}
HasFirst(f) == profile[f] \in Suits(f) /\ \A p \in Suits(f) : profile[f] <= p

ProfilesInv ==
    /\ phase = "profiles" /\ errors = {} =>
           \A i \in DOMAIN Inputs : i < pos => HasFirst(Inputs[i])
    /\ phase \in {"units", "done"} => \A f \in Elems(Inputs) : HasFirst(f)

(* A unit that is not being collected has nothing or all its files reach. *)
CompiledInv ==
    /\ phase \notin {"units", "done"} => \A u \in Units : compiled[u] = {}
    /\ phase # "units" => unit = None
    /\ phase = "units" /\ unit = None => queue = <<>>
    /\ phase \in {"units", "done"} =>
           \A u \in Units :
               ~(Collecting /\ u = unit) => compiled[u] \in {{}, Closure(Members(u))}
    /\ phase = "done" => \A u \in Units : Members(u) # {} => compiled[u] # {}

(* The unit at hand has the input files passed and what is processed beside the others; what these
   import is processed or waits. *)
UnitInv ==
    Collecting =>
        /\ unit \in Units
        /\ processed = Members(unit) \cup compiled[unit]
        /\ processed \cup Elems(queue) \subseteq Closure(Members(unit))
        /\ \A i \in DOMAIN Inputs :
               i < pos /\ Inputs[i] \in Members(unit) => Inputs[i] \in compiled[unit]
        /\ \A g \in compiled[unit] : Elems(imports[g]) \subseteq processed \cup Elems(queue)

SelectionInv ==
    /\ SelectionTypes
    /\ WalkInv
    /\ LanguagesInv
    /\ LanguageInv
    /\ ProfilesInv
    /\ CompiledInv
    /\ UnitInv

-----------------------------------------------------------------------------
(* The largest and the least of a set of numbers.                              *)

LEMMA LeastExists ==
    ASSUME NEW S \in SUBSET Nat, S # {}
    PROVE  Least(S) \in S /\ \A n \in S : Least(S) <= n
<1> DEFINE T == {0 .. n : n \in S}
<1>1. T \subseteq FiniteSubsetsOf(Nat) /\ T # {}
  <2>1. \A n \in S : IsFiniteSet(0 .. n) /\ 0 .. n \subseteq Nat
    BY FS_Interval
  <2> QED
    BY <2>1 DEF FiniteSubsetsOf
<1>2. IsWellFoundedOn(StrictSubsetOrdering(Nat), FiniteSubsetsOf(Nat))
  BY FS_StrictSubsetOrderingWellFounded
<1>3. PICK x \in T : \A y \in T : ~(<<y, x>> \in StrictSubsetOrdering(Nat))
  <2> HIDE DEF T
  <2> QED
    BY <1>1, <1>2, WFMin
<1>4. PICK m \in S : x = 0 .. m
  BY <1>3
<1>5. ASSUME NEW n \in S, n < m
      PROVE  FALSE
  <2>1. 0 .. n \subseteq 0 .. m /\ 0 .. n # 0 .. m
    BY <1>5
  <2>2. <<0 .. n, x>> \in StrictSubsetOrdering(Nat)
    BY <1>4, <2>1 DEF StrictSubsetOrdering
  <2> QED
    BY <2>2, <1>3
<1>6. \A n \in S : m <= n
  <2> SUFFICES ASSUME NEW n \in S PROVE m <= n
    OBVIOUS
  <2>1. ~(n < m) /\ n \in Nat /\ m \in Nat
    BY <1>5
  <2> QED
    BY <2>1
<1> QED
  BY <1>6 DEF Least

LEMMA LargestExists ==
    ASSUME NEW S \in SUBSET Nat, S # {}, IsFiniteSet(S)
    PROVE  Largest(S) \in S /\ \A n \in S : n <= Largest(S)
<1> DEFINE Above(n) == {x \in S : x > n}
           T == {Above(n) : n \in S}
<1>1. T \subseteq FiniteSubsetsOf(Nat) /\ T # {}
  <2>1. \A n \in S : IsFiniteSet(Above(n)) /\ Above(n) \subseteq Nat
    BY FS_Subset
  <2> QED
    BY <2>1 DEF FiniteSubsetsOf
<1>2. IsWellFoundedOn(StrictSubsetOrdering(Nat), FiniteSubsetsOf(Nat))
  BY FS_StrictSubsetOrderingWellFounded
<1>3. PICK x \in T : \A y \in T : ~(<<y, x>> \in StrictSubsetOrdering(Nat))
  <2> HIDE DEF T
  <2> QED
    BY <1>1, <1>2, WFMin
<1>4. PICK m \in S : x = Above(m)
  BY <1>3
<1>5. ASSUME NEW n \in S, n > m
      PROVE  FALSE
  <2>1. Above(n) \subseteq Above(m) /\ n \in Above(m) /\ n \notin Above(n)
    <3>1. S \subseteq Nat /\ n \in S /\ m \in S /\ n > m
      BY <1>5
    <3>2. \A k \in S : k > n => k > m
      BY <3>1
    <3>3. ~(n > n)
      BY <3>1
    <3> QED
      BY <3>1, <3>2, <3>3
  <2>2. Above(n) \subseteq Nat /\ Above(m) \subseteq Nat
    OBVIOUS
  <2>3. <<Above(n), x>> \in StrictSubsetOrdering(Nat)
    BY <1>4, <2>1, <2>2 DEF StrictSubsetOrdering
  <2> QED
    BY <2>3, <1>3
<1>6. \A n \in S : n <= m
  <2> SUFFICES ASSUME NEW n \in S PROVE n <= m
    OBVIOUS
  <2>1. ~(n > m) /\ n \in Nat /\ m \in Nat
    BY <1>5
  <2> QED
    BY <2>1
<1> QED
  BY <1>6 DEF Largest

LEMMA LargestIs ==
    ASSUME NEW S \in SUBSET Nat, NEW v \in S, \A w \in S : w <= v
    PROVE  Largest(S) = v
<1>1. \A x \in S : (\A w \in S : w <= x) => x = v
  OBVIOUS
<1> QED
  BY <1>1 DEF Largest

(* Released versions are finitely many, so that a set of them has a largest. *)
LEMMA LargestVersion ==
    ASSUME NEW S \in SUBSET Versions, S # {}
    PROVE  Largest(S) \in S /\ \A v \in S : v <= Largest(S)
<1>1. IsFiniteSet(S) /\ S \in SUBSET Nat
  BY FS_Subset, VersionsAreFinite, VersionsAreNumbers
<1> QED
  BY <1>1, LargestExists

LEMMA BestIsMember ==
    ASSUME NEW S \in SUBSET Versions, S # {}
    PROVE  Best(S) \in S
<1>1. S \cap installed \in SUBSET Versions
  OBVIOUS
<1> QED
  BY <1>1, LargestVersion DEF Best

LEMMA LastIsMember ==
    ASSUME NEW S \in SUBSET Versions, S # {}
    PROVE  LastOf(S) \in S
<1>1. S \ installed \in SUBSET Versions
  OBVIOUS
<1> QED
  BY <1>1, LargestVersion DEF LastOf

(* What is best among more versions is best among fewer, if it is one of them. *)
LEMMA BestOfFewer ==
    ASSUME NEW S \in SUBSET Versions, NEW T \in SUBSET S, Best(S) \in T
    PROVE  Best(T) = Best(S)
<1>1. CASE S \cap installed # {}
  <2>1. S \cap installed \in SUBSET Versions
    OBVIOUS
  <2>2. Best(S) \in S \cap installed /\ \A v \in S \cap installed : v <= Best(S)
    BY <1>1, <2>1, LargestVersion DEF Best
  <2>3. T \cap installed \in SUBSET Nat /\ Best(S) \in T \cap installed
    BY <2>2, VersionsAreNumbers
  <2>4. Largest(T \cap installed) = Best(S)
    BY <2>2, <2>3, LargestIs
  <2> QED
    BY <2>3, <2>4 DEF Best
<1>2. CASE S \cap installed = {}
  <2>1. T \cap installed = {}
    BY <1>2
  <2>2. \A v \in S : v <= Best(S)
    BY <1>2, LargestVersion DEF Best
  <2>3. T \in SUBSET Nat
    BY VersionsAreNumbers
  <2>4. Largest(T) = Best(S)
    BY <2>2, <2>3, LargestIs
  <2> QED
    BY <2>1, <2>4 DEF Best
<1> QED
  BY <1>1, <1>2

(* A finite set of at most one element has no two. *)
LEMMA AtMostOne ==
    ASSUME NEW S, IsFiniteSet(S), ~(Cardinality(S) > 1), NEW x \in S, NEW y \in S
    PROVE  x = y
<1>1. Cardinality(S) \in Nat /\ Cardinality(S) # 0
  BY FS_CardinalityType, FS_EmptySet
<1>2. Cardinality(S) = 1
  BY <1>1
<1>3. \E z : S = {z}
  BY <1>2, FS_Singleton
<1> QED
  BY <1>3

-----------------------------------------------------------------------------
(* What files reach.                                                           *)

LEMMA InputsAreFiles ==
    /\ Elems(Inputs) \subseteq Files
    /\ \A i \in DOMAIN Inputs : Inputs[i] \in Elems(Inputs)
    /\ \A f \in Elems(Inputs) : \E i \in DOMAIN Inputs : f = Inputs[i]
  BY DEF Files, Elems

LEMMA ClosureHolds ==
    ASSUME NEW F \in SUBSET Files
    PROVE  F \subseteq Closure(F) /\ Closure(F) \subseteq Files
  BY DEF Closure

LEMMA ClosureIsClosed ==
    ASSUME imports \in [Files -> Seq(Files)], NEW F \in SUBSET Files, NEW g \in Closure(F)
    PROVE  Elems(imports[g]) \subseteq Closure(F)
<1>1. g \in Files
  BY DEF Closure
<1>2. Elems(imports[g]) \subseteq Files
  <2>1. imports[g] \in Seq(Files)
    BY <1>1
  <2> QED
    BY <2>1 DEF Elems
<1>3. ASSUME NEW x \in Elems(imports[g]), NEW S \in SUBSET Files, F \subseteq S, ImportClosed(S)
      PROVE  x \in S
  <2>1. g \in S
    BY <1>3 DEF Closure
  <2> QED
    BY <2>1, <1>3 DEF ImportClosed
<1> QED
  BY <1>2, <1>3 DEF Closure

LEMMA ClosureIsLeast ==
    ASSUME NEW F, NEW S \in SUBSET Files, F \subseteq S,
           \A g \in S : Elems(imports[g]) \subseteq S
    PROVE  Closure(F) \subseteq S
  BY DEF Closure, ImportClosed

LEMMA ClosureOfNothing == Closure({}) = {}
  BY ClosureIsLeast, ClosureHolds

LEMMA NothingListed == Elems(<<>>) = {}
  BY DEF Elems

LEMMA HeadAndTail ==
    ASSUME NEW S, NEW s \in Seq(S), s # <<>>
    PROVE  /\ Head(s) \in S
           /\ Tail(s) \in Seq(S)
           /\ Elems(s) = {Head(s)} \cup Elems(Tail(s))
<1>1. Len(s) \in Nat /\ Len(s) > 0 /\ DOMAIN s = 1 .. Len(s)
  OBVIOUS
<1>2. /\ Head(s) = s[1]
      /\ Tail(s) \in Seq(S)
      /\ Len(Tail(s)) = Len(s) - 1
      /\ \A i \in 1 .. Len(s) - 1 : Tail(s)[i] = s[i + 1]
  BY <1>1
<1>3. DOMAIN Tail(s) = 1 .. Len(s) - 1
  BY <1>1, <1>2
<1>4. ASSUME NEW i \in 1 .. Len(s)
      PROVE  s[i] = Head(s) \/ \E j \in DOMAIN Tail(s) : s[i] = Tail(s)[j]
  <2>1. CASE i = 1
    BY <2>1, <1>2
  <2>2. CASE i # 1
    <3>1. i - 1 \in 1 .. Len(s) - 1
      BY <2>2, <1>1
    <3>2. Tail(s)[i - 1] = s[(i - 1) + 1] /\ (i - 1) + 1 = i
      BY <3>1, <1>2
    <3> QED
      BY <3>1, <3>2, <1>3
  <2> QED
    BY <2>1, <2>2
<1>5. ASSUME NEW j \in DOMAIN Tail(s)
      PROVE  \E i \in 1 .. Len(s) : Tail(s)[j] = s[i]
  <2>1. Tail(s)[j] = s[j + 1] /\ j + 1 \in 1 .. Len(s)
    BY <1>1, <1>2, <1>3
  <2> QED
    BY <2>1
<1> QED
  BY <1>1, <1>2, <1>4, <1>5 DEF Elems

LEMMA Concatenated ==
    ASSUME NEW S, NEW s \in Seq(S), NEW t \in Seq(S)
    PROVE  s \o t \in Seq(S) /\ Elems(s \o t) = Elems(s) \cup Elems(t)
<1>1. /\ s \o t \in Seq(S)
      /\ Len(s \o t) = Len(s) + Len(t)
      /\ \A i \in 1 .. Len(s) + Len(t) :
             (s \o t)[i] = IF i <= Len(s) THEN s[i] ELSE t[i - Len(s)]
  OBVIOUS
<1>2. /\ Len(s) \in Nat /\ Len(t) \in Nat
      /\ DOMAIN s = 1 .. Len(s) /\ DOMAIN t = 1 .. Len(t)
      /\ DOMAIN (s \o t) = 1 .. Len(s) + Len(t)
  BY <1>1
<1>3. ASSUME NEW i \in 1 .. Len(s)
      PROVE  i \in 1 .. Len(s) + Len(t) /\ (s \o t)[i] = s[i]
  BY <1>1, <1>2
<1>4. ASSUME NEW i \in 1 .. Len(t)
      PROVE  Len(s) + i \in 1 .. Len(s) + Len(t) /\ (s \o t)[Len(s) + i] = t[i]
  <2>1. Len(s) + i \in 1 .. Len(s) + Len(t) /\ ~(Len(s) + i <= Len(s)) /\ Len(s) + i - Len(s) = i
    BY <1>2
  <2> QED
    BY <2>1, <1>1
<1>5. ASSUME NEW i \in 1 .. Len(s) + Len(t)
      PROVE  (s \o t)[i] \in Elems(s) \cup Elems(t)
  <2>1. CASE i <= Len(s)
    BY <2>1, <1>1, <1>2 DEF Elems
  <2>2. CASE ~(i <= Len(s))
    <3>1. i - Len(s) \in 1 .. Len(t) /\ (s \o t)[i] = t[i - Len(s)]
      BY <2>2, <1>1, <1>2
    <3> QED
      BY <3>1, <1>2 DEF Elems
  <2> QED
    BY <2>1, <2>2
<1>6. Elems(s) \subseteq Elems(s \o t)
  BY <1>2, <1>3 DEF Elems
<1>7. Elems(t) \subseteq Elems(s \o t)
  BY <1>2, <1>4 DEF Elems
<1>8. Elems(s \o t) \subseteq Elems(s) \cup Elems(t)
  BY <1>2, <1>5 DEF Elems
<1> QED
  BY <1>1, <1>6, <1>7, <1>8

LEMMA Appended ==
    ASSUME NEW S, NEW s \in Seq(S), NEW x \in S
    PROVE  Append(s, x) \in Seq(S) /\ Elems(Append(s, x)) = Elems(s) \cup {x}
<1>1. /\ Append(s, x) \in Seq(S)
      /\ DOMAIN Append(s, x) = 1 .. Len(s) + 1
      /\ \A i \in 1 .. Len(s) : Append(s, x)[i] = s[i]
      /\ Append(s, x)[Len(s) + 1] = x
      /\ DOMAIN s = 1 .. Len(s)
      /\ Len(s) \in Nat
  OBVIOUS
<1>2. \A i \in 1 .. Len(s) + 1 : i \in 1 .. Len(s) \/ i = Len(s) + 1
  BY <1>1
<1>3. \A i \in 1 .. Len(s) : i \in 1 .. Len(s) + 1
  BY <1>1
<1>4. Len(s) + 1 \in 1 .. Len(s) + 1
  BY <1>1
<1> HIDE <1>1
<1> QED
  BY <1>1, <1>2, <1>3, <1>4 DEF Elems

(* When a file's walk is over it has visited what the file reaches. *)
LEMMA WalkedIsClosure ==
    ASSUME SelectionTypes, WalkInv, Walked, phase \in {"files", "profiles"}
    PROVE  /\ pos \in DOMAIN Inputs
           /\ File \in Elems(Inputs)
           /\ Elems(nodes) = Closure({File})
           /\ phase = "files" => lang[File] = language
<1>1. /\ pos \in DOMAIN Inputs
      /\ File \in Elems(nodes)
      /\ Elems(nodes) \subseteq Closure({File})
      /\ \A g \in Elems(nodes) : Elems(imports[g]) \subseteq Elems(nodes)
      /\ phase = "files" => lang[File] = language
  BY NothingListed DEF WalkInv, Walked
<1>2. File \in Elems(Inputs)
  BY <1>1, InputsAreFiles DEF File
<1>3. Elems(nodes) \in SUBSET Files
  <2>1. nodes \in Seq(Files)
    BY DEF SelectionTypes
  <2> QED
    BY <2>1 DEF Elems
<1>4. Closure({File}) \subseteq Elems(nodes)
  BY <1>1, <1>3, ClosureIsLeast
<1> QED
  BY <1>1, <1>2, <1>4

(* What a walk leaves is what all files visited allow; it fails when that is nothing. *)
LEMMA RetainedIsAllowed ==
    ASSUME NEW s \in Seq(Files), NEW all, NEW rule
    PROVE  Retained(all, s, rule, Len(s)) = {v \in all : \A g \in Elems(s) : v \in rule[g]}
<1>1. DOMAIN s = 1 .. Len(s)
  OBVIOUS
<1> QED
  BY <1>1 DEF Retained, Elems

LEMMA FailsWhenNothingLeft ==
    ASSUME NEW s \in Seq(Files), s # <<>>, NEW all, NEW rule
    PROVE  FailsAt(all, s, rule) = None <=> Retained(all, s, rule, Len(s)) # {}
<1> DEFINE bad == {k \in DOMAIN s : Retained(all, s, rule, k) = {}}
<1>1. DOMAIN s = 1 .. Len(s) /\ Len(s) \in Nat /\ Len(s) # 0
  OBVIOUS
<1>2. bad \in SUBSET Nat
  BY <1>1
<1>3. FailsAt(all, s, rule) = IF bad = {} THEN None ELSE Least(bad)
  BY DEF FailsAt
<1>4. bad # {} => FailsAt(all, s, rule) # None
  <2> HIDE DEF bad
  <2> QED
    BY <1>2, <1>3, LeastExists, VersionsAreNumbers
<1>5. ASSUME bad = {} PROVE Retained(all, s, rule, Len(s)) # {}
  <2>1. Len(s) \in DOMAIN s
    BY <1>1
  <2> QED
    BY <2>1, <1>5
<1>6. ASSUME Retained(all, s, rule, Len(s)) # {}, NEW k \in DOMAIN s
      PROVE  Retained(all, s, rule, k) # {}
  <2>1. \A i \in 1 .. k : i \in 1 .. Len(s)
    BY <1>1
  <2> QED
    BY <1>6, <2>1 DEF Retained
<1> QED
  BY <1>3, <1>4, <1>5, <1>6

-----------------------------------------------------------------------------
(* Types.                                                                      *)

LEMMA ProjectStays == [SelectionNext]_selectionVars => UNCHANGED project
  BY DEF SelectionNext, selectionVars, BeginLanguage, OtherLanguage, StartWalk, VisitNode,
         Candidates, NoCandidate, FilesDone, OneForAll, NoneForAll, Spread, SpreadDone,
         EndLanguage, ChooseProfile, ProfilesDone, selected, BeginUnit, AddInput, InsertImport,
         EndUnit, UnitsDone

LEMMA SelectionStart == SelectionInit => SelectionInv
<1> SUFFICES ASSUME SelectionInit PROVE SelectionInv
  OBVIOUS
<1>1. SelectionTypes
  <2>1. PICK p \in Projects :
            /\ imports = p.imports
            /\ lang = p.lang
            /\ requires = p.requires
            /\ allows = p.allows
            /\ installed = p.installed
    BY DEF SelectionInit
  <2>2. Ranges \subseteq SUBSET Versions
    BY DEF Ranges
  <2>3. /\ imports \in [Files -> Seq(Files)]
        /\ lang \in [Elems(Inputs) -> Languages]
        /\ requires \in [Files -> Ranges]
        /\ allows \in [Files -> SUBSET DOMAIN Profiles]
        /\ installed \subseteq Versions
    BY <2>1, ProjectsHaveTypes
  <2>4. requires \in [Files -> SUBSET Versions]
    BY <2>2, <2>3
  <2>5. /\ candidates \in [Elems(Inputs) -> SUBSET Versions]
        /\ version \in [Elems(Inputs) -> Versions \cup {None}]
        /\ profile \in [Elems(Inputs) -> DOMAIN Profiles \cup {None}]
        /\ compiled \in [Units -> SUBSET Files]
    BY DEF SelectionInit, Unversioned
  <2>6. offline \in BOOLEAN /\ pos \in Nat \ {0} /\ queue \in Seq(Files) /\ nodes \in Seq(Files)
    BY DEF SelectionInit
  <2> QED
    BY <2>3, <2>4, <2>5, <2>6 DEF SelectionTypes
<1>2. phase = "language" /\ errors = {} /\ queue = <<>> /\ nodes = <<>> /\ unit = None
  BY DEF SelectionInit
<1>3. WalkInv
  BY <1>2 DEF WalkInv
<1>4. LanguagesInv
  <2>1. UsedLanguages \ waiting = {}
    BY DEF SelectionInit, UsedLanguages
  <2> QED
    BY <1>2, <2>1 DEF LanguagesInv, AtLanguage, Resolved
<1>5. LanguageInv /\ ProfilesInv /\ UnitInv
  BY <1>2 DEF LanguageInv, ProfilesInv, UnitInv, Collecting
<1>6. CompiledInv
  <2>1. \A u \in Units : compiled[u] = {}
    BY DEF SelectionInit
  <2> QED
    BY <1>2, <2>1 DEF CompiledInv
<1> QED
  BY <1>1, <1>3, <1>4, <1>5, <1>6 DEF SelectionInv

LEMMA TypesStep == SelectionInv /\ [SelectionNext]_selectionVars => SelectionTypes'
<1> SUFFICES ASSUME SelectionInv, [SelectionNext]_selectionVars PROVE SelectionTypes'
  OBVIOUS
<1>1. /\ imports' = imports /\ lang' = lang /\ requires' = requires
      /\ allows' = allows /\ installed' = installed /\ offline' = offline
  BY ProjectStays DEF project
<1>2. SelectionTypes /\ WalkInv /\ UnitInv
  BY DEF SelectionInv
<1>3. /\ imports' \in [Files -> Seq(Files)]
      /\ lang' \in [Elems(Inputs) -> Languages]
      /\ requires' \in [Files -> SUBSET Versions]
      /\ allows' \in [Files -> SUBSET DOMAIN Profiles]
      /\ installed' \subseteq Versions
      /\ offline' \in BOOLEAN
  BY <1>1, <1>2 DEF SelectionTypes
<1>4. /\ pos \in Nat \ {0} /\ pos + 1 \in Nat \ {0} /\ 1 \in Nat \ {0}
      /\ queue \in Seq(Files) /\ nodes \in Seq(Files) /\ <<>> \in Seq(Files)
  BY <1>2 DEF SelectionTypes
<1>5. pos' \in Nat \ {0}
  <2>1. pos' \in {pos, pos + 1, 1}
    BY DEF SelectionNext, selectionVars, BeginLanguage, OtherLanguage, StartWalk, VisitNode,
           Candidates, NoCandidate, FilesDone, OneForAll, NoneForAll, Spread, SpreadDone,
           EndLanguage, ChooseProfile, ProfilesDone, selected, BeginUnit, AddInput, InsertImport,
           EndUnit, UnitsDone
  <2> QED
    BY <2>1, <1>4
<1>6. queue' \in Seq(Files) /\ nodes' \in Seq(Files)
  <2>1. CASE UNCHANGED walk
    BY <2>1, <1>4 DEF walk
  <2>2. CASE StartWalk
    <3>1. File \in Files
      BY <2>2, InputsAreFiles DEF StartWalk, AtFile, File
    <3> QED
      BY <2>2, <3>1, <1>4 DEF StartWalk
  <2>3. CASE VisitNode
    <3>1. Head(queue) \in Files /\ Tail(queue) \in Seq(Files)
      BY <2>3, <1>4, HeadAndTail DEF VisitNode
    <3>2. imports[Head(queue)] \in Seq(Files)
      BY <3>1, <1>2 DEF SelectionTypes
    <3>3. Tail(queue) \o imports[Head(queue)] \in Seq(Files) /\ Append(nodes, Head(queue)) \in Seq(Files)
      BY <3>1, <3>2, <1>4
    <3> QED
      BY <2>3, <3>1, <3>3, <1>4 DEF VisitNode
  <2>4. CASE EndWalk
    BY <2>4, <1>4 DEF EndWalk
  <2>5. CASE nodes' = nodes /\ queue' = queue
    BY <2>5, <1>4
  <2>6. CASE AddInput
    <3>1. pos \in DOMAIN Inputs => File \in Files
      BY InputsAreFiles DEF File
    <3>2. imports[File] \in Seq(Files)
      BY <2>6, <3>1, <1>2 DEF SelectionTypes, AddInput
    <3> QED
      BY <2>6, <3>2, <1>4 DEF AddInput, selected
  <2>7. CASE InsertImport
    <3>1. Head(queue) \in Files /\ Tail(queue) \in Seq(Files)
      BY <2>7, <1>4, HeadAndTail DEF InsertImport
    <3>2. imports[Head(queue)] \in Seq(Files)
      BY <3>1, <1>2 DEF SelectionTypes
    <3>3. imports[Head(queue)] \o Tail(queue) \in Seq(Files)
      BY <3>1, <3>2
    <3> QED
      BY <2>7, <3>1, <3>3, <1>4 DEF InsertImport, selected
  <2> QED
    BY <2>1, <2>2, <2>3, <2>4, <2>5, <2>6, <2>7
       DEF SelectionNext, selectionVars, BeginLanguage, OtherLanguage,
           Candidates, NoCandidate, FilesDone, OneForAll, NoneForAll, Spread, SpreadDone,
           EndLanguage, ChooseProfile, ProfilesDone, selected, BeginUnit, EndUnit, UnitsDone
<1>7. /\ candidates' \in [Elems(Inputs) -> SUBSET Versions]
      /\ version' \in [Elems(Inputs) -> Versions \cup {None}]
  <2>1. /\ candidates \in [Elems(Inputs) -> SUBSET Versions]
        /\ version \in [Elems(Inputs) -> Versions \cup {None}]
    BY <1>2 DEF SelectionTypes
  <2>2. CASE UNCHANGED <<candidates, version>>
    BY <2>1, <2>2
  <2>3. CASE Candidates
    <3> DEFINE ok == Retained(Available, nodes, requires, Len(nodes))
    <3>1. ok # {}
      BY <2>3, <1>4, FailsWhenNothingLeft DEF Candidates, Walked
    <3>2. ok \in SUBSET Versions
      BY <1>2 DEF Retained, Available, SelectionTypes
    <3>3. Best(ok) \in Versions
      <4> HIDE DEF ok
      <4> QED
        BY <3>1, <3>2, BestIsMember
    <3>4. /\ candidates' = [candidates EXCEPT ![File] = ok]
          /\ version' = [version EXCEPT ![File] = Best(ok)]
      BY <2>3 DEF Candidates
    <3> HIDE DEF ok
    <3> QED
      BY <3>2, <3>3, <3>4, <2>1
  <2>4. CASE OneForAll
    <3>1. Common \in SUBSET Versions /\ Common # {}
      BY <2>4 DEF OneForAll, Common
    <3>2. Best(Common) \in Versions
      BY <3>1, BestIsMember
    <3> QED
      BY <2>4, <3>2, <2>1 DEF OneForAll
  <2>5. CASE NoneForAll
    BY <2>5, <2>1 DEF NoneForAll
  <2>6. CASE Spread
    <3>1. CASE File \notin HaveCandidates
      BY <2>6, <3>1, <2>1 DEF Spread
    <3>2. CASE File \in HaveCandidates
      <4> DEFINE again == candidates[File] \cap InUse(HaveCandidates)
      <4>1. candidates[File] \in SUBSET Versions /\ candidates[File] # {}
        BY <3>2, <2>1 DEF HaveCandidates, OfLanguage
      <4>2. Best(candidates[File]) \in Versions
        BY <4>1, BestIsMember
      <4>3. again # {} => LastOf(again) \in Versions
        <5>1. again \in SUBSET Versions
          BY <4>1
        <5> HIDE DEF again
        <5> QED
          BY <5>1, LastIsMember
      <4>4. version' = [version EXCEPT ![File] =
                            IF again # {} THEN LastOf(again) ELSE Best(candidates[File])]
            /\ candidates' = candidates
        BY <2>6, <3>2 DEF Spread
      <4> HIDE DEF again
      <4> QED
        BY <4>2, <4>3, <4>4, <2>1
    <3> QED
      BY <3>1, <3>2
  <2> QED
    BY <2>2, <2>3, <2>4, <2>5, <2>6
       DEF SelectionNext, selectionVars, BeginLanguage, OtherLanguage, StartWalk, VisitNode,
           NoCandidate, FilesDone, SpreadDone, EndLanguage, ChooseProfile, ProfilesDone, selected,
           BeginUnit, AddInput, InsertImport, EndUnit, UnitsDone
<1>8. profile' \in [Elems(Inputs) -> DOMAIN Profiles \cup {None}]
  <2>1. profile \in [Elems(Inputs) -> DOMAIN Profiles \cup {None}]
    BY <1>2 DEF SelectionTypes
  <2>2. CASE UNCHANGED profile
    BY <2>1, <2>2
  <2>3. CASE ChooseProfile
    <3> DEFINE left == Retained(DOMAIN Profiles, nodes, allows, Len(nodes))
    <3>1. left \in SUBSET DOMAIN Profiles /\ left \in SUBSET Nat
      <4>1. DOMAIN Profiles \subseteq Nat
        BY InputsAndProfilesAreListed
      <4> QED
        BY <4>1 DEF Retained
    <3>2. left # {} => Least(left) \in DOMAIN Profiles
      <4> HIDE DEF left
      <4> QED
        BY <3>1, LeastExists
    <3>3. profile' = IF left = {} THEN profile ELSE [profile EXCEPT ![File] = Least(left)]
      BY <2>3 DEF ChooseProfile
    <3> HIDE DEF left
    <3> QED
      BY <3>2, <3>3, <2>1
  <2> QED
    BY <2>2, <2>3
       DEF SelectionNext, selectionVars, BeginLanguage, OtherLanguage, StartWalk, VisitNode,
           Candidates, NoCandidate, FilesDone, OneForAll, NoneForAll, Spread, SpreadDone,
           EndLanguage, ProfilesDone, selected, BeginUnit, AddInput, InsertImport, EndUnit, UnitsDone
<1>9. compiled' \in [Units -> SUBSET Files]
  <2>1. compiled \in [Units -> SUBSET Files]
    BY <1>2 DEF SelectionTypes
  <2>2. CASE UNCHANGED compiled
    BY <2>1, <2>2
  <2>3. CASE AddInput
    <3>1. File \in Files /\ unit \in Units
      BY <2>3, <1>2, InputsAreFiles DEF AddInput, File, UnitInv
    <3>2. compiled' \in {compiled, [compiled EXCEPT ![unit] = @ \cup {File}]}
      BY <2>3 DEF AddInput
    <3> QED
      BY <3>1, <3>2, <2>1
  <2>4. CASE InsertImport
    <3>1. Head(queue) \in Files /\ unit \in Units
      BY <2>4, <1>2, <1>4, HeadAndTail DEF InsertImport, UnitInv
    <3>2. compiled' \in {compiled, [compiled EXCEPT ![unit] = @ \cup {Head(queue)}]}
      BY <2>4 DEF InsertImport
    <3> QED
      BY <3>1, <3>2, <2>1
  <2> QED
    BY <2>2, <2>3, <2>4
       DEF SelectionNext, selectionVars, BeginLanguage, OtherLanguage, StartWalk, VisitNode,
           Candidates, NoCandidate, FilesDone, OneForAll, NoneForAll, Spread, SpreadDone, unitVars,
           EndLanguage, ChooseProfile, ProfilesDone, selected, BeginUnit, EndUnit, UnitsDone
<1> QED
  BY <1>3, <1>5, <1>6, <1>7, <1>8, <1>9 DEF SelectionTypes

-----------------------------------------------------------------------------
(* The walks.                                                                  *)

LEMMA WalkStep == SelectionInv /\ [SelectionNext]_selectionVars => WalkInv'
<1> SUFFICES ASSUME SelectionInv, [SelectionNext]_selectionVars PROVE WalkInv'
  OBVIOUS
<1>1. SelectionTypes /\ WalkInv /\ CompiledInv
  BY DEF SelectionInv
<1>2. imports' = imports /\ lang' = lang
  BY ProjectStays DEF project
<1>3. \A F : Closure(F)' = Closure(F)
  BY <1>2 DEF Closure, ImportClosed
<1>4. nodes \in Seq(Files) /\ queue \in Seq(Files)
  BY <1>1 DEF SelectionTypes
<1>5. ASSUME nodes' = <<>>, queue' = <<>> PROVE WalkInv'
  BY <1>5 DEF WalkInv
<1>6. ASSUME phase \notin {"files", "profiles", "units"}, UNCHANGED walk PROVE WalkInv'
  BY <1>1, <1>5, <1>6 DEF WalkInv, walk
<1>7. ASSUME phase \in {"files", "profiles"}, pos \notin DOMAIN Inputs, UNCHANGED walk
      PROVE  WalkInv'
  BY <1>1, <1>5, <1>7 DEF WalkInv, walk
<1>8. ASSUME UNCHANGED <<phase, language, pos, queue, nodes>> PROVE WalkInv'
  <2>1. File' = File /\ Closure({File})' = Closure({File})
    BY <1>8, <1>2 DEF File, Closure, ImportClosed
  <2> QED
    BY <1>1, <1>2, <1>8, <2>1 DEF WalkInv
<1>9. ASSUME phase = "units", phase' = "units", nodes' = nodes PROVE WalkInv'
  BY <1>1, <1>9 DEF WalkInv
<1>10. ASSUME NEW l \in Languages, BeginLanguage(l) PROVE WalkInv'
  BY <1>10, <1>6 DEF BeginLanguage
<1>11. CASE OtherLanguage
  <2>1. nodes = <<>> /\ queue = <<>>
    BY <1>11, <1>1 DEF OtherLanguage, AtFile, WalkInv
  <2> QED
    BY <2>1, <1>11, <1>5 DEF OtherLanguage, walk
<1>12. CASE StartWalk
  <2>1. /\ phase \in {"files", "profiles"} /\ phase' = phase
        /\ pos \in DOMAIN Inputs /\ pos' = pos
        /\ nodes' = <<>> /\ queue' = <<File>>
        /\ language' = language
        /\ phase = "files" => lang[File] = language
    BY <1>12 DEF StartWalk, AtFile, walk
  <2>2. File' = File /\ Closure({File})' = Closure({File})
    BY <2>1, <1>2 DEF File, Closure, ImportClosed
  <2>3. File \in Files
    BY <2>1, InputsAreFiles DEF File
  <2>4. File \in Closure({File})
    BY <2>3, ClosureHolds
  <2>5. Elems(queue)' = {File} /\ Elems(nodes)' = {}
    BY <2>1 DEF Elems
  <2> QED
    BY <2>1, <2>2, <2>4, <2>5, <1>2 DEF WalkInv
<1>13. CASE VisitNode
  <2> DEFINE f == Head(queue)
  <2>1. /\ phase \in {"files", "profiles"} /\ phase' = phase
        /\ queue # <<>>
        /\ pos' = pos /\ language' = language
    BY <1>13 DEF VisitNode
  <2>2. /\ pos \in DOMAIN Inputs
        /\ File \in Elems(nodes) \cup Elems(queue)
        /\ Elems(nodes) \cup Elems(queue) \subseteq Closure({File})
        /\ \A g \in Elems(nodes) : Elems(imports[g]) \subseteq Elems(nodes) \cup Elems(queue)
        /\ phase = "files" => lang[File] = language
    BY <2>1, <1>1 DEF WalkInv
  <2>3. File' = File /\ Closure({File})' = Closure({File})
    BY <2>1, <1>2 DEF File, Closure, ImportClosed
  <2>4. f \in Files /\ Tail(queue) \in Seq(Files) /\ Elems(queue) = {f} \cup Elems(Tail(queue))
    BY <2>1, <1>4, HeadAndTail
  <2>5. imports[f] \in Seq(Files)
    BY <2>4, <1>1 DEF SelectionTypes
  <2>6. File \in Files
    BY <2>2, InputsAreFiles DEF File
  <2>7. Elems(imports[f]) \subseteq Closure({File})
    BY <2>2, <2>4, <2>6, <1>1, ClosureIsClosed DEF SelectionTypes
  <2>8. \/ Elems(nodes') = Elems(nodes) /\ Elems(queue') = Elems(Tail(queue)) /\ f \in Elems(nodes)
        \/ /\ Elems(nodes') = Elems(nodes) \cup {f}
           /\ Elems(queue') = Elems(Tail(queue)) \cup Elems(imports[f])
    <3>1. Elems(Tail(queue) \o imports[f]) = Elems(Tail(queue)) \cup Elems(imports[f])
      <4>1. \A s, t \in Seq(Files) : Elems(s \o t) = Elems(s) \cup Elems(t)
        BY Concatenated
      <4> HIDE DEF f
      <4> QED
        BY <2>4, <2>5, <4>1, Zenon
    <3>2. Elems(Append(nodes, f)) = Elems(nodes) \cup {f}
      BY <1>4, <2>4, Appended
    <3> QED
      BY <1>13, <3>1, <3>2 DEF VisitNode
  <2>9. /\ File \in Elems(nodes') \cup Elems(queue')
        /\ Elems(nodes') \cup Elems(queue') \subseteq Closure({File})
        /\ \A g \in Elems(nodes') : Elems(imports[g]) \subseteq Elems(nodes') \cup Elems(queue')
    <3> HIDE DEF f
    <3> QED
      BY <2>2, <2>4, <2>7, <2>8
  <2> HIDE DEF f
  <2> QED
    BY <2>1, <2>2, <2>3, <2>9, <1>2 DEF WalkInv
<1>14. CASE Candidates \/ NoCandidate \/ ChooseProfile
  BY <1>14, <1>5 DEF Candidates, NoCandidate, ChooseProfile, Walked, EndWalk
<1>15. CASE FilesDone \/ ProfilesDone
  BY <1>15, <1>7 DEF FilesDone, ProfilesDone
<1>16. CASE OneForAll \/ NoneForAll \/ Spread \/ SpreadDone \/ EndLanguage
  BY <1>16, <1>6 DEF OneForAll, NoneForAll, Spread, SpreadDone, EndLanguage
<1>17. ASSUME NEW u \in Units, BeginUnit(u) PROVE WalkInv'
  BY <1>17, <1>9 DEF BeginUnit, selected
<1>18. CASE AddInput \/ InsertImport \/ EndUnit
  BY <1>18, <1>9 DEF AddInput, InsertImport, EndUnit, Collecting, selected
<1>19. CASE UnitsDone
  BY <1>19, <1>1, <1>5 DEF UnitsDone, WalkInv, CompiledInv, walk
<1>20. CASE UNCHANGED selectionVars
  BY <1>20, <1>8 DEF selectionVars, walk
<1> QED
  BY <1>10, <1>11, <1>12, <1>13, <1>14, <1>15, <1>16, <1>17, <1>18, <1>19, <1>20
     DEF SelectionNext

-----------------------------------------------------------------------------
(* Versions.                                                                   *)

LEMMA FitsAreVersions ==
    ASSUME SelectionTypes, NEW f
    PROVE  Fits(f) \in SUBSET Versions
  BY DEF Fits, Available, SelectionTypes

LEMMA FitsStay ==
    ASSUME UNCHANGED project
    PROVE  /\ \A f : Fits(f)' = Fits(f)
           /\ \A l : OfLanguage(l)' = OfLanguage(l)
           /\ \A l : FitsAll(l)' = FitsAll(l)
           /\ \A S : Best(S)' = Best(S)
           /\ UsedLanguages' = UsedLanguages
<1>1. \A f : Fits(f)' = Fits(f)
  BY DEF Fits, Available, Closure, ImportClosed, project
<1>2. \A l : OfLanguage(l)' = OfLanguage(l)
  BY DEF OfLanguage, project
<1>3. \A l : FitsAll(l)' = FitsAll(l)
  BY <1>1, <1>2 DEF FitsAll
<1>4. \A S : Best(S)' = Best(S)
  BY DEF Best, project
<1>5. UsedLanguages' = UsedLanguages
  BY DEF UsedLanguages, project
<1> QED
  BY <1>1, <1>2, <1>3, <1>4, <1>5

(* A settled language stays so while the versions of its files do. *)
LEMMA SettledStays ==
    ASSUME UNCHANGED project, NEW l, Settled(l), \A f \in OfLanguage(l) : version'[f] = version[f]
    PROVE  Settled(l)'
<1>1. /\ \A f : Fits(f)' = Fits(f)
      /\ OfLanguage(l)' = OfLanguage(l)
      /\ FitsAll(l)' = FitsAll(l)
      /\ Best(FitsAll(l))' = Best(FitsAll(l))
  <2>1. FitsAll(l)' = FitsAll(l)
    BY FitsStay
  <2>2. Best(FitsAll(l))' = Best(FitsAll(l))
    BY <2>1 DEF Best, project
  <2> QED
    BY <2>1, <2>2, FitsStay
<1> QED
  BY <1>1 DEF Settled

(* No step changes the versions of a language that is not at hand. *)
LEMMA OthersStaySettled ==
    ASSUME SelectionInv, [SelectionNext]_selectionVars, NEW l, Settled(l),
           AtLanguage => l # language
    PROVE  Settled(l)'
<1>1. UNCHANGED project
  BY ProjectStays
<1>2. /\ version \in [Elems(Inputs) -> Versions \cup {None}]
      /\ WalkInv /\ SelectionTypes
  BY DEF SelectionInv, SelectionTypes
<1>3. \A f \in OfLanguage(l) : version'[f] = version[f]
  <2> SUFFICES ASSUME NEW f \in OfLanguage(l) PROVE version'[f] = version[f]
    OBVIOUS
  <2>1. f \in Elems(Inputs) /\ lang[f] = l
    BY DEF OfLanguage
  <2>2. CASE UNCHANGED version
    BY <2>2
  <2>3. CASE Candidates
    <3>1. lang[File] = language /\ AtLanguage
      BY <2>3, <1>2, WalkedIsClosure DEF Candidates, AtFile, AtLanguage
    <3>2. f # File
      BY <2>1, <3>1
    <3> QED
      BY <2>1, <2>3, <3>2, <1>2 DEF Candidates
  <2>4. CASE OneForAll \/ NoneForAll \/ Spread
    <3>1. AtLanguage
      BY <2>4 DEF OneForAll, NoneForAll, Spread, AtLanguage
    <3>2. f \notin HaveCandidates
      BY <2>1, <3>1 DEF HaveCandidates, OfLanguage
    <3> QED
      BY <2>1, <2>4, <3>2, <1>2 DEF OneForAll, NoneForAll, Spread
  <2> QED
    BY <2>2, <2>3, <2>4
       DEF SelectionNext, selectionVars, BeginLanguage, OtherLanguage, StartWalk, VisitNode,
           NoCandidate, FilesDone, SpreadDone, EndLanguage, ChooseProfile, ProfilesDone, selected,
           BeginUnit, AddInput, InsertImport, EndUnit, UnitsDone
<1> QED
  BY <1>1, <1>3, SettledStays

LEMMA LanguagesStep == SelectionInv /\ [SelectionNext]_selectionVars => LanguagesInv'
<1> SUFFICES ASSUME SelectionInv, [SelectionNext]_selectionVars PROVE LanguagesInv'
  OBVIOUS
<1>1. LanguagesInv /\ LanguageInv /\ WalkInv
  BY DEF SelectionInv
<1>2. UsedLanguages' = UsedLanguages
  BY ProjectStays, FitsStay
<1>3. \A l : Settled(l) /\ (AtLanguage => l # language) => Settled(l)'
  BY OthersStaySettled
<1>4. ASSUME NEW l \in Languages, BeginLanguage(l) PROVE LanguagesInv'
  <2>1. /\ phase = "language" /\ ~AtLanguage /\ l \in waiting /\ waiting' = waiting \ {l}
        /\ language' = l /\ phase' \in {"failed", "files"}
    BY <1>4 DEF BeginLanguage, AtLanguage
  <2>2. \A k \in UsedLanguages \ waiting : Settled(k)'
    BY <2>1, <1>1, <1>3 DEF LanguagesInv
  <2>3. UsedLanguages' \ (waiting' \cup {language'}) \subseteq UsedLanguages \ waiting
    BY <2>1, <1>2
  <2> QED
    BY <2>1, <2>2, <2>3 DEF LanguagesInv, AtLanguage, Resolved
<1>5. ASSUME AtLanguage, AtLanguage', UNCHANGED <<waiting, language>>, errors \subseteq errors'
      PROVE  LanguagesInv'
  <2>1. errors' = {} => \A l \in UsedLanguages \ (waiting \cup {language}) : Settled(l)'
    BY <1>1, <1>3, <1>5 DEF LanguagesInv
  <2>2. language' \notin waiting'
    BY <1>1, <1>5 DEF LanguagesInv
  <2>3. phase' # "language" /\ ~(phase' \in {"profiles", "units", "done"})
    BY <1>5 DEF AtLanguage
  <2> QED
    BY <2>1, <2>2, <2>3, <1>2, <1>5 DEF LanguagesInv, Resolved
<1>6. ASSUME Resolved, phase' = "failed" \/ Resolved' PROVE LanguagesInv'
  <2>1. \A l \in UsedLanguages : Settled(l)'
    BY <1>1, <1>3, <1>6 DEF LanguagesInv, Resolved, AtLanguage
  <2> QED
    BY <2>1, <1>2, <1>6 DEF LanguagesInv, Resolved, AtLanguage
<1>7. CASE OtherLanguage \/ Candidates \/ NoCandidate
  BY <1>7, <1>5 DEF OtherLanguage, Candidates, NoCandidate, AtFile, AtLanguage
<1>8. CASE StartWalk \/ VisitNode
  BY <1>8, <1>5, <1>6 DEF StartWalk, VisitNode, AtFile, AtLanguage, Resolved
<1>9. CASE FilesDone \/ OneForAll \/ NoneForAll \/ Spread \/ SpreadDone
  BY <1>9, <1>5 DEF FilesDone, OneForAll, NoneForAll, Spread, SpreadDone, AtLanguage
<1>10. CASE EndLanguage
  <2>1. /\ phase = "chosen" /\ AtLanguage
        /\ errors' = errors /\ waiting' = waiting /\ language' = language /\ version' = version
        /\ phase' = IF errors # {} THEN "failed" ELSE IF waiting = {} THEN "profiles" ELSE "language"
    BY <1>10 DEF EndLanguage, AtLanguage
  <2>2. CASE errors # {}
    BY <2>1, <2>2 DEF LanguagesInv, AtLanguage, Resolved
  <2>3. CASE errors = {}
    <3>1. Settled(language)
      BY <2>1, <2>3, <1>1 DEF LanguageInv
    <3>2. \A l \in UsedLanguages \ waiting : Settled(l)'
      BY <2>1, <2>3, <3>1, <1>1, SettledStays, ProjectStays DEF LanguagesInv
    <3> QED
      BY <2>1, <2>3, <3>2, <1>2 DEF LanguagesInv, AtLanguage, Resolved
  <2> QED
    BY <2>2, <2>3
<1>11. CASE ChooseProfile \/ ProfilesDone \/ UnitsDone \/ AddInput \/ InsertImport \/ EndUnit
  BY <1>11, <1>6 DEF ChooseProfile, ProfilesDone, UnitsDone, AddInput, InsertImport, EndUnit,
                     Collecting, selected, Resolved
<1>12. ASSUME NEW u \in Units, BeginUnit(u) PROVE LanguagesInv'
  BY <1>12, <1>6 DEF BeginUnit, selected, Resolved
<1>13. CASE UNCHANGED selectionVars
  <2>1. UNCHANGED <<phase, errors, waiting, language, version>>
    BY <1>13 DEF selectionVars
  <2>2. \A l : Settled(l) => Settled(l)'
    BY <2>1, ProjectStays, SettledStays
  <2> QED
    BY <2>1, <2>2, <1>1, <1>2 DEF LanguagesInv, AtLanguage, Resolved
<1> QED
  BY <1>4, <1>7, <1>8, <1>9, <1>10, <1>11, <1>12, <1>13 DEF SelectionNext

(* The files of a language are listed; the list is passed when pos has left it. *)
LEMMA Passed ==
    ASSUME SelectionTypes, pos \notin DOMAIN Inputs, NEW f \in Elems(Inputs)
    PROVE  \E i \in DOMAIN Inputs : f = Inputs[i] /\ i < pos
<1>1. Inputs \in Seq(Elems(Inputs)) /\ pos \in Nat \ {0}
  BY InputsAndProfilesAreListed DEF SelectionTypes
<1>2. DOMAIN Inputs = 1 .. Len(Inputs) /\ Len(Inputs) \in Nat
  BY <1>1
<1>3. pos > Len(Inputs)
  BY <1>1, <1>2
<1>4. PICK i \in DOMAIN Inputs : f = Inputs[i]
  BY InputsAreFiles
<1>5. i < pos
  BY <1>1, <1>2, <1>3
<1> QED
  BY <1>4, <1>5

LEMMA BeforeNext ==
    ASSUME SelectionTypes, NEW i \in DOMAIN Inputs, i < pos + 1
    PROVE  i < pos \/ i = pos
<1>1. Inputs \in Seq(Elems(Inputs)) /\ pos \in Nat \ {0}
  BY InputsAndProfilesAreListed DEF SelectionTypes
<1>2. i \in Nat
  BY <1>1
<1> QED
  BY <1>1, <1>2

(* A file for which candidates are left can be compiled with these and no others. *)
LEMMA CandidatesFit ==
    ASSUME SelectionInv, Candidates
    PROVE  /\ File \in Elems(Inputs)
           /\ Fits(File) # {}
           /\ candidates' = [candidates EXCEPT ![File] = Fits(File)]
           /\ version' = [version EXCEPT ![File] = Best(Fits(File))]
<1> DEFINE ok == Retained(Available, nodes, requires, Len(nodes))
<1>1. SelectionTypes /\ WalkInv
  BY DEF SelectionInv
<1>2. nodes \in Seq(Files) /\ nodes # <<>>
  BY <1>1 DEF SelectionTypes, Candidates, Walked
<1>3. File \in Elems(Inputs) /\ Elems(nodes) = Closure({File})
  BY <1>1, WalkedIsClosure DEF Candidates, AtFile
<1>4. ok = {v \in Available : \A g \in Elems(nodes) : v \in requires[g]}
  BY <1>2, RetainedIsAllowed
<1>5. ok = Fits(File)
  BY <1>3, <1>4 DEF Fits
<1>6. ok # {}
  BY <1>2, FailsWhenNothingLeft DEF Candidates
<1> QED
  BY <1>3, <1>5, <1>6 DEF Candidates

(* When all files of a language were given the same version they are settled. *)
LEMMA OneVersionSettles ==
    ASSUME SelectionTypes,
           \A f \in OfLanguage(language) : Fits(f) # {} /\ version[f] = Best(Fits(f)),
           ~(Cardinality(InUse(OfLanguage(language))) > 1)
    PROVE  Settled(language)
<1> DEFINE F == OfLanguage(language)
           all == FitsAll(language)
<1>1. \A f \in F : Fits(f) \in SUBSET Versions /\ version[f] \in Fits(f)
  BY FitsAreVersions, BestIsMember
<1>2. None \notin Versions
  BY VersionsAreNumbers
<1>3. InUse(F) \subseteq Versions
  BY <1>1 DEF InUse
<1>4. IsFiniteSet(InUse(F))
  BY <1>3, VersionsAreFinite, FS_Subset
<1>5. \A f, g \in F : version[f] = version[g]
  <2> SUFFICES ASSUME NEW f \in F, NEW g \in F PROVE version[f] = version[g]
    OBVIOUS
  <2>1. version[f] \in InUse(F) /\ version[g] \in InUse(F)
    BY <1>1, <1>2 DEF InUse
  <2> QED
    BY <2>1, <1>4, AtMostOne
<1>6. ASSUME NEW f \in F
      PROVE  version[f] \in Fits(f) /\ (all # {} => version[f] = Best(all))
  <2>1. version[f] \in all
    BY <1>1, <1>5, <1>6 DEF FitsAll
  <2>2. all \in SUBSET Fits(f)
    BY <1>6 DEF FitsAll
  <2>3. version[f] = Best(Fits(f))
    BY <1>6
  <2>4. Best(all) = Best(Fits(f))
    <3> HIDE DEF all
    <3> QED
      BY <1>1, <1>6, <2>1, <2>2, <2>3, BestOfFewer
  <2> QED
    BY <1>1, <1>6, <2>3, <2>4
<1> QED
  BY <1>6 DEF Settled

LEMMA LanguageStep == SelectionInv /\ [SelectionNext]_selectionVars => LanguageInv'
<1> SUFFICES ASSUME SelectionInv, [SelectionNext]_selectionVars PROVE LanguageInv'
  OBVIOUS
<1>1. LanguageInv /\ WalkInv /\ SelectionTypes /\ LanguagesInv
  BY DEF SelectionInv
<1>2. /\ \A f : Fits(f)' = Fits(f)
      /\ \A f : HasFits(f)' <=> (candidates'[f] = Fits(f) /\ Fits(f) # {})
      /\ \A S : Best(S)' = Best(S)
      /\ lang' = lang
      /\ \A l : OfLanguage(l)' = OfLanguage(l)
  <2>1. \A f : Fits(f)' = Fits(f)
    BY ProjectStays, FitsStay
  <2> QED
    BY <2>1, ProjectStays, FitsStay DEF HasFits, project
<1>3. /\ candidates \in [Elems(Inputs) -> SUBSET Versions]
      /\ version \in [Elems(Inputs) -> Versions \cup {None}]
      /\ pos \in Nat \ {0}
  BY <1>1 DEF SelectionTypes
<1>4. ASSUME phase' \notin {"files", "choose", "spread", "chosen"} PROVE LanguageInv'
  BY <1>4 DEF LanguageInv
<1>5. ASSUME errors' # {} PROVE LanguageInv'
  BY <1>5 DEF LanguageInv
<1>6. ASSUME UNCHANGED <<phase, language, pos, candidates, version, errors>> PROVE LanguageInv'
  <2>1. Settled(language) => Settled(language)'
    <3>1. Settled(language)' = Settled(language)
      <4>1. FitsAll(language)' = FitsAll(language)
        BY <1>2, <1>6 DEF FitsAll
      <4>2. OfLanguage(language)' = OfLanguage(language)
        BY <1>2, <1>6
      <4>3. Best(FitsAll(language))' = Best(FitsAll(language))
        BY <4>1, ProjectStays DEF Best, project
      <4> QED
        BY <4>1, <4>2, <4>3, <1>2, <1>6 DEF Settled
    <3> QED
      BY <3>1
  <2>2. FitsAll(language)' = FitsAll(language) /\ OfLanguage(language)' = OfLanguage(language)
    BY <1>2, <1>6 DEF FitsAll
  <2>3. \A f : Best(Fits(f))' = Best(Fits(f)) /\ (HasFits(f)' <=> HasFits(f))
    BY <1>2, <1>6, ProjectStays DEF Best, project, HasFits
  <2> QED
    BY <2>1, <2>2, <2>3, <1>1, <1>2, <1>6 DEF LanguageInv
<1>7. ASSUME NEW l \in Languages, BeginLanguage(l) PROVE LanguageInv'
  <2>1. pos' = 1 /\ phase' \in {"files", "failed"}
    BY <1>7 DEF BeginLanguage
  <2>2. \A i \in DOMAIN Inputs : ~(i < 1)
    BY InputsAndProfilesAreListed
  <2> QED
    BY <2>1, <2>2 DEF LanguageInv
<1>8. CASE OtherLanguage
  <2>1. /\ phase = "files" /\ phase' = phase /\ pos \in DOMAIN Inputs /\ pos' = pos + 1
        /\ lang[Inputs[pos]] # language
        /\ UNCHANGED <<language, candidates, version, errors>>
    BY <1>8 DEF OtherLanguage, AtFile, File
  <2>2. errors = {} =>
            \A i \in DOMAIN Inputs :
                i < pos /\ lang[Inputs[i]] = language =>
                    HasFits(Inputs[i]) /\ version[Inputs[i]] = Best(Fits(Inputs[i]))
    BY <2>1, <1>1 DEF LanguageInv
  <2>3. \A i \in DOMAIN Inputs : i < pos + 1 => i < pos \/ i = pos
    BY <1>1, BeforeNext
  <2>4. errors' = {} =>
            \A i \in DOMAIN Inputs :
                i < pos' /\ lang'[Inputs[i]] = language' =>
                    /\ candidates'[Inputs[i]] = Fits(Inputs[i]) /\ Fits(Inputs[i]) # {}
                    /\ version'[Inputs[i]] = Best(Fits(Inputs[i]))
    BY <2>1, <2>2, <2>3, <1>2 DEF HasFits
  <2>5. \A f : Best(Fits(f))' = Best(Fits(f))
    BY <1>2, ProjectStays DEF Best, project
  <2> QED
    BY <2>1, <2>4, <2>5, <1>2 DEF LanguageInv
<1>9. CASE Candidates
  <2>1. /\ phase = "files" /\ phase' = phase /\ pos \in DOMAIN Inputs /\ pos' = pos + 1
        /\ UNCHANGED <<language, errors>>
    BY <1>9 DEF Candidates, AtFile
  <2>2. errors = {} =>
            \A i \in DOMAIN Inputs :
                i < pos /\ lang[Inputs[i]] = language =>
                    HasFits(Inputs[i]) /\ version[Inputs[i]] = Best(Fits(Inputs[i]))
    BY <2>1, <1>1 DEF LanguageInv
  <2>3. \A i \in DOMAIN Inputs : i < pos + 1 => i < pos \/ i = pos
    BY <1>1, BeforeNext
  <2>4. /\ File = Inputs[pos] /\ File \in Elems(Inputs)
        /\ Fits(File) # {}
        /\ candidates' = [candidates EXCEPT ![File] = Fits(File)]
        /\ version' = [version EXCEPT ![File] = Best(Fits(File))]
    BY <1>9, CandidatesFit DEF File
  <2>5. errors' = {} =>
            \A i \in DOMAIN Inputs :
                i < pos' /\ lang'[Inputs[i]] = language' =>
                    /\ candidates'[Inputs[i]] = Fits(Inputs[i]) /\ Fits(Inputs[i]) # {}
                    /\ version'[Inputs[i]] = Best(Fits(Inputs[i]))
    <3> SUFFICES ASSUME errors' = {}, NEW i \in DOMAIN Inputs, i < pos',
                        lang'[Inputs[i]] = language'
                 PROVE  /\ candidates'[Inputs[i]] = Fits(Inputs[i]) /\ Fits(Inputs[i]) # {}
                        /\ version'[Inputs[i]] = Best(Fits(Inputs[i]))
      OBVIOUS
    <3>1. Inputs[i] \in Elems(Inputs)
      BY InputsAreFiles
    <3>2. CASE Inputs[i] = File
      BY <3>1, <3>2, <2>4, <1>3
    <3>3. CASE Inputs[i] # File
      <4>1. i < pos /\ lang[Inputs[i]] = language /\ errors = {}
        BY <3>3, <2>1, <2>3, <2>4, <1>2
      <4> QED
        BY <3>1, <3>3, <4>1, <2>2, <2>4, <1>3 DEF HasFits
    <3> QED
      BY <3>2, <3>3
  <2>6. \A f : Best(Fits(f))' = Best(Fits(f))
    BY <1>2, ProjectStays DEF Best, project
  <2> QED
    BY <2>1, <2>5, <2>6, <1>2 DEF LanguageInv
<1>10. CASE NoCandidate
  BY <1>10, <1>5 DEF NoCandidate
<1>11. CASE FilesDone
  <2>1. /\ phase = "files" /\ pos \notin DOMAIN Inputs
        /\ UNCHANGED <<language, candidates, version, errors>>
        /\ phase' = IF Cardinality(InUse(OfLanguage(language))) > 1 THEN "choose" ELSE "chosen"
    BY <1>11 DEF FilesDone
  <2>2. CASE errors # {}
    BY <2>1, <2>2, <1>5
  <2>3. CASE errors = {}
    <3>1. \A f \in OfLanguage(language) : HasFits(f) /\ version[f] = Best(Fits(f))
      <4> SUFFICES ASSUME NEW f \in OfLanguage(language)
                   PROVE  HasFits(f) /\ version[f] = Best(Fits(f))
        OBVIOUS
      <4>1. f \in Elems(Inputs) /\ lang[f] = language
        BY DEF OfLanguage
      <4>2. PICK i \in DOMAIN Inputs : f = Inputs[i] /\ i < pos
        BY <4>1, <2>1, <1>1, Passed
      <4> QED
        BY <4>1, <4>2, <2>1, <2>3, <1>1 DEF LanguageInv
    <3>2. CASE Cardinality(InUse(OfLanguage(language))) > 1
      <4>1. phase' = "choose"
        BY <2>1, <3>2
      <4>2. OfLanguage(language)' = OfLanguage(language)
        BY <2>1, <1>2
      <4>3. \A f \in OfLanguage(language) : HasFits(f)'
        BY <3>1, <2>1, <1>2 DEF HasFits
      <4> QED
        BY <4>1, <4>2, <4>3 DEF LanguageInv
    <3>3. CASE ~(Cardinality(InUse(OfLanguage(language))) > 1)
      <4>1. phase' = "chosen"
        BY <2>1, <3>3
      <4>2. Settled(language)
        BY <3>1, <3>3, <1>1, OneVersionSettles DEF HasFits
      <4>3. Settled(language)' = Settled(language)
        <5>1. FitsAll(language)' = FitsAll(language)
          BY <1>2, <2>1 DEF FitsAll
        <5>2. OfLanguage(language)' = OfLanguage(language)
          BY <1>2, <2>1
        <5>3. Best(FitsAll(language))' = Best(FitsAll(language))
          BY <5>1, ProjectStays DEF Best, project
        <5> QED
          BY <5>1, <5>2, <5>3, <1>2, <2>1 DEF Settled
      <4> QED
        BY <4>1, <4>2, <4>3 DEF LanguageInv
    <3> QED
      BY <3>2, <3>3
  <2> QED
    BY <2>2, <2>3
<1>12. ASSUME errors = {}, phase \in {"choose", "spread"}
       PROVE  /\ HaveCandidates = OfLanguage(language)
              /\ \A f \in OfLanguage(language) : HasFits(f) /\ f \in Elems(Inputs)
  BY <1>12, <1>1 DEF LanguageInv, HasFits, HaveCandidates, OfLanguage
<1>13. CASE OneForAll
  <2>1. /\ phase = "choose" /\ phase' = "chosen" /\ Common # {}
        /\ UNCHANGED <<language, errors>>
        /\ version' = [f \in Elems(Inputs) |->
                          IF f \in HaveCandidates THEN Best(Common) ELSE version[f]]
    BY <1>13 DEF OneForAll
  <2>2. CASE errors # {}
    BY <2>1, <2>2, <1>5
  <2>3. CASE errors = {}
    <3>1. /\ HaveCandidates = OfLanguage(language)
          /\ \A f \in OfLanguage(language) : HasFits(f) /\ f \in Elems(Inputs)
      BY <2>1, <2>3, <1>12
    <3>2. Common = FitsAll(language)
      BY <3>1 DEF Common, FitsAll, HasFits
    <3>3. Best(Common) \in Common
      BY <2>1, BestIsMember DEF Common
    <3>4. \A f \in OfLanguage(language) :
              version'[f] = Best(FitsAll(language)) /\ version'[f] \in Fits(f)
      BY <2>1, <3>1, <3>2, <3>3 DEF FitsAll
    <3>5. FitsAll(language)' = FitsAll(language) /\ OfLanguage(language)' = OfLanguage(language)
      BY <1>2, <2>1 DEF FitsAll
    <3>6. Best(FitsAll(language))' = Best(FitsAll(language))
      BY <3>5, ProjectStays DEF Best, project
    <3>7. Settled(language)'
      BY <3>4, <3>5, <3>6, <1>2 DEF Settled
    <3> QED
      BY <2>1, <3>7 DEF LanguageInv
  <2> QED
    BY <2>2, <2>3
<1>14. CASE NoneForAll
  <2>1. /\ phase = "choose" /\ phase' = "spread" /\ Common = {} /\ pos' = 1
        /\ UNCHANGED <<language, errors, candidates>>
        /\ version' = [f \in Elems(Inputs) |->
                          IF f \in HaveCandidates THEN None ELSE version[f]]
    BY <1>14 DEF NoneForAll
  <2>2. CASE errors # {}
    BY <2>1, <2>2, <1>5
  <2>3. CASE errors = {}
    <3>1. /\ HaveCandidates = OfLanguage(language)
          /\ \A f \in OfLanguage(language) : HasFits(f) /\ f \in Elems(Inputs)
      BY <2>1, <2>3, <1>12
    <3>2. FitsAll(language) = {}
      BY <2>1, <3>1 DEF Common, FitsAll, HasFits
    <3>3. \A f \in OfLanguage(language) : version'[f] = None /\ HasFits(f)'
      BY <2>1, <3>1, <1>2 DEF HasFits
    <3>4. FitsAll(language)' = FitsAll(language) /\ OfLanguage(language)' = OfLanguage(language)
      BY <1>2, <2>1 DEF FitsAll
    <3>5. \A i \in DOMAIN Inputs : ~(i < 1)
      BY InputsAndProfilesAreListed
    <3> QED
      BY <2>1, <3>2, <3>3, <3>4, <3>5, <1>2 DEF LanguageInv
  <2> QED
    BY <2>2, <2>3
<1>15. CASE Spread
  <2>1. /\ phase = "spread" /\ phase' = phase /\ pos \in DOMAIN Inputs /\ pos' = pos + 1
        /\ UNCHANGED <<language, errors, candidates>>
    BY <1>15 DEF Spread
  <2>2. CASE errors # {}
    BY <2>1, <2>2, <1>5
  <2>3. CASE errors = {}
    <3> DEFINE again == candidates[File] \cap InUse(HaveCandidates)
               v == IF again # {} THEN LastOf(again) ELSE Best(candidates[File])
    <3>1. /\ HaveCandidates = OfLanguage(language)
          /\ \A f \in OfLanguage(language) : HasFits(f) /\ f \in Elems(Inputs)
      BY <2>1, <2>3, <1>12
    <3>2. /\ FitsAll(language) = {}
          /\ \A f \in OfLanguage(language) : version[f] \in Fits(f) \cup {None}
          /\ \A i \in DOMAIN Inputs :
                 i < pos /\ lang[Inputs[i]] = language => version[Inputs[i]] \in Fits(Inputs[i])
      BY <2>1, <2>3, <1>1 DEF LanguageInv
    <3>3. File = Inputs[pos] /\ File \in Elems(Inputs)
      BY <2>1, InputsAreFiles DEF File
    <3>4. version' = IF File \in OfLanguage(language) THEN [version EXCEPT ![File] = v]
                     ELSE version
      BY <1>15, <3>1 DEF Spread
    <3>5. File \in OfLanguage(language) => v \in Fits(File)
      <4> SUFFICES ASSUME File \in OfLanguage(language) PROVE v \in Fits(File)
        OBVIOUS
      <4>1. candidates[File] = Fits(File) /\ Fits(File) # {} /\ Fits(File) \in SUBSET Versions
        BY <3>1, <1>1, FitsAreVersions DEF HasFits
      <4>2. again \in SUBSET Fits(File) /\ again \in SUBSET Versions
        BY <4>1
      <4>3. again # {} => LastOf(again) \in again
        <5> HIDE DEF again
        <5> QED
          BY <4>2, LastIsMember
      <4>4. Best(candidates[File]) \in Fits(File)
        BY <4>1, BestIsMember
      <4> HIDE DEF again
      <4> QED
        BY <4>2, <4>3, <4>4
    <3> HIDE DEF v, again
    <3>6. \A f \in OfLanguage(language) : version'[f] \in Fits(f) \cup {None}
      BY <3>1, <3>2, <3>3, <3>4, <3>5, <1>3
    <3>7. ASSUME NEW i \in DOMAIN Inputs, i < pos + 1, lang[Inputs[i]] = language
          PROVE  version'[Inputs[i]] \in Fits(Inputs[i])
      <4>1. Inputs[i] \in Elems(Inputs) /\ Inputs[i] \in OfLanguage(language)
        BY <3>7, InputsAreFiles DEF OfLanguage
      <4>2. CASE Inputs[i] = File
        BY <4>1, <4>2, <3>4, <3>5, <1>3
      <4>3. CASE Inputs[i] # File
        <5>1. i < pos
          BY <4>3, <3>3, <3>7, <1>1, BeforeNext
        <5> QED
          BY <5>1, <4>1, <4>3, <3>2, <3>4, <3>7, <1>3
      <4> QED
        BY <4>2, <4>3
    <3>8. FitsAll(language)' = FitsAll(language) /\ OfLanguage(language)' = OfLanguage(language)
      BY <1>2, <2>1 DEF FitsAll
    <3>9. \A f \in OfLanguage(language) : HasFits(f)'
      BY <3>1, <2>1, <1>2 DEF HasFits
    <3> QED
      BY <2>1, <3>2, <3>6, <3>7, <3>8, <3>9, <1>2 DEF LanguageInv
  <2> QED
    BY <2>2, <2>3
<1>16. CASE SpreadDone
  <2>1. /\ phase = "spread" /\ phase' = "chosen" /\ pos \notin DOMAIN Inputs
        /\ UNCHANGED <<language, errors, version>>
    BY <1>16 DEF SpreadDone
  <2>2. CASE errors # {}
    BY <2>1, <2>2, <1>5
  <2>3. CASE errors = {}
    <3>1. FitsAll(language) = {}
      BY <2>1, <2>3, <1>1 DEF LanguageInv
    <3>2. \A f \in OfLanguage(language) : version[f] \in Fits(f)
      <4> SUFFICES ASSUME NEW f \in OfLanguage(language) PROVE version[f] \in Fits(f)
        OBVIOUS
      <4>1. f \in Elems(Inputs) /\ lang[f] = language
        BY DEF OfLanguage
      <4>2. PICK i \in DOMAIN Inputs : f = Inputs[i] /\ i < pos
        BY <4>1, <2>1, <1>1, Passed
      <4> QED
        BY <4>1, <4>2, <2>1, <2>3, <1>1 DEF LanguageInv
    <3>3. FitsAll(language)' = FitsAll(language) /\ OfLanguage(language)' = OfLanguage(language)
      BY <1>2, <2>1 DEF FitsAll
    <3>4. Settled(language)'
      BY <3>1, <3>2, <3>3, <2>1, <1>2 DEF Settled
    <3> QED
      BY <2>1, <3>4 DEF LanguageInv
  <2> QED
    BY <2>2, <2>3
<1>17. CASE EndLanguage \/ ChooseProfile \/ ProfilesDone \/ UnitsDone
  BY <1>17, <1>4 DEF EndLanguage, ChooseProfile, ProfilesDone, UnitsDone
<1>18. CASE AddInput \/ InsertImport \/ EndUnit
  BY <1>18, <1>4 DEF AddInput, InsertImport, EndUnit, Collecting, selected
<1>19. ASSUME NEW u \in Units, BeginUnit(u) PROVE LanguageInv'
  BY <1>19, <1>4 DEF BeginUnit, selected
<1>20. CASE StartWalk \/ VisitNode
  BY <1>20, <1>6 DEF StartWalk, VisitNode
<1>21. CASE UNCHANGED selectionVars
  BY <1>21, <1>6 DEF selectionVars
<1> QED
  BY <1>7, <1>8, <1>9, <1>10, <1>11, <1>13, <1>14, <1>15, <1>16, <1>17, <1>18, <1>19, <1>20, <1>21
     DEF SelectionNext

-----------------------------------------------------------------------------
(* Profiles.                                                                   *)

LEMMA ProfilesStep == SelectionInv /\ [SelectionNext]_selectionVars => ProfilesInv'
<1> SUFFICES ASSUME SelectionInv, [SelectionNext]_selectionVars PROVE ProfilesInv'
  OBVIOUS
<1>1. ProfilesInv /\ WalkInv /\ SelectionTypes
  BY DEF SelectionInv
<1>2. \A f : Suits(f)' = Suits(f)
  BY ProjectStays DEF Suits, Closure, ImportClosed, project
<1>3. \A f : (HasFirst(f)' <=> (profile'[f] \in Suits(f) /\ \A p \in Suits(f) : profile'[f] <= p))
  BY <1>2 DEF HasFirst
<1>4. profile \in [Elems(Inputs) -> DOMAIN Profiles \cup {None}]
  BY <1>1 DEF SelectionTypes
<1>5. ASSUME phase' \notin {"profiles", "units", "done"} PROVE ProfilesInv'
  BY <1>5 DEF ProfilesInv
<1>6. ASSUME UNCHANGED <<phase, pos, profile, errors>> PROVE ProfilesInv'
  <2>1. \A f : HasFirst(f)' <=> HasFirst(f)
    BY <1>3, <1>6 DEF HasFirst
  <2> QED
    BY <2>1, <1>1, <1>6 DEF ProfilesInv
<1>7. ASSUME phase \in {"units", "done"}, phase' \in {"units", "done"}, profile' = profile
      PROVE  ProfilesInv'
  <2>1. \A f : HasFirst(f)' <=> HasFirst(f)
    BY <1>3, <1>7 DEF HasFirst
  <2> QED
    BY <2>1, <1>1, <1>7 DEF ProfilesInv
<1>8. CASE EndLanguage
  <2>1. pos' = 1 /\ phase' \in {"failed", "profiles", "language"}
    BY <1>8 DEF EndLanguage
  <2>2. \A i \in DOMAIN Inputs : ~(i < 1)
    BY InputsAndProfilesAreListed
  <2> QED
    BY <2>1, <2>2 DEF ProfilesInv
<1>9. CASE ChooseProfile
  <2> DEFINE left == Retained(DOMAIN Profiles, nodes, allows, Len(nodes))
  <2>1. /\ phase = "profiles" /\ phase' = phase /\ pos \in DOMAIN Inputs /\ pos' = pos + 1
        /\ Walked
        /\ left = {} => errors' # {} /\ profile' = profile
        /\ left # {} => errors' = errors /\ profile' = [profile EXCEPT ![File] = Least(left)]
    BY <1>9 DEF ChooseProfile
  <2>2. nodes \in Seq(Files)
    BY <1>1 DEF SelectionTypes
  <2>3. /\ File = Inputs[pos] /\ File \in Elems(Inputs) /\ Elems(nodes) = Closure({File})
    BY <2>1, <1>1, WalkedIsClosure DEF File
  <2>4. left = {p \in DOMAIN Profiles : \A g \in Elems(nodes) : p \in allows[g]}
    BY <2>2, RetainedIsAllowed
  <2>5. left = Suits(File)
    BY <2>3, <2>4 DEF Suits
  <2>6. left \in SUBSET Nat
    BY <2>4, InputsAndProfilesAreListed
  <2>7. \A i \in DOMAIN Inputs : i < pos + 1 => i < pos \/ i = pos
    BY <1>1, BeforeNext
  <2> HIDE DEF left
  <2>8. CASE left = {}
    BY <2>1, <2>8 DEF ProfilesInv
  <2>9. CASE left # {}
    <3>1. Least(left) \in Suits(File) /\ \A p \in Suits(File) : Least(left) <= p
      BY <2>5, <2>6, <2>9, LeastExists
    <3>2. errors' = errors /\ profile' = [profile EXCEPT ![File] = Least(left)]
      BY <2>1, <2>9
    <3>3. ASSUME errors = {}, NEW i \in DOMAIN Inputs, i < pos + 1
          PROVE  HasFirst(Inputs[i])'
      <4>1. Inputs[i] \in Elems(Inputs)
        BY InputsAreFiles
      <4>2. CASE Inputs[i] = File
        BY <4>1, <4>2, <3>1, <3>2, <1>3, <1>4
      <4>3. CASE Inputs[i] # File
        <5>1. i < pos
          BY <4>3, <2>3, <2>7, <3>3
        <5>2. HasFirst(Inputs[i])
          BY <5>1, <3>3, <2>1, <1>1 DEF ProfilesInv
        <5>3. profile'[Inputs[i]] = profile[Inputs[i]]
          BY <4>1, <4>3, <3>2, <1>4
        <5> QED
          BY <5>2, <5>3, <1>3 DEF HasFirst
      <4> QED
        BY <4>2, <4>3
    <3> QED
      BY <2>1, <3>2, <3>3 DEF ProfilesInv
  <2> QED
    BY <2>8, <2>9
<1>10. CASE ProfilesDone
  <2>1. /\ phase = "profiles" /\ pos \notin DOMAIN Inputs
        /\ phase' = IF errors # {} THEN "failed" ELSE "units"
        /\ profile' = profile
    BY <1>10 DEF ProfilesDone
  <2>2. CASE errors # {}
    BY <2>1, <2>2 DEF ProfilesInv
  <2>3. CASE errors = {}
    <3>1. \A f \in Elems(Inputs) : HasFirst(f)
      <4> SUFFICES ASSUME NEW f \in Elems(Inputs) PROVE HasFirst(f)
        OBVIOUS
      <4>1. PICK i \in DOMAIN Inputs : f = Inputs[i] /\ i < pos
        BY <2>1, <1>1, Passed
      <4> QED
        BY <4>1, <2>1, <2>3, <1>1 DEF ProfilesInv
    <3>2. \A f \in Elems(Inputs) : HasFirst(f)'
      BY <3>1, <2>1, <1>3 DEF HasFirst
    <3> QED
      BY <2>1, <2>3, <3>2 DEF ProfilesInv
  <2> QED
    BY <2>2, <2>3
<1>11. CASE AddInput \/ InsertImport \/ EndUnit \/ UnitsDone
  BY <1>11, <1>7 DEF AddInput, InsertImport, EndUnit, UnitsDone, Collecting, selected
<1>12. ASSUME NEW u \in Units, BeginUnit(u) PROVE ProfilesInv'
  BY <1>12, <1>7 DEF BeginUnit, selected
<1>13. CASE StartWalk \/ VisitNode \/ UNCHANGED selectionVars
  BY <1>13, <1>6 DEF StartWalk, VisitNode, selectionVars
<1>14. ASSUME NEW l \in Languages, BeginLanguage(l) PROVE ProfilesInv'
  BY <1>14, <1>5 DEF BeginLanguage
<1>15. CASE OtherLanguage \/ Candidates \/ NoCandidate \/ FilesDone
  BY <1>15, <1>5 DEF OtherLanguage, Candidates, NoCandidate, FilesDone, AtFile
<1>16. CASE OneForAll \/ NoneForAll \/ Spread \/ SpreadDone
  BY <1>16, <1>5 DEF OneForAll, NoneForAll, Spread, SpreadDone
<1> QED
  BY <1>8, <1>9, <1>10, <1>11, <1>12, <1>13, <1>14, <1>15, <1>16 DEF SelectionNext

-----------------------------------------------------------------------------
(* Units.                                                                      *)

LEMMA MembersAreInputs == \A u : Members(u) \subseteq Elems(Inputs) /\ Members(u) \subseteq Files
  BY InputsAreFiles DEF Members

(* The files of a unit and what they reach are the same while units are collected. *)
LEMMA UnitsStay ==
    ASSUME UNCHANGED <<project, version, profile>>
    PROVE  \A u : Members(u)' = Members(u) /\ Closure(Members(u))' = Closure(Members(u))
<1>1. \A u : Members(u)' = Members(u)
  BY DEF Members, UnitOf, project
<1> QED
  BY <1>1 DEF Closure, ImportClosed, project

LEMMA CompiledStep == SelectionInv /\ [SelectionNext]_selectionVars => CompiledInv'
<1> SUFFICES ASSUME SelectionInv, [SelectionNext]_selectionVars PROVE CompiledInv'
  OBVIOUS
<1>1. CompiledInv /\ UnitInv /\ SelectionTypes
  BY DEF SelectionInv
<1>2. ASSUME phase \notin {"units", "done"}, phase' # "done", UNCHANGED unitVars,
             phase' = "units" => queue' = <<>>
      PROVE  CompiledInv'
  <2>1. unit = None /\ \A u \in Units : compiled[u] = {}
    BY <1>1, <1>2 DEF CompiledInv
  <2>2. unit' = unit /\ compiled' = compiled
    BY <1>2 DEF unitVars
  <2> QED
    BY <2>1, <2>2, <1>2 DEF CompiledInv
<1>3. ASSUME NEW l \in Languages, BeginLanguage(l) PROVE CompiledInv'
  BY <1>3, <1>2 DEF BeginLanguage
<1>4. CASE OtherLanguage \/ StartWalk \/ VisitNode \/ Candidates \/ NoCandidate \/ FilesDone
  BY <1>4, <1>2 DEF OtherLanguage, StartWalk, VisitNode, Candidates, NoCandidate, FilesDone, AtFile
<1>5. CASE OneForAll \/ NoneForAll \/ Spread \/ SpreadDone \/ EndLanguage \/ ChooseProfile
  BY <1>5, <1>2 DEF OneForAll, NoneForAll, Spread, SpreadDone, EndLanguage, ChooseProfile
<1>6. CASE ProfilesDone
  <2>1. queue = <<>>
    BY <1>6 DEF SelectionInv, WalkInv, ProfilesDone
  <2> QED
    BY <2>1, <1>6, <1>2 DEF ProfilesDone, walk
<1>7. ASSUME phase = "units", UNCHANGED <<project, version, profile>>
      PROVE  /\ \A u \in Units :
                    ~(unit # None /\ u = unit) => compiled[u] \in {{}, Closure(Members(u))}
             /\ \A u : Closure(Members(u))' = Closure(Members(u))
             /\ \A u : Members(u)' = Members(u)
  BY <1>1, <1>7, UnitsStay DEF CompiledInv, Collecting
<1>8. ASSUME NEW u \in Units, BeginUnit(u) PROVE CompiledInv'
  <2>1. /\ phase = "units" /\ phase' = "units" /\ unit = None /\ unit' = u
        /\ UNCHANGED <<project, version, profile>> /\ compiled' = compiled /\ compiled[u] = {}
        /\ queue' = queue
    BY <1>8 DEF BeginUnit, selected
  <2>2. queue = <<>>
    BY <2>1, <1>1 DEF CompiledInv
  <2>3. \A w \in Units : compiled[w] \in {{}, Closure(Members(w))}
    BY <2>1, <1>7
  <2> QED
    BY <2>1, <2>2, <2>3, <1>7 DEF CompiledInv
<1>9. CASE AddInput \/ InsertImport
  <2>1. /\ phase = "units" /\ phase' = "units" /\ unit # None /\ unit' = unit
        /\ UNCHANGED <<project, version, profile>>
        /\ \E S : compiled' = compiled \/ compiled' = [compiled EXCEPT ![unit] = S]
    BY <1>9 DEF AddInput, InsertImport, Collecting, selected
  <2>2. \A u \in Units \ {unit} : compiled'[u] = compiled[u]
    BY <2>1, <1>1 DEF SelectionTypes
  <2> QED
    BY <2>1, <2>2, <1>7 DEF CompiledInv, Collecting
<1>10. CASE EndUnit
  <2>1. /\ phase = "units" /\ phase' = "units" /\ unit # None /\ unit' = None
        /\ UNCHANGED <<project, version, profile, queue, processed, compiled>>
        /\ queue = <<>> /\ pos \notin DOMAIN Inputs
    BY <1>10 DEF EndUnit, Collecting, selected
  <2>2. /\ unit \in Units
        /\ processed = Members(unit) \cup compiled[unit]
        /\ processed \subseteq Closure(Members(unit))
        /\ \A i \in DOMAIN Inputs :
               i < pos /\ Inputs[i] \in Members(unit) => Inputs[i] \in compiled[unit]
        /\ \A g \in compiled[unit] : Elems(imports[g]) \subseteq processed
    BY <2>1, <1>1, NothingListed DEF UnitInv, Collecting
  <2>3. Members(unit) \subseteq compiled[unit]
    <3> SUFFICES ASSUME NEW f \in Members(unit) PROVE f \in compiled[unit]
      OBVIOUS
    <3>1. PICK i \in DOMAIN Inputs : f = Inputs[i] /\ i < pos
      BY <2>1, <1>1, Passed, MembersAreInputs
    <3> QED
      BY <3>1, <2>2
  <2>4. compiled[unit] \in SUBSET Files
    BY <2>2, <1>1 DEF SelectionTypes
  <2>5. Closure(Members(unit)) \subseteq compiled[unit]
    BY <2>2, <2>3, <2>4, ClosureIsLeast
  <2>6. compiled[unit] = Closure(Members(unit))
    BY <2>2, <2>5
  <2>7. \A u \in Units : compiled[u] \in {{}, Closure(Members(u))}
    BY <2>1, <2>6, <1>7
  <2> QED
    BY <2>1, <2>7, <1>7 DEF CompiledInv
<1>11. CASE UnitsDone
  <2>1. /\ phase = "units" /\ phase' = "done" /\ unit = None /\ unit' = unit
        /\ UNCHANGED <<project, version, profile, compiled>>
        /\ \A u \in Units : Members(u) # {} => compiled[u] # {}
    BY <1>11 DEF UnitsDone, unitVars
  <2> QED
    BY <2>1, <1>7 DEF CompiledInv
<1>12. CASE UNCHANGED selectionVars
  <2>1. UNCHANGED <<phase, project, version, profile, unit, compiled, queue>>
    BY <1>12 DEF selectionVars, unitVars, walk
  <2>2. \A u : Members(u)' = Members(u) /\ Closure(Members(u))' = Closure(Members(u))
    BY <2>1, UnitsStay
  <2> QED
    BY <2>1, <2>2, <1>1 DEF CompiledInv, Collecting
<1> QED
  BY <1>3, <1>4, <1>5, <1>6, <1>8, <1>9, <1>10, <1>11, <1>12 DEF SelectionNext

LEMMA UnitStep == SelectionInv /\ [SelectionNext]_selectionVars => UnitInv'
<1> SUFFICES ASSUME SelectionInv, [SelectionNext]_selectionVars PROVE UnitInv'
  OBVIOUS
<1>1. CompiledInv /\ UnitInv /\ SelectionTypes
  BY DEF SelectionInv
<1>2. ASSUME phase' # "units" \/ unit' = None PROVE UnitInv'
  BY <1>2 DEF UnitInv, Collecting
<1>3. ASSUME UNCHANGED <<project, version, profile>>
      PROVE  \A u : Members(u)' = Members(u) /\ Closure(Members(u))' = Closure(Members(u))
  BY <1>3, UnitsStay
<1>4. compiled \in [Units -> SUBSET Files] /\ queue \in Seq(Files)
  BY <1>1 DEF SelectionTypes
<1>5. ASSUME Collecting
      PROVE  /\ unit \in Units
             /\ processed = Members(unit) \cup compiled[unit]
             /\ processed \cup Elems(queue) \subseteq Closure(Members(unit))
             /\ \A i \in DOMAIN Inputs :
                    i < pos /\ Inputs[i] \in Members(unit) => Inputs[i] \in compiled[unit]
             /\ \A g \in compiled[unit] : Elems(imports[g]) \subseteq processed \cup Elems(queue)
             /\ Members(unit) \in SUBSET Files
             /\ \A g \in Closure(Members(unit)) :
                    g \in Files /\ Elems(imports[g]) \subseteq Closure(Members(unit))
             /\ \A g \in Files : imports[g] \in Seq(Files)
  <2>1. Members(unit) \in SUBSET Files
    BY MembersAreInputs
  <2>2. imports \in [Files -> Seq(Files)]
    BY <1>1 DEF SelectionTypes
  <2>3. \A g \in Closure(Members(unit)) :
            g \in Files /\ Elems(imports[g]) \subseteq Closure(Members(unit))
    BY <2>1, <2>2, ClosureHolds, ClosureIsClosed
  <2> QED
    BY <2>1, <2>2, <2>3, <1>1, <1>5 DEF UnitInv
<1>6. ASSUME NEW u \in Units, BeginUnit(u) PROVE UnitInv'
  <2>1. /\ phase = "units" /\ unit = None /\ unit' = u
        /\ UNCHANGED <<project, version, profile, compiled, queue>> /\ compiled[u] = {}
        /\ processed' = Members(u) /\ pos' = 1
    BY <1>6 DEF BeginUnit, selected
  <2>2. queue = <<>>
    BY <2>1, <1>1 DEF CompiledInv
  <2>3. Members(u)' = Members(u) /\ Closure(Members(u))' = Closure(Members(u))
    BY <2>1, <1>3
  <2>4. Members(unit)' = Members(u) /\ Closure(Members(unit))' = Closure(Members(u))
    <3>1. Members(unit)' = Members(u)
      BY <2>1 DEF Members, UnitOf, project
    <3> QED
      BY <3>1, <2>1 DEF Closure, ImportClosed, project
  <2>5. Members(u) \subseteq Closure(Members(u))
    BY MembersAreInputs, ClosureHolds
  <2>6. Elems(queue') = {}
    BY <2>1, <2>2, NothingListed
  <2>7. \A i \in DOMAIN Inputs : ~(i < 1)
    BY InputsAndProfilesAreListed
  <2> QED
    BY <2>1, <2>4, <2>5, <2>6, <2>7 DEF UnitInv
<1>7. ASSUME Collecting, UNCHANGED <<project, version, profile, unit>>
      PROVE  Members(unit)' = Members(unit) /\ Closure(Members(unit))' = Closure(Members(unit))
  <2>1. Members(unit)' = Members(unit)
    BY <1>7 DEF Members, UnitOf, project
  <2> QED
    BY <2>1, <1>7 DEF Closure, ImportClosed, project
<1>8. CASE AddInput
  <2>1. /\ Collecting /\ queue = <<>> /\ pos \in DOMAIN Inputs /\ pos' = pos + 1
        /\ UNCHANGED <<project, version, profile, unit, processed>>
        /\ imports' = imports
        /\ File = Inputs[pos]
    BY <1>8 DEF AddInput, selected, project, File
  <2>2. Elems(queue) = {}
    BY <2>1, NothingListed
  <2>3. \A i \in DOMAIN Inputs : i < pos + 1 => i < pos \/ i = pos
    BY <1>1, BeforeNext
  <2>4. CASE File \in Members(unit)
    <3>1. compiled' = [compiled EXCEPT ![unit] = @ \cup {File}] /\ queue' = imports[File]
      BY <1>8, <2>4 DEF AddInput
    <3>2. compiled'[unit] = compiled[unit] \cup {File}
      BY <3>1, <2>1, <1>4, <1>5
    <3>3. Elems(queue') = Elems(imports[File])
      BY <3>1
    <3>4. Elems(queue') \subseteq Closure(Members(unit))
      BY <3>3, <2>1, <2>4, <1>5
    <3> QED
      BY <3>2, <3>3, <3>4, <2>1, <2>2, <2>3, <2>4, <1>5, <1>7 DEF UnitInv
  <2>5. CASE File \notin Members(unit)
    <3>1. compiled' = compiled /\ queue' = queue
      BY <1>8, <2>5 DEF AddInput
    <3> QED
      BY <3>1, <2>1, <2>3, <2>5, <1>5, <1>7 DEF UnitInv
  <2> QED
    BY <2>4, <2>5
<1>9. CASE InsertImport
  <2> DEFINE f == Head(queue)
  <2>1. /\ Collecting /\ queue # <<>> /\ pos' = pos
        /\ UNCHANGED <<project, version, profile, unit>>
        /\ imports' = imports
    BY <1>9 DEF InsertImport, selected, project
  <2>2. f \in Files /\ Tail(queue) \in Seq(Files) /\ Elems(queue) = {f} \cup Elems(Tail(queue))
    BY <2>1, <1>4, HeadAndTail
  <2>3. imports[f] \in Seq(Files)
    BY <2>1, <2>2, <1>5
  <2>4. CASE f \in processed
    <3>1. compiled' = compiled /\ processed' = processed /\ queue' = Tail(queue)
      BY <1>9, <2>4 DEF InsertImport
    <3>2. Elems(queue') = Elems(Tail(queue))
      BY <3>1
    <3> HIDE DEF f
    <3> QED
      BY <3>1, <3>2, <2>1, <2>2, <2>4, <1>5, <1>7 DEF UnitInv
  <2>5. CASE f \notin processed
    <3>1. /\ compiled' = [compiled EXCEPT ![unit] = @ \cup {f}]
          /\ processed' = processed \cup {f}
          /\ queue' = imports[f] \o Tail(queue)
      BY <1>9, <2>5 DEF InsertImport
    <3>2. compiled'[unit] = compiled[unit] \cup {f}
      <4> HIDE DEF f
      <4> QED
        BY <3>1, <2>1, <1>4, <1>5
    <3>3. Elems(queue') = Elems(imports[f]) \cup Elems(Tail(queue))
      <4>1. \A s, t \in Seq(Files) : Elems(s \o t) = Elems(s) \cup Elems(t)
        BY Concatenated
      <4> HIDE DEF f
      <4> QED
        BY <3>1, <2>2, <2>3, <4>1, Zenon
    <3>4. Elems(imports[f]) \subseteq Closure(Members(unit))
      BY <2>1, <2>2, <1>5
    <3> HIDE DEF f
    <3> QED
      BY <3>1, <3>2, <3>3, <3>4, <2>1, <2>2, <1>5, <1>7 DEF UnitInv
  <2> QED
    BY <2>4, <2>5
<1>10. CASE EndUnit \/ UnitsDone
  BY <1>10, <1>2 DEF EndUnit, UnitsDone
<1>11. ASSUME phase # "units", UNCHANGED unitVars PROVE UnitInv'
  BY <1>1, <1>2, <1>11 DEF CompiledInv, unitVars
<1>12. CASE OtherLanguage \/ StartWalk \/ VisitNode \/ Candidates \/ NoCandidate \/ FilesDone
  BY <1>12, <1>11 DEF OtherLanguage, StartWalk, VisitNode, Candidates, NoCandidate, FilesDone, AtFile
<1>13. CASE OneForAll \/ NoneForAll \/ Spread \/ SpreadDone \/ EndLanguage \/ ChooseProfile
            \/ ProfilesDone
  BY <1>13, <1>11 DEF OneForAll, NoneForAll, Spread, SpreadDone, EndLanguage, ChooseProfile,
                      ProfilesDone
<1>14. ASSUME NEW l \in Languages, BeginLanguage(l) PROVE UnitInv'
  BY <1>14, <1>11 DEF BeginLanguage
<1>15. CASE UNCHANGED selectionVars
  <2>1. /\ UNCHANGED <<phase, project, version, profile, unit, processed, compiled, queue, pos>>
        /\ imports' = imports
    BY <1>15 DEF selectionVars, unitVars, walk, project
  <2>2. CASE ~Collecting
    BY <2>1, <2>2, <1>2 DEF Collecting
  <2>3. CASE Collecting
    BY <2>1, <2>3, <1>5, <1>7 DEF UnitInv
  <2> QED
    BY <2>2, <2>3
<1> QED
  BY <1>6, <1>8, <1>9, <1>10, <1>12, <1>13, <1>14, <1>15 DEF SelectionNext

-----------------------------------------------------------------------------
LEMMA SelectionInvHolds == SelectionSpec => []SelectionInv
<1>1. SelectionInv /\ [SelectionNext]_selectionVars => SelectionInv'
  BY TypesStep, WalkStep, LanguagesStep, LanguageStep, ProfilesStep, CompiledStep, UnitStep
     DEF SelectionInv
<1> QED
  BY <1>1, SelectionStart, PTL DEF SelectionSpec

(* Every input file is compiled with a version and a profile that it and all it imports allow
   (Graph::get_input_node_versions, Graph::resolve_settings). *)
THEOREM FilesFitTheirUnits == SelectionSpec => []UnitsFit
<1>1. SelectionInv => UnitsFit
  <2> SUFFICES ASSUME SelectionInv PROVE UnitsFit
    OBVIOUS
  <2>1. VersionsFit
    BY DEF SelectionInv, LanguagesInv, Settled, VersionsFit, UsedLanguages, OfLanguage
  <2>2. ProfilesFit
    BY DEF SelectionInv, ProfilesInv, HasFirst, Suits, ProfilesFit
  <2> QED
    BY <2>1, <2>2 DEF UnitsFit
<1> QED
  BY <1>1, SelectionInvHolds, PTL

(* All files of a language are compiled with one version, the best, if one suits them all
   (Graph::resolve_multiple_versions). *)
THEOREM OneVersionSuffices == SelectionSpec => []OneVersionIfPossible
<1>1. SelectionInv => OneVersionIfPossible
  BY DEF SelectionInv, LanguagesInv, Settled, FitsAll, OneVersionIfPossible, UsedLanguages
<1> QED
  BY <1>1, SelectionInvHolds, PTL

(* The sources of a unit are its files and what they reach through imports
   (Graph::into_sources_by_version and its insert_imports). *)
THEOREM UnitsAreImportClosed == SelectionSpec => []UnitsAreClosed
<1>1. SelectionInv => UnitsAreClosed
  <2> SUFFICES ASSUME SelectionInv, phase = "done", NEW u \in Units
               PROVE  compiled[u] = Closure(Members(u))
    BY DEF UnitsAreClosed
  <2>1. ~Collecting
    BY DEF Collecting
  <2>2. compiled[u] \in {{}, Closure(Members(u))} /\ (Members(u) # {} => compiled[u] # {})
    BY <2>1 DEF SelectionInv, CompiledInv
  <2>3. CASE Members(u) = {}
    <3>1. Closure(Members(u)) = {}
      BY <2>3, ClosureOfNothing
    <3> QED
      BY <2>2, <3>1
  <2> QED
    BY <2>2, <2>3
<1> QED
  BY <1>1, SelectionInvHolds, PTL

=============================================================================
