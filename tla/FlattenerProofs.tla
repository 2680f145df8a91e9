-------------------------- MODULE FlattenerProofs ---------------------------
(***************************************************************************)
(* What flatten.rs promises of the names, the order and the text of what   *)
(* it writes, for every number of files and whatever they hold.            *)
(***************************************************************************)
EXTENDS Flattener, SequenceLemmas

-----------------------------------------------------------------------------
(* Enumerations of a finite set *)

(* An enumeration of a finite set has every element of it, at one place. *)
LEMMA EnumerationsAreOnto ==
    ASSUME NEW S, IsFiniteSet(S), NEW s \in SetToSeqs(S)
    PROVE  /\ s \in Seq(S)
           /\ Cardinality(S) \in Nat /\ DOMAIN s = 1 .. Cardinality(S)
           /\ \A m, n \in DOMAIN s : s[m] = s[n] => m = n
           /\ \A x \in S : \E n \in DOMAIN s : s[n] = x
<1> DEFINE D == 1 .. Cardinality(S)
<1>1. s \in [D -> S] /\ \A i, j \in D : i # j => s[i] # s[j]
  BY DEF SetToSeqs
<1>2. Cardinality(S) \in Nat
  BY FS_CardinalityType
<1>3. IsFiniteSet(D) /\ Cardinality(D) = Cardinality(S)
  BY <1>2, FS_Interval
<1>4. s \in Injection(D, S)
  BY <1>1 DEF Injection, IsInjective
<1>5. s \in Surjection(D, S)
  <2> HIDE DEF D
  <2> QED
    BY <1>3, <1>4, FS_Injection
<1>6. \A x \in S : \E n \in D : s[n] = x
  BY <1>5 DEF Surjection
<1>7. s \in Seq(S)
  BY <1>1, <1>2
<1> QED
  BY <1>1, <1>2, <1>6, <1>7

(* Places that differ for any two elements are an enumeration, inverted. *)
LEMMA PlacesAreEnumerated ==
    ASSUME NEW S, IsFiniteSet(S), NEW place \in [S -> 1 .. Cardinality(S)],
           \A x, y \in S : place[x] = place[y] => x = y
    PROVE  \E s \in SetToSeqs(S) : \A n \in DOMAIN s : place[s[n]] = n
<1> DEFINE D == 1 .. Cardinality(S)
<1>1. Cardinality(S) \in Nat
  BY FS_CardinalityType
<1>2. IsFiniteSet(D) /\ Cardinality(D) = Cardinality(S)
  BY <1>1, FS_Interval
<1>3. place \in Injection(S, D)
  BY DEF Injection, IsInjective
<1>4. place \in Surjection(S, D)
  <2> HIDE DEF D
  <2> QED
    BY <1>2, <1>3, FS_Injection
<1>5. \A n \in D : \E x \in S : place[x] = n
  BY <1>4 DEF Surjection
<1> DEFINE s == [n \in D |-> CHOOSE x \in S : place[x] = n]
<1>6. s \in [D -> S] /\ \A n \in D : place[s[n]] = n
  BY <1>5
<1>7. s \in SetToSeqs(S)
  <2> HIDE DEF s
  <2>1. \A i, j \in D : i # j => s[i] # s[j]
    BY <1>6
  <2> QED
    BY <1>6, <2>1 DEF SetToSeqs
<1> HIDE DEF s
<1> QED
  BY <1>6, <1>7

-----------------------------------------------------------------------------
(* The order of the files *)

(* The sources are finitely many, and each has a rank among the paths. *)
LEMMA SourcesAreFinite ==
    /\ IsFiniteSet(Sources)
    /\ \A f \in Sources : Rank(f) \in DOMAIN Paths /\ Paths[Rank(f)] = f
    /\ DOMAIN Paths \subseteq Nat
<1>1. Paths \in Seq(Sources)
  BY PathsAreFiles
<1>2. DOMAIN Paths = 1 .. Len(Paths) /\ Len(Paths) \in Nat
  BY <1>1
<1>3. Paths \in [DOMAIN Paths -> Sources] /\ \A f \in Sources : \E i \in DOMAIN Paths : Paths[i] = f
  BY <1>1 DEF Sources, ToSet
<1>4. Paths \in Surjection(DOMAIN Paths, Sources)
  BY <1>3 DEF Surjection
<1>5. IsFiniteSet(DOMAIN Paths)
  BY <1>2, FS_Interval
<1>6. IsFiniteSet(Sources)
  BY <1>4, <1>5, FS_Surjection
<1> QED
  BY <1>2, <1>3, <1>6 DEF Rank

(* A file is among its own dependencies, with the dependencies of each. *)
LEMMA DepsAreClosed ==
    ASSUME NEW p, NEW f \in Sources
    PROVE  /\ f \in Deps(p, f) /\ Deps(p, f) \subseteq Sources
           /\ IsFiniteSet(Deps(p, f)) /\ Cardinality(Deps(p, f)) \in Nat
           /\ \A g \in Deps(p, f) : Deps(p, g) \subseteq Deps(p, f)
<1>1. f \in Deps(p, f) /\ Deps(p, f) \subseteq Sources
  BY DEF Deps
<1>2. \A g \in Deps(p, f) : Deps(p, g) \subseteq Deps(p, f)
  BY DEF Deps
<1>3. IsFiniteSet(Deps(p, f))
  BY <1>1, SourcesAreFinite, FS_Subset
<1>4. Cardinality(Deps(p, f)) \in Nat
  BY <1>3, FS_CardinalityType
<1> QED
  BY <1>1, <1>2, <1>3, <1>4

(* Before is a strict order of the files, in which any two are comparable. *)
LEMMA BeforeIsAnOrder ==
    ASSUME NEW p
    PROVE  \A f, g, h \in Sources :
              /\ ~Before(p, f, f)
              /\ Before(p, f, g) /\ Before(p, g, h) => Before(p, f, h)
              /\ f # g => Before(p, f, g) \/ Before(p, g, f)
<1> DEFINE size(f) == Cardinality(Deps(p, f))
           number(f) == Rank(f)
<1>1. \A f \in Sources : size(f) \in Nat /\ number(f) \in Nat
  BY DepsAreClosed, SourcesAreFinite
<1>2. \A f, g \in Sources : number(f) = number(g) => f = g
  BY SourcesAreFinite
<1>3. \A f, g \in Sources : Before(p, f, g) <=> size(f) < size(g) \/ (size(f) = size(g) /\ number(f) < number(g))
  BY DEF Before
<1> HIDE DEF size, number
<1> QED
  BY <1>1, <1>2, <1>3

(* What a sort by Before returns: every file of a set at one place, in order. *)
LEMMA FilesAreSorted ==
    ASSUME NEW p, NEW S \in SUBSET Sources
    PROVE  \E s \in SetToSeqs(S) : \A m, n \in DOMAIN s : m < n => Before(p, s[m], s[n])
<1>1. IsFiniteSet(S) /\ Cardinality(S) \in Nat
  BY SourcesAreFinite, FS_Subset, FS_CardinalityType
<1> DEFINE upto(f) == {g \in S : g = f \/ Before(p, g, f)}
           place == [f \in S |-> Cardinality(upto(f))]
<1>2. ASSUME NEW f \in S
      PROVE  /\ upto(f) \in SUBSET S /\ IsFiniteSet(upto(f))
             /\ Cardinality(upto(f)) \in 1 .. Cardinality(S)
  <2>1. upto(f) \in SUBSET S /\ f \in upto(f)
    OBVIOUS
  <2> HIDE DEF upto
  <2>2. IsFiniteSet(upto(f)) /\ Cardinality(upto(f)) <= Cardinality(S)
    BY <1>1, <2>1, FS_Subset
  <2>3. Cardinality(upto(f)) \in Nat /\ Cardinality(upto(f)) # 0
    BY <2>1, <2>2, FS_CardinalityType, FS_EmptySet
  <2> QED
    BY <1>1, <2>1, <2>2, <2>3
<1>3. ASSUME NEW f \in S, NEW g \in S, Before(p, f, g)
      PROVE  Cardinality(upto(f)) < Cardinality(upto(g))
  <2>1. upto(f) \in SUBSET upto(g)
    BY <1>3, BeforeIsAnOrder
  <2>2. g \in upto(g) /\ g \notin upto(f)
    BY <1>3, BeforeIsAnOrder
  <2>3. /\ IsFiniteSet(upto(f)) /\ Cardinality(upto(f)) \in Int
        /\ IsFiniteSet(upto(g)) /\ Cardinality(upto(g)) \in Int
    BY <1>2
  <2> HIDE DEF upto
  <2>4. /\ Cardinality(upto(f)) <= Cardinality(upto(g))
        /\ Cardinality(upto(f)) # Cardinality(upto(g))
    BY <2>1, <2>2, <2>3, FS_Subset
  <2> QED
    BY <2>3, <2>4
<1>4. place \in [S -> 1 .. Cardinality(S)]
  BY <1>2
<1>5. ASSUME NEW f \in S, NEW g \in S, f # g
      PROVE  place[f] # place[g]
  <2>1. Before(p, f, g) \/ Before(p, g, f)
    BY <1>5, BeforeIsAnOrder
  <2>2. Cardinality(upto(f)) \in Int /\ Cardinality(upto(g)) \in Int
    BY <1>2
  <2>3. place[f] = Cardinality(upto(f)) /\ place[g] = Cardinality(upto(g))
    OBVIOUS
  <2> HIDE DEF upto, place
  <2> QED
    BY <1>3, <2>1, <2>2, <2>3
<1>6. \A f \in S : place[f] = Cardinality(upto(f))
  OBVIOUS
<1> HIDE DEF place
<1>7. PICK s \in SetToSeqs(S) : \A n \in DOMAIN s : place[s[n]] = n
  BY <1>1, <1>4, <1>5, PlacesAreEnumerated
<1>8. /\ s \in Seq(S) /\ DOMAIN s \subseteq Nat
      /\ \A n \in DOMAIN s : s[n] \in S
      /\ \A m, n \in DOMAIN s : s[m] = s[n] => m = n
  BY <1>1, EnumerationsAreOnto
<1>9. ASSUME NEW m \in DOMAIN s, NEW n \in DOMAIN s, m < n
      PROVE  Before(p, s[m], s[n])
  <2>1. s[m] \in S /\ s[n] \in S /\ s[m] # s[n]
    BY <1>8, <1>9
  <2>2. Cardinality(upto(s[m])) = m /\ Cardinality(upto(s[n])) = n
    BY <1>6, <1>7, <2>1
  <2> HIDE DEF upto
  <2>3. ~Before(p, s[n], s[m])
    BY <1>3, <1>8, <1>9, <2>1, <2>2
  <2> QED
    BY <2>1, <2>3, BeforeIsAnOrder
<1> QED
  BY <1>7, <1>9

(* OrderedDeps: what the target imports, each file once and sorted by        *)
(* Before, and the target after it.                                          *)
Sorted(p, s) == \A m, n \in DOMAIN s : m < n => Before(p, s[m], s[n])

(* collect_ordered_deps: the dependencies in the order of the sort, each once, then the target. *)
LEMMA FilesAreOrdered ==
    ASSUME NEW p
    PROVE  \E s \in Seq(Sources) :
              /\ OrderedDeps(p) = s \o <<Target>> /\ Sorted(p, s)
              /\ \A m, n \in DOMAIN s : s[m] = s[n] => m = n
              /\ \A f : f \in Deps(p, Target) /\ f # Target <=> \E n \in DOMAIN s : s[n] = f
<1> DEFINE S == Deps(p, Target) \ {Target}
           s == CHOOSE t \in SetToSeqs(S) : \A m, n \in DOMAIN t : m < n => Before(p, t[m], t[n])
<1>1. Target \in Sources
  BY PathsAreFiles
<1>2. S \in SUBSET Sources /\ IsFiniteSet(S)
  BY <1>1, DepsAreClosed, SourcesAreFinite, FS_Subset
<1>3. OrderedDeps(p) = s \o <<Target>>
  BY DEF OrderedDeps
<1>4. s \in SetToSeqs(S) /\ \A m, n \in DOMAIN s : m < n => Before(p, s[m], s[n])
  <2> HIDE DEF S
  <2> QED
    BY <1>2, FilesAreSorted
<1> HIDE DEF s
<1>5. /\ s \in Seq(S)
      /\ \A m, n \in DOMAIN s : s[m] = s[n] => m = n
      /\ \A x \in S : \E n \in DOMAIN s : s[n] = x
  <2> HIDE DEF S
  <2> QED
    BY <1>2, <1>4, EnumerationsAreOnto
<1>6. s \in Seq(Sources)
  BY <1>2, <1>5
<1>7. \A n \in DOMAIN s : s[n] \in S
  BY <1>5
<1>8. \A f : f \in S <=> \E n \in DOMAIN s : s[n] = f
  BY <1>5, <1>7
<1> QED
  BY <1>3, <1>4, <1>5, <1>6, <1>8 DEF Sorted

(* Every file written is at one place; an earlier one is not before.         *)
LEMMA PlacesOfFiles ==
    /\ Files = Deps(program, Target)
    /\ \A f \in Files : Position(f) \in Nat /\ Position(f) \in DOMAIN Written /\ Written[Position(f)] = f
    /\ \A f, g \in Files :
          /\ g # Target /\ (f = Target \/ Before(program, g, f)) => Position(g) < Position(f)
          /\ Position(f) = Position(g) => f = g
<1>1. PICK s \in Seq(Sources) :
         /\ OrderedDeps(program) = s \o <<Target>> /\ Sorted(program, s)
         /\ \A m, n \in DOMAIN s : s[m] = s[n] => m = n
         /\ \A f : f \in Deps(program, Target) /\ f # Target <=> \E n \in DOMAIN s : s[n] = f
  BY FilesAreOrdered
<1>2. Target \in Sources /\ <<Target>> \in Seq(Sources)
  BY PathsAreFiles
<1>3. /\ DOMAIN s = 1 .. Len(s) /\ Len(s) \in Nat
      /\ DOMAIN Written = 1 .. Len(s) + 1
      /\ \A n \in DOMAIN s : Written[n] = s[n]
      /\ Written[Len(s) + 1] = Target
  BY <1>1, <1>2, ConcatProperties DEF Written
<1>4. Target \in Deps(program, Target)
  BY <1>2, DepsAreClosed
<1>5. Files = Deps(program, Target)
  <2>1. \A f : f \in Files <=> \E n \in 1 .. Len(s) + 1 : Written[n] = f
    BY <1>3 DEF Files, ToSet
  <2>2. \A n \in 1 .. Len(s) + 1 : n \in DOMAIN s \/ n = Len(s) + 1
    BY <1>3
  <2>3. \A n \in DOMAIN s : n \in 1 .. Len(s) + 1
    BY <1>3
  <2>4. Len(s) + 1 \in 1 .. Len(s) + 1
    BY <1>3
  <2>5. ASSUME NEW f PROVE f \in Files <=> f \in Deps(program, Target)
    BY <1>1, <1>3, <1>4, <2>1, <2>2, <2>3, <2>4
  <2> QED
    BY <2>5
<1>6. ASSUME NEW f \in Files
      PROVE  Position(f) \in DOMAIN Written /\ Written[Position(f)] = f
  <2>1. \E n \in DOMAIN Written : Written[n] = f
    BY <1>6 DEF Files, ToSet
  <2> QED
    BY <2>1 DEF Position
<1>7. ASSUME NEW f \in Files
      PROVE  \/ f = Target /\ Position(f) = Len(s) + 1
             \/ f # Target /\ Position(f) \in DOMAIN s /\ s[Position(f)] = f
  <2>1. Position(f) \in 1 .. Len(s) + 1 /\ Written[Position(f)] = f
    BY <1>3, <1>6
  <2>2. CASE Position(f) \in DOMAIN s
    <3>1. s[Position(f)] = f
      BY <1>3, <2>1, <2>2
    <3>2. f # Target
      BY <1>1, <2>2, <3>1
    <3> QED
      BY <2>2, <3>1, <3>2
  <2>3. CASE Position(f) = Len(s) + 1
    BY <1>3, <2>1, <2>3
  <2> QED
    BY <1>3, <2>1, <2>2, <2>3
<1>8. Files \subseteq Sources
  BY <1>2, <1>5, DepsAreClosed
<1>9. ASSUME NEW f \in Files, NEW g \in Files, g # Target, f = Target \/ Before(program, g, f)
      PROVE  Position(g) < Position(f)
  <2>1. Position(g) \in DOMAIN s /\ s[Position(g)] = g
    BY <1>7, <1>9
  <2>2. CASE f = Target
    BY <1>3, <1>7, <2>1, <2>2
  <2>3. CASE f # Target
    <3>1. Position(f) \in DOMAIN s /\ s[Position(f)] = f
      BY <1>7, <2>3
    <3>2. Before(program, g, f)
      BY <1>9, <2>3
    <3>3. ~Before(program, f, g) /\ f # g
      <4>1. f \in Sources /\ g \in Sources
        BY <1>8
      <4> QED
        BY <3>2, <4>1, BeforeIsAnOrder
    <3>4. Position(f) \in Int /\ Position(g) \in Int
      BY <1>3, <2>1, <3>1
    <3>5. ~(Position(f) < Position(g)) /\ Position(f) # Position(g)
      BY <1>1, <2>1, <3>1, <3>3 DEF Sorted
    <3> QED
      BY <3>4, <3>5
  <2> QED
    BY <2>2, <2>3
<1>10. \A f, g \in Files : Position(f) = Position(g) => f = g
  BY <1>6
<1>11. \A f \in Files : Position(f) \in Nat
  BY <1>3, <1>6
<1> QED
  BY <1>5, <1>6, <1>9, <1>10, <1>11

-----------------------------------------------------------------------------
(* Contracts after their bases *)

(* An item of the files written is an item that stands in a file. *)
LEMMA ItemsStand ==
    ASSUME NEW kinds
    PROVE  \A i : i \in ItemsOf(kinds) <=> i \in Standing(program, kinds) /\ i[1] \in Files
<1>1. Files \subseteq Sources
  BY PathsAreFiles, PlacesOfFiles, DepsAreClosed
<1>2. ASSUME NEW i
      PROVE  i \in Items <=> /\ i[1] \in Files /\ i[2] \in DOMAIN program[i[1]]
                             /\ i = <<i[1], i[2]>>
  BY DEF Items
<1>3. ASSUME NEW i
      PROVE  i \in Standing(program, kinds) <=>
                /\ i[1] \in Sources /\ i[2] \in DOMAIN program[i[1]]
                /\ program[i[1]][i[2]].is \in kinds
                /\ i = <<i[1], i[2]>>
  BY DEF Standing, Places
<1> QED
  BY <1>1, <1>2, <1>3 DEF ItemsOf, Item

(* What a file of the result imports is of the result too, and earlier. *)
LEMMA ImportsAreEarlier ==
    ASSUME ImportsAreAcyclic, program \in Programs,
           NEW f \in Files, NEW g \in Deps(program, f), g # f
    PROVE  g \in Files /\ Position(g) < Position(f)
<1>1. Target \in Sources /\ Files = Deps(program, Target) /\ Files \subseteq Sources
  BY PathsAreFiles, PlacesOfFiles, DepsAreClosed
<1>2. g \in Files
  BY <1>1, DepsAreClosed
<1>3. f \notin Deps(program, g)
  BY <1>1, <1>2 DEF ImportsAreAcyclic
<1>4. g # Target
  BY <1>1, <1>3
<1>5. /\ Deps(program, g) \in SUBSET Deps(program, f)
      /\ f \in Deps(program, f)
      /\ IsFiniteSet(Deps(program, f)) /\ Cardinality(Deps(program, f)) \in Int
      /\ Cardinality(Deps(program, g)) \in Int
  BY <1>1, <1>2, DepsAreClosed
<1>6. /\ Cardinality(Deps(program, g)) <= Cardinality(Deps(program, f))
      /\ Cardinality(Deps(program, g)) # Cardinality(Deps(program, f))
  BY <1>3, <1>5, FS_Subset
<1>7. Before(program, g, f)
  BY <1>5, <1>6 DEF Before
<1> QED
  BY <1>2, <1>4, <1>7, PlacesOfFiles

(* Two declarations have two ids; what declares is in its place. *)
LEMMA IdsDiffer ==
    ASSUME program \in Programs,
           NEW i \in ItemsOf(Declaring), NEW j \in ItemsOf(Declaring), Id(i) = Id(j)
    PROVE  i = j
<1>1. i \in Standing(program, Declaring) /\ j \in Standing(program, Declaring)
  BY ItemsStand
<1>2. Declares(program, i) = Declares(program, j)
  BY DEF Declares, Id, Item
<1> QED
  BY <1>1, <1>2, ProgramsCompile

(* What the kinds of items at the level of a file declare. *)
LEMMA KindsDeclare ==
    /\ ItemsOf(FileLevel) \subseteq ItemsOf(Declaring)
    /\ ItemsOf({"struct"}) \subseteq ItemsOf(Declaring)
    /\ ItemsOf({"modifier"}) \subseteq ItemsOf(Declaring)
    /\ ItemsOf({"import"}) \subseteq ItemsOf(Declaring)
    /\ ItemsOf({"contract"}) \subseteq ItemsOf(Collected)
    /\ ItemsOf(Collected) \subseteq ItemsOf(FileLevel)
    /\ \A i \in ItemsOf(FileLevel) : i \in ItemsOf(Collected) \/ Item(i).is = "error"
  BY DEF ItemsOf, Declaring, FileLevel, Collected, Members

(* A struct of a contract is no item at the level of a file. *)
LEMMA StructsAreWithin ==
    ASSUME program \in Programs, NEW i \in ItemsOf(FileLevel), NEW j \in Inner
    PROVE  Id(i) # Id(j)
<1>1. i \in ItemsOf(Declaring) /\ j \in ItemsOf(Declaring) /\ i # j
  <2>1. Item(i).is \in FileLevel /\ Item(j).is = "struct"
    BY DEF ItemsOf, Inner
  <2> QED
    BY <2>1, KindsDeclare DEF Inner, FileLevel, Collected
<1> QED
  BY <1>1, IdsDiffer

(* No more is a modifier, and it is no struct either. *)
LEMMA ModifiersAreWithin ==
    ASSUME program \in Programs, NEW i \in ItemsOf(FileLevel) \cup Inner
    PROVE  Id(i) \notin ModifierIds
<1> SUFFICES ASSUME NEW j \in ItemsOf({"modifier"}), Id(i) = Id(j)
             PROVE  FALSE
  BY DEF ModifierIds
<1>1. i \in ItemsOf(Declaring) /\ j \in ItemsOf(Declaring)
  BY KindsDeclare DEF Inner
<1>2. Item(j).is = "modifier" /\ Item(i).is \in FileLevel \cup {"struct"}
  BY DEF ItemsOf, Inner
<1> QED
  BY <1>1, <1>2, IdsDiffer DEF FileLevel, Collected

(* What a part of a path names is in a file that the file of the path imports. *)
LEMMA PathsStayWithin ==
    ASSUME program \in Programs,
           NEW i \in ItemsOf(Uses), NEW k \in DOMAIN Item(i).parts,
           NEW d \in Standing(program, Declaring), Item(i).parts[k].id = Declares(program, d)
    PROVE  d \in ItemsOf(Declaring) /\ d[1] \in Deps(program, i[1])
<1>1. i \in Standing(program, Uses) /\ i[1] \in Files
  BY ItemsStand
<1>2. d[1] \in Deps(program, i[1])
  BY <1>1, ProgramsCompile DEF Item
<1>3. d[1] \in Files
  BY <1>1, <1>2, PlacesOfFiles, PathsAreFiles, DepsAreClosed
<1> QED
  BY <1>2, <1>3, ItemsStand

(* A path has a last part. *)
LEMMA PathsEnd ==
    ASSUME program \in Programs, NEW i \in Items
    PROVE  /\ Item(i).parts \in Seq(ToSet(Item(i).parts))
           /\ Len(Item(i).parts) \in DOMAIN Item(i).parts /\ Len(Item(i).parts) \in Nat
           /\ 1 \in DOMAIN Item(i).parts
           /\ DOMAIN Item(i).parts = 1 .. Len(Item(i).parts)
           /\ Refers(program, i) = Item(i).parts[Len(Item(i).parts)].id
<1>1. i[1] \in Sources /\ i[2] \in DOMAIN program[i[1]]
  <2>1. i[1] \in Files /\ i[2] \in DOMAIN program[i[1]]
    BY DEF Items
  <2> QED
    BY <2>1, PathsAreFiles, PlacesOfFiles, DepsAreClosed
<1>2. Item(i).parts \in Seq(ToSet(Item(i).parts)) /\ Item(i).parts # <<>>
  BY <1>1, ProgramsAreParsed DEF Item
<1>3. /\ Len(Item(i).parts) \in DOMAIN Item(i).parts /\ Len(Item(i).parts) \in Nat
      /\ 1 \in DOMAIN Item(i).parts
      /\ DOMAIN Item(i).parts = 1 .. Len(Item(i).parts)
  <2> DEFINE parts == Item(i).parts
  <2> HIDE DEF parts
  <2>1. Len(parts) \in Nat /\ DOMAIN parts = 1 .. Len(parts) /\ Len(parts) # 0
    BY <1>2, EmptySeq DEF parts
  <2> QED
    BY <2>1 DEF parts
<1>4. Refers(program, i) = Item(i).parts[Len(Item(i).parts)].id
  BY DEF Refers, Last, Item
<1> QED
  BY <1>2, <1>3, <1>4

(* A base is the contract its path ends in. *)
LEMMA BasesAreContracts ==
    ASSUME program \in Programs,
           NEW i \in ItemsOf({"use"}), NEW b \in ItemsOf({"contract"}),
           Item(i).of = "base", Leads(Item(i)) = {Id(b)}
    PROVE  b[1] \in Deps(program, i[1]) /\ (b[1] = i[1] => b[2] < i[2])
<1> DEFINE last == Len(Item(i).parts)
           id == Item(i).parts[last].id
<1>1. i \in ItemsOf(Uses) /\ i \in Items /\ Item(i).is = "use"
  BY DEF ItemsOf, Uses
<1>2. last \in DOMAIN Item(i).parts /\ Refers(program, i) = id
  BY <1>1, PathsEnd
<1>3. PICK c \in Standing(program, {"contract"}) :
         Refers(program, i) = Declares(program, c) /\ (c[1] = i[1] => c[2] < i[2])
  <2>1. i \in Standing(program, {"use"})
    BY ItemsStand
  <2> QED
    BY <2>1, ProgramsCompile DEF Item
<1>4. c \in Standing(program, Declaring)
  BY <1>3 DEF Standing, Places, Declaring, FileLevel, Collected, Members
<1>5. c \in ItemsOf(Declaring) /\ c[1] \in Deps(program, i[1])
  BY <1>1, <1>2, <1>3, <1>4, PathsStayWithin
<1>6. c \in ItemsOf(FileLevel) /\ Id(c) = id
  <2>1. c \in ItemsOf({"contract"})
    BY <1>3, <1>5, ItemsStand
  <2>2. Id(c) = Declares(program, c)
    BY DEF Id, Declares, Item
  <2> QED
    BY <1>2, <1>3, <2>1, <2>2, KindsDeclare
<1>7. Leads(Item(i)) = {id}
  <2>1. id \in {Id(d) : d \in ItemsOf(FileLevel)} /\ id \notin {Id(d) : d \in Inner}
    BY <1>6, StructsAreWithin
  <2>2. Item(i).parts[IF Item(i).is = "access" THEN Within(Item(i)) ELSE Len(Item(i).parts)].id = id
    BY <1>1
  <2>3. ~ToModifier(Item(i))
    BY <1>6, ModifiersAreWithin DEF ToModifier
  <2> QED
    BY <2>1, <2>2, <2>3 DEF Leads
<1>8. b = c
  <2>1. b \in ItemsOf(Declaring)
    BY KindsDeclare
  <2>2. Id(b) = Id(c)
    BY <1>6, <1>7
  <2> QED
    BY <1>5, <2>1, <2>2, IdsDiffer
<1> QED
  BY <1>3, <1>5, <1>8

(* The program is not changed. *)
LEMMA ProgramsStay == FlattenSpec => [](program \in Programs)
<1>1. FlattenInit => program \in Programs
  BY DEF FlattenInit
<1>2. program \in Programs /\ [Flatten]_astVars => (program \in Programs)'
  BY DEF Flatten, astVars, Step, AppendFilenames, RenameTopLevelDefinitions, RenameContractLevelTypes,
         RemoveQualifiedImports, UpdateInheritdocs, RemoveDirectives, ApplyUpdates
<1> QED
  BY <1>1, <1>2, PTL DEF FlattenSpec

(* Whatever the sources import, unless in a cycle, a contract stands in the  *)
(* result after every contract it derives from (Flattener::new, collect_deps *)
(* and the sort of ordered_deps).                                            *)
THEOREM BasesComeFirst ==
    ASSUME ImportsAreAcyclic
    PROVE  FlattenSpec => []BasesFirst
<1>1. program \in Programs => BasesFirst
  <2> SUFFICES ASSUME program \in Programs, NEW i \in ItemsOf({"use"}), NEW b \in ItemsOf({"contract"}),
                      Item(i).of = "base", Leads(Item(i)) = {Id(b)}, b[1] # i[1] \/ ~(b[2] < i[2])
               PROVE  Position(b[1]) < Position(i[1])
    BY DEF BasesFirst
  <2>1. b[1] \in Deps(program, i[1]) /\ b[1] # i[1]
    BY BasesAreContracts
  <2>2. i[1] \in Files
    BY ItemsStand
  <2> QED
    BY <2>1, <2>2, ImportsAreEarlier
<1> QED
  BY <1>1, ProgramsStay, PTL

-----------------------------------------------------------------------------
(* Names that mean what they meant *)

(* The items are finitely many. *)
LEMMA ItemsAreFinite ==
    ASSUME program \in Programs
    PROVE  IsFiniteSet(Items)
<1> DEFINE itemsOf == [f \in Files |-> {f} \X DOMAIN program[f]]
           sets == {{f} \X DOMAIN program[f] : f \in Files}
<1>1. Files \subseteq Sources /\ IsFiniteSet(Files)
  BY PathsAreFiles, PlacesOfFiles, DepsAreClosed
<1>2. itemsOf \in Surjection(Files, sets)
  BY DEF Surjection
<1>3. IsFiniteSet(sets)
  <2> HIDE DEF itemsOf, sets
  <2> QED
    BY <1>1, <1>2, FS_Surjection
<1>4. ASSUME NEW f \in Files
      PROVE  IsFiniteSet({f} \X DOMAIN program[f])
  <2>1. program[f] \in Seq(ToSet(program[f]))
    BY <1>1, ProgramsAreParsed
  <2>2. Len(program[f]) \in Nat /\ DOMAIN program[f] = 1 .. Len(program[f])
    BY <2>1
  <2>3. IsFiniteSet(DOMAIN program[f])
    BY <2>2, FS_Interval
  <2>4. IsFiniteSet({f})
    BY FS_Singleton
  <2> QED
    BY <2>3, <2>4, FS_Product
<1>5. \A T \in sets : IsFiniteSet(T)
  BY <1>4
<1>6. IsFiniteSet(UNION sets)
  <2> HIDE DEF sets
  <2> QED
    BY <1>3, <1>5, FS_UNION
<1> QED
  BY <1>6 DEF Items

(* A longer name tells what it was made of. *)
LEMMA LongerNamesDiffer ==
    ASSUME NEW S, NEW T, NEW s \in Seq(S), NEW t \in Seq(T), NEW a, NEW b, Append(s, a) = Append(t, b)
    PROVE  s = t /\ a = b
<1> DEFINE U == S \cup T \cup {a, b}
<1>1. s \in Seq(U) /\ t \in Seq(U) /\ a \in U /\ b \in U
  OBVIOUS
<1> HIDE DEF U
<1> QED
  BY <1>1, AppendInjective

(* An order of the definitions of every name. *)
Numbered(order) == \A name \in AllNames : order[name] \in Orders(name)

OwnName(i) == Item(i).parts[1].name

Place(order, i) == CHOOSE n \in DOMAIN order[OwnName(i)] : order[OwnName(i)][n] = i

(* The own name of a definition is a sequence, and it stands in the program. *)
LEMMA DefinitionsAreNamed ==
    ASSUME program \in Programs, NEW i \in ItemsOf(FileLevel)
    PROVE  /\ OwnName(i) \in Seq(ToSet(OwnName(i)))
           /\ NameOf(program[i[1]], i[2]) = OwnName(i)
           /\ i \in Standing(program, FileLevel)
<1>1. i \in Items /\ i \in Standing(program, FileLevel) /\ i[1] \in Sources /\ i[2] \in DOMAIN program[i[1]]
  BY ItemsStand DEF ItemsOf, Standing, Places
<1>2. 1 \in DOMAIN Item(i).parts
  BY <1>1, PathsEnd
<1>3. OwnName(i) \in Seq(ToSet(OwnName(i)))
  BY <1>1, <1>2, ProgramsAreParsed DEF OwnName, Item
<1> QED
  BY <1>1, <1>3 DEF OwnName, NameOf, Item

(* The place of a definition among those of its name. *)
LEMMA PlacesOfDefinitions ==
    ASSUME program \in Programs, NEW order, Numbered(order), NEW i \in Definitions
    PROVE  /\ Place(order, i) \in Nat \ {0}
           /\ order[OwnName(i)][Place(order, i)] = i
<1>1. OwnName(i) \in AllNames /\ i \in Named(OwnName(i))
  BY DEF OwnName, AllNames, Named
<1>2. IsFiniteSet(Named(OwnName(i)))
  <2>1. Named(OwnName(i)) \in SUBSET Items
    BY DEF Named, Definitions, ItemsOf
  <2> QED
    BY <2>1, ItemsAreFinite, FS_Subset
<1>3. order[OwnName(i)] \in SetToSeqs(Named(OwnName(i)))
  BY <1>1 DEF Numbered, Orders
<1>4. /\ Cardinality(Named(OwnName(i))) \in Nat
      /\ DOMAIN order[OwnName(i)] = 1 .. Cardinality(Named(OwnName(i)))
      /\ \E n \in DOMAIN order[OwnName(i)] : order[OwnName(i)][n] = i
  BY <1>1, <1>2, <1>3, EnumerationsAreOnto
<1>5. Place(order, i) \in DOMAIN order[OwnName(i)] /\ order[OwnName(i)][Place(order, i)] = i
  BY <1>4 DEF Place
<1> QED
  BY <1>4, <1>5

(* The final name of a definition: its own if no other has it, or a longer one. *)
LEMMA FinalNameOf ==
    ASSUME program \in Programs, NEW order, NEW i \in Definitions
    PROVE  /\ Id(i) \in TopLevel
           /\ FinalNames(order)[Id(i)] = IF Cardinality(Named(OwnName(i))) = 1 THEN OwnName(i)
                                         ELSE Append(OwnName(i), Place(order, i) - 1)
<1>1. Id(i) \in TopLevel
  BY DEF TopLevel
<1>2. \A d \in Definitions : Id(d) = Id(i) => d = i
  BY KindsDeclare, IdsDiffer DEF Definitions
<1>3. (CHOOSE d \in Definitions : Id(d) = Id(i)) = i
  BY <1>2
<1>4. FinalNames(order)[Id(i)] =
         LET d == CHOOSE e \in Definitions : Id(e) = Id(i)
         IN IF Cardinality(Named(OwnName(d))) = 1 THEN OwnName(d) ELSE Append(OwnName(d), Place(order, d) - 1)
  BY <1>1 DEF FinalNames, OwnName, Place
<1> QED
  BY <1>1, <1>3, <1>4

(* Names are free: no longer name is one that a source has, no name of an    *)
(* error is one of another definition.                                       *)
LEMMA FreeNames ==
    ASSUME NamesAreFree, program \in Programs, NEW i \in ItemsOf(FileLevel), NEW j \in ItemsOf(FileLevel)
    PROVE  /\ \A n \in Nat : OwnName(i) # Append(OwnName(j), n)
           /\ Item(i).is = "error" /\ OwnName(i) = OwnName(j) => i = j
<1>1. /\ NameOf(program[i[1]], i[2]) = OwnName(i) /\ i \in Standing(program, FileLevel)
      /\ NameOf(program[j[1]], j[2]) = OwnName(j) /\ j \in Standing(program, FileLevel)
  BY DefinitionsAreNamed
<1>2. Item(i).is = program[i[1]][i[2]].is
  BY DEF Item
<1> QED
  BY <1>1, <1>2 DEF NamesAreFree

(* Two definitions never have one final name (the loop of flatten.rs over updates). *)
LEMMA FinalNamesDiffer ==
    ASSUME NamesAreFree, program \in Programs, NEW order, Numbered(order),
           NEW i \in Definitions, NEW j \in Definitions,
           FinalNames(order)[Id(i)] = FinalNames(order)[Id(j)]
    PROVE  i = j
<1> DEFINE alone(d) == Cardinality(Named(OwnName(d))) = 1
           long(d) == Append(OwnName(d), Place(order, d) - 1)
<1>1. /\ FinalNames(order)[Id(i)] = IF alone(i) THEN OwnName(i) ELSE long(i)
      /\ FinalNames(order)[Id(j)] = IF alone(j) THEN OwnName(j) ELSE long(j)
  BY FinalNameOf
<1>2. i \in ItemsOf(FileLevel) /\ j \in ItemsOf(FileLevel)
  BY KindsDeclare DEF Definitions
<1>3. /\ Place(order, i) - 1 \in Nat /\ order[OwnName(i)][Place(order, i)] = i
      /\ Place(order, j) - 1 \in Nat /\ order[OwnName(j)][Place(order, j)] = j
  BY PlacesOfDefinitions
<1>4. OwnName(i) # long(j) /\ OwnName(j) # long(i)
  BY <1>2, <1>3, FreeNames
<1>5. CASE alone(i) /\ alone(j)
  <2>1. OwnName(i) = OwnName(j)
    BY <1>1, <1>5
  <2>2. i \in Named(OwnName(i)) /\ j \in Named(OwnName(i))
    BY <2>1 DEF Named, OwnName
  <2>3. IsFiniteSet(Named(OwnName(i)))
    <3>1. Named(OwnName(i)) \in SUBSET Items
      BY DEF Named, Definitions, ItemsOf
    <3> QED
      BY <3>1, ItemsAreFinite, FS_Subset
  <2>4. \E x : Named(OwnName(i)) = {x}
    BY <1>5, <2>3, FS_Singleton
  <2> QED
    BY <2>2, <2>4
<1>6. CASE ~alone(i) /\ ~alone(j)
  <2>1. long(i) = long(j)
    BY <1>1, <1>6
  <2>2. OwnName(i) \in Seq(ToSet(OwnName(i))) /\ OwnName(j) \in Seq(ToSet(OwnName(j)))
    BY <1>2, DefinitionsAreNamed
  <2>3. OwnName(i) = OwnName(j) /\ Place(order, i) - 1 = Place(order, j) - 1
    BY <2>1, <2>2, LongerNamesDiffer
  <2>4. Place(order, i) \in Int /\ Place(order, j) \in Int
    BY PlacesOfDefinitions
  <2>5. Place(order, i) = Place(order, j)
    BY <2>3, <2>4
  <2> QED
    BY <1>3, <2>3, <2>5
<1> HIDE DEF alone, long
<1> QED
  BY <1>1, <1>4, <1>5, <1>6

(* The name of a definition in the result is the name of no other. *)
LEMMA DefinedOnce ==
    ASSUME NamesAreFree, program \in Programs, NEW order, Numbered(order), names = FinalNames(order),
           NEW i \in ItemsOf(FileLevel)
    PROVE  DefinedAs(IdName(Item(i).parts[1])) = {Id(i)}
<1>1. ASSUME NEW d \in ItemsOf(FileLevel)
      PROVE  \/ d \in Definitions /\ IdName(Item(d).parts[1]) = FinalNames(order)[Id(d)]
             \/ Item(d).is = "error" /\ IdName(Item(d).parts[1]) = OwnName(d)
  <2>1. CASE d \in Definitions
    <3>1. Id(d) \in TopLevel
      BY <2>1 DEF TopLevel
    <3> QED
      BY <2>1, <3>1 DEF IdName, Id
  <2>2. CASE d \notin Definitions
    <3>1. Item(d).is = "error"
      BY <2>2, KindsDeclare DEF Definitions
    <3>2. ASSUME NEW e \in Definitions PROVE Id(e) # Id(d)
      BY <2>2, KindsDeclare, IdsDiffer DEF Definitions
    <3>3. Id(d) \notin TopLevel
      BY <3>2 DEF TopLevel
    <3> QED
      BY <3>1, <3>3 DEF IdName, Id, OwnName
  <2> QED
    BY <2>1, <2>2
<1>2. ASSUME NEW d \in Definitions, NEW e \in ItemsOf(FileLevel)
      PROVE  FinalNames(order)[Id(d)] = OwnName(e) => Item(e).is # "error"
  <2>1. d \in ItemsOf(FileLevel) /\ Item(d).is # "error"
    BY KindsDeclare DEF Definitions, ItemsOf, Collected
  <2>2. Place(order, d) - 1 \in Nat
    BY PlacesOfDefinitions
  <2>3. OwnName(e) # Append(OwnName(d), Place(order, d) - 1)
    BY <2>1, <2>2, FreeNames
  <2>4. Item(e).is = "error" => OwnName(e) # OwnName(d)
    BY <2>1, FreeNames
  <2> QED
    BY <2>3, <2>4, FinalNameOf
<1>3. ASSUME NEW d \in ItemsOf(FileLevel), IdName(Item(d).parts[1]) = IdName(Item(i).parts[1])
      PROVE  d = i
  <2>1. CASE Item(d).is = "error" /\ Item(i).is = "error"
    <3>1. OwnName(d) = OwnName(i)
      BY <1>1, <1>3, <2>1 DEF Definitions, ItemsOf, Collected
    <3> QED
      BY <2>1, <3>1, FreeNames
  <2>2. CASE d \in Definitions /\ i \in Definitions
    <3>1. Item(d).is # "error" /\ Item(i).is # "error"
      BY <2>2 DEF Definitions, ItemsOf, Collected
    <3>2. FinalNames(order)[Id(d)] = FinalNames(order)[Id(i)]
      BY <1>1, <1>3, <3>1
    <3> QED
      BY <2>2, <3>2, FinalNamesDiffer
  <2>3. ~(Item(d).is = "error" /\ i \in Definitions) /\ ~(Item(i).is = "error" /\ d \in Definitions)
    <3>1. \A e \in Definitions : Item(e).is # "error"
      BY DEF Definitions, ItemsOf, Collected
    <3> QED
      BY <1>1, <1>2, <1>3, <3>1
  <2> QED
    BY <1>1, <2>1, <2>2, <2>3
<1> QED
  BY <1>3 DEF DefinedAs

(* A sequence still begins as it did with another one after it. *)
LEMMA BeginningsStay ==
    ASSUME NEW T, NEW s \in Seq(T), NEW t \in Seq(T), 1 \in DOMAIN s
    PROVE  s \o t \in Seq(T) /\ 1 \in DOMAIN (s \o t) /\ (s \o t)[1] = s[1]
<1>1. Len(s) \in Nat /\ Len(s) >= 1 /\ Len(t) \in Nat
  OBVIOUS
<1>2. s \o t \in Seq(T) /\ Len(s \o t) = Len(s) + Len(t) /\ (s \o t)[1] = s[1]
  BY <1>1, ConcatProperties
<1> QED
  BY <1>1, <1>2

(* A dotted name begins with the first of its names. *)
LEMMA DottedBegins ==
    ASSUME NEW T, NEW parts \in Seq(T), parts # <<>>
    PROVE  Dotted(parts)[1] = parts[1].name
<1> DEFINE N == Len(parts)
           U == {Word(".")} \cup {parts[i].name : i \in DOMAIN parts}
           seqs == [i \in DOMAIN parts |-> IF i = 1 THEN <<parts[i].name>> ELSE <<Word("."), parts[i].name>>]
<1>1. N \in Nat /\ N # 0 /\ DOMAIN parts = 1 .. N
  BY EmptySeq
<1>2. ASSUME NEW i \in 1 .. N
      PROVE  seqs[i] \in Seq(U)
  <2>1. parts[i].name \in U /\ Word(".") \in U
    BY <1>1
  <2>2. seqs[i] = IF i = 1 THEN <<parts[i].name>> ELSE <<Word("."), parts[i].name>>
    BY <1>1
  <2> HIDE DEF U, seqs
  <2> QED
    BY <2>1, <2>2
<1>3. seqs[1] = <<parts[1].name>> /\ Len(seqs) = N /\ FlattenSeq(seqs) = Dotted(parts)
  BY <1>1 DEF Dotted
<1> HIDE DEF N, U, seqs
<1>4. PICK w : /\ FlattenSeq(seqs) = w[N]
               /\ \A k \in 1 .. N : w[k] = IF k = 1 THEN seqs[k] ELSE w[k - 1] \o seqs[k]
  BY <1>1, <1>3, FlattenIsFunction
<1> DEFINE Begins(k) == w[k] \in Seq(U) /\ 1 \in DOMAIN w[k] /\ w[k][1] = parts[1].name
           S == {n \in 0 .. N : n = 0 \/ Begins(n)}
<1>5. ASSUME NEW n \in 0 .. N, n \in S, n + 1 <= N
      PROVE  n + 1 \in S
  <2>1. n + 1 \in 1 .. N
    BY <1>1, <1>5
  <2>2. CASE n = 0
    <3>1. w[1] = <<parts[1].name>> /\ w[1] \in Seq(U)
      <4>1. 1 \in 1 .. N
        BY <2>1, <2>2
      <4> QED
        BY <1>2, <1>3, <1>4, <4>1
    <3>2. n + 1 = 1 /\ Begins(1)
      BY <2>2, <3>1
    <3> HIDE DEF Begins
    <3> QED
      BY <2>1, <3>2
  <2>3. CASE n # 0
    <3>1. Begins(n)
      BY <1>5, <2>3
    <3>2. w[n + 1] = w[n] \o seqs[n + 1]
      <4>1. n + 1 # 1 /\ (n + 1) - 1 = n
        BY <2>3
      <4> QED
        BY <1>4, <2>1, <4>1
    <3>3. seqs[n + 1] \in Seq(U)
      BY <1>2, <2>1
    <3>4. PICK u : u = w[n]
      OBVIOUS
    <3>5. PICK v : v = seqs[n + 1]
      OBVIOUS
    <3>6. u \o v \in Seq(U) /\ 1 \in DOMAIN (u \o v) /\ (u \o v)[1] = u[1]
      BY <3>1, <3>3, <3>4, <3>5, BeginningsStay
    <3>7. Begins(n + 1)
      BY <3>1, <3>2, <3>4, <3>5, <3>6
    <3> HIDE DEF Begins
    <3> QED
      BY <2>1, <3>7
  <2> QED
    BY <2>2, <2>3
<1>6. N \in S
  <2>1. 0 \in S
    BY <1>1
  <2> HIDE DEF S
  <2>2. 0 .. N \subseteq S
    BY <1>1, <1>5, <2>1, NumbersAreReached
  <2> QED
    BY <1>1, <2>2
<1> QED
  BY <1>1, <1>3, <1>4, <1>6

(* An access has a part that names no import, after those that do. *)
LEMMA AccessesGoWithin ==
    ASSUME program \in Programs, NEW i \in ItemsOf(Uses)
    PROVE  /\ Within(Item(i)) \in DOMAIN Item(i).parts
           /\ Item(i).parts[Within(Item(i))].id \notin ImportIds
           /\ \A k \in 1 .. Within(Item(i)) - 1 : Item(i).parts[k].id \in ImportIds
<1> DEFINE parts == Item(i).parts
           outside == {k \in DOMAIN parts : parts[k].id \notin ImportIds}
<1>1. i \in Items /\ i \in Standing(program, Uses)
  BY ItemsStand DEF ItemsOf
<1>2. Len(parts) \in DOMAIN parts /\ DOMAIN parts = 1 .. Len(parts) /\ Len(parts) \in Nat
      /\ Refers(program, i) = parts[Len(parts)].id
  BY <1>1, PathsEnd
<1>3. ASSUME NEW d \in ItemsOf({"import"})
      PROVE  Refers(program, i) # Id(d)
  <2>1. d \in Standing(program, Declaring) /\ Item(d).is = "import"
    BY KindsDeclare, ItemsStand DEF ItemsOf
  <2> QED
    BY <1>1, <2>1, ProgramsCompile DEF Item, Id, Declares
<1>4. Len(parts) \in outside
  BY <1>2, <1>3 DEF ImportIds
<1>5. outside \in SUBSET Nat /\ outside # {}
  BY <1>2, <1>4
<1>6. PICK m \in outside : \A n \in outside : m <= n
  <2> HIDE DEF outside
  <2> QED
    BY <1>5, LeastNumber
<1>7. ASSUME NEW k \in 1 .. m - 1 PROVE parts[k].id \in ImportIds
  <2>1. k \in DOMAIN parts /\ ~(m <= k)
    BY <1>2, <1>6
  <2> QED
    BY <1>6, <2>1
<1>8. m \in DOMAIN parts /\ parts[m].id \notin ImportIds
  BY <1>6
<1> QED
  BY <1>7, <1>8 DEF Within

(* A path to a modifier names the contract that declares it before it. *)
LEMMA ModifiersFollowContracts ==
    ASSUME program \in Programs, NEW i \in ItemsOf(Uses), ToModifier(Item(i))
    PROVE  \E c \in ItemsOf(FileLevel) : Id(c) \in TopLevel /\ Id(c) = Item(i).parts[Len(Item(i).parts) - 1].id
<1> DEFINE parts == Item(i).parts
<1>1. i \in Items /\ i \in Standing(program, Uses) /\ Item(i).is = "use"
  BY ItemsStand DEF ItemsOf, ToModifier
<1>2. /\ Len(parts) \in Nat /\ DOMAIN parts = 1 .. Len(parts) /\ Len(parts) > 1
      /\ Refers(program, i) = parts[Len(parts)].id
  BY <1>1, PathsEnd DEF ToModifier
<1>3. PICK d \in ItemsOf({"modifier"}) : parts[Len(parts)].id = Id(d)
  BY DEF ToModifier, ModifierIds
<1>4. i \in Standing(program, {"use"}) /\ d \in Standing(program, {"modifier"})
  BY <1>1, ItemsStand DEF ItemsOf
<1>5. Refers(program, i) = Declares(program, d)
  BY <1>2, <1>3 DEF Id, Item, Declares
<1>6. PICK c \in Standing(program, {"contract"}) : parts[Len(parts) - 1].id = Declares(program, c)
  <2>1. program[i[1]][i[2]].parts = parts
    BY DEF Item
  <2> HIDE DEF parts
  <2> QED
    BY <1>2, <1>4, <1>5, <2>1, ProgramsCompile
<1>7. c \in Standing(program, Declaring)
  BY <1>6 DEF Standing, Places, Declaring, FileLevel, Collected
<1>8. c \in ItemsOf(Declaring)
  <2>1. Len(parts) - 1 \in DOMAIN parts
    BY <1>2
  <2> QED
    BY <1>6, <1>7, <2>1, PathsStayWithin
<1>9. c \in ItemsOf({"contract"}) /\ Id(c) = Declares(program, c)
  BY <1>6, <1>8, ItemsStand DEF Id, Item, Declares
<1> QED
  BY <1>6, <1>9, KindsDeclare DEF TopLevel, Definitions

(* What an item is rewritten to begins with the name of what it leads to,    *)
(* unless it is an outdated path to a modifier.                              *)
LEMMA ImagesLead ==
    ASSUME NamesAreFree, program \in Programs, NEW i \in ItemsOf(Uses), ~OutdatedModifier(Item(i)),
           NEW id \in Leads(Item(i))
    PROVE  \E d \in ItemsOf(FileLevel) : Id(d) = id /\ Image(i[1], i[2])[1] = IdName(Item(d).parts[1])
<1> DEFINE item == Item(i)
           last == item.parts[Len(item.parts)]
           files == {Id(d) : d \in ItemsOf(FileLevel)}
           inner == {Id(d) : d \in Inner}
           around == item.parts[Len(item.parts) - 1].id
<1>1. i \in Items /\ item = program[i[1]][i[2]]
  BY DEF ItemsOf, Item
<1>2. /\ item.parts \in Seq(ToSet(item.parts))
      /\ Len(item.parts) \in DOMAIN item.parts /\ Len(item.parts) \in Nat
      /\ DOMAIN item.parts = 1 .. Len(item.parts)
      /\ Refers(program, i) = last.id
  BY <1>1, PathsEnd
<1>3. files \cap inner = {} /\ (ToModifier(item) => last.id \notin files \cup inner)
  BY StructsAreWithin, ModifiersAreWithin DEF ToModifier
<1>4. TopLevel \subseteq files
  BY KindsDeclare DEF TopLevel, Definitions
<1>5. ASSUME NEW d \in ItemsOf(FileLevel), Id(d) \in TopLevel
      PROVE  IdName(Item(d).parts[1]) = names[Id(d)]
  BY <1>5 DEF IdName, Id
<1>6. CASE item.is = "use"
  <2>1. Image(i[1], i[2]) =
           IF last.id \in inner /\ Len(item.parts) > 1 THEN Through(Declared(last.id))
           ELSE IF last.id \in TopLevel THEN <<names[last.id]>> ELSE Words(item)
    BY <1>1, <1>6 DEF Image, Erased, FileLevel, Collected
  <2>2. \/ last.id \in files /\ id = last.id
        \/ last.id \in inner /\ Len(item.parts) > 1 /\ id = Item(Declared(last.id)).of
        \/ last.id \notin files \cup inner /\ ToModifier(item) /\ id = around
    <3>1. item.parts[IF item.is = "access" THEN Within(item) ELSE Len(item.parts)].id = last.id
      BY <1>6
    <3>2. CASE last.id \in files
      BY <1>3, <1>6, <3>1, <3>2 DEF Leads
    <3>3. CASE last.id \notin files /\ last.id \in inner /\ Len(item.parts) > 1
      BY <1>3, <1>6, <3>1, <3>3 DEF Leads
    <3>4. CASE last.id \notin files /\ ~(last.id \in inner /\ Len(item.parts) > 1) /\ ToModifier(item)
      BY <1>3, <1>6, <3>1, <3>4 DEF Leads
    <3>5. CASE last.id \notin files /\ ~(last.id \in inner /\ Len(item.parts) > 1) /\ ~ToModifier(item)
      BY <1>6, <3>1, <3>5 DEF Leads
    <3> QED
      BY <3>2, <3>3, <3>4, <3>5
  <2>3. CASE last.id \in files /\ id = last.id
    <3>1. PICK d \in ItemsOf(FileLevel) : Id(d) = last.id
      BY <2>3
    <3>2. Item(d).is # "error"
      <4>1. d \in Standing(program, Declaring) /\ i \in Standing(program, Uses)
        BY KindsDeclare, ItemsStand
      <4>2. Declares(program, d) = Refers(program, i)
        BY <1>2, <3>1 DEF Item, Id, Declares
      <4>3. program[i[1]][i[2]].is = "use" /\ Item(d).is = program[d[1]][d[2]].is
        BY <1>1, <1>6 DEF Item
      <4> HIDE DEF item, last
      <4> QED
        BY <4>1, <4>2, <4>3, ProgramsCompile
    <3>3. last.id \in TopLevel
      BY <3>1, <3>2, KindsDeclare DEF TopLevel, Definitions
    <3>4. Image(i[1], i[2])[1] = names[last.id]
      BY <1>3, <2>1, <2>3, <3>3
    <3> QED
      BY <1>5, <2>3, <3>1, <3>3, <3>4
  <2>4. CASE last.id \in inner /\ Len(item.parts) > 1 /\ id = Item(Declared(last.id)).of
    <3>1. PICK s \in Inner : Id(s) = last.id
      BY <2>4
    <3>2. \A e \in Inner : Id(e) = last.id => e = s
      BY <3>1, KindsDeclare, IdsDiffer DEF Inner
    <3>3. Declared(last.id) = s
      BY <3>1, <3>2 DEF Declared
    <3>4. s \in Standing(program, Members) /\ s[1] \in Files
      BY ItemsStand DEF Inner, Members, Standing, Places
    <3>5. PICK c \in Standing(program, {"contract"}) : c[1] = s[1] /\ Declares(program, c) = Item(s).of
      BY <3>4, ProgramsCompile DEF Item
    <3>6. c \in ItemsOf({"contract"}) /\ Id(c) = Item(s).of
      BY <3>4, <3>5, ItemsStand DEF Id, Item, Declares
    <3>7. c \in ItemsOf(FileLevel) /\ Id(c) \in TopLevel
      BY <3>6, KindsDeclare DEF TopLevel, Definitions
    <3>8. Image(i[1], i[2])[1] = names[Item(Declared(last.id)).of]
      BY <2>1, <2>4 DEF Through
    <3> QED
      BY <1>5, <2>4, <3>3, <3>6, <3>7, <3>8
  <2>5. CASE last.id \notin files \cup inner /\ ToModifier(item) /\ id = around
    <3>1. PICK c \in ItemsOf(FileLevel) : Id(c) \in TopLevel /\ Id(c) = around
      BY <2>5, ModifiersFollowContracts
    <3>2. Len(item.parts) = 2 /\ item.parts[1].name = names[item.parts[1].id]
      BY <2>5 DEF OutdatedModifier
    <3>3. around = item.parts[1].id
      BY <3>2
    <3>4. Image(i[1], i[2]) = Dotted(item.parts)
      BY <1>4, <1>6, <2>1, <2>5 DEF Words, Uses
    <3>5. Image(i[1], i[2])[1] = item.parts[1].name
      <4>1. item.parts # <<>>
        BY <1>2, <3>2
      <4> QED
        BY <1>2, <3>4, <4>1, DottedBegins
    <3> QED
      BY <1>5, <2>5, <3>1, <3>2, <3>3, <3>5
  <2> QED
    BY <2>2, <2>3, <2>4, <2>5
<1>7. CASE item.is = "access"
  <2> DEFINE within == Within(item)
             kept == SubSeq(item.parts, within, Len(item.parts))
             shown == [j \in DOMAIN kept |-> [name |-> IdName(kept[j]), id |-> kept[j].id]]
  <2>1. within \in DOMAIN item.parts
    BY AccessesGoWithin
  <2>2. kept \in Seq(ToSet(item.parts)) /\ 1 \in DOMAIN kept /\ kept[1] = item.parts[within]
    <3> HIDE DEF item, within
    <3> QED
      BY <1>2, <2>1
  <2>3. shown \in Seq(ToSet(shown)) /\ shown # <<>> /\ shown[1].name = IdName(kept[1])
    <3> HIDE DEF kept
    <3>1. DOMAIN kept = 1 .. Len(kept) /\ Len(kept) \in Nat
      BY <2>2
    <3> QED
      BY <2>2, <3>1 DEF ToSet
  <2>4. Image(i[1], i[2]) = Dotted(shown)
    BY <1>1, <1>7 DEF Image, Erased, FileLevel, Collected
  <2>5. Image(i[1], i[2])[1] = IdName(item.parts[within])
    <3> HIDE DEF shown, kept
    <3> QED
      BY <2>2, <2>3, <2>4, DottedBegins
  <2>6. item.parts[within].id \in files /\ id = item.parts[within].id
    <3>1. item.parts[IF item.is = "access" THEN Within(item) ELSE Len(item.parts)].id = item.parts[within].id
      BY <1>7
    <3>2. ~ToModifier(item)
      BY <1>7 DEF ToModifier
    <3>3. CASE item.parts[within].id \in files
      BY <1>7, <3>1, <3>2, <3>3 DEF Leads
    <3>4. CASE item.parts[within].id \notin files
      BY <1>7, <3>1, <3>2, <3>4 DEF Leads
    <3> QED
      BY <3>3, <3>4
  <2>7. PICK d \in ItemsOf(FileLevel) : Id(d) = item.parts[within].id
    BY <2>6
  <2>8. IdName(item.parts[within]) = IdName(Item(d).parts[1])
    <3>1. CASE Id(d) \in TopLevel
      BY <2>7, <3>1 DEF IdName, Id
    <3>2. CASE Id(d) \notin TopLevel
      <4>1. Item(d).is = "error"
        BY <3>2, KindsDeclare DEF TopLevel, Definitions
      <4>2. i \in Standing(program, Uses) /\ d \in Standing(program, FileLevel)
        BY ItemsStand
      <4>3. item.parts[within].name = Item(d).parts[1].name
        BY <2>1, <2>7, <4>1, <4>2 DEF NamesAreFree, Item, Id, Declares, NameOf
      <4> QED
        BY <2>7, <3>2, <4>3 DEF IdName, Id
    <3> QED
      BY <3>1, <3>2
  <2> QED
    BY <2>5, <2>6, <2>7, <2>8
<1>8. item.is \in {"use", "access"}
  BY DEF ItemsOf, Uses
<1> QED
  BY <1>6, <1>7, <1>8

(* As long as the program stays, so does what is read of it. *)
LEMMA ReadingsStay ==
    ASSUME program' = program
    PROVE  /\ Definitions' = Definitions /\ AllNames' = AllNames /\ TopLevel' = TopLevel
           /\ \A i : Id(i)' = Id(i) /\ Item(i)' = Item(i)
           /\ \A name : Orders(name)' = Orders(name) /\ Named(name)' = Named(name)
<1>1. Written' = Written
  BY DEF Written
<1>2. Files' = Files
  BY <1>1 DEF Files
<1>3. Items' = Items
  BY <1>2 DEF Items
<1>4. \A i : Item(i)' = Item(i)
  BY DEF Item
<1>5. \A i : Id(i)' = Id(i)
  BY <1>4 DEF Id
<1>6. Definitions' = Definitions
  BY <1>3, <1>4 DEF Definitions, ItemsOf
<1>7. AllNames' = AllNames /\ TopLevel' = TopLevel
  BY <1>4, <1>5, <1>6 DEF AllNames, TopLevel
<1>8. \A name : Named(name)' = Named(name)
  BY <1>4, <1>6 DEF Named
<1>9. \A f : Position(f)' = Position(f)
  BY <1>1 DEF Position
<1>10. \A name : Orders(name)' = Orders(name)
  BY <1>8, <1>9 DEF Orders
<1> QED
  BY <1>4, <1>5, <1>6, <1>7, <1>8, <1>10

(* The final names depend on the program alone. *)
LEMMA FinalNamesStay ==
    ASSUME program' = program, NEW order
    PROVE  FinalNames(order)' = FinalNames(order) /\ Numbered(order)' = Numbered(order)
<1>1. Numbered(order)' = Numbered(order)
  BY ReadingsStay DEF Numbered
<1> DEFINE which(id) == CHOOSE d \in Definitions : Id(d) = id
           number(i) == (CHOOSE n \in DOMAIN order[OwnName(i)] : order[OwnName(i)][n] = i) - 1
           final(i) == IF Cardinality(Named(OwnName(i))) = 1 THEN OwnName(i) ELSE Append(OwnName(i), number(i))
<1>2. \A id : which(id)' = which(id)
  BY ReadingsStay
<1>3. PICK bearer : bearer = [id \in TopLevel |-> which(id)]
  OBVIOUS
<1>4. bearer = [id \in TopLevel' |-> which(id)']
  BY <1>2, <1>3, ReadingsStay
<1>5. \A i : OwnName(i)' = OwnName(i)
  BY ReadingsStay DEF OwnName
<1>6. \A i : number(i)' = number(i) /\ Named(OwnName(i))' = Named(OwnName(i))
  BY <1>5, ReadingsStay
<1>7. \A i : final(i)' = final(i)
  <2> HIDE DEF number
  <2> QED
    BY <1>5, <1>6
<1>8. FinalNames(order) = [id \in TopLevel |-> final(bearer[id])]
  BY <1>3 DEF FinalNames, OwnName
<1>9. FinalNames(order)' = [id \in TopLevel' |-> final(bearer[id])']
  BY <1>4 DEF FinalNames, OwnName
<1> HIDE DEF which, final
<1>10. FinalNames(order)' = FinalNames(order)
  BY <1>7, <1>8, <1>9, ReadingsStay
<1> QED
  BY <1>1, <1>10

(* Once they are given, the names are the final names of some order. *)
NamesInv ==
    /\ program \in Programs
    /\ pass \notin {"filenames", "names"} => \E order : Numbered(order) /\ names = FinalNames(order)

(* The names are those of some numbering once the pass that gives them has run. *)
LEMMA NamesInvHolds == FlattenSpec => []NamesInv
<1>1. FlattenInit => NamesInv
  BY DEF FlattenInit, NamesInv
<1>2. NamesInv /\ [Flatten]_astVars => NamesInv'
  <2> SUFFICES ASSUME NamesInv, [Flatten]_astVars
               PROVE  NamesInv'
    OBVIOUS
  <2>1. CASE AppendFilenames
    BY <2>1 DEF AppendFilenames, Step, NamesInv
  <2>2. CASE RenameTopLevelDefinitions
    <3>1. program' = program
      BY <2>2 DEF RenameTopLevelDefinitions, Step
    <3>2. PICK order : Numbered(order) /\ names' = FinalNames(order)
      BY <2>2 DEF RenameTopLevelDefinitions, Numbered
    <3>3. Numbered(order)' /\ names' = FinalNames(order)'
      BY <3>1, <3>2, FinalNamesStay
    <3> QED
      BY <3>1, <3>3 DEF NamesInv
  <2>3. CASE \/ RenameContractLevelTypes \/ RemoveQualifiedImports \/ UpdateInheritdocs \/ RemoveDirectives
             \/ ApplyUpdates \/ UNCHANGED astVars
    <3>1. program' = program /\ names' = names
      BY <2>3 DEF RenameContractLevelTypes, RemoveQualifiedImports, UpdateInheritdocs, RemoveDirectives,
                  ApplyUpdates, Step, astVars
    <3>2. pass' \notin {"filenames", "names"} => pass \notin {"filenames", "names"}
      BY <2>3 DEF RenameContractLevelTypes, RemoveQualifiedImports, UpdateInheritdocs, RemoveDirectives,
                  ApplyUpdates, Step, astVars
    <3>3. ASSUME pass' \notin {"filenames", "names"}
          PROVE  \E order : Numbered(order)' /\ names' = FinalNames(order)'
      <4>1. PICK order : Numbered(order) /\ names = FinalNames(order)
        BY <3>2, <3>3 DEF NamesInv
      <4>2. Numbered(order)' /\ names' = FinalNames(order)'
        BY <3>1, <4>1, FinalNamesStay
      <4> QED
        BY <4>2
    <3> QED
      BY <3>1, <3>3 DEF NamesInv
  <2> QED
    BY <2>1, <2>2, <2>3 DEF Flatten
<1> QED
  BY <1>1, <1>2, PTL DEF FlattenSpec

(* Through an alias, a qualified import or the name of a definition that     *)
(* others share, what the result writes in place of a name is the name of    *)
(* the same definition, and no other definition of the result has it, with   *)
(* the exception of outdated paths to modifiers, which nothing rewrites      *)
(* (collect_top_level_definitions, rename_top_level_definitions,             *)
(* rename_contract_level_types_references, remove_qualified_imports).        *)
THEOREM NamesAreResolved ==
    ASSUME NamesAreFree
    PROVE  FlattenSpec => []NamesResolve
<1>1. NamesInv => NamesResolve
  <2> SUFFICES ASSUME NamesInv, Flattened, NEW i \in ItemsOf(Uses), ~OutdatedModifier(Item(i)),
                      NEW id \in Leads(Item(i))
               PROVE  DefinedAs(Image(i[1], i[2])[1]) = {id}
    BY DEF NamesResolve
  <2>1. program \in Programs
    BY DEF NamesInv
  <2>2. PICK order : Numbered(order) /\ names = FinalNames(order)
    BY DEF NamesInv, Flattened
  <2>3. PICK d \in ItemsOf(FileLevel) : Id(d) = id /\ Image(i[1], i[2])[1] = IdName(Item(d).parts[1])
    BY <2>1, ImagesLead
  <2>4. DefinedAs(IdName(Item(d).parts[1])) = {Id(d)}
    BY <2>1, <2>2, DefinedOnce
  <2> QED
    BY <2>3, <2>4
<1> QED
  BY <1>1, NamesInvHolds, PTL

-----------------------------------------------------------------------------
(* Edits of a text *)

(* Where a sequence that follows another one is cut. *)
LEMMA CutsAfter ==
    ASSUME NEW T, NEW s \in Seq(T), NEW t \in Seq(T), NEW n \in 0 .. Len(t)
    PROVE  /\ SubSeq(s \o t, 1, Len(s) + n) = s \o SubSeq(t, 1, n)
           /\ SubSeq(s \o t, Len(s) + n + 1, Len(s \o t)) = SubSeq(t, n + 1, Len(t))
<1> DEFINE u == s \o t
<1>1. /\ u \in Seq(T) /\ Len(u) = Len(s) + Len(t) /\ Len(s) \in Nat /\ Len(t) \in Nat
      /\ \A i \in 1 .. Len(s) : u[i] = s[i]
      /\ \A i \in 1 .. Len(t) : u[Len(s) + i] = t[i]
  <2>1. /\ u \in Seq(T) /\ Len(u) = Len(s) + Len(t)
        /\ \A i \in 1 .. Len(s) : u[i] = s[i]
        /\ \A i \in 1 .. Len(t) : u[Len(s) + i] = t[i]
    BY ConcatIs
  <2> QED
    BY <2>1
<1> HIDE DEF u
<1>2. SubSeq(u, 1, Len(s) + n) = s \o SubSeq(t, 1, n)
  <2> DEFINE c == SubSeq(u, 1, Len(s) + n)
             d == SubSeq(t, 1, n)
  <2>1. c \in Seq(T) /\ Len(c) = Len(s) + n /\ \A i \in 1 .. Len(s) + n : c[i] = u[i]
    BY <1>1
  <2>2. d \in Seq(T) /\ Len(d) = n /\ \A i \in 1 .. n : d[i] = t[i]
    BY <1>1
  <2> HIDE DEF c, d
  <2>3. /\ s \o d \in Seq(T) /\ Len(s \o d) = Len(s) + n
        /\ \A i \in 1 .. Len(s) : (s \o d)[i] = s[i]
        /\ \A i \in 1 .. n : (s \o d)[Len(s) + i] = d[i]
    BY <2>2, ConcatIs
  <2>4. ASSUME NEW i \in 1 .. Len(s) + n PROVE c[i] = (s \o d)[i]
    <3>1. CASE i <= Len(s)
      BY <1>1, <2>1, <2>3, <3>1
    <3>2. CASE i > Len(s)
      <4> PICK j, v : j = i - Len(s) /\ v = s \o d
        OBVIOUS
      <4>1. j \in 1 .. n /\ i = Len(s) + j /\ j \in 1 .. Len(t)
        BY <1>1, <3>2
      <4>2. v[Len(s) + j] = d[j] /\ u[Len(s) + j] = t[j]
        BY <1>1, <2>3, <4>1
      <4> QED
        BY <2>1, <2>2, <4>1, <4>2
    <3>3. i <= Len(s) \/ i > Len(s)
      BY <1>1
    <3> QED
      BY <3>1, <3>2, <3>3
  <2>5. c = s \o d
    BY <2>1, <2>3, <2>4, SeqEqual
  <2> QED
    BY <2>5 DEF c, d
<1>3. SubSeq(u, Len(s) + n + 1, Len(u)) = SubSeq(t, n + 1, Len(t))
  <2> DEFINE c == SubSeq(u, Len(s) + n + 1, Len(u))
             d == SubSeq(t, n + 1, Len(t))
  <2>1. \A i \in Len(s) + n + 1 .. Len(u) : u[i] \in T
    BY <1>1
  <2>2. /\ c \in Seq(T) /\ Len(c) = Len(t) - n
        /\ \A i \in 1 .. Len(t) - n : c[i] = u[Len(s) + n + 1 + i - 1]
    BY <1>1, <2>1, SubSeqProperties
  <2>3. n + 1 \in Int /\ Len(t) \in Int /\ \A i \in n + 1 .. Len(t) : t[i] \in T
    BY <1>1
  <2>4. /\ d \in Seq(T) /\ Len(d) = Len(t) - n
        /\ \A i \in 1 .. Len(t) - n : d[i] = t[n + 1 + i - 1]
    BY <1>1, <2>3, SubSeqProperties
  <2> HIDE DEF c, d
  <2>5. ASSUME NEW i \in 1 .. Len(t) - n PROVE c[i] = d[i]
    <3>1. n + i \in 1 .. Len(t) /\ Len(s) + n + 1 + i - 1 = Len(s) + (n + i) /\ n + 1 + i - 1 = n + i
      BY <1>1
    <3> QED
      BY <1>1, <2>2, <2>4, <3>1
  <2>6. c = d
    BY <2>2, <2>4, <2>5, SeqEqual
  <2> QED
    BY <2>6 DEF c, d
<1> QED
  BY <1>2, <1>3 DEF u

(* Cuts of what is left of a sequence are cuts of the sequence. *)
LEMMA CutsOfRest ==
    ASSUME NEW T, NEW W \in Seq(T), NEW a \in 0 .. Len(W), NEW b \in a .. Len(W)
    PROVE  /\ SubSeq(W, a + 1, Len(W)) \in Seq(T) /\ Len(SubSeq(W, a + 1, Len(W))) = Len(W) - a
           /\ SubSeq(W, a + 1, b) \in Seq(T) /\ Len(SubSeq(W, a + 1, b)) = b - a
           /\ SubSeq(SubSeq(W, a + 1, Len(W)), 1, b - a) = SubSeq(W, a + 1, b)
           /\ SubSeq(SubSeq(W, a + 1, Len(W)), b - a + 1, Len(W) - a) = SubSeq(W, b + 1, Len(W))
<1> DEFINE L == Len(W)
           r == SubSeq(W, a + 1, L)
           c == SubSeq(W, a + 1, b)
           d == SubSeq(W, b + 1, L)
           x == SubSeq(r, 1, b - a)
           y == SubSeq(r, b - a + 1, L - a)
<1>1. L \in Nat /\ a \in Nat /\ b \in Nat /\ a <= b /\ b <= L /\ \A i \in 1 .. L : W[i] \in T
  OBVIOUS
<1> HIDE DEF L
<1>2. r \in Seq(T) /\ Len(r) = L - a /\ \A i \in 1 .. L - a : r[i] = W[a + i]
  <2>1. \A i \in a + 1 .. L : W[i] \in T
    BY <1>1
  <2>2. r \in Seq(T) /\ Len(r) = L - a /\ \A i \in 1 .. L - a : r[i] = W[a + 1 + i - 1]
    BY <1>1, <2>1, SubSeqProperties
  <2>3. \A i \in 1 .. L - a : a + 1 + i - 1 = a + i
    BY <1>1
  <2> HIDE DEF r
  <2> QED
    BY <2>2, <2>3
<1>3. c \in Seq(T) /\ Len(c) = b - a /\ \A i \in 1 .. b - a : c[i] = W[a + i]
  <2>1. \A i \in a + 1 .. b : W[i] \in T
    BY <1>1
  <2>2. c \in Seq(T) /\ Len(c) = b - a /\ \A i \in 1 .. b - a : c[i] = W[a + 1 + i - 1]
    BY <1>1, <2>1, SubSeqProperties
  <2>3. \A i \in 1 .. b - a : a + 1 + i - 1 = a + i
    BY <1>1
  <2> HIDE DEF c
  <2> QED
    BY <2>2, <2>3
<1>4. d \in Seq(T) /\ Len(d) = L - b /\ \A i \in 1 .. L - b : d[i] = W[b + i]
  <2>1. \A i \in b + 1 .. L : W[i] \in T
    BY <1>1
  <2>2. d \in Seq(T) /\ Len(d) = L - b /\ \A i \in 1 .. L - b : d[i] = W[b + 1 + i - 1]
    BY <1>1, <2>1, SubSeqProperties
  <2>3. \A i \in 1 .. L - b : b + 1 + i - 1 = b + i
    BY <1>1
  <2> HIDE DEF d
  <2> QED
    BY <2>2, <2>3
<1> HIDE DEF r, c, d
<1>5. x \in Seq(T) /\ Len(x) = b - a /\ \A i \in 1 .. b - a : x[i] = r[i]
  <2>1. \A i \in 1 .. b - a : r[i] \in T
    BY <1>1, <1>2
  <2>2. x \in Seq(T) /\ Len(x) = b - a /\ \A i \in 1 .. b - a : x[i] = r[1 + i - 1]
    BY <1>1, <2>1, SubSeqProperties
  <2>3. \A i \in 1 .. b - a : 1 + i - 1 = i
    BY <1>1
  <2> HIDE DEF x
  <2> QED
    BY <2>2, <2>3
<1>6. y \in Seq(T) /\ Len(y) = L - b /\ \A i \in 1 .. L - b : y[i] = r[b - a + i]
  <2>1. \A i \in b - a + 1 .. L - a : r[i] \in T
    BY <1>1, <1>2
  <2>2. y \in Seq(T) /\ Len(y) = L - b /\ \A i \in 1 .. L - b : y[i] = r[b - a + 1 + i - 1]
    BY <1>1, <2>1, SubSeqProperties
  <2>3. \A i \in 1 .. L - b : b - a + 1 + i - 1 = b - a + i
    BY <1>1
  <2> HIDE DEF y
  <2> QED
    BY <2>2, <2>3
<1> HIDE DEF x, y
<1>7. x = c
  <2>1. ASSUME NEW i \in 1 .. b - a PROVE x[i] = c[i]
    <3>1. i \in 1 .. L - a
      BY <1>1
    <3> QED
      BY <1>2, <1>3, <1>5, <3>1
  <2> QED
    BY <1>3, <1>5, <2>1, SeqEqual
<1>8. y = d
  <2>1. ASSUME NEW i \in 1 .. L - b PROVE y[i] = d[i]
    <3>1. b - a + i \in 1 .. L - a /\ a + (b - a + i) = b + i
      BY <1>1
    <3> QED
      BY <1>2, <1>4, <1>6, <3>1
  <2> QED
    BY <1>4, <1>6, <2>1, SeqEqual
<1> QED
  BY <1>2, <1>3, <1>7, <1>8 DEF r, c, d, x, y, L

(* What an edit leaves when those before it were made up to some word: the   *)
(* words up to it follow, then its text, then the rest of the words.         *)
Reached(W, read, a) == [words |-> read \o SubSeq(W, a + 1, Len(W)), offset |-> Len(read) - a]

(* One update applied to a text whose first a words have been read. *)
LEMMA EditsApply ==
    ASSUME NEW T, NEW W \in Seq(T), NEW read \in Seq(T), NEW text \in Seq(T),
           NEW a \in 0 .. Len(W), NEW b \in a .. Len(W), NEW c \in b .. Len(W)
    PROVE  Applied(Reached(W, read, a), Edit(b, c, text))
               = Reached(W, (read \o SubSeq(W, a + 1, b)) \o text, c)
<1> DEFINE e == Edit(b, c, text)
           done == Reached(W, read, a)
           off == Len(read) - a
           rest == SubSeq(W, a + 1, Len(W))
           to == SubSeq(W, a + 1, b)
           from == SubSeq(W, c + 1, Len(W))
<1>1. /\ Len(W) \in Nat /\ a \in Nat /\ b \in Nat /\ c \in Nat /\ a <= b /\ b <= c /\ c <= Len(W)
      /\ Len(read) \in Nat /\ Len(text) \in Nat /\ off \in Int
  OBVIOUS
<1>2. /\ rest \in Seq(T) /\ Len(rest) = Len(W) - a
      /\ to \in Seq(T) /\ Len(to) = b - a
      /\ SubSeq(rest, 1, b - a) = to
  BY CutsOfRest
<1>3. /\ SubSeq(rest, c - a + 1, Len(W) - a) = from
      /\ from \in Seq(T)
  <2>1. c \in a .. Len(W) /\ Len(W) \in c .. Len(W)
    BY <1>1
  <2>2. SubSeq(rest, c - a + 1, Len(W) - a) = from
    BY <2>1, CutsOfRest
  <2>3. c \in 0 .. Len(W)
    BY <1>1
  <2>4. from \in Seq(T)
    BY <2>1, <2>3, CutsOfRest
  <2> QED
    BY <2>2, <2>4
<1>4. /\ done.words = read \o rest /\ done.offset = off
      /\ e.from = b /\ e.to = c /\ e.text = text
      /\ Shifted(e, off).from = b + off /\ Shifted(e, off).to = c + off /\ Shifted(e, off).text = text
  BY DEF Edit, Reached, Shifted
<1> HIDE DEF rest, to, from, e, done
<1>5. SubSeq(read \o rest, 1, b + off) = read \o to
  <2> PICK n : n = b - a
    OBVIOUS
  <2>1. n \in 0 .. Len(rest) /\ Len(read) + n = b + off
    BY <1>1, <1>2
  <2>2. SubSeq(read \o rest, 1, Len(read) + n) = read \o SubSeq(rest, 1, n)
    BY <1>2, <2>1, CutsAfter
  <2> QED
    BY <1>2, <2>1, <2>2
<1>6. SubSeq(read \o rest, c + off + 1, Len(read \o rest)) = from
  <2>1. c - a \in 0 .. Len(rest) /\ Len(read) + (c - a) + 1 = c + off + 1
    BY <1>1, <1>2
  <2>2. SubSeq(read \o rest, Len(read) + (c - a) + 1, Len(read \o rest)) = SubSeq(rest, c - a + 1, Len(rest))
    BY <1>2, <2>1, CutsAfter
  <2> QED
    BY <1>2, <1>3, <2>1, <2>2
<1>7. Replaced(done.words, Shifted(e, done.offset)) = ((read \o to) \o text) \o from
  BY <1>4, <1>5, <1>6 DEF Replaced
<1>8. done.offset + Len(e.text) - (e.to - e.from) = Len((read \o to) \o text) - c
  <2>1. read \o to \in Seq(T) /\ Len(read \o to) = Len(read) + (b - a)
    BY <1>2, ConcatProperties
  <2>2. Len((read \o to) \o text) = Len(read) + (b - a) + Len(text)
    BY <2>1, ConcatProperties
  <2> QED
    BY <1>1, <1>4, <2>2
<1>9. Applied(done, e) = [words |-> Replaced(done.words, Shifted(e, done.offset)),
                          offset |-> done.offset + Len(e.text) - (e.to - e.from)]
  BY DEF Applied
<1>10. Reached(W, (read \o to) \o text, c) = [words |-> ((read \o to) \o text) \o from, offset |-> Len((read \o to) \o text) - c]
  BY DEF Reached, from
<1>11. Applied(done, e) = Reached(W, (read \o to) \o text, c)
  BY <1>7, <1>8, <1>9, <1>10
<1> QED
  BY <1>11 DEF done, e, to

(* Edits that do not overlap, of the words after a up to b, and what these   *)
(* read then: grown is, up to every word, what it and those before it read.  *)
Apart(T, E, a, b) ==
    /\ \A e \in E :
          /\ e = Edit(e.from, e.to, e.text) /\ e.text \in Seq(T)
          /\ e.from \in Nat /\ e.to \in Nat /\ a <= e.from /\ e.from < e.to /\ e.to <= b
    /\ \A d, e \in E : d = e \/ d.to <= e.from \/ e.to <= d.from

Grown(T, W, a, b, E, grown) ==
    /\ \A n \in a .. b : grown[n] \in Seq(T)
    /\ \A e \in E : grown[e.to] = grown[e.from] \o e.text
    /\ \A n \in a + 1 .. b :
          \/ \E e \in E : e.from < n /\ n <= e.to
          \/ grown[n] = grown[n - 1] \o <<W[n]>>

Reads(T, W, a, b, E, s) ==
    /\ Apart(T, E, a, b)
    /\ \E grown : Grown(T, W, a, b, E, grown) /\ grown[a] = <<>> /\ grown[b] = s

(* No words, without edits, read nothing. *)
LEMMA NothingReads ==
    ASSUME NEW T, NEW W, NEW a \in Nat
    PROVE  Reads(T, W, a, a, {}, <<>>)
<1> PICK grown : grown = [n \in a .. a |-> <<>>]
  OBVIOUS
<1>1. \A n \in a .. a : grown[n] = <<>>
  OBVIOUS
<1>2. Grown(T, W, a, a, {}, grown)
  BY <1>1 DEF Grown
<1>3. Apart(T, {}, a, a)
  BY DEF Apart
<1> QED
  BY <1>1, <1>2, <1>3 DEF Reads

(* A word that no edit is about reads itself. *)
LEMMA WordReads ==
    ASSUME NEW T, NEW W, NEW a \in Nat, W[a + 1] \in T
    PROVE  Reads(T, W, a, a + 1, {}, <<W[a + 1]>>)
<1> PICK grown : grown = [n \in a .. a + 1 |-> IF n = a THEN <<>> ELSE <<W[a + 1]>>]
  OBVIOUS
<1>1. grown[a] = <<>> /\ grown[a + 1] = <<W[a + 1]>>
  OBVIOUS
<1>2. Grown(T, W, a, a + 1, {}, grown)
  <2>1. \A n \in a .. a + 1 : n = a \/ n = a + 1
    OBVIOUS
  <2>2. \A n \in a + 1 .. a + 1 : n = a + 1 /\ n - 1 = a
    OBVIOUS
  <2>3. <<W[a + 1]>> = <<>> \o <<W[a + 1]>> /\ <<W[a + 1]>> \in Seq(T) /\ <<>> \in Seq(T)
    OBVIOUS
  <2> QED
    BY <1>1, <2>1, <2>2, <2>3 DEF Grown
<1>3. Apart(T, {}, a, a + 1)
  BY DEF Apart
<1> QED
  BY <1>1, <1>2, <1>3 DEF Reads

(* The words an edit replaces read what it puts there. *)
LEMMA EditReads ==
    ASSUME NEW T, NEW W, NEW a \in Nat, NEW b \in Nat, NEW text \in Seq(T), a < b
    PROVE  Reads(T, W, a, b, {Edit(a, b, text)}, text)
<1> PICK grown : grown = [n \in a .. b |-> IF n = b THEN text ELSE <<>>]
  OBVIOUS
<1> PICK e : e = Edit(a, b, text)
  OBVIOUS
<1>1. grown[a] = <<>> /\ grown[b] = text /\ \A n \in a .. b : grown[n] \in Seq(T)
  OBVIOUS
<1>2. e.from = a /\ e.to = b /\ e.text = text
  BY DEF Edit
<1>3. Grown(T, W, a, b, {e}, grown)
  <2>1. grown[e.to] = grown[e.from] \o e.text
    BY <1>1, <1>2
  <2>2. \A n \in a + 1 .. b : e.from < n /\ n <= e.to
    BY <1>2
  <2> QED
    BY <1>1, <2>1, <2>2 DEF Grown
<1>4. Apart(T, {e}, a, b)
  <2>1. e = Edit(e.from, e.to, e.text)
    BY <1>2
  <2> QED
    BY <1>2, <2>1 DEF Apart
<1> QED
  BY <1>1, <1>3, <1>4 DEF Reads

(* A sequence put after one in two parts. *)
LEMMA Regrouped ==
    ASSUME NEW T, NEW s \in Seq(T), NEW t \in Seq(T), NEW u \in Seq(T), NEW v, v = t \o u
    PROVE  s \o v = (s \o t) \o u
  BY ConcatAssociative

(* What words read, and what those after them read. *)
LEMMA ThenReads ==
    ASSUME NEW T, NEW W, NEW a \in Nat, NEW b \in Nat, NEW c \in Nat, NEW D, NEW E, NEW s, NEW t,
           a <= b, b <= c, Reads(T, W, a, b, D, s), Reads(T, W, b, c, E, t)
    PROVE  Reads(T, W, a, c, D \cup E, s \o t)
<1>1. PICK g : Grown(T, W, a, b, D, g) /\ g[a] = <<>> /\ g[b] = s
  BY DEF Reads
<1>2. PICK h : Grown(T, W, b, c, E, h) /\ h[b] = <<>> /\ h[c] = t
  BY DEF Reads
<1>3. /\ \A e \in D : /\ e = Edit(e.from, e.to, e.text) /\ e.text \in Seq(T)
                      /\ e.from \in Nat /\ e.to \in Nat /\ a <= e.from /\ e.from < e.to /\ e.to <= b
      /\ \A d, e \in D : d = e \/ d.to <= e.from \/ e.to <= d.from
  BY DEF Reads, Apart
<1>4. /\ \A e \in E : /\ e = Edit(e.from, e.to, e.text) /\ e.text \in Seq(T)
                      /\ e.from \in Nat /\ e.to \in Nat /\ b <= e.from /\ e.from < e.to /\ e.to <= c
      /\ \A d, e \in E : d = e \/ d.to <= e.from \/ e.to <= d.from
  BY DEF Reads, Apart
<1>5. Apart(T, D \cup E, a, c)
  <2>1. ASSUME NEW e \in D \cup E
        PROVE  /\ e = Edit(e.from, e.to, e.text) /\ e.text \in Seq(T)
               /\ e.from \in Nat /\ e.to \in Nat /\ a <= e.from /\ e.from < e.to /\ e.to <= c
    <3>1. CASE e \in D
      BY <1>3, <3>1
    <3>2. CASE e \in E
      BY <1>4, <3>2
    <3> QED
      BY <3>1, <3>2
  <2>2. ASSUME NEW d \in D \cup E, NEW e \in D \cup E
        PROVE  d = e \/ d.to <= e.from \/ e.to <= d.from
    <3>1. CASE d \in D /\ e \in E
      <4>1. d.to <= b /\ b <= e.from /\ d.to \in Nat /\ e.from \in Nat
        BY <1>3, <1>4, <3>1
      <4> QED
        BY <4>1
    <3>2. CASE d \in E /\ e \in D
      <4>1. e.to <= b /\ b <= d.from /\ e.to \in Nat /\ d.from \in Nat
        BY <1>3, <1>4, <3>2
      <4> QED
        BY <4>1
    <3>3. CASE d \in D /\ e \in D
      BY <1>3, <3>3
    <3>4. CASE d \in E /\ e \in E
      BY <1>4, <3>4
    <3> QED
      BY <3>1, <3>2, <3>3, <3>4
  <2> QED
    BY <2>1, <2>2 DEF Apart
<1>0. PICK k : k = [n \in a .. c |-> IF n <= b THEN g[n] ELSE s \o h[n]]
  OBVIOUS
<1>6. \A n \in a .. b : k[n] = g[n] /\ g[n] \in Seq(T)
  BY <1>0, <1>1 DEF Grown
<1>7. s \in Seq(T) /\ t \in Seq(T)
  <2>1. b \in a .. b /\ c \in b .. c
    OBVIOUS
  <2> QED
    BY <1>1, <1>2, <2>1 DEF Grown
<1>8. ASSUME NEW n \in b .. c
      PROVE  k[n] = s \o h[n] /\ h[n] \in Seq(T) /\ k[n] \in Seq(T)
  <2>1. h[n] \in Seq(T)
    BY <1>2 DEF Grown
  <2>2. CASE n = b
    <3>1. b \in a .. b /\ s \o <<>> = s
      BY <1>7
    <3> QED
      BY <1>1, <1>2, <1>6, <1>7, <2>1, <2>2, <3>1
  <2>3. CASE n # b
    <3>1. n \in a .. c /\ ~(n <= b)
      BY <2>3
    <3>2. k[n] = s \o h[n]
      BY <1>0, <3>1
    <3> PICK u : u = h[n]
      OBVIOUS
    <3>3. s \o u \in Seq(T)
      BY <1>7, <2>1, ConcatProperties
    <3> QED
      BY <2>1, <3>2, <3>3
  <2> QED
    BY <2>2, <2>3
<1>9. \A n \in a .. c : n \in a .. b \/ n \in b + 1 .. c
  OBVIOUS
<1>10. \A n \in a .. c : k[n] \in Seq(T)
  <2>1. \A n \in b + 1 .. c : n \in b .. c
    OBVIOUS
  <2> QED
    BY <1>6, <1>8, <1>9, <2>1
<1>11. ASSUME NEW e \in D \cup E
       PROVE  k[e.to] = k[e.from] \o e.text
  <2>1. CASE e \in D
    <3>1. e.from \in a .. b /\ e.to \in a .. b
      BY <1>3, <2>1
    <3>2. g[e.to] = g[e.from] \o e.text
      BY <1>1, <2>1 DEF Grown
    <3> QED
      BY <1>6, <3>1, <3>2
  <2>2. CASE e \in E
    <3>1. e.from \in b .. c /\ e.to \in b .. c /\ e.text \in Seq(T)
      BY <1>4, <2>2
    <3>2. h[e.to] = h[e.from] \o e.text
      BY <1>2, <2>2 DEF Grown
    <3>3. PICK u, v, x : u = h[e.from] /\ v = h[e.to] /\ x = e.text
      OBVIOUS
    <3>4. k[e.to] = s \o v /\ k[e.from] = s \o u /\ u \in Seq(T)
      BY <1>8, <3>1, <3>3
    <3>5. s \in Seq(T) /\ u \in Seq(T) /\ x \in Seq(T) /\ v = u \o x
      BY <1>7, <3>1, <3>2, <3>3, <3>4
    <3>6. s \o v = (s \o u) \o x
      BY <3>5, Regrouped
    <3> QED
      BY <3>3, <3>4, <3>6
  <2> QED
    BY <1>11, <2>1, <2>2
<1>12. ASSUME NEW n \in a + 1 .. c
       PROVE  \/ \E e \in D \cup E : e.from < n /\ n <= e.to
              \/ k[n] = k[n - 1] \o <<W[n]>>
  <2>1. CASE n \in a + 1 .. b
    <3>1. n \in a .. b /\ n - 1 \in a .. b
      BY <2>1
    <3>2. \/ \E e \in D : e.from < n /\ n <= e.to
          \/ g[n] = g[n - 1] \o <<W[n]>>
      BY <1>1, <2>1 DEF Grown
    <3> QED
      BY <1>6, <3>1, <3>2
  <2>2. CASE n \in b + 1 .. c
    <3>1. n \in b .. c /\ n - 1 \in b .. c
      BY <2>2
    <3>2. \/ \E e \in E : e.from < n /\ n <= e.to
          \/ h[n] = h[n - 1] \o <<W[n]>>
      BY <1>2, <2>2 DEF Grown
    <3>3. ASSUME h[n] = h[n - 1] \o <<W[n]>>
          PROVE  k[n] = k[n - 1] \o <<W[n]>>
      <4>0. PICK u, v, x : u = h[n - 1] /\ v = h[n] /\ x = <<W[n]>>
        OBVIOUS
      <4>1. k[n] = s \o v /\ k[n - 1] = s \o u /\ u \in Seq(T) /\ v \in Seq(T)
        BY <1>8, <3>1, <4>0
      <4>2. v = u \o x
        BY <3>3, <4>0
      <4>3. x \in Seq({W[n]})
        BY <4>0
      <4> DEFINE S == T \cup {W[n]}
      <4>4. x \in Seq(S) /\ s \in Seq(S) /\ u \in Seq(S)
        <5>1. T \subseteq S /\ {W[n]} \subseteq S
          OBVIOUS
        <5> HIDE DEF S
        <5> QED
          BY <1>7, <4>1, <4>3, <5>1, SeqMonotonic
      <4> HIDE DEF S
      <4>5. s \o v = (s \o u) \o x
        BY <4>2, <4>4, Regrouped
      <4> QED
        BY <4>0, <4>1, <4>5
    <3> QED
      BY <3>2, <3>3
  <2>3. n \in a + 1 .. b \/ n \in b + 1 .. c
    BY <1>12
  <2> QED
    BY <2>1, <2>2, <2>3
<1>13. Grown(T, W, a, c, D \cup E, k)
  BY <1>10, <1>11, <1>12 DEF Grown
<1>14. k[a] = <<>> /\ k[c] = s \o t
  <2>1. a \in a .. b /\ c \in b .. c
    OBVIOUS
  <2> QED
    BY <1>1, <1>2, <1>6, <1>8, <2>1
<1> QED
  BY <1>5, <1>13, <1>14 DEF Reads

(* Every edit is applied once, an earlier one earlier. *)
Prior(d, e) == d.from < e.from \/ (d.from = e.from /\ d.to < e.to)

(* The BTreeSet of updates: each once, in the order of its places. *)
LEMMA EditsAreOrdered ==
    ASSUME NEW E, IsFiniteSet(E),
           \A e \in E : e.from \in Nat /\ e.to \in Nat,
           \A d, e \in E : d.from = e.from /\ d.to = e.to => d = e
    PROVE  /\ Cardinality(E) \in Nat /\ DOMAIN InOrder(E) = 1 .. Cardinality(E)
           /\ Len(InOrder(E)) = Cardinality(E)
           /\ \A n \in DOMAIN InOrder(E) : InOrder(E)[n] \in E
           /\ \A e \in E : \E n \in DOMAIN InOrder(E) : InOrder(E)[n] = e
           /\ \A m, n \in DOMAIN InOrder(E) : m < n => Prior(InOrder(E)[m], InOrder(E)[n])
<1> DEFINE before(e) == {d \in E : d.from < e.from \/ (d.from = e.from /\ d.to < e.to)}
           place == [e \in E |-> Cardinality(before(e)) + 1]
<1>1. Cardinality(E) \in Nat
  BY FS_CardinalityType
<1>2. ASSUME NEW e \in E
      PROVE  /\ before(e) \in SUBSET E /\ IsFiniteSet(before(e))
             /\ Cardinality(before(e)) \in Nat /\ Cardinality(before(e)) < Cardinality(E)
  <2>1. before(e) \in SUBSET E /\ before(e) # E
    OBVIOUS
  <2> HIDE DEF before
  <2>2. IsFiniteSet(before(e)) /\ Cardinality(before(e)) <= Cardinality(E) /\ Cardinality(before(e)) # Cardinality(E)
    BY <2>1, FS_Subset
  <2>3. Cardinality(before(e)) \in Nat
    BY <2>2, FS_CardinalityType
  <2> QED
    BY <1>1, <2>1, <2>2, <2>3
<1>3. ASSUME NEW d \in E, NEW e \in E, Prior(d, e)
      PROVE  Cardinality(before(d)) < Cardinality(before(e))
  <2>1. before(d) \in SUBSET before(e)
    BY <1>3 DEF Prior
  <2>2. d \in before(e) /\ d \notin before(d)
    BY <1>3 DEF Prior
  <2>3. /\ IsFiniteSet(before(d)) /\ Cardinality(before(d)) \in Nat
        /\ IsFiniteSet(before(e)) /\ Cardinality(before(e)) \in Nat
    BY <1>2
  <2> HIDE DEF before
  <2>4. Cardinality(before(d)) <= Cardinality(before(e)) /\ Cardinality(before(d)) # Cardinality(before(e))
    BY <2>1, <2>2, <2>3, FS_Subset
  <2> QED
    BY <2>3, <2>4
<1>4. \A d, e \in E : d = e \/ Prior(d, e) \/ Prior(e, d)
  BY DEF Prior
<1>5. place \in [E -> 1 .. Cardinality(E)]
  <2>1. ASSUME NEW e \in E PROVE Cardinality(before(e)) + 1 \in 1 .. Cardinality(E)
    <3>1. Cardinality(before(e)) \in Nat /\ Cardinality(before(e)) < Cardinality(E)
      BY <1>2
    <3> HIDE DEF before
    <3> QED
      BY <1>1, <3>1
  <2> HIDE DEF before
  <2> QED
    BY <2>1
<1>6. \A e \in E : place[e] = Cardinality(before(e)) + 1
  OBVIOUS
<1>7. ASSUME NEW d \in E, NEW e \in E, Cardinality(before(d)) = Cardinality(before(e)) PROVE d = e
  <2>1. Cardinality(before(d)) \in Nat /\ Cardinality(before(e)) \in Nat
    BY <1>2
  <2> HIDE DEF before
  <2> QED
    BY <1>3, <1>4, <1>7, <2>1
<1>8. \A d, e \in E : place[d] = place[e] => d = e
  <2>1. \A d \in E : Cardinality(before(d)) \in Nat
    BY <1>2
  <2> HIDE DEF before, place
  <2> QED
    BY <1>6, <1>7, <2>1
<1> HIDE DEF place
<1>9. PICK s \in SetToSeqs(E) : \A n \in DOMAIN s : place[s[n]] = n
  BY <1>5, <1>8, PlacesAreEnumerated
<1>10. /\ s \in Seq(E) /\ DOMAIN s = 1 .. Cardinality(E)
       /\ \A m, n \in DOMAIN s : s[m] = s[n] => m = n
       /\ \A x \in E : \E n \in DOMAIN s : s[n] = x
  BY EnumerationsAreOnto
<1>11. \A n \in DOMAIN s : s[n] \in E
  <2>1. s \in Seq(E)
    BY <1>10
  <2> HIDE DEF before
  <2> QED
    BY <2>1
<1>12. \A n \in DOMAIN s : Cardinality(before(s[n])) = n - 1
  <2> HIDE DEF before
  <2>1. \A n \in DOMAIN s : Cardinality(before(s[n])) \in Nat /\ n \in Nat /\ place[s[n]] = n
    <3>1. \A e \in E : Cardinality(before(e)) \in Nat
      BY <1>2
    <3> QED
      BY <1>9, <1>10, <1>11, <3>1
  <2> QED
    BY <1>6, <1>11, <2>1
<1>13. InOrder(E) = [n \in 1 .. Cardinality(E) |-> CHOOSE e \in E : Cardinality(before(e)) = n - 1]
  BY DEF InOrder
<1>14. \A n \in DOMAIN s : (CHOOSE e \in E : Cardinality(before(e)) = n - 1) = s[n]
  <2> HIDE DEF before
  <2> QED
    BY <1>7, <1>11, <1>12
<1>15. InOrder(E) = s
  <2> HIDE DEF before
  <2>1. InOrder(E) = [n \in 1 .. Cardinality(E) |-> s[n]]
    BY <1>10, <1>13, <1>14
  <2>2. s = [n \in 1 .. Cardinality(E) |-> s[n]]
    BY <1>10
  <2> QED
    BY <2>1, <2>2
<1>16. ASSUME NEW m \in DOMAIN s, NEW n \in DOMAIN s, m < n
       PROVE  Prior(s[m], s[n])
  <2>1. s[m] \in E /\ s[n] \in E /\ m \in Nat /\ n \in Nat
    BY <1>10, <1>11
  <2>2. s[m] # s[n]
    BY <1>10, <1>16, <2>1
  <2>3. ~Prior(s[n], s[m])
    <3> HIDE DEF before
    <3> QED
      BY <1>3, <1>12, <1>16, <2>1
  <2> QED
    BY <1>4, <2>1, <2>2, <2>3
<1>17. Len(s) = Cardinality(E)
  BY <1>1, <1>10
<1> HIDE DEF before
<1> QED
  BY <1>1, <1>10, <1>11, <1>15, <1>16, <1>17

(* What Edited keeps while it applies the edits. *)
InTurn(W, order, done) ==
    /\ done[0] = [words |-> W, offset |-> 0]
    /\ \A n \in 1 .. Len(order) : done[n] = Applied(done[n - 1], order[n])

(* What apply_updates returns is what the last update of the loop leaves. *)
LEMMA EditedIsReached ==
    ASSUME NEW W, NEW E, NEW N \in Nat, NEW order, order = InOrder(E), Len(order) = N
    PROVE  \E done : Edited(W, E) = done[N].words /\ InTurn(W, order, done)
<1> DEFINE start == [words |-> W, offset |-> 0]
           Equation(w, n) == w[n] = IF n = 0 THEN start ELSE Applied(w[n - 1], order[n])
           Good == {n \in 0 .. N : \E w : \A k \in 0 .. n : Equation(w, k)}
<1>1. 0 \in Good
  <2>1. Equation([k \in 0 .. 0 |-> start], 0)
    OBVIOUS
  <2>2. \A k \in 0 .. 0 : k = 0
    OBVIOUS
  <2> HIDE DEF Equation
  <2> QED
    BY <2>1, <2>2
<1>2. ASSUME NEW n \in 0 .. N, n \in Good, n + 1 <= N
      PROVE  n + 1 \in Good
  <2>1. PICK w : \A k \in 0 .. n : Equation(w, k)
    BY <1>2
  <2> DEFINE u == [k \in 0 .. (n + 1) |-> IF k = n + 1 THEN Applied(w[n], order[k]) ELSE w[k]]
  <2>2. \A k \in 0 .. n : u[k] = w[k]
    OBVIOUS
  <2>3. u[n + 1] = Applied(w[n], order[n + 1])
    OBVIOUS
  <2>4. \A k \in 0 .. n : Equation(u, k)
    <3>1. \A k \in 0 .. n : k # 0 => k - 1 \in 0 .. n
      OBVIOUS
    <3> HIDE DEF u
    <3> QED
      BY <2>1, <2>2, <3>1
  <2>5. Equation(u, n + 1)
    <3>1. n + 1 # 0 /\ (n + 1) - 1 = n /\ n \in 0 .. n
      OBVIOUS
    <3> HIDE DEF u
    <3> QED
      BY <2>2, <2>3, <3>1
  <2>6. \A k \in 0 .. (n + 1) : Equation(u, k)
    <3>1. \A k \in 0 .. (n + 1) : k \in 0 .. n \/ k = n + 1
      OBVIOUS
    <3> HIDE DEF Equation, u
    <3> QED
      BY <2>4, <2>5, <3>1
  <2>7. n + 1 \in 0 .. N
    BY <1>2
  <2> HIDE DEF Equation, u
  <2> QED
    BY <2>6, <2>7
<1>3. N \in Good
  <2> HIDE DEF Good
  <2>1. 0 .. N \subseteq Good
    BY <1>1, <1>2, NumbersAreReached
  <2> QED
    BY <2>1
<1>4. PICK w : \A k \in 0 .. N : Equation(w, k)
  BY <1>3
<1> DEFINE Rule(v) == [n \in 0 .. N |-> IF n = 0 THEN start ELSE Applied(v[n - 1], order[n])]
           v0 == [k \in 0 .. N |-> w[k]]
<1>5. v0 = Rule(v0)
  <2>1. \A k \in 0 .. N : v0[k] = w[k] /\ (k # 0 => v0[k - 1] = w[k - 1])
    OBVIOUS
  <2>2. \A k \in 0 .. N : v0[k] = Rule(v0)[k]
    <3> HIDE DEF v0
    <3> QED
      BY <1>4, <2>1
  <2>3. DOMAIN Rule(v0) = 0 .. N /\ Rule(v0) = [k \in 0 .. N |-> Rule(v0)[k]]
    <3> HIDE DEF v0
    <3> QED
      OBVIOUS
  <2>4. v0 = [k \in 0 .. N |-> v0[k]]
    OBVIOUS
  <2> HIDE DEF Rule, v0
  <2>5. [k \in 0 .. N |-> v0[k]] = [k \in 0 .. N |-> Rule(v0)[k]]
    BY <2>2
  <2> QED
    BY <2>3, <2>4, <2>5
<1>6. PICK f : f = CHOOSE v : v = Rule(v)
  OBVIOUS
<1>7. f = Rule(f)
  <2> HIDE DEF Rule, v0
  <2> QED
    BY <1>5, <1>6
<1>8. Edited(W, E) = f[N].words
  BY <1>6 DEF Edited
<1>9. \A n \in 0 .. N : f[n] = IF n = 0 THEN start ELSE Applied(f[n - 1], order[n])
  BY <1>7
<1>10. /\ f[0] = start
       /\ \A n \in 1 .. N : f[n] = Applied(f[n - 1], order[n])
  <2>1. 0 \in 0 .. N /\ \A n \in 1 .. N : n \in 0 .. N /\ n # 0
    OBVIOUS
  <2> HIDE DEF start
  <2> QED
    BY <1>9, <2>1
<1>11. InTurn(W, order, f)
  <2> HIDE DEF start
  <2> QED
    BY <1>10 DEF InTurn, start
<1> QED
  BY <1>8, <1>11

(* Words that no edit touches are read as they are. *)
Untouched(E, a, b) == \A n \in a + 1 .. b : \A e \in E : ~(e.from < n /\ n <= e.to)

(* Where no edit is, the words are copied. *)
LEMMA UntouchedReads ==
    ASSUME NEW T, NEW W \in Seq(T), NEW E, NEW grown, NEW a \in 0 .. Len(W), NEW b \in a .. Len(W),
           Grown(T, W, 0, Len(W), E, grown), Untouched(E, a, b)
    PROVE  grown[b] = grown[a] \o SubSeq(W, a + 1, b)
<1> DEFINE Good == {k \in 0 .. b - a : grown[a + k] = grown[a] \o SubSeq(W, a + 1, a + k)}
<1>1. /\ Len(W) \in Nat /\ a \in Nat /\ b \in Nat /\ a <= b /\ b <= Len(W) /\ b - a \in Nat
      /\ grown[a] \in Seq(T)
  BY DEF Grown
<1>2. 0 \in Good
  <2>1. SubSeq(W, a + 1, a) = <<>>
    BY <1>1, SubSeqEmpty
  <2>2. grown[a] \o <<>> = grown[a]
    BY <1>1
  <2>3. a + 0 = a /\ 0 \in 0 .. b - a
    BY <1>1
  <2> QED
    BY <2>1, <2>2, <2>3
<1>3. ASSUME NEW k \in 0 .. b - a, k \in Good, k + 1 <= b - a
      PROVE  k + 1 \in Good
  <2>0. PICK n : n = a + k + 1
    OBVIOUS
  <2>1. /\ n \in a + 1 .. b /\ n \in 1 .. Len(W) /\ a + 1 \in 1 .. Len(W) /\ n \in a + 1 .. Len(W) /\ n \in 1 .. Len(W)
        /\ n - 1 = a + k /\ a + (k + 1) = n /\ k + 1 \in 0 .. b - a
    BY <1>1, <1>3, <2>0
  <2>2. grown[n] = grown[n - 1] \o <<W[n]>>
    BY <2>1 DEF Grown, Untouched
  <2>3. SubSeq(W, a + 1, n) = SubSeq(W, a + 1, n - 1) \o <<W[n]>>
    BY <2>1, SubSeqRecursiveSecond
  <2>4. grown[n - 1] = grown[a] \o SubSeq(W, a + 1, n - 1)
    BY <1>3, <2>1
  <2>5. PICK g, u, x : g = grown[a] /\ u = SubSeq(W, a + 1, n - 1) /\ x = <<W[n]>>
    OBVIOUS
  <2>6. g \in Seq(T) /\ u \in Seq(T) /\ x \in Seq(T)
    <3>1. n - 1 \in a .. Len(W)
      BY <1>1, <2>1
    <3>2. u \in Seq(T)
      BY <2>5, <3>1, CutsOfRest
    <3>3. W[n] \in T
      BY <2>1
    <3> QED
      BY <1>1, <2>5, <3>2, <3>3
  <2>7. PICK v : v = u \o x
    OBVIOUS
  <2>8. g \o v = (g \o u) \o x
    BY <2>6, <2>7, Regrouped
  <2>9. grown[n] = grown[a] \o SubSeq(W, a + 1, n)
    BY <2>2, <2>3, <2>4, <2>5, <2>7, <2>8
  <2> QED
    BY <2>1, <2>9
<1>4. b - a \in Good
  <2> HIDE DEF Good
  <2>1. 0 .. b - a \subseteq Good
    BY <1>1, <1>2, <1>3, NumbersAreReached
  <2>2. b - a \in 0 .. b - a
    BY <1>1
  <2> QED
    BY <2>1, <2>2
<1>5. a + (b - a) = b
  BY <1>1
<1> QED
  BY <1>4, <1>5

(* The edited text is what is inserted before it and what the words read. *)
LEMMA EditsRead ==
    ASSUME NEW T, NEW W \in Seq(T), NEW ins \in Seq(T), NEW E, NEW s, NEW all,
           Reads(T, W, 0, Len(W), E, s), all = {Edit(0, 0, ins)} \cup E
    PROVE  Edited(W, all) = ins \o s
<1>0. PICK first, L : first = Edit(0, 0, ins) /\ L = Len(W)
  OBVIOUS
<1> DEFINE All == {first} \cup E
<1>1. L \in Nat /\ first.from = 0 /\ first.to = 0 /\ first.text = ins
  BY <1>0 DEF Edit
<1>2. /\ \A e \in E : /\ e = Edit(e.from, e.to, e.text) /\ e.text \in Seq(T)
                      /\ e.from \in Nat /\ e.to \in Nat /\ 0 <= e.from /\ e.from < e.to /\ e.to <= L
      /\ \A d, e \in E : d = e \/ d.to <= e.from \/ e.to <= d.from
  BY <1>0 DEF Reads, Apart
<1>3. PICK grown : Grown(T, W, 0, L, E, grown) /\ grown[0] = <<>> /\ grown[L] = s
  BY <1>0 DEF Reads
<1>4. ASSUME NEW e \in All
      PROVE  /\ e = Edit(e.from, e.to, e.text) /\ e.text \in Seq(T)
             /\ e.from \in Nat /\ e.to \in Nat /\ e.from <= e.to /\ e.to <= L
             /\ (e = first \/ (e \in E /\ e.from < e.to))
  <2>1. CASE e = first
    BY <1>0, <1>1, <2>1
  <2>2. CASE e \in E
    BY <1>2, <2>2
  <2> QED
    BY <2>1, <2>2
<1>5. ASSUME NEW d \in All, NEW e \in All, d.to = e.to
      PROVE  d = e
  BY <1>1, <1>2, <1>4, <1>5
<1>6. IsFiniteSet(All)
  <2>1. PICK end : end = [e \in All |-> e.to]
    OBVIOUS
  <2>2. end \in Injection(All, 0 .. L)
    <3>1. \A e \in All : end[e] = e.to /\ e.to \in 0 .. L
      BY <1>1, <1>4, <2>1
    <3>2. end \in [All -> 0 .. L]
      <4> HIDE DEF All
      <4> QED
        BY <2>1, <3>1
    <3>3. \A d, e \in All : end[d] = end[e] => d = e
      BY <1>5, <3>1
    <3> HIDE DEF All
    <3> QED
      BY <3>2, <3>3 DEF Injection, IsInjective
  <2>3. IsFiniteSet(0 .. L)
    BY <1>1, FS_Interval
  <2> HIDE DEF All
  <2> QED
    BY <2>2, <2>3, FS_Injection
<1>7. PICK order, N : order = InOrder(All) /\ N = Cardinality(All)
  OBVIOUS
<1>8. /\ N \in Nat /\ DOMAIN order = 1 .. N /\ Len(order) = N
      /\ \A n \in 1 .. N : order[n] \in All
      /\ \A e \in All : \E n \in 1 .. N : order[n] = e
      /\ \A m, n \in 1 .. N : m < n => Prior(order[m], order[n])
  <2>1. /\ \A e \in All : e.from \in Nat /\ e.to \in Nat
        /\ \A d, e \in All : d.from = e.from /\ d.to = e.to => d = e
    BY <1>4, <1>5
  <2> HIDE DEF All
  <2>2. /\ Cardinality(All) \in Nat /\ DOMAIN InOrder(All) = 1 .. Cardinality(All)
        /\ Len(InOrder(All)) = Cardinality(All)
        /\ \A n \in DOMAIN InOrder(All) : InOrder(All)[n] \in All
        /\ \A e \in All : \E n \in DOMAIN InOrder(All) : InOrder(All)[n] = e
        /\ \A m, n \in DOMAIN InOrder(All) : m < n => Prior(InOrder(All)[m], InOrder(All)[n])
    BY <1>6, <2>1, EditsAreOrdered
  <2> QED
    BY <1>7, <2>2
<1>9. N # 0 /\ order[1] = first
  <2>1. PICK k \in 1 .. N : order[k] = first
    BY <1>8
  <2>2. CASE k = 1
    BY <1>8, <2>1, <2>2
  <2>3. CASE k # 1
    <3>1. 1 \in 1 .. N /\ 1 < k
      BY <1>8, <2>1, <2>3
    <3>2. Prior(order[1], first) /\ order[1] \in All
      BY <1>8, <2>1, <3>1
    <3> QED
      BY <1>1, <1>4, <3>2 DEF Prior
  <2> QED
    BY <2>2, <2>3
<1>10. ASSUME NEW m \in 1 .. N, NEW n \in 1 .. N, m < n
       PROVE  order[m].to <= order[n].from /\ order[n] \in E
  <2>1. order[m] \in All /\ order[n] \in All /\ Prior(order[m], order[n])
    BY <1>8, <1>10
  <2>2. order[n] # first
    BY <1>1, <1>4, <2>1 DEF Prior
  <2>3. order[n] \in E
    BY <2>1, <2>2
  <2>4. CASE order[m] = first
    BY <1>1, <1>2, <2>3, <2>4
  <2>5. CASE order[m] \in E
    <3>1. PICK d, e : d = order[m] /\ e = order[n]
      OBVIOUS
    <3>2. Prior(d, e) /\ d \in E /\ e \in E
      BY <2>1, <2>3, <2>5, <3>1
    <3>3. d # e
      BY <1>2, <3>2 DEF Prior
    <3>4. d.to <= e.from \/ e.to <= d.from
      BY <1>2, <3>2, <3>3
    <3>5. d.to <= e.from
      BY <1>2, <3>2, <3>4 DEF Prior
    <3> QED
      BY <2>3, <3>1, <3>5
  <2> QED
    BY <2>1, <2>3, <2>4, <2>5
<1> HIDE DEF All
<1>22. PICK done : Edited(W, All) = done[N].words /\ InTurn(W, order, done)
  <2>1. N \in Nat /\ order = InOrder(All) /\ Len(order) = N
    BY <1>7, <1>8
  <2> QED
    BY <2>1, EditedIsReached
<1>11. /\ done[0] = [words |-> W, offset |-> 0]
       /\ \A n \in 1 .. N : done[n] = Applied(done[n - 1], order[n])
  BY <1>8, <1>22 DEF InTurn
<1> DEFINE after(n) == ins \o grown[order[n].to]
           Good == {n \in 0 .. N : n # 0 => done[n] = Reached(W, after(n), order[n].to)}
<1>12. \A n \in 0 .. L : grown[n] \in Seq(T) /\ ins \o grown[n] \in Seq(T)
  <2>1. \A n \in 0 .. L : grown[n] \in Seq(T)
    BY <1>3 DEF Grown
  <2> QED
    BY <2>1, ConcatProperties
<1>13. 0 \in Good
  BY <1>8
<1>14. ASSUME NEW n \in 0 .. N, n \in Good, n + 1 <= N
       PROVE  n + 1 \in Good
  <2>0. n + 1 \in 1 .. N /\ n + 1 # 0 /\ n + 1 \in 0 .. N /\ (n + 1) - 1 = n
    BY <1>8, <1>14
  <2>1. PICK e : e = order[n + 1]
    OBVIOUS
  <2>2. /\ e \in All /\ e = Edit(e.from, e.to, e.text) /\ e.text \in Seq(T)
        /\ e.from \in 0 .. L /\ e.to \in e.from .. L /\ e.to \in 0 .. L
        /\ done[n + 1] = Applied(done[n], e)
    <3>1. e \in All
      BY <1>8, <2>0, <2>1
    <3>2. /\ e = Edit(e.from, e.to, e.text) /\ e.text \in Seq(T)
          /\ e.from \in Nat /\ e.to \in Nat /\ e.from <= e.to /\ e.to <= L
      BY <1>4, <3>1
    <3>3. done[n + 1] = Applied(done[n], e)
      BY <1>11, <2>0, <2>1
    <3>4. e.from \in 0 .. L /\ e.to \in e.from .. L /\ e.to \in 0 .. L
      BY <1>1, <3>2
    <3> QED
      BY <3>1, <3>2, <3>3, <3>4
  <2>3. CASE n = 0
    <3>1. e = first
      BY <1>9, <2>1, <2>3
    <3>2. done[0] = Reached(W, <<>>, 0)
      <4>1. SubSeq(W, 1, Len(W)) = W /\ <<>> \o W = W /\ Len(<<>>) - 0 = 0
        BY SubSeqFull
      <4> QED
        BY <1>11, <4>1 DEF Reached
    <3>3. Applied(Reached(W, <<>>, 0), Edit(0, 0, ins)) = Reached(W, (<<>> \o SubSeq(W, 0 + 1, 0)) \o ins, 0)
      <4>0. PICK r, z : r = <<>> /\ z = 0
        OBVIOUS
      <4>1. z \in 0 .. Len(W) /\ z \in z .. Len(W) /\ r \in Seq(T)
        BY <1>0, <1>1, <4>0
      <4>2. Applied(Reached(W, r, z), Edit(z, z, ins)) = Reached(W, (r \o SubSeq(W, z + 1, z)) \o ins, z)
        BY <4>1, EditsApply
      <4> QED
        BY <4>0, <4>2
    <3>4. (<<>> \o SubSeq(W, 0 + 1, 0)) \o ins = ins
      <4>1. SubSeq(W, 0 + 1, 0) = <<>>
        BY SubSeqEmpty
      <4>2. <<>> \o <<>> = <<>> /\ <<>> \o ins = ins
        OBVIOUS
      <4> QED
        BY <4>1, <4>2
    <3>5. after(1) = ins
      <4>1. order[1].to = 0 /\ ins \o <<>> = ins
        BY <1>1, <1>9
      <4> QED
        BY <1>3, <4>1
    <3>6. done[1] = Reached(W, after(1), order[1].to)
      <4>1. done[1] = Applied(done[0], first) /\ order[1].to = 0
        BY <1>1, <1>9, <2>2, <2>3, <3>1
      <4>2. done[1] = Applied(Reached(W, <<>>, 0), Edit(0, 0, ins))
        BY <1>0, <3>2, <4>1
      <4> HIDE DEF after
      <4> QED
        BY <3>3, <3>4, <3>5, <4>1, <4>2
    <3> QED
      BY <2>0, <2>3, <3>6
  <2>4. CASE n # 0
    <3>1. n \in 1 .. N /\ n < n + 1
      BY <1>8, <2>4
    <3>2. PICK a : a = order[n].to
      OBVIOUS
    <3>3. a \in Nat /\ a <= e.from /\ e \in E
      <4>1. order[n] \in All
        BY <1>8, <3>1
      <4> QED
        BY <1>4, <1>10, <2>0, <2>1, <3>1, <3>2, <4>1
    <3>4. a \in 0 .. L /\ e.from \in a .. L
      BY <1>1, <2>2, <3>3
    <3>5. Untouched(E, a, e.from)
      <4> SUFFICES ASSUME NEW i \in a + 1 .. e.from, NEW d \in E, d.from < i, i <= d.to
                   PROVE  FALSE
        BY DEF Untouched
      <4>1. PICK m \in 1 .. N : order[m] = d
        BY <1>8 DEF All
      <4>2. d.from \in Nat /\ d.to \in Nat /\ d.from < d.to
        BY <1>2
      <4>3. CASE m < n
        <5>1. order[m].to <= order[n].from /\ order[n] \in All
          BY <1>8, <1>10, <3>1, <4>1, <4>3
        <5>2. order[n].from <= order[n].to /\ order[n].from \in Nat
          BY <1>4, <5>1
        <5> QED
          BY <2>2, <3>2, <3>3, <4>1, <4>2, <5>1, <5>2
      <4>4. CASE m = n
        BY <2>2, <3>2, <3>3, <4>1, <4>2, <4>4
      <4>5. CASE m = n + 1
        BY <2>1, <2>2, <3>3, <4>1, <4>2, <4>5
      <4>6. CASE m > n + 1
        <5>1. e.to <= d.from
          BY <1>10, <2>0, <2>1, <4>1, <4>6
        <5> QED
          BY <2>2, <3>3, <4>2, <5>1
      <4>7. m < n \/ m = n \/ m = n + 1 \/ m > n + 1
        BY <1>8, <4>1
      <4> QED
        BY <4>3, <4>4, <4>5, <4>6, <4>7
    <3>6. grown[e.from] = grown[a] \o SubSeq(W, a + 1, e.from)
      <4>1. PICK b : b = e.from
        OBVIOUS
      <4>2. /\ Grown(T, W, 0, Len(W), E, grown) /\ a \in 0 .. Len(W) /\ b \in a .. Len(W)
            /\ Untouched(E, a, b) /\ W \in Seq(T)
        BY <1>0, <1>3, <3>4, <3>5, <4>1
      <4> HIDE DEF after, Good
      <4>3. grown[b] = grown[a] \o SubSeq(W, a + 1, b)
        BY <4>2, UntouchedReads
      <4> QED
        BY <4>1, <4>3
    <3>7. grown[e.to] = grown[e.from] \o e.text
      BY <1>3, <3>3 DEF Grown
    <3>8. done[n] = Reached(W, ins \o grown[a], a)
      BY <1>14, <2>4, <3>2
    <3>9. PICK text, b, c : text = e.text /\ b = e.from /\ c = e.to
      OBVIOUS
    <3>10. /\ text \in Seq(T) /\ a \in 0 .. Len(W) /\ b \in a .. Len(W) /\ c \in b .. Len(W)
           /\ e = Edit(b, c, text) /\ ins \o grown[a] \in Seq(T) /\ grown[a] \in Seq(T)
      BY <1>0, <1>12, <2>2, <3>4, <3>9
    <3>11. PICK read, mid : read = ins \o grown[a] /\ mid = SubSeq(W, a + 1, b)
      OBVIOUS
    <3>12. Applied(Reached(W, read, a), Edit(b, c, text)) = Reached(W, (read \o SubSeq(W, a + 1, b)) \o text, c)
      <4>1. read \in Seq(T) /\ text \in Seq(T) /\ a \in 0 .. Len(W) /\ b \in a .. Len(W) /\ c \in b .. Len(W)
        BY <3>10, <3>11
      <4> QED
        BY <4>1, EditsApply
    <3>13. (read \o mid) \o text = ins \o grown[c]
      <4>1. mid \in Seq(T)
        BY <3>10, <3>11, CutsOfRest
      <4>2. PICK g, h, k : g = grown[a] /\ h = grown[b] /\ k = grown[c]
        OBVIOUS
      <4>3. h = g \o mid /\ k = h \o text /\ g \in Seq(T)
        BY <3>6, <3>7, <3>9, <3>10, <3>11, <4>2
      <4>4. h \in Seq(T)
        BY <4>1, <4>3, ConcatProperties
      <4>5. ins \o h = (ins \o g) \o mid
        <5>1. ins \in Seq(T) /\ g \in Seq(T) /\ mid \in Seq(T) /\ h = g \o mid
          BY <4>1, <4>3
        <5> QED
          BY <5>1, Regrouped
      <4>6. ins \o k = (ins \o h) \o text
        <5>1. ins \in Seq(T) /\ h \in Seq(T) /\ text \in Seq(T) /\ k = h \o text
          BY <3>10, <4>3, <4>4
        <5> QED
          BY <5>1, Regrouped
      <4> QED
        BY <3>11, <4>2, <4>5, <4>6
    <3>14. done[n + 1] = Reached(W, ins \o grown[c], c)
      BY <2>2, <3>8, <3>10, <3>11, <3>12, <3>13
    <3>15. done[n + 1] = Reached(W, after(n + 1), order[n + 1].to)
      BY <2>1, <3>9, <3>14
    <3> QED
      BY <2>0, <3>15
  <2> QED
    BY <2>3, <2>4
<1>15. N \in Good
  <2> HIDE DEF Good
  <2>1. 0 .. N \subseteq Good
    BY <1>8, <1>13, <1>14, NumbersAreReached
  <2> QED
    BY <1>8, <2>1
<1>16. PICK a : a = order[N].to
  OBVIOUS
<1>17. a \in 0 .. L /\ done[N] = Reached(W, ins \o grown[a], a)
  <2>1. N \in 1 .. N
    BY <1>8, <1>9
  <2>2. order[N] \in All
    BY <1>8, <2>1
  <2>3. a \in 0 .. L
    BY <1>1, <1>4, <1>16, <2>2
  <2> QED
    BY <1>9, <1>15, <1>16, <2>3
<1>18. Untouched(E, a, L)
  <2> SUFFICES ASSUME NEW i \in a + 1 .. L, NEW d \in E, d.from < i, i <= d.to
               PROVE  FALSE
    BY DEF Untouched
  <2>1. PICK m \in 1 .. N : order[m] = d
    BY <1>8 DEF All
  <2>2. d.from \in Nat /\ d.to \in Nat /\ d.from < d.to
    BY <1>2
  <2>3. CASE m = N
    BY <1>1, <1>16, <1>17, <2>1, <2>2, <2>3
  <2>4. CASE m < N
    <3>1. N \in 1 .. N
      BY <1>8, <1>9
    <3>2. d.to <= order[N].from /\ order[N] \in All
      BY <1>8, <1>10, <2>1, <2>4, <3>1
    <3>3. order[N].from <= a /\ order[N].from \in Nat
      BY <1>4, <1>16, <3>2
    <3> QED
      BY <1>17, <2>2, <3>2, <3>3
  <2>5. m = N \/ m < N
    BY <1>8, <2>1
  <2> QED
    BY <2>3, <2>4, <2>5
<1>19. s = grown[a] \o SubSeq(W, a + 1, L)
  <2>1. L \in a .. L
    BY <1>1, <1>17
  <2> QED
    BY <1>0, <1>3, <1>17, <1>18, <2>1, UntouchedReads
<1>20. ins \o s = (ins \o grown[a]) \o SubSeq(W, a + 1, L)
  <2>1. PICK g, u : g = grown[a] /\ u = SubSeq(W, a + 1, L)
    OBVIOUS
  <2>2. g \in Seq(T) /\ u \in Seq(T)
    <3>1. L \in a .. L
      BY <1>1, <1>17
    <3> QED
      BY <1>0, <1>12, <1>17, <2>1, <3>1, CutsOfRest
  <2>3. s = g \o u
    BY <1>19, <2>1
  <2>4. ins \o s = (ins \o g) \o u
    BY <2>2, <2>3, Regrouped
  <2> QED
    BY <2>1, <2>4
<1>21. Edited(W, All) = ins \o s
  <2>1. PICK read : read = ins \o grown[a]
    OBVIOUS
  <2>2. Reached(W, read, a).words = read \o SubSeq(W, a + 1, Len(W))
    BY DEF Reached
  <2>3. PICK x, y : x = SubSeq(W, a + 1, Len(W)) /\ y = Reached(W, read, a)
    OBVIOUS
  <2>4. y.words = read \o x /\ done[N] = y /\ Edited(W, All) = y.words
    BY <1>17, <1>22, <2>1, <2>2, <2>3
  <2>5. ins \o s = read \o x
    BY <1>0, <1>20, <2>1, <2>3
  <2> QED
    BY <2>4, <2>5
<1> QED
  BY <1>0, <1>21 DEF All

-----------------------------------------------------------------------------
(* Sequences put together one by one *)

Joined(seqs, n) == FlattenSeq([k \in 1 .. n |-> seqs[k]])

Pieces(T, seqs, N) == N \in Nat /\ DOMAIN seqs = 1 .. N /\ \A k \in 1 .. N : seqs[k] \in Seq(T)

(* One more piece is put at the end. *)
LEMMA JoinedNext ==
    ASSUME NEW T, NEW seqs, NEW N, NEW n \in Nat, Pieces(T, seqs, N), n < N, Joined(seqs, n) \in Seq(T)
    PROVE  Joined(seqs, n + 1) = Joined(seqs, n) \o seqs[n + 1]
<1>1. /\ N \in Nat /\ n + 1 \in 1 .. N /\ seqs[n + 1] \in Seq(T)
  BY DEF Pieces
<1>2. PICK short, long : /\ short = [k \in 1 .. n |-> seqs[k]]
                        /\ long = [k \in 1 .. (n + 1) |-> seqs[k]]
  OBVIOUS
<1>3. /\ \A k \in 1 .. n : short[k] = seqs[k] /\ Len(short) = n
      /\ \A k \in 1 .. (n + 1) : long[k] = seqs[k] /\ Len(long) = n + 1
  BY <1>2
<1>4. Len(long) = n + 1
  BY <1>2
<1>5. PICK w : /\ FlattenSeq(long) = w[n + 1]
               /\ \A k \in 1 .. (n + 1) : w[k] = IF k = 1 THEN long[k] ELSE w[k - 1] \o long[k]
  <2>1. n + 1 \in Nat /\ n + 1 # 0
    OBVIOUS
  <2> QED
    BY <1>4, <2>1, FlattenIsFunction
<1>6. CASE n = 0
  <2>1. short = <<>>
    BY <1>2, <1>6
  <2>2. FlattenSeq(short) = <<>>
    BY <2>1 DEF FlattenSeq
  <2>3. Joined(seqs, n + 1) = seqs[n + 1]
    <3>1. n + 1 = 1 /\ 1 \in 1 .. (n + 1)
      BY <1>6
    <3>2. w[1] = seqs[1] /\ FlattenSeq(long) = w[1]
      BY <1>3, <1>5, <3>1
    <3>3. Joined(seqs, n + 1) = FlattenSeq(long)
      BY <1>2 DEF Joined
    <3> QED
      BY <3>1, <3>2, <3>3
  <2>4. <<>> \o seqs[n + 1] = seqs[n + 1]
    BY <1>1
  <2>5. Joined(seqs, n) = <<>>
    BY <1>2, <2>2 DEF Joined
  <2> QED
    BY <2>3, <2>4, <2>5
<1>7. CASE n # 0
  <2>1. PICK v : /\ FlattenSeq(short) = v[n]
                 /\ \A k \in 1 .. n : v[k] = IF k = 1 THEN short[k] ELSE v[k - 1] \o short[k]
    <3>1. Len(short) = n
      BY <1>2
    <3> QED
      BY <1>7, <3>1, FlattenIsFunction
  <2> DEFINE Good == {k \in 0 .. n : k # 0 => v[k] = w[k]}
  <2>2. 0 \in Good
    OBVIOUS
  <2>3. ASSUME NEW k \in 0 .. n, k \in Good, k + 1 <= n
        PROVE  k + 1 \in Good
    <3>1. /\ k + 1 \in 1 .. n /\ k + 1 \in 1 .. (n + 1) /\ (k + 1) - 1 = k /\ k + 1 \in 0 .. n
      BY <2>3
    <3>2. short[k + 1] = seqs[k + 1] /\ long[k + 1] = seqs[k + 1]
      BY <1>3, <3>1
    <3>3. CASE k = 0
      <4>1. v[1] = short[1] /\ w[1] = long[1]
        BY <1>5, <2>1, <3>1, <3>3
      <4> QED
        BY <3>1, <3>2, <3>3, <4>1
    <3>4. CASE k # 0
      <4>1. k + 1 # 1 /\ v[k] = w[k]
        BY <2>3, <3>4
      <4>2. v[k + 1] = v[k] \o short[k + 1] /\ w[k + 1] = w[k] \o long[k + 1]
        BY <1>5, <2>1, <3>1, <4>1
      <4> QED
        BY <3>1, <3>2, <4>1, <4>2
    <3> QED
      BY <3>3, <3>4
  <2>4. n \in Good
    <3> HIDE DEF Good
    <3>1. 0 .. n \subseteq Good
      BY <2>2, <2>3, NumbersAreReached
    <3> QED
      BY <3>1
  <2>5. w[n + 1] = w[n] \o seqs[n + 1]
    <3>1. n + 1 \in 1 .. (n + 1) /\ n + 1 # 1 /\ (n + 1) - 1 = n
      BY <1>7
    <3> QED
      BY <1>3, <1>5, <3>1
  <2>6. v[n] = w[n]
    BY <1>7, <2>4
  <2> QED
    BY <1>2, <1>5, <2>1, <2>5, <2>6 DEF Joined
<1> QED
  BY <1>6, <1>7

(* The pieces put together, one by one, are the flattened sequence. *)
LEMMA JoinedGrows ==
    ASSUME NEW T, NEW seqs, NEW N, Pieces(T, seqs, N)
    PROVE  /\ \A n \in 0 .. N : Joined(seqs, n) \in Seq(T) /\ Len(Joined(seqs, n)) \in Nat
           /\ Joined(seqs, 0) = <<>>
           /\ \A n \in 0 .. N : n < N =>
                 /\ Joined(seqs, n + 1) = Joined(seqs, n) \o seqs[n + 1]
                 /\ Len(Joined(seqs, n + 1)) = Len(Joined(seqs, n)) + Len(seqs[n + 1])
           /\ seqs = [k \in 1 .. N |-> seqs[k]] => FlattenSeq(seqs) = Joined(seqs, N)
<1>1. N \in Nat /\ \A k \in 1 .. N : seqs[k] \in Seq(T)
  BY DEF Pieces
<1> DEFINE Good == {n \in 0 .. N : Joined(seqs, n) \in Seq(T)}
<1>2. Joined(seqs, 0) = <<>>
  <2>1. [k \in 1 .. 0 |-> seqs[k]] = <<>>
    OBVIOUS
  <2>2. FlattenSeq(<<>>) = <<>>
    BY DEF FlattenSeq
  <2> QED
    BY <2>1, <2>2 DEF Joined
<1>3. 0 \in Good
  <2>1. 0 \in 0 .. N /\ <<>> \in Seq(T)
    BY <1>1
  <2> QED
    BY <1>2, <2>1
<1>4. ASSUME NEW n \in 0 .. N, n \in Good, n + 1 <= N
      PROVE  n + 1 \in Good
  <2>1. n \in Nat /\ n < N /\ n + 1 \in 1 .. N /\ n + 1 \in 0 .. N /\ Joined(seqs, n) \in Seq(T)
    BY <1>1, <1>4
  <2>2. Joined(seqs, n + 1) = Joined(seqs, n) \o seqs[n + 1]
    BY <2>1, JoinedNext
  <2>3. Joined(seqs, n) \o seqs[n + 1] \in Seq(T)
    BY <1>1, <2>1, ConcatProperties
  <2> QED
    BY <2>1, <2>2, <2>3
<1>5. 0 .. N \subseteq Good
  <2> HIDE DEF Good
  <2> QED
    BY <1>1, <1>3, <1>4, NumbersAreReached
<1>6. \A n \in 0 .. N : Joined(seqs, n) \in Seq(T) /\ Len(Joined(seqs, n)) \in Nat
  <2>1. \A n \in 0 .. N : Joined(seqs, n) \in Seq(T)
    BY <1>5
  <2> QED
    BY <2>1, LenProperties
<1>7. ASSUME NEW n \in 0 .. N, n < N
      PROVE  /\ Joined(seqs, n + 1) = Joined(seqs, n) \o seqs[n + 1]
             /\ Len(Joined(seqs, n + 1)) = Len(Joined(seqs, n)) + Len(seqs[n + 1])
  <2>1. n \in Nat /\ n + 1 \in 1 .. N /\ Joined(seqs, n) \in Seq(T) /\ seqs[n + 1] \in Seq(T)
    BY <1>1, <1>6, <1>7
  <2>2. Joined(seqs, n + 1) = Joined(seqs, n) \o seqs[n + 1]
    BY <1>7, <2>1, JoinedNext
  <2>3. Len(Joined(seqs, n) \o seqs[n + 1]) = Len(Joined(seqs, n)) + Len(seqs[n + 1])
    BY <2>1, ConcatProperties
  <2> QED
    BY <2>2, <2>3
<1>8. seqs = [k \in 1 .. N |-> seqs[k]] => FlattenSeq(seqs) = Joined(seqs, N)
  BY DEF Joined
<1> QED
  BY <1>2, <1>6, <1>7, <1>8

(* Where each of the sequences is found. *)
Holds(seqs, n) ==
    \A k \in 1 .. n : \A j \in 1 .. Len(seqs[k]) :
        /\ Len(Joined(seqs, k - 1)) + j <= Len(Joined(seqs, n))
        /\ Joined(seqs, n)[Len(Joined(seqs, k - 1)) + j] = seqs[k][j]

(* Every piece stands at the length of those before it. *)
LEMMA JoinedHolds ==
    ASSUME NEW T, NEW seqs, NEW N, Pieces(T, seqs, N)
    PROVE  \A n \in 0 .. N : Holds(seqs, n)
<1>1. N \in Nat /\ \A k \in 1 .. N : seqs[k] \in Seq(T)
  BY DEF Pieces
<1>2. /\ \A n \in 0 .. N : Joined(seqs, n) \in Seq(T) /\ Len(Joined(seqs, n)) \in Nat
      /\ \A n \in 0 .. N : n < N =>
            /\ Joined(seqs, n + 1) = Joined(seqs, n) \o seqs[n + 1]
            /\ Len(Joined(seqs, n + 1)) = Len(Joined(seqs, n)) + Len(seqs[n + 1])
  BY JoinedGrows
<1> DEFINE Good == {n \in 0 .. N : Holds(seqs, n)}
<1>3. 0 \in Good
  BY <1>1 DEF Holds
<1>4. ASSUME NEW n \in 0 .. N, n \in Good, n + 1 <= N
      PROVE  n + 1 \in Good
  <2>1. n + 1 \in 0 .. N /\ n + 1 \in 1 .. N /\ n < N /\ n \in Nat
    BY <1>1, <1>4
  <2>2. PICK old, new, last : old = Joined(seqs, n) /\ new = Joined(seqs, n + 1) /\ last = seqs[n + 1]
    OBVIOUS
  <2>3. /\ old \in Seq(T) /\ last \in Seq(T) /\ new = old \o last
        /\ Len(old) \in Nat /\ Len(last) \in Nat /\ Len(new) = Len(old) + Len(last)
    <3>1. last \in Seq(T)
      BY <1>1, <2>1, <2>2
    <3>2. Len(last) \in Nat
      BY <3>1, LenProperties
    <3>3. new = old \o last /\ Len(new) = Len(old) + Len(last)
      BY <1>2, <2>1, <2>2
    <3>4. old \in Seq(T) /\ Len(old) \in Nat
      BY <1>2, <2>2
    <3> QED
      BY <3>1, <3>2, <3>3, <3>4
  <2>4. /\ \A i \in 1 .. Len(old) : new[i] = old[i]
        /\ \A i \in 1 .. Len(last) : new[Len(old) + i] = last[i]
    BY <2>3, ConcatIs
  <2>5. ASSUME NEW k \in 1 .. (n + 1), NEW j \in 1 .. Len(seqs[k])
        PROVE  /\ Len(Joined(seqs, k - 1)) + j <= Len(new)
               /\ new[Len(Joined(seqs, k - 1)) + j] = seqs[k][j]
    <3>1. CASE k = n + 1
      <4>1. k - 1 = n
        BY <2>1, <3>1
      <4>2. j \in 1 .. Len(last) /\ Joined(seqs, k - 1) = old /\ seqs[k] = last
        BY <2>2, <3>1, <4>1
      <4> QED
        BY <2>3, <2>4, <4>2
    <3>2. CASE k # n + 1
      <4>1. k \in 1 .. n /\ k - 1 \in 0 .. N /\ k \in 1 .. N
        BY <1>1, <2>1, <3>2
      <4>2. PICK at : at = Len(Joined(seqs, k - 1))
        OBVIOUS
      <4>3. at \in Nat /\ at + j <= Len(old) /\ old[at + j] = seqs[k][j]
        BY <1>2, <1>4, <2>2, <4>1, <4>2 DEF Holds
      <4>4. Len(seqs[k]) \in Nat
        BY <1>1, <4>1, LenProperties
      <4>5. at + j \in 1 .. Len(old)
        BY <2>3, <4>3, <4>4
      <4> QED
        BY <2>3, <2>4, <4>2, <4>3, <4>5
    <3> QED
      BY <3>1, <3>2
  <2> QED
    BY <2>1, <2>2, <2>5 DEF Holds
<1> HIDE DEF Good
<1>5. 0 .. N \subseteq Good
  BY <1>1, <1>3, <1>4, NumbersAreReached
<1> QED
  BY <1>5 DEF Good

(* One more piece, for any place among them. *)
LEMMA JoinedStep ==
    ASSUME NEW T, NEW seqs, NEW N, NEW k \in Nat, Pieces(T, seqs, N), k < N
    PROVE  Joined(seqs, k + 1) = Joined(seqs, k) \o seqs[k + 1]
<1>1. k \in 0 .. N
  BY DEF Pieces
<1>2. \A n \in 0 .. N : Joined(seqs, n) \in Seq(T) /\ Len(Joined(seqs, n)) \in Nat
  BY JoinedGrows
<1>3. Joined(seqs, k) \in Seq(T)
  BY <1>1, <1>2
<1> QED
  BY <1>3, JoinedNext

-----------------------------------------------------------------------------
(* Where the words of an item are *)

Steps(parts) == [i \in DOMAIN parts |-> IF i = 1 THEN <<parts[i].name>> ELSE <<Word("."), parts[i].name>>]

Spelled(T, parts, n) ==
    /\ n \in Nat /\ n # 0 /\ DOMAIN parts = 1 .. n /\ Word(".") \in T
    /\ \A j \in 1 .. n : parts[j].name \in T

(* A path is its first name, then a dot and a name for each part. *)
LEMMA StepsArePieces ==
    ASSUME NEW T, NEW parts, NEW n, Spelled(T, parts, n)
    PROVE  /\ Pieces(T, Steps(parts), n) /\ Steps(parts) = [k \in 1 .. n |-> Steps(parts)[k]]
           /\ \A i \in 1 .. n : Len(Joined(Steps(parts), i)) = 2 * i - 1
           /\ Steps(parts)[1] = <<parts[1].name>>
           /\ \A i \in 1 .. n : i # 1 => Steps(parts)[i] = <<Word("."), parts[i].name>>
           /\ Dotted(parts) = Joined(Steps(parts), n)
<1>1. /\ n \in Nat /\ n # 0 /\ DOMAIN parts = 1 .. n /\ Word(".") \in T
      /\ \A j \in 1 .. n : parts[j].name \in T
  BY DEF Spelled
<1>2. PICK s, dot : s = Steps(parts) /\ dot = Word(".")
  OBVIOUS
<1>3. /\ DOMAIN s = 1 .. n /\ s = [k \in 1 .. n |-> s[k]]
      /\ \A i \in 1 .. n : s[i] = IF i = 1 THEN <<parts[i].name>> ELSE <<dot, parts[i].name>>
  BY <1>1, <1>2 DEF Steps
<1>4. 1 \in 1 .. n
  BY <1>1
<1>5. s[1] = <<parts[1].name>> /\ \A i \in 1 .. n : i # 1 => s[i] = <<dot, parts[i].name>>
  BY <1>3, <1>4
<1>6. ASSUME NEW i \in 1 .. n
      PROVE  s[i] \in Seq(T) /\ Len(s[i]) = IF i = 1 THEN 1 ELSE 2
  <2>1. PICK name : name = parts[i].name
    OBVIOUS
  <2>2. name \in T /\ dot \in T
    BY <1>1, <1>2, <2>1
  <2>3. /\ <<name>> \in Seq(T) /\ Len(<<name>>) = 1
        /\ <<dot, name>> \in Seq(T) /\ Len(<<dot, name>>) = 2
    BY <2>2
  <2> QED
    BY <1>3, <2>1, <2>3
<1>7. Pieces(T, s, n)
  BY <1>1, <1>3, <1>6 DEF Pieces
<1>8. /\ Joined(s, 0) = <<>>
      /\ \A i \in 0 .. n : i < n => Len(Joined(s, i + 1)) = Len(Joined(s, i)) + Len(s[i + 1])
      /\ FlattenSeq(s) = Joined(s, n)
  <2>1. /\ Joined(s, 0) = <<>>
        /\ \A i \in 0 .. n : i < n =>
              /\ Joined(s, i + 1) = Joined(s, i) \o s[i + 1]
              /\ Len(Joined(s, i + 1)) = Len(Joined(s, i)) + Len(s[i + 1])
        /\ s = [k \in 1 .. n |-> s[k]] => FlattenSeq(s) = Joined(s, n)
    BY <1>7, JoinedGrows
  <2>2. s = [k \in 1 .. n |-> s[k]]
    BY <1>3
  <2> QED
    BY <2>1, <2>2
<1> DEFINE Good == {i \in 0 .. n : i # 0 => Len(Joined(s, i)) = 2 * i - 1}
<1>9. 0 \in Good
  BY <1>1
<1>10. ASSUME NEW i \in 0 .. n, i \in Good, i + 1 <= n
       PROVE  i + 1 \in Good
  <2>1. i + 1 \in 1 .. n /\ i + 1 \in 0 .. n /\ i < n
    BY <1>1, <1>10
  <2>2. Len(Joined(s, i + 1)) = Len(Joined(s, i)) + Len(s[i + 1])
    BY <1>8, <2>1
  <2>3. CASE i = 0
    <3>0. i + 1 = 1 /\ 1 \in 1 .. n
      BY <2>1, <2>3
    <3>1. Len(Joined(s, 0)) = 0 /\ Len(s[i + 1]) = 1
      BY <1>6, <1>8, <3>0
    <3> QED
      BY <2>1, <2>2, <2>3, <3>1
  <2>4. CASE i # 0
    <3>0. PICK l : l = i + 1
      OBVIOUS
    <3>2. l \in 1 .. n /\ l # 1
      BY <2>1, <2>4, <3>0
    <3>3. Len(s[l]) = 2
      BY <1>6, <3>2
    <3>1. Len(Joined(s, i)) = 2 * i - 1 /\ Len(s[i + 1]) = 2
      BY <1>10, <2>4, <3>0, <3>3
    <3> QED
      BY <2>1, <2>2, <3>1
  <2> QED
    BY <2>3, <2>4
<1>11. \A i \in 1 .. n : Len(Joined(s, i)) = 2 * i - 1
  <2> HIDE DEF Good
  <2>1. 0 .. n \subseteq Good
    BY <1>1, <1>9, <1>10, NumbersAreReached
  <2>2. \A i \in 1 .. n : i \in 0 .. n /\ i # 0
    BY <1>1
  <2> QED
    BY <2>1, <2>2 DEF Good
<1>12. Dotted(parts) = Joined(s, n)
  BY <1>2, <1>8 DEF Dotted, Steps
<1> QED
  BY <1>2, <1>3, <1>5, <1>7, <1>11, <1>12

(* A path has its names at the odd places and dots at the even ones. *)
LEMMA DottedIs ==
    ASSUME NEW T, NEW parts, NEW n, Spelled(T, parts, n)
    PROVE  /\ Dotted(parts) \in Seq(T) /\ Len(Dotted(parts)) = 2 * n - 1
           /\ \A j \in 1 .. n : Dotted(parts)[2 * j - 1] = parts[j].name
           /\ \A j \in 1 .. n : j # n => Dotted(parts)[2 * j] = Word(".")
<1>1. n \in Nat /\ n # 0 /\ n \in 1 .. n /\ 1 \in 1 .. n
  BY DEF Spelled
<1>2. PICK s, d, dot : s = Steps(parts) /\ d = Dotted(parts) /\ dot = Word(".")
  OBVIOUS
<1>3. /\ Pieces(T, s, n) /\ d = Joined(s, n)
      /\ \A i \in 1 .. n : Len(Joined(s, i)) = 2 * i - 1
      /\ s[1] = <<parts[1].name>>
      /\ \A i \in 1 .. n : i # 1 => s[i] = <<dot, parts[i].name>>
  BY <1>2, StepsArePieces
<1>4. Joined(s, 0) = <<>> /\ d \in Seq(T)
  <2>1. n \in 0 .. n
    BY <1>1
  <2> QED
    BY <1>3, <2>1, JoinedGrows
<1>5. Holds(s, n)
  <2>1. n \in 0 .. n
    BY <1>1
  <2> QED
    BY <1>3, <2>1, JoinedHolds
<1>6. ASSUME NEW j \in 1 .. n, j # 1
      PROVE  d[2 * j - 1] = parts[j].name /\ d[2 * j - 2] = dot
  <2>1. j - 1 \in 1 .. n
    BY <1>1, <1>6
  <2>2. Len(Joined(s, j - 1)) = 2 * j - 3
    BY <1>3, <2>1
  <2>3. PICK name : name = parts[j].name
    OBVIOUS
  <2>4. s[j] = <<dot, name>> /\ Len(s[j]) = 2 /\ s[j][1] = dot /\ s[j][2] = name
    <3>1. s[j] = <<dot, name>>
      BY <1>3, <1>6, <2>3
    <3>2. PICK p : p = <<dot, name>>
      OBVIOUS
    <3>3. Len(p) = 2 /\ p[1] = dot /\ p[2] = name
      BY <3>2
    <3> QED
      BY <3>1, <3>2, <3>3
  <2>5. 1 \in 1 .. Len(s[j]) /\ 2 \in 1 .. Len(s[j])
    BY <2>4
  <2>6. d[2 * j - 3 + 1] = dot /\ d[2 * j - 3 + 2] = name
    BY <1>3, <1>5, <2>2, <2>4, <2>5 DEF Holds
  <2>7. 2 * j - 3 + 1 = 2 * j - 2 /\ 2 * j - 3 + 2 = 2 * j - 1
    BY <1>1
  <2> QED
    BY <2>3, <2>6, <2>7
<1>7. d[1] = parts[1].name
  <2>1. PICK name : name = parts[1].name
    OBVIOUS
  <2>2. s[1] = <<name>> /\ Len(s[1]) = 1 /\ s[1][1] = name /\ 1 \in 1 .. Len(s[1])
    BY <1>3, <2>1
  <2>3. Len(Joined(s, 1 - 1)) = 0
    BY <1>4
  <2>4. d[0 + 1] = name
    BY <1>1, <1>3, <1>5, <2>2, <2>3 DEF Holds
  <2> QED
    BY <2>1, <2>4
<1>8. \A j \in 1 .. n : d[2 * j - 1] = parts[j].name
  <2> SUFFICES ASSUME NEW j \in 1 .. n PROVE d[2 * j - 1] = parts[j].name
    OBVIOUS
  <2>1. CASE j = 1
    BY <1>7, <2>1
  <2>2. CASE j # 1
    BY <1>6, <2>2
  <2> QED
    BY <2>1, <2>2
<1>9. ASSUME NEW j \in 1 .. n, j # n
      PROVE  d[2 * j] = dot
  <2>1. j + 1 \in 1 .. n /\ j + 1 # 1 /\ 2 * (j + 1) - 2 = 2 * j
    BY <1>1, <1>9
  <2>2. d[2 * (j + 1) - 2] = dot
    BY <1>6, <2>1
  <2> QED
    BY <2>1, <2>2
<1>10. Len(d) = 2 * n - 1
  BY <1>1, <1>3
<1> QED
  BY <1>2, <1>4, <1>8, <1>9, <1>10

SpelledItems(T, items, N) ==
    /\ N \in Nat /\ items \in Seq(ToSet(items)) /\ N = Len(items)
    /\ \A k \in 1 .. N : Word(items[k].is) \in T /\ Spelled(T, items[k].parts, Len(items[k].parts))

WordsIn(items) == [k \in DOMAIN items |-> Words(items[k])]

(* The words of an item: a path, or its kind and its name. *)
LEMMA WordsAre ==
    ASSUME NEW T, NEW item, Word(item.is) \in T, Spelled(T, item.parts, Len(item.parts))
    PROVE  /\ Words(item) \in Seq(T)
           /\ Len(Words(item)) = IF item.is \in Uses THEN 2 * Len(item.parts) - 1 ELSE 2
           /\ Len(Words(item)) \in Nat /\ Len(Words(item)) > 0
           /\ item.is \in Uses => Words(item) = Dotted(item.parts)
           /\ item.is \notin Uses => Words(item) = <<Word(item.is), item.parts[1].name>>
<1>1. /\ Len(item.parts) \in Nat /\ Len(item.parts) # 0 /\ 1 \in 1 .. Len(item.parts)
      /\ item.parts[1].name \in T
  BY DEF Spelled
<1>2. CASE item.is \in Uses
  <2>1. Words(item) = Dotted(item.parts)
    BY <1>2 DEF Words
  <2>2. PICK n, d : n = Len(item.parts) /\ d = Dotted(item.parts)
    OBVIOUS
  <2>3. d \in Seq(T) /\ Len(d) = 2 * n - 1
    BY <2>2, DottedIs
  <2>4. 2 * n - 1 \in Nat /\ 2 * n - 1 > 0
    BY <1>1, <2>2
  <2> QED
    BY <1>2, <2>1, <2>2, <2>3, <2>4
<1>3. CASE item.is \notin Uses
  <2>1. PICK is, name : is = Word(item.is) /\ name = item.parts[1].name
    OBVIOUS
  <2>2. Words(item) = <<is, name>>
    BY <1>3, <2>1 DEF Words
  <2>3. <<is, name>> \in Seq(T) /\ Len(<<is, name>>) = 2
    BY <1>1, <2>1
  <2> QED
    BY <1>3, <2>1, <2>2, <2>3
<1> QED
  BY <1>2, <1>3

(* The words of each item stand in the text where At says. *)
LEMMA WordsArePlaced ==
    ASSUME NEW T, NEW items, NEW N, SpelledItems(T, items, N)
    PROVE  /\ Pieces(T, WordsIn(items), N)
           /\ Text(items) = Joined(WordsIn(items), N)
           /\ Text(items) \in Seq(T)
           /\ \A k \in 1 .. N :
                 /\ At(items, k) = Len(Joined(WordsIn(items), k - 1)) /\ At(items, k) \in Nat
                 /\ Len(Joined(WordsIn(items), k)) = At(items, k) + Len(Words(items[k]))
                 /\ \A j \in 1 .. Len(Words(items[k])) : Text(items)[At(items, k) + j] = Words(items[k])[j]
<1>1. N \in Nat /\ N = Len(items) /\ items \in Seq(ToSet(items)) /\ DOMAIN items = 1 .. N
  BY DEF SpelledItems
<1>2. ASSUME NEW k \in 1 .. N
      PROVE  Words(items[k]) \in Seq(T) /\ Len(Words(items[k])) \in Nat
  <2>1. PICK item : item = items[k]
    OBVIOUS
  <2>2. Word(item.is) \in T /\ Spelled(T, item.parts, Len(item.parts))
    BY <2>1 DEF SpelledItems
  <2>3. Words(item) \in Seq(T) /\ Len(Words(item)) \in Nat
    BY <2>2, WordsAre
  <2> QED
    BY <2>1, <2>3
<1>3. PICK s : s = WordsIn(items)
  OBVIOUS
<1>4. /\ DOMAIN s = 1 .. N /\ s = [k \in 1 .. N |-> s[k]]
      /\ \A k \in 1 .. N : s[k] = Words(items[k])
  BY <1>1, <1>3 DEF WordsIn
<1>5. Pieces(T, s, N)
  BY <1>1, <1>2, <1>4 DEF Pieces
<1>6. /\ \A n \in 0 .. N : Joined(s, n) \in Seq(T) /\ Len(Joined(s, n)) \in Nat
      /\ \A n \in 0 .. N : n < N =>
            /\ Joined(s, n + 1) = Joined(s, n) \o s[n + 1]
            /\ Len(Joined(s, n + 1)) = Len(Joined(s, n)) + Len(s[n + 1])
      /\ s = [k \in 1 .. N |-> s[k]] => FlattenSeq(s) = Joined(s, N)
  BY <1>5, JoinedGrows
<1>7. Text(items) = Joined(s, N)
  BY <1>3, <1>4, <1>6 DEF Text, WordsIn
<1>8. Joined(s, N) \in Seq(T)
  BY <1>1, <1>6
<1>9. ASSUME NEW k \in 1 .. N
      PROVE  At(items, k) = Len(Joined(s, k - 1))
  <2>1. PICK short : short = SubSeq(items, 1, k - 1)
    OBVIOUS
  <2>2. DOMAIN short = 1 .. k - 1 /\ \A i \in 1 .. k - 1 : short[i] = items[i] /\ i \in 1 .. N
    <3>1. k \in Int /\ k - 1 \in Int /\ 1 <= k /\ \A i \in 1 .. k - 1 : i \in 1 .. N
      BY <1>1
    <3>2. \A i \in 1 .. k - 1 : items[i] \in ToSet(items)
      BY <1>1, <3>1
    <3>3. /\ short \in Seq(ToSet(items)) /\ Len(short) = k - 1
          /\ \A i \in 1 .. k - 1 : short[i] = items[i]
      <4>1. /\ short \in Seq(ToSet(items))
            /\ Len(short) = IF 1 <= k - 1 THEN k - 1 - 1 + 1 ELSE 0
            /\ \A i \in 1 .. k - 1 - 1 + 1 : short[i] = items[1 + i - 1]
        BY <2>1, <3>1, <3>2, SubSeqProperties
      <4>2. k - 1 - 1 + 1 = k - 1 /\ \A i \in 1 .. k - 1 : 1 + i - 1 = i
        BY <3>1
      <4> QED
        BY <3>1, <4>1, <4>2
    <3> QED
      BY <3>1, <3>3
  <2>3. [i \in DOMAIN short |-> Words(short[i])] = [i \in 1 .. k - 1 |-> s[i]]
    BY <1>4, <2>2
  <2>4. Text(short) = Joined(s, k - 1)
    BY <2>3 DEF Text, Joined
  <2> QED
    BY <2>1, <2>4 DEF At
<1>10. Holds(s, N)
  BY <1>1, <1>5, JoinedHolds
<1>11. ASSUME NEW k \in 1 .. N
       PROVE  /\ At(items, k) = Len(Joined(s, k - 1)) /\ At(items, k) \in Nat
              /\ Len(Joined(s, k)) = At(items, k) + Len(Words(items[k]))
              /\ \A j \in 1 .. Len(Words(items[k])) : Text(items)[At(items, k) + j] = Words(items[k])[j]
  <2>1. k - 1 \in 0 .. N /\ k - 1 < N /\ (k - 1) + 1 = k
    BY <1>1
  <2>2. At(items, k) = Len(Joined(s, k - 1))
    BY <1>9
  <2>3. Len(Joined(s, k - 1)) \in Nat /\ Len(Joined(s, k)) = Len(Joined(s, k - 1)) + Len(s[k])
    BY <1>6, <2>1
  <2>4. \A j \in 1 .. Len(s[k]) : Joined(s, N)[Len(Joined(s, k - 1)) + j] = s[k][j]
    BY <1>10 DEF Holds
  <2> QED
    BY <1>4, <1>7, <2>2, <2>3, <2>4
<1> QED
  BY <1>3, <1>5, <1>7, <1>8, <1>11

(* What its items read, one after the other, is what a text reads. *)
LEMMA ItemsRead ==
    ASSUME NEW T, NEW items, NEW N, NEW own, NEW images,
           SpelledItems(T, items, N), Pieces(T, images, N),
           \A k \in 1 .. N : Reads(T, Text(items), At(items, k), At(items, k) + Len(Words(items[k])), own[k], images[k])
    PROVE  Reads(T, Text(items), 0, Len(Text(items)), UNION {own[k] : k \in 1 .. N}, Joined(images, N))
<1>1. PICK W, s : W = Text(items) /\ s = WordsIn(items)
  OBVIOUS
<1>2. /\ N \in Nat /\ Pieces(T, s, N) /\ W = Joined(s, N) /\ W \in Seq(T)
      /\ \A k \in 1 .. N :
            /\ At(items, k) = Len(Joined(s, k - 1)) /\ At(items, k) \in Nat
            /\ Len(Joined(s, k)) = At(items, k) + Len(Words(items[k]))
  <2>1. N \in Nat
    BY DEF Pieces
  <2>2. /\ Pieces(T, WordsIn(items), N)
        /\ Text(items) = Joined(WordsIn(items), N)
        /\ Text(items) \in Seq(T)
        /\ \A k \in 1 .. N :
              /\ At(items, k) = Len(Joined(WordsIn(items), k - 1)) /\ At(items, k) \in Nat
              /\ Len(Joined(WordsIn(items), k)) = At(items, k) + Len(Words(items[k]))
              /\ \A j \in 1 .. Len(Words(items[k])) : Text(items)[At(items, k) + j] = Words(items[k])[j]
    BY WordsArePlaced
  <2> QED
    BY <1>1, <2>1, <2>2
<1>3. /\ Joined(images, 0) = <<>> /\ Joined(s, 0) = <<>>
      /\ \A n \in 0 .. N : n < N => Joined(images, n + 1) = Joined(images, n) \o images[n + 1]
      /\ \A n \in 0 .. N : Len(Joined(s, n)) \in Nat
  BY <1>2, JoinedGrows
<1> DEFINE E(n) == UNION {own[k] : k \in 1 .. n}
           Good == {n \in 0 .. N : Reads(T, W, 0, Len(Joined(s, n)), E(n), Joined(images, n))}
<1>4. 0 \in Good
  <2>1. E(0) = {} /\ Len(Joined(s, 0)) = 0 /\ 0 \in 0 .. N
    BY <1>2, <1>3
  <2>2. Reads(T, W, 0, 0, {}, <<>>)
    BY NothingReads
  <2> QED
    BY <1>3, <2>1, <2>2
<1>5. ASSUME NEW n \in 0 .. N, n \in Good, n + 1 <= N
      PROVE  n + 1 \in Good
  <2>1. n \in Nat /\ n < N /\ n + 1 \in 1 .. N /\ n + 1 \in 0 .. N /\ (n + 1) - 1 = n
    BY <1>2, <1>5
  <2>2. PICK b, c, D, t, x : /\ b = Len(Joined(s, n)) /\ c = Len(Joined(s, n + 1)) /\ D = own[n + 1]
                             /\ t = images[n + 1] /\ x = Joined(images, n)
    OBVIOUS
  <2>3. /\ b = At(items, n + 1) /\ c = At(items, n + 1) + Len(Words(items[n + 1]))
    BY <1>2, <2>1, <2>2
  <2>4. Reads(T, W, b, c, D, t)
    BY <1>1, <2>1, <2>2, <2>3
  <2>5. b \in Nat /\ c \in Nat /\ b <= c
    <3>1. Len(s[n + 1]) \in Nat
      <4>1. s[n + 1] \in Seq(T)
        BY <1>2, <2>1 DEF Pieces
      <4> QED
        BY <4>1, LenProperties
    <3>2. b \in Nat /\ c = b + Len(s[n + 1])
      BY <1>2, <1>3, <2>1, <2>2, JoinedGrows
    <3> QED
      BY <3>1, <3>2
  <2>6. Reads(T, W, 0, b, E(n), x)
    BY <1>5, <2>2
  <2>7. PICK En : En = E(n)
    OBVIOUS
  <2>8. Reads(T, W, 0, c, En \cup D, x \o t)
    <3>1. 0 \in Nat /\ 0 <= b /\ Reads(T, W, 0, b, En, x)
      BY <2>5, <2>6, <2>7
    <3> HIDE DEF E, Good
    <3> QED
      BY <2>4, <2>5, <3>1, ThenReads
  <2>9. En \cup D = E(n + 1)
    <3>1. \A k : k \in 1 .. (n + 1) <=> k \in 1 .. n \/ k = n + 1
      BY <2>1
    <3> QED
      BY <2>2, <2>7, <3>1
  <2>10. x \o t = Joined(images, n + 1)
    BY <1>3, <2>1, <2>2
  <2> HIDE DEF E
  <2> QED
    BY <2>1, <2>2, <2>8, <2>9, <2>10
<1>6. N \in Good
  <2> HIDE DEF Good
  <2>1. 0 .. N \subseteq Good
    BY <1>2, <1>4, <1>5, NumbersAreReached
  <2> QED
    BY <1>2, <2>1
<1> QED
  BY <1>1, <1>2, <1>6

-----------------------------------------------------------------------------
(* What every item reads *)

(* Words that no edit is about read themselves. *)
LEMMA UneditedReads ==
    ASSUME NEW T, NEW W, NEW a \in Nat, NEW s \in Seq(T), \A j \in 1 .. Len(s) : W[a + j] = s[j]
    PROVE  Reads(T, W, a, a + Len(s), {}, s)
<1>1. PICK L, b : L = Len(s) /\ b = a + Len(s)
  OBVIOUS
<1>2. L \in Nat /\ b \in Nat /\ b = a + L /\ \A j \in 1 .. L : s[j] \in T
  BY <1>1
<1>3. PICK grown : grown = [n \in a .. b |-> SubSeq(s, 1, n - a)]
  OBVIOUS
<1>4. \A n \in a .. b : grown[n] = SubSeq(s, 1, n - a)
  BY <1>3
<1>5. ASSUME NEW n \in a .. b PROVE grown[n] \in Seq(T)
  <2>1. n - a \in Int /\ \A i \in 1 .. n - a : s[i] \in T
    BY <1>2
  <2>2. SubSeq(s, 1, n - a) \in Seq(T)
    BY <2>1, SubSeqProperties
  <2> QED
    BY <1>4, <2>2
<1>6. grown[a] = <<>>
  <2>1. a \in a .. b /\ a - a = 0
    BY <1>2
  <2>2. SubSeq(s, 1, 0) = <<>>
    BY SubSeqEmpty
  <2> QED
    BY <1>4, <2>1, <2>2
<1>7. grown[b] = s
  <2>1. b \in a .. b /\ b - a = L
    BY <1>2
  <2>2. SubSeq(s, 1, L) = s
    BY <1>1, SubSeqFull
  <2> QED
    BY <1>4, <2>1, <2>2
<1>8. ASSUME NEW n \in a + 1 .. b PROVE grown[n] = grown[n - 1] \o <<W[n]>>
  <2>1. PICK j : j = n - a
    OBVIOUS
  <2>2. /\ j \in 1 .. L /\ n = a + j /\ n - 1 \in a .. b /\ n \in a .. b /\ n - 1 - a = j - 1 /\ 1 \in 1 .. L
        /\ j \in 1 .. Len(s) /\ 1 \in 1 .. Len(s)
    BY <1>1, <1>2, <2>1
  <2>3. SubSeq(s, 1, j) = SubSeq(s, 1, j - 1) \o <<s[j]>>
    BY <2>2, SubSeqRecursiveSecond
  <2>4. W[n] = s[j]
    BY <2>2
  <2> QED
    BY <1>4, <2>1, <2>2, <2>3, <2>4
<1>9. Grown(T, W, a, b, {}, grown)
  BY <1>5, <1>8 DEF Grown
<1>10. Apart(T, {}, a, b)
  BY DEF Apart
<1> QED
  BY <1>1, <1>6, <1>7, <1>9, <1>10 DEF Reads

(* A name reads the final name of what it refers to, or itself. *)
LEMMA NameReads ==
    ASSUME NEW T, NEW W, NEW a \in Nat, NEW part,
           W[a + 1] = part.name, part.name \in T, part.id \in TopLevel => names[part.id] \in T
    PROVE  /\ IdName(part) \in T
           /\ Reads(T, W, a, a + 1,
                    IF part.id \in TopLevel THEN {Edit(a, a + 1, <<names[part.id]>>)} ELSE {}, <<IdName(part)>>)
<1>1. CASE part.id \in TopLevel
  <2>1. PICK name : name = names[part.id]
    OBVIOUS
  <2>2. IdName(part) = name /\ name \in T
    BY <1>1, <2>1 DEF IdName
  <2>3. PICK text, b : text = <<name>> /\ b = a + 1
    OBVIOUS
  <2>4. b \in Nat /\ a < b /\ text \in Seq(T)
    BY <2>2, <2>3
  <2>5. Reads(T, W, a, b, {Edit(a, b, text)}, text)
    BY <2>4, EditReads
  <2> QED
    BY <1>1, <2>1, <2>2, <2>3, <2>5
<1>2. CASE part.id \notin TopLevel
  <2>1. IdName(part) = W[a + 1] /\ W[a + 1] \in T
    BY <1>2 DEF IdName
  <2>2. Reads(T, W, a, a + 1, {}, <<W[a + 1]>>)
    BY <2>1, WordReads
  <2> QED
    BY <1>2, <2>1, <2>2
<1> QED
  BY <1>1, <1>2

(* An item of a kind and a name that keeps its kind. *)
LEMMA KindReads ==
    ASSUME NEW T, NEW W, NEW a \in Nat, NEW E, NEW x,
           W[a + 1] \in T, x \in T, Reads(T, W, a + 1, a + 2, E, <<x>>)
    PROVE  Reads(T, W, a, a + 2, E, <<W[a + 1], x>>)
<1>1. PICK b, c, w : b = a + 1 /\ c = a + 2 /\ w = W[a + 1]
  OBVIOUS
<1>2. PICK s, t, none : s = <<w>> /\ t = <<x>> /\ none = {}
  OBVIOUS
<1>3. Reads(T, W, a, b, none, s)
  BY <1>1, <1>2, WordReads
<1>4. b \in Nat /\ c \in Nat /\ a <= b /\ b <= c /\ Reads(T, W, b, c, E, t)
  BY <1>1, <1>2
<1>5. Reads(T, W, a, c, none \cup E, s \o t)
  BY <1>3, <1>4, ThenReads
<1>6. none \cup E = E
  BY <1>2
<1>7. s \o t = <<w, x>>
  <2>1. w \in T /\ x \in T
    BY <1>1
  <2>2. s \in Seq(T) /\ t \in Seq(T) /\ Len(s) = 1 /\ Len(t) = 1 /\ s[1] = w /\ t[1] = x
    BY <1>2, <2>1
  <2>3. PICK both : both = s \o t
    OBVIOUS
  <2>4. both \in Seq(T) /\ Len(both) = 2 /\ both[1] = w /\ both[2] = x
    BY <2>2, <2>3, ConcatProperties
  <2>5. <<w, x>> \in Seq(T) /\ Len(<<w, x>>) = 2 /\ <<w, x>>[1] = w /\ <<w, x>>[2] = x
    BY <2>1
  <2>6. both = <<w, x>>
    BY <2>4, <2>5, SeqEqual
  <2> QED
    BY <2>3, <2>6
<1> QED
  BY <1>1, <1>5, <1>6, <1>7

(* An item that goes. *)
LEMMA ErasureReads ==
    ASSUME NEW T, NEW W, NEW a \in Nat, NEW c, c = a + 2
    PROVE  Reads(T, W, a, c, {Edit(a, c, <<>>)}, <<>>)
<1>1. PICK none : none = <<>>
  OBVIOUS
<1>2. c \in Nat /\ a < c /\ none \in Seq(T)
  BY <1>1
<1>3. Reads(T, W, a, c, {Edit(a, c, none)}, none)
  BY <1>2, EditReads
<1> QED
  BY <1>1, <1>3

(* An item in the words W of its source, after the first a of them. *)
Stands(T, W, a, item) ==
    /\ a \in Nat /\ Word(item.is) \in T /\ Spelled(T, item.parts, Len(item.parts))
    /\ \A j \in 1 .. Len(Words(item)) : W[a + j] = Words(item)[j]

(* An item that is no use stands as its kind and its name. *)
LEMMA KindStands ==
    ASSUME NEW T, NEW W, NEW a, NEW item, Stands(T, W, a, item), item.is \notin Uses
    PROVE  /\ a \in Nat /\ Len(Words(item)) = 2 /\ Words(item) = <<Word(item.is), item.parts[1].name>>
           /\ W[a + 1] = Word(item.is) /\ Word(item.is) \in T
           /\ W[a + 2] = item.parts[1].name /\ item.parts[1].name \in T
<1>1. PICK is, name, words : is = Word(item.is) /\ name = item.parts[1].name /\ words = Words(item)
  OBVIOUS
<1>2. a \in Nat /\ is \in T /\ name \in T
  BY <1>1 DEF Stands, Spelled
<1>3. words = <<is, name>>
  BY <1>1 DEF Words
<1>4. Len(words) = 2 /\ words[1] = is /\ words[2] = name
  BY <1>2, <1>3
<1>5. W[a + 1] = words[1] /\ W[a + 2] = words[2]
  <2>1. \A j \in 1 .. 2 : W[a + j] = words[j]
    BY <1>1, <1>4 DEF Stands
  <2> QED
    BY <2>1
<1> QED
  BY <1>1, <1>2, <1>3, <1>4, <1>5

(* It takes another name. *)
LEMMA SecondReads ==
    ASSUME NEW T, NEW W, NEW a, NEW item, NEW name \in T, Stands(T, W, a, item), item.is \notin Uses
    PROVE  Reads(T, W, a, a + Len(Words(item)), {Edit(a + 1, a + 2, <<name>>)}, <<Word(item.is), name>>)
<1>1. /\ a \in Nat /\ Len(Words(item)) = 2 /\ W[a + 1] = Word(item.is) /\ Word(item.is) \in T
  BY KindStands
<1>2. PICK b, c, text, E : b = a + 1 /\ c = a + 2 /\ text = <<name>> /\ E = {Edit(b, c, text)}
  OBVIOUS
<1>3. b \in Nat /\ c \in Nat /\ b < c /\ text \in Seq(T)
  BY <1>1, <1>2
<1>4. Reads(T, W, b, c, E, text)
  BY <1>2, <1>3, EditReads
<1>5. W[a + 1] \in T /\ Reads(T, W, a + 1, a + 2, E, <<name>>)
  BY <1>1, <1>2, <1>4
<1>6. Reads(T, W, a, a + 2, E, <<W[a + 1], name>>)
  BY <1>1, <1>5, KindReads
<1> QED
  BY <1>1, <1>2, <1>6

(* It goes. *)
LEMMA GoneReads ==
    ASSUME NEW T, NEW W, NEW a, NEW item, Stands(T, W, a, item), item.is \notin Uses
    PROVE  Reads(T, W, a, a + Len(Words(item)), {Edit(a, a + 2, <<>>)}, <<>>)
<1>1. a \in Nat /\ Len(Words(item)) = 2
  BY KindStands
<1>2. Reads(T, W, a, a + 2, {Edit(a, a + 2, <<>>)}, <<>>)
  BY <1>1, ErasureReads
<1> QED
  BY <1>1, <1>2

(* It stays as it is. *)
LEMMA UnchangedReads ==
    ASSUME NEW T, NEW W, NEW a, NEW item, Stands(T, W, a, item)
    PROVE  Reads(T, W, a, a + Len(Words(item)), {}, Words(item))
<1>1. PICK words : words = Words(item)
  OBVIOUS
<1>2. Word(item.is) \in T /\ Spelled(T, item.parts, Len(item.parts))
  BY DEF Stands
<1>3. words \in Seq(T)
  BY <1>1, <1>2, WordsAre
<1>4. a \in Nat /\ \A j \in 1 .. Len(words) : W[a + j] = words[j]
  BY <1>1 DEF Stands
<1>5. Reads(T, W, a, a + Len(words), {}, words)
  BY <1>3, <1>4, UneditedReads
<1> QED
  BY <1>1, <1>5

(* A path is written anew. *)
LEMMA PathReads ==
    ASSUME NEW T, NEW W, NEW a, NEW item, NEW text \in Seq(T), Stands(T, W, a, item), item.is = "use"
    PROVE  Reads(T, W, a, a + Len(Words(item)), {Edit(a, a + 2 * Len(item.parts) - 1, text)}, text)
<1>1. Word(item.is) \in T /\ Spelled(T, item.parts, Len(item.parts)) /\ item.is \in Uses
  BY DEF Stands, Uses
<1>2. /\ Len(Words(item)) = 2 * Len(item.parts) - 1
      /\ Len(Words(item)) \in Nat /\ Len(Words(item)) > 0
  BY <1>1, WordsAre
<1>3. PICK L, n : L = Len(Words(item)) /\ n = Len(item.parts)
  OBVIOUS
<1>4. PICK b : b = a + L
  OBVIOUS
<1>5. a \in Nat /\ n \in Nat /\ L \in Nat /\ L > 0 /\ L = 2 * n - 1
  BY <1>1, <1>2, <1>3 DEF Stands, Spelled
<1>6. b \in Nat /\ a < b /\ a + 2 * n - 1 = b
  BY <1>4, <1>5
<1>7. Reads(T, W, a, b, {Edit(a, b, text)}, text)
  BY <1>5, <1>6, EditReads
<1> QED
  BY <1>3, <1>4, <1>6, <1>7

(* What is read is text. *)
LEMMA ReadingsAreText ==
    ASSUME NEW T, NEW W, NEW a \in Nat, NEW L \in Nat, NEW E, NEW s, Reads(T, W, a, a + L, E, s)
    PROVE  s \in Seq(T)
<1>1. PICK b : b = a + L
  OBVIOUS
<1>2. b \in a .. b
  BY <1>1
<1>3. PICK grown : Grown(T, W, a, b, E, grown) /\ grown[b] = s
  BY <1>1 DEF Reads
<1> QED
  BY <1>2, <1>3 DEF Grown

-----------------------------------------------------------------------------
(* The parts of an access: imports and their dots go, definitions take their *)
(* final names.                                                              *)
PartEdits(a, part, j) ==
    IF part.id \in ImportIds THEN {Edit(a + 2 * j - 2, a + 2 * j, <<>>)}
    ELSE IF part.id \in TopLevel THEN {Edit(a + 2 * j - 2, a + 2 * j - 1, <<names[part.id]>>)}
    ELSE {}

PartsEdits(a, parts, j) == UNION {PartEdits(a, parts[k], k) : k \in 1 .. j}

(* The parts an access keeps. *)
Kept(parts, w) ==
    LET kept == SubSeq(parts, w, Len(parts))
    IN [j \in DOMAIN kept |-> [name |-> IdName(kept[j]), id |-> kept[j].id]]

(* Its first w - 1 parts name imports, the others do not. *)
Enters(parts, w, n) ==
    /\ n \in Nat /\ n = Len(parts) /\ DOMAIN parts = 1 .. n /\ w \in 1 .. n
    /\ \A k \in 1 .. n : parts[k].id \in ImportIds <=> k < w

(* Every name it may be rewritten to is a word. *)
Renames(T, parts, n) == \A k \in 1 .. n : parts[k].id \in TopLevel => names[parts[k].id] \in T

(* What a part is rewritten to is a word. *)
LEMMA IdNamesAreWords ==
    ASSUME NEW T, NEW parts, NEW n, NEW k \in 1 .. n, Spelled(T, parts, n), Renames(T, parts, n)
    PROVE  IdName(parts[k]) \in T
  BY DEF IdName, Spelled, Renames

(* The parts an access keeps, each under the name it is rewritten to. *)
LEMMA KeptAre ==
    ASSUME NEW T, NEW parts, NEW n, NEW w, NEW m,
           Spelled(T, parts, n), Enters(parts, w, n), Renames(T, parts, n), m = n - w + 1
    PROVE  /\ Spelled(T, Kept(parts, w), m)
           /\ \A i \in 1 .. m : Kept(parts, w)[i].name = IdName(parts[w + i - 1])
<1>1. n \in Nat /\ n = Len(parts) /\ DOMAIN parts = 1 .. n /\ w \in 1 .. n
  BY DEF Enters
<1>2. PICK kept, all : kept = SubSeq(parts, w, n) /\ all = {parts[k] : k \in 1 .. n}
  OBVIOUS
<1>3. m \in Nat /\ m # 0 /\ \A i \in 1 .. m : w + i - 1 \in 1 .. n
  BY <1>1, <1>2
<1>4. /\ DOMAIN kept = 1 .. m /\ \A i \in 1 .. m : kept[i] = parts[w + i - 1]
  <2>1. \A k \in w .. n : parts[k] \in all
    BY <1>1, <1>2
  <2>2. w \in Int /\ n \in Int /\ w <= n
    BY <1>1
  <2>3. /\ kept \in Seq(all) /\ Len(kept) = IF w <= n THEN n - w + 1 ELSE 0
        /\ \A i \in 1 .. n - w + 1 : kept[i] = parts[w + i - 1]
    BY <1>2, <2>1, <2>2, SubSeqProperties
  <2>4. Len(kept) = m
    BY <1>2, <2>2, <2>3
  <2> QED
    BY <1>2, <2>3, <2>4
<1>5. PICK shown : shown = [j \in 1 .. m |-> [name |-> IdName(kept[j]), id |-> kept[j].id]]
  OBVIOUS
<1>6. shown = Kept(parts, w)
  BY <1>1, <1>2, <1>4, <1>5 DEF Kept
<1>7. ASSUME NEW i \in 1 .. m
      PROVE  shown[i].name = IdName(parts[w + i - 1]) /\ shown[i].name \in T
  <2>1. PICK part, k : k = w + i - 1 /\ part = parts[k]
    OBVIOUS
  <2>2. k \in 1 .. n /\ kept[i] = part
    BY <1>3, <1>4, <2>1
  <2>3. IdName(parts[k]) \in T
    BY <2>2, IdNamesAreWords
  <2>4. shown[i].name = IdName(part)
    BY <1>5, <2>2
  <2> QED
    BY <2>1, <2>3, <2>4
<1>8. DOMAIN shown = 1 .. m /\ Len(shown) = m
  BY <1>3, <1>5
<1>9. Spelled(T, shown, m)
  BY <1>3, <1>7, <1>8 DEF Spelled
<1> QED
  BY <1>2, <1>6, <1>7, <1>8, <1>9

(* Nothing is defined under the name of an import. *)
LEMMA ImportsDefineNothing ==
    ASSUME program \in Programs, NEW id \in ImportIds
    PROVE  id \notin TopLevel
<1>1. PICK i \in ItemsOf({"import"}) : id = Id(i)
  BY DEF ImportIds
<1>2. ASSUME NEW d \in Definitions PROVE Id(d) # id
  <2>1. Item(d).is \in Collected /\ Item(i).is = "import" /\ i \in ItemsOf(Declaring) /\ d \in ItemsOf(Declaring)
    BY KindsDeclare DEF ItemsOf, Definitions
  <2>2. d # i
    BY <2>1 DEF Collected
  <2> QED
    BY <1>1, <2>1, <2>2, IdsDiffer
<1> QED
  BY <1>2 DEF TopLevel

(* What the first j parts of an access read. *)
ReadTo(T, W, a, parts, w, j) ==
    IF j < w THEN Reads(T, W, a, a + 2 * j, PartsEdits(a, parts, j), <<>>)
    ELSE Reads(T, W, a, a + 2 * j - 1, PartsEdits(a, parts, j), Joined(Steps(Kept(parts, w)), j - w + 1))

(* The edits of one part more of an access. *)
LEMMA OnePartMore ==
    ASSUME NEW a, NEW parts, NEW j \in Nat
    PROVE  PartsEdits(a, parts, j + 1) = PartsEdits(a, parts, j) \cup PartEdits(a, parts[j + 1], j + 1)
<1>1. \A k : k \in 1 .. (j + 1) <=> k \in 1 .. j \/ k = j + 1
  OBVIOUS
<1> QED
  BY <1>1 DEF PartsEdits

(* Another import goes. *)
LEMMA ImportPartReads ==
    ASSUME NEW T, NEW W, NEW a \in Nat, NEW parts, NEW w \in Nat, NEW j \in Nat,
           j + 1 < w, parts[j + 1].id \in ImportIds, ReadTo(T, W, a, parts, w, j)
    PROVE  ReadTo(T, W, a, parts, w, j + 1)
<1>1. PICK b, c, D, E : /\ b = a + 2 * j /\ c = a + 2 * (j + 1)
                        /\ D = PartsEdits(a, parts, j) /\ E = PartEdits(a, parts[j + 1], j + 1)
  OBVIOUS
<1>2. PICK none : none = <<>>
  OBVIOUS
<1>3. b \in Nat /\ c \in Nat /\ c = b + 2 /\ a <= b /\ b <= c /\ a + 2 * (j + 1) - 2 = b /\ j < w
  BY <1>1
<1>4. Reads(T, W, a, b, D, none)
  BY <1>1, <1>2, <1>3 DEF ReadTo
<1>5. E = {Edit(b, c, none)}
  BY <1>1, <1>2, <1>3 DEF PartEdits
<1>6. Reads(T, W, b, c, E, none)
  BY <1>2, <1>3, <1>5, ErasureReads
<1>7. Reads(T, W, a, c, D \cup E, none \o none)
  BY <1>3, <1>4, <1>6, ThenReads
<1>8. none \o none = none
  BY <1>2
<1>9. PartsEdits(a, parts, j + 1) = D \cup E
  BY <1>1, OnePartMore
<1> QED
  BY <1>1, <1>2, <1>7, <1>8, <1>9 DEF ReadTo

(* The first part that stays. *)
LEMMA FirstPartReads ==
    ASSUME NEW T, NEW W, NEW a \in Nat, NEW parts, NEW n, NEW w,
           Spelled(T, parts, n), Enters(parts, w, n), Renames(T, parts, n),
           W[a + 2 * (w - 1) + 1] = parts[w].name, ReadTo(T, W, a, parts, w, w - 1)
    PROVE  ReadTo(T, W, a, parts, w, w)
<1>0. /\ Spelled(T, Kept(parts, w), n - w + 1)
      /\ \A i \in 1 .. n - w + 1 : Kept(parts, w)[i].name = IdName(parts[w + i - 1])
  <2>1. PICK m : m = n - w + 1
    OBVIOUS
  <2>2. Spelled(T, Kept(parts, w), m) /\ \A i \in 1 .. m : Kept(parts, w)[i].name = IdName(parts[w + i - 1])
    BY <2>1, KeptAre
  <2> QED
    BY <2>1, <2>2
<1>1. PICK j, part, b, D, E :
         /\ j = w - 1 /\ part = parts[w] /\ b = a + 2 * j
         /\ D = PartsEdits(a, parts, j) /\ E = PartEdits(a, part, w)
  OBVIOUS
<1>2. PICK none, x : none = <<>> /\ x = IdName(part)
  OBVIOUS
<1>3. w \in 1 .. n /\ n \in Nat /\ j \in Nat /\ part.id \notin ImportIds /\ part.name \in T /\ (part.id \in TopLevel => names[part.id] \in T)
  BY <1>1 DEF Enters, Spelled, Renames
<1>4. /\ b \in Nat /\ b + 1 \in Nat /\ a <= b /\ b <= b + 1 /\ j < w /\ j + 1 = w /\ ~(w < w) /\ w - w + 1 = 1
      /\ a + 2 * w - 1 = b + 1 /\ a + 2 * w - 2 = b
  BY <1>1, <1>3
<1>5. Reads(T, W, a, b, D, none)
  BY <1>1, <1>2, <1>4 DEF ReadTo
<1>6. E = IF part.id \in TopLevel THEN {Edit(b, b + 1, <<names[part.id]>>)} ELSE {}
  BY <1>1, <1>3, <1>4 DEF PartEdits
<1>7. W[b + 1] = part.name
  BY <1>1
<1>8. x \in T /\ Reads(T, W, b, b + 1, E, <<x>>)
  BY <1>2, <1>3, <1>4, <1>6, <1>7, NameReads
<1>9. PICK t, c : t = <<x>> /\ c = b + 1
  OBVIOUS
<1>10. c \in Nat /\ a <= b /\ b <= c /\ Reads(T, W, b, c, E, t)
  BY <1>4, <1>8, <1>9
<1>11. Reads(T, W, a, c, D \cup E, none \o t)
  BY <1>4, <1>5, <1>10, ThenReads
<1>12. none \o t = t
  BY <1>2, <1>8, <1>9
<1>13. PartsEdits(a, parts, w) = D \cup E
  BY <1>1, <1>4, OnePartMore
<1>14. Joined(Steps(Kept(parts, w)), 1) = t
  <2>1. PICK s, m : s = Steps(Kept(parts, w)) /\ m = n - w + 1
    OBVIOUS
  <2>2. Spelled(T, Kept(parts, w), m) /\ Kept(parts, w)[1].name = x
    <3>1. n \in Nat /\ w \in Nat /\ w <= n
      BY <1>3, <1>4 DEF Enters
    <3>2. 1 \in 1 .. n - w + 1 /\ w + 1 - 1 = w
      BY <3>1
    <3> QED
      BY <1>0, <1>1, <1>2, <2>1, <3>2
  <2>3. Pieces(T, s, m) /\ s[1] = <<x>>
    BY <2>1, <2>2, StepsArePieces
  <2>4. m \in Nat /\ 0 \in 0 .. m /\ 0 < m /\ 0 + 1 = 1
    BY <1>3, <2>1 DEF Enters
  <2>5. Joined(s, 0) = <<>> /\ Joined(s, 0 + 1) = Joined(s, 0) \o s[0 + 1]
    <3>1. /\ Joined(s, 0) = <<>>
          /\ \A k \in 0 .. m : k < m => Joined(s, k + 1) = Joined(s, k) \o s[k + 1]
      <4>1. Pieces(T, s, m)
        BY <2>3
      <4> QED
        BY <4>1, JoinedGrows
    <3> QED
      BY <2>4, <3>1
  <2>6. Joined(s, 1) = none \o t
    BY <1>2, <1>9, <2>3, <2>4, <2>5
  <2> QED
    BY <1>12, <2>1, <2>6
<1> QED
  BY <1>4, <1>9, <1>11, <1>12, <1>13, <1>14 DEF ReadTo

(* Another part that stays. *)
LEMMA NextPartReads ==
    ASSUME NEW T, NEW W, NEW a \in Nat, NEW parts, NEW n, NEW w, NEW j \in Nat,
           Spelled(T, parts, n), Enters(parts, w, n), Renames(T, parts, n),
           w <= j, j < n, W[a + 2 * j] = Word("."), W[a + 2 * j + 1] = parts[j + 1].name,
           ReadTo(T, W, a, parts, w, j)
    PROVE  ReadTo(T, W, a, parts, w, j + 1)
<1>1. PICK part, b, c, D, E : /\ part = parts[j + 1] /\ b = a + 2 * j - 1 /\ c = a + 2 * j + 1
                              /\ D = PartsEdits(a, parts, j) /\ E = PartEdits(a, part, j + 1)
  OBVIOUS
<1>2. PICK x, s, m : x = IdName(part) /\ s = Steps(Kept(parts, w)) /\ m = j - w + 1
  OBVIOUS
<1>3. /\ w \in 1 .. n /\ n \in Nat /\ j + 1 \in 1 .. n /\ ~(j < w) /\ ~(j + 1 < w)
      /\ part.id \notin ImportIds /\ part.name \in T /\ (part.id \in TopLevel => names[part.id] \in T)
  BY <1>1 DEF Enters, Spelled, Renames
<1>4. /\ b \in Nat /\ c \in Nat /\ c = b + 2 /\ a <= b /\ b <= c /\ b + 1 \in Nat /\ b + 1 = a + 2 * j
      /\ a + 2 * (j + 1) - 1 = c /\ a + 2 * (j + 1) - 2 = b + 1 /\ b + 2 = (b + 1) + 1
  BY <1>1, <1>3
<1>5. m \in Nat /\ m + 1 \in 1 .. n - w + 1 /\ m # 0 /\ m + 1 # 1 /\ m < n - w + 1 /\ m \in 0 .. n - w + 1
      /\ w + (m + 1) - 1 = j + 1 /\ (j + 1) - w + 1 = m + 1 /\ n - w + 1 \in Nat
  BY <1>2, <1>3
<1>6. Reads(T, W, a, b, D, Joined(s, m))
  BY <1>1, <1>2, <1>3 DEF ReadTo
<1>7. E = IF part.id \in TopLevel THEN {Edit(b + 1, (b + 1) + 1, <<names[part.id]>>)} ELSE {}
  BY <1>1, <1>3, <1>4 DEF PartEdits
<1>8. W[b + 1] = Word(".") /\ Word(".") \in T /\ W[(b + 1) + 1] = part.name
  <2>1. Word(".") \in T
    BY DEF Spelled
  <2>2. (b + 1) + 1 = a + 2 * j + 1
    BY <1>4, <1>1
  <2> QED
    BY <1>1, <1>4, <2>1, <2>2
<1>9. x \in T /\ Reads(T, W, b + 1, (b + 1) + 1, E, <<x>>)
  BY <1>2, <1>3, <1>4, <1>7, <1>8, NameReads
<1>10. Reads(T, W, b, b + 2, E, <<W[b + 1], x>>)
  BY <1>4, <1>8, <1>9, KindReads
<1>11. PICK dot, t, u : dot = Word(".") /\ t = <<dot, x>> /\ u = Joined(s, m)
  OBVIOUS
<1>12. b \in Nat /\ c \in Nat /\ a <= b /\ b <= c /\ Reads(T, W, a, b, D, u) /\ Reads(T, W, b, c, E, t)
  BY <1>4, <1>6, <1>8, <1>10, <1>11
<1>13. Reads(T, W, a, c, D \cup E, u \o t)
  BY <1>12, ThenReads
<1>14. PartsEdits(a, parts, j + 1) = D \cup E
  BY <1>1, OnePartMore
<1>15. Joined(s, m + 1) = u \o t
  <2>1. /\ Spelled(T, Kept(parts, w), n - w + 1)
        /\ Kept(parts, w)[m + 1].name = x
    <3>1. PICK p : p = n - w + 1
      OBVIOUS
    <3>2. Spelled(T, Kept(parts, w), p) /\ \A i \in 1 .. p : Kept(parts, w)[i].name = IdName(parts[w + i - 1])
      BY <3>1, KeptAre
    <3> QED
      BY <1>1, <1>2, <1>5, <3>1, <3>2
  <2>2. Pieces(T, s, n - w + 1) /\ s[m + 1] = t
    <3>1. PICK parts2, m2 : parts2 = Kept(parts, w) /\ m2 = n - w + 1
      OBVIOUS
    <3>2. /\ Pieces(T, Steps(parts2), m2)
          /\ \A i \in 1 .. m2 : i # 1 => Steps(parts2)[i] = <<Word("."), parts2[i].name>>
      BY <2>1, <3>1, StepsArePieces
    <3> QED
      BY <1>2, <1>5, <1>11, <2>1, <3>1, <3>2
  <2>3. Joined(s, m + 1) = Joined(s, m) \o s[m + 1]
    <3>1. PICK N, dotted : N = n - w + 1 /\ dotted = s
      OBVIOUS
    <3>2. m \in Nat /\ m < N /\ Pieces(T, dotted, N)
      BY <1>5, <2>2, <3>1
    <3>3. Joined(dotted, m + 1) = Joined(dotted, m) \o dotted[m + 1]
      BY <3>2, JoinedStep
    <3> QED
      BY <3>1, <3>3
  <2> QED
    BY <1>11, <2>2, <2>3
<1> QED
  BY <1>2, <1>3, <1>4, <1>5, <1>13, <1>14, <1>15 DEF ReadTo

(* An access reads the parts it keeps, by their names. *)
LEMMA AccessReads ==
    ASSUME NEW T, NEW W, NEW a, NEW item, NEW w, Stands(T, W, a, item), item.is = "access",
           Enters(item.parts, w, Len(item.parts)), Renames(T, item.parts, Len(item.parts))
    PROVE  Reads(T, W, a, a + Len(Words(item)), PartsEdits(a, item.parts, Len(item.parts)), Dotted(Kept(item.parts, w)))
<1>1. PICK parts, n : parts = item.parts /\ n = Len(item.parts)
  OBVIOUS
<1>2. Spelled(T, parts, n) /\ Enters(parts, w, n) /\ Renames(T, parts, n)
  BY <1>1 DEF Stands
<1>3. a \in Nat /\ n \in Nat /\ n # 0 /\ w \in 1 .. n /\ w \in Nat /\ n \in 1 .. n
  BY <1>2 DEF Enters, Stands, Spelled
<1>4. /\ \A j \in 1 .. n : W[a + (2 * j - 1)] = parts[j].name
      /\ \A j \in 1 .. n : j # n => W[a + 2 * j] = Word(".")
      /\ Len(Words(item)) = 2 * n - 1
  <2>1. PICK d : d = Dotted(parts)
    OBVIOUS
  <2>2. /\ Len(d) = 2 * n - 1
        /\ \A j \in 1 .. n : d[2 * j - 1] = parts[j].name
        /\ \A j \in 1 .. n : j # n => d[2 * j] = Word(".")
    BY <1>2, <2>1, DottedIs
  <2>3. Words(item) = d
    BY <1>1, <2>1 DEF Words, Uses
  <2>4. \A i \in 1 .. 2 * n - 1 : W[a + i] = d[i]
    BY <2>2, <2>3 DEF Stands
  <2>5. ASSUME NEW j \in 1 .. n PROVE 2 * j - 1 \in 1 .. 2 * n - 1 /\ (j # n => 2 * j \in 1 .. 2 * n - 1)
    BY <1>3
  <2> QED
    BY <2>2, <2>3, <2>4, <2>5
<1> DEFINE Good == {j \in 0 .. n : ReadTo(T, W, a, parts, w, j)}
<1>5. 0 \in Good
  <2>1. PartsEdits(a, parts, 0) = {}
    BY DEF PartsEdits
  <2>2. Reads(T, W, a, a, {}, <<>>)
    BY <1>3, NothingReads
  <2>3. 0 < w /\ a + 2 * 0 = a /\ 0 \in 0 .. n
    BY <1>3
  <2> QED
    BY <2>1, <2>2, <2>3 DEF ReadTo
<1>6. ASSUME NEW j \in 0 .. n, j \in Good, j + 1 <= n PROVE j + 1 \in Good
  <2>1. /\ j \in Nat /\ j + 1 \in 0 .. n /\ j + 1 \in 1 .. n /\ ReadTo(T, W, a, parts, w, j) /\ j < n
        /\ a + (2 * (j + 1) - 1) = a + 2 * j + 1
    BY <1>3, <1>6
  <2>2. W[a + 2 * j + 1] = parts[j + 1].name
    BY <1>4, <2>1
  <2>3. CASE j + 1 < w
    <3>1. parts[j + 1].id \in ImportIds
      BY <1>2, <2>1, <2>3 DEF Enters
    <3>2. ReadTo(T, W, a, parts, w, j + 1)
      BY <1>3, <2>1, <2>3, <3>1, ImportPartReads
    <3> QED
      BY <2>1, <3>2
  <2>4. CASE j + 1 = w
    <3>1. j = w - 1 /\ w - 1 + 1 = w
      BY <1>3, <2>1, <2>4
    <3>2. W[a + 2 * (w - 1) + 1] = parts[w].name /\ ReadTo(T, W, a, parts, w, w - 1)
      BY <2>1, <2>2, <2>4, <3>1
    <3>3. ReadTo(T, W, a, parts, w, w)
      BY <1>2, <1>3, <3>2, FirstPartReads
    <3> QED
      BY <2>1, <2>4, <3>3
  <2>5. CASE w <= j
    <3>1. W[a + 2 * j] = Word(".")
      <4>1. j \in 1 .. n /\ j # n
        BY <1>3, <2>1, <2>5
      <4> QED
        BY <1>4, <4>1
    <3>2. ReadTo(T, W, a, parts, w, j + 1)
      BY <1>2, <1>3, <2>1, <2>2, <2>5, <3>1, NextPartReads
    <3> QED
      BY <2>1, <3>2
  <2>6. j + 1 < w \/ j + 1 = w \/ w <= j
    BY <1>3, <2>1
  <2> QED
    BY <2>3, <2>4, <2>5, <2>6
<1>7. ReadTo(T, W, a, parts, w, n)
  <2> HIDE DEF Good
  <2>1. 0 .. n \subseteq Good
    BY <1>3, <1>5, <1>6, NumbersAreReached
  <2>2. n \in Good
    BY <1>3, <2>1
  <2> QED
    BY <2>2 DEF Good
<1>8. ~(n < w) /\ a + 2 * n - 1 = a + (2 * n - 1)
  BY <1>3
<1>9. Dotted(Kept(parts, w)) = Joined(Steps(Kept(parts, w)), n - w + 1)
  <2>1. PICK m : m = n - w + 1
    OBVIOUS
  <2>2. Spelled(T, Kept(parts, w), m)
    BY <1>2, <2>1, KeptAre
  <2> QED
    BY <2>1, <2>2, StepsArePieces
<1> QED
  BY <1>1, <1>4, <1>7, <1>8, <1>9 DEF ReadTo

(* ProgramsCompile: the imports of an access come first, and it ends in a definition. *)
LEMMA AccessesEnter ==
    ASSUME program \in Programs, NEW i \in ItemsOf(Uses)
    PROVE  Enters(Item(i).parts, Within(Item(i)), Len(Item(i).parts))
<1>1. PICK parts, w, n : parts = Item(i).parts /\ w = Within(Item(i)) /\ n = Len(parts)
  OBVIOUS
<1>2. i \in Items /\ i \in Standing(program, Uses) /\ parts = program[i[1]][i[2]].parts
  BY <1>1, ItemsStand DEF ItemsOf, Item
<1>3. n \in Nat /\ DOMAIN parts = 1 .. n
  BY <1>1, <1>2, PathsEnd
<1>4. w \in DOMAIN parts /\ parts[w].id \notin ImportIds /\ \A k \in 1 .. w - 1 : parts[k].id \in ImportIds
  BY <1>1, AccessesGoWithin
<1>5. ASSUME NEW k \in 1 .. n, parts[k].id \in ImportIds, ~(k < w)
      PROVE  FALSE
  <2>1. w < k /\ k \in DOMAIN parts
    BY <1>3, <1>4, <1>5
  <2>2. PICK d \in ItemsOf({"import"}) : parts[k].id = Id(d)
    BY <1>5 DEF ImportIds
  <2>3. d \in Standing(program, {"import"}) /\ parts[k].id = Declares(program, d)
    BY <2>2, ItemsStand DEF Id, Item, Declares
  <2>4. PICK e \in Standing(program, {"import"}) : parts[w].id = Declares(program, e)
    <3>1. /\ w \in DOMAIN program[i[1]][i[2]].parts /\ k \in DOMAIN program[i[1]][i[2]].parts
          /\ program[i[1]][i[2]].parts[k].id = Declares(program, d)
      BY <1>2, <1>4, <2>1, <2>3
    <3>2. \E e \in Standing(program, {"import"}) : program[i[1]][i[2]].parts[w].id = Declares(program, e)
      BY <1>2, <2>1, <2>3, <3>1, ProgramsCompile
    <3> QED
      BY <1>2, <3>2
  <2>5. e \in Standing(program, Declaring)
    BY <2>4 DEF Standing, Places, Declaring
  <2>6. e \in ItemsOf(Declaring)
    BY <1>1, <1>4, <2>4, <2>5, PathsStayWithin
  <2>7. e \in ItemsOf({"import"})
    BY <2>4, <2>6, ItemsStand
  <2>8. parts[w].id \in ImportIds
    BY <2>4, <2>7 DEF ImportIds, Id, Item, Declares
  <2> QED
    BY <1>4, <2>8
<1>6. ASSUME NEW k \in 1 .. n PROVE parts[k].id \in ImportIds <=> k < w
  <2>1. CASE k < w
    <3>1. k \in 1 .. w - 1
      BY <1>3, <1>4, <2>1
    <3> QED
      BY <1>4, <2>1, <3>1
  <2>2. CASE ~(k < w)
    BY <1>5, <2>2
  <2> QED
    BY <2>1, <2>2
<1> QED
  BY <1>1, <1>3, <1>4, <1>6 DEF Enters

(* The words of the result. *)
Marks == {Word(".")} \cup {Word(f) : f \in Files} \cup {Word(Item(i).is) : i \in Items}
OwnNames == UNION {{Item(i).parts[j].name : j \in DOMAIN Item(i).parts} : i \in Items}
NewNames == {names[id] : id \in TopLevel}
Contracts == {names[Item(i).of] : i \in Inner}
Vocabulary == Marks \cup OwnNames \cup NewNames \cup Contracts

(* What the vocabulary holds. *)
LEMMA WordsOfVocabulary ==
    /\ \A f \in Files : Word(f) \in Vocabulary
    /\ Word(".") \in Vocabulary
    /\ \A id \in TopLevel : names[id] \in Vocabulary
    /\ \A i \in Inner : names[Item(i).of] \in Vocabulary
    /\ \A i \in Items : Word(Item(i).is) \in Vocabulary
    /\ \A i \in Items : \A j \in DOMAIN Item(i).parts : Item(i).parts[j].name \in Vocabulary
<1>1. \A x : x \in Marks \/ x \in OwnNames \/ x \in NewNames \/ x \in Contracts => x \in Vocabulary
  BY DEF Vocabulary
<1>2. \A f \in Files : Word(f) \in Marks
  BY DEF Marks
<1>3. Word(".") \in Marks
  BY DEF Marks
<1>4. \A i \in Items : Word(Item(i).is) \in Marks
  BY DEF Marks
<1>5. \A id \in TopLevel : names[id] \in NewNames
  BY DEF NewNames
<1>6. \A i \in Inner : names[Item(i).of] \in Contracts
  BY DEF Contracts
<1>7. \A i \in Items : \A j \in DOMAIN Item(i).parts : Item(i).parts[j].name \in OwnNames
  BY DEF OwnNames
<1> QED
  BY <1>1, <1>2, <1>3, <1>4, <1>5, <1>6, <1>7

(* Every word of a file, and every word an edit puts there, is of the vocabulary. *)
LEMMA WordsAreKnown ==
    ASSUME program \in Programs, NEW f \in Files, NEW T, T = Vocabulary
    PROVE  /\ SpelledItems(T, program[f], Len(program[f]))
           /\ Word(f) \in T /\ Word(".") \in T
           /\ \A k \in DOMAIN program[f] : <<f, k>> \in Items /\ Item(<<f, k>>) = program[f][k]
           /\ \A id \in TopLevel : names[id] \in T
           /\ \A i \in Inner : names[Item(i).of] \in T /\ OwnName(i) \in T
<1>1. f \in Sources
  BY PathsAreFiles, PlacesOfFiles, DepsAreClosed
<1>2. program[f] \in Seq(ToSet(program[f]))
  BY <1>1, ProgramsAreParsed
<1>3. ASSUME NEW k \in DOMAIN program[f]
      PROVE  <<f, k>> \in Items /\ Item(<<f, k>>) = program[f][k]
  BY <1>3 DEF Items, Item
<1>4. ASSUME NEW i \in Items
      PROVE  Word(Item(i).is) \in T /\ Spelled(T, Item(i).parts, Len(Item(i).parts))
  <2>1. PICK parts, n : parts = Item(i).parts /\ n = Len(parts)
    OBVIOUS
  <2>2. n \in DOMAIN parts /\ n \in Nat /\ DOMAIN parts = 1 .. n
    BY <2>1, PathsEnd
  <2>3. \A j \in DOMAIN parts : parts[j].name \in T
    BY <2>1, WordsOfVocabulary
  <2>4. Word(".") \in T /\ Word(Item(i).is) \in T
    BY WordsOfVocabulary
  <2>5. n # 0
    BY <2>2
  <2>6. Spelled(T, parts, n)
    BY <2>2, <2>3, <2>4, <2>5 DEF Spelled
  <2> QED
    BY <2>1, <2>4, <2>6
<1>5. Len(program[f]) \in Nat /\ DOMAIN program[f] = 1 .. Len(program[f])
  BY <1>2
<1>6. ASSUME NEW k \in 1 .. Len(program[f])
      PROVE  Word(program[f][k].is) \in T /\ Spelled(T, program[f][k].parts, Len(program[f][k].parts))
  <2>1. PICK i, item : i = <<f, k>> /\ item = program[f][k]
    OBVIOUS
  <2>2. i \in Items /\ Item(i) = item
    BY <1>3, <1>5, <2>1
  <2>3. Word(item.is) \in T /\ Spelled(T, item.parts, Len(item.parts))
    BY <1>4, <2>2
  <2> QED
    BY <2>1, <2>3
<1>7. SpelledItems(T, program[f], Len(program[f]))
  BY <1>2, <1>5, <1>6 DEF SpelledItems
<1>8. ASSUME NEW i \in Inner PROVE names[Item(i).of] \in T /\ OwnName(i) \in T
  <2>1. i \in Items
    BY DEF Inner, ItemsOf
  <2>2. 1 \in DOMAIN Item(i).parts
    BY <2>1, PathsEnd
  <2> QED
    BY <2>1, <2>2, WordsOfVocabulary DEF OwnName
<1>9. Word(f) \in T /\ Word(".") \in T /\ \A id \in TopLevel : names[id] \in T
  BY WordsOfVocabulary
<1> QED
  BY <1>3, <1>7, <1>8, <1>9

-----------------------------------------------------------------------------
(* The edits of one item. *)
Start(i) == At(program[i[1]], i[2])

Renaming(i) == {Edit(r.from, r.to, <<names[r.id]>>) : r \in {r \in ReferencesAt(i) : r.id \in TopLevel}}

Qualifying(i) ==
    UNION {{Edit(r.from, r.to, Through(d)) : r \in {r \in ReferencesAt(i) : r.id = Id(d) /\ r.to > r.from + 1}}
           : d \in Inner}

Unqualifying(i) == {Edit(r.from, r.to + 1, <<>>) : r \in {r \in ReferencesAt(i) : r.id \in ImportIds}}

TagEdit(i) ==
    IF Id(i) \in TopLevel THEN Edit(Start(i) + 1, Start(i) + 2, <<names[Id(i)]>>)
    ELSE Edit(Start(i), Start(i) + 2, <<>>)

Directives(f) == Places(program[f], {"import", "version", "feature"}) \cup First(program[f], "license")

EditsAt(i) ==
    (IF Item(i).is \in Collected THEN {Edit(Start(i) + 1, Start(i) + 2, <<names[Id(i)]>>)} ELSE {})
    \cup (IF Item(i).is \in Uses THEN Renaming(i) \cup Qualifying(i) \cup Unqualifying(i) ELSE {})
    \cup (IF Item(i).is = "doc" THEN {TagEdit(i)} ELSE {})
    \cup (IF i[2] \in Directives(i[1]) THEN {Erasure(program[i[1]], i[2])} ELSE {})

EditsOf(f) == RenamedIn(f, names) \cup QualifiedIn(f) \cup UnqualifiedIn(f) \cup TagsIn(f) \cup ErasedIn(f)

(* The references of a file are those of its uses. *)
LEMMA ReferencesOfFile ==
    ASSUME NEW f \in Files
    PROVE  \A r : r \in ReferencesIn(f) <=>
              \E k \in DOMAIN program[f] : program[f][k].is \in Uses /\ r \in ReferencesAt(<<f, k>>)
<1>1. ASSUME NEW i, NEW r \in ReferencesAt(i) PROVE r.file = i[1]
  BY DEF ReferencesAt
<1>2. ASSUME NEW r \in ReferencesIn(f)
      PROVE  \E k \in DOMAIN program[f] : program[f][k].is \in Uses /\ r \in ReferencesAt(<<f, k>>)
  <2>1. PICK i \in ItemsOf(Uses) : r \in ReferencesAt(i) /\ r.file = f
    BY DEF ReferencesIn, References
  <2>2. i[1] = f /\ i \in Items /\ Item(i).is \in Uses
    BY <1>1, <2>1 DEF ItemsOf
  <2>3. i = <<f, i[2]>> /\ i[2] \in DOMAIN program[f]
    BY <2>2 DEF Items
  <2> QED
    BY <2>1, <2>2, <2>3 DEF Item
<1>3. ASSUME NEW k \in DOMAIN program[f], program[f][k].is \in Uses, NEW r \in ReferencesAt(<<f, k>>)
      PROVE  r \in ReferencesIn(f)
  <2>1. PICK i : i = <<f, k>>
    OBVIOUS
  <2>2. i \in ItemsOf(Uses) /\ i[1] = f
    BY <1>3, <2>1 DEF ItemsOf, Items, Item
  <2>3. r \in ReferencesAt(i)
    BY <2>1
  <2> QED
    BY <1>1, <2>2, <2>3 DEF ReferencesIn, References
<1> QED
  BY <1>2, <1>3

(* The items of some kinds in one file. *)
LEMMA ItemsOfFile ==
    ASSUME NEW f \in Files, NEW kinds
    PROVE  \A i : i \in ItemsOf(kinds) /\ i[1] = f <=>
              i = <<f, i[2]>> /\ i[2] \in DOMAIN program[f] /\ program[f][i[2]].is \in kinds
<1>1. ASSUME NEW i, i \in ItemsOf(kinds), i[1] = f
      PROVE  i = <<f, i[2]>> /\ i[2] \in DOMAIN program[f] /\ program[f][i[2]].is \in kinds
  BY <1>1 DEF ItemsOf, Items, Item
<1>2. ASSUME NEW i, i = <<f, i[2]>>, i[2] \in DOMAIN program[f], program[f][i[2]].is \in kinds
      PROVE  i \in ItemsOf(kinds) /\ i[1] = f
  <2>1. i[1] = f
    BY <1>2
  <2>2. i \in Items
    BY <1>2 DEF Items
  <2> QED
    BY <1>2, <2>1, <2>2 DEF ItemsOf, Item
<1> QED
  BY <1>1, <1>2

(* Imports, pragmas and the first license go. *)
LEMMA DirectivesAre ==
    ASSUME program \in Programs, NEW f \in Files
    PROVE  /\ Directives(f) \subseteq DOMAIN program[f]
           /\ \A k \in DOMAIN program[f] :
                 k \in Directives(f) <=>
                    /\ program[f][k].is \in Erased
                    /\ program[f][k].is # "license" \/ k \in First(program[f], "license")
<1>1. PICK items, licenses : items = program[f] /\ licenses = Places(items, {"license"})
  OBVIOUS
<1>2. items \in Seq(ToSet(items))
  BY <1>1, PathsAreFiles, PlacesOfFiles, DepsAreClosed, ProgramsAreParsed
<1>3. licenses \subseteq DOMAIN items /\ licenses \in SUBSET Nat
  BY <1>1, <1>2 DEF Places
<1>4. First(items, "license") \subseteq licenses
  <2>1. CASE licenses = {}
    BY <1>1, <2>1 DEF First
  <2>2. CASE licenses # {}
    <3>1. \E k \in licenses : \A j \in licenses : k <= j
      BY <1>3, <2>2, LeastNumber
    <3>2. (CHOOSE k \in licenses : \A j \in licenses : k <= j) \in licenses
      BY <3>1
    <3> QED
      BY <1>1, <2>2, <3>2 DEF First
  <2> QED
    BY <2>1, <2>2
<1>5. /\ \A k \in licenses : k \in DOMAIN items /\ items[k].is = "license"
      /\ \A k : k \in Places(items, {"import", "version", "feature"}) <=>
               k \in DOMAIN items /\ items[k].is \in Erased /\ items[k].is # "license"
  BY <1>1 DEF Places, Erased
<1>6. \A k : k \in Directives(f) <=>
         \/ k \in Places(items, {"import", "version", "feature"}) \/ k \in First(items, "license")
  BY <1>1 DEF Directives
<1>7. "license" \in Erased
  BY DEF Erased
<1> QED
  BY <1>1, <1>4, <1>5, <1>6, <1>7

(* What the passes do to a source is what they do to its items. *)
LEMMA EditsOfItems ==
    ASSUME program \in Programs, NEW f \in Files
    PROVE  EditsOf(f) = UNION {EditsAt(<<f, k>>) : k \in DOMAIN program[f]}
<1>1. ASSUME NEW e
      PROVE  e \in RenamedIn(f, names) <=>
                \E k \in DOMAIN program[f] :
                   \/ program[f][k].is \in Collected
                      /\ e = Edit(At(program[f], k) + 1, At(program[f], k) + 2, <<names[Id(<<f, k>>)]>>)
                   \/ program[f][k].is \in Uses /\ e \in Renaming(<<f, k>>)
  <2>1. e \in RenamedIn(f, names) <=>
           \/ \E i : /\ i \in ItemsOf(Collected) /\ i[1] = f
                     /\ e = Edit(At(program[f], i[2]) + 1, At(program[f], i[2]) + 2, <<names[Id(i)]>>)
           \/ \E r : r \in ReferencesIn(f) /\ r.id \in TopLevel /\ e = Edit(r.from, r.to, <<names[r.id]>>)
    BY DEF RenamedIn, Definitions
  <2>2. (\E i : /\ i \in ItemsOf(Collected) /\ i[1] = f
                /\ e = Edit(At(program[f], i[2]) + 1, At(program[f], i[2]) + 2, <<names[Id(i)]>>))
        <=> \E k \in DOMAIN program[f] :
              /\ program[f][k].is \in Collected
              /\ e = Edit(At(program[f], k) + 1, At(program[f], k) + 2, <<names[Id(<<f, k>>)]>>)
    <3>1. ASSUME NEW i, i \in ItemsOf(Collected), i[1] = f
          PROVE  i = <<f, i[2]>> /\ i[2] \in DOMAIN program[f] /\ program[f][i[2]].is \in Collected
      BY <3>1, ItemsOfFile
    <3>2. ASSUME NEW k \in DOMAIN program[f], program[f][k].is \in Collected
          PROVE  <<f, k>> \in ItemsOf(Collected) /\ <<f, k>>[1] = f /\ <<f, k>>[2] = k
      BY <3>2, ItemsOfFile
    <3>3. ASSUME NEW i, i \in ItemsOf(Collected), i[1] = f,
                 e = Edit(At(program[f], i[2]) + 1, At(program[f], i[2]) + 2, <<names[Id(i)]>>)
          PROVE  \E k \in DOMAIN program[f] :
                    /\ program[f][k].is \in Collected
                    /\ e = Edit(At(program[f], k) + 1, At(program[f], k) + 2, <<names[Id(<<f, k>>)]>>)
      <4>1. PICK k : k = i[2]
        OBVIOUS
      <4>2. i = <<f, k>> /\ k \in DOMAIN program[f] /\ program[f][k].is \in Collected
        BY <3>1, <3>3, <4>1
      <4>3. e = Edit(At(program[f], k) + 1, At(program[f], k) + 2, <<names[Id(<<f, k>>)]>>)
        BY <3>3, <4>1, <4>2
      <4> QED
        BY <4>2, <4>3
    <3>4. ASSUME NEW k \in DOMAIN program[f], program[f][k].is \in Collected,
                 e = Edit(At(program[f], k) + 1, At(program[f], k) + 2, <<names[Id(<<f, k>>)]>>)
          PROVE  \E i : /\ i \in ItemsOf(Collected) /\ i[1] = f
                        /\ e = Edit(At(program[f], i[2]) + 1, At(program[f], i[2]) + 2, <<names[Id(i)]>>)
      <4>1. PICK i : i = <<f, k>>
        OBVIOUS
      <4>2. i \in ItemsOf(Collected) /\ i[1] = f /\ i[2] = k
        BY <3>2, <3>4, <4>1
      <4>3. e = Edit(At(program[f], i[2]) + 1, At(program[f], i[2]) + 2, <<names[Id(i)]>>)
        BY <3>4, <4>1, <4>2
      <4> QED
        BY <4>2, <4>3
    <3> QED
      BY <3>3, <3>4
  <2>3. (\E r : r \in ReferencesIn(f) /\ r.id \in TopLevel /\ e = Edit(r.from, r.to, <<names[r.id]>>))
        <=> \E k \in DOMAIN program[f] : program[f][k].is \in Uses /\ e \in Renaming(<<f, k>>)
    BY ReferencesOfFile DEF Renaming
  <2> QED
    BY <2>1, <2>2, <2>3
<1>2. ASSUME NEW e
      PROVE  e \in QualifiedIn(f) <=>
                \E k \in DOMAIN program[f] : program[f][k].is \in Uses /\ e \in Qualifying(<<f, k>>)
  <2>1. e \in QualifiedIn(f) <=>
           \E d \in Inner : \E r : /\ r \in ReferencesIn(f) /\ r.id = Id(d) /\ r.to > r.from + 1
                                    /\ e = Edit(r.from, r.to, Through(d))
    BY DEF QualifiedIn
  <2>2. ASSUME NEW i
        PROVE  e \in Qualifying(i) <=>
                  \E d \in Inner : \E r : /\ r \in ReferencesAt(i) /\ r.id = Id(d) /\ r.to > r.from + 1
                                           /\ e = Edit(r.from, r.to, Through(d))
    BY DEF Qualifying
  <2> QED
    BY <2>1, <2>2, ReferencesOfFile
<1>3. ASSUME NEW e
      PROVE  e \in UnqualifiedIn(f) <=>
                \E k \in DOMAIN program[f] : program[f][k].is \in Uses /\ e \in Unqualifying(<<f, k>>)
  BY ReferencesOfFile DEF UnqualifiedIn, Unqualifying
<1>4. ASSUME NEW e
      PROVE  e \in TagsIn(f) <=> \E k \in DOMAIN program[f] : program[f][k].is = "doc" /\ e = TagEdit(<<f, k>>)
  <2>1. e \in TagsIn(f) <=>
           \E i : /\ i \in ItemsOf({"doc"}) /\ i[1] = f
                  /\ e = IF Id(i) \in TopLevel
                         THEN Edit(At(program[f], i[2]) + 1, At(program[f], i[2]) + 2, <<names[Id(i)]>>)
                         ELSE Edit(At(program[f], i[2]), At(program[f], i[2]) + 2, <<>>)
    BY DEF TagsIn
  <2>2. \A i : i[1] = f => Start(i) = At(program[f], i[2])
    BY DEF Start
  <2>3. e \in TagsIn(f) <=> \E i : i \in ItemsOf({"doc"}) /\ i[1] = f /\ e = TagEdit(i)
    BY <2>1, <2>2 DEF TagEdit
  <2>4. ASSUME NEW i, i \in ItemsOf({"doc"}), i[1] = f
        PROVE  i = <<f, i[2]>> /\ i[2] \in DOMAIN program[f] /\ program[f][i[2]].is = "doc"
    BY <2>4, ItemsOfFile
  <2>5. ASSUME NEW k \in DOMAIN program[f], program[f][k].is = "doc"
        PROVE  <<f, k>> \in ItemsOf({"doc"}) /\ <<f, k>>[1] = f
    BY <2>5, ItemsOfFile
  <2> QED
    BY <2>3, <2>4, <2>5
<1>5. ASSUME NEW e
      PROVE  e \in ErasedIn(f) <=> \E k \in DOMAIN program[f] : k \in Directives(f) /\ e = Erasure(program[f], k)
  <2>1. Directives(f) \subseteq DOMAIN program[f]
    BY DirectivesAre
  <2> QED
    BY <2>1 DEF ErasedIn, Directives
<1>6. ASSUME NEW e, NEW k
      PROVE  e \in EditsAt(<<f, k>>) <=>
                \/ program[f][k].is \in Collected
                   /\ e = Edit(At(program[f], k) + 1, At(program[f], k) + 2, <<names[Id(<<f, k>>)]>>)
                \/ program[f][k].is \in Uses /\ e \in Renaming(<<f, k>>)
                \/ program[f][k].is \in Uses /\ e \in Qualifying(<<f, k>>)
                \/ program[f][k].is \in Uses /\ e \in Unqualifying(<<f, k>>)
                \/ program[f][k].is = "doc" /\ e = TagEdit(<<f, k>>)
                \/ k \in Directives(f) /\ e = Erasure(program[f], k)
  <2>1. PICK i : i = <<f, k>>
    OBVIOUS
  <2>2. Item(i) = program[f][k] /\ Start(i) = At(program[f], k) /\ i[1] = f /\ i[2] = k
    BY <2>1 DEF Item, Start
  <2> QED
    BY <2>1, <2>2 DEF EditsAt
<1>7. \A e : e \in EditsOf(f) <=> \E k \in DOMAIN program[f] : e \in EditsAt(<<f, k>>)
  BY <1>1, <1>2, <1>3, <1>4, <1>5, <1>6 DEF EditsOf
<1> QED
  BY <1>7

(* What an item reads after the passes is what it is to be rewritten to. *)
ItemRead(f, k) ==
    Reads(Vocabulary, Text(program[f]), Start(<<f, k>>), Start(<<f, k>>) + Len(Words(Item(<<f, k>>))),
          EditsAt(<<f, k>>), Image(f, k))

(* Every item stands in the text of its file where it starts. *)
LEMMA ItemsStandInText ==
    ASSUME program \in Programs, NEW f \in Files, NEW k \in DOMAIN program[f]
    PROVE  /\ Stands(Vocabulary, Text(program[f]), Start(<<f, k>>), Item(<<f, k>>))
           /\ Item(<<f, k>>) = program[f][k] /\ <<f, k>> \in Items
<1>1. PICK T, items, N, i, item, W : /\ T = Vocabulary /\ items = program[f] /\ N = Len(items) /\ i = <<f, k>>
                                     /\ item = items[k] /\ W = Text(items)
  OBVIOUS
<1>2. SpelledItems(T, items, N) /\ i \in Items /\ Item(i) = item
  BY <1>1, WordsAreKnown
<1>3. k \in 1 .. N
  BY <1>1, <1>2 DEF SpelledItems
<1>4. Word(item.is) \in T /\ Spelled(T, item.parts, Len(item.parts))
  BY <1>1, <1>2, <1>3 DEF SpelledItems
<1>5. At(items, k) \in Nat /\ \A j \in 1 .. Len(Words(item)) : W[At(items, k) + j] = Words(item)[j]
  <2>1. \A m \in 1 .. N :
           /\ At(items, m) = Len(Joined(WordsIn(items), m - 1)) /\ At(items, m) \in Nat
           /\ Len(Joined(WordsIn(items), m)) = At(items, m) + Len(Words(items[m]))
           /\ \A j \in 1 .. Len(Words(items[m])) : Text(items)[At(items, m) + j] = Words(items[m])[j]
    BY <1>2, WordsArePlaced
  <2> QED
    BY <1>1, <1>3, <2>1
<1>6. Start(i) = At(items, k)
  BY <1>1 DEF Start
<1>7. Stands(T, W, Start(i), item)
  BY <1>4, <1>5, <1>6 DEF Stands
<1> QED
  BY <1>1, <1>2, <1>7

(* A definition reads its kind and its final name. *)
LEMMA DefinitionRead ==
    ASSUME program \in Programs, NEW f \in Files, NEW k \in DOMAIN program[f], program[f][k].is \in Collected
    PROVE  ItemRead(f, k)
<1>1. PICK T, W, i, a, item : /\ T = Vocabulary /\ W = Text(program[f])
                              /\ i = <<f, k>> /\ a = Start(i) /\ item = Item(i)
  OBVIOUS
<1>2. Stands(T, W, a, item) /\ item = program[f][k] /\ i \in Items
  BY <1>1, ItemsStandInText
<1>3. /\ item.is \in Collected /\ item.is \notin Uses /\ item.is # "doc" /\ item.is \notin Erased
      /\ item.is \in FileLevel /\ item.is # "use" /\ item.is # "access"
  BY <1>2 DEF Collected, Uses, Erased, FileLevel
<1>4. PICK name : name = names[Id(i)]
  OBVIOUS
<1>5. Id(i) \in TopLevel
  BY <1>1, <1>2, <1>3 DEF TopLevel, Definitions, ItemsOf
<1>6. name \in T
  BY <1>1, <1>4, <1>5, WordsOfVocabulary
<1>7. EditsAt(i) = {Edit(a + 1, a + 2, <<name>>)}
  <2>1. i[1] = f /\ i[2] = k /\ k \notin Directives(f)
    BY <1>1, <1>2, <1>3, DirectivesAre
  <2> QED
    BY <1>1, <1>3, <1>4, <2>1 DEF EditsAt
<1>8. Image(f, k) = <<Word(item.is), name>>
  <2>1. IdName(item.parts[1]) = name
    BY <1>1, <1>4, <1>5 DEF IdName, Id
  <2> QED
    BY <1>2, <1>3, <2>1 DEF Image
<1>9. Reads(T, W, a, a + Len(Words(item)), {Edit(a + 1, a + 2, <<name>>)}, <<Word(item.is), name>>)
  BY <1>2, <1>3, <1>6, SecondReads
<1> QED
  BY <1>1, <1>7, <1>8, <1>9 DEF ItemRead

(* A tag of the documentation. *)
LEMMA TagRead ==
    ASSUME program \in Programs, NEW f \in Files, NEW k \in DOMAIN program[f], program[f][k].is = "doc"
    PROVE  ItemRead(f, k)
<1>1. PICK T, W, i, a, item : /\ T = Vocabulary /\ W = Text(program[f])
                              /\ i = <<f, k>> /\ a = Start(i) /\ item = Item(i)
  OBVIOUS
<1>2. Stands(T, W, a, item) /\ item = program[f][k] /\ i \in Items
  BY <1>1, ItemsStandInText
<1>3. /\ item.is = "doc" /\ item.is \notin Collected /\ item.is \notin Uses /\ item.is \notin Erased
      /\ item.is \notin FileLevel
  BY <1>2 DEF Collected, Uses, Erased, FileLevel
<1>4. EditsAt(i) = {TagEdit(i)}
  <2>1. i[1] = f /\ i[2] = k /\ k \notin Directives(f)
    BY <1>1, <1>2, <1>3, DirectivesAre
  <2> QED
    BY <1>1, <1>3, <2>1 DEF EditsAt
<1>5. CASE Id(i) \in TopLevel
  <2>1. PICK name : name = names[Id(i)]
    OBVIOUS
  <2>2. name \in T
    BY <1>1, <1>5, <2>1, WordsOfVocabulary
  <2>3. EditsAt(i) = {Edit(a + 1, a + 2, <<name>>)}
    BY <1>1, <1>4, <1>5, <2>1 DEF TagEdit
  <2>4. Image(f, k) = <<Word(item.is), name>>
    BY <1>1, <1>2, <1>3, <1>5, <2>1 DEF Image
  <2>5. Reads(T, W, a, a + Len(Words(item)), {Edit(a + 1, a + 2, <<name>>)}, <<Word(item.is), name>>)
    BY <1>2, <1>3, <2>2, SecondReads
  <2> QED
    BY <1>1, <2>3, <2>4, <2>5 DEF ItemRead
<1>6. CASE Id(i) \notin TopLevel
  <2>1. EditsAt(i) = {Edit(a, a + 2, <<>>)}
    BY <1>1, <1>4, <1>6 DEF TagEdit
  <2>2. Image(f, k) = <<>>
    BY <1>1, <1>2, <1>3, <1>6 DEF Image
  <2>3. Reads(T, W, a, a + Len(Words(item)), {Edit(a, a + 2, <<>>)}, <<>>)
    BY <1>2, <1>3, GoneReads
  <2> QED
    BY <1>1, <2>1, <2>2, <2>3 DEF ItemRead
<1> QED
  BY <1>5, <1>6

(* A directive reads as nothing, but a license after the first one stays. *)
LEMMA DirectiveRead ==
    ASSUME program \in Programs, NEW f \in Files, NEW k \in DOMAIN program[f], program[f][k].is \in Erased
    PROVE  ItemRead(f, k)
<1>1. PICK T, W, i, a, item : /\ T = Vocabulary /\ W = Text(program[f])
                              /\ i = <<f, k>> /\ a = Start(i) /\ item = Item(i)
  OBVIOUS
<1>2. Stands(T, W, a, item) /\ item = program[f][k] /\ i \in Items
  BY <1>1, ItemsStandInText
<1>3. /\ item.is \in Erased /\ item.is # "doc" /\ item.is \notin Collected /\ item.is \notin Uses
      /\ item.is \notin FileLevel /\ item.is # "use" /\ item.is # "access" /\ i[1] = f /\ i[2] = k
  BY <1>1, <1>2 DEF Collected, FileLevel, Uses, Erased
<1>4. k \in Directives(f) <=> item.is # "license" \/ k \in First(program[f], "license")
  BY <1>2, <1>3, DirectivesAre
<1>5. CASE k \in Directives(f)
  <2>1. EditsAt(i) = {Edit(a, a + 2, <<>>)}
    <3>1. Erasure(program[f], k) = Edit(a, a + 2, <<>>)
      BY <1>1, <1>3 DEF Erasure, Start
    <3> QED
      BY <1>1, <1>3, <1>5, <3>1 DEF EditsAt
  <2>2. Image(f, k) = <<>>
    BY <1>2, <1>3, <1>4, <1>5 DEF Image
  <2>3. Reads(T, W, a, a + Len(Words(item)), {Edit(a, a + 2, <<>>)}, <<>>)
    BY <1>2, <1>3, GoneReads
  <2> QED
    BY <1>1, <2>1, <2>2, <2>3 DEF ItemRead
<1>6. CASE k \notin Directives(f)
  <2>1. EditsAt(i) = {}
    BY <1>1, <1>3, <1>6 DEF EditsAt
  <2>2. Image(f, k) = Words(item)
    BY <1>2, <1>3, <1>4, <1>6 DEF Image
  <2>3. Reads(T, W, a, a + Len(Words(item)), {}, Words(item))
    BY <1>2, UnchangedReads
  <2> QED
    BY <1>1, <2>1, <2>2, <2>3 DEF ItemRead
<1> QED
  BY <1>5, <1>6

(* Errors, structs and whatever else there is. *)
LEMMA OtherRead ==
    ASSUME program \in Programs, NEW f \in Files, NEW k \in DOMAIN program[f],
           program[f][k].is \notin Collected, program[f][k].is \notin Erased, program[f][k].is \notin Uses,
           program[f][k].is # "doc"
    PROVE  ItemRead(f, k)
<1>1. PICK T, W, i, a, item : /\ T = Vocabulary /\ W = Text(program[f])
                              /\ i = <<f, k>> /\ a = Start(i) /\ item = Item(i)
  OBVIOUS
<1>2. Stands(T, W, a, item) /\ item = program[f][k] /\ i \in Items
  BY <1>1, ItemsStandInText
<1>3. /\ item.is \notin Erased /\ item.is # "doc" /\ item.is \notin Collected /\ item.is \notin Uses
      /\ item.is # "use" /\ item.is # "access" /\ i[1] = f /\ i[2] = k
  BY <1>1, <1>2 DEF Uses
<1>4. EditsAt(i) = {}
  <2>1. k \notin Directives(f)
    BY <1>2, <1>3, DirectivesAre
  <2> QED
    BY <1>1, <1>3, <2>1 DEF EditsAt
<1>5. Image(f, k) = Words(item)
  <2>1. CASE item.is \in FileLevel
    <3>1. item.is = "error" /\ i \in ItemsOf(FileLevel)
      BY <1>1, <1>2, <1>3, <2>1 DEF FileLevel, ItemsOf
    <3>2. ASSUME NEW d \in Definitions PROVE Id(d) # Id(i)
      <4>1. d \in ItemsOf(FileLevel) /\ Item(d).is \in Collected
        BY KindsDeclare DEF Definitions, ItemsOf
      <4>2. d # i
        BY <1>1, <1>3, <4>1
      <4> QED
        BY <3>1, <4>1, <4>2, KindsDeclare, IdsDiffer
    <3>3. Id(i) \notin TopLevel
      BY <3>2 DEF TopLevel
    <3>4. IdName(item.parts[1]) = item.parts[1].name
      BY <1>1, <3>3 DEF IdName, Id
    <3>5. Words(item) = <<Word(item.is), item.parts[1].name>>
      BY <1>3 DEF Words
    <3> QED
      BY <1>2, <1>3, <2>1, <3>4, <3>5 DEF Image
  <2>2. CASE item.is \notin FileLevel
    BY <1>2, <1>3, <2>2 DEF Image
  <2> QED
    BY <2>1, <2>2
<1>6. Reads(T, W, a, a + Len(Words(item)), {}, Words(item))
  BY <1>2, UnchangedReads
<1> QED
  BY <1>1, <1>4, <1>5, <1>6 DEF ItemRead

(* A struct of a contract is declared, and not at the level of a file. *)
LEMMA InnerAreDeclared ==
    ASSUME program \in Programs, NEW d \in Inner
    PROVE  /\ Declared(Id(d)) = d /\ Id(d) \notin TopLevel
           /\ \A e \in Inner : Id(e) = Id(d) => e = d
<1>1. ASSUME NEW e \in Inner, Id(e) = Id(d) PROVE e = d
  BY <1>1, KindsDeclare, IdsDiffer DEF Inner
<1>2. Declared(Id(d)) = d
  BY <1>1 DEF Declared
<1>3. Id(d) \notin TopLevel
  BY StructsAreWithin, KindsDeclare DEF TopLevel, Definitions
<1> QED
  BY <1>1, <1>2, <1>3

(* A path does not end in an import. *)
LEMMA PathsEndOutside ==
    ASSUME program \in Programs, NEW i \in ItemsOf(Uses)
    PROVE  Item(i).parts[Len(Item(i).parts)].id \notin ImportIds
<1>1. i \in Items /\ i \in Standing(program, Uses)
  BY ItemsStand DEF ItemsOf
<1>2. Refers(program, i) = Item(i).parts[Len(Item(i).parts)].id
  BY <1>1, PathsEnd
<1>3. ASSUME NEW d \in ItemsOf({"import"})
      PROVE  Refers(program, i) # Id(d)
  <2>1. d \in Standing(program, Declaring) /\ Item(d).is = "import"
    BY KindsDeclare, ItemsStand DEF ItemsOf
  <2> QED
    BY <1>1, <2>1, ProgramsCompile DEF Item, Id, Declares
<1> QED
  BY <1>2, <1>3 DEF ImportIds

(* A reference longer than a name, to a struct of a contract, takes the contract's name. *)
LEMMA OneQualified ==
    ASSUME program \in Programs, NEW i, NEW r, ReferencesAt(i) = {r}, NEW d \in Inner, r.id = Id(d), r.to > r.from + 1
    PROVE  Qualifying(i) = {Edit(r.from, r.to, Through(d))}
<1>1. \A e \in Inner : Id(e) = Id(d) => e = d
  BY InnerAreDeclared
<1>2. \A x : x \in Qualifying(i) <=>
         \E e \in Inner : \E q : q \in ReferencesAt(i) /\ q.id = Id(e) /\ q.to > q.from + 1 /\ x = Edit(q.from, q.to, Through(e))
  BY DEF Qualifying
<1>3. \A x : x \in Qualifying(i) <=> x = Edit(r.from, r.to, Through(d))
  BY <1>1, <1>2
<1> QED
  BY <1>3

(* Without such a reference nothing is qualified. *)
LEMMA NoneQualified ==
    ASSUME NEW i, \A r \in ReferencesAt(i) : \A d \in Inner : r.id = Id(d) => ~(r.to > r.from + 1)
    PROVE  Qualifying(i) = {}
  BY DEF Qualifying

(* A name used alone reads the final name of what it refers to. *)
LEMMA UseRead ==
    ASSUME program \in Programs, NEW f \in Files, NEW k \in DOMAIN program[f], program[f][k].is = "use"
    PROVE  ItemRead(f, k)
<1>1. PICK T, W, i, a, item : /\ T = Vocabulary /\ W = Text(program[f])
                              /\ i = <<f, k>> /\ a = Start(i) /\ item = Item(i)
  OBVIOUS
<1>2. Stands(T, W, a, item) /\ item = program[f][k] /\ i \in Items
  BY <1>1, ItemsStandInText
<1>3. /\ item.is = "use" /\ item.is \notin Erased /\ item.is # "doc" /\ item.is \notin Collected
      /\ item.is \notin FileLevel /\ item.is \in Uses /\ i[1] = f /\ i[2] = k /\ i \in ItemsOf(Uses)
  BY <1>1, <1>2 DEF Uses, Collected, FileLevel, Erased, ItemsOf
<1>4. PICK n, id : n = Len(item.parts) /\ id = item.parts[n].id
  OBVIOUS
<1>5. PICK b, r : b = a + 2 * n - 1 /\ r = [id |-> id, file |-> f, from |-> a, to |-> b]
  OBVIOUS
<1>6. r.id = id /\ r.from = a /\ r.to = b
  BY <1>5
<1>7. ReferencesAt(i) = {r}
  BY <1>1, <1>2, <1>3, <1>4, <1>5 DEF ReferencesAt, Start
<1>8. EditsAt(i) = Renaming(i) \cup Qualifying(i) \cup Unqualifying(i)
  <2>1. k \notin Directives(f)
    BY <1>2, <1>3, DirectivesAre
  <2> QED
    BY <1>1, <1>3, <2>1 DEF EditsAt
<1>9. Unqualifying(i) = {}
  <2>1. id \notin ImportIds
    BY <1>1, <1>3, <1>4, PathsEndOutside
  <2> QED
    BY <1>6, <1>7, <2>1 DEF Unqualifying
<1>10. a \in Nat /\ n \in Nat /\ n # 0 /\ (b > a + 1 <=> n > 1)
  <2>1. a \in Nat /\ n \in Nat /\ n # 0
    BY <1>2, <1>4 DEF Stands, Spelled
  <2> QED
    BY <1>5, <2>1
<1>11. Image(f, k) = IF id \in {Id(d) : d \in Inner} /\ n > 1 THEN Through(Declared(id))
                     ELSE IF id \in TopLevel THEN <<names[id]>> ELSE Words(item)
  BY <1>2, <1>3, <1>4 DEF Image
<1>12. CASE id \in TopLevel
  <2>1. PICK text : text = <<names[id]>>
    OBVIOUS
  <2>2. text \in Seq(T)
    BY <1>1, <1>12, <2>1, WordsOfVocabulary
  <2>3. \A d \in Inner : Id(d) # id
    BY <1>12, InnerAreDeclared
  <2>4. EditsAt(i) = {Edit(a, b, text)}
    <3>1. Renaming(i) = {Edit(a, b, text)}
      BY <1>6, <1>7, <1>12, <2>1 DEF Renaming
    <3>2. Qualifying(i) = {}
      BY <1>6, <1>7, <2>3, NoneQualified
    <3> QED
      BY <1>8, <1>9, <3>1, <3>2
  <2>5. Image(f, k) = text
    BY <1>11, <1>12, <2>1, <2>3
  <2>6. Reads(T, W, a, a + Len(Words(item)), {Edit(a, a + 2 * Len(item.parts) - 1, text)}, text)
    BY <1>2, <1>3, <2>2, PathReads
  <2> QED
    BY <1>1, <1>4, <1>5, <2>4, <2>5, <2>6 DEF ItemRead
<1>13. CASE id \notin TopLevel
  <2>1. Renaming(i) = {}
    BY <1>6, <1>7, <1>13 DEF Renaming
  <2>2. CASE n > 1 /\ id \in {Id(d) : d \in Inner}
    <3>1. PICK d \in Inner : Id(d) = id
      BY <2>2
    <3>2. PICK text : text = Through(d)
      OBVIOUS
    <3>3. text \in Seq(T)
      <4>1. names[Item(d).of] \in T /\ OwnName(d) \in T /\ Word(".") \in T
        BY <1>1, WordsAreKnown
      <4>2. PICK x, y, z : x = names[Item(d).of] /\ y = Word(".") /\ z = OwnName(d)
        OBVIOUS
      <4>3. <<x, y, z>> \in Seq(T)
        BY <4>1, <4>2
      <4>4. text = <<x, y, z>>
        BY <3>2, <4>2 DEF Through, OwnName
      <4> QED
        BY <4>3, <4>4
    <3>4. EditsAt(i) = {Edit(a, b, text)}
      <4>1. r.id = Id(d) /\ r.to > r.from + 1
        BY <1>6, <1>10, <2>2, <3>1
      <4>2. Qualifying(i) = {Edit(r.from, r.to, Through(d))}
        BY <1>7, <4>1, OneQualified
      <4> QED
        BY <1>6, <1>8, <1>9, <2>1, <3>2, <4>2
    <3>5. Image(f, k) = text
      BY <1>11, <2>2, <3>1, <3>2, InnerAreDeclared
    <3>6. Reads(T, W, a, a + Len(Words(item)), {Edit(a, a + 2 * Len(item.parts) - 1, text)}, text)
      BY <1>2, <1>3, <3>3, PathReads
    <3> QED
      BY <1>1, <1>4, <1>5, <3>4, <3>5, <3>6 DEF ItemRead
  <2>3. CASE ~(n > 1 /\ id \in {Id(d) : d \in Inner})
    <3>1. \A d \in Inner : id = Id(d) => ~(b > a + 1)
      BY <1>10, <2>3
    <3>2. Qualifying(i) = {}
      BY <1>6, <1>7, <3>1, NoneQualified
    <3>3. EditsAt(i) = {}
      BY <1>8, <1>9, <2>1, <3>2
    <3>4. Image(f, k) = Words(item)
      BY <1>11, <1>13, <2>3
    <3>5. Reads(T, W, a, a + Len(Words(item)), {}, Words(item))
      BY <1>2, UnchangedReads
    <3> QED
      BY <1>1, <3>3, <3>4, <3>5 DEF ItemRead
  <2> QED
    BY <2>2, <2>3
<1> QED
  BY <1>12, <1>13

(* An access reads the parts it keeps, under their final names. *)
LEMMA AccessRead ==
    ASSUME program \in Programs, NEW f \in Files, NEW k \in DOMAIN program[f], program[f][k].is = "access"
    PROVE  ItemRead(f, k)
<1>1. PICK T, W, i, a, item : /\ T = Vocabulary /\ W = Text(program[f])
                              /\ i = <<f, k>> /\ a = Start(i) /\ item = Item(i)
  OBVIOUS
<1>2. Stands(T, W, a, item) /\ item = program[f][k] /\ i \in Items
  BY <1>1, ItemsStandInText
<1>3. /\ item.is = "access" /\ item.is \notin Erased /\ item.is # "doc" /\ item.is \notin Collected /\ item.is # "use"
      /\ item.is \notin FileLevel /\ item.is \in Uses /\ i[1] = f /\ i[2] = k /\ i \in ItemsOf(Uses)
  BY <1>1, <1>2 DEF Uses, Collected, FileLevel, Erased, ItemsOf
<1>4. PICK parts, n, w : parts = item.parts /\ n = Len(parts) /\ w = Within(item)
  OBVIOUS
<1>5. Enters(parts, w, n)
  BY <1>1, <1>3, <1>4, AccessesEnter
<1>6. Renames(T, parts, n)
  BY <1>1, WordsOfVocabulary DEF Renames
<1>7. EditsAt(i) = Renaming(i) \cup Qualifying(i) \cup Unqualifying(i)
  <2>1. k \notin Directives(f)
    BY <1>2, <1>3, DirectivesAre
  <2> QED
    BY <1>1, <1>3, <2>1 DEF EditsAt
<1>8. ReferencesAt(i) =
         {[id |-> parts[j].id, file |-> f, from |-> a + 2 * j - 2, to |-> a + 2 * j - 1] : j \in 1 .. n}
  BY <1>1, <1>2, <1>3, <1>4 DEF ReferencesAt, Start
<1>9. a \in Nat /\ n \in Nat
  BY <1>2, <1>4 DEF Stands, Spelled
<1>10. Qualifying(i) = {}
  <2>1. ASSUME NEW r \in ReferencesAt(i) PROVE ~(r.to > r.from + 1)
    <3>1. PICK j \in 1 .. n : r.from = a + 2 * j - 2 /\ r.to = a + 2 * j - 1
      BY <1>8
    <3> QED
      BY <1>9, <3>1
  <2> QED
    BY <2>1, NoneQualified
<1> DEFINE Ref(j) == [id |-> parts[j].id, file |-> f, from |-> a + 2 * j - 2, to |-> a + 2 * j - 1]
<1>11. /\ \A r : r \in ReferencesAt(i) <=> \E j \in 1 .. n : r = Ref(j)
       /\ \A j : Ref(j).id = parts[j].id /\ Ref(j).from = a + 2 * j - 2 /\ Ref(j).to = a + 2 * j - 1
  BY <1>8
<1> HIDE DEF Ref
<1>12. \A e : e \in Renaming(i) <=>
          \E j \in 1 .. n : parts[j].id \in TopLevel /\ e = Edit(a + 2 * j - 2, a + 2 * j - 1, <<names[parts[j].id]>>)
  <2>1. \A e : e \in Renaming(i) <=>
           \E r : r \in ReferencesAt(i) /\ r.id \in TopLevel /\ e = Edit(r.from, r.to, <<names[r.id]>>)
    BY DEF Renaming
  <2>2. ASSUME NEW e, NEW r, r \in ReferencesAt(i), r.id \in TopLevel, e = Edit(r.from, r.to, <<names[r.id]>>)
        PROVE  \E j \in 1 .. n : parts[j].id \in TopLevel /\ e = Edit(a + 2 * j - 2, a + 2 * j - 1, <<names[parts[j].id]>>)
    <3>1. PICK j \in 1 .. n : r = Ref(j)
      BY <1>11, <2>2
    <3> QED
      BY <1>11, <2>2, <3>1
  <2>3. ASSUME NEW e, NEW j \in 1 .. n, parts[j].id \in TopLevel, e = Edit(a + 2 * j - 2, a + 2 * j - 1, <<names[parts[j].id]>>)
        PROVE  \E r : r \in ReferencesAt(i) /\ r.id \in TopLevel /\ e = Edit(r.from, r.to, <<names[r.id]>>)
    <3>1. Ref(j) \in ReferencesAt(i) /\ Ref(j).id = parts[j].id
      BY <1>11
    <3>2. PICK r : r = Ref(j)
      OBVIOUS
    <3>3. r.from = a + 2 * j - 2 /\ r.to = a + 2 * j - 1 /\ r.id = parts[j].id
      BY <1>11, <3>2
    <3> QED
      BY <2>3, <3>1, <3>2, <3>3
  <2> QED
    BY <2>1, <2>2, <2>3
<1>13. \A e : e \in Unqualifying(i) <=>
          \E j \in 1 .. n : parts[j].id \in ImportIds /\ e = Edit(a + 2 * j - 2, a + 2 * j, <<>>)
  <2>1. \A e : e \in Unqualifying(i) <=>
          \E j \in 1 .. n : parts[j].id \in ImportIds /\ e = Edit(a + 2 * j - 2, (a + 2 * j - 1) + 1, <<>>)
    <3>1. \A e : e \in Unqualifying(i) <=>
             \E r : r \in ReferencesAt(i) /\ r.id \in ImportIds /\ e = Edit(r.from, r.to + 1, <<>>)
      BY DEF Unqualifying
    <3>2. ASSUME NEW e, NEW r, r \in ReferencesAt(i), r.id \in ImportIds, e = Edit(r.from, r.to + 1, <<>>)
          PROVE  \E j \in 1 .. n : parts[j].id \in ImportIds /\ e = Edit(a + 2 * j - 2, (a + 2 * j - 1) + 1, <<>>)
      <4>1. PICK j \in 1 .. n : r = Ref(j)
        BY <1>11, <3>2
      <4> QED
        BY <1>11, <3>2, <4>1
    <3>3. ASSUME NEW e, NEW j \in 1 .. n, parts[j].id \in ImportIds, e = Edit(a + 2 * j - 2, (a + 2 * j - 1) + 1, <<>>)
          PROVE  \E r : r \in ReferencesAt(i) /\ r.id \in ImportIds /\ e = Edit(r.from, r.to + 1, <<>>)
      <4>1. Ref(j) \in ReferencesAt(i) /\ Ref(j).id = parts[j].id
        BY <1>11
      <4>2. PICK r : r = Ref(j)
        OBVIOUS
      <4>3. r.from = a + 2 * j - 2 /\ r.to = a + 2 * j - 1 /\ r.id = parts[j].id
        BY <1>11, <4>2
      <4> QED
        BY <3>3, <4>1, <4>2, <4>3
    <3> QED
      BY <3>1, <3>2, <3>3
  <2>2. \A j \in 1 .. n : (a + 2 * j - 1) + 1 = a + 2 * j
    BY <1>9
  <2> QED
    BY <2>1, <2>2
<1>14. EditsAt(i) = PartsEdits(a, parts, n)
  <2>1. \A id \in ImportIds : id \notin TopLevel
    BY ImportsDefineNothing
  <2>2. \A e : e \in PartsEdits(a, parts, n) <=>
          \E j \in 1 .. n :
             \/ parts[j].id \in ImportIds /\ e = Edit(a + 2 * j - 2, a + 2 * j, <<>>)
             \/ /\ parts[j].id \notin ImportIds /\ parts[j].id \in TopLevel
                /\ e = Edit(a + 2 * j - 2, a + 2 * j - 1, <<names[parts[j].id]>>)
    BY DEF PartsEdits, PartEdits
  <2>3. \A e : e \in EditsAt(i) <=> e \in PartsEdits(a, parts, n)
    BY <1>7, <1>10, <1>12, <1>13, <2>1, <2>2
  <2> QED
    BY <2>3
<1>15. Image(f, k) = Dotted(Kept(parts, w))
  BY <1>2, <1>3, <1>4 DEF Image, Kept
<1>16. Reads(T, W, a, a + Len(Words(item)), PartsEdits(a, item.parts, Len(item.parts)), Dotted(Kept(item.parts, w)))
  <2>1. Enters(item.parts, w, Len(item.parts)) /\ Renames(T, item.parts, Len(item.parts))
    BY <1>4, <1>5, <1>6
  <2> QED
    BY <1>2, <1>3, <2>1, AccessReads
<1> QED
  BY <1>1, <1>4, <1>14, <1>15, <1>16 DEF ItemRead

(* Every item reads what it should be in the result. *)
LEMMA EveryItemRead ==
    ASSUME program \in Programs, NEW f \in Files, NEW k \in DOMAIN program[f]
    PROVE  ItemRead(f, k)
<1>1. \A kind \in Uses : kind = "use" \/ kind = "access"
  BY DEF Uses
<1> QED
  BY <1>1, DefinitionRead, TagRead, DirectiveRead, OtherRead, UseRead, AccessRead

(* The updates of a file, applied, give its tag and then the image of each of its items. *)
LEMMA FileRead ==
    ASSUME program \in Programs, NEW f \in Files
    PROVE  Edited(Text(program[f]), FilenameOf(f) \cup EditsOf(f)) =
              <<Word(f)>> \o FlattenSeq([k \in DOMAIN program[f] |-> Image(f, k)])
<1>1. PICK T, items, N : T = Vocabulary /\ items = program[f] /\ N = Len(items)
  OBVIOUS
<1>2. PICK own, images : own = [k \in DOMAIN items |-> EditsAt(<<f, k>>)] /\ images = [k \in DOMAIN items |-> Image(f, k)]
  OBVIOUS
<1>3. PICK W : W = Text(items)
  OBVIOUS
<1>4. SpelledItems(T, items, N) /\ Word(f) \in T
  BY <1>1, WordsAreKnown
<1>5. /\ N \in Nat /\ DOMAIN items = 1 .. N
      /\ DOMAIN images = 1 .. N /\ \A k \in 1 .. N : images[k] = Image(f, k) /\ own[k] = EditsAt(<<f, k>>)
  BY <1>2, <1>4 DEF SpelledItems
<1>6. ASSUME NEW k \in 1 .. N
      PROVE  /\ Reads(T, W, At(items, k), At(items, k) + Len(Words(items[k])), own[k], images[k])
             /\ images[k] \in Seq(T)
  <2>1. PICK i, a, item : i = <<f, k>> /\ a = Start(i) /\ item = Item(i)
    OBVIOUS
  <2>2. Stands(T, W, a, item) /\ item = items[k] /\ a = At(items, k)
    BY <1>1, <1>3, <1>5, <2>1, ItemsStandInText DEF Start
  <2>3. Reads(T, W, a, a + Len(Words(item)), own[k], images[k])
    BY <1>1, <1>3, <1>5, <2>1, EveryItemRead DEF ItemRead
  <2>4. a \in Nat /\ Len(Words(item)) \in Nat
    <3>1. Word(item.is) \in T /\ Spelled(T, item.parts, Len(item.parts)) /\ a \in Nat
      BY <2>2 DEF Stands
    <3> QED
      BY <3>1, WordsAre
  <2>5. PICK L, E, s : L = Len(Words(item)) /\ E = own[k] /\ s = images[k]
    OBVIOUS
  <2>6. a \in Nat /\ L \in Nat /\ Reads(T, W, a, a + L, E, s)
    BY <2>3, <2>4, <2>5
  <2>7. s \in Seq(T)
    BY <2>6, ReadingsAreText
  <2> QED
    BY <2>2, <2>3, <2>5, <2>7
<1>7. Pieces(T, images, N)
  BY <1>5, <1>6 DEF Pieces
<1>8. Reads(T, W, 0, Len(W), UNION {own[k] : k \in 1 .. N}, Joined(images, N))
  <2>1. \A k \in 1 .. N : Reads(T, Text(items), At(items, k), At(items, k) + Len(Words(items[k])), own[k], images[k])
    BY <1>3, <1>6
  <2>2. Reads(T, Text(items), 0, Len(Text(items)), UNION {own[k] : k \in 1 .. N}, Joined(images, N))
    BY <1>4, <1>7, <2>1, ItemsRead
  <2> QED
    BY <1>3, <2>2
<1>9. EditsOf(f) = UNION {own[k] : k \in 1 .. N}
  <2>1. \A e : e \in EditsOf(f) <=> \E k \in DOMAIN program[f] : e \in EditsAt(<<f, k>>)
    BY EditsOfItems
  <2>2. \A e : e \in EditsOf(f) <=> \E k \in 1 .. N : e \in own[k]
    <3>1. DOMAIN program[f] = 1 .. N /\ \A k \in 1 .. N : own[k] = EditsAt(<<f, k>>)
      BY <1>1, <1>5
    <3> QED
      BY <2>1, <3>1
  <2> QED
    BY <2>2
<1>10. PICK ins, E, s : ins = <<Word(f)>> /\ E = EditsOf(f) /\ s = Joined(images, N)
  OBVIOUS
<1>11. ins \in Seq(T) /\ W \in Seq(T) /\ Reads(T, W, 0, Len(W), E, s)
  <2>1. W \in Seq(T)
    BY <1>3, <1>4, WordsArePlaced
  <2>2. ins \in Seq(T)
    BY <1>4, <1>10
  <2>3. Reads(T, W, 0, Len(W), E, s)
    BY <1>8, <1>9, <1>10
  <2> QED
    BY <2>1, <2>2, <2>3
<1>12. PICK all : all = {Edit(0, 0, ins)} \cup E
  OBVIOUS
<1>13. Edited(W, all) = ins \o s
  BY <1>11, <1>12, EditsRead
<1>14. s = FlattenSeq([k \in DOMAIN program[f] |-> Image(f, k)])
  <2>1. images = [k \in 1 .. N |-> images[k]]
    BY <1>2, <1>5
  <2>2. Joined(images, N) = FlattenSeq(images)
    BY <2>1 DEF Joined
  <2> QED
    BY <1>1, <1>2, <1>10, <2>2
<1>15. FilenameOf(f) \cup EditsOf(f) = all
  BY <1>10, <1>12 DEF FilenameOf
<1> QED
  BY <1>1, <1>3, <1>10, <1>13, <1>14, <1>15

-----------------------------------------------------------------------------
(* The passes *)

(* As long as the program and the names stay, so do the edits. *)
LEMMA SourcesStay ==
    ASSUME program' = program
    PROVE  /\ Files' = Files /\ ImportIds' = ImportIds /\ Inner' = Inner /\ TopLevel' = TopLevel
           /\ Definitions' = Definitions
           /\ \A kinds : ItemsOf(kinds)' = ItemsOf(kinds)
           /\ \A i : Id(i)' = Id(i) /\ Item(i)' = Item(i)
           /\ \A f : ReferencesIn(f)' = ReferencesIn(f)
<1>1. Written' = Written
  BY DEF Written
<1>2. Files' = Files
  BY <1>1 DEF Files
<1>3. Items' = Items
  BY <1>2 DEF Items
<1>4. /\ Definitions' = Definitions /\ TopLevel' = TopLevel
      /\ \A i : Id(i)' = Id(i) /\ Item(i)' = Item(i)
  BY ReadingsStay
<1>5. \A kinds : ItemsOf(kinds)' = ItemsOf(kinds)
  BY <1>3, <1>4 DEF ItemsOf
<1>6. ItemsOf(Uses)' = ItemsOf(Uses) /\ ItemsOf({"struct"})' = ItemsOf({"struct"})
      /\ ItemsOf({"import"})' = ItemsOf({"import"})
  BY <1>5
<1>7. Inner' = Inner
  BY <1>6 DEF Inner
<1>8. ImportIds' = ImportIds
  BY <1>4, <1>6 DEF ImportIds
<1>9. \A i : ReferencesAt(i)' = ReferencesAt(i)
  BY <1>4 DEF ReferencesAt
<1>10. References' = References
  BY <1>6, <1>9 DEF References
<1>11. \A f : ReferencesIn(f)' = ReferencesIn(f)
  BY <1>10 DEF ReferencesIn
<1> QED
  BY <1>2, <1>4, <1>5, <1>7, <1>8, <1>11

(* The updates of a pass depend on the program and the names alone. *)
LEMMA EditsStay ==
    ASSUME program' = program, NEW f
    PROVE  /\ RenamedIn(f, names)' = RenamedIn(f, names')
           /\ UnqualifiedIn(f)' = UnqualifiedIn(f) /\ ErasedIn(f)' = ErasedIn(f)
           /\ names' = names => QualifiedIn(f)' = QualifiedIn(f) /\ TagsIn(f)' = TagsIn(f)
<1>1. RenamedIn(f, names)' = RenamedIn(f, names')
  <2>1. PICK final : final = names'
    OBVIOUS
  <2>2. PICK own, referring : /\ own = {d \in Definitions : d[1] = f}
                              /\ referring = {r \in ReferencesIn(f) : r.id \in TopLevel}
    OBVIOUS
  <2>3. /\ own = {d \in Definitions' : d[1] = f}
        /\ referring = {r \in ReferencesIn(f)' : r.id \in TopLevel'}
    BY <2>2, SourcesStay
  <2>4. PICK items : items = program[f] /\ items = program'[f]
    OBVIOUS
  <2>5. RenamedIn(f, names') =
           {Edit(At(items, i[2]) + 1, At(items, i[2]) + 2, <<final[Id(i)]>>) : i \in own}
           \cup {Edit(r.from, r.to, <<final[r.id]>>) : r \in referring}
    BY <2>1, <2>2, <2>4 DEF RenamedIn
  <2>6. RenamedIn(f, names)' =
           {Edit(At(items, i[2]) + 1, At(items, i[2]) + 2, <<final[Id(i)']>>) : i \in own}
           \cup {Edit(r.from, r.to, <<final[r.id]>>) : r \in referring}
    BY <2>1, <2>3, <2>4 DEF RenamedIn
  <2> QED
    BY <2>5, <2>6, SourcesStay
<1>2. UnqualifiedIn(f)' = UnqualifiedIn(f)
  BY SourcesStay DEF UnqualifiedIn
<1>3. ErasedIn(f)' = ErasedIn(f)
  BY SourcesStay DEF ErasedIn
<1>4. ASSUME names' = names
      PROVE  QualifiedIn(f)' = QualifiedIn(f)
  <2>1. \A i : Through(i)' = Through(i)
    BY <1>4, SourcesStay DEF Through
  <2> QED
    BY <2>1, SourcesStay DEF QualifiedIn
<1>5. ASSUME names' = names
      PROVE  TagsIn(f)' = TagsIn(f)
  BY <1>5, SourcesStay DEF TagsIn
<1> QED
  BY <1>1, <1>2, <1>3, <1>4, <1>5

(* The edits of a source when a pass comes next, and the result of all.      *)
Made(f, next) ==
    (IF next \notin {"filenames"} THEN FilenameOf(f) ELSE {})
    \cup (IF next \notin {"filenames", "names"} THEN RenamedIn(f, names) ELSE {})
    \cup (IF next \notin {"filenames", "names", "inner"} THEN QualifiedIn(f) ELSE {})
    \cup (IF next \in {"docs", "erase", "apply", "done"} THEN UnqualifiedIn(f) ELSE {})
    \cup (IF next \in {"erase", "apply", "done"} THEN TagsIn(f) ELSE {})
    \cup (IF next \in {"apply", "done"} THEN ErasedIn(f) ELSE {})

EditsInv ==
    /\ program \in Programs
    /\ pass \in {"filenames", "names", "inner", "qualifiers", "docs", "erase", "apply", "done"}
    /\ edits = [f \in Files |-> Made(f, pass)]
    /\ pass = "done" => result = [f \in Files |-> Edited(Text(program[f]), edits[f])]

(* So do the updates that are made when a pass comes next. *)
LEMMA MadeStays ==
    ASSUME program' = program, names' = names
    PROVE  \A f, next : Made(f, next)' = Made(f, next)
<1> SUFFICES ASSUME NEW f, NEW next PROVE Made(f, next)' = Made(f, next)
  OBVIOUS
<1>1. /\ RenamedIn(f, names)' = RenamedIn(f, names) /\ QualifiedIn(f)' = QualifiedIn(f)
      /\ UnqualifiedIn(f)' = UnqualifiedIn(f) /\ TagsIn(f)' = TagsIn(f) /\ ErasedIn(f)' = ErasedIn(f)
  <2>1. RenamedIn(f, names') = RenamedIn(f, names)
    OBVIOUS
  <2> QED
    BY <2>1, EditsStay
<1> QED
  BY <1>1 DEF Made, FilenameOf

(* A pass that adds to every source. *)
LEMMA PassAdds ==
    ASSUME NEW from, NEW to, NEW more, EditsInv, pass = from, pass' = to, program' = program,
           edits' = Adding([f \in Files |-> more[f]]),
           \A f \in Files : Made(f, to)' = Made(f, from) \cup more[f],
           to \in {"names", "inner", "qualifiers", "docs", "erase", "apply"}
    PROVE  EditsInv'
<1>1. Files' = Files
  BY SourcesStay
<1>2. edits' = [f \in Files |-> Made(f, to)']
  <2>1. edits' = [f \in Files |-> edits[f] \cup more[f]]
    BY DEF Adding
  <2>2. \A f \in Files : edits[f] \cup more[f] = Made(f, to)'
    BY DEF EditsInv
  <2> QED
    BY <2>1, <2>2
<1>3. edits' = [f \in Files' |-> Made(f, pass)']
  BY <1>1, <1>2
<1> QED
  BY <1>3 DEF EditsInv

(* The updates are those of the passes that have run, and the result is the edited text. *)
LEMMA EditsInvHolds == FlattenSpec => []EditsInv
<1>1. FlattenInit => EditsInv
  <2> SUFFICES ASSUME FlattenInit PROVE EditsInv
    OBVIOUS
  <2>1. \A f : Made(f, pass) = {}
    BY DEF FlattenInit, Made
  <2> QED
    BY <2>1 DEF FlattenInit, EditsInv
<1>2. EditsInv /\ [Flatten]_astVars => EditsInv'
  <2> SUFFICES ASSUME EditsInv, [Flatten]_astVars
               PROVE  EditsInv'
    OBVIOUS
  <2>1. CASE AppendFilenames
    <3>1. /\ pass = "filenames" /\ pass' = "names" /\ program' = program /\ names' = names
          /\ edits' = Adding([f \in Files |-> FilenameOf(f)])
      BY <2>1 DEF AppendFilenames, Step
    <3> DEFINE more == [f \in Files |-> FilenameOf(f)]
    <3>2. \A f \in Files : Made(f, "names")' = Made(f, "filenames") \cup more[f]
      BY DEF Made, FilenameOf
    <3>3. edits' = Adding([f \in Files |-> more[f]])
      BY <3>1
    <3> HIDE DEF more
    <3> QED
      BY <3>1, <3>2, <3>3, PassAdds
  <2>2. CASE RenameTopLevelDefinitions
    <3>1. /\ pass = "names" /\ pass' = "inner" /\ program' = program
          /\ edits' = Adding([f \in Files |-> RenamedIn(f, names')])
      BY <2>2 DEF RenameTopLevelDefinitions, Step
    <3> DEFINE more == [f \in Files |-> RenamedIn(f, names')]
    <3>2. \A f \in Files : Made(f, "inner")' = Made(f, "names") \cup more[f]
      BY <3>1, EditsStay DEF Made, FilenameOf
    <3>3. edits' = Adding([f \in Files |-> more[f]])
      BY <3>1
    <3> HIDE DEF more
    <3> QED
      BY <3>1, <3>2, <3>3, PassAdds
  <2>3. CASE RenameContractLevelTypes
    <3>1. /\ pass = "inner" /\ pass' = "qualifiers" /\ program' = program /\ names' = names
          /\ edits' = Adding([f \in Files |-> QualifiedIn(f)])
      BY <2>3 DEF RenameContractLevelTypes, Step
    <3> DEFINE more == [f \in Files |-> QualifiedIn(f)]
    <3>2. \A f \in Files : Made(f, "qualifiers") = Made(f, "inner") \cup more[f]
      BY DEF Made
    <3>3. edits' = Adding([f \in Files |-> more[f]])
      BY <3>1
    <3> HIDE DEF more
    <3>4. \A f \in Files : Made(f, "qualifiers")' = Made(f, "inner") \cup more[f]
      BY <3>1, <3>2, MadeStays
    <3> QED
      BY <3>1, <3>3, <3>4, PassAdds
  <2>4. CASE RemoveQualifiedImports
    <3>1. /\ pass = "qualifiers" /\ pass' = "docs" /\ program' = program /\ names' = names
          /\ edits' = Adding([f \in Files |-> UnqualifiedIn(f)])
      BY <2>4 DEF RemoveQualifiedImports, Step
    <3> DEFINE more == [f \in Files |-> UnqualifiedIn(f)]
    <3>2. \A f \in Files : Made(f, "docs") = Made(f, "qualifiers") \cup more[f]
      BY DEF Made
    <3>3. edits' = Adding([f \in Files |-> more[f]])
      BY <3>1
    <3> HIDE DEF more
    <3>4. \A f \in Files : Made(f, "docs")' = Made(f, "qualifiers") \cup more[f]
      BY <3>1, <3>2, MadeStays
    <3> QED
      BY <3>1, <3>3, <3>4, PassAdds
  <2>5. CASE UpdateInheritdocs
    <3>1. /\ pass = "docs" /\ pass' = "erase" /\ program' = program /\ names' = names
          /\ edits' = Adding([f \in Files |-> TagsIn(f)])
      BY <2>5 DEF UpdateInheritdocs, Step
    <3> DEFINE more == [f \in Files |-> TagsIn(f)]
    <3>2. \A f \in Files : Made(f, "erase") = Made(f, "docs") \cup more[f]
      BY DEF Made
    <3>3. edits' = Adding([f \in Files |-> more[f]])
      BY <3>1
    <3> HIDE DEF more
    <3>4. \A f \in Files : Made(f, "erase")' = Made(f, "docs") \cup more[f]
      BY <3>1, <3>2, MadeStays
    <3> QED
      BY <3>1, <3>3, <3>4, PassAdds
  <2>6. CASE RemoveDirectives
    <3>1. /\ pass = "erase" /\ pass' = "apply" /\ program' = program /\ names' = names
          /\ edits' = Adding([f \in Files |-> ErasedIn(f)])
      BY <2>6 DEF RemoveDirectives, Step
    <3> DEFINE more == [f \in Files |-> ErasedIn(f)]
    <3>2. \A f \in Files : Made(f, "apply") = Made(f, "erase") \cup more[f]
      BY DEF Made
    <3>3. edits' = Adding([f \in Files |-> more[f]])
      BY <3>1
    <3> HIDE DEF more
    <3>4. \A f \in Files : Made(f, "apply")' = Made(f, "erase") \cup more[f]
      BY <3>1, <3>2, MadeStays
    <3> QED
      BY <3>1, <3>3, <3>4, PassAdds
  <2>7. CASE ApplyUpdates
    <3>1. /\ pass = "apply" /\ pass' = "done" /\ program' = program /\ names' = names /\ edits' = edits
          /\ result' = [f \in Files |-> Edited(Text(program[f]), edits[f])]
      BY <2>7 DEF ApplyUpdates, Step
    <3>2. Files' = Files
      BY <3>1, SourcesStay
    <3>3. \A f : Made(f, "done")' = Made(f, "apply")
      <4>1. \A f : Made(f, "done") = Made(f, "apply")
        BY DEF Made
      <4> QED
        BY <3>1, <4>1, MadeStays
    <3>4. edits' = [f \in Files' |-> Made(f, pass)']
      BY <3>1, <3>2, <3>3 DEF EditsInv
    <3>5. result' = [f \in Files' |-> Edited(Text(program'[f]), edits'[f])]
      BY <3>1, <3>2
    <3> QED
      BY <3>1, <3>4, <3>5 DEF EditsInv
  <2>8. CASE UNCHANGED astVars
    <3>1. program' = program /\ pass' = pass /\ names' = names /\ edits' = edits /\ result' = result
      BY <2>8 DEF astVars
    <3>2. Files' = Files
      BY <3>1, SourcesStay
    <3>3. \A f : Made(f, pass)' = Made(f, pass)
      BY <3>1, MadeStays
    <3> QED
      BY <3>1, <3>2, <3>3 DEF EditsInv
  <2> QED
    BY <2>1, <2>2, <2>3, <2>4, <2>5, <2>6, <2>7, <2>8 DEF Flatten
<1> QED
  BY <1>1, <1>2, PTL DEF FlattenSpec

(* Whatever the passes edit, and in whatever order, every source reads in    *)
(* the result as if each of its items were rewritten on its own: no edit     *)
(* overlaps another, and each is where the others leave it (the passes of    *)
(* flatten.rs, apply_updates and replace_source_content).                    *)
THEOREM ItemsAreRewritten == FlattenSpec => []RewritesItems
<1>1. EditsInv => RewritesItems
  <2> SUFFICES ASSUME EditsInv, pass = "done", NEW f \in Files
               PROVE  result[f] = <<Word(f)>> \o FlattenSeq([k \in DOMAIN program[f] |-> Image(f, k)])
    BY DEF RewritesItems, Flattened
  <2>1. program \in Programs
    BY DEF EditsInv
  <2>2. edits[f] = FilenameOf(f) \cup EditsOf(f)
    BY DEF EditsInv, Made, EditsOf
  <2>3. result[f] = Edited(Text(program[f]), edits[f])
    BY DEF EditsInv
  <2> QED
    BY <2>1, <2>2, <2>3, FileRead
<1> QED
  BY <1>1, EditsInvHolds, PTL
=============================================================================
