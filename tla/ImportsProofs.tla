--------------------------- MODULE ImportsProofs ---------------------------
(***************************************************************************)
(* Proofs about how imports are followed: ImportGraph, for any files,      *)
(* inputs and imports, and the search for remappings, for any tree of      *)
(* files and links.                                                        *)
(*                                                                         *)
(* IndicesArePlaces, FinishedGraphsAreComplete: the graph that is built.   *)
(* WalksAreComplete: what a walk over it returns; that it ends is for TLC. *)
(* SearchesAreBounded: no directory is searched within itself for ever.    *)
(***************************************************************************)
EXTENDS ImportGraph, ImportPaths, FiniteSetTheorems, SequenceTheorems, TLAPS

-----------------------------------------------------------------------------
(* The invariant *)

TypeOK ==
    /\ inputs \in InputLists
    /\ imports \in [Files -> Seq(Files \cup Absent)]
    /\ readable \subseteq Files
    /\ phase \in {"next", "imports", "linked", "walking", "failed"}
    /\ queue \in Seq(Files)
    /\ nodes \in Seq(Files)
    /\ DOMAIN index \subseteq Files
    /\ index \in [DOMAIN index -> Nat \ {0}]
    /\ edges \in Seq(Seq(Nat \ {0}))
    /\ links \in Seq(Nat \ {0})
    /\ pos \in Nat \ {0}
    /\ cur \in Files
    /\ unresolved \subseteq Absent \X Files

(* The input files come first.                                                *)
InputsFirst ==
    /\ Len(inputs) <= Len(Lineup)
    /\ \A i \in DOMAIN inputs : Lineup[i] = inputs[i]

(* l holds, in order, the index in ix of every one of the first n imports s     *)
(* that resolves, and nothing else.                                           *)
LinksTo(ix, l, s, n) ==
    /\ Len(l) = Rank(s, n)
    /\ \A k \in 1..n : s[k] \in Files =>
          /\ s[k] \in DOMAIN ix
          /\ Rank(s, k) \in DOMAIN l
          /\ l[Rank(s, k)] = ix[s[k]]
    /\ \A m \in DOMAIN l : \E k \in 1..n : s[k] \in Files /\ l[m] = ix[s[k]]

EdgesAreImports ==
    /\ Len(edges) = Len(nodes)
    /\ \A i \in DOMAIN nodes : LinksTo(index, edges[i], imports[nodes[i]], Len(imports[nodes[i]]))
    /\ phase \in {"imports", "failed"} =>
          /\ pos <= Len(imports[cur]) + 1
          /\ LinksTo(index, links, imports[cur], pos - 1)

(* Whatever has a place is an input or imported from one, by way of others.     *)
PlacedAreReachable == Elems(Lineup) \subseteq Reachable(Elems(inputs))

UnresolvedAreAbsent ==
    unresolved = {u \in Absent \X Files :
                    \/ u[2] \in Elems(nodes) /\ u[1] \in Elems(imports[u[2]])
                    \/ /\ phase \in {"imports", "failed"} /\ u[2] = cur
                       /\ \E k \in 1..(pos - 1) : imports[cur][k] = u[1]}

(* A linked graph is finished, and its reverse edges are the edges reversed.    *)
LinkedIsFinished ==
    phase \in {"linked", "walking"} =>
        /\ queue = <<>>
        /\ revEdges = [i \in DOMAIN nodes |-> {j \in DOMAIN nodes : i \in Elems(edges[j])}]

(* The inductive invariant. *)
Inv ==
    /\ TypeOK
    /\ IndexIsPlace
    /\ InputsFirst
    /\ EdgesAreImports
    /\ PlacedAreReachable
    /\ UnresolvedAreAbsent
    /\ LinkedIsFinished

-----------------------------------------------------------------------------
(* Sequences *)

LEMMA ElemsOf ==
    ASSUME NEW S, NEW s \in Seq(S)
    PROVE  /\ Len(s) \in Nat /\ DOMAIN s = 1..Len(s)
           /\ Elems(s) \subseteq S
           /\ s = <<>> <=> Len(s) = 0
           /\ \A i \in 1..Len(s) : s[i] \in S
  BY EmptySeq, LenProperties, ElementOfSeq DEF Elems

LEMMA ElemsOfAppend ==
    ASSUME NEW S, NEW s \in Seq(S), NEW e \in S
    PROVE  Elems(Append(s, e)) = Elems(s) \cup {e}
<1>1. /\ Len(s) \in Nat /\ DOMAIN s = 1..Len(s) /\ DOMAIN Append(s, e) = 1..(Len(s) + 1)
      /\ \A i \in 1..Len(s) : Append(s, e)[i] = s[i]
      /\ Append(s, e)[Len(s) + 1] = e
  BY AppendProperties, LenProperties
<1> QED
  BY <1>1 DEF Elems

LEMMA ElemsOfConcat ==
    ASSUME NEW S, NEW s \in Seq(S), NEW t \in Seq(S)
    PROVE  s \o t \in Seq(S) /\ Elems(s \o t) = Elems(s) \cup Elems(t)
<1> DEFINE c == s \o t
           m == Len(s)
           n == Len(t)
<1>1. /\ m \in Nat /\ DOMAIN s = 1..m /\ n \in Nat /\ DOMAIN t = 1..n
      /\ c \in Seq(S) /\ DOMAIN c = 1..(m + n)
      /\ \A i \in 1..(m + n) : c[i] = IF i <= m THEN s[i] ELSE t[i - m]
  BY ConcatProperties, LenProperties
<1> HIDE DEF c, m, n
<1>2. \A i \in DOMAIN s : i \in DOMAIN c /\ c[i] = s[i]
  BY <1>1
<1>3. \A i \in DOMAIN t : m + i \in DOMAIN c /\ c[m + i] = t[i]
  BY <1>1
<1>4. ASSUME NEW i \in DOMAIN c
      PROVE  c[i] \in Elems(s) \cup Elems(t)
  <2>1. CASE i <= m
    BY <1>1, <2>1 DEF Elems
  <2>2. CASE i > m
    <3>1. i - m \in DOMAIN t /\ c[i] = t[i - m]
      BY <1>1, <2>2
    <3> QED
      BY <3>1 DEF Elems
  <2> QED
    BY <1>1, <2>1, <2>2
<1>5. Elems(c) = Elems(s) \cup Elems(t)
  BY <1>2, <1>3, <1>4 DEF Elems
<1> QED
  BY <1>1, <1>5 DEF c

(* The head of the queue becomes the file at hand, the file at hand a node, and *)
(* nobody's place changes.                                                     *)
LEMMA HeadMoves ==
    ASSUME NEW S, NEW a \in Seq(S), NEW q \in Seq(S), q # <<>>
    PROVE  (a \o <<>>) \o q = (a \o <<Head(q)>>) \o Tail(q)
<1>1. a \o <<>> = a
  BY ConcatEmptySeq
<1>2. /\ Head(q) \in S /\ Tail(q) \in Seq(S) /\ <<Head(q)>> \in Seq(S)
      /\ Len(q) \in Nat /\ Len(q) >= 1
      /\ Len(Tail(q)) = Len(q) - 1
      /\ \A i \in 1..(Len(q) - 1) : Tail(q)[i] = q[i + 1]
      /\ Head(q) = q[1]
  BY HeadTailProperties, ElemsOf
<1> DEFINE h == <<Head(q)>>
<1>3. h \o Tail(q) \in Seq(S) /\ Len(h \o Tail(q)) = Len(q)
  BY <1>2, ConcatProperties
<1>4. \A i \in 1..Len(q) : (h \o Tail(q))[i] = q[i]
  BY <1>2, ConcatProperties
<1>5. q = h \o Tail(q)
  <2> HIDE DEF h
  <2> QED
    BY <1>3, <1>4, SeqEqual
<1>6. a \o (h \o Tail(q)) = (a \o h) \o Tail(q)
  BY <1>2, ConcatAssociative
<1> QED
  BY <1>1, <1>5, <1>6

LEMMA CurMoves ==
    ASSUME NEW S, NEW a \in Seq(S), NEW q \in Seq(S), NEW e \in S
    PROVE  (a \o <<e>>) \o q = (Append(a, e) \o <<>>) \o q
  BY AppendIsConcat, ConcatEmptySeq, AppendProperties

LEMMA NewIsLast ==
    ASSUME NEW S, NEW a \in Seq(S), NEW q \in Seq(S), NEW e \in S
    PROVE  a \o Append(q, e) = Append(a \o q, e)
<1>1. <<e>> \in Seq(S) /\ a \o q \in Seq(S)
  BY ConcatProperties
<1> QED
  BY <1>1, AppendIsConcat, ConcatAssociative

-----------------------------------------------------------------------------
(* LinksTo *)

LEMMA RankSteps ==
    ASSUME NEW s, NEW n \in Nat
    PROVE  /\ Rank(s, n) \in Nat
           /\ Rank(s, 0) = 0
           /\ s[n + 1] \in Files => Rank(s, n + 1) = Rank(s, n) + 1
           /\ s[n + 1] \notin Files => Rank(s, n + 1) = Rank(s, n)
<1> DEFINE R(k) == {j \in 1..k : s[j] \in Files}
<1>1. IsFiniteSet(R(n))
  <2>1. IsFiniteSet(1..n) /\ R(n) \subseteq 1..n
    BY FS_Interval
  <2> QED
    BY <2>1, FS_Subset
<1>2. R(0) = {}
  OBVIOUS
<1>3. s[n + 1] \in Files => R(n + 1) = R(n) \cup {n + 1} /\ n + 1 \notin R(n)
  OBVIOUS
<1>4. s[n + 1] \notin Files => R(n + 1) = R(n)
  OBVIOUS
<1>5. \A k : Rank(s, k) = Cardinality(R(k))
  BY DEF Rank
<1> HIDE DEF R
<1>6. Cardinality(R(n)) \in Nat /\ Cardinality(R(0)) = 0
  BY <1>1, <1>2, FS_CardinalityType, FS_EmptySet
<1>7. s[n + 1] \in Files => Cardinality(R(n + 1)) = Cardinality(R(n)) + 1
  BY <1>1, <1>3, FS_AddElement
<1> QED
  BY <1>4, <1>5, <1>6, <1>7

LEMMA LinksEmpty ==
    ASSUME NEW ix, NEW s
    PROVE  LinksTo(ix, <<>>, s, 0)
  BY RankSteps DEF LinksTo

LEMMA LinksSkip ==
    ASSUME NEW ix, NEW l, NEW s, NEW n \in Nat, LinksTo(ix, l, s, n), s[n + 1] \notin Files
    PROVE  LinksTo(ix, l, s, n + 1)
<1>1. \A k \in 1..(n + 1) : k # n + 1 => k \in 1..n
  OBVIOUS
<1> QED
  BY <1>1, RankSteps DEF LinksTo

LEMMA LinksGrow ==
    ASSUME NEW ix, NEW l \in Seq(Nat \ {0}), NEW s, NEW n \in Nat, LinksTo(ix, l, s, n),
           s[n + 1] \in Files, s[n + 1] \in DOMAIN ix, ix[s[n + 1]] \in Nat \ {0}
    PROVE  LinksTo(ix, Append(l, ix[s[n + 1]]), s, n + 1)
<1> DEFINE x == ix[s[n + 1]]
           m == Append(l, x)
<1>1. /\ Len(l) \in Nat /\ DOMAIN l = 1..Len(l) /\ DOMAIN m = 1..(Len(l) + 1)
      /\ Len(m) = Len(l) + 1
      /\ \A i \in 1..Len(l) : m[i] = l[i]
      /\ m[Len(l) + 1] = x
  BY AppendProperties, LenProperties
<1>2. Rank(s, n + 1) = Rank(s, n) + 1 /\ Len(l) = Rank(s, n)
  BY RankSteps DEF LinksTo
<1>3. \A k \in 1..(n + 1) : k # n + 1 => k \in 1..n
  OBVIOUS
<1> HIDE DEF m
<1>4. Len(m) = Rank(s, n + 1)
  BY <1>1, <1>2
<1>5. ASSUME NEW k \in 1..(n + 1), s[k] \in Files
      PROVE  s[k] \in DOMAIN ix /\ Rank(s, k) \in DOMAIN m /\ m[Rank(s, k)] = ix[s[k]]
  <2>1. CASE k = n + 1
    BY <1>1, <1>2, <1>5, <2>1
  <2>2. CASE k # n + 1
    <3>1. s[k] \in DOMAIN ix /\ Rank(s, k) \in DOMAIN l /\ l[Rank(s, k)] = ix[s[k]]
      BY <1>3, <1>5, <2>2 DEF LinksTo
    <3> QED
      BY <1>1, <3>1
  <2> QED
    BY <2>1, <2>2
<1>6. ASSUME NEW i \in DOMAIN m
      PROVE  \E k \in 1..(n + 1) : s[k] \in Files /\ m[i] = ix[s[k]]
  <2>1. CASE i \in 1..Len(l)
    <3>1. PICK k \in 1..n : s[k] \in Files /\ l[i] = ix[s[k]]
      BY <1>1, <2>1 DEF LinksTo
    <3> QED
      BY <1>1, <2>1, <3>1
  <2>2. CASE i = Len(l) + 1
    BY <1>1, <2>2
  <2> QED
    BY <1>1, <2>1, <2>2
<1> QED
  BY <1>4, <1>5, <1>6 DEF LinksTo, m

LEMMA LinksElems ==
    ASSUME NEW ix, NEW l, NEW s, NEW n, LinksTo(ix, l, s, n)
    PROVE  /\ Len(l) = Rank(s, n)
           /\ \A k \in 1..n : s[k] \in Files =>
                 /\ s[k] \in DOMAIN ix
                 /\ l[Rank(s, k)] = ix[s[k]]
                 /\ ix[s[k]] \in Elems(l)
           /\ \A m \in Elems(l) : \E k \in 1..n : s[k] \in Files /\ m = ix[s[k]]
  BY DEF LinksTo, Elems

LEMMA LinksKept ==
    ASSUME NEW ix, NEW iy, NEW l, NEW s, NEW n, LinksTo(ix, l, s, n),
           DOMAIN ix \subseteq DOMAIN iy, \A f \in DOMAIN ix : iy[f] = ix[f]
    PROVE  LinksTo(iy, l, s, n)
  BY DEF LinksTo

-----------------------------------------------------------------------------
(* The initial states *)

LEMMA ElemsFinite ==
    ASSUME NEW S, NEW s \in Seq(S)
    PROVE  /\ IsFiniteSet(Elems(s))
           /\ (\A i, j \in DOMAIN s : s[i] = s[j] => i = j) => Cardinality(Elems(s)) = Len(s)
<1> DEFINE f == [i \in 1..Len(s) |-> s[i]]
<1>1. Len(s) \in Nat /\ DOMAIN s = 1..Len(s)
  BY LenProperties
<1>2. f \in Surjection(1..Len(s), Elems(s))
  BY <1>1 DEF Surjection, Elems
<1>3. IsFiniteSet(1..Len(s)) /\ Cardinality(1..Len(s)) = Len(s)
  BY <1>1, FS_Interval
<1>4. (\A i, j \in DOMAIN s : s[i] = s[j] => i = j) => f \in Injection(1..Len(s), Elems(s))
  BY <1>1 DEF Injection, IsInjective, Elems
<1> HIDE DEF f
<1> QED
  BY <1>2, <1>3, <1>4, FS_Surjection

LEMMA InputsAreReachable ==
    ASSUME NEW F \in SUBSET Files
    PROVE  F \subseteq Reachable(F)
  BY DEF Reachable

LEMMA InitHolds == Init => Inv
<1> SUFFICES ASSUME Init PROVE Inv
  OBVIOUS
<1>1. /\ inputs \in Seq(Files)
      /\ \A i, j \in DOMAIN inputs : inputs[i] = inputs[j] => i = j
      /\ Len(inputs) \in Nat /\ DOMAIN inputs = 1..Len(inputs)
      /\ Elems(inputs) \subseteq Files
  BY InputsAreFiles, ElemsOf DEF Init
<1>2. /\ \A i \in DOMAIN inputs : inputs[i] \in DOMAIN index /\ index[inputs[i]] = i
      /\ \A f \in DOMAIN index : index[f] \in DOMAIN inputs
      /\ DOMAIN index = Elems(inputs)
      /\ index = [f \in DOMAIN index |-> index[f]]
  BY <1>1 DEF Init, Elems
<1>3. TypeOK
  <2>1. imports \in [Files -> Seq(Files \cup Absent)]
    BY ImportsAreTargets DEF Init
  <2>2. <<>> \in Seq(Files) /\ <<>> \in Seq(Nat \ {0}) /\ <<>> \in Seq(Seq(Nat \ {0}))
    BY EmptySeq
  <2>3. DOMAIN index \subseteq Files /\ index \in [DOMAIN index -> Nat \ {0}]
    BY <1>1, <1>2
  <2>4. /\ readable \subseteq Files /\ cur \in Files /\ queue \in Seq(Files)
        /\ inputs \in InputLists /\ nodes = <<>> /\ edges = <<>> /\ links = <<>>
        /\ pos = 1 /\ unresolved = {} /\ phase = "next"
    BY <1>1 DEF Init
  <2> QED
    BY <2>1, <2>2, <2>3, <2>4 DEF TypeOK
<1>4. Lineup = inputs
  <2>1. Lineup = (<<>> \o <<>>) \o inputs
    BY DEF Lineup, Init
  <2> QED
    BY <1>1, <2>1, ConcatEmptySeq, EmptySeq
<1>5. IndexIsPlace
  BY <1>1, <1>2, <1>4, ElemsFinite DEF IndexIsPlace
<1>6. InputsFirst
  BY <1>1, <1>4 DEF InputsFirst
<1>7. EdgesAreImports
  BY DEF EdgesAreImports, Init
<1>8. PlacedAreReachable
  BY <1>1, <1>4, InputsAreReachable DEF PlacedAreReachable
<1>9. UnresolvedAreAbsent
  BY DEF UnresolvedAreAbsent, Init, Elems
<1>10. LinkedIsFinished
  BY DEF LinkedIsFinished, Init
<1> QED
  BY <1>3, <1>5, <1>6, <1>7, <1>8, <1>9, <1>10 DEF Inv

-----------------------------------------------------------------------------
(* The steps *)

LEMMA TypeFacts ==
    ASSUME TypeOK
    PROVE  /\ Lineup \in Seq(Files)
           /\ inputs \in Seq(Files)
           /\ Len(nodes) \in Nat /\ DOMAIN nodes = 1..Len(nodes)
           /\ \A i \in DOMAIN nodes : nodes[i] \in Files
           /\ Len(edges) \in Nat /\ DOMAIN edges = 1..Len(edges)
           /\ Elems(nodes) \subseteq Files
           /\ \A f \in Files : /\ imports[f] \in Seq(Files \cup Absent)
                               /\ Len(imports[f]) \in Nat
                               /\ DOMAIN imports[f] = 1..Len(imports[f])
           /\ Importing => pos \in 1..Len(imports[cur]) /\ Target \in Files \cup Absent
<1>1. <<>> \in Seq(Files) /\ <<cur>> \in Seq(Files)
  BY DEF TypeOK
<1>2. Lineup \in Seq(Files)
  BY <1>1, ConcatProperties DEF TypeOK, Lineup
<1>3. \A f \in Files : /\ imports[f] \in Seq(Files \cup Absent)
                       /\ Len(imports[f]) \in Nat
                       /\ DOMAIN imports[f] = 1..Len(imports[f])
                       /\ \A i \in 1..Len(imports[f]) : imports[f][i] \in Files \cup Absent
  BY ElemsOf DEF TypeOK
<1>4. Importing => pos \in 1..Len(imports[cur]) /\ Target \in Files \cup Absent
  BY <1>3 DEF TypeOK, Importing, Target
<1>5. inputs \in Seq(Files)
  BY InputsAreFiles DEF TypeOK
<1>6. /\ Len(nodes) \in Nat /\ DOMAIN nodes = 1..Len(nodes)
      /\ \A i \in DOMAIN nodes : nodes[i] \in Files
      /\ Elems(nodes) \subseteq Files
  BY ElemsOf DEF TypeOK
<1>7. Len(edges) \in Nat /\ DOMAIN edges = 1..Len(edges)
  BY ElemsOf DEF TypeOK
<1> QED
  BY <1>2, <1>3, <1>4, <1>5, <1>6, <1>7

(* A step that gives no file a place and moves none.                           *)
LEMMA LineupSame ==
    ASSUME Inv, Lineup' = Lineup, UNCHANGED <<inputs, imports, index>>
    PROVE  IndexIsPlace' /\ InputsFirst' /\ PlacedAreReachable'
  BY DEF Inv, IndexIsPlace, InputsFirst, PlacedAreReachable, Reachable, Closed, ImportedBy, Elems

LEMMA PopNodeStep ==
    ASSUME Inv, PopNode
    PROVE  Inv'
<1>1. /\ TypeOK /\ phase = "next" /\ queue # <<>>
      /\ cur' = Head(queue) /\ queue' = Tail(queue)
      /\ links' = <<>> /\ pos' = 1 /\ phase' = "imports"
      /\ UNCHANGED <<inputs, imports, readable, index, nodes, edges, revEdges, unresolved>>
  BY DEF Inv, PopNode, sources, graph
<1>2. /\ Head(queue) \in Files /\ Tail(queue) \in Seq(Files) /\ <<>> \in Seq(Nat \ {0})
      /\ nodes \in Seq(Files) /\ queue \in Seq(Files)
  BY <1>1, HeadTailProperties DEF TypeOK
<1>3. TypeOK'
  BY <1>1, <1>2 DEF TypeOK
<1>4. Lineup' = Lineup
  <2>1. Lineup = (nodes \o <<>>) \o queue
    BY <1>1 DEF Lineup
  <2>2. Lineup' = (nodes \o <<Head(queue)>>) \o Tail(queue)
    BY <1>1 DEF Lineup
  <2> QED
    BY <1>1, <1>2, <2>1, <2>2, HeadMoves
<1>5. IndexIsPlace' /\ InputsFirst' /\ PlacedAreReachable'
  BY <1>1, <1>4, LineupSame
<1>6. EdgesAreImports'
  BY <1>1, <1>2, LinksEmpty, TypeFacts DEF Inv, EdgesAreImports
<1>7. UnresolvedAreAbsent'
  BY <1>1 DEF Inv, UnresolvedAreAbsent
<1>8. LinkedIsFinished'
  BY <1>1 DEF LinkedIsFinished
<1> QED
  BY <1>3, <1>5, <1>6, <1>7, <1>8 DEF Inv

LEMMA ImportUnresolvedStep ==
    ASSUME Inv, ImportUnresolved
    PROVE  Inv'
<1>1. /\ TypeOK /\ phase = "imports" /\ pos \in 1..Len(imports[cur])
      /\ Target \in Absent /\ Target = imports[cur][pos] /\ Target \notin Files
      /\ unresolved' = unresolved \cup {<<Target, cur>>}
      /\ pos' = pos + 1
      /\ UNCHANGED <<inputs, imports, readable, phase, queue, index, nodes, edges, revEdges, cur, links>>
  BY ImportsAreTargets, TypeFacts DEF Inv, ImportUnresolved, Importing, Target, sources
<1>2. TypeOK'
  BY <1>1 DEF TypeOK
<1>3. Lineup' = Lineup
  BY <1>1 DEF Lineup
<1>4. IndexIsPlace' /\ InputsFirst' /\ PlacedAreReachable'
  BY <1>1, <1>3, LineupSame
<1>5. EdgesAreImports'
  <2>1. LinksTo(index, links, imports[cur], pos - 1)
    BY <1>1 DEF Inv, EdgesAreImports
  <2>2. pos - 1 \in Nat /\ imports[cur][(pos - 1) + 1] \notin Files /\ pos' - 1 = (pos - 1) + 1
    BY <1>1 DEF TypeOK
  <2>3. LinksTo(index, links, imports[cur], pos' - 1)
    BY <2>1, <2>2, LinksSkip
  <2>4. pos' <= Len(imports[cur]) + 1
    BY <1>1, TypeFacts DEF TypeOK
  <2> QED
    BY <1>1, <2>3, <2>4 DEF Inv, EdgesAreImports
<1>6. UnresolvedAreAbsent'
  <2>1. \A k : k \in 1..(pos' - 1) <=> k \in 1..(pos - 1) \/ k = pos
    BY <1>1 DEF TypeOK
  <2>2. cur \in Files
    BY <1>1 DEF TypeOK
  <2> QED
    BY <1>1, <2>1, <2>2 DEF Inv, UnresolvedAreAbsent
<1>7. LinkedIsFinished'
  BY <1>1 DEF LinkedIsFinished
<1> QED
  BY <1>2, <1>4, <1>5, <1>6, <1>7 DEF Inv

(* Moving past an import that resolves leaves the report of the others alone.   *)
LEMMA ReportKept ==
    ASSUME Inv, Importing, Target \in Files, pos' = pos + 1,
           UNCHANGED <<imports, phase, nodes, cur, unresolved>>
    PROVE  UnresolvedAreAbsent'
<1>1. /\ phase = "imports" /\ pos \in Nat \ {0}
      /\ imports[cur][pos] \notin Absent
  BY ImportsAreTargets DEF Inv, TypeOK, Importing, Target
<1>2. \A k : k \in 1..(pos' - 1) <=> k \in 1..(pos - 1) \/ k = pos
  BY <1>1
<1> QED
  BY <1>1, <1>2 DEF Inv, UnresolvedAreAbsent

LEMMA ImportKnownStep ==
    ASSUME Inv, ImportKnown
    PROVE  Inv'
<1>1. /\ TypeOK /\ phase = "imports" /\ pos \in 1..Len(imports[cur])
      /\ Target \in DOMAIN index /\ Target = imports[cur][pos] /\ Target \in Files
      /\ index[Target] \in Nat \ {0} /\ links \in Seq(Nat \ {0}) /\ Importing
      /\ links' = Append(links, index[Target])
      /\ pos' = pos + 1
      /\ UNCHANGED <<inputs, imports, readable, phase, queue, index, nodes, edges, revEdges,
                     unresolved, cur>>
  BY TypeFacts DEF Inv, TypeOK, ImportKnown, Importing, Target, sources, graph
<1>2. links' \in Seq(Nat \ {0})
  BY <1>1, AppendProperties
<1>3. TypeOK'
  BY <1>1, <1>2 DEF TypeOK
<1>4. Lineup' = Lineup
  BY <1>1 DEF Lineup
<1>5. IndexIsPlace' /\ InputsFirst' /\ PlacedAreReachable'
  BY <1>1, <1>4, LineupSame
<1>6. EdgesAreImports'
  <2>1. LinksTo(index, links, imports[cur], pos - 1)
    BY <1>1 DEF Inv, EdgesAreImports
  <2>2. pos - 1 \in Nat /\ (pos - 1) + 1 = pos /\ pos' - 1 = pos
    BY <1>1 DEF TypeOK
  <2>3. LinksTo(index, links', imports[cur], pos' - 1)
    BY <1>1, <2>1, <2>2, LinksGrow
  <2>4. pos' <= Len(imports[cur]) + 1
    BY <1>1, TypeFacts DEF TypeOK
  <2> QED
    BY <1>1, <2>3, <2>4 DEF Inv, EdgesAreImports
<1>7. UnresolvedAreAbsent'
  BY <1>1, ReportKept
<1>8. LinkedIsFinished'
  BY <1>1 DEF LinkedIsFinished
<1> QED
  BY <1>3, <1>5, <1>6, <1>7, <1>8 DEF Inv

LEMMA ReachableStep ==
    ASSUME NEW F, NEW f \in Reachable(F), NEW g \in ImportedBy(f)
    PROVE  g \in Reachable(F)
  BY DEF Reachable, Closed, ImportedBy

LEMMA CurIsPlaced ==
    ASSUME TypeOK, phase = "imports"
    PROVE  cur \in Elems(Lineup)
<1>1. /\ nodes \in Seq(Files) /\ queue \in Seq(Files) /\ <<cur>> \in Seq(Files)
      /\ Len(<<cur>>) = 1 /\ <<cur>>[1] = cur
      /\ Lineup = (nodes \o <<cur>>) \o queue
  BY DEF TypeOK, Lineup
<1> DEFINE c == <<cur>>
           n == Len(nodes)
<1>2. n \in Nat /\ Len(queue) \in Nat
  BY <1>1, LenProperties
<1> HIDE DEF c
<1>3. /\ nodes \o c \in Seq(Files) /\ Len(nodes \o c) = n + 1
      /\ (nodes \o c)[n + 1] = c[1]
  BY <1>1, <1>2, ConcatProperties DEF c
<1>4. Lineup[n + 1] = c[1] /\ n + 1 \in DOMAIN Lineup
  BY <1>1, <1>2, <1>3, ConcatProperties, LenProperties DEF c
<1> QED
  BY <1>1, <1>4 DEF c, Elems

(* add_node gives the new file the place at the end of the line. *)
LEMMA ImportNewStep ==
    ASSUME Inv, ImportNew
    PROVE  Inv'
<1> DEFINE t == imports[cur][pos]
           i == Cardinality(DOMAIN index) + 1
<1>1. /\ TypeOK /\ phase = "imports" /\ pos \in 1..Len(imports[cur])
      /\ t \in Files \ DOMAIN index
      /\ links \in Seq(Nat \ {0}) /\ queue \in Seq(Files) /\ Importing /\ Target = t
      /\ index' = [f \in DOMAIN index \cup {t} |-> IF f = t THEN i ELSE index[f]]
      /\ links' = Append(links, i)
      /\ queue' = Append(queue, t)
      /\ pos' = pos + 1
      /\ UNCHANGED <<inputs, imports, readable, phase, nodes, edges, revEdges, unresolved, cur>>
  BY TypeFacts DEF Inv, TypeOK, ImportNew, Importing, Target, sources
<1>2. /\ Lineup \in Seq(Files) /\ Len(Lineup) \in Nat
      /\ i = Len(Lineup) + 1
      /\ DOMAIN index = Elems(Lineup)
      /\ \A m \in DOMAIN Lineup : index[Lineup[m]] = m
  BY <1>1, TypeFacts, LenProperties DEF Inv, IndexIsPlace
<1>3. IsFiniteSet(DOMAIN index) /\ Cardinality(DOMAIN index) \in Nat
  BY <1>2, ElemsFinite, FS_CardinalityType
<1> HIDE DEF t
<1>4. Cardinality(DOMAIN index \cup {t}) = i /\ i \in Nat \ {0}
  <2>1. t \notin DOMAIN index
    BY <1>1
  <2>2. Cardinality(DOMAIN index \cup {t}) = Cardinality(DOMAIN index) + 1
    BY <1>3, <2>1, FS_AddElement
  <2> QED
    BY <1>3, <2>2
<1> HIDE DEF i
<1>5. Lineup' = Append(Lineup, t)
  <2>1. Lineup = (nodes \o <<cur>>) \o queue /\ Lineup' = (nodes \o <<cur>>) \o Append(queue, t)
    BY <1>1 DEF Lineup
  <2>2. nodes \o <<cur>> \in Seq(Files)
    BY <1>1, ConcatProperties DEF TypeOK
  <2>3. queue \in Seq(Files) /\ t \in Files
    BY <1>1
  <2> QED
    BY <2>1, <2>2, <2>3, NewIsLast
<1>6. /\ DOMAIN Lineup = 1..Len(Lineup) /\ DOMAIN Lineup' = 1..(Len(Lineup) + 1)
      /\ Len(Lineup') = Len(Lineup) + 1
      /\ \A m \in 1..Len(Lineup) : Lineup'[m] = Lineup[m]
      /\ Lineup'[Len(Lineup) + 1] = t
  BY <1>1, <1>2, <1>5, AppendProperties, LenProperties
<1>7. Elems(Lineup') = Elems(Lineup) \cup {t}
  BY <1>1, <1>2, <1>5, ElemsOfAppend
<1>8. /\ DOMAIN index' = DOMAIN index \cup {t}
      /\ index'[t] = i
      /\ \A f \in DOMAIN index : index'[f] = index[f]
  BY <1>1
<1>9. TypeOK'
  <2>1. links' \in Seq(Nat \ {0}) /\ queue' \in Seq(Files)
    BY <1>1, <1>4, AppendProperties
  <2>2. index' \in [DOMAIN index' -> Nat \ {0}]
    BY <1>1, <1>4 DEF TypeOK
  <2> QED
    BY <1>1, <1>8, <2>1, <2>2 DEF TypeOK
<1>10. IndexIsPlace'
  <2>1. \A m \in DOMAIN Lineup' : index'[Lineup'[m]] = m
    <3> SUFFICES ASSUME NEW m \in DOMAIN Lineup' PROVE index'[Lineup'[m]] = m
      OBVIOUS
    <3>1. CASE m \in 1..Len(Lineup)
      <4>1. Lineup[m] \in DOMAIN index
        BY <1>2, <1>6, <3>1 DEF Elems
      <4> QED
        BY <1>2, <1>6, <1>8, <3>1, <4>1
    <3>2. CASE m = Len(Lineup) + 1
      BY <1>2, <1>6, <1>8, <3>2
    <3> QED
      BY <1>2, <1>6, <3>1, <3>2
  <2> QED
    BY <1>2, <1>4, <1>6, <1>7, <1>8, <2>1 DEF IndexIsPlace
<1>11. InputsFirst'
  <2>1. Len(inputs) \in Nat /\ DOMAIN inputs = 1..Len(inputs) /\ Len(inputs) <= Len(Lineup)
    BY <1>1, TypeFacts, LenProperties DEF Inv, InputsFirst
  <2> QED
    BY <1>1, <1>2, <1>6, <2>1 DEF Inv, InputsFirst
<1>12. PlacedAreReachable'
  <2>1. cur \in Reachable(Elems(inputs))
    BY <1>1, CurIsPlaced DEF Inv, PlacedAreReachable
  <2>2. t \in ImportedBy(cur)
    BY <1>1, TypeFacts DEF ImportedBy, Elems, TypeOK, t
  <2>3. t \in Reachable(Elems(inputs))
    BY <2>1, <2>2, ReachableStep
  <2>4. Reachable(Elems(inputs))' = Reachable(Elems(inputs))
    BY <1>1 DEF Reachable, Closed, ImportedBy
  <2> QED
    BY <1>1, <1>7, <2>3, <2>4 DEF Inv, PlacedAreReachable
<1>13. EdgesAreImports'
  <2>1. LinksTo(index, links, imports[cur], pos - 1) /\ pos <= Len(imports[cur]) + 1
    BY <1>1 DEF Inv, EdgesAreImports
  <2>2. LinksTo(index', links, imports[cur], pos - 1)
    BY <1>8, <2>1, LinksKept
  <2>3. pos - 1 \in Nat /\ (pos - 1) + 1 = pos /\ pos' - 1 = pos
    BY <1>1 DEF TypeOK
  <2>4. LinksTo(index', Append(links, index'[t]), imports[cur], pos)
    <3> DEFINE k == pos - 1
    <3>1. /\ k \in Nat /\ LinksTo(index', links, imports[cur], k) /\ links \in Seq(Nat \ {0})
          /\ imports[cur][k + 1] = t /\ t \in Files /\ t \in DOMAIN index'
          /\ index'[t] \in Nat \ {0} /\ k + 1 = pos
      BY <1>1, <1>4, <1>8, <2>2, <2>3 DEF t
    <3> HIDE DEF k
    <3> QED
      BY <3>1, LinksGrow
  <2>5. LinksTo(index', links', imports[cur], pos' - 1)
    BY <1>1, <1>8, <2>3, <2>4
  <2>6. pos' <= Len(imports[cur]) + 1
    BY <1>1, TypeFacts DEF TypeOK
  <2>7. \A m \in DOMAIN nodes : LinksTo(index', edges[m], imports[nodes[m]], Len(imports[nodes[m]]))
    BY <1>8, LinksKept DEF Inv, EdgesAreImports
  <2> QED
    BY <1>1, <2>5, <2>6, <2>7 DEF Inv, EdgesAreImports
<1>14. UnresolvedAreAbsent'
  BY <1>1, ReportKept
<1>15. LinkedIsFinished'
  BY <1>1 DEF LinkedIsFinished
<1> QED
  BY <1>9, <1>10, <1>11, <1>12, <1>13, <1>14, <1>15 DEF Inv

LEMMA ReadFailsStep ==
    ASSUME Inv, ReadFails
    PROVE  Inv'
<1>1. /\ phase = "imports" /\ phase' = "failed"
      /\ UNCHANGED <<inputs, imports, readable, queue, index, nodes, edges, revEdges,
                     unresolved, cur, links, pos>>
  BY DEF ReadFails, Importing, sources, graph
<1>2. Lineup' = Lineup
  BY <1>1 DEF Lineup
<1>3. IndexIsPlace' /\ InputsFirst' /\ PlacedAreReachable'
  BY <1>1, <1>2, LineupSame
<1>4. TypeOK'
  BY <1>1 DEF Inv, TypeOK
<1>5. EdgesAreImports' /\ UnresolvedAreAbsent' /\ LinkedIsFinished'
  BY <1>1 DEF Inv, EdgesAreImports, UnresolvedAreAbsent, LinkedIsFinished
<1> QED
  BY <1>3, <1>4, <1>5 DEF Inv

LEMMA PushNodeStep ==
    ASSUME Inv, PushNode
    PROVE  Inv'
<1> DEFINE n == Len(nodes)
<1>1. /\ TypeOK /\ phase = "imports" /\ phase' = "next"
      /\ pos \notin DOMAIN imports[cur]
      /\ nodes' = Append(nodes, cur) /\ edges' = Append(edges, links)
      /\ UNCHANGED <<inputs, imports, readable, queue, index, revEdges, unresolved, cur, links, pos>>
  BY DEF Inv, PushNode, sources
<1>2. /\ nodes \in Seq(Files) /\ queue \in Seq(Files) /\ cur \in Files
      /\ edges \in Seq(Seq(Nat \ {0})) /\ links \in Seq(Nat \ {0})
      /\ n \in Nat /\ DOMAIN nodes = 1..n /\ Len(edges) = n
      /\ LinksTo(index, links, imports[cur], pos - 1)
      /\ pos = Len(imports[cur]) + 1 /\ DOMAIN imports[cur] = 1..Len(imports[cur])
      /\ pos - 1 = Len(imports[cur])
  BY <1>1, TypeFacts DEF Inv, TypeOK, EdgesAreImports
<1>3. /\ nodes' \in Seq(Files) /\ Len(nodes') = n + 1
      /\ DOMAIN nodes' = 1..(n + 1)
      /\ \A i \in 1..n : nodes'[i] = nodes[i]
      /\ nodes'[n + 1] = cur
      /\ Elems(nodes') = Elems(nodes) \cup {cur}
  BY <1>1, <1>2, AppendProperties, LenProperties, ElemsOfAppend
<1>4. /\ edges' \in Seq(Seq(Nat \ {0})) /\ Len(edges') = n + 1
      /\ \A i \in 1..n : edges'[i] = edges[i]
      /\ edges'[n + 1] = links
  BY <1>1, <1>2, AppendProperties
<1> HIDE DEF n
<1>5. TypeOK'
  BY <1>1, <1>3, <1>4 DEF TypeOK
<1>6. Lineup' = Lineup
  <2>1. Lineup = (nodes \o <<cur>>) \o queue /\ Lineup' = (Append(nodes, cur) \o <<>>) \o queue
    BY <1>1 DEF Lineup
  <2> QED
    BY <1>2, <2>1, CurMoves
<1>7. IndexIsPlace' /\ InputsFirst' /\ PlacedAreReachable'
  BY <1>1, <1>6, LineupSame
<1>8. EdgesAreImports'
  <2>1. ASSUME NEW i \in 1..(n + 1)
        PROVE  LinksTo(index, edges'[i], imports[nodes'[i]], Len(imports[nodes'[i]]))
    <3>1. CASE i = n + 1
      BY <1>2, <1>3, <1>4, <3>1
    <3>2. CASE i # n + 1
      <4>1. i \in 1..n
        BY <1>2, <3>2
      <4> QED
        BY <1>2, <1>3, <1>4, <4>1 DEF Inv, EdgesAreImports
    <3> QED
      BY <3>1, <3>2
  <2> QED
    BY <1>1, <1>3, <1>4, <2>1 DEF EdgesAreImports
<1>9. UnresolvedAreAbsent'
  <2>1. \A t : t \in Elems(imports[cur]) <=> \E k \in 1..(pos - 1) : imports[cur][k] = t
    BY <1>2 DEF Elems
  <2>2. \A u \in Absent \X Files :
           u \in unresolved <=> u[2] \in Elems(nodes) \cup {cur} /\ u[1] \in Elems(imports[u[2]])
    BY <1>1, <2>1 DEF Inv, UnresolvedAreAbsent
  <2>3. unresolved \subseteq Absent \X Files
    BY <1>1 DEF TypeOK
  <2> QED
    BY <1>1, <1>3, <2>2, <2>3 DEF UnresolvedAreAbsent
<1>10. LinkedIsFinished'
  BY <1>1 DEF LinkedIsFinished
<1> QED
  BY <1>5, <1>7, <1>8, <1>9, <1>10 DEF Inv

(* Link finishes the graph, and a walk leaves it alone. *)
LEMMA LinkedSteps ==
    ASSUME Inv, Link \/ (\E i \in DOMAIN nodes : StartWalk(i)) \/ WalkNode \/ EndWalk
    PROVE  Inv'
<1>1. /\ UNCHANGED <<inputs, imports, readable, queue, index, nodes, edges, unresolved, cur,
                     links, pos>>
      /\ phase \in {"next", "linked", "walking"} /\ phase' \in {"linked", "walking"}
      /\ phase = "next" => /\ queue = <<>>
                           /\ revEdges' = [i \in DOMAIN nodes |->
                                              {j \in DOMAIN nodes : i \in Elems(edges[j])}]
      /\ phase # "next" => UNCHANGED revEdges
  BY DEF Link, StartWalk, WalkNode, EndWalk, sources, graph
<1>2. Lineup' = Lineup
  BY <1>1 DEF Lineup
<1>3. IndexIsPlace' /\ InputsFirst' /\ PlacedAreReachable'
  BY <1>1, <1>2, LineupSame
<1>4. TypeOK'
  BY <1>1 DEF Inv, TypeOK
<1>5. EdgesAreImports' /\ UnresolvedAreAbsent'
  BY <1>1 DEF Inv, EdgesAreImports, UnresolvedAreAbsent
<1>6. LinkedIsFinished'
  BY <1>1 DEF Inv, LinkedIsFinished, Elems
<1> QED
  BY <1>3, <1>4, <1>5, <1>6 DEF Inv

(* The invariant holds throughout. *)
LEMMA InvHolds == Spec => []Inv
<1>1. Inv /\ UNCHANGED vars => Inv'
  <2> SUFFICES ASSUME Inv, UNCHANGED vars PROVE Inv'
    OBVIOUS
  <2>1. UNCHANGED <<inputs, imports, readable, phase, queue, index, nodes, edges, revEdges,
                    unresolved, cur, links, pos>>
    BY DEF vars, sources, graph
  <2>2. IndexIsPlace' /\ InputsFirst' /\ PlacedAreReachable'
    BY <2>1, LineupSame DEF Lineup
  <2>3. TypeOK'
    BY <2>1 DEF Inv, TypeOK
  <2>4. EdgesAreImports' /\ UnresolvedAreAbsent'
    BY <2>1 DEF Inv, EdgesAreImports, UnresolvedAreAbsent
  <2>5. LinkedIsFinished'
    BY <2>1 DEF Inv, LinkedIsFinished
  <2> QED
    BY <2>2, <2>3, <2>4, <2>5 DEF Inv
<1>2. Inv /\ Next => Inv'
  BY PopNodeStep, ImportUnresolvedStep, ImportKnownStep, ImportNewStep, ReadFailsStep,
     PushNodeStep, LinkedSteps
     DEF Next, Resolve
<1> QED
  BY InitHolds, <1>1, <1>2, PTL DEF Spec

(* resolve_sources: the index add_node gives a file is the place the file takes  *)
(* in nodes and edges later, however its imports and those of others intermix.  *)
THEOREM IndicesArePlaces == Spec => []IndexIsPlace
<1>1. Inv => IndexIsPlace
  BY DEF Inv
<1> QED
  BY <1>1, InvHolds, PTL

(* A finished graph: index and nodes are each other's inverse, and the edges of  *)
(* a node are the indices of what it imports.                                  *)
LEMMA FinishedGraph ==
    ASSUME Inv, phase \in {"linked", "walking"}
    PROVE  /\ Lineup = nodes /\ nodes \in Seq(Files) /\ DOMAIN nodes = 1..Len(nodes)
           /\ DOMAIN edges = DOMAIN nodes /\ edges \in Seq(Seq(Nat \ {0}))
           /\ DOMAIN index = Elems(nodes)
           /\ \A i \in DOMAIN nodes : nodes[i] \in Files /\ index[nodes[i]] = i
           /\ \A f \in DOMAIN index : index[f] \in DOMAIN nodes /\ nodes[index[f]] = f
           /\ \A i \in DOMAIN nodes :
                 LET s == imports[nodes[i]] IN
                 /\ DOMAIN s = 1..Len(s)
                 /\ Len(edges[i]) = Rank(s, Len(s))
                 /\ \A k \in DOMAIN s : s[k] \in Files =>
                       /\ s[k] \in DOMAIN index
                       /\ edges[i][Rank(s, k)] = index[s[k]]
                       /\ index[s[k]] \in Elems(edges[i])
                 /\ \A m \in Elems(edges[i]) : \E k \in DOMAIN s : s[k] \in Files /\ m = index[s[k]]
<1>1. /\ TypeOK /\ queue = <<>> /\ nodes \in Seq(Files)
      /\ edges \in Seq(Seq(Nat \ {0})) /\ Len(edges) = Len(nodes)
  BY TypeFacts DEF Inv, LinkedIsFinished, TypeOK, EdgesAreImports
<1>2. Lineup = nodes
  <2>1. Lineup = (nodes \o <<>>) \o <<>>
    BY <1>1 DEF Lineup
  <2> QED
    BY <1>1, <2>1, ConcatEmptySeq
<1>3. /\ DOMAIN nodes = 1..Len(nodes) /\ DOMAIN edges = 1..Len(nodes)
      /\ \A i \in DOMAIN nodes : nodes[i] \in Files
  BY <1>1, TypeFacts
<1>4. /\ DOMAIN index = Elems(nodes)
      /\ \A i \in DOMAIN nodes : index[nodes[i]] = i
      /\ \A f \in DOMAIN index : index[f] \in DOMAIN nodes /\ nodes[index[f]] = f
  BY <1>2 DEF Inv, IndexIsPlace, Elems
<1>5. ASSUME NEW i \in DOMAIN nodes
      PROVE  LET s == imports[nodes[i]] IN
             /\ DOMAIN s = 1..Len(s)
             /\ Len(edges[i]) = Rank(s, Len(s))
             /\ \A k \in DOMAIN s : s[k] \in Files =>
                   /\ s[k] \in DOMAIN index
                   /\ edges[i][Rank(s, k)] = index[s[k]]
                   /\ index[s[k]] \in Elems(edges[i])
             /\ \A m \in Elems(edges[i]) : \E k \in DOMAIN s : s[k] \in Files /\ m = index[s[k]]
  <2>1. LinksTo(index, edges[i], imports[nodes[i]], Len(imports[nodes[i]]))
    BY <1>5 DEF Inv, EdgesAreImports
  <2>2. nodes[i] \in Files /\ DOMAIN imports[nodes[i]] = 1..Len(imports[nodes[i]])
    BY <1>1, <1>3, <1>5, TypeFacts
  <2> QED
    BY <2>1, <2>2, LinksElems
<1> QED
  BY <1>1, <1>2, <1>3, <1>4, <1>5

(* The edges of a node, as files.                                              *)
LEMMA EdgesLead ==
    ASSUME Inv, phase \in {"linked", "walking"}, NEW i \in DOMAIN nodes
    PROVE  /\ Elems(edges[i]) = {j \in DOMAIN nodes : nodes[j] \in ImportedBy(nodes[i])}
           /\ ImportedBy(nodes[i]) \subseteq Elems(nodes)
<1>1. ASSUME NEW j \in Elems(edges[i])
      PROVE  j \in DOMAIN nodes /\ nodes[j] \in ImportedBy(nodes[i])
  <2>1. PICK k \in DOMAIN imports[nodes[i]] :
               imports[nodes[i]][k] \in Files /\ j = index[imports[nodes[i]][k]]
    BY <1>1, FinishedGraph
  <2>2. j \in DOMAIN nodes /\ nodes[j] = imports[nodes[i]][k]
    BY <2>1, FinishedGraph
  <2> QED
    BY <2>1, <2>2 DEF ImportedBy, Elems
<1>2. ASSUME NEW f \in ImportedBy(nodes[i])
      PROVE  f \in Elems(nodes) /\ index[f] \in Elems(edges[i])
  <2>1. PICK k \in DOMAIN imports[nodes[i]] :
               imports[nodes[i]][k] \in Files /\ f = imports[nodes[i]][k]
    BY <1>2 DEF ImportedBy, Elems
  <2> QED
    BY <2>1, FinishedGraph
<1>3. \A j \in DOMAIN nodes : index[nodes[j]] = j
  BY FinishedGraph
<1> QED
  BY <1>1, <1>2, <1>3

LEMMA InvGivesComplete == Inv => GraphIsComplete
<1> SUFFICES ASSUME Inv, phase = "linked" PROVE GraphIsComplete
  BY DEF GraphIsComplete
<1>1. /\ TypeOK /\ Lineup = nodes /\ nodes \in Seq(Files) /\ inputs \in Seq(Files)
      /\ revEdges = [i \in DOMAIN nodes |-> {j \in DOMAIN nodes : i \in Elems(edges[j])}]
  BY TypeFacts, FinishedGraph DEF Inv, LinkedIsFinished
<1>2. /\ Len(nodes) \in Nat /\ DOMAIN nodes = 1..Len(nodes)
      /\ Len(inputs) \in Nat /\ DOMAIN inputs = 1..Len(inputs)
      /\ Len(inputs) <= Len(nodes)
      /\ \A i \in 1..Len(inputs) : nodes[i] = inputs[i]
      /\ \A i \in DOMAIN nodes : nodes[i] \in Files
      /\ Elems(nodes) \subseteq Files
  BY <1>1, LenProperties, TypeFacts DEF Inv, InputsFirst
<1>3. SubSeq(nodes, 1, Len(inputs)) = inputs
  <2>1. \A i \in 1..Len(inputs) : nodes[i] \in Files
    BY <1>2
  <2>2. /\ SubSeq(nodes, 1, Len(inputs)) \in Seq(Files)
        /\ Len(SubSeq(nodes, 1, Len(inputs))) = Len(inputs)
        /\ \A i \in 1..Len(inputs) : SubSeq(nodes, 1, Len(inputs))[i] = nodes[i]
    BY <1>2, <2>1, SubSeqProperties
  <2> QED
    BY <1>1, <1>2, <2>2, SeqEqual
<1>4. Elems(nodes) = Reachable(Elems(inputs))
  <2>1. Closed(Elems(nodes))
    BY EdgesLead DEF Closed, Elems
  <2>2. Elems(inputs) \subseteq Elems(nodes)
    BY <1>2 DEF Elems
  <2>3. Reachable(Elems(inputs)) \subseteq Elems(nodes)
    BY <1>2, <2>1, <2>2 DEF Reachable
  <2> QED
    BY <1>1, <2>3 DEF Inv, PlacedAreReachable
<1>5. ASSUME NEW i \in DOMAIN nodes
      PROVE  LET s == imports[nodes[i]] IN
             /\ Len(edges[i]) = Rank(s, Len(s))
             /\ \A k \in DOMAIN s : s[k] \in Files => nodes[edges[i][Rank(s, k)]] = s[k]
  BY <1>5, FinishedGraph
<1>6. ASSUME NEW i \in DOMAIN nodes
      PROVE  {nodes[j] : j \in revEdges[i]} = {f \in Elems(nodes) : nodes[i] \in ImportedBy(f)}
  <2>1. revEdges[i] = {j \in DOMAIN nodes : nodes[i] \in ImportedBy(nodes[j])}
    BY <1>1, <1>6, EdgesLead
  <2> QED
    BY <2>1 DEF Elems
<1>7. unresolved = {u \in Absent \X Elems(nodes) : u[1] \in Elems(imports[u[2]])}
  BY <1>2 DEF Inv, UnresolvedAreAbsent
<1> QED
  BY <1>3, <1>4, <1>5, <1>6, <1>7 DEF GraphIsComplete

(* resolve_sources: the graph it returns holds exactly the files reachable from   *)
(* its inputs, with all their edges both ways, and every unresolved import.     *)
THEOREM FinishedGraphsAreComplete == Spec => []GraphIsComplete
  BY InvGivesComplete, InvHolds, PTL

-----------------------------------------------------------------------------
(* Walks *)

(* The node the walk under way started from. *)
Start == IF yielded = <<>> THEN stack[1] ELSE yielded[1]

(* What has been returned is closed under imports but for those on the stack.  *)
WalkInv ==
    phase = "walking" =>
        /\ stack \in Seq(DOMAIN nodes)
        /\ yielded \in Seq(DOMAIN nodes)
        /\ visited = Elems(yielded)
        /\ Start \in Elems(stack) \cup visited
        /\ \A i \in visited : Elems(edges[i]) \subseteq visited \cup Elems(stack)
        /\ \A i \in Elems(stack) \cup visited : nodes[i] \in Reachable({nodes[Start]})

(* all_imported_nodes: a walk stays inside the graph, and when it ends it has    *)
(* returned the file it started from and all it imports, directly or not.      *)
WalkYieldsImports ==
    phase = "walking" =>
        /\ Elems(stack) \cup Elems(yielded) \subseteq DOMAIN nodes
        /\ stack = <<>> =>
              {nodes[i] : i \in Elems(yielded)} = Reachable({nodes[yielded[1]]})

LEMMA StartWalkStep ==
    ASSUME Inv, NEW i \in DOMAIN nodes, StartWalk(i)
    PROVE  WalkInv'
<1>1. /\ stack' = <<i>> /\ yielded' = <<>> /\ visited' = {}
      /\ UNCHANGED <<nodes, edges, imports>>
      /\ DOMAIN nodes = 1..Len(nodes) /\ nodes[i] \in Files
  BY FinishedGraph DEF StartWalk, graph, sources
<1>2. <<i>> \in Seq(DOMAIN nodes) /\ Elems(<<i>>) = {i} /\ Elems(<<>>) = {} /\ <<i>>[1] = i
  BY DEF Elems
<1>3. Start' = i
  BY <1>1, <1>2 DEF Start
<1>4. nodes[i] \in Reachable({nodes[i]})
  BY <1>1, InputsAreReachable
<1>5. Reachable({nodes[i]})' = Reachable({nodes[i]})
  BY <1>1 DEF Reachable, Closed, ImportedBy
<1>6. stack' \in Seq(DOMAIN nodes') /\ yielded' \in Seq(DOMAIN nodes')
  BY <1>1, <1>2, EmptySeq
<1>7. Elems(stack') = {i} /\ Elems(yielded') = {}
  BY <1>1, <1>2
<1>8. nodes' = nodes
  BY <1>1
<1> QED
  BY <1>1, <1>3, <1>4, <1>5, <1>6, <1>7, <1>8 DEF WalkInv

LEMMA WalkNodeStep ==
    ASSUME Inv, WalkInv, WalkNode
    PROVE  WalkInv'
<1> DEFINE D == DOMAIN nodes
           h == Head(stack)
           rest == Tail(stack)
<1>1. /\ phase = "walking" /\ stack # <<>> /\ stack \in Seq(D) /\ yielded \in Seq(D)
      /\ visited = Elems(yielded)
      /\ stack' = IF h \in visited THEN rest ELSE rest \o edges[h]
      /\ visited' = visited \cup {h}
      /\ yielded' = Append(yielded, h)
      /\ UNCHANGED <<nodes, edges, imports, phase>>
  BY DEF WalkInv, WalkNode, graph, sources
<1>2. /\ h \in D /\ rest \in Seq(D) /\ h = stack[1]
      /\ Elems(stack) = Elems(rest) \cup {h}
  <2>1. /\ h \in D /\ rest \in Seq(D) /\ Len(rest) = Len(stack) - 1
        /\ \A k \in 1..Len(rest) : rest[k] = stack[k + 1]
        /\ h = stack[1]
    BY <1>1, HeadTailProperties
  <2>2. /\ Len(stack) \in Nat /\ Len(stack) >= 1 /\ DOMAIN stack = 1..Len(stack)
        /\ DOMAIN rest = 1..Len(rest)
    BY <1>1, <2>1, EmptySeq, LenProperties
  <2> HIDE DEF h, rest
  <2>3. \A k \in DOMAIN stack : k # 1 => k - 1 \in DOMAIN rest /\ stack[k] = rest[k - 1]
    <3> SUFFICES ASSUME NEW k \in 2..Len(stack)
                 PROVE  k - 1 \in DOMAIN rest /\ stack[k] = rest[k - 1]
      BY <2>2
    <3>1. k - 1 \in 1..Len(rest) /\ (k - 1) + 1 = k
      BY <2>1, <2>2
    <3> QED
      BY <2>1, <2>2, <3>1
  <2>4. \A k \in DOMAIN rest : k + 1 \in DOMAIN stack /\ rest[k] = stack[k + 1]
    BY <2>1, <2>2
  <2>5. 1 \in DOMAIN stack
    BY <2>2
  <2>6. \A k \in DOMAIN stack : stack[k] \in Elems(rest) \cup {h}
    BY <2>1, <2>3 DEF Elems
  <2>7. h \in Elems(stack) /\ \A k \in DOMAIN rest : rest[k] \in Elems(stack)
    BY <2>1, <2>4, <2>5 DEF Elems
  <2> QED
    BY <2>1, <2>6, <2>7 DEF Elems
<1>3. /\ edges[h] \in Seq(D)
      /\ Elems(edges[h]) = {j \in D : nodes[j] \in ImportedBy(nodes[h])}
  <2>1. Elems(edges[h]) = {j \in D : nodes[j] \in ImportedBy(nodes[h])}
    BY <1>1, <1>2, EdgesLead
  <2>2. edges[h] \in Seq(Nat \ {0})
    BY <1>1, <1>2, FinishedGraph, ElementOfSeq, LenProperties
  <2>3. edges[h] \in [1..Len(edges[h]) -> D] /\ Len(edges[h]) \in Nat
    BY <2>1, <2>2, LenProperties DEF Elems
  <2> QED
    BY <2>1, <2>3
<1>4. /\ yielded' \in Seq(D)
      /\ Elems(yielded') = Elems(yielded) \cup {h}
      /\ yielded' # <<>>
      /\ yielded # <<>> => yielded'[1] = yielded[1]
      /\ yielded = <<>> => yielded'[1] = h
  BY <1>1, <1>2, AppendProperties, ElemsOfAppend, EmptySeq
<1> HIDE DEF h, rest, D
<1>5. /\ rest \o edges[h] \in Seq(D)
      /\ Elems(rest \o edges[h]) = Elems(rest) \cup Elems(edges[h])
  BY <1>2, <1>3, ElemsOfConcat
<1>6. stack' \in Seq(D)
  BY <1>1, <1>2, <1>5
<1>7. Start' = Start
  BY <1>2, <1>4 DEF Start
<1>8. Elems(stack') \cup visited' \subseteq Elems(stack) \cup visited \cup Elems(edges[h])
  BY <1>1, <1>2, <1>5
<1>9. Start \in Elems(stack') \cup visited'
  BY <1>1, <1>2, <1>5 DEF WalkInv
<1>10. \A i \in visited' : Elems(edges[i]) \subseteq visited' \cup Elems(stack')
  BY <1>1, <1>2, <1>5 DEF WalkInv
<1>11. ASSUME NEW i \in Elems(stack') \cup visited'
       PROVE  nodes[i] \in Reachable({nodes[Start]})
  <2>1. nodes[h] \in Reachable({nodes[Start]})
    BY <1>1, <1>2 DEF WalkInv
  <2>2. \A j \in Elems(edges[h]) : nodes[j] \in Reachable({nodes[Start]})
    BY <1>3, <2>1, ReachableStep
  <2> QED
    BY <1>1, <1>8, <1>11, <2>2 DEF WalkInv
<1>12. Reachable({nodes[Start]})' = Reachable({nodes[Start]})
  BY <1>1, <1>7 DEF Reachable, Closed, ImportedBy
<1>13. D' = D /\ nodes' = nodes /\ edges' = edges /\ visited' = Elems(yielded')
  BY <1>1, <1>4 DEF D
<1> QED
  BY <1>4, <1>6, <1>7, <1>9, <1>10, <1>11, <1>12, <1>13 DEF WalkInv, D

LEMMA WalkInvGives == Inv /\ WalkInv => WalkYieldsImports
<1> SUFFICES ASSUME Inv, WalkInv, phase = "walking" PROVE WalkYieldsImports
  BY DEF WalkYieldsImports
<1>1. /\ stack \in Seq(DOMAIN nodes) /\ yielded \in Seq(DOMAIN nodes)
      /\ Elems(stack) \subseteq DOMAIN nodes /\ Elems(yielded) \subseteq DOMAIN nodes
      /\ visited = Elems(yielded)
  BY ElemsOf DEF WalkInv
<1> DEFINE Y == {nodes[i] : i \in Elems(yielded)}
<1>2. ASSUME stack = <<>>
      PROVE  Y = Reachable({nodes[yielded[1]]})
  <2>1. Elems(stack) = {}
    BY <1>2 DEF Elems
  <2>2. Start \in Elems(yielded) /\ Start = yielded[1]
    BY <1>1, <2>1 DEF WalkInv, Start, Elems
  <2>3. Y \subseteq Reachable({nodes[yielded[1]]})
    BY <1>1, <2>2 DEF WalkInv
  <2>4. Y \subseteq Files /\ {nodes[yielded[1]]} \subseteq Y
    BY <1>1, <2>2, FinishedGraph
  <2>5. Closed(Y)
    <3> SUFFICES ASSUME NEW i \in Elems(yielded), NEW g \in ImportedBy(nodes[i])
                 PROVE  g \in Y
      BY DEF Closed
    <3>1. PICK j \in DOMAIN nodes : g = nodes[j]
      BY <1>1, EdgesLead DEF Elems
    <3>2. j \in Elems(edges[i])
      BY <1>1, <3>1, EdgesLead
    <3>3. j \in Elems(yielded)
      BY <1>1, <2>1, <3>2 DEF WalkInv
    <3> QED
      BY <3>1, <3>3
  <2>6. Reachable({nodes[yielded[1]]}) \subseteq Y
    BY <2>4, <2>5 DEF Reachable
  <2> QED
    BY <2>3, <2>6
<1> QED
  BY <1>1, <1>2 DEF WalkYieldsImports

(* NodesIter: whatever node it starts from and however files import each other,   *)
(* it looks up no node that is not there and misses none that is imported.      *)
THEOREM WalksAreComplete == Spec => []WalkYieldsImports
<1>1. Init => WalkInv
  BY DEF Init, WalkInv
<1>2. Inv /\ WalkInv /\ [Next]_vars => WalkInv'
  <2> SUFFICES ASSUME Inv, WalkInv, [Next]_vars PROVE WalkInv'
    OBVIOUS
  <2>1. CASE \E i \in DOMAIN nodes : StartWalk(i)
    BY <2>1, StartWalkStep
  <2>2. CASE WalkNode
    BY <2>2, WalkNodeStep
  <2>3. CASE Resolve \/ EndWalk
    <3>1. phase' # "walking"
      BY <2>3
         DEF Resolve, EndWalk, PopNode, ImportUnresolved, ImportKnown, ImportNew, ReadFails,
             PushNode, Link, Importing
    <3> QED
      BY <3>1 DEF WalkInv
  <2>4. CASE UNCHANGED vars
    <3>1. UNCHANGED <<phase, imports, nodes, edges, stack, visited, yielded>>
      BY <2>4 DEF vars, sources, graph, walk
    <3>2. Reachable({nodes[Start]})' = Reachable({nodes[Start]})
      BY <3>1 DEF Reachable, Closed, ImportedBy, Start
    <3>3. Start' = Start
      BY <3>1 DEF Start
    <3> DEFINE R == Reachable({nodes[Start]})
    <3>4. R' = R /\ Elems(stack)' = Elems(stack) /\ Elems(yielded)' = Elems(yielded)
          /\ \A i \in visited : Elems(edges[i])' = Elems(edges[i])
      BY <3>1, <3>2 DEF Elems
    <3> QED
      BY <3>1, <3>3, <3>4 DEF WalkInv
  <2> QED
    BY <2>1, <2>2, <2>3, <2>4 DEF Next
<1> QED
  BY <1>1, <1>2, InvHolds, WalkInvGives, PTL DEF Spec

-----------------------------------------------------------------------------
(* The search for remappings.                                                  *)

IsSequence(s) == s \in Seq(ToSet(s))

FrameFields == {"dir", "real", "open", "level", "rest", "candidate", "found"}

(* The path by which frame i was entered, before its link was followed. *)
Crossing(i) == Append(frames[i - 1].real, Last(frames[i].dir))
Crossings == {i \in 2 .. Len(frames) : Crossing(i) \in Links}

StackTypes ==
    /\ tree \in Trees
    /\ IsSequence(frames)
    /\ \A i \in DOMAIN frames :
          /\ FrameFields \subseteq DOMAIN frames[i]
          /\ IsSequence(frames[i].dir) /\ IsSequence(frames[i].real)

(* A frame is where its path leads; links on the stack lead to different places, *)
(* which are remembered; without a link between two frames the inner is deeper.  *)
StackInv ==
    /\ \A i \in 2 .. Len(frames) : frames[i].real = LinkTarget(Crossing(i))
    /\ \A i \in Crossings : frames[i].real \in followed
    /\ \A i, j \in Crossings : frames[i].real = frames[j].real => i = j
    /\ \A i, j \in DOMAIN frames :
          i < j /\ (i + 1 .. j) \cap Crossings = {} => Len(frames[i].real) < Len(frames[j].real)

LEMMA Appending ==
    ASSUME NEW s, IsSequence(s), NEW x
    PROVE  /\ Len(s) \in Nat /\ DOMAIN s = 1 .. Len(s)
           /\ IsSequence(Append(s, x))
           /\ Len(Append(s, x)) = Len(s) + 1
           /\ \A i \in 1 .. Len(s) : Append(s, x)[i] = s[i]
           /\ Append(s, x)[Len(s) + 1] = x
           /\ Last(Append(s, x)) = x
<1> DEFINE S == ToSet(s) \cup {x}
           t == Append(s, x)
<1>1. s \in Seq(S) /\ x \in S
  BY DEF IsSequence
<1>2. /\ Len(s) \in Nat /\ DOMAIN s = 1 .. Len(s)
      /\ t \in Seq(S) /\ Len(t) = Len(s) + 1 /\ DOMAIN t = 1 .. Len(s) + 1
      /\ \A i \in 1 .. Len(s) : t[i] = s[i]
      /\ t[Len(s) + 1] = x
  <2> HIDE DEF S
  <2> QED
    BY <1>1
<1>3. t \in Seq(ToSet(t))
  <2>1. \A i \in 1 .. Len(t) : t[i] \in ToSet(t)
    BY <1>2 DEF ToSet
  <2> HIDE DEF S, t
  <2> QED
    BY <1>2, <2>1
<1>4. Last(t) = x
  BY <1>2 DEF Last
<1> QED
  BY <1>2, <1>3, <1>4 DEF IsSequence

LEMMA Leaving ==
    ASSUME NEW s, IsSequence(s), s # <<>>
    PROVE  /\ Len(s) \in Nat \ {0} /\ DOMAIN s = 1 .. Len(s)
           /\ IsSequence(Front(s))
           /\ Len(Front(s)) = Len(s) - 1
           /\ \A i \in 1 .. Len(s) - 1 : Front(s)[i] = s[i]
<1> DEFINE S == ToSet(s)
           t == SubSeq(s, 1, Len(s) - 1)
<1>1. s \in Seq(S)
  BY DEF IsSequence
<1>2. /\ Len(s) \in Nat \ {0} /\ DOMAIN s = 1 .. Len(s)
      /\ t \in Seq(S) /\ Len(t) = Len(s) - 1 /\ DOMAIN t = 1 .. Len(s) - 1
      /\ \A i \in 1 .. Len(s) - 1 : t[i] = s[i]
  <2> HIDE DEF S
  <2>1. Len(s) \in Nat \ {0} /\ DOMAIN s = 1 .. Len(s)
    BY <1>1
  <2>2. /\ t \in Seq(S) /\ Len(t) = Len(s) - 1
        /\ \A i \in 1 .. Len(s) - 1 : t[i] = s[i]
    BY <1>1, <2>1, SubSeqProperties
  <2> QED
    BY <2>1, <2>2
<1>3. t \in Seq(ToSet(t))
  <2>1. \A i \in 1 .. Len(t) : t[i] \in ToSet(t)
    BY <1>2 DEF ToSet
  <2> HIDE DEF S, t
  <2> QED
    BY <1>2, <2>1
<1> QED
  BY <1>2, <1>3 DEF IsSequence, Front

(* What a step leaves of the stack: some of its frames, in their places. *)
LEMMA StackShrinks ==
    ASSUME StackTypes, StackInv, tree' = tree, followed \subseteq followed',
           IsSequence(frames'), Len(frames') <= Len(frames),
           \A i \in DOMAIN frames' :
               /\ FrameFields \subseteq DOMAIN frames'[i]
               /\ frames'[i].dir = frames[i].dir /\ frames'[i].real = frames[i].real
    PROVE  StackTypes' /\ StackInv'
<1>1. /\ Len(frames) \in Nat /\ DOMAIN frames = 1 .. Len(frames)
      /\ Len(frames') \in Nat /\ DOMAIN frames' = 1 .. Len(frames')
  BY Appending DEF StackTypes
<1>2. DOMAIN frames' \subseteq DOMAIN frames /\ 2 .. Len(frames') \subseteq 2 .. Len(frames)
  BY <1>1
<1>3. StackTypes'
  BY <1>2 DEF StackTypes
<1>4. ASSUME NEW i \in 2 .. Len(frames')
      PROVE  Crossing(i)' = Crossing(i)
  <2>1. i \in DOMAIN frames' /\ i - 1 \in DOMAIN frames'
    BY <1>1
  <2>2. frames'[i - 1].real = frames[i - 1].real /\ frames'[i].dir = frames[i].dir
    BY <2>1
  <2> QED
    BY <2>2 DEF Crossing
<1>5. Links' = Links /\ \A p : LinkTarget(p)' = LinkTarget(p)
  BY DEF Links, LinkTarget
<1>6. Crossings' = Crossings \cap 2 .. Len(frames')
  BY <1>2, <1>4, <1>5 DEF Crossings
<1>7. \A i \in 2 .. Len(frames') : frames'[i].real = frames[i].real /\ i \in DOMAIN frames'
  BY <1>1
<1>8. \A i \in 2 .. Len(frames') : frames'[i].real = LinkTarget(Crossing(i))'
  BY <1>2, <1>4, <1>5, <1>7 DEF StackInv, LinkTarget
<1>9. /\ \A i \in Crossings' : frames'[i].real \in followed'
      /\ \A i, j \in Crossings' : frames'[i].real = frames'[j].real => i = j
  BY <1>6, <1>7 DEF StackInv
<1>10. ASSUME NEW i \in DOMAIN frames', NEW j \in DOMAIN frames', i < j,
              (i + 1 .. j) \cap Crossings' = {}
       PROVE  Len(frames'[i].real) < Len(frames'[j].real)
  <2>1. (i + 1 .. j) \subseteq 2 .. Len(frames')
    BY <1>1, <1>10
  <2>2. (i + 1 .. j) \cap Crossings = {}
    BY <2>1, <1>6, <1>10
  <2> QED
    BY <1>2, <1>10, <2>2 DEF StackInv
<1> QED
  BY <1>3, <1>8, <1>9, <1>10 DEF StackInv

(* One more frame, entered through a link that was not followed before or none. *)
LEMMA StackGrows ==
    ASSUME StackTypes, StackInv, tree' = tree, frames # <<>>,
           IsSequence(frames'), Len(frames') = Len(frames) + 1,
           \A i \in DOMAIN frames' : FrameFields \subseteq DOMAIN frames'[i],
           \A i \in DOMAIN frames :
               frames'[i].dir = frames[i].dir /\ frames'[i].real = frames[i].real,
           NEW new, new = frames'[Len(frames')],
           IsSequence(new.dir),
           NEW path, path = Append(Last(frames).real, Last(new.dir)),
           new.real = LinkTarget(path),
           IsSequence(LinkTarget(path)),
           path \notin Links => Len(LinkTarget(path)) = Len(Last(frames).real) + 1,
           path \in Links => LinkTarget(path) \notin followed,
           followed' = followed \cup (IF path \in Links THEN {LinkTarget(path)} ELSE {})
    PROVE  StackTypes' /\ StackInv'
<1>0. PICK n : n = Len(frames)
  OBVIOUS
<1>1. /\ n \in Nat \ {0} /\ DOMAIN frames = 1 .. n
      /\ Len(frames') = n + 1 /\ DOMAIN frames' = 1 .. n + 1
  BY <1>0, Appending, Leaving DEF StackTypes
<1>2. n + 1 \notin 1 .. n /\ 1 .. n + 1 = 1 .. n \cup {n + 1} /\ 2 .. n + 1 = 2 .. n \cup {n + 1}
  BY <1>1
<1>3. StackTypes'
  <2>1. \A i \in 1 .. n + 1 : IsSequence(frames'[i].dir) /\ IsSequence(frames'[i].real)
    BY <1>1, <1>2 DEF StackTypes
  <2> QED
    BY <1>1, <2>1 DEF StackTypes
<1>4. \A i \in 2 .. n : Crossing(i)' = Crossing(i)
  <2> SUFFICES ASSUME NEW i \in 2 .. n PROVE Crossing(i)' = Crossing(i)
    OBVIOUS
  <2>1. i \in DOMAIN frames /\ i - 1 \in DOMAIN frames
    BY <1>1
  <2>2. frames'[i - 1].real = frames[i - 1].real /\ frames'[i].dir = frames[i].dir
    BY <2>1
  <2> QED
    BY <2>2 DEF Crossing
<1>5. Crossing(n + 1)' = path
  <2>1. (n + 1) - 1 = n /\ n \in DOMAIN frames /\ Last(frames) = frames[n]
    BY <1>0, <1>1 DEF Last
  <2>2. frames'[n].real = frames[n].real /\ frames'[n + 1] = new
    BY <1>1, <2>1
  <2> QED
    BY <2>1, <2>2 DEF Crossing
<1>6. Links' = Links /\ \A p : LinkTarget(p)' = LinkTarget(p)
  BY DEF Links, LinkTarget
<1>7. Crossings' = Crossings \cup (IF path \in Links THEN {n + 1} ELSE {})
  <2>1. Crossings' = {i \in 2 .. n + 1 : Crossing(i)' \in Links}
    BY <1>1, <1>6 DEF Crossings
  <2>2. Crossings = {i \in 2 .. n : Crossing(i) \in Links}
    BY <1>0 DEF Crossings
  <2> QED
    BY <1>2, <1>4, <1>5, <2>1, <2>2
<1>8. Crossings \subseteq 2 .. n /\ \A i \in 2 .. n : frames'[i].real = frames[i].real /\ i \in DOMAIN frames
  BY <1>0, <1>1 DEF Crossings
<1>9. frames'[n + 1] = new /\ n + 1 \notin Crossings
  BY <1>1, <1>2, <1>8
<1>10. \A i \in 2 .. Len(frames') : frames'[i].real = LinkTarget(Crossing(i))'
  <2>1. \A i \in 2 .. n : frames'[i].real = LinkTarget(Crossing(i))'
    BY <1>0, <1>4, <1>6, <1>8 DEF StackInv, LinkTarget
  <2>2. frames'[n + 1].real = LinkTarget(Crossing(n + 1))'
    BY <1>5, <1>6, <1>9 DEF LinkTarget
  <2> QED
    BY <1>1, <1>2, <2>1, <2>2
<1>11. /\ \A i \in Crossings' : frames'[i].real \in followed'
       /\ \A i, j \in Crossings' : frames'[i].real = frames'[j].real => i = j
  <2>1. CASE path \in Links
    BY <1>7, <1>8, <1>9, <2>1 DEF StackInv
  <2>2. CASE path \notin Links
    BY <1>7, <1>8, <2>2 DEF StackInv
  <2> QED
    BY <2>1, <2>2
<1>12. ASSUME NEW i \in DOMAIN frames', NEW j \in DOMAIN frames', i < j,
              (i + 1 .. j) \cap Crossings' = {}
       PROVE  Len(frames'[i].real) < Len(frames'[j].real)
  <2>1. i \in DOMAIN frames /\ Crossings \subseteq Crossings'
    BY <1>1, <1>7, <1>12
  <2>2. \A k \in DOMAIN frames : Len(frames[k].real) \in Nat
    BY Appending DEF StackTypes
  <2>3. CASE j \in DOMAIN frames
    BY <1>12, <2>1, <2>3 DEF StackInv
  <2>4. CASE j = n + 1
    <3>1. path \notin Links
      <4>1. n + 1 \in i + 1 .. j
        BY <1>1, <1>12, <2>4
      <4> QED
        BY <1>7, <1>12, <4>1
    <3>2. Len(frames'[j].real) = Len(frames[n].real) + 1
      BY <1>0, <1>9, <2>4, <3>1 DEF Last
    <3>3. CASE i = n
      BY <1>1, <2>1, <2>2, <3>2, <3>3
    <3>4. CASE i # n
      <4>1. i < n /\ n \in DOMAIN frames
        BY <1>1, <1>12, <2>4, <3>4
      <4>2. (i + 1 .. n) \cap Crossings = {}
        BY <1>1, <1>12, <2>1, <2>4
      <4>3. Len(frames[i].real) < Len(frames[n].real)
        BY <2>1, <4>1, <4>2 DEF StackInv
      <4>4. frames'[i].real = frames[i].real
        BY <2>1
      <4> QED
        BY <2>1, <2>2, <3>2, <4>1, <4>3, <4>4
    <3> QED
      BY <3>3, <3>4
  <2> QED
    BY <1>1, <1>2, <2>3, <2>4
<1> QED
  BY <1>3, <1>10, <1>11, <1>12 DEF StackInv

LEMMA Typed ==
    ASSUME tree \in Trees
    PROVE  /\ IsSequence(Root)
           /\ \A p : IsSequence(p) => IsSequence(LinkTarget(p))
           /\ \A p : p \notin Links => LinkTarget(p) = p
           /\ IsFiniteSet(Links)
<1>1. IsSequence(Root)
  <2>1. IsSequence(Project)
    BY TreesAreFinite DEF IsSequence
  <2>2. \A n : IsSequence(Append(Project, n))
    BY <2>1, Appending
  <2> QED
    BY <2>2 DEF Root, FaveOrAlt
<1>2. \A p \in Links : IsSequence(tree.links[p])
  BY TreesAreFinite DEF Links, IsSequence
<1> QED
  BY <1>1, <1>2, TreesAreFinite DEF Links, LinkTarget

LEMMA StackStarts == SearchInit => StackTypes /\ StackInv
<1> SUFFICES ASSUME SearchInit PROVE StackTypes /\ StackInv
  OBVIOUS
<1>1. tree \in Trees /\ frames = <<>> /\ Len(frames) = 0
  BY DEF SearchInit
<1>2. DOMAIN frames = {} /\ 2 .. Len(frames) = {}
  BY <1>1
<1>3. IsSequence(frames)
  BY <1>1 DEF IsSequence
<1> QED
  BY <1>1, <1>2, <1>3 DEF StackTypes, StackInv, Crossings

(* The frame on top is replaced by one of the same place. *)
LEMMA TopReplaced ==
    ASSUME StackTypes, StackInv, frames # <<>>, tree' = tree, followed \subseteq followed',
           NEW fr, frames' = Append(Front(frames), fr),
           FrameFields \subseteq DOMAIN fr, fr.dir = Top.dir, fr.real = Top.real
    PROVE  StackTypes' /\ StackInv'
<1>1. PICK n : n = Len(frames)
  OBVIOUS
<1>2. /\ n \in Nat \ {0} /\ DOMAIN frames = 1 .. n
      /\ IsSequence(Front(frames)) /\ Len(Front(frames)) = n - 1
      /\ \A i \in 1 .. n - 1 : Front(frames)[i] = frames[i]
  BY <1>1, Leaving DEF StackTypes
<1>3. /\ IsSequence(frames') /\ Len(frames') = n /\ DOMAIN frames' = 1 .. n
      /\ \A i \in 1 .. n - 1 : frames'[i] = frames[i]
      /\ frames'[n] = fr
  <2>1. /\ IsSequence(frames') /\ Len(frames') = (n - 1) + 1
        /\ \A i \in 1 .. n - 1 : frames'[i] = Front(frames)[i]
        /\ frames'[(n - 1) + 1] = fr
    BY <1>2, Appending
  <2>2. (n - 1) + 1 = n
    BY <1>2
  <2>3. DOMAIN frames' = 1 .. Len(frames')
    BY <2>1, Appending
  <2> QED
    BY <1>2, <2>1, <2>2, <2>3
<1>4. Top = frames[n]
  BY <1>1 DEF Top, Last
<1>5. ASSUME NEW i \in DOMAIN frames'
      PROVE  /\ FrameFields \subseteq DOMAIN frames'[i]
             /\ frames'[i].dir = frames[i].dir /\ frames'[i].real = frames[i].real
  <2>1. CASE i = n
    BY <1>3, <1>4, <2>1
  <2>2. CASE i # n
    <3>1. i \in 1 .. n - 1 /\ i \in DOMAIN frames
      BY <1>2, <1>3, <2>2
    <3> QED
      BY <1>3, <3>1 DEF StackTypes
  <2> QED
    BY <2>1, <2>2
<1>6. Len(frames') <= Len(frames)
  BY <1>1, <1>2, <1>3
<1> QED
  BY <1>3, <1>5, <1>6, StackShrinks

(* A call returns. *)
LEMMA TopLeft ==
    ASSUME StackTypes, StackInv, frames # <<>>, tree' = tree, followed \subseteq followed',
           frames' = Front(frames)
    PROVE  StackTypes' /\ StackInv'
<1>1. PICK n : n = Len(frames)
  OBVIOUS
<1>2. /\ n \in Nat \ {0} /\ DOMAIN frames = 1 .. n
      /\ IsSequence(frames') /\ Len(frames') = n - 1
      /\ \A i \in 1 .. n - 1 : frames'[i] = frames[i]
  BY <1>1, Leaving DEF StackTypes
<1>3. DOMAIN frames' = 1 .. n - 1 /\ DOMAIN frames' \subseteq DOMAIN frames
  BY <1>2, Appending
<1>4. \A i \in DOMAIN frames' :
          /\ FrameFields \subseteq DOMAIN frames'[i]
          /\ frames'[i].dir = frames[i].dir /\ frames'[i].real = frames[i].real
  BY <1>2, <1>3 DEF StackTypes
<1>5. Len(frames') <= Len(frames)
  BY <1>1, <1>2
<1> QED
  BY <1>2, <1>4, <1>5, StackShrinks

LEMMA NoStack ==
    ASSUME StackTypes, StackInv, tree' = tree, followed \subseteq followed', frames' = <<>>
    PROVE  StackTypes' /\ StackInv'
<1>1. Len(frames) \in Nat
  BY Appending DEF StackTypes
<1>2. DOMAIN frames' = {} /\ Len(frames') = 0 /\ IsSequence(frames')
  BY DEF IsSequence
<1> QED
  BY <1>1, <1>2, StackShrinks

LEMMA RestParts ==
    ASSUME StackTypes, frames # <<>>
    PROVE  /\ Top.real = frames[Len(frames)].real /\ IsSequence(Top.real)
           /\ Top.dir = frames[Len(frames)].dir /\ IsSequence(Top.dir)
           /\ FrameFields \subseteq DOMAIN Top
           /\ FrameFields \subseteq DOMAIN Rest /\ Rest.dir = Top.dir /\ Rest.real = Top.real
           /\ \A c : LET r == [Rest EXCEPT !.candidate = c]
                     IN  FrameFields \subseteq DOMAIN r /\ r.dir = Top.dir /\ r.real = Top.real
<1>1. Len(frames) \in DOMAIN frames
  BY Leaving DEF StackTypes
<1>2. FrameFields \subseteq DOMAIN Top /\ IsSequence(Top.real) /\ IsSequence(Top.dir)
  BY <1>1 DEF StackTypes, Top, Last
<1>3. FrameFields \subseteq DOMAIN Rest /\ Rest.dir = Top.dir /\ Rest.real = Top.real
  BY <1>2 DEF Rest, FrameFields
<1>4. \A c : LET r == [Rest EXCEPT !.candidate = c]
             IN  FrameFields \subseteq DOMAIN r /\ r.dir = Rest.dir /\ r.real = Rest.real
  BY <1>3 DEF FrameFields
<1> QED
  BY <1>2, <1>3, <1>4 DEF Top, Last

LEMMA StackStep == StackTypes /\ StackInv /\ [SearchNext]_searchVars => StackTypes' /\ StackInv'
<1> SUFFICES ASSUME StackTypes, StackInv, [SearchNext]_searchVars PROVE StackTypes' /\ StackInv'
  OBVIOUS
<1>1. CASE UNCHANGED searchVars
  <2>1. frames' = frames /\ tree' = tree /\ followed' = followed
    BY <1>1 DEF searchVars
  <2>2. Len(frames) \in Nat
    BY Appending DEF StackTypes
  <2>3. IsSequence(frames') /\ Len(frames') <= Len(frames)
    BY <2>1, <2>2 DEF StackTypes
  <2>4. \A i \in DOMAIN frames' :
            /\ FrameFields \subseteq DOMAIN frames'[i]
            /\ frames'[i].dir = frames[i].dir /\ frames'[i].real = frames[i].real
    BY <2>1 DEF StackTypes
  <2> QED
    BY <2>1, <2>3, <2>4, StackShrinks
<1>2. CASE OpenLibrary
  <2> DEFINE dir == Append(Root, Head(libs))
             fr == Frame(dir, LinkTarget(dir), dir, 0)
  <2>1. /\ tree' = tree /\ followed' = followed /\ frames' = <<fr>>
        /\ tree \in Trees
    BY <1>2 DEF OpenLibrary, StackTypes
  <2>2. IsSequence(dir) /\ IsSequence(LinkTarget(dir))
    BY <2>1, Typed, Appending
  <2>3. FrameFields \subseteq DOMAIN fr /\ fr.dir = dir /\ fr.real = LinkTarget(dir)
    BY DEF Frame, FrameFields
  <2> HIDE DEF fr, dir
  <2>4. Len(frames') = 1 /\ DOMAIN frames' = {1} /\ frames'[1] = fr /\ 2 .. 1 = {}
    BY <2>1
  <2>5. IsSequence(frames')
    <3>1. <<fr>> \in Seq({fr})
      OBVIOUS
    <3>2. ToSet(<<fr>>) = {fr}
      BY DEF ToSet
    <3> QED
      BY <2>1, <3>1, <3>2 DEF IsSequence
  <2>6. StackTypes'
    BY <2>1, <2>2, <2>3, <2>4, <2>5 DEF StackTypes
  <2>7. Crossings' = {} /\ 2 .. Len(frames') = {}
    BY <2>4 DEF Crossings
  <2>8. \A i, j \in DOMAIN frames' : ~(i < j)
    BY <2>4
  <2> QED
    BY <2>6, <2>7, <2>8 DEF StackInv
<1>3. CASE ReadFile
  <2>1. /\ frames # <<>> /\ tree' = tree /\ followed' = followed
        /\ frames' = Append(Front(frames),
                            [Rest EXCEPT !.candidate = @ \/ Head(Top.rest) \in SolFiles])
    BY <1>3 DEF ReadFile, Reading
  <2> QED
    BY <2>1, RestParts, TopReplaced
<1>4. CASE AvoidLink
  <2>1. /\ frames # <<>> /\ tree' = tree /\ followed \subseteq followed'
        /\ frames' = Front(frames)
    BY <1>4 DEF AvoidLink, Reading, Seen
  <2> QED
    BY <2>1, TopLeft
<1>5. CASE SkipDirectory
  <2>1. /\ frames # <<>> /\ tree' = tree /\ followed \subseteq followed'
        /\ frames' = Append(Front(frames), Rest)
    BY <1>5 DEF SkipDirectory, Reading, Seen
  <2> QED
    BY <2>1, RestParts, TopReplaced
<1>6. CASE Descend
  <2> DEFINE fr == IF IsLib(Entry)
                   THEN Frame(Entry, LinkTarget(RealEntry), Entry, Top.level + 1)
                   ELSE Frame(Entry, LinkTarget(RealEntry), Top.open, Top.level)
  <2>1. /\ frames # <<>> /\ tree' = tree /\ tree \in Trees
        /\ frames' = Front(frames) \o <<Rest, fr>>
        /\ ~Avoided
        /\ followed' = followed \cup (IF RealEntry \in Links THEN {LinkTarget(RealEntry)} ELSE {})
    BY <1>6 DEF Descend, Reading, Seen, StackTypes
  <2>2. /\ IsSequence(Entry) /\ Last(Entry) = Head(Top.rest)
        /\ IsSequence(RealEntry) /\ Len(RealEntry) = Len(Top.real) + 1
    BY <2>1, RestParts, Appending DEF Entry, RealEntry
  <2>3. /\ IsSequence(LinkTarget(RealEntry))
        /\ RealEntry \notin Links => LinkTarget(RealEntry) = RealEntry
        /\ RealEntry \in Links => LinkTarget(RealEntry) \notin followed
    BY <2>1, <2>2, Typed DEF Avoided
  <2>4. FrameFields \subseteq DOMAIN fr /\ fr.dir = Entry /\ fr.real = LinkTarget(RealEntry)
    BY DEF Frame, FrameFields
  <2> HIDE DEF fr
  <2>5. PICK n : n = Len(frames)
    OBVIOUS
  <2>6. /\ n \in Nat \ {0} /\ DOMAIN frames = 1 .. n
        /\ IsSequence(frames') /\ Len(frames') = n + 1 /\ DOMAIN frames' = 1 .. n + 1
        /\ \A i \in 1 .. n - 1 : frames'[i] = frames[i]
        /\ frames'[n] = Rest
        /\ frames'[n + 1] = fr
    <3>1. /\ n \in Nat \ {0} /\ DOMAIN frames = 1 .. n
          /\ IsSequence(Front(frames)) /\ Len(Front(frames)) = n - 1
          /\ \A i \in 1 .. n - 1 : Front(frames)[i] = frames[i]
      BY <2>1, <2>5, Leaving DEF StackTypes
    <3>2. frames' = Append(Append(Front(frames), Rest), fr)
      <4> DEFINE S == ToSet(Front(frames)) \cup {Rest, fr}
      <4>1. Front(frames) \in Seq(S) /\ Rest \in S /\ fr \in S
        BY <3>1 DEF IsSequence
      <4> HIDE DEF S
      <4>2. /\ <<Rest>> \in Seq(S) /\ <<fr>> \in Seq(S)
            /\ <<Rest, fr>> = <<Rest>> \o <<fr>>
        BY <4>1
      <4>3. Front(frames) \o <<Rest, fr>> = (Front(frames) \o <<Rest>>) \o <<fr>>
        BY <4>1, <4>2, ConcatAssociative
      <4>4. Append(Front(frames), Rest) \in Seq(S) /\ Append(Front(frames), Rest) = Front(frames) \o <<Rest>>
        BY <4>1, AppendIsConcat
      <4>5. Append(Append(Front(frames), Rest), fr) = Append(Front(frames), Rest) \o <<fr>>
        BY <4>1, <4>4, AppendIsConcat
      <4> QED
        BY <2>1, <4>3, <4>4, <4>5
    <3>3. (n - 1) + 1 = n
      BY <3>1
    <3>4. PICK t : t = Append(Front(frames), Rest)
      OBVIOUS
    <3>5. /\ IsSequence(t) /\ Len(t) = n /\ t[n] = Rest
          /\ \A i \in 1 .. n - 1 : t[i] = Front(frames)[i]
      BY <3>1, <3>3, <3>4, Appending
    <3>6. /\ IsSequence(frames') /\ Len(frames') = n + 1 /\ frames'[n + 1] = fr
          /\ \A i \in 1 .. n : frames'[i] = t[i]
      BY <3>2, <3>4, <3>5, Appending
    <3>7. n \in 1 .. n /\ 1 .. n - 1 \subseteq 1 .. n
      BY <3>1
    <3>8. DOMAIN frames' = 1 .. Len(frames')
      BY <3>6, Appending
    <3> QED
      BY <3>1, <3>5, <3>6, <3>7, <3>8
  <2>7. ASSUME NEW i \in DOMAIN frames
        PROVE  /\ FrameFields \subseteq DOMAIN frames'[i]
               /\ frames'[i].dir = frames[i].dir /\ frames'[i].real = frames[i].real
    <3>1. CASE i = n
      BY <2>1, <2>5, <2>6, <3>1, RestParts
    <3>2. CASE i # n
      <4>1. i \in 1 .. n - 1
        BY <2>6, <3>2
      <4> QED
        BY <2>6, <4>1 DEF StackTypes
    <3> QED
      BY <3>1, <3>2
  <2>8. \A i \in DOMAIN frames' : FrameFields \subseteq DOMAIN frames'[i]
    <3>1. 1 .. n + 1 = 1 .. n \cup {n + 1}
      BY <2>6
    <3> QED
      BY <2>4, <2>6, <2>7, <3>1
  <2>9. RealEntry = Append(Last(frames).real, Last(fr.dir)) /\ Last(frames).real = Top.real
    BY <2>2, <2>4 DEF RealEntry, Top
  <2>10. fr = frames'[Len(frames')] /\ Len(frames') = Len(frames) + 1
    BY <2>5, <2>6
  <2>11. PICK path : path = RealEntry
    OBVIOUS
  <2>12. PICK new : new = fr
    OBVIOUS
  <2>13. /\ new = frames'[Len(frames')] /\ IsSequence(new.dir)
         /\ path = Append(Last(frames).real, Last(new.dir))
         /\ new.real = LinkTarget(path) /\ IsSequence(LinkTarget(path))
    BY <2>2, <2>3, <2>4, <2>9, <2>10, <2>11, <2>12
  <2>14. /\ path \notin Links => Len(LinkTarget(path)) = Len(Last(frames).real) + 1
         /\ path \in Links => LinkTarget(path) \notin followed
         /\ followed' = followed \cup (IF path \in Links THEN {LinkTarget(path)} ELSE {})
    BY <2>1, <2>2, <2>3, <2>9, <2>11
  <2> QED
    BY <2>1, <2>6, <2>7, <2>8, <2>10, <2>13, <2>14, StackGrows
<1>7. CASE Return
  <2> DEFINE caller == frames[Len(frames) - 1]
             fr == [caller EXCEPT !.found = @ \o Candidates(Top)]
  <2>1. /\ Len(frames) > 1 /\ tree' = tree /\ followed' = followed
        /\ frames' = Append(Front(Front(frames)), fr)
    BY <1>7 DEF Return
  <2>2. PICK n : n = Len(frames)
    OBVIOUS
  <2>3. /\ n \in Nat /\ n > 1 /\ frames # <<>> /\ DOMAIN frames = 1 .. n
        /\ IsSequence(Front(frames)) /\ Len(Front(frames)) = n - 1
        /\ \A i \in 1 .. n - 1 : Front(frames)[i] = frames[i]
    <3>1. n \in Nat /\ n > 1 /\ frames # <<>>
      BY <2>1, <2>2, Appending DEF StackTypes
    <3> QED
      BY <2>2, <3>1, Leaving DEF StackTypes
  <2>4. Front(frames) # <<>>
    BY <2>3
  <2>5. /\ IsSequence(Front(Front(frames))) /\ Len(Front(Front(frames))) = n - 2
        /\ \A i \in 1 .. n - 2 : Front(Front(frames))[i] = Front(frames)[i]
    <3>1. PICK s : s = Front(frames)
      OBVIOUS
    <3>2. /\ IsSequence(Front(s)) /\ Len(Front(s)) = Len(s) - 1
          /\ \A i \in 1 .. Len(s) - 1 : Front(s)[i] = s[i]
      BY <2>3, <2>4, <3>1, Leaving
    <3>3. Len(s) - 1 = n - 2
      BY <2>3, <3>1
    <3> QED
      BY <3>1, <3>2, <3>3
  <2>6. FrameFields \subseteq DOMAIN fr /\ fr.dir = frames[n - 1].dir /\ fr.real = frames[n - 1].real
    <3>1. n - 1 \in DOMAIN frames
      BY <2>3
    <3>2. FrameFields \subseteq DOMAIN frames[n - 1]
      BY <3>1 DEF StackTypes
    <3> QED
      BY <2>2, <3>2 DEF FrameFields
  <2> HIDE DEF fr
  <2>7. /\ IsSequence(frames') /\ Len(frames') = n - 1 /\ frames'[n - 1] = fr
        /\ \A i \in 1 .. n - 2 : frames'[i] = frames[i]
    <3>1. PICK s : s = Front(Front(frames))
      OBVIOUS
    <3>2. /\ IsSequence(frames') /\ Len(frames') = Len(s) + 1 /\ frames'[Len(s) + 1] = fr
          /\ \A i \in 1 .. Len(s) : frames'[i] = s[i]
      BY <2>1, <2>5, <3>1, Appending
    <3>3. Len(s) = n - 2 /\ (n - 2) + 1 = n - 1
      BY <2>3, <2>5, <3>1
    <3>4. \A i \in 1 .. n - 2 : i \in 1 .. n - 1
      BY <2>3
    <3> QED
      BY <2>3, <2>5, <3>1, <3>2, <3>3, <3>4
  <2>8. DOMAIN frames' = 1 .. n - 1
    BY <2>7, Appending
  <2>9. ASSUME NEW i \in DOMAIN frames'
        PROVE  /\ FrameFields \subseteq DOMAIN frames'[i]
               /\ frames'[i].dir = frames[i].dir /\ frames'[i].real = frames[i].real
    <3>1. CASE i = n - 1
      BY <2>6, <2>7, <3>1
    <3>2. CASE i # n - 1
      <4>1. i \in 1 .. n - 2 /\ i \in DOMAIN frames
        BY <2>3, <2>8, <3>2
      <4> QED
        BY <2>7, <4>1 DEF StackTypes
    <3> QED
      BY <3>1, <3>2
  <2>10. Len(frames') <= Len(frames)
    BY <2>2, <2>3, <2>7
  <2> QED
    BY <2>1, <2>7, <2>9, <2>10, StackShrinks
<1>8. CASE FinishLibrary
  <2>1. tree' = tree /\ followed' = followed /\ frames' = <<>>
    BY <1>8 DEF FinishLibrary
  <2> QED
    BY <2>1, NoStack
<1> QED
  BY <1>1, <1>2, <1>3, <1>4, <1>5, <1>6, <1>7, <1>8 DEF SearchNext

(* Frames in the same place are told apart by how many links lead up to them.  *)
LEMMA PlacesAreCounted == StackTypes /\ StackInv => NoEndlessWalk
<1> SUFFICES ASSUME StackTypes, StackInv, NEW d
             PROVE  Cardinality({i \in DOMAIN frames : frames[i].real = d}) <= 1 + Cardinality(Links)
  BY DEF NoEndlessWalk
<1> DEFINE D == {i \in DOMAIN frames : frames[i].real = d}
           Upto(i) == Crossings \cap 1 .. i
           m == Cardinality(Crossings)
           count == [i \in D |-> Cardinality(Upto(i))]
<1>1. /\ Len(frames) \in Nat /\ DOMAIN frames = 1 .. Len(frames)
      /\ \A i \in DOMAIN frames : Len(frames[i].real) \in Nat
  BY Appending DEF StackTypes
<1>2. IsFiniteSet(Links) /\ Cardinality(Links) \in Nat
  BY Typed, FS_CardinalityType DEF StackTypes
<1>3. IsFiniteSet(Crossings) /\ m \in Nat /\ m <= Cardinality(Links)
  <2>1. IsFiniteSet(Crossings) /\ m \in Nat
    <3>1. IsFiniteSet(2 .. Len(frames))
      BY <1>1, FS_Interval
    <3> QED
      BY <3>1, FS_Subset, FS_CardinalityType DEF Crossings
  <2> DEFINE enter == [i \in Crossings |-> Crossing(i)]
  <2>2. \A i, j \in Crossings : Crossing(i) = Crossing(j) => i = j
    <3>1. \A i \in Crossings : frames[i].real = LinkTarget(Crossing(i))
      BY DEF StackInv, Crossings
    <3> QED
      BY <3>1 DEF StackInv
  <2>3. \A i \in Crossings : Crossing(i) \in Links
    BY DEF Crossings
  <2>4. enter \in Injection(Crossings, Links)
    BY <2>2, <2>3 DEF Injection, IsInjective
  <2> QED
    BY <1>2, <2>1, <2>4, FS_Injection
<1>4. \A i \in D : IsFiniteSet(Upto(i)) /\ Cardinality(Upto(i)) \in 0 .. m
  <2> SUFFICES ASSUME NEW i \in D PROVE IsFiniteSet(Upto(i)) /\ Cardinality(Upto(i)) \in 0 .. m
    OBVIOUS
  <2>1. Upto(i) \in SUBSET Crossings
    OBVIOUS
  <2>2. /\ IsFiniteSet(Upto(i)) /\ Cardinality(Upto(i)) \in Nat
        /\ Cardinality(Upto(i)) <= m
    BY <1>3, <2>1, FS_Subset, FS_CardinalityType
  <2> HIDE DEF Upto, m
  <2> QED
    BY <1>3, <2>2
<1>5. ASSUME NEW i \in D, NEW j \in D, i < j
      PROVE  Cardinality(Upto(i)) # Cardinality(Upto(j))
  <2>1. PICK k \in i + 1 .. j : k \in Crossings
    <3>1. i \in DOMAIN frames /\ j \in DOMAIN frames /\ frames[i].real = frames[j].real
      OBVIOUS
    <3>2. ~(Len(frames[i].real) < Len(frames[j].real))
      BY <1>1, <3>1
    <3>3. (i + 1 .. j) \cap Crossings # {}
      BY <1>5, <3>1, <3>2 DEF StackInv
    <3> QED
      BY <3>3
  <2>2. i \in Nat /\ j \in Nat
    BY <1>1
  <2>3. Upto(i) \in SUBSET Upto(j)
    BY <1>5, <2>2
  <2>4. k \in Upto(j) /\ k \notin Upto(i)
    BY <2>1, <2>2
  <2> HIDE DEF Upto
  <2> QED
    BY <1>4, <2>3, <2>4, FS_Subset
<1>6. \A i, j \in D : Cardinality(Upto(i)) = Cardinality(Upto(j)) => i = j
  <2> SUFFICES ASSUME NEW i \in D, NEW j \in D, i # j
               PROVE  Cardinality(Upto(i)) # Cardinality(Upto(j))
    OBVIOUS
  <2>1. i < j \/ j < i
    BY <1>1
  <2> QED
    BY <1>5, <2>1
<1>7. count \in Injection(D, 0 .. m)
  <2> HIDE DEF D, Upto, m
  <2> QED
    BY <1>4, <1>6 DEF Injection, IsInjective
<1>8. IsFiniteSet(0 .. m) /\ Cardinality(0 .. m) = m + 1
  <2> HIDE DEF m
  <2> QED
    BY <1>3, FS_Interval
<1>9. IsFiniteSet(D) /\ Cardinality(D) <= m + 1 /\ Cardinality(D) \in Nat
  <2> HIDE DEF D, m, count
  <2> QED
    BY <1>7, <1>8, FS_Injection, FS_CardinalityType
<1> HIDE DEF D, m
<1>10. Cardinality(D) <= 1 + Cardinality(Links)
  BY <1>2, <1>3, <1>9
<1> QED
  BY <1>10 DEF D

(* However directories link to each other, the search for remappings is in none *)
(* of them more often than there are links, and once besides.                   *)
THEOREM SearchesAreBounded == PathsSpec => []NoEndlessWalk
<1>1. PathsInit => StackTypes /\ StackInv
  BY StackStarts DEF PathsInit
<1>2. StackTypes /\ StackInv /\ [PathsNext]_<<searchVars, pathVars>> => StackTypes' /\ StackInv'
  <2>1. [PathsNext]_<<searchVars, pathVars>> => [SearchNext]_searchVars
    BY DEF PathsNext, Search, Reload, ResolveImport
  <2> QED
    BY <2>1, StackStep
<1> QED
  BY <1>1, <1>2, PlacesAreCounted, PTL DEF PathsSpec
=============================================================================
