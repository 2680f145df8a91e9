----------------------------- MODULE ImportGraph -----------------------------
(***************************************************************************)
(* The construction of the import graph (Graph::resolve_sources) and the   *)
(* walk over it (NodesIter).                                               *)
(*                                                                         *)
(* Files are taken from a queue, their imports resolved one by one.  A     *)
(* file gets its index when it is first seen and its place in `nodes` when *)
(* it leaves the queue: nothing but the order of the queue makes the two   *)
(* agree.  Indices count from 1 here, from 0 in the code.                  *)
(***************************************************************************)
EXTENDS Naturals, Sequences, FiniteSets

CONSTANTS
    Files,        \* paths of source files
    Absent,       \* import paths that resolve to no file
    InputLists,   \* the input files of a project, in order
    ImportLists   \* ImportLists[f]: what the imports of f may be, in order

ASSUME InputsAreFiles ==
    \A s \in InputLists :
        /\ s \in Seq(Files)
        /\ \A i, j \in DOMAIN s : s[i] = s[j] => i = j

ASSUME ImportsAreTargets ==
    /\ DOMAIN ImportLists = Files
    /\ \A f \in Files : ImportLists[f] \subseteq Seq(Files \cup Absent)
    /\ Files \cap Absent = {}

VARIABLES
    inputs,       \* the files given to resolve_sources
    imports,      \* Files -> the targets of its import statements
    readable,     \* the files that can be read and parsed
    phase,        \* "next", "imports", "linked", "walking" or "failed"
    queue,        \* `unresolved`: files whose imports are still to be resolved
    index,        \* the index of each file seen
    nodes,        \* files in the order they left the queue
    edges,        \* edges[i]: indices of the imports of nodes[i]
    revEdges,     \* revEdges[i]: indices of the files that import nodes[i]
    unresolved,   \* `unresolved_imports`: <<import, file>>
    cur,          \* the file whose imports are being resolved
    links,        \* its `resolved_imports`
    pos,          \* the import statement resolved next
    stack,        \* NodesIter: nodes to visit
    visited,      \* NodesIter: nodes whose imports were pushed
    yielded       \* what the iterator has returned

sources == <<inputs, imports, readable>>
walk == <<stack, visited, yielded>>
graph == <<index, nodes, edges, revEdges, unresolved>>
vars == <<sources, phase, queue, graph, cur, links, pos, walk>>

Elems(s) == {s[i] : i \in DOMAIN s}

Init ==
    /\ inputs \in InputLists
    /\ imports \in [Files -> UNION {ImportLists[f] : f \in Files}]
    /\ \A f \in Files : imports[f] \in ImportLists[f]
    /\ readable \in SUBSET Files
    /\ Elems(inputs) \subseteq readable
    /\ phase = "next"
    /\ queue = inputs
    /\ index = [f \in Elems(inputs) |-> CHOOSE i \in DOMAIN inputs : inputs[i] = f]
    /\ nodes = <<>>
    /\ edges = <<>>
    /\ revEdges = <<>>
    /\ unresolved = {}
    /\ cur \in Elems(inputs)
    /\ links = <<>>
    /\ pos = 1
    /\ stack = <<>>
    /\ visited = {}
    /\ yielded = <<>>

-----------------------------------------------------------------------------
(* A file has a directory, to which its relative imports are relative: the     *)
(* branch for a path without one is never taken.                               *)
PopNode ==
    /\ phase = "next"
    /\ queue # <<>>
    /\ cur' = Head(queue)
    /\ queue' = Tail(queue)
    /\ links' = <<>>
    /\ pos' = 1
    /\ phase' = "imports"
    /\ UNCHANGED <<sources, graph, walk>>

Importing == phase = "imports" /\ pos \in DOMAIN imports[cur]
Target == imports[cur][pos]

(* The import path resolves to no file: noted, without an edge. *)
ImportUnresolved ==
    /\ Importing
    /\ Target \in Absent
    /\ unresolved' = unresolved \cup {<<Target, cur>>}
    /\ pos' = pos + 1
    /\ UNCHANGED <<sources, phase, queue, index, nodes, edges, revEdges, cur, links, walk>>

ImportKnown ==
    /\ Importing
    /\ Target \in DOMAIN index
    /\ links' = Append(links, index[Target])
    /\ pos' = pos + 1
    /\ UNCHANGED <<sources, phase, queue, graph, cur, walk>>

(* Mutant: a new file is looked at before those that wait. *)
ImportNewFirst ==
    /\ Importing
    /\ Target \in readable \ DOMAIN index
    /\ LET i == Cardinality(DOMAIN index) + 1
       IN  /\ index' = [f \in DOMAIN index \cup {Target} |->
                          IF f = Target THEN i ELSE index[f]]
           /\ links' = Append(links, i)
    /\ queue' = <<Target>> \o queue
    /\ pos' = pos + 1
    /\ UNCHANGED <<sources, phase, nodes, edges, revEdges, unresolved, cur, walk>>

(* add_node of a file not seen before, which can be read. *)
ImportNew ==
    /\ Importing
    /\ Target \in readable \ DOMAIN index
    /\ LET i == Cardinality(DOMAIN index) + 1
       IN  /\ index' = [f \in DOMAIN index \cup {Target} |->
                          IF f = Target THEN i ELSE index[f]]
           /\ links' = Append(links, i)
    /\ queue' = Append(queue, Target)
    /\ pos' = pos + 1
    /\ UNCHANGED <<sources, phase, nodes, edges, revEdges, unresolved, cur, walk>>

(* Node::read fails: a remapped import names a file that is not there. *)
ReadFails ==
    /\ Importing
    /\ Target \in Files \ (readable \cup DOMAIN index)
    /\ phase' = "failed"
    /\ UNCHANGED <<sources, queue, graph, cur, links, pos, walk>>

PushNode ==
    /\ phase = "imports"
    /\ pos \notin DOMAIN imports[cur]
    /\ nodes' = Append(nodes, cur)
    /\ edges' = Append(edges, links)
    /\ phase' = "next"
    /\ UNCHANGED <<sources, queue, index, revEdges, unresolved, cur, links, pos, walk>>

(* Mutant: edges are turned round from the input files only. *)
LinkInputs ==
    /\ phase = "next"
    /\ queue = <<>>
    /\ revEdges' = [i \in DOMAIN nodes |-> {j \in DOMAIN inputs : i \in Elems(edges[j])}]
    /\ phase' = "linked"
    /\ UNCHANGED <<sources, queue, index, nodes, edges, unresolved, cur, links, pos, walk>>

(* `rev_edges` is built when all files are there; the graph is complete. *)
Link ==
    /\ phase = "next"
    /\ queue = <<>>
    /\ revEdges' = [i \in DOMAIN nodes |-> {j \in DOMAIN nodes : i \in Elems(edges[j])}]
    /\ phase' = "linked"
    /\ UNCHANGED <<sources, queue, index, nodes, edges, unresolved, cur, links, pos, walk>>

-----------------------------------------------------------------------------
(* NodesIter::new *)
StartWalk(i) ==
    /\ phase = "linked"
    /\ stack' = <<i>>
    /\ visited' = {}
    /\ yielded' = <<>>
    /\ phase' = "walking"
    /\ UNCHANGED <<sources, queue, graph, cur, links, pos>>

(* Mutant: imports are pushed whether they were visited or not. *)
WalkNodeAgain ==
    /\ phase = "walking"
    /\ stack # <<>>
    /\ stack' = Tail(stack) \o edges[Head(stack)]
    /\ visited' = visited \cup {Head(stack)}
    /\ yielded' = IF Head(stack) \in visited THEN yielded ELSE Append(yielded, Head(stack))
    /\ UNCHANGED <<sources, phase, queue, graph, cur, links, pos>>

(* NodesIter::next: a node seen before is returned again, not expanded. *)
WalkNode ==
    /\ phase = "walking"
    /\ stack # <<>>
    /\ stack' = IF Head(stack) \in visited THEN Tail(stack)
                ELSE Tail(stack) \o edges[Head(stack)]
    /\ visited' = visited \cup {Head(stack)}
    /\ yielded' = Append(yielded, Head(stack))
    /\ UNCHANGED <<sources, phase, queue, graph, cur, links, pos>>

EndWalk ==
    /\ phase = "walking"
    /\ stack = <<>>
    /\ visited' = {}
    /\ yielded' = <<>>
    /\ phase' = "linked"
    /\ UNCHANGED <<sources, queue, graph, cur, links, pos, stack>>

Resolve ==
    \/ PopNode
    \/ ImportUnresolved
    \/ ImportKnown
    \/ ImportNew
    \/ ReadFails
    \/ PushNode
    \/ Link

Next ==
    \/ Resolve
    \/ \E i \in DOMAIN nodes : StartWalk(i)
    \/ WalkNode
    \/ EndWalk

(* One thread builds the graph and walks it; nothing it does can block. *)
Spec == Init /\ [][Next]_vars /\ WF_vars(Resolve) /\ WF_vars(WalkNode \/ EndWalk)

-----------------------------------------------------------------------------
(* What the sources say, read off without a queue.  Rank counts the import     *)
(* statements up to the k-th that resolve.                                     *)
Rank(s, k) == Cardinality({j \in 1..k : s[j] \in Files})
ImportedBy(f) == Elems(imports[f]) \cap Files
Closed(S) == \A f \in S : ImportedBy(f) \subseteq S
Reachable(F) ==
    {g \in Files : \A S \in SUBSET Files : F \subseteq S /\ Closed(S) => g \in S}

(* Files in the order they are numbered: those done, the one at hand, those   *)
(* that wait.                                                                  *)
Lineup == nodes \o (IF phase \in {"imports", "failed"} THEN <<cur>> ELSE <<>>) \o queue

(* The index given to a file when it is first seen is the place it takes in   *)
(* `nodes` and `edges` later: every lookup by index finds that file.           *)
IndexIsPlace ==
    /\ DOMAIN index = Elems(Lineup)
    /\ Cardinality(DOMAIN index) = Len(Lineup)
    /\ \A i \in DOMAIN Lineup : index[Lineup[i]] = i

(* A finished graph holds the input files first and then exactly what they     *)
(* import, directly or not; its edges are the imports that resolve, in order,   *)
(* its reverse edges their inverse, and every other import is reported.         *)
GraphIsComplete ==
    phase = "linked" =>
        /\ SubSeq(nodes, 1, Len(inputs)) = inputs
        /\ Elems(nodes) = Reachable(Elems(inputs))
        /\ \A i \in DOMAIN nodes :
              /\ LET s == imports[nodes[i]] IN
                 /\ Len(edges[i]) = Rank(s, Len(s))
                 /\ \A k \in DOMAIN s : s[k] \in Files => nodes[edges[i][Rank(s, k)]] = s[k]
              /\ {nodes[j] : j \in revEdges[i]}
                    = {f \in Elems(nodes) : nodes[i] \in ImportedBy(f)}
        /\ unresolved = {u \in Absent \X Elems(nodes) : u[1] \in Elems(imports[u[2]])}

(* Every walk ends, also where files import each other. *)
WalkEnds == phase = "walking" ~> phase = "linked"
=============================================================================
