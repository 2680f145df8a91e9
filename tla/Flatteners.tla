----------------------------- MODULE Flatteners -----------------------------
(* The two flatteners on the same sources.                                   *)
EXTENDS Flattener, FlattenScan

vars == <<program, pass, edits, names, head, result, queue, scanned, scanHead>>

Init == FlattenInit /\ queue = OrderedDeps(program) /\ scanned = <<>>
        /\ scanHead = [license |-> None, versions |-> {}, feature |-> None]

Next ==
    \/ Flatten /\ UNCHANGED <<queue, scanned, scanHead>>
    \/ Flattened /\ ScanFile /\ UNCHANGED <<pass, edits, names, head, result>>

Spec == Init /\ [][Next]_vars

(* What both flatteners take: no name twice, no path through an import, no   *)
(* tag that holds an alias, and no alias where the search of the text does   *)
(* not find it or the flattener of the AST leaves it.                        *)
Alike ==
    LET items == UNION {ToSet(program[f]) : f \in Sources}
        aliases == UNION {{a.alias : a \in ToSet(Aliases(program[f]))} : f \in Sources}
        imported == {i.parts[1].id : i \in {j \in items : j.is = "import"}}
        defined == {i.parts[1] : i \in {j \in items : j.is \in FileLevel}}
    IN /\ \A d, e \in defined : d.name = e.name => d = e
       /\ \A i \in items : i.is \in Uses => \A k \in DOMAIN i.parts : i.parts[k].id \notin imported
       /\ \A i \in items : i.is = "doc" =>
              \A d \in defined : d.id = i.parts[1].id => d.name = i.parts[1].name
       /\ \A i \in items : i.is \in Uses /\ (i.of \in {"tight", "quoted"} \/ OutdatedModifier(i)) =>
              \A k \in DOMAIN i.parts : i.parts[k].name \notin aliases

(* The tests' helper test_flatteners: both give the same text.               *)
BothAgree ==
    Flattened /\ Scanned /\ Alike => \A f \in Files : scanned[f] = result[f] /\ scanHead = head
=============================================================================
