---------------------------- MODULE CompileJobs ----------------------------
(***************************************************************************)
(* What running the jobs of a build promises, however they are run: every  *)
(* job compiled and its output returned, or an error if one of them fails. *)
(***************************************************************************)
CONSTANTS Builders, Jobs, None, Failed

VARIABLES
    outcome,    \* outcome[b][j]: whether the compiler accepts job j of b, None when
                \* b has no build
    running,    \* whether b's jobs are being run
    result      \* what b returned: the jobs it has the output of, or Failed;
                \* None before it did

vars == <<outcome, running, result>>

Init ==
    /\ outcome = [b \in Builders |-> None]
    /\ running = [b \in Builders |-> FALSE]
    /\ result = [b \in Builders |-> None]

Start(b) ==
    /\ ~running[b] /\ result[b] = None
    /\ running' = [running EXCEPT ![b] = TRUE]
    /\ \E o \in [Jobs[b] -> BOOLEAN] : outcome' = [outcome EXCEPT ![b] = o]
    /\ UNCHANGED result

Finish(b) ==
    /\ running[b]
    /\ running' = [running EXCEPT ![b] = FALSE]
    /\ result' = [result EXCEPT ![b] = IF \A j \in Jobs[b] : outcome[b][j] THEN Jobs[b] ELSE Failed]
    /\ UNCHANGED outcome

(* The caller takes the result. *)
Take(b) ==
    /\ result[b] # None
    /\ result' = [result EXCEPT ![b] = None]
    /\ outcome' = [outcome EXCEPT ![b] = None]
    /\ UNCHANGED running

Next == \E b \in Builders : Start(b) \/ Finish(b) \/ Take(b)

(* A build that has started returns. *)
Spec == Init /\ [][Next]_vars /\ \A b \in Builders : WF_vars(Finish(b))
=============================================================================
