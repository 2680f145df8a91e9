----------------------------- MODULE CleanBuild -----------------------------
(***************************************************************************)
(* What a project build promises, with no cache in sight.                  *)
(*                                                                         *)
(* A build is requested for a set of compilation units (a compiler version *)
(* and a settings profile each) and the files every unit compiles.  It     *)
(* answers with exactly the artifacts a compiler run over the sources the  *)
(* request read would produce, or it fails.  BuildCache implements this    *)
(* with artifacts reused from earlier builds; a user who compares the two  *)
(* must not be able to tell them apart.                                    *)
(***************************************************************************)
EXTENDS SourceTree

VARIABLES
    src,        \* the sources on disk, None for a file that does not exist
    settings,   \* the project's compiler settings, per profile
    request,    \* the build in progress: what it was asked and what it read
    answer      \* what the finished build returned, None before

vars == <<src, settings, request, answer>>

(* The requested artifacts of a clean compiler run. *)
Clean(r) == [k \in Requested(r.job) |-> CompilerOutput(r.snap, r.set, k)]

Init ==
    /\ src \in [Files -> Contents \cup {None}]
    /\ settings \in [Profiles -> Settings]
    /\ request = None
    /\ answer = None

Edit ==
    /\ src' \in [Files -> Contents \cup {None}]
    /\ UNCHANGED <<settings, request, answer>>

Reconfigure ==
    /\ request = None
    /\ settings' \in [Profiles -> Settings]
    /\ UNCHANGED <<src, request, answer>>

Ask(job) ==
    /\ request = None
    /\ request' = [job |-> job, snap |-> src, set |-> settings]
    /\ UNCHANGED <<src, settings, answer>>

(* A failing build promises nothing; a build that succeeds is exact. *)
Answer ==
    /\ request # None
    /\ answer = None
    /\ answer' \in {Clean(request), Failed}
    /\ UNCHANGED <<src, settings, request>>

Close ==
    /\ request # None
    /\ request' = None
    /\ answer' = None
    /\ UNCHANGED <<src, settings>>

Next ==
    \/ Edit
    \/ Reconfigure
    \/ \E job \in [Units -> SUBSET Files] : Ask(job)
    \/ Answer
    \/ Close

Spec == Init /\ [][Next]_vars
=============================================================================
