------------------------- MODULE MCParallelCompile -------------------------
(* A parallel and a sequential build side by side, for TLC. *)
EXTENDS ParallelCompile, TLC

CONSTANTS b1, b2, w1, w2, j1, j2, r1, r2

(* Both workers belong to b1; b2 builds sequentially. *)
MCPool == w1 :> b1 @@ w2 :> b1
MCJobs == b1 :> {j1, j2} @@ b2 :> {j1}

(* Each installs what the other scopes. *)
MCInstalls == b1 :> {r1} @@ b2 :> {r2}
MCScopes == b1 :> {r2} @@ b2 :> {r1}
=============================================================================
