-------------------------- MODULE ParallelCompile --------------------------
(***************************************************************************)
(* Running the compiler jobs of a build: compile_sequential and            *)
(* compile_parallel of compile/project.rs, over the Reporter.              *)
(*                                                                         *)
(* Several builds may go on in one process, each started by a thread of    *)
(* its own.  A build without workers runs its jobs on that thread; one     *)
(* with workers captures the thread's reporter and scopes it on every      *)
(* worker for the time of each job.                                        *)
(***************************************************************************)
EXTENDS Reporter

CONSTANTS
    Builders,    \* the threads that start builds
    Workers,     \* the threads of their rayon pools
    Pool,        \* Pool[w]: the builder whose pool worker w belongs to
    Jobs,        \* Jobs[b]: the jobs of builder b
    Installs,    \* Installs[b]: the reporters b may install globally
    Scopes,      \* Scopes[b]: the reporters b may scope
    MaxDepth,    \* how deep a caller nests its scopes (a bound for TLC)
    None,
    Failed

ASSUME PoolsAreWorkers ==
    /\ Threads = Builders \cup Workers
    /\ Builders \cap Workers = {}
    /\ Pool \in [Workers -> Builders]
    /\ \A b \in Builders : None \notin Jobs[b] /\ Installs[b] \cup Scopes[b] \subseteq Reporters

VARIABLES
    outcome,     \* outcome[b][j]: whether the compiler accepts job j of b; None
                 \* when b has no build
    phase,       \* where each build stands
    captured,    \* scoped_report: the reporter b's workers are to use
    queue,       \* the jobs of b nobody has started
    collected,   \* the jobs of b whose output has been collected
    failed,      \* whether one of b's jobs returned an error
    task,        \* what each thread does for its build
    job,         \* the job it does it for
    result       \* what b's build returned, None before and once taken

buildVars == <<outcome, phase, captured, queue, collected, failed, result>>
vars == <<reporterVars, buildVars, task, job>>

(* The build thread t works for, and the threads that run b's jobs.            *)
BuildOf(t) == IF t \in Builders THEN t ELSE Pool[t]
PoolOf(b) == {w \in Workers : Pool[w] = b}
Runners(b) == IF PoolOf(b) = {} THEN {b} ELSE PoolOf(b)

Init ==
    /\ ReporterInit
    /\ outcome = [b \in Builders |-> None]
    /\ phase = [b \in Builders |-> "ready"]
    /\ captured = [b \in Builders |-> NoReporter]
    /\ queue = [b \in Builders |-> {}]
    /\ collected = [b \in Builders |-> {}]
    /\ failed = [b \in Builders |-> FALSE]
    /\ task = [t \in Threads |-> "free"]
    /\ job = [t \in Threads |-> None]
    /\ result = [b \in Builders |-> None]

-----------------------------------------------------------------------------
(* CompilerSources::compile hands over the jobs; compile_parallel starts with  *)
(* a look at the caller's reporter.                                            *)
Start(b) ==
    /\ phase[b] = "ready" /\ result[b] = None
    /\ \E o \in [Jobs[b] -> BOOLEAN] : outcome' = [outcome EXCEPT ![b] = o]
    /\ queue' = [queue EXCEPT ![b] = Jobs[b]]
    /\ IF PoolOf(b) = {}
       THEN /\ at[b] = Idle
            /\ phase' = [phase EXCEPT ![b] = "running"]
            /\ UNCHANGED reporterVars
       ELSE /\ GetDefault(b)
            /\ phase' = [phase EXCEPT ![b] = "capturing"]
    /\ UNCHANGED <<captured, collected, failed, result, task, job>>

Capture(b) ==
    /\ phase[b] = "capturing"
    /\ Heard(b)
    /\ captured' = [captured EXCEPT ![b] = at[b].report]
    /\ phase' = [phase EXCEPT ![b] = "running"]
    /\ UNCHANGED <<outcome, queue, collected, failed, result, task, job>>

(* Mutant: the worker does not set the captured reporter. *)
TakeJobUnscoped(t, j) ==
    LET b == BuildOf(t) IN
    /\ phase[b] = "running" /\ t \in Runners(b)
    /\ task[t] = "free" /\ j \in queue[b] /\ ~failed[b]
    /\ queue' = [queue EXCEPT ![b] = @ \ {j}]
    /\ task' = [task EXCEPT ![t] = "spawn"]
    /\ job' = [job EXCEPT ![t] = j]
    /\ UNCHANGED <<reporterVars, outcome, phase, captured, collected, failed, result>>

(* The next job, unless one has failed: collecting into a Result stops there.  *)
TakeJob(t, j) ==
    LET b == BuildOf(t) IN
    /\ phase[b] = "running" /\ t \in Runners(b)
    /\ task[t] = "free" /\ j \in queue[b] /\ ~failed[b]
    /\ queue' = [queue EXCEPT ![b] = @ \ {j}]
    /\ task' = [task EXCEPT ![t] = "spawn"]
    /\ job' = [job EXCEPT ![t] = j]
    /\ IF t \in Workers THEN EnterScope(t, captured[b]) ELSE UNCHANGED reporterVars
    /\ UNCHANGED <<outcome, phase, captured, collected, failed, result>>

(* report::compiler_spawn and report::compiler_success *)
BeginReport(t) ==
    /\ task[t] \in {"spawn", "success"}
    /\ GetDefault(t)
    /\ UNCHANGED <<buildVars, task, job>>

EndReport(t) ==
    /\ task[t] \in {"spawn", "success"}
    /\ Heard(t)
    /\ task' = [task EXCEPT ![t] = IF @ = "spawn" THEN "compile" ELSE "compiled"]
    /\ UNCHANGED <<buildVars, job>>

CompileJob(t) ==
    /\ task[t] = "compile"
    /\ task' = [task EXCEPT ![t] = IF outcome[BuildOf(t)][job[t]] THEN "success" ELSE "rejected"]
    /\ UNCHANGED <<reporterVars, buildVars, job>>

(* The end of the closure a worker runs for a job. *)
DropGuard(t) ==
    /\ t \in Workers
    /\ task[t] \in {"compiled", "rejected"}
    /\ LeaveScope(t)
    /\ UNCHANGED <<buildVars, task, job>>

Collect(t) ==
    LET b == BuildOf(t) IN
    /\ task[t] \in {"compiled", "rejected"}
    /\ at[t] = Idle
    /\ t \in Workers => guards[t] = <<>>
    /\ IF task[t] = "compiled"
       THEN collected' = [collected EXCEPT ![b] = @ \cup {job[t]}] /\ UNCHANGED failed
       ELSE failed' = [failed EXCEPT ![b] = TRUE] /\ UNCHANGED collected
    /\ task' = [task EXCEPT ![t] = "free"]
    /\ job' = [job EXCEPT ![t] = None]
    /\ UNCHANGED <<reporterVars, outcome, phase, captured, queue, result>>

(* Mutant: the pool is not waited for. *)
ReturnEarly(b) ==
    /\ phase[b] = "running"
    /\ queue[b] = {} \/ failed[b]
    /\ result' = [result EXCEPT ![b] = IF failed[b] THEN Failed ELSE collected[b]]
    /\ phase' = [phase EXCEPT ![b] = "ready"]
    /\ captured' = [captured EXCEPT ![b] = NoReporter]
    /\ queue' = [queue EXCEPT ![b] = {}]
    /\ collected' = [collected EXCEPT ![b] = {}]
    /\ failed' = [failed EXCEPT ![b] = FALSE]
    /\ UNCHANGED <<reporterVars, outcome, task, job>>

(* pool.install returns when no worker has anything to do. *)
Return(b) ==
    /\ phase[b] = "running"
    /\ \A t \in Runners(b) : task[t] = "free"
    /\ queue[b] = {} \/ failed[b]
    /\ result' = [result EXCEPT ![b] = IF failed[b] THEN Failed ELSE collected[b]]
    /\ phase' = [phase EXCEPT ![b] = "ready"]
    /\ captured' = [captured EXCEPT ![b] = NoReporter]
    /\ queue' = [queue EXCEPT ![b] = {}]
    /\ collected' = [collected EXCEPT ![b] = {}]
    /\ failed' = [failed EXCEPT ![b] = FALSE]
    /\ UNCHANGED <<reporterVars, outcome, task, job>>

-----------------------------------------------------------------------------
(* The callers, between their builds *)

TakeResult(b) ==
    /\ result[b] # None
    /\ result' = [result EXCEPT ![b] = None]
    /\ outcome' = [outcome EXCEPT ![b] = None]
    /\ UNCHANGED <<reporterVars, phase, captured, queue, collected, failed, task, job>>

Caller(b) ==
    /\ phase[b] = "ready"
    /\ \/ \E r \in Installs[b] : Claim(b, r)
       \/ Len(guards[b]) < MaxDepth /\ \E r \in Scopes[b] : EnterScope(b, r)
       \/ LeaveScope(b)
    /\ UNCHANGED <<buildVars, task, job>>

(* A step of a thread in the middle of a call or of a job. *)
Work(t) ==
    \/ Proceed(t) /\ UNCHANGED <<buildVars, task, job>>
    \/ t \in Builders /\ Capture(t)
    \/ \E j \in Jobs[BuildOf(t)] : TakeJob(t, j)
    \/ BeginReport(t)
    \/ EndReport(t)
    \/ CompileJob(t)
    \/ DropGuard(t)
    \/ Collect(t)

Next ==
    \/ \E t \in Threads : Work(t)
    \/ \E b \in Builders : Start(b) \/ Return(b) \/ TakeResult(b) \/ Caller(b)

(* Threads are scheduled and the compiler ends; nobody has to start a build,   *)
(* take a result or leave a scope.                                             *)
Fairness ==
    /\ \A t \in Threads : WF_vars(Work(t))
    /\ \A b \in Builders : WF_vars(Return(b))

Spec == Init /\ [][Next]_vars /\ Fairness

-----------------------------------------------------------------------------
(* "This way we keep access to the reporter in the rayon pool": the events of  *)
(* a build that was started in a scope reach that scope's reporter, on         *)
(* whichever thread they occur and whatever other builds do meanwhile.         *)
BuildIsHeard ==
    \A t \in Threads :
        LET b == BuildOf(t) IN
        at[t].op = "hearing" /\ task[t] # "free" /\ guards[b] # <<>>
            => at[t].report = Innermost(b).reporter

(* Sequential or parallel, a build returns all outputs or, if a job failed, an *)
(* error; and it does return.                                                  *)
CJ == INSTANCE CompileJobs WITH
    running <- [b \in Builders |-> phase[b] # "ready"]

ImplementsCompileJobs == CJ!Spec
=============================================================================
