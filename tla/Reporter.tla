------------------------------ MODULE Reporter ------------------------------
(***************************************************************************)
(* Who hears the events of the compiler pipeline: report/mod.rs.           *)
(*                                                                         *)
(* There is one global reporter for the process, installed at most once,   *)
(* and one scoped reporter per thread, replaced and restored by guards.    *)
(* A counter of guards shared by all threads lets get_default skip the     *)
(* thread-local when nobody is in a scope.  Every atomic access is a step  *)
(* of its own, so the threads interleave between them.                     *)
(***************************************************************************)
EXTENDS Naturals, Sequences, FiniteSets

CONSTANTS
    Threads,      \* the threads that report, scope or install reporters
    Reporters,    \* the reporters they use
    NoReporter    \* Report::none(), and the empty GLOBAL_REPORTER

ASSUME NoReporterIsNone == NoReporter \notin Reporters

Report == Reporters \cup {NoReporter}

VARIABLES
    globalReporterState,    \* "UN_SET", "SETTING" or "SET"
    globalReporter,         \* GLOBAL_REPORTER
    scopedCount,            \* SCOPED_COUNT
    scoped,                 \* CURRENT_STATE of every thread
    guards,                 \* the live ScopeGuards of every thread, oldest first
    at                      \* the library call every thread is in

globals == <<globalReporterState, globalReporter>>
scopes == <<scopedCount, scoped, guards>>
reporterVars == <<globals, scopes, at>>

(* The guard set_scoped returns; `reporter` is what it was called with.       *)
ScopeGuard == [reporter : Report, prior : Report]

(* Where a call stands, with the reporter it has in hand.                      *)
Call == [op : {"idle", "setting", "stored", "entering", "leaving",
               "fast", "hearing"},
         report : Report]
In(op, r) == [op |-> op, report |-> r]
Idle == In("idle", NoReporter)

Innermost(t) == guards[t][Len(guards[t])]

ReporterInit ==
    /\ globalReporterState = "UN_SET"
    /\ globalReporter = NoReporter
    /\ scopedCount = 0
    /\ scoped = [t \in Threads |-> NoReporter]
    /\ guards = [t \in Threads |-> <<>>]
    /\ at = [t \in Threads |-> Idle]

-----------------------------------------------------------------------------
(* set_global_reporter: the first compare_exchange wins, all others fail.      *)
Claim(t, r) ==
    /\ at[t] = Idle
    /\ globalReporterState = "UN_SET"
    /\ globalReporterState' = "SETTING"
    /\ at' = [at EXCEPT ![t] = In("setting", r)]
    /\ UNCHANGED <<globalReporter, scopes>>

Store(t) ==
    /\ at[t].op = "setting"
    /\ globalReporter' = at[t].report
    /\ at' = [at EXCEPT ![t] = In("stored", NoReporter)]
    /\ UNCHANGED <<globalReporterState, scopes>>

Publish(t) ==
    /\ at[t].op = "stored"
    /\ globalReporterState' = "SET"
    /\ at' = [at EXCEPT ![t] = Idle]
    /\ UNCHANGED <<globalReporter, scopes>>

-----------------------------------------------------------------------------
(* State::set_scoped replaces the thread's reporter, then counts the guard.    *)
EnterScope(t, r) ==
    /\ at[t] = Idle
    /\ scoped' = [scoped EXCEPT ![t] = r]
    /\ guards' = [guards EXCEPT ![t] =
                     Append(@, [reporter |-> r, prior |-> scoped[t]])]
    /\ at' = [at EXCEPT ![t] = In("entering", NoReporter)]
    /\ UNCHANGED <<globals, scopedCount>>

CountScope(t) ==
    /\ at[t].op = "entering"
    /\ scopedCount' = scopedCount + 1
    /\ at' = [at EXCEPT ![t] = Idle]
    /\ UNCHANGED <<globals, scoped, guards>>

(* Mutant: the counter is a flag that the first guard to go clears. *)
LeaveScopeForAll(t) ==
    /\ at[t] = Idle
    /\ guards[t] # <<>>
    /\ scopedCount' = 0
    /\ guards' = [guards EXCEPT ![t] = SubSeq(@, 1, Len(@) - 1)]
    /\ at' = [at EXCEPT ![t] = In("leaving", Innermost(t).prior)]
    /\ UNCHANGED <<globals, scoped>>

(* ScopeGuard::drop: the counter first, then the reporter.  Guards are dropped *)
(* innermost first, as with_scoped and compile_parallel do.                    *)
LeaveScope(t) ==
    /\ at[t] = Idle
    /\ guards[t] # <<>>
    /\ scopedCount' = scopedCount - 1
    /\ guards' = [guards EXCEPT ![t] = SubSeq(@, 1, Len(@) - 1)]
    /\ at' = [at EXCEPT ![t] = In("leaving", Innermost(t).prior)]
    /\ UNCHANGED <<globals, scoped>>

RestoreScope(t) ==
    /\ at[t].op = "leaving"
    /\ scoped' = [scoped EXCEPT ![t] = at[t].report]
    /\ at' = [at EXCEPT ![t] = Idle]
    /\ UNCHANGED <<globals, scopedCount, guards>>

-----------------------------------------------------------------------------
(* get_default looks at the counter of all threads first, and the closure runs *)
(* in the state "hearing".  A thread that finds a scope anywhere has only its   *)
(* own thread-local left to look at (get_default_scoped).                       *)
GetDefault(t) ==
    /\ at[t] = Idle
    /\ at' = [at EXCEPT ![t] =
                 IF scopedCount = 0 THEN In("fast", NoReporter) ELSE In("hearing", scoped[t])]
    /\ UNCHANGED <<globals, scopes>>

(* get_global *)
HearGlobal(t) ==
    /\ at[t].op = "fast"
    /\ at' = [at EXCEPT ![t] =
                 In("hearing", IF globalReporterState = "SET" THEN globalReporter ELSE NoReporter)]
    /\ UNCHANGED <<globals, scopes>>

Heard(t) ==
    /\ at[t].op = "hearing"
    /\ at' = [at EXCEPT ![t] = Idle]
    /\ UNCHANGED <<globals, scopes>>

(* The steps of a call that has begun, up to the closure.                      *)
Proceed(t) ==
    \/ Store(t)
    \/ Publish(t)
    \/ CountScope(t)
    \/ RestoreScope(t)
    \/ HearGlobal(t)

-----------------------------------------------------------------------------
(* A thread in a scope hears its innermost reporter, whatever the other        *)
(* threads do to the shared counter: "sets the reporter for the duration of a  *)
(* scope".                                                                     *)
ScopeIsHeard ==
    \A t \in Threads :
        at[t].op = "hearing" /\ guards[t] # <<>> => at[t].report = Innermost(t).reporter

=============================================================================
