----------------------- MODULE ParallelCompileProofs -----------------------
(***************************************************************************)
(* Proofs about Reporter and ParallelCompile, for any number of threads,   *)
(* builds, workers and jobs and any depth of scopes.                       *)
(*                                                                         *)
(* InvariantHolds: the inductive invariant, ReporterInv /\ PoolInv.        *)
(* ScopesAreHeard, BuildsAreHeard: the safety properties, from it.         *)
(* SafetyOfCompileJobs: the steps of ParallelCompile are steps of          *)
(* CompileJobs; that a build returns is for TLC.                           *)
(***************************************************************************)
EXTENDS ParallelCompile, FiniteSetTheorems, SequenceTheorems, TLAPS

-----------------------------------------------------------------------------
(* The reporter's part of the state.                                           *)

ReporterTypeOK ==
    /\ globalReporterState \in {"UN_SET", "SETTING", "SET"}
    /\ globalReporter \in Report
    /\ scopedCount \in Nat
    /\ scoped \in [Threads -> Report]
    /\ guards \in [Threads -> Seq(ScopeGuard)]
    /\ at \in [Threads -> Call]

(* What a thread's thread-local should hold while its guards are these.        *)
Current(t) == IF guards[t] = <<>> THEN NoReporter ELSE Innermost(t).reporter

(* Each guard restores what the one outside it set.                            *)
GuardsNest ==
    \A t \in Threads : \A i \in 1..Len(guards[t]) :
        guards[t][i].prior = IF i = 1 THEN NoReporter ELSE guards[t][i - 1].reporter

(* The thread-local is the innermost guard's reporter; a guard that has left    *)
(* the count already is about to make it so.                                   *)
ScopedIsCurrent ==
    \A t \in Threads :
        /\ at[t].op = "leaving" => at[t].report = Current(t)
        /\ at[t].op # "leaving" => scoped[t] = Current(t)

(* The guards of t that SCOPED_COUNT includes: a thread counts its new guard   *)
(* only after it is in place.                                                  *)
Counted(t) == IF at[t].op = "entering" THEN Len(guards[t]) - 1 ELSE Len(guards[t])
Live == UNION {{t} \X (1..Counted(t)) : t \in Threads}

ScopesAreCounted ==
    /\ IsFiniteSet(Live)
    /\ scopedCount = Cardinality(Live)
    /\ \A t \in Threads : at[t].op = "entering" => guards[t] # <<>>

(* A thread in a scope never takes the path of a program without scopes.       *)
FastIsUnscoped == \A t \in Threads : at[t].op = "fast" => guards[t] = <<>>

ReporterInv ==
    /\ ReporterTypeOK
    /\ GuardsNest
    /\ ScopedIsCurrent
    /\ ScopesAreCounted
    /\ FastIsUnscoped
    /\ ScopeIsHeard

(* A step of the library on thread t.                                          *)
Reports(t) ==
    \/ \E r \in Report : Claim(t, r) \/ EnterScope(t, r)
    \/ Proceed(t)
    \/ LeaveScope(t)
    \/ GetDefault(t)
    \/ Heard(t)

-----------------------------------------------------------------------------
LEMMA CallsAreCalls ==
    /\ Idle \in Call
    /\ Idle.op = "idle"
    /\ \A r \in Report : /\ In("setting", r) \in Call
                         /\ In("leaving", r) \in Call
                         /\ In("hearing", r) \in Call
    /\ In("stored", NoReporter) \in Call
    /\ In("entering", NoReporter) \in Call
    /\ In("fast", NoReporter) \in Call
    /\ \A o, r : In(o, r).op = o /\ In(o, r).report = r
    /\ NoReporter \in Report
  BY DEF Idle, In, Call, Report

LEMMA EmptyHasNoLength ==
    ASSUME NEW S, NEW s \in Seq(S)
    PROVE  Len(s) \in Nat /\ (s = <<>> <=> Len(s) = 0)
  BY EmptySeq, LenProperties

LEMMA InnermostType ==
    ASSUME ReporterTypeOK, NEW t \in Threads
    PROVE  /\ Len(guards[t]) \in Nat
           /\ guards[t] # <<>> => Len(guards[t]) >= 1 /\ Innermost(t) \in ScopeGuard
           /\ guards[t] = <<>> => Len(guards[t]) = 0
           /\ Current(t) \in Report
<1>1. guards[t] \in Seq(ScopeGuard)
  BY DEF ReporterTypeOK
<1>2. Len(guards[t]) \in Nat /\ (guards[t] = <<>> <=> Len(guards[t]) = 0)
  BY <1>1, EmptySeq, LenProperties
<1>3. guards[t] # <<>> => Innermost(t) \in ScopeGuard
  BY <1>1, <1>2, ElementOfSeq DEF Innermost
<1> QED
  BY <1>2, <1>3, CallsAreCalls DEF Current, ScopeGuard

LEMMA LiveMember ==
    ASSUME NEW t \in Threads, NEW i
    PROVE  <<t, i>> \in Live <=> i \in 1..Counted(t)
  BY DEF Live

(* Live is determined by how much of each thread counts.                       *)
LEMMA LiveSame ==
    ASSUME \A t \in Threads : Counted(t)' = Counted(t)
    PROVE  Live' = Live
  BY DEF Live

LEMMA ReporterInitially == ReporterInit => ReporterInv
<1> SUFFICES ASSUME ReporterInit PROVE ReporterInv
  OBVIOUS
<1>1. ReporterTypeOK
  BY CallsAreCalls DEF ReporterInit, ReporterTypeOK
<1>2. \A t \in Threads : guards[t] = <<>> /\ at[t] = Idle /\ at[t].op = "idle"
                         /\ scoped[t] = NoReporter /\ Len(guards[t]) = 0
  BY CallsAreCalls DEF ReporterInit
<1>3. Live = {}
  BY <1>2 DEF Live, Counted
<1>4. ScopesAreCounted
  BY <1>2, <1>3, FS_EmptySet DEF ScopesAreCounted, ReporterInit
<1> QED
  BY <1>1, <1>2, <1>4
     DEF ReporterInv, GuardsNest, ScopedIsCurrent, Current, FastIsUnscoped, ScopeIsHeard

(* The steps that touch no scope.                                              *)
LEMMA GlobalSteps ==
    ASSUME ReporterInv, NEW t \in Threads,
           (\E r \in Report : Claim(t, r)) \/ Store(t) \/ Publish(t)
    PROVE  ReporterInv'
<1>1. /\ UNCHANGED scopes
      /\ \A u \in Threads \ {t} : at'[u] = at[u]
      /\ at[t].op \notin {"entering", "leaving"}
      /\ at'[t].op \notin {"entering", "leaving", "fast", "hearing"}
  BY CallsAreCalls DEF ReporterInv, ReporterTypeOK, Claim, Store, Publish
<1>2. ReporterTypeOK'
  <2>1. at[t].report \in Report
    BY DEF ReporterInv, ReporterTypeOK, Call
  <2>2. CASE \E r \in Report : Claim(t, r)
    BY <2>2, CallsAreCalls DEF ReporterInv, ReporterTypeOK, Claim, scopes
  <2>3. CASE Store(t)
    BY <2>1, <2>3, CallsAreCalls DEF ReporterInv, ReporterTypeOK, Store, scopes
  <2>4. CASE Publish(t)
    BY <2>4, CallsAreCalls DEF ReporterInv, ReporterTypeOK, Publish, scopes
  <2> QED
    BY <2>2, <2>3, <2>4
<1>3. UNCHANGED <<scopedCount, scoped, guards>>
  BY <1>1 DEF scopes
<1>4. \A u \in Threads : Counted(u)' = Counted(u) /\ Current(u)' = Current(u)
  BY <1>1, <1>3 DEF Counted, Current, Innermost
<1>5. ScopesAreCounted'
  BY <1>1, <1>3, <1>4, LiveSame DEF ReporterInv, ScopesAreCounted
<1>6. ScopedIsCurrent'
  BY <1>1, <1>3, <1>4 DEF ReporterInv, ScopedIsCurrent
<1>7. GuardsNest' /\ FastIsUnscoped' /\ ScopeIsHeard'
  BY <1>1, <1>3 DEF ReporterInv, GuardsNest, FastIsUnscoped, ScopeIsHeard, Innermost
<1> QED
  BY <1>2, <1>5, <1>6, <1>7 DEF ReporterInv

LEMMA EnterScopeStep ==
    ASSUME ReporterInv, NEW t \in Threads, NEW r \in Report, EnterScope(t, r)
    PROVE  ReporterInv'
<1> DEFINE g == [reporter |-> r, prior |-> scoped[t]]
<1>1. /\ ReporterTypeOK
      /\ at[t] = Idle /\ at[t].op = "idle"
      /\ scoped' = [scoped EXCEPT ![t] = r]
      /\ guards' = [guards EXCEPT ![t] = Append(@, g)]
      /\ at' = [at EXCEPT ![t] = In("entering", NoReporter)]
      /\ UNCHANGED scopedCount
  BY CallsAreCalls DEF ReporterInv, EnterScope
<1>2. /\ g \in ScopeGuard /\ guards[t] \in Seq(ScopeGuard)
      /\ scoped[t] = Current(t)
  BY <1>1 DEF ReporterInv, ReporterTypeOK, ScopeGuard, ScopedIsCurrent
<1>3. /\ Append(guards[t], g) \in Seq(ScopeGuard)
      /\ Append(guards[t], g) # <<>>
      /\ Len(Append(guards[t], g)) = Len(guards[t]) + 1
      /\ Append(guards[t], g)[Len(guards[t]) + 1] = g
      /\ \A i \in 1..Len(guards[t]) : Append(guards[t], g)[i] = guards[t][i]
  BY <1>2, AppendProperties
<1>4. /\ guards'[t] = Append(guards[t], g) /\ scoped'[t] = r
      /\ at'[t] = In("entering", NoReporter) /\ at'[t].op = "entering"
      /\ \A u \in Threads \ {t} : guards'[u] = guards[u] /\ scoped'[u] = scoped[u] /\ at'[u] = at[u]
  BY <1>1, CallsAreCalls DEF ReporterTypeOK
<1> HIDE DEF g
<1>5. ReporterTypeOK'
  BY <1>1, <1>3, CallsAreCalls DEF ReporterTypeOK, EnterScope, globals
<1>6. \A u \in Threads : Counted(u)' = Counted(u)
  BY <1>1, <1>3, <1>4, InnermostType DEF Counted
<1>7. ScopesAreCounted'
  BY <1>1, <1>3, <1>4, <1>6, LiveSame DEF ReporterInv, ScopesAreCounted
<1>8. Current(t)' = r
  BY <1>2, <1>3, <1>4, InnermostType, <1>1 DEF Current, Innermost, g
<1>9. \A u \in Threads \ {t} : Current(u)' = Current(u)
  BY <1>4 DEF Current, Innermost
<1>10. ScopedIsCurrent'
  BY <1>4, <1>8, <1>9 DEF ReporterInv, ScopedIsCurrent
<1>11. GuardsNest'
  <2> SUFFICES ASSUME NEW u \in Threads, NEW i \in 1..Len(guards'[u])
               PROVE  guards'[u][i].prior = IF i = 1 THEN NoReporter ELSE guards'[u][i - 1].reporter
    BY DEF GuardsNest
  <2>1. CASE u # t
    BY <2>1, <1>4 DEF ReporterInv, GuardsNest
  <2>2. CASE u = t /\ i # Len(guards[t]) + 1
    <3>1. i \in 1..Len(guards[t]) /\ (i # 1 => i - 1 \in 1..Len(guards[t]))
      BY <2>2, <1>3, <1>4, <1>1, InnermostType
    <3> QED
      BY <2>2, <3>1, <1>3, <1>4 DEF ReporterInv, GuardsNest
  <2>3. CASE u = t /\ i = Len(guards[t]) + 1
    <3>1. guards'[u][i].prior = Current(t)
      BY <2>3, <1>2, <1>3, <1>4 DEF g
    <3>2. i # 1 => guards[t] # <<>> /\ i - 1 \in 1..Len(guards[t])
                   /\ guards'[u][i - 1] = Innermost(t)
      BY <2>3, <1>1, <1>3, <1>4, InnermostType DEF Innermost
    <3>3. i = 1 => guards[t] = <<>>
      BY <2>3, <1>1, InnermostType
    <3> QED
      BY <3>1, <3>2, <3>3 DEF Current
  <2> QED
    BY <2>1, <2>2, <2>3
<1>12. FastIsUnscoped' /\ ScopeIsHeard'
  BY <1>4 DEF ReporterInv, FastIsUnscoped, ScopeIsHeard, Innermost
<1> QED
  BY <1>5, <1>7, <1>10, <1>11, <1>12 DEF ReporterInv

LEMMA CountScopeStep ==
    ASSUME ReporterInv, NEW t \in Threads, CountScope(t)
    PROVE  ReporterInv'
<1> DEFINE p == <<t, Len(guards[t])>>
<1>1. /\ ReporterTypeOK
      /\ at[t].op = "entering" /\ guards[t] # <<>>
      /\ scopedCount' = scopedCount + 1
      /\ UNCHANGED <<scoped, guards>>
      /\ at' = [at EXCEPT ![t] = Idle]
  BY DEF ReporterInv, ScopesAreCounted, CountScope
<1>2. /\ at'[t] = Idle /\ at'[t].op = "idle"
      /\ \A u \in Threads \ {t} : at'[u] = at[u]
      /\ \A u \in Threads : Current(u)' = Current(u)
  BY <1>1, CallsAreCalls DEF ReporterTypeOK, Current, Innermost
<1>3. ReporterTypeOK'
  BY <1>1, CallsAreCalls DEF ReporterTypeOK, CountScope, globals
<1>4. /\ Len(guards[t]) \in Nat /\ Len(guards[t]) >= 1
      /\ Counted(t) = Len(guards[t]) - 1 /\ Counted(t)' = Len(guards[t])
      /\ \A u \in Threads \ {t} : Counted(u)' = Counted(u)
  BY <1>1, <1>2, InnermostType DEF Counted
<1>5. Live' = Live \cup {p}
  BY <1>4 DEF Live
<1>6. p \notin Live
  BY <1>4, LiveMember
<1>7. ScopesAreCounted'
  BY <1>1, <1>2, <1>5, <1>6, FS_AddElement DEF ReporterInv, ScopesAreCounted
<1>8. ScopedIsCurrent'
  BY <1>1, <1>2 DEF ReporterInv, ScopedIsCurrent
<1>9. GuardsNest' /\ FastIsUnscoped' /\ ScopeIsHeard'
  BY <1>1, <1>2 DEF ReporterInv, GuardsNest, FastIsUnscoped, ScopeIsHeard, Innermost
<1> QED
  BY <1>3, <1>7, <1>8, <1>9 DEF ReporterInv

LEMMA LeaveScopeStep ==
    ASSUME ReporterInv, NEW t \in Threads, LeaveScope(t)
    PROVE  ReporterInv'
<1> DEFINE n == Len(guards[t])
           rest == SubSeq(guards[t], 1, n - 1)
<1>1. /\ ReporterTypeOK
      /\ at[t] = Idle /\ at[t].op = "idle" /\ guards[t] # <<>>
      /\ scopedCount' = scopedCount - 1
      /\ guards' = [guards EXCEPT ![t] = rest]
      /\ at' = [at EXCEPT ![t] = In("leaving", Innermost(t).prior)]
      /\ UNCHANGED scoped
  BY CallsAreCalls DEF ReporterInv, LeaveScope
<1>2. /\ n \in Nat /\ n >= 1 /\ guards[t] \in Seq(ScopeGuard)
      /\ Innermost(t).prior \in Report
  BY <1>1, InnermostType DEF ReporterTypeOK, ScopeGuard
<1>3. /\ rest \in Seq(ScopeGuard) /\ Len(rest) = n - 1
      /\ \A i \in 1..(n - 1) : rest[i] = guards[t][i]
  BY <1>2, SubSeqProperties
<1>4. Innermost(t) = guards[t][n]
  BY DEF Innermost
<1>5. n \in 1..Len(guards[t]) /\ n = Len(guards[t])
  BY <1>2
<1> HIDE DEF n, rest
<1>6. rest = <<>> <=> n = 1
  BY <1>2, <1>3, EmptyHasNoLength
<1>7. /\ guards'[t] = rest
      /\ at'[t] = In("leaving", Innermost(t).prior)
      /\ at'[t].op = "leaving" /\ at'[t].report = Innermost(t).prior
      /\ \A u \in Threads \ {t} : guards'[u] = guards[u] /\ at'[u] = at[u]
  BY <1>1, CallsAreCalls DEF ReporterTypeOK
<1>8. /\ Counted(t) = n /\ Counted(t)' = n - 1
      /\ \A u \in Threads \ {t} : Counted(u)' = Counted(u)
  BY <1>1, <1>3, <1>5, <1>7 DEF Counted
<1>9. Live' = Live \ {<<t, n>>} /\ <<t, n>> \in Live
  BY <1>2, <1>8 DEF Live
<1>10. IsFiniteSet(Live') /\ scopedCount' = Cardinality(Live')
  BY <1>1, <1>9, FS_RemoveElement DEF ReporterInv, ScopesAreCounted
<1>11. scopedCount' \in Nat
  BY <1>10, FS_CardinalityType
<1>12. ReporterTypeOK'
  BY <1>1, <1>2, <1>3, <1>11, CallsAreCalls DEF ReporterTypeOK, LeaveScope, globals
<1>13. ScopesAreCounted'
  BY <1>7, <1>10 DEF ReporterInv, ScopesAreCounted
<1>14. Current(t)' = Innermost(t).prior
  <2>1. Innermost(t).prior = IF n = 1 THEN NoReporter ELSE guards[t][n - 1].reporter
    BY <1>4, <1>5 DEF ReporterInv, GuardsNest
  <2>3. n # 1 => rest[Len(rest)] = guards[t][n - 1]
    BY <1>2, <1>3
  <2> QED
    BY <1>6, <1>7, <2>1, <2>3 DEF Current, Innermost
<1>15. \A u \in Threads \ {t} : Current(u)' = Current(u)
  BY <1>7 DEF Current, Innermost
<1>16. ScopedIsCurrent'
  BY <1>1, <1>7, <1>14, <1>15 DEF ReporterInv, ScopedIsCurrent
<1>17. GuardsNest'
  <2>1. \A i \in 1..Len(rest) : /\ i \in 1..Len(guards[t]) /\ rest[i] = guards[t][i]
                                /\ i # 1 => i - 1 \in 1..(n - 1)
    BY <1>2, <1>3, <1>5
  <2> QED
    BY <1>3, <1>7, <2>1 DEF ReporterInv, GuardsNest
<1>18. FastIsUnscoped' /\ ScopeIsHeard'
  BY <1>7 DEF ReporterInv, FastIsUnscoped, ScopeIsHeard, Innermost
<1> QED
  BY <1>12, <1>13, <1>16, <1>17, <1>18 DEF ReporterInv

LEMMA RestoreScopeStep ==
    ASSUME ReporterInv, NEW t \in Threads, RestoreScope(t)
    PROVE  ReporterInv'
<1>1. /\ ReporterTypeOK
      /\ at[t].op = "leaving" /\ at[t].report = Current(t)
      /\ scoped' = [scoped EXCEPT ![t] = at[t].report]
      /\ UNCHANGED <<scopedCount, guards>>
      /\ at' = [at EXCEPT ![t] = Idle]
  BY DEF ReporterInv, ScopedIsCurrent, RestoreScope
<1>2. /\ at'[t] = Idle /\ at'[t].op = "idle" /\ scoped'[t] = Current(t)
      /\ \A u \in Threads \ {t} : at'[u] = at[u] /\ scoped'[u] = scoped[u]
      /\ \A u \in Threads : Current(u)' = Current(u) /\ Counted(u)' = Counted(u)
  BY <1>1, CallsAreCalls DEF ReporterTypeOK, Current, Counted, Innermost
<1>3. ReporterTypeOK'
  BY <1>1, CallsAreCalls, InnermostType DEF ReporterTypeOK, RestoreScope, globals
<1>4. ScopesAreCounted'
  BY <1>1, <1>2, LiveSame DEF ReporterInv, ScopesAreCounted
<1>5. ScopedIsCurrent'
  BY <1>2 DEF ReporterInv, ScopedIsCurrent
<1>6. GuardsNest' /\ FastIsUnscoped' /\ ScopeIsHeard'
  BY <1>1, <1>2 DEF ReporterInv, GuardsNest, FastIsUnscoped, ScopeIsHeard, Innermost
<1> QED
  BY <1>3, <1>4, <1>5, <1>6 DEF ReporterInv

(* The step the argument is about: a thread that has a guard has been counted,  *)
(* so it does not find SCOPED_COUNT at 0 and hears its thread-local.           *)
LEMMA GetDefaultStep ==
    ASSUME ReporterInv, NEW t \in Threads, GetDefault(t)
    PROVE  ReporterInv'
<1>1. /\ ReporterTypeOK
      /\ at[t] = Idle /\ at[t].op = "idle" /\ scoped[t] = Current(t)
      /\ UNCHANGED <<globals, scopedCount, scoped, guards>>
      /\ at' = [at EXCEPT ![t] = IF scopedCount = 0 THEN In("fast", NoReporter)
                                                    ELSE In("hearing", scoped[t])]
  BY CallsAreCalls DEF ReporterInv, ScopedIsCurrent, GetDefault, scopes
<1>2. guards[t] # <<>> => scopedCount # 0
  <2> SUFFICES ASSUME guards[t] # <<>> PROVE scopedCount # 0
    OBVIOUS
  <2>1. <<t, 1>> \in Live
    BY <1>1, InnermostType, LiveMember DEF Counted
  <2> QED
    BY <2>1, FS_EmptySet DEF ReporterInv, ScopesAreCounted
<1>3. /\ at'[t] \in Call
      /\ at'[t].op \in {"fast", "hearing"}
      /\ guards[t] # <<>> => at'[t].op = "hearing" /\ at'[t].report = Current(t)
      /\ \A u \in Threads \ {t} : at'[u] = at[u]
      /\ \A u \in Threads : Current(u)' = Current(u)
  BY <1>1, <1>2, CallsAreCalls, InnermostType DEF ReporterTypeOK, Current, Innermost
<1>4. ReporterTypeOK'
  BY <1>1, <1>3 DEF ReporterTypeOK, globals
<1>5. \A u \in Threads : Counted(u)' = Counted(u)
  BY <1>1, <1>3 DEF Counted
<1>6. ScopesAreCounted'
  BY <1>1, <1>3, <1>5, LiveSame DEF ReporterInv, ScopesAreCounted
<1>7. ScopedIsCurrent'
  BY <1>1, <1>3 DEF ReporterInv, ScopedIsCurrent
<1>8. GuardsNest' /\ FastIsUnscoped'
  BY <1>1, <1>3 DEF ReporterInv, GuardsNest, FastIsUnscoped
<1>9. ScopeIsHeard'
  BY <1>1, <1>3 DEF ReporterInv, ScopeIsHeard, Innermost, Current
<1> QED
  BY <1>4, <1>6, <1>7, <1>8, <1>9 DEF ReporterInv

LEMMA HearSteps ==
    ASSUME ReporterInv, NEW t \in Threads, HearGlobal(t) \/ Heard(t)
    PROVE  ReporterInv'
<1>1. /\ UNCHANGED <<globals, scopedCount, scoped, guards>>
      /\ at[t].op \in {"fast", "hearing"} /\ at'[t].op \in {"hearing", "idle"}
      /\ at'[t].op = "hearing" => guards[t] = <<>>
      /\ at' = [at EXCEPT ![t] = at'[t]] /\ at'[t] \in Call
  BY CallsAreCalls
     DEF ReporterInv, ReporterTypeOK, FastIsUnscoped, HearGlobal, Heard, scopes
<1>2. /\ \A u \in Threads \ {t} : at'[u] = at[u]
      /\ \A u \in Threads : Counted(u)' = Counted(u) /\ Current(u)' = Current(u)
  BY <1>1 DEF ReporterInv, ReporterTypeOK, Counted, Current, Innermost
<1>3. ReporterTypeOK'
  BY <1>1 DEF ReporterInv, ReporterTypeOK, globals
<1>4. ScopesAreCounted'
  BY <1>1, <1>2, LiveSame DEF ReporterInv, ScopesAreCounted
<1>5. ScopedIsCurrent'
  BY <1>1, <1>2 DEF ReporterInv, ScopedIsCurrent
<1>6. GuardsNest' /\ FastIsUnscoped' /\ ScopeIsHeard'
  BY <1>1, <1>2 DEF ReporterInv, GuardsNest, FastIsUnscoped, ScopeIsHeard, Innermost
<1> QED
  BY <1>3, <1>4, <1>5, <1>6 DEF ReporterInv

LEMMA ReporterUnchanged ==
    ASSUME ReporterInv, UNCHANGED reporterVars
    PROVE  ReporterInv'
<1>1. UNCHANGED <<globalReporterState, globalReporter, scopedCount, scoped, guards, at>>
  BY DEF reporterVars, globals, scopes
<1>2. Live' = Live
  BY <1>1 DEF Live, Counted
<1> QED
  BY <1>1, <1>2
     DEF ReporterInv, ReporterTypeOK, GuardsNest, ScopedIsCurrent, Current, ScopesAreCounted,
         FastIsUnscoped, ScopeIsHeard, Innermost

LEMMA ReporterStep ==
    ASSUME ReporterInv, NEW t \in Threads, Reports(t)
    PROVE  ReporterInv'
  BY GlobalSteps, EnterScopeStep, CountScopeStep, LeaveScopeStep, RestoreScopeStep,
     GetDefaultStep, HearSteps
     DEF Reports, Proceed

-----------------------------------------------------------------------------
(* The pool's part. *)

Tasks == {"free", "spawn", "compile", "success", "compiled", "rejected"}

PoolTypeOK ==
    /\ outcome \in [Builders -> {None} \cup UNION {[Jobs[b] -> BOOLEAN] : b \in Builders}]
    /\ phase \in [Builders -> {"ready", "capturing", "running"}]
    /\ captured \in [Builders -> Report]
    /\ queue \in [Builders -> SUBSET UNION {Jobs[b] : b \in Builders}]
    /\ collected \in [Builders -> SUBSET UNION {Jobs[b] : b \in Builders}]
    /\ failed \in [Builders -> BOOLEAN]
    /\ task \in [Threads -> Tasks]
    /\ job \in [Threads -> {None} \cup UNION {Jobs[b] : b \in Builders}]
    /\ DOMAIN result = Builders

(* A thread with a job is a runner of a running build, and has a job of its.   *)
JobsAreRun ==
    \A t \in Threads : task[t] # "free" =>
        /\ t \in Runners(BuildOf(t))
        /\ phase[BuildOf(t)] = "running"
        /\ job[t] \in Jobs[BuildOf(t)]

(* A worker's only scope is the one around its job.                            *)
WorkerScope ==
    \A w \in Workers :
        /\ task[w] = "free" => guards[w] = <<>> /\ at[w] = Idle
        /\ task[w] \in {"spawn", "compile", "success"} =>
              Len(guards[w]) = 1 /\ guards[w][1].reporter = captured[Pool[w]]
        /\ task[w] \in {"compiled", "rejected"} => at[w].op \in {"idle", "leaving"}

(* Nobody is in the middle of a call in a state that leaves no time for it.     *)
CallsInPlace ==
    \A t \in Threads :
        /\ task[t] = "compile" => at[t] = Idle
        /\ task[t] \in {"compiled", "rejected"} => at[t].op \notin {"fast", "hearing"}
        /\ task[t] = "free" /\ at[t].op \in {"fast", "hearing"} =>
              t \in Builders /\ phase[t] = "capturing"

(* What the workers are given is what their caller is in the scope of.          *)
CapturedIsCurrent ==
    \A b \in Builders :
        /\ phase[b] = "capturing" => PoolOf(b) # {} /\ at[b].op \in {"fast", "hearing"}
        /\ phase[b] = "running" /\ PoolOf(b) # {} =>
              /\ at[b] = Idle
              /\ guards[b] # <<>> => captured[b] = Innermost(b).reporter

(* The bookkeeping of a build: nothing is lost, done twice or made up.          *)
Accounting ==
    \A b \in Builders :
        /\ phase[b] = "ready" => queue[b] = {} /\ collected[b] = {} /\ ~failed[b]
        /\ phase[b] # "ready" =>
              /\ outcome[b] \in [Jobs[b] -> BOOLEAN]
              /\ result[b] = None
              /\ queue[b] \cup collected[b] \subseteq Jobs[b]
              /\ \A j \in collected[b] : outcome[b][j]
              /\ failed[b] => \E j \in Jobs[b] : ~outcome[b][j]
              /\ ~failed[b] => \A j \in Jobs[b] :
                    \/ j \in queue[b] \cup collected[b]
                    \/ \E t \in Runners(b) : task[t] # "free" /\ job[t] = j

(* What a thread has learnt about its job is true.                              *)
VerdictIsOutcome ==
    \A t \in Threads :
        /\ task[t] \in {"success", "compiled"} => outcome[BuildOf(t)][job[t]]
        /\ task[t] = "rejected" => ~outcome[BuildOf(t)][job[t]]

PoolInv ==
    /\ PoolTypeOK
    /\ JobsAreRun
    /\ WorkerScope
    /\ CallsInPlace
    /\ CapturedIsCurrent
    /\ Accounting
    /\ VerdictIsOutcome

(* The inductive invariant. *)
Inv == ReporterInv /\ PoolInv

LEMMA ThreadFacts ==
    /\ \A t \in Threads : /\ BuildOf(t) \in Builders
                          /\ t \in Workers \/ t \in Builders
    /\ \A w \in Workers : /\ w \in Threads /\ w \notin Builders
                          /\ BuildOf(w) = Pool[w] /\ w \in PoolOf(Pool[w])
                          /\ PoolOf(Pool[w]) # {} /\ w \in Runners(Pool[w])
    /\ \A b \in Builders : b \in Threads /\ b \notin Workers /\ BuildOf(b) = b
    /\ \A b \in Builders : \A t \in Runners(b) : t \in Threads /\ BuildOf(t) = b
    /\ \A b \in Builders : b \in Runners(b) <=> PoolOf(b) = {}
    /\ \A b \in Builders : None \notin Jobs[b] /\ Installs[b] \subseteq Report /\ Scopes[b] \subseteq Report
  BY PoolsAreWorkers DEF BuildOf, PoolOf, Runners, Report

(* Every step of the builds is a step of one thread in the library, or none.   *)
LEMMA StepsReport ==
    ASSUME PoolInv, Next
    PROVE  (\E t \in Threads : Reports(t)) \/ UNCHANGED reporterVars
<1>1. \A b \in Builders : captured[b] \in Report
  BY DEF PoolInv, PoolTypeOK
<1>2. ASSUME NEW t \in Threads, Work(t)
      PROVE  Reports(t) \/ UNCHANGED reporterVars
  <2>1. CASE Proceed(t)
    BY <2>1 DEF Reports
  <2>2. CASE t \in Builders /\ Capture(t)
    BY <2>2 DEF Reports, Capture
  <2>3. CASE \E j \in Jobs[BuildOf(t)] : TakeJob(t, j)
    BY <1>1, <2>3, ThreadFacts DEF Reports, TakeJob
  <2>4. CASE BeginReport(t) \/ EndReport(t) \/ DropGuard(t)
    BY <2>4 DEF Reports, BeginReport, EndReport, DropGuard
  <2>5. CASE CompileJob(t) \/ Collect(t)
    BY <2>5 DEF CompileJob, Collect
  <2> QED
    BY <1>2, <2>1, <2>2, <2>3, <2>4, <2>5 DEF Work
<1>3. ASSUME NEW b \in Builders, Start(b) \/ Return(b) \/ TakeResult(b) \/ Caller(b)
      PROVE  Reports(b) \/ UNCHANGED reporterVars
  BY <1>3, ThreadFacts DEF Reports, Start, Return, TakeResult, Caller
<1> QED
  BY <1>2, <1>3, ThreadFacts DEF Next

LEMMA PoolInitially == Init => PoolInv
<1> SUFFICES ASSUME Init PROVE PoolInv
  OBVIOUS
<1>1. PoolTypeOK
  BY CallsAreCalls DEF Init, PoolTypeOK, Tasks
<1>2. \A t \in Threads : task[t] = "free" /\ guards[t] = <<>> /\ at[t] = Idle /\ at[t].op = "idle"
  BY CallsAreCalls DEF Init, ReporterInit
<1>3. \A b \in Builders : phase[b] = "ready" /\ queue[b] = {} /\ collected[b] = {} /\ ~failed[b]
  BY DEF Init
<1> QED
  BY <1>1, <1>2, <1>3, ThreadFacts
     DEF PoolInv, JobsAreRun, WorkerScope, CallsInPlace, CapturedIsCurrent, Accounting,
         VerdictIsOutcome

-----------------------------------------------------------------------------
(* One lemma for each action of the builds; <1>1 is what it does.              *)

LEMMA StartStep ==
    ASSUME Inv, NEW b \in Builders, Start(b)
    PROVE  PoolInv'
<1>1. /\ phase[b] = "ready" /\ result[b] = None
      /\ outcome' = [outcome EXCEPT ![b] = outcome'[b]] /\ outcome'[b] \in [Jobs[b] -> BOOLEAN]
      /\ queue' = [queue EXCEPT ![b] = Jobs[b]]
      /\ phase' = [phase EXCEPT ![b] = IF PoolOf(b) = {} THEN "running" ELSE "capturing"]
      /\ at[b] = Idle
      /\ \A u \in Threads \ {b} : at'[u] = at[u]
      /\ PoolOf(b) # {} => at'[b].op \in {"fast", "hearing"}
      /\ PoolOf(b) = {} => at'[b] = Idle
      /\ UNCHANGED <<guards, captured, collected, failed, result, task, job>>
  BY CallsAreCalls, ThreadFacts
     DEF Start, GetDefault, Inv, PoolInv, PoolTypeOK, ReporterInv, ReporterTypeOK,
         reporterVars, scopes
<1>2. PoolTypeOK'
  BY <1>1, ThreadFacts, CallsAreCalls DEF Inv, PoolInv, PoolTypeOK, Tasks
<1>3. JobsAreRun'
  BY <1>1, ThreadFacts, CallsAreCalls DEF Inv, PoolInv, PoolTypeOK, JobsAreRun
<1>4. WorkerScope'
  BY <1>1, ThreadFacts, CallsAreCalls DEF Inv, PoolInv, PoolTypeOK, WorkerScope, JobsAreRun, CallsInPlace
<1>5. CallsInPlace'
  BY <1>1, ThreadFacts, CallsAreCalls DEF Inv, PoolInv, PoolTypeOK, CallsInPlace, JobsAreRun, WorkerScope, CapturedIsCurrent
<1>6. CapturedIsCurrent'
  BY <1>1, ThreadFacts, CallsAreCalls DEF Inv, PoolInv, PoolTypeOK, CapturedIsCurrent, JobsAreRun, Innermost
<1>7. Accounting'
  BY <1>1, ThreadFacts, CallsAreCalls DEF Inv, PoolInv, PoolTypeOK, Accounting, JobsAreRun, VerdictIsOutcome
<1>8. VerdictIsOutcome'
  BY <1>1, ThreadFacts, CallsAreCalls DEF Inv, PoolInv, PoolTypeOK, VerdictIsOutcome, JobsAreRun, Accounting
<1> QED
  BY <1>2, <1>3, <1>4, <1>5, <1>6, <1>7, <1>8 DEF PoolInv

LEMMA CaptureStep ==
    ASSUME Inv, NEW b \in Builders, Capture(b)
    PROVE  PoolInv'
<1>1. /\ phase[b] = "capturing" /\ at[b].op = "hearing"
      /\ at[b].report \in Report
      /\ guards[b] # <<>> => at[b].report = Innermost(b).reporter
      /\ captured' = [captured EXCEPT ![b] = at[b].report]
      /\ phase' = [phase EXCEPT ![b] = "running"]
      /\ \A u \in Threads \ {b} : at'[u] = at[u]
      /\ at'[b] = Idle
      /\ UNCHANGED <<guards, outcome, queue, collected, failed, result, task, job>>
  BY ThreadFacts
     DEF Capture, Heard, Inv, ReporterInv, ReporterTypeOK, ScopeIsHeard, Call, scopes
<1>2. PoolTypeOK'
  BY <1>1, ThreadFacts, CallsAreCalls DEF Inv, PoolInv, PoolTypeOK, Tasks
<1>3. JobsAreRun'
  BY <1>1, ThreadFacts, CallsAreCalls DEF Inv, PoolInv, PoolTypeOK, JobsAreRun
<1>4. WorkerScope'
  BY <1>1, ThreadFacts, CallsAreCalls DEF Inv, PoolInv, PoolTypeOK, WorkerScope, JobsAreRun, CallsInPlace
<1>5. CallsInPlace'
  BY <1>1, ThreadFacts, CallsAreCalls DEF Inv, PoolInv, PoolTypeOK, CallsInPlace, JobsAreRun, WorkerScope, CapturedIsCurrent
<1>6. CapturedIsCurrent'
  BY <1>1, ThreadFacts, CallsAreCalls DEF Inv, PoolInv, PoolTypeOK, CapturedIsCurrent, JobsAreRun, Innermost
<1>7. Accounting'
  BY <1>1, ThreadFacts, CallsAreCalls DEF Inv, PoolInv, PoolTypeOK, Accounting, JobsAreRun, VerdictIsOutcome
<1>8. VerdictIsOutcome'
  BY <1>1, ThreadFacts, CallsAreCalls DEF Inv, PoolInv, PoolTypeOK, VerdictIsOutcome, JobsAreRun, Accounting
<1> QED
  BY <1>2, <1>3, <1>4, <1>5, <1>6, <1>7, <1>8 DEF PoolInv

LEMMA TakeJobStep ==
    ASSUME Inv, NEW t \in Threads, NEW j \in Jobs[BuildOf(t)], TakeJob(t, j)
    PROVE  PoolInv'
<1> DEFINE b == BuildOf(t)
           g == [reporter |-> captured[b], prior |-> scoped[t]]
<1>1. /\ phase[b] = "running" /\ t \in Runners(b)
      /\ task[t] = "free" /\ j \in queue[b] /\ ~failed[b]
      /\ queue' = [queue EXCEPT ![b] = @ \ {j}]
      /\ task' = [task EXCEPT ![t] = "spawn"]
      /\ job' = [job EXCEPT ![t] = j]
      /\ UNCHANGED <<outcome, phase, captured, collected, failed, result>>
      /\ \A u \in Threads \ {t} : guards'[u] = guards[u] /\ at'[u] = at[u]
      /\ t \in Builders => guards'[t] = guards[t] /\ at'[t] = at[t]
      /\ t \in Workers => guards'[t] = Append(<<>>, g) /\ at'[t].op = "entering"
  BY ThreadFacts, CallsAreCalls
     DEF TakeJob, EnterScope, reporterVars, scopes, Inv, ReporterInv, ReporterTypeOK, PoolInv, WorkerScope
<1>2. PoolTypeOK'
  BY <1>1, ThreadFacts, CallsAreCalls DEF Inv, PoolInv, PoolTypeOK, Tasks
<1>3. JobsAreRun'
  BY <1>1, ThreadFacts, CallsAreCalls DEF Inv, PoolInv, PoolTypeOK, JobsAreRun
<1>4. WorkerScope'
  <2>1. Len(Append(<<>>, g)) = 1 /\ Append(<<>>, g)[1] = g /\ g.reporter = captured[b]
    OBVIOUS
  <2> HIDE DEF g
  <2>2. t \in Workers => Len(guards'[t]) = 1 /\ guards'[t][1].reporter = captured[b]
    BY <1>1, <2>1
  <2>3. b = BuildOf(t)
    OBVIOUS
  <2> HIDE DEF b
  <2> QED
    BY <1>1, <2>2, <2>3, ThreadFacts DEF Inv, PoolInv, PoolTypeOK, WorkerScope
<1>5. CallsInPlace'
  BY <1>1, ThreadFacts, CallsAreCalls DEF Inv, PoolInv, PoolTypeOK, CallsInPlace, JobsAreRun, WorkerScope, CapturedIsCurrent
<1>6. CapturedIsCurrent'
  BY <1>1, ThreadFacts, CallsAreCalls DEF Inv, PoolInv, PoolTypeOK, CapturedIsCurrent, JobsAreRun, Innermost
<1>7. Accounting'
  BY <1>1, ThreadFacts, CallsAreCalls DEF Inv, PoolInv, PoolTypeOK, Accounting, JobsAreRun, VerdictIsOutcome
<1>8. VerdictIsOutcome'
  BY <1>1, ThreadFacts, CallsAreCalls DEF Inv, PoolInv, PoolTypeOK, VerdictIsOutcome, JobsAreRun, Accounting
<1> QED
  BY <1>2, <1>3, <1>4, <1>5, <1>6, <1>7, <1>8 DEF PoolInv

LEMMA BeginReportStep ==
    ASSUME Inv, NEW t \in Threads, BeginReport(t)
    PROVE  PoolInv'
<1>1. /\ task[t] \in {"spawn", "success"}
      /\ \A u \in Threads \ {t} : at'[u] = at[u]
      /\ at[t] = Idle /\ at'[t].op \in {"fast", "hearing"}
      /\ UNCHANGED <<guards, outcome, phase, captured, queue, collected, failed, result, task, job>>
  BY CallsAreCalls
     DEF BeginReport, GetDefault, Inv, ReporterInv, ReporterTypeOK, buildVars, scopes
<1>2. PoolTypeOK'
  BY <1>1, ThreadFacts, CallsAreCalls DEF Inv, PoolInv, PoolTypeOK, Tasks
<1>3. JobsAreRun'
  BY <1>1, ThreadFacts, CallsAreCalls DEF Inv, PoolInv, PoolTypeOK, JobsAreRun
<1>4. WorkerScope'
  BY <1>1, ThreadFacts, CallsAreCalls DEF Inv, PoolInv, PoolTypeOK, WorkerScope, JobsAreRun, CallsInPlace
<1>5. CallsInPlace'
  BY <1>1, ThreadFacts, CallsAreCalls DEF Inv, PoolInv, PoolTypeOK, CallsInPlace, JobsAreRun, WorkerScope, CapturedIsCurrent
<1>6. CapturedIsCurrent'
  BY <1>1, ThreadFacts, CallsAreCalls DEF Inv, PoolInv, PoolTypeOK, CapturedIsCurrent, JobsAreRun, Innermost
<1>7. Accounting'
  BY <1>1, ThreadFacts, CallsAreCalls DEF Inv, PoolInv, PoolTypeOK, Accounting, JobsAreRun, VerdictIsOutcome
<1>8. VerdictIsOutcome'
  BY <1>1, ThreadFacts, CallsAreCalls DEF Inv, PoolInv, PoolTypeOK, VerdictIsOutcome, JobsAreRun, Accounting
<1> QED
  BY <1>2, <1>3, <1>4, <1>5, <1>6, <1>7, <1>8 DEF PoolInv

LEMMA EndReportStep ==
    ASSUME Inv, NEW t \in Threads, EndReport(t)
    PROVE  PoolInv'
<1>1. /\ task[t] \in {"spawn", "success"}
      /\ at[t].op = "hearing"
      /\ \A u \in Threads \ {t} : at'[u] = at[u]
      /\ at'[t] = Idle
      /\ task' = [task EXCEPT ![t] = IF @ = "spawn" THEN "compile" ELSE "compiled"]
      /\ UNCHANGED <<guards, outcome, phase, captured, queue, collected, failed, result, job>>
  BY DEF EndReport, Heard, buildVars, scopes, Inv, ReporterInv, ReporterTypeOK
<1>2. PoolTypeOK'
  BY <1>1, ThreadFacts, CallsAreCalls DEF Inv, PoolInv, PoolTypeOK, Tasks
<1>3. JobsAreRun'
  BY <1>1, ThreadFacts, CallsAreCalls DEF Inv, PoolInv, PoolTypeOK, JobsAreRun
<1>4. WorkerScope'
  BY <1>1, ThreadFacts, CallsAreCalls DEF Inv, PoolInv, PoolTypeOK, WorkerScope, JobsAreRun, CallsInPlace
<1>5. CallsInPlace'
  BY <1>1, ThreadFacts, CallsAreCalls DEF Inv, PoolInv, PoolTypeOK, CallsInPlace, JobsAreRun, WorkerScope, CapturedIsCurrent
<1>6. CapturedIsCurrent'
  BY <1>1, ThreadFacts, CallsAreCalls DEF Inv, PoolInv, PoolTypeOK, CapturedIsCurrent, JobsAreRun, Innermost
<1>7. Accounting'
  BY <1>1, ThreadFacts, CallsAreCalls DEF Inv, PoolInv, PoolTypeOK, Accounting, JobsAreRun, VerdictIsOutcome
<1>8. VerdictIsOutcome'
  BY <1>1, ThreadFacts, CallsAreCalls DEF Inv, PoolInv, PoolTypeOK, VerdictIsOutcome, JobsAreRun, Accounting
<1> QED
  BY <1>2, <1>3, <1>4, <1>5, <1>6, <1>7, <1>8 DEF PoolInv

LEMMA CompileJobStep ==
    ASSUME Inv, NEW t \in Threads, CompileJob(t)
    PROVE  PoolInv'
<1>1. /\ task[t] = "compile"
      /\ task' = [task EXCEPT ![t] = IF outcome[BuildOf(t)][job[t]] THEN "success" ELSE "rejected"]
      /\ UNCHANGED <<guards, at, outcome, phase, captured, queue, collected, failed, result, job>>
  BY DEF CompileJob, reporterVars, buildVars, scopes
<1>2. PoolTypeOK'
  BY <1>1, ThreadFacts, CallsAreCalls DEF Inv, PoolInv, PoolTypeOK, Tasks
<1>3. JobsAreRun'
  BY <1>1, ThreadFacts, CallsAreCalls DEF Inv, PoolInv, PoolTypeOK, JobsAreRun
<1>4. WorkerScope'
  BY <1>1, ThreadFacts, CallsAreCalls DEF Inv, PoolInv, PoolTypeOK, WorkerScope, JobsAreRun, CallsInPlace
<1>5. CallsInPlace'
  BY <1>1, ThreadFacts, CallsAreCalls DEF Inv, PoolInv, PoolTypeOK, CallsInPlace, JobsAreRun, WorkerScope, CapturedIsCurrent
<1>6. CapturedIsCurrent'
  BY <1>1, ThreadFacts, CallsAreCalls DEF Inv, PoolInv, PoolTypeOK, CapturedIsCurrent, JobsAreRun, Innermost
<1>7. Accounting'
  BY <1>1, ThreadFacts, CallsAreCalls DEF Inv, PoolInv, PoolTypeOK, Accounting, JobsAreRun, VerdictIsOutcome
<1>8. VerdictIsOutcome'
  BY <1>1, ThreadFacts, CallsAreCalls DEF Inv, PoolInv, PoolTypeOK, VerdictIsOutcome, JobsAreRun, Accounting
<1> QED
  BY <1>2, <1>3, <1>4, <1>5, <1>6, <1>7, <1>8 DEF PoolInv

LEMMA DropGuardStep ==
    ASSUME Inv, NEW t \in Threads, DropGuard(t)
    PROVE  PoolInv'
<1>1. /\ t \in Workers /\ task[t] \in {"compiled", "rejected"}
      /\ \A u \in Threads \ {t} : guards'[u] = guards[u] /\ at'[u] = at[u]
      /\ at'[t].op = "leaving"
      /\ UNCHANGED <<outcome, phase, captured, queue, collected, failed, result, task, job>>
  BY CallsAreCalls DEF DropGuard, LeaveScope, Inv, ReporterInv, ReporterTypeOK, buildVars
<1>2. PoolTypeOK'
  BY <1>1, ThreadFacts, CallsAreCalls DEF Inv, PoolInv, PoolTypeOK, Tasks
<1>3. JobsAreRun'
  BY <1>1, ThreadFacts, CallsAreCalls DEF Inv, PoolInv, PoolTypeOK, JobsAreRun
<1>4. WorkerScope'
  BY <1>1, ThreadFacts, CallsAreCalls DEF Inv, PoolInv, PoolTypeOK, WorkerScope, JobsAreRun, CallsInPlace
<1>5. CallsInPlace'
  BY <1>1, ThreadFacts, CallsAreCalls DEF Inv, PoolInv, PoolTypeOK, CallsInPlace, JobsAreRun, WorkerScope, CapturedIsCurrent
<1>6. CapturedIsCurrent'
  <2>1. \A b \in Builders : at'[b] = at[b] /\ guards'[b] = guards[b]
    BY <1>1, ThreadFacts
  <2> QED
    BY <1>1, <2>1 DEF Inv, PoolInv, PoolTypeOK, CapturedIsCurrent, Innermost
<1>7. Accounting'
  BY <1>1, ThreadFacts, CallsAreCalls DEF Inv, PoolInv, PoolTypeOK, Accounting, JobsAreRun, VerdictIsOutcome
<1>8. VerdictIsOutcome'
  BY <1>1, ThreadFacts, CallsAreCalls DEF Inv, PoolInv, PoolTypeOK, VerdictIsOutcome, JobsAreRun, Accounting
<1> QED
  BY <1>2, <1>3, <1>4, <1>5, <1>6, <1>7, <1>8 DEF PoolInv

LEMMA CollectStep ==
    ASSUME Inv, NEW t \in Threads, Collect(t)
    PROVE  PoolInv'
<1> DEFINE b == BuildOf(t)
<1>1. /\ task[t] \in {"compiled", "rejected"} /\ at[t] = Idle
      /\ t \in Workers => guards[t] = <<>>
      /\ task[t] = "compiled" => collected' = [collected EXCEPT ![b] = @ \cup {job[t]}] /\ failed' = failed
      /\ task[t] = "rejected" => failed' = [failed EXCEPT ![b] = TRUE] /\ collected' = collected
      /\ task' = [task EXCEPT ![t] = "free"]
      /\ job' = [job EXCEPT ![t] = None]
      /\ UNCHANGED <<guards, at, outcome, phase, captured, queue, result>>
  BY DEF Collect, reporterVars, scopes
<1>2. PoolTypeOK'
  <2>1. b \in Builders /\ job[t] \in Jobs[b]
    BY <1>1, ThreadFacts DEF Inv, PoolInv, JobsAreRun
  <2>2. collected' \in [Builders -> SUBSET UNION {Jobs[c] : c \in Builders}]
    BY <1>1, <2>1 DEF Inv, PoolInv, PoolTypeOK
  <2> QED
    BY <1>1, <2>1, <2>2 DEF Inv, PoolInv, PoolTypeOK, Tasks
<1>3. JobsAreRun'
  BY <1>1, ThreadFacts, CallsAreCalls DEF Inv, PoolInv, PoolTypeOK, JobsAreRun
<1>4. WorkerScope'
  BY <1>1, ThreadFacts, CallsAreCalls DEF Inv, PoolInv, PoolTypeOK, WorkerScope, JobsAreRun, CallsInPlace
<1>5. CallsInPlace'
  BY <1>1, ThreadFacts, CallsAreCalls DEF Inv, PoolInv, PoolTypeOK, CallsInPlace, JobsAreRun, WorkerScope, CapturedIsCurrent
<1>6. CapturedIsCurrent'
  BY <1>1, ThreadFacts, CallsAreCalls DEF Inv, PoolInv, PoolTypeOK, CapturedIsCurrent, JobsAreRun, Innermost
<1>7. Accounting'
  BY <1>1, ThreadFacts, CallsAreCalls DEF Inv, PoolInv, PoolTypeOK, Accounting, JobsAreRun, VerdictIsOutcome
<1>8. VerdictIsOutcome'
  BY <1>1, ThreadFacts, CallsAreCalls DEF Inv, PoolInv, PoolTypeOK, VerdictIsOutcome, JobsAreRun, Accounting
<1> QED
  BY <1>2, <1>3, <1>4, <1>5, <1>6, <1>7, <1>8 DEF PoolInv

LEMMA ReturnStep ==
    ASSUME Inv, NEW b \in Builders, Return(b)
    PROVE  PoolInv'
<1>1. /\ phase[b] = "running"
      /\ \A t \in Runners(b) : task[t] = "free"
      /\ phase' = [phase EXCEPT ![b] = "ready"]
      /\ captured' = [captured EXCEPT ![b] = NoReporter]
      /\ queue' = [queue EXCEPT ![b] = {}]
      /\ collected' = [collected EXCEPT ![b] = {}]
      /\ failed' = [failed EXCEPT ![b] = FALSE]
      /\ DOMAIN result' = DOMAIN result
      /\ \A c \in Builders \ {b} : result'[c] = result[c]
      /\ UNCHANGED <<guards, at, outcome, task, job>>
  BY DEF Return, reporterVars, scopes, Inv, PoolInv, PoolTypeOK
<1>2. PoolTypeOK'
  BY <1>1, ThreadFacts, CallsAreCalls DEF Inv, PoolInv, PoolTypeOK, Tasks
<1>3. JobsAreRun'
  BY <1>1, ThreadFacts, CallsAreCalls DEF Inv, PoolInv, PoolTypeOK, JobsAreRun
<1>4. WorkerScope'
  BY <1>1, ThreadFacts, CallsAreCalls DEF Inv, PoolInv, PoolTypeOK, WorkerScope, JobsAreRun, CallsInPlace
<1>5. CallsInPlace'
  BY <1>1, ThreadFacts, CallsAreCalls DEF Inv, PoolInv, PoolTypeOK, CallsInPlace, JobsAreRun, WorkerScope, CapturedIsCurrent
<1>6. CapturedIsCurrent'
  BY <1>1, ThreadFacts, CallsAreCalls DEF Inv, PoolInv, PoolTypeOK, CapturedIsCurrent, JobsAreRun, Innermost
<1>7. Accounting'
  BY <1>1, ThreadFacts, CallsAreCalls DEF Inv, PoolInv, PoolTypeOK, Accounting, JobsAreRun, VerdictIsOutcome
<1>8. VerdictIsOutcome'
  BY <1>1, ThreadFacts, CallsAreCalls DEF Inv, PoolInv, PoolTypeOK, VerdictIsOutcome, JobsAreRun, Accounting
<1> QED
  BY <1>2, <1>3, <1>4, <1>5, <1>6, <1>7, <1>8 DEF PoolInv

LEMMA TakeResultStep ==
    ASSUME Inv, NEW b \in Builders, TakeResult(b)
    PROVE  PoolInv'
<1>1. /\ result[b] # None
      /\ result' = [result EXCEPT ![b] = None]
      /\ outcome' = [outcome EXCEPT ![b] = None]
      /\ UNCHANGED <<guards, at, phase, captured, queue, collected, failed, task, job>>
  BY DEF TakeResult, reporterVars, scopes
<1>2. PoolTypeOK'
  BY <1>1, ThreadFacts, CallsAreCalls DEF Inv, PoolInv, PoolTypeOK, Tasks
<1>3. JobsAreRun'
  BY <1>1, ThreadFacts, CallsAreCalls DEF Inv, PoolInv, PoolTypeOK, JobsAreRun
<1>4. WorkerScope'
  BY <1>1, ThreadFacts, CallsAreCalls DEF Inv, PoolInv, PoolTypeOK, WorkerScope, JobsAreRun, CallsInPlace
<1>5. CallsInPlace'
  BY <1>1, ThreadFacts, CallsAreCalls DEF Inv, PoolInv, PoolTypeOK, CallsInPlace, JobsAreRun, WorkerScope, CapturedIsCurrent
<1>6. CapturedIsCurrent'
  BY <1>1, ThreadFacts, CallsAreCalls DEF Inv, PoolInv, PoolTypeOK, CapturedIsCurrent, JobsAreRun, Innermost
<1>7. Accounting'
  BY <1>1, ThreadFacts, CallsAreCalls DEF Inv, PoolInv, PoolTypeOK, Accounting, JobsAreRun, VerdictIsOutcome
<1>8. VerdictIsOutcome'
  BY <1>1, ThreadFacts, CallsAreCalls DEF Inv, PoolInv, PoolTypeOK, VerdictIsOutcome, JobsAreRun, Accounting
<1> QED
  BY <1>2, <1>3, <1>4, <1>5, <1>6, <1>7, <1>8 DEF PoolInv

LEMMA CallerStep ==
    ASSUME Inv, NEW b \in Builders, Caller(b)
    PROVE  PoolInv'
<1>1. /\ phase[b] = "ready"
      /\ \A u \in Threads \ {b} : guards'[u] = guards[u] /\ at'[u] = at[u]
      /\ at'[b].op \in {"setting", "entering", "leaving"}
      /\ UNCHANGED <<outcome, phase, captured, queue, collected, failed, result, task, job>>
  <2>1. ASSUME NEW r, Claim(b, r) \/ EnterScope(b, r) \/ LeaveScope(b)
        PROVE  /\ \A u \in Threads \ {b} : guards'[u] = guards[u] /\ at'[u] = at[u]
               /\ at'[b].op \in {"setting", "entering", "leaving"}
    BY <2>1, CallsAreCalls, ThreadFacts
       DEF Claim, EnterScope, LeaveScope, Inv, ReporterInv, ReporterTypeOK, scopes
  <2> QED
    BY <2>1 DEF Caller, buildVars
<1>2. PoolTypeOK'
  BY <1>1, ThreadFacts, CallsAreCalls DEF Inv, PoolInv, PoolTypeOK, Tasks
<1>3. JobsAreRun'
  BY <1>1, ThreadFacts, CallsAreCalls DEF Inv, PoolInv, PoolTypeOK, JobsAreRun
<1>4. WorkerScope'
  BY <1>1, ThreadFacts, CallsAreCalls DEF Inv, PoolInv, PoolTypeOK, WorkerScope, JobsAreRun, CallsInPlace
<1>5. CallsInPlace'
  BY <1>1, ThreadFacts, CallsAreCalls DEF Inv, PoolInv, PoolTypeOK, CallsInPlace, JobsAreRun, WorkerScope, CapturedIsCurrent
<1>6. CapturedIsCurrent'
  BY <1>1, ThreadFacts, CallsAreCalls DEF Inv, PoolInv, PoolTypeOK, CapturedIsCurrent, JobsAreRun, Innermost
<1>7. Accounting'
  BY <1>1, ThreadFacts, CallsAreCalls DEF Inv, PoolInv, PoolTypeOK, Accounting, JobsAreRun, VerdictIsOutcome
<1>8. VerdictIsOutcome'
  BY <1>1, ThreadFacts, CallsAreCalls DEF Inv, PoolInv, PoolTypeOK, VerdictIsOutcome, JobsAreRun, Accounting
<1> QED
  BY <1>2, <1>3, <1>4, <1>5, <1>6, <1>7, <1>8 DEF PoolInv

LEMMA ProceedStep ==
    ASSUME Inv, NEW t \in Threads, Proceed(t), UNCHANGED <<buildVars, task, job>>
    PROVE  PoolInv'
<1>1. /\ at[t].op \in {"setting", "stored", "entering", "leaving", "fast"}
      /\ \A u \in Threads \ {t} : at'[u] = at[u]
      /\ at[t].op = "fast" => at'[t].op = "hearing"
      /\ at[t].op # "fast" => at'[t].op \in {"stored", "idle"}
      /\ at[t].op = "leaving" => at'[t].op = "idle"
      /\ UNCHANGED <<guards, outcome, phase, captured, queue, collected, failed, result, task, job>>
  BY CallsAreCalls
     DEF Proceed, Store, Publish, CountScope, RestoreScope, HearGlobal, Inv, ReporterInv,
         ReporterTypeOK, buildVars, scopes
<1>2. PoolTypeOK'
  BY <1>1, ThreadFacts, CallsAreCalls DEF Inv, PoolInv, PoolTypeOK, Tasks
<1>3. JobsAreRun'
  BY <1>1, ThreadFacts, CallsAreCalls DEF Inv, PoolInv, PoolTypeOK, JobsAreRun
<1>4. WorkerScope'
  <2>1. ASSUME NEW w \in Workers, task[w] = "free" PROVE at'[w] = at[w]
    BY <1>1, <2>1, ThreadFacts, CallsAreCalls DEF Inv, PoolInv, WorkerScope
  <2>2. ASSUME NEW w \in Workers, task[w] \in {"compiled", "rejected"}
        PROVE  at'[w].op \in {"idle", "leaving"}
    BY <1>1, <2>2, ThreadFacts DEF Inv, PoolInv, WorkerScope
  <2> QED
    BY <1>1, <2>1, <2>2 DEF Inv, PoolInv, WorkerScope
<1>5. CallsInPlace'
  BY <1>1, ThreadFacts, CallsAreCalls DEF Inv, PoolInv, PoolTypeOK, CallsInPlace, JobsAreRun, WorkerScope, CapturedIsCurrent
<1>6. CapturedIsCurrent'
  BY <1>1, ThreadFacts, CallsAreCalls DEF Inv, PoolInv, PoolTypeOK, CapturedIsCurrent, JobsAreRun, Innermost
<1>7. Accounting'
  BY <1>1, ThreadFacts, CallsAreCalls DEF Inv, PoolInv, PoolTypeOK, Accounting, JobsAreRun, VerdictIsOutcome
<1>8. VerdictIsOutcome'
  BY <1>1, ThreadFacts, CallsAreCalls DEF Inv, PoolInv, PoolTypeOK, VerdictIsOutcome, JobsAreRun, Accounting
<1> QED
  BY <1>2, <1>3, <1>4, <1>5, <1>6, <1>7, <1>8 DEF PoolInv

-----------------------------------------------------------------------------
LEMMA InvInitially == Init => Inv
  BY ReporterInitially, PoolInitially DEF Init, Inv

LEMMA InvStep == Inv /\ [Next]_vars => Inv'
<1> SUFFICES ASSUME Inv, [Next]_vars PROVE Inv'
  OBVIOUS
<1>1. CASE UNCHANGED vars
  <2>1. UNCHANGED <<reporterVars, guards, at, outcome, phase, captured, queue, collected,
                    failed, result, task, job>>
    BY <1>1 DEF vars, buildVars, reporterVars, scopes
  <2>2. PoolInv'
    BY <2>1
       DEF Inv, PoolInv, PoolTypeOK, JobsAreRun, WorkerScope, CallsInPlace, CapturedIsCurrent,
           Innermost, Accounting, VerdictIsOutcome
  <2> QED
    BY <2>1, <2>2, ReporterUnchanged DEF Inv
<1>2. CASE Next
  <2>1. ReporterInv'
    BY <1>2, StepsReport, ReporterStep, ReporterUnchanged DEF Inv
  <2>2. ASSUME NEW t \in Threads, Work(t) PROVE PoolInv'
    BY <2>2, ProceedStep, CaptureStep, TakeJobStep, BeginReportStep, EndReportStep,
       CompileJobStep, DropGuardStep, CollectStep
       DEF Work
  <2>3. ASSUME NEW b \in Builders, Start(b) \/ Return(b) \/ TakeResult(b) \/ Caller(b)
        PROVE  PoolInv'
    BY <2>3, StartStep, ReturnStep, TakeResultStep, CallerStep
  <2> QED
    BY <1>2, <2>1, <2>2, <2>3 DEF Next, Inv
<1> QED
  BY <1>1, <1>2

(* The invariant of the scopes and the bookkeeping of the builds holds in every  *)
(* state of a program that scopes, installs and builds as it likes.             *)
THEOREM InvariantHolds == Spec => []Inv
<1> QED
  BY InvInitially, InvStep, PTL DEF Spec

(* set_scoped and get_default: a thread in a scope hears that scope's reporter,  *)
(* however the counter all threads share goes up and down meanwhile.            *)
THEOREM ScopesAreHeard == Spec => []ScopeIsHeard
<1>1. Inv => ScopeIsHeard
  BY DEF Inv, ReporterInv
<1> QED
  BY <1>1, InvariantHolds, PTL

(* A worker hears what it was given, and its caller was given the same.          *)
LEMMA InvGivesBuildIsHeard == Inv => BuildIsHeard
<1> SUFFICES ASSUME Inv, NEW t \in Threads,
                    at[t].op = "hearing", task[t] # "free", guards[BuildOf(t)] # <<>>
             PROVE  at[t].report = Innermost(BuildOf(t)).reporter
  BY DEF BuildIsHeard
<1> DEFINE b == BuildOf(t)
<1>1. /\ t \in Runners(b) /\ phase[b] = "running" /\ b \in Builders
      /\ task[t] \in {"spawn", "compile", "success"}
  BY ThreadFacts, CallsAreCalls
     DEF Inv, PoolInv, JobsAreRun, CallsInPlace, PoolTypeOK, Tasks
<1>2. guards[t] # <<>> => at[t].report = Innermost(t).reporter
  BY DEF Inv, ReporterInv, ScopeIsHeard
<1>3. CASE t \in Builders
  BY <1>2, <1>3, ThreadFacts
<1>4. CASE t \in Workers
  <2>1. Len(guards[t]) = 1 /\ guards[t][1].reporter = captured[b]
    BY <1>1, <1>4, ThreadFacts DEF Inv, PoolInv, WorkerScope
  <2>2. guards[t] # <<>> /\ Innermost(t).reporter = captured[b]
    BY <2>1, InnermostType DEF Inv, ReporterInv, Innermost
  <2>3. captured[b] = Innermost(b).reporter
    BY <1>1, <1>4, ThreadFacts DEF Inv, PoolInv, CapturedIsCurrent
  <2> QED
    BY <1>2, <2>2, <2>3
<1> QED
  BY <1>3, <1>4, ThreadFacts

(* compile_parallel: the events of a build reach the reporter its caller scoped, *)
(* on whichever thread they occur.                                              *)
THEOREM BuildsAreHeard == Spec => []BuildIsHeard
  BY InvGivesBuildIsHeard, InvariantHolds, PTL

-----------------------------------------------------------------------------
(* The refinement: Return is Finish, what the jobs do in between is a stutter.   *)
LEMMA CompileJobsInitially == Init => CJ!Init
  BY DEF Init, CJ!Init

LEMMA CompileJobsStep == Inv /\ [Next]_vars => [CJ!Next]_CJ!vars
<1> SUFFICES ASSUME Inv, [Next]_vars PROVE [CJ!Next]_CJ!vars
  OBVIOUS
<1> DEFINE running == [b \in Builders |-> phase[b] # "ready"]
<1>1. PoolTypeOK /\ Accounting
  BY DEF Inv, PoolInv
<1>2. CASE UNCHANGED vars
  BY <1>2 DEF vars, buildVars, CJ!vars
<1>3. ASSUME NEW t \in Threads, Work(t) PROVE UNCHANGED CJ!vars
  <2>1. CASE t \in Builders /\ Capture(t)
    <3>1. running' = running
      BY <1>1, <2>1 DEF Capture, PoolTypeOK
    <3> QED
      BY <2>1, <3>1 DEF Capture, CJ!vars
  <2>2. CASE Proceed(t) /\ UNCHANGED <<buildVars, task, job>>
    BY <2>2 DEF buildVars, CJ!vars
  <2>3. CASE \E j \in Jobs[BuildOf(t)] : TakeJob(t, j)
    BY <2>3 DEF TakeJob, CJ!vars
  <2>4. CASE BeginReport(t) \/ EndReport(t) \/ CompileJob(t) \/ DropGuard(t) \/ Collect(t)
    BY <2>4 DEF BeginReport, EndReport, CompileJob, DropGuard, Collect, buildVars, CJ!vars
  <2> QED
    BY <1>3, <2>1, <2>2, <2>3, <2>4 DEF Work
<1>4. ASSUME NEW b \in Builders, Start(b) PROVE CJ!Start(b)
  <2>1. ~running[b] /\ result[b] = None
    BY <1>4 DEF Start
  <2>2. running' = [running EXCEPT ![b] = TRUE]
    BY <1>1, <1>4 DEF Start, PoolTypeOK
  <2> QED
    BY <1>4, <2>1, <2>2 DEF Start, CJ!Start
<1>5. ASSUME NEW b \in Builders, Return(b) PROVE CJ!Finish(b)
  <2>1. phase[b] = "running" /\ running[b]
    BY <1>5 DEF Return
  <2>2. running' = [running EXCEPT ![b] = FALSE]
    BY <1>1, <1>5 DEF Return, PoolTypeOK
  <2>3. (IF failed[b] THEN Failed ELSE collected[b])
           = IF \A j \in Jobs[b] : outcome[b][j] THEN Jobs[b] ELSE Failed
    <3>1. CASE failed[b]
      BY <1>1, <2>1, <3>1 DEF Accounting
    <3>2. CASE ~failed[b]
      <4>1. queue[b] = {} /\ \A t \in Runners(b) : task[t] = "free"
        BY <1>5, <3>2 DEF Return
      <4>2. collected[b] \subseteq Jobs[b] /\ \A j \in Jobs[b] : j \in collected[b]
        BY <1>1, <2>1, <3>2, <4>1 DEF Accounting
      <4>3. \A j \in collected[b] : outcome[b][j]
        BY <1>1, <2>1 DEF Accounting
      <4> QED
        BY <3>2, <4>2, <4>3
    <3> QED
      BY <1>1, <3>1, <3>2 DEF PoolTypeOK
  <2>4. /\ result' = [result EXCEPT ![b] = IF \A j \in Jobs[b] : outcome[b][j] THEN Jobs[b] ELSE Failed]
        /\ UNCHANGED outcome
    BY <1>5, <2>3 DEF Return
  <2> QED
    BY <2>1, <2>2, <2>4 DEF CJ!Finish
<1>6. ASSUME NEW b \in Builders, TakeResult(b) PROVE CJ!Take(b)
  BY <1>6 DEF TakeResult, CJ!Take
<1>7. ASSUME NEW b \in Builders, Caller(b) PROVE UNCHANGED CJ!vars
  BY <1>7 DEF Caller, buildVars, CJ!vars
<1> QED
  BY <1>2, <1>3, <1>4, <1>5, <1>6, <1>7 DEF Next, CJ!Next

(* compile_sequential and compile_parallel alike return the outputs of all jobs,  *)
(* or an error exactly when a job was rejected.                                 *)
THEOREM SafetyOfCompileJobs == Spec => CJ!Init /\ [][CJ!Next]_CJ!vars
  BY CompileJobsInitially, CompileJobsStep, InvariantHolds, PTL DEF Spec
=============================================================================
