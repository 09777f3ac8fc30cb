---------------------------- MODULE Engine_proofs ----------------------------
(***************************************************************************)
(* Proofs about Engine, for any number of sessions, workers and rounds,    *)
(* any queue capacity and any proxy files.                                 *)
(***************************************************************************)
EXTENDS Engine, FiniteSetTheorems, SequenceTheorems, TLAPS

-----------------------------------------------------------------------------
(* Which steps concern which part of the state                             *)

LEMMA MainSteps ==
  ASSUME Next
  PROVE  MainStep \/ Signal \/ UNCHANGED main
BY DEF Next, MainStep, SessionGoroutine, ControlStep, Monitor, SetTarget, WorkerStep,
       WorkerReceive, JobBegin, JobEnd, WorkerExit, vars

LEMMA PoolSteps ==
  ASSUME Next
  PROVE  \/ MainStartPool \/ MainStopPool \/ (ControlStep /\ SubmitJob)
         \/ \E w \in Worker : WorkerStep(w)
         \/ UNCHANGED poolVars
BY DEF Next, MainStep, SessionGoroutine, ControlStep, Monitor, SetTarget, vars, Signal,
       MainLoadProxies, MainCreated, MainStartAll, MainStartScheduler, MainStopScheduler,
       MainPoolStopped, MainStopAll, MainSnapshot, Control, Select, ReadCount, NextId

LEMMA SessionSteps ==
  ASSUME Next
  PROVE  \/ MainLoadProxies \/ MainCreated \/ MainStartAll \/ MainStopAll
         \/ \E i \in Id : SessionGoroutine(i)
         \/ UNCHANGED sessionVars
BY DEF Next, MainStep, ControlStep, Monitor, SetTarget, vars, Signal,
       MainStartPool, MainStopPool, MainStartScheduler, MainStopScheduler,
       MainPoolStopped, MainSnapshot, Control, Select, ReadCount, NextId, SubmitJob,
       WorkerStep, WorkerReceive, JobBegin, JobEnd, WorkerExit

LEMMA SchedulerSteps ==
  ASSUME Next
  PROVE  MainStartScheduler \/ MainStopScheduler \/ ControlStep \/ UNCHANGED schedulerVars
BY DEF Next, MainStep, SessionGoroutine, Monitor, SetTarget, vars, Signal,
       MainLoadProxies, MainCreated, MainStartPool, MainStartAll, MainStopPool,
       MainPoolStopped, MainStopAll, MainSnapshot,
       WorkerStep, WorkerReceive, JobBegin, JobEnd, WorkerExit

LEMMA MetricsSteps ==
  ASSUME Next
  PROVE  \/ MainSnapshot \/ Monitor
         \/ \E w \in Worker : JobBegin(w) \/ JobEnd(w)
         \/ UNCHANGED metricsVars
BY DEF Next, MainStep, SessionGoroutine, ControlStep, SetTarget, vars, Signal,
       MainLoadProxies, MainCreated, MainStartPool, MainStartAll, MainStartScheduler,
       MainStopScheduler, MainStopPool, MainPoolStopped, MainStopAll,
       WorkerStep, WorkerReceive, WorkerExit


-----------------------------------------------------------------------------
(* The order of start-up and shutdown                                      *)

\* A worker runs a job exactly while it is in one, and leaves only a drained, closed queue.
PoolInv ==
  /\ jobQueue \in Seq(Id)
  /\ worker \in [Worker -> Running \cup {"new", "waiting", "exited"}]
  /\ job \in [Worker -> Id \cup {NoJob}]
  /\ \A w \in Worker : worker[w] \in Running <=> job[w] # NoJob
  /\ \A w \in Worker : worker[w] = "exited" => closed /\ jobQueue = <<>>

\* A submission is for an ID of a session, and is only made while the scheduler runs.
ControlInv ==
  /\ ctl = "submit" => id \in Id
  /\ main \in {"load", "create", "startPool", "startAll", "startScheduler", "exit"}
       => ctl = "off" /\ jobQueue = <<>> /\ \A w \in Worker : job[w] = NoJob

\* Where main is decides which goroutines run and which sessions there are.
OrderInv ==
  /\ main \in {"load", "create", "startPool", "exit"} => \A w \in Worker : worker[w] = "new"
  /\ closed \in BOOLEAN
  /\ closed <=> main \in {"waitPool", "stopAll", "snapshot", "done"}
  /\ AfterPoolStop => \A w \in Worker : worker[w] = "exited"
  /\ main \in {"load", "create", "snapshot", "done"} => sessions = {}
  /\ main \in {"startPool", "startAll"} =>
       sessions = Id /\ \A i \in Id : state[i] = "idle"
  /\ main \in {"startScheduler", "run", "stopScheduler", "stopPool", "waitPool", "stopAll"} =>
       sessions = Id /\ \A i \in Id : state[i] = "active"

Labels == {"load", "create", "startPool", "startAll", "startScheduler", "run",
           "stopScheduler", "stopPool", "waitPool", "stopAll", "snapshot", "done", "exit"}

LifeInv == PoolInv /\ ControlInv /\ OrderInv /\ SessionTypeOK /\ main \in Labels

LEMMA LifeInit == ASSUME Init PROVE LifeInv
<1>1. PoolInv
  BY EmptySeq DEF Init, NewWorkerPool, PoolInv, Running
<1>2. SessionTypeOK
  BY DEF Init, NewProxyManager, NewSessionManager, SessionTypeOK, ProxyTypeOK
<1>3. ControlInv /\ main \in Labels
  BY DEF Init, NewWorkerPool, NewScheduler, ControlInv, Labels
<1>4. OrderInv
  BY DEF Init, NewWorkerPool, NewSessionManager, OrderInv, AfterPoolStop
<1> QED BY <1>1, <1>2, <1>3, <1>4 DEF LifeInv

LEMMA MainKeepsLife ==
  ASSUME LifeInv, MainStep \/ Signal
  PROVE  LifeInv'
<1> USE DEF LifeInv, Labels, PoolInv, ControlInv, OrderInv, AfterPoolStop
<1>1. CASE MainLoadProxies
  BY <1>1 DEF MainLoadProxies, SessionTypeOK, ProxyTypeOK, poolVars, schedulerVars,
              LoadProxies, proxyVars
<1>2. CASE MainCreated
  BY <1>2 DEF MainCreated, SessionTypeOK, ProxyTypeOK, poolVars, schedulerVars, proxyVars,
              RegisterSessions
<1>3. CASE MainStartPool
  BY <1>3 DEF MainStartPool, SessionTypeOK, ProxyTypeOK, sessionVars, schedulerVars,
              proxyVars, PoolStart, Running
<1>4. CASE MainStartAll
  BY <1>4 DEF MainStartAll, SessionTypeOK, ProxyTypeOK, poolVars, schedulerVars, proxyVars,
              StartAll
<1>5. CASE MainStartScheduler
  BY <1>5 DEF MainStartScheduler, SessionTypeOK, ProxyTypeOK, poolVars, sessionVars,
              proxyVars, SchedulerStart
<1>6. CASE Signal \/ MainStopScheduler
  BY <1>6 DEF Signal, MainStopScheduler, SessionTypeOK, ProxyTypeOK, poolVars, sessionVars,
              schedulerVars, proxyVars, SchedulerStop
<1>7. CASE MainStopPool
  BY <1>7 DEF MainStopPool, SessionTypeOK, ProxyTypeOK, sessionVars, schedulerVars, proxyVars,
              PoolClose
<1>8. CASE MainPoolStopped
  BY <1>8 DEF MainPoolStopped, SessionTypeOK, ProxyTypeOK, poolVars, sessionVars,
              schedulerVars, proxyVars, PoolWaitDone
<1>9. CASE MainStopAll
  BY <1>9 DEF MainStopAll, SessionTypeOK, ProxyTypeOK, poolVars, schedulerVars, proxyVars,
              StopAll
<1>10. CASE MainSnapshot
  BY <1>10 DEF MainSnapshot, SessionTypeOK, ProxyTypeOK, poolVars, sessionVars, schedulerVars,
               proxyVars
<1> QED
  BY <1>1, <1>2, <1>3, <1>4, <1>5, <1>6, <1>7, <1>8, <1>9, <1>10 DEF MainStep

\* The rotation stays in range, so that every session gets a proxy of the file, or none.
LEMMA CreateKeepsLife ==
  ASSUME LifeInv, NEW i \in Id, SessionGoroutine(i)
  PROVE  LifeInv'
<1>1. proxies \in Seq(Proxy)
  BY EmptySeq, ProxyAssumption DEF LifeInv, SessionTypeOK, ProxyTypeOK
<1>2. CASE proxies = <<>>
  BY <1>2 DEF LifeInv, PoolInv, ControlInv, OrderInv, AfterPoolStop, SessionTypeOK, ProxyTypeOK,
     SessionGoroutine, CreateSession, GetNextProxy, Advance, NewSession, NextProxy,
     poolVars, schedulerVars
<1>3. CASE proxies # <<>>
  <2>1. Len(proxies) \in Nat \ {0}
    BY <1>1, <1>3, EmptySeq
  <2>2. index \in 0 .. Len(proxies) - 1
    BY <2>1 DEF LifeInv, SessionTypeOK, ProxyTypeOK
  <2>3. NextProxy \in Proxy /\ Advance \in 0 .. Len(proxies) - 1
    BY <1>1, <1>3, <2>1, <2>2, ElementOfSeq DEF NextProxy, Advance
  <2> QED
    BY <2>1, <2>3 DEF LifeInv, PoolInv, ControlInv, OrderInv, AfterPoolStop, SessionTypeOK,
       ProxyTypeOK, SessionGoroutine, CreateSession, GetNextProxy, NewSession, poolVars,
       schedulerVars
<1> QED BY <1>2, <1>3

LEMMA ControlKeepsLife ==
  ASSUME LifeInv, ControlStep
  PROVE  LifeInv'
<1> USE DEF LifeInv, Labels, ControlStep, OrderInv, AfterPoolStop, SessionTypeOK, ProxyTypeOK,
            sessionVars, proxyVars
<1>1. CASE Select \/ ReadCount \/ NextId
  BY <1>1 DEF Select, ReadCount, NextId, GetSession, poolVars, PoolInv, ControlInv
<1>2. CASE SubmitJob
  <2>1. id \in Id /\ main \notin {"load", "create", "startPool", "startAll", "startScheduler", "exit"}
    BY <1>2 DEF SubmitJob, ControlInv
  <2>2. CASE ~closed
    <3>1. jobQueue' = Append(jobQueue, id)
      BY <1>2, <2>2 DEF SubmitJob, Submit
    <3>2. jobQueue' \in Seq(Id)
      BY <2>1, <3>1, AppendProperties DEF PoolInv
    <3> QED
      BY <1>2, <2>1, <2>2, <3>2 DEF SubmitJob, Submit, PoolInv, ControlInv
  <2>3. CASE closed
    BY <1>2, <2>1, <2>3 DEF SubmitJob, Submit, PoolInv, ControlInv
  <2> QED BY <2>2, <2>3
<1> QED BY <1>1, <1>2 DEF Control

LEMMA WorkerKeepsLife ==
  ASSUME LifeInv, NEW w \in Worker, WorkerStep(w)
  PROVE  LifeInv'
<1> USE DEF LifeInv, Labels, OrderInv, ControlInv, AfterPoolStop, SessionTypeOK, ProxyTypeOK,
            sessionVars, proxyVars, schedulerVars
<1>1. CASE WorkerReceive(w)
  <2>1. Head(jobQueue) \in Id /\ Tail(jobQueue) \in Seq(Id) /\ jobQueue # <<>>
    BY <1>1, HeadTailProperties DEF WorkerReceive, Receive, PoolInv
  <2>2. NoJob \notin Id
    BY PoolAssumption, RoundsAssumption
  <2> QED BY <1>1, <2>1, <2>2 DEF WorkerReceive, Receive, PoolInv, Running
<1>2. CASE JobBegin(w)
  BY <1>2 DEF JobBegin, Finish, PoolInv, Running
<1>3. CASE JobEnd(w)
  BY <1>3 DEF JobEnd, Finish, PoolInv, Running
<1>4. CASE WorkerExit(w)
  BY <1>4 DEF WorkerExit, Exit, PoolInv, Running
<1> QED BY <1>1, <1>2, <1>3, <1>4 DEF WorkerStep

\* At every point of main's start-up and shutdown, sessions, workers and the scheduler are
\* in the state main's order promises, whatever the other goroutines do.
THEOREM Life == Spec => []LifeInv
<1>1. ASSUME LifeInv, [Next]_vars
      PROVE  LifeInv'
  <2>1. CASE MainStep \/ Signal
    BY <1>1, <2>1, MainKeepsLife
  <2>2. CASE ControlStep
    BY <1>1, <2>2, ControlKeepsLife
  <2>3. CASE Monitor \/ SetTarget \/ UNCHANGED vars
    BY <1>1, <2>3 DEF Monitor, SetTarget, vars, LifeInv, PoolInv, ControlInv, OrderInv,
       AfterPoolStop, SessionTypeOK, ProxyTypeOK, poolVars, sessionVars, proxyVars, schedulerVars
  <2> QED BY <1>1, <2>1, <2>2, <2>3, CreateKeepsLife, WorkerKeepsLife DEF Next
<1> QED BY <1>1, LifeInit, PTL DEF Spec

\* No job runs on a closed session (main.go's shutdown closes sessions without asking workers).
THEOREM NoJobOnClosedSession == Spec => []NoUseAfterClose
<1>1. LifeInv => NoUseAfterClose
  BY DEF LifeInv, PoolInv, ControlInv, OrderInv, NoUseAfterClose, Labels, Running, AfterPoolStop
<1> QED BY <1>1, Life, PTL

-----------------------------------------------------------------------------
(* The shape of the state                                                  *)

LEMMA CountIsNat == ASSUME sessions \subseteq Id PROVE Count \in Nat
<1>1. IsFiniteSet(Id)
  BY FS_Interval, SessionsAssumption DEF Id
<1> QED BY <1>1, FS_Subset, FS_CardinalityType DEF Count

LEMMA CapacityIsNat == Capacity \in Nat /\ Size \in Nat \ {0}
BY PoolAssumption DEF Capacity, Size

LEMMA PoolTypeKept ==
  ASSUME LifeInv, PoolTypeOK, Next
  PROVE  PoolTypeOK'
<1> USE DEF PoolTypeOK
<1>1. CASE MainStartPool \/ MainStopPool
  BY <1>1 DEF MainStartPool, MainStopPool, PoolStart, PoolClose
<1>2. CASE SubmitJob
  <2>1. id \in Job
    BY <1>2, RoundsAssumption DEF SubmitJob, LifeInv, ControlInv
  <2>2. CASE closed
    BY <1>2, <2>2 DEF SubmitJob, Submit
  <2>3. CASE ~closed
    <3>1. /\ Len(jobQueue) < Capacity /\ jobQueue' = Append(jobQueue, id)
          /\ accepted' = [accepted EXCEPT ![id] = @ + 1]
          /\ UNCHANGED <<closed, worker, job, panicked>>
      BY <1>2, <2>3 DEF SubmitJob, Submit
    <3>2. jobQueue' \in Seq(Job) /\ Len(jobQueue') <= Capacity
      BY <2>1, <3>1, AppendProperties, LenProperties, CapacityIsNat
    <3> QED BY <2>1, <3>1, <3>2
  <2> QED BY <2>2, <2>3
<1>3. ASSUME NEW w \in Worker, WorkerReceive(w)
      PROVE  PoolTypeOK'
  <2>1. /\ Head(jobQueue) \in Job /\ Tail(jobQueue) \in Seq(Job)
        /\ Len(Tail(jobQueue)) = Len(jobQueue) - 1
    BY <1>3, HeadTailProperties DEF WorkerReceive, Receive
  <2> QED BY <1>3, <2>1, CapacityIsNat, LenProperties DEF WorkerReceive, Receive, Running
<1>4. ASSUME NEW w \in Worker, JobBegin(w) \/ JobEnd(w) \/ WorkerExit(w)
      PROVE  PoolTypeOK'
  BY <1>4 DEF JobBegin, JobEnd, WorkerExit, Finish, Exit, Running
<1>5. CASE UNCHANGED poolVars
  BY <1>5 DEF poolVars
<1> QED BY <1>1, <1>2, <1>3, <1>4, <1>5, PoolSteps DEF WorkerStep

LEMMA SchedulerTypeKept ==
  ASSUME LifeInv, SchedulerTypeOK, Next
  PROVE  SchedulerTypeOK'
<1> USE DEF SchedulerTypeOK
<1>1. CASE MainStartScheduler \/ MainStopScheduler
  BY <1>1 DEF MainStartScheduler, MainStopScheduler, SchedulerStart, SchedulerStop
<1>2. CASE ControlStep
  <2>1. Count \in Nat
    BY CountIsNat DEF LifeInv, SessionTypeOK
  <2> QED
    BY <1>2, <2>1, RoundsAssumption
       DEF ControlStep, Control, Select, ReadCount, NextId, SubmitJob, Limit
<1>3. CASE UNCHANGED schedulerVars
  BY <1>3 DEF schedulerVars
<1> QED BY <1>1, <1>2, <1>3, SchedulerSteps

LEMMA LoadTypes ==
  ASSUME MetricsTypeOK, NEW r \in Reader, Load(r) \/ Discard(r)
  PROVE  MetricsTypeOK'
BY DEF MetricsTypeOK, Load, Discard

LEMMA MetricsTypeKept ==
  ASSUME MetricsTypeOK, Next
  PROVE  MetricsTypeOK'
<1>1. CASE MainSnapshot \/ Monitor
  BY <1>1, LoadTypes, ReaderAssumption DEF MainSnapshot, Monitor, metricsVars, MetricsTypeOK
<1>2. ASSUME NEW w \in Worker, JobBegin(w) \/ JobEnd(w)
      PROVE  MetricsTypeOK'
  BY <1>2 DEF JobBegin, JobEnd, IncrementTotal, IncrementSuccess, IncrementFailed, metricsVars,
              MetricsTypeOK
<1>3. CASE UNCHANGED metricsVars
  BY <1>3 DEF metricsVars, MetricsTypeOK
<1> QED BY <1>1, <1>2, <1>3, MetricsSteps

\* Every variable keeps its type; in particular the queue never exceeds the channel's capacity
\* and the rotation's index stays in the list (WorkerPool.Submit, GetNextProxy).
THEOREM EngineTyping == Spec => []TypeOK
<1>1. Init => TypeOK
  <2> SUFFICES ASSUME Init PROVE TypeOK
    OBVIOUS
  <2>1. jobQueue \in Seq(Job) /\ Len(jobQueue) <= Capacity
    BY EmptySeq, CapacityIsNat DEF Init, NewWorkerPool
  <2>2. closed \in BOOLEAN /\ panicked \in BOOLEAN /\ stopCh \in BOOLEAN
    BY DEF Init, NewWorkerPool, NewScheduler
  <2>3. PoolTypeOK
    BY <2>1, <2>2 DEF Init, NewWorkerPool, PoolTypeOK
  <2>4. SchedulerTypeOK
    BY <2>2, RoundsAssumption DEF Init, NewScheduler, SchedulerTypeOK
  <2>5. MetricsTypeOK
    BY DEF Init, NewMetrics, MetricsTypeOK
  <2> QED BY <2>3, <2>4, <2>5, LifeInit DEF Init, TypeOK, LifeInv
<1>2. ASSUME LifeInv, LifeInv', TypeOK, [Next]_vars
      PROVE  TypeOK'
  <2>1. CASE Next
    <3>1. PoolTypeOK' /\ SchedulerTypeOK' /\ MetricsTypeOK'
      BY <1>2, <2>1, PoolTypeKept, SchedulerTypeKept, MetricsTypeKept DEF TypeOK
    <3>2. SessionTypeOK' /\ main' \in Labels
      BY <1>2 DEF LifeInv
    <3>3. target' \in BOOLEAN
      BY <1>2, <2>1 DEF TypeOK, Next, vars, MainStep, Signal, MainLoadProxies, MainCreated, MainStartPool, MainStartAll,
         MainStartScheduler, MainStopScheduler, MainStopPool, MainPoolStopped, MainStopAll,
         MainSnapshot, SessionGoroutine, ControlStep, Monitor, SetTarget, WorkerStep,
         WorkerReceive, JobBegin, JobEnd, WorkerExit
    <3> QED BY <3>1, <3>2, <3>3 DEF TypeOK, Labels
  <2>2. CASE UNCHANGED vars
    BY <1>2, <2>2 DEF TypeOK, vars, PoolTypeOK, SessionTypeOK, ProxyTypeOK, SchedulerTypeOK,
       MetricsTypeOK, poolVars, sessionVars, proxyVars, schedulerVars, metricsVars
  <2> QED BY <1>2, <2>1, <2>2
<1> QED BY <1>1, <1>2, Life, PTL DEF Spec

-----------------------------------------------------------------------------
(* Metrics                                                                 *)

Requesting == {w \in Worker : worker[w] = "request"}

\* Every request counted has had its outcome, or is running.
CountInv ==
  /\ MetricsTypeOK
  /\ Success + Failed + Cardinality(Requesting) = TotalRequests

\* What a reader has loaded is not ahead of the counters; main reads when nothing counts.
SnapInv ==
  /\ \A r \in Reader : /\ snap[r].loads \in {2, 3} => snap[r].success <= Success
                       /\ snap[r].loads = 3 => snap[r].failed <= Failed
  /\ main \notin {"snapshot", "done"} => snap["main"].loads = 0
  /\ snap["main"].loads \in {1, 2, 3} => snap["main"].total = TotalRequests
  /\ snap["main"].loads \in {2, 3} => snap["main"].success = Success
  /\ snap["main"].loads = 3 => snap["main"].failed = Failed
  /\ main = "done" => snap["main"].loads = 3

LEMMA FiniteWorkers == ASSUME NEW S \in SUBSET Worker PROVE IsFiniteSet(S) /\ Cardinality(S) \in Nat
<1>1. IsFiniteSet(Worker)
  BY FS_Interval, CapacityIsNat DEF Worker
<1> QED BY <1>1, FS_Subset, FS_CardinalityType

LEMMA CountKept ==
  ASSUME LifeInv, CountInv, Next
  PROVE  CountInv'
<1>1. MetricsTypeOK'
  BY MetricsTypeKept DEF CountInv
<1>2. TotalRequests \in Nat /\ Success \in Nat /\ Failed \in Nat
  BY DEF CountInv, MetricsTypeOK
<1>3. ASSUME NEW w \in Worker, JobBegin(w)
      PROVE  CountInv'
  <2>1. CASE ~target
    <3>1. Requesting' = Requesting
      BY <1>3, <2>1 DEF JobBegin, Finish, Requesting, LifeInv, PoolInv
    <3> QED BY <1>1, <1>3, <2>1, <3>1 DEF JobBegin, CountInv, metricsVars
  <2>2. CASE target
    <3>1. Requesting' = Requesting \cup {w} /\ w \notin Requesting
      BY <1>3, <2>2 DEF JobBegin, Requesting, LifeInv, PoolInv
    <3>2. Cardinality(Requesting') = Cardinality(Requesting) + 1 /\ Cardinality(Requesting) \in Nat
      BY <3>1, FS_AddElement, FiniteWorkers DEF Requesting
    <3> QED BY <1>1, <1>2, <1>3, <2>2, <3>2 DEF JobBegin, IncrementTotal, CountInv
  <2> QED BY <1>3, <2>1, <2>2 DEF JobBegin
<1>4. ASSUME NEW w \in Worker, JobEnd(w)
      PROVE  CountInv'
  <2>1. Requesting' = Requesting \ {w} /\ w \in Requesting
    BY <1>4 DEF JobEnd, Finish, Requesting, LifeInv, PoolInv
  <2>2. Cardinality(Requesting') = Cardinality(Requesting) - 1 /\ Cardinality(Requesting) \in Nat
    BY <2>1, FS_RemoveElement, FiniteWorkers DEF Requesting
  <2> QED
    BY <1>1, <1>2, <1>4, <2>2 DEF JobEnd, IncrementSuccess, IncrementFailed, CountInv
<1>5. ASSUME Requesting' = Requesting, UNCHANGED <<TotalRequests, Success, Failed>>
      PROVE  CountInv'
  BY <1>1, <1>5 DEF CountInv
<1>6. CASE MainSnapshot \/ Monitor
  BY <1>5, <1>6 DEF MainSnapshot, Monitor, Load, Discard, metricsVars, poolVars, Requesting
<1>7. CASE UNCHANGED metricsVars
  <2>1. CASE MainStartPool \/ MainStopPool \/ SubmitJob \/ UNCHANGED poolVars
    BY <1>5, <1>7, <2>1 DEF MainStartPool, MainStopPool, SubmitJob, PoolStart, PoolClose, Submit,
       poolVars, metricsVars, Requesting, LifeInv, PoolInv, OrderInv
  <2>2. ASSUME NEW w \in Worker, WorkerReceive(w) \/ WorkerExit(w)
        PROVE  CountInv'
    BY <1>5, <1>7, <2>2 DEF WorkerReceive, WorkerExit, Receive, Exit, metricsVars, Requesting,
       LifeInv, PoolInv
  <2> QED BY <1>3, <1>4, <2>1, <2>2, PoolSteps DEF WorkerStep
<1> QED BY <1>3, <1>4, <1>6, <1>7, MetricsSteps

LEMMA NoneRequests == ASSUME LifeInv, CountInv, main \in {"snapshot", "done"}
                      PROVE  Success + Failed = TotalRequests
<1>1. Requesting = {}
  BY DEF LifeInv, OrderInv, AfterPoolStop, Requesting
<1> QED BY <1>1, FS_EmptySet DEF CountInv, MetricsTypeOK

LEMMA SnapKept ==
  ASSUME LifeInv, CountInv, SnapInv, Next
  PROVE  SnapInv'
<1> USE DEF CountInv, MetricsTypeOK
<1>1. CASE MainSnapshot
  BY <1>1, ReaderAssumption DEF MainSnapshot, Load, SnapInv, metricsVars
<1>2. CASE Monitor
  BY <1>2, ReaderAssumption DEF Monitor, Load, Discard, SnapInv
<1>3. ASSUME NEW w \in Worker, JobBegin(w) \/ JobEnd(w)
      PROVE  SnapInv'
  <2>1. main \notin {"snapshot", "done"}
    BY <1>3 DEF JobBegin, JobEnd, LifeInv, OrderInv, AfterPoolStop
  <2> QED
    BY <1>3, <2>1, ReaderAssumption DEF JobBegin, JobEnd, IncrementTotal, IncrementSuccess,
       IncrementFailed, metricsVars, SnapInv
<1>4. CASE UNCHANGED metricsVars
  BY <1>1, <1>4, MainSteps DEF SnapInv, metricsVars, MainStep, Signal, MainLoadProxies, MainCreated,
     MainStartPool, MainStartAll, MainStartScheduler, MainStopScheduler, MainStopPool,
     MainPoolStopped, MainStopAll
<1> QED BY <1>1, <1>2, <1>3, <1>4, MetricsSteps

\* A snapshot never shows more outcomes than there are requests, and main's last one is
\* exact, whatever runs while Snapshot loads one counter after the other.
THEOREM SnapshotSums == Spec => []SnapshotsAddUp
<1>1. Init => CountInv /\ SnapInv
  <2> SUFFICES ASSUME Init PROVE CountInv /\ SnapInv
    OBVIOUS
  <2>1. Requesting = {}
    BY DEF Init, NewWorkerPool, Requesting
  <2> QED
    BY <2>1, FS_EmptySet, ReaderAssumption DEF Init, NewMetrics, CountInv, SnapInv, MetricsTypeOK
<1>2. LifeInv /\ CountInv /\ SnapInv /\ [Next]_vars => (CountInv /\ SnapInv)'
  <2>1. CASE Next
    BY <2>1, CountKept, SnapKept
  <2>2. CASE UNCHANGED vars
    BY <2>2 DEF vars, poolVars, metricsVars, CountInv, SnapInv, MetricsTypeOK, Requesting
  <2> QED BY <2>1, <2>2
<1>3. LifeInv /\ CountInv /\ SnapInv => SnapshotsAddUp
  <2> SUFFICES ASSUME LifeInv, CountInv, SnapInv PROVE SnapshotsAddUp
    OBVIOUS
  <2>1. Success + Failed <= TotalRequests
    BY FiniteWorkers DEF CountInv, MetricsTypeOK, Requesting
  <2> QED
    BY <2>1, NoneRequests, ReaderAssumption DEF SnapshotsAddUp, SnapInv, CountInv, MetricsTypeOK
<1> QED BY <1>1, <1>2, <1>3, Life, PTL DEF Spec

-----------------------------------------------------------------------------
(* Dispatching                                                             *)

\* How far the current round is.
Progress == IF ctl \in {"next", "submit"} THEN id ELSE 0

\* Before the sessions are closed, those the round has passed are one job ahead.
BalanceInv ==
  (~panicked /\ main \notin {"snapshot", "done"}) =>
    /\ ctl \in {"next", "submit"} => count = NumberOfSessions /\ id \in 0 .. count
    /\ ctl = "submit" => id < count
    /\ \A i, j \in Id :
         i < j => accepted[i] - accepted[j] = IF i < Progress /\ Progress <= j THEN 1 ELSE 0

LEMMA AllCounted == ASSUME sessions = Id PROVE Count = NumberOfSessions
BY FS_Interval, SessionsAssumption DEF Id, Count

LEMMA ControlKeepsBalance ==
  ASSUME LifeInv, TypeOK, BalanceInv, ControlStep, ~panicked', main \notin {"snapshot", "done"}
  PROVE  BalanceInv'
<1>1. /\ ~panicked /\ sessions = Id /\ UNCHANGED main /\ (GetSession(id) <=> id \in Id)
      /\ id \in Int /\ accepted \in [Job -> Nat]
  BY DEF ControlStep, Control, Select, ReadCount, NextId, SubmitJob, Submit, poolVars, LifeInv,
     ControlInv, OrderInv, Labels, GetSession, TypeOK, PoolTypeOK, SchedulerTypeOK
<1> USE SessionsAssumption, <1>1 DEF BalanceInv, Progress, Id
<1>2. CASE Select
  BY <1>2 DEF Select, poolVars
<1>3. CASE ReadCount
  BY <1>3, AllCounted DEF ReadCount, Limit, poolVars
<1>4. CASE NextId
  <2>1. /\ ctl = "next" /\ count = NumberOfSessions /\ id \in 0 .. count
        /\ UNCHANGED <<count, accepted>>
    BY <1>4 DEF NextId, poolVars
  <2>2. \/ id < count /\ ctl' = "submit" /\ id' = id
        \/ id = count /\ ctl' = "select"
    BY <1>4, <2>1 DEF NextId
  <2> QED BY <2>1, <2>2
<1>5. CASE SubmitJob
  <2>1. /\ id \in Id /\ id' = id + 1 /\ ctl = "submit" /\ ctl' = "next" /\ UNCHANGED count
        /\ accepted' = [accepted EXCEPT ![id] = @ + 1]
    BY <1>5 DEF SubmitJob, Submit
  <2>2. count = NumberOfSessions /\ id < count
    BY <2>1
  <2>3. ASSUME NEW i \in Id, NEW j \in Id, i < j
        PROVE  accepted'[i] - accepted'[j] = IF i < Progress' /\ Progress' <= j THEN 1 ELSE 0
    <3>1. accepted[i] - accepted[j] = IF i < id /\ id <= j THEN 1 ELSE 0
      BY <2>1, <2>3
    <3>2. accepted[i] \in Nat /\ accepted[j] \in Nat /\ i \in Job /\ j \in Job
      BY RoundsAssumption
    <3>3. /\ accepted'[i] = IF i = id THEN accepted[i] + 1 ELSE accepted[i]
          /\ accepted'[j] = IF j = id THEN accepted[j] + 1 ELSE accepted[j]
      BY <2>1, <3>2
    <3> QED BY <2>1, <2>3, <3>1, <3>2, <3>3
  <2> QED BY <2>1, <2>2, <2>3
<1> QED BY <1>2, <1>3, <1>4, <1>5 DEF ControlStep, Control

LEMMA BalanceKept ==
  ASSUME LifeInv, TypeOK, BalanceInv, Next
  PROVE  BalanceInv'
<1>1. CASE panicked' \/ main' \in {"snapshot", "done"}
  BY <1>1 DEF BalanceInv
<1>2. CASE ~panicked' /\ main' \notin {"snapshot", "done"}
  <2>1. main \notin {"snapshot", "done"}
    BY <1>2, MainSteps DEF MainStep, Signal, MainLoadProxies, MainCreated, MainStartPool, MainStartAll,
       MainStartScheduler, MainStopScheduler, MainStopPool, MainPoolStopped, MainStopAll,
       MainSnapshot
  <2>2. CASE ControlStep
    BY <1>2, <2>1, <2>2, ControlKeepsBalance
  <2>3. CASE MainStartScheduler \/ MainStopScheduler
    BY <1>2, <2>1, <2>3 DEF MainStartScheduler, MainStopScheduler, SchedulerStart, SchedulerStop,
       poolVars, BalanceInv, Progress, LifeInv, ControlInv
  <2>4. CASE UNCHANGED schedulerVars
    <3>1. panicked' = panicked /\ accepted' = accepted
      BY <2>4, PoolSteps DEF MainStartPool, MainStopPool, SubmitJob, PoolStart, PoolClose,
         WorkerStep, WorkerReceive, JobBegin, JobEnd, WorkerExit, Receive, Finish, Exit, poolVars,
         schedulerVars
    <3> QED BY <1>2, <2>1, <2>4, <3>1 DEF BalanceInv, Progress, schedulerVars
  <2> QED BY <2>2, <2>3, <2>4, SchedulerSteps
<1> QED BY <1>1, <1>2

\* The scheduler passes no session over, however full the queue is (dispatchJobs).
THEOREM Balanced == Spec => []DispatchBalanced
<1>1. Init => BalanceInv
  BY RoundsAssumption, SessionsAssumption
     DEF Init, NewWorkerPool, NewScheduler, BalanceInv, Progress, Id
<1>2. LifeInv /\ TypeOK /\ BalanceInv /\ [Next]_vars => BalanceInv'
  <2>1. CASE UNCHANGED vars
    BY <2>1 DEF vars, poolVars, schedulerVars, BalanceInv, Progress
  <2> QED BY <2>1, BalanceKept
<1>3. LifeInv /\ BalanceInv => DispatchBalanced
  <2> SUFFICES ASSUME LifeInv, BalanceInv, ~panicked, NEW i \in sessions, NEW j \in sessions, i < j
               PROVE  accepted[i] - accepted[j] \in {0, 1}
    BY DEF DispatchBalanced
  <2>1. main \notin {"snapshot", "done"} /\ i \in Id /\ j \in Id
    BY DEF LifeInv, OrderInv, SessionTypeOK
  <2> QED BY <2>1 DEF BalanceInv
<1> QED BY <1>1, <1>2, <1>3, Life, EngineTyping, PTL DEF Spec

-----------------------------------------------------------------------------
(* The rotation of the proxies                                             *)

\* The places up to the index have been given to one session more than those beyond it.
SpreadInv ==
  /\ main = "load" => proxies = <<>> /\ \A i \in Id : state[i] = "none"
  /\ proxies # <<>> => GivenTo(Direct) = {}
  /\ proxies # <<>> /\ ListedOnce =>
       \A m, n \in DOMAIN proxies : m < n =>
         Cardinality(GivenTo(proxies[m])) - Cardinality(GivenTo(proxies[n]))
           = IF m <= index /\ index < n THEN 1 ELSE 0

LEMMA FiniteIds == ASSUME NEW S \in SUBSET Id PROVE IsFiniteSet(S) /\ Cardinality(S) \in Nat
<1>1. IsFiniteSet(Id)
  BY FS_Interval, SessionsAssumption DEF Id
<1> QED BY <1>1, FS_Subset, FS_CardinalityType

LEMMA ProxySequence == ASSUME SessionTypeOK PROVE proxies \in Seq(Proxy)
BY EmptySeq, ProxyAssumption DEF SessionTypeOK, ProxyTypeOK

\* The index wraps at the end of the list.
LEMMA Wraps == ASSUME NEW a \in Nat, NEW n \in Nat \ {0}, a <= n
               PROVE  a % n = IF a = n THEN 0 ELSE a
OBVIOUS

\* A step that makes no session and calls no proxy leaves everything given as it was.
LEMMA GivenFrame ==
  ASSUME SpreadInv, UNCHANGED <<proxies, index, proxy>>, main' # "load",
         \A i \in Id : (state[i] = "none") <=> (state'[i] = "none")
  PROVE  SpreadInv'
<1>1. \A p : {i \in Id : state'[i] # "none" /\ proxy'[i] = p} = GivenTo(p)
  BY DEF GivenTo
<1> QED BY <1>1 DEF SpreadInv, ListedOnce, GivenTo

LEMMA LoadKeepsSpread ==
  ASSUME SpreadInv, MainLoadProxies
  PROVE  SpreadInv'
<1>1. \A p : {i \in Id : state'[i] # "none" /\ proxy'[i] = p} = {}
  BY DEF MainLoadProxies, SpreadInv
<1>2. main' # "load" /\ (proxies' = <<>> \/ (proxies' \in Seq(Proxy) /\ index' = 0))
  BY ProxyAssumption DEF MainLoadProxies, LoadProxies, SpreadInv, proxyVars
<1>3. ASSUME NEW m \in DOMAIN proxies', proxies' # <<>>
      PROVE  ~(m <= index')
  BY <1>2, <1>3, LenProperties
<1>4. \A p : Cardinality({i \in Id : state'[i] # "none" /\ proxy'[i] = p}) = 0
  BY <1>1, FS_EmptySet
<1>5. proxies' # <<>> => GivenTo(Direct)' = {}
  BY <1>1 DEF GivenTo
<1>6. ASSUME proxies' # <<>>, NEW m \in DOMAIN proxies', NEW n \in DOMAIN proxies', m < n
      PROVE  Cardinality(GivenTo(proxies[m])') - Cardinality(GivenTo(proxies[n])')
               = IF m <= index' /\ index' < n THEN 1 ELSE 0
  <2>1. Cardinality(GivenTo(proxies[m])') = 0 /\ Cardinality(GivenTo(proxies[n])') = 0
    BY <1>4 DEF GivenTo
  <2> QED BY <1>3, <1>6, <2>1
<1> QED BY <1>2, <1>5, <1>6 DEF SpreadInv

\* The goroutine of one session takes the place after the index.
LEMMA CreateKeepsSpread ==
  ASSUME LifeInv, SpreadInv, NEW i \in Id, SessionGoroutine(i)
  PROVE  SpreadInv'
<1> DEFINE Given(p) == {j \in Id : state'[j] # "none" /\ proxy'[j] = p}
<1>1. /\ state[i] = "none" /\ main = "create" /\ main' = main /\ proxies' = proxies
      /\ state' = [state EXCEPT ![i] = IF BuildsClient(NextProxy) THEN "idle" ELSE "failed"]
      /\ proxy' = [proxy EXCEPT ![i] = NextProxy] /\ index' = Advance
      /\ state \in [Id -> {"none", "failed", "idle", "active", "closed"}]
      /\ proxy \in [Id -> Proxy \cup {Direct}]
  BY DEF SessionGoroutine, CreateSession, GetNextProxy, NewSession, LifeInv, SessionTypeOK
<1>2. \A p : Given(p) = IF p = NextProxy THEN GivenTo(p) \cup {i} ELSE GivenTo(p)
  BY <1>1 DEF GivenTo
<1>3. CASE proxies = <<>>
  BY <1>1, <1>3 DEF SpreadInv
<1>4. CASE proxies # <<>>
  <2>1. proxies \in Seq(Proxy) /\ Len(proxies) \in Nat \ {0} /\ DOMAIN proxies = 1 .. Len(proxies)
    BY <1>4, ProxySequence, EmptySeq, LenProperties DEF LifeInv
  <2>2. index \in 0 .. Len(proxies) - 1
    BY <2>1 DEF LifeInv, SessionTypeOK, ProxyTypeOK
  <2>3. NextProxy = proxies[index + 1] /\ NextProxy # Direct
    BY <1>4, <2>1, <2>2, ElementOfSeq, ProxyAssumption DEF NextProxy
  <2>4. Advance = IF index + 1 = Len(proxies) THEN 0 ELSE index + 1
    <3>1. index + 1 \in Nat /\ index + 1 <= Len(proxies)
      BY <2>1, <2>2
    <3>2. (index + 1) % Len(proxies) = IF index + 1 = Len(proxies) THEN 0 ELSE index + 1
      BY <2>1, <3>1, Wraps
    <3> QED BY <1>4, <3>2 DEF Advance
  <2>5. GivenTo(Direct)' = {}
    BY <1>2, <1>4, <2>3 DEF SpreadInv, GivenTo
  <2>6. ASSUME ListedOnce, NEW m \in DOMAIN proxies, NEW n \in DOMAIN proxies, m < n
        PROVE  Cardinality(Given(proxies[m])) - Cardinality(Given(proxies[n]))
                 = IF m <= Advance /\ Advance < n THEN 1 ELSE 0
    <3> DEFINE before(k) == Cardinality(GivenTo(proxies[k]))
    <3>1. ASSUME NEW k \in DOMAIN proxies
          PROVE  /\ before(k) \in Nat
                 /\ Cardinality(Given(proxies[k])) = IF k = index + 1 THEN before(k) + 1 ELSE before(k)
      <4>1. IsFiniteSet(GivenTo(proxies[k])) /\ before(k) \in Nat /\ i \notin GivenTo(proxies[k])
        BY <1>1, FiniteIds DEF GivenTo
      <4>2. index + 1 \in DOMAIN proxies /\ (proxies[k] = NextProxy <=> k = index + 1)
        BY <2>1, <2>2, <2>3, <2>6 DEF ListedOnce
      <4> QED BY <1>2, <4>1, <4>2, FS_AddElement
    <3>2. before(m) - before(n) = IF m <= index /\ index < n THEN 1 ELSE 0
      BY <1>4, <2>6 DEF SpreadInv
    <3>3. /\ before(m) \in Nat /\ before(n) \in Nat
          /\ Cardinality(Given(proxies[m])) = IF m = index + 1 THEN before(m) + 1 ELSE before(m)
          /\ Cardinality(Given(proxies[n])) = IF n = index + 1 THEN before(n) + 1 ELSE before(n)
      BY <3>1
    <3>4. m \in Int /\ n \in Int /\ index \in Int /\ n <= Len(proxies) /\ m >= 1
      BY <2>1, <2>2
    <3> HIDE DEF before, Given
    <3> QED BY <2>4, <2>6, <3>2, <3>3, <3>4
  <2> QED BY <1>1, <2>5, <2>6 DEF SpreadInv, ListedOnce, GivenTo
<1> QED BY <1>3, <1>4

LEMMA SpreadKept ==
  ASSUME LifeInv, SpreadInv, Next
  PROVE  SpreadInv'
<1>1. CASE MainCreated \/ MainStartAll \/ MainStopAll
  <2>1. /\ UNCHANGED <<proxies, index, proxy>> /\ main' # "load"
        /\ \A i \in Id : (state[i] = "none") <=> (state'[i] = "none")
    BY <1>1 DEF MainCreated, MainStartAll, MainStopAll, RegisterSessions, StartAll, StopAll,
       proxyVars, LifeInv, OrderInv
  <2> QED BY <2>1, GivenFrame
<1>2. CASE UNCHANGED sessionVars
  <2>1. CASE main' # "load"
    BY <1>2, <2>1, GivenFrame DEF sessionVars, proxyVars
  <2>2. CASE main' = "load"
    <3>1. main = "load"
      BY <2>2, MainSteps DEF MainStep, Signal, MainLoadProxies, MainCreated, MainStartPool,
         MainStartAll, MainStartScheduler, MainStopScheduler, MainStopPool, MainPoolStopped,
         MainStopAll, MainSnapshot
    <3> QED BY <1>2, <3>1 DEF SpreadInv, sessionVars, proxyVars
  <2> QED BY <2>1, <2>2
<1> QED BY <1>1, <1>2, SessionSteps, LoadKeepsSpread, CreateKeepsSpread

\* Sessions are spread evenly over the proxies, in whatever order the goroutines of
\* CreateSessions call GetNextProxy, however many there are of either.
THEOREM EvenSpread == Spec => []ProxiesSpread
<1>1. Init => SpreadInv
  BY DEF Init, NewProxyManager, NewSessionManager, SpreadInv
<1>2. LifeInv /\ SpreadInv /\ [Next]_vars => SpreadInv'
  <2>1. CASE UNCHANGED vars
    BY <2>1 DEF vars, sessionVars, proxyVars, SpreadInv, GivenTo, ListedOnce
  <2> QED BY <2>1, SpreadKept
<1>3. SpreadInv => ProxiesSpread
  BY DEF SpreadInv, ProxiesSpread
<1> QED BY <1>1, <1>2, <1>3, Life, PTL DEF Spec

-----------------------------------------------------------------------------
(* The pool implements JobQueue                                            *)

LEMMA RunningSame == ASSUME UNCHANGED job PROVE RunningNow' = RunningNow
BY DEF RunningNow

\* A worker without a job begins one.
LEMMA RunningOneMore ==
  ASSUME LifeInv, NEW w \in Worker, NEW j \in Job, job[w] = NoJob,
         job' = [job EXCEPT ![w] = j]
  PROVE  RunningNow' = [RunningNow EXCEPT ![j] = @ + 1]
<1> DEFINE On(k) == {v \in Worker : job[v] = k}
           OnThen(k) == {v \in Worker : job'[v] = k}
<1>1. ASSUME NEW k \in Job
      PROVE  Cardinality(OnThen(k)) = IF k = j THEN Cardinality(On(k)) + 1 ELSE Cardinality(On(k))
  <2>1. OnThen(k) = IF k = j THEN On(k) \cup {w} ELSE On(k)
    BY PoolAssumption DEF LifeInv, PoolInv
  <2>2. IsFiniteSet(On(k)) /\ w \notin On(k)
    BY FiniteWorkers, PoolAssumption
  <2> QED BY <2>1, <2>2, FS_AddElement
<1> QED BY <1>1 DEF RunningNow

\* A worker ends its job.
LEMMA RunningOneLess ==
  ASSUME LifeInv, NEW w \in Worker, NEW j \in Job, job[w] = j, job' = [job EXCEPT ![w] = NoJob]
  PROVE  RunningNow[j] > 0 /\ RunningNow' = [RunningNow EXCEPT ![j] = @ - 1]
<1> DEFINE On(k) == {v \in Worker : job[v] = k}
           OnThen(k) == {v \in Worker : job'[v] = k}
<1>1. ASSUME NEW k \in Job
      PROVE  Cardinality(OnThen(k)) = IF k = j THEN Cardinality(On(k)) - 1 ELSE Cardinality(On(k))
  <2>1. OnThen(k) = IF k = j THEN On(k) \ {w} ELSE On(k)
    BY PoolAssumption DEF LifeInv, PoolInv
  <2>2. IsFiniteSet(On(k)) /\ (k = j => w \in On(k))
    BY FiniteWorkers
  <2> QED BY <2>1, <2>2, FS_RemoveElement
<1>2. Cardinality(On(j)) > 0
  <2>1. IsFiniteSet(On(j)) /\ Cardinality(On(j)) \in Nat /\ On(j) # {}
    BY FiniteWorkers
  <2> QED BY <2>1, FS_EmptySet
<1> QED BY <1>1, <1>2 DEF RunningNow

LEMMA QueueInit == ASSUME Init PROVE JQ!Init
<1>1. ASSUME NEW j \in Job
      PROVE  Cardinality({w \in Worker : job[w] = j}) = 0
  <2>1. {w \in Worker : job[w] = j} = {}
    BY PoolAssumption DEF Init, NewWorkerPool
  <2> QED BY <2>1, FS_EmptySet
<1> QED BY <1>1 DEF Init, NewWorkerPool, JQ!Init, RunningNow, Phase

\* The steps no caller of the pool sees.
LEMMA QueueFrame ==
  ASSUME LifeInv, Next, UNCHANGED <<jobQueue, closed, job>>
  PROVE  UNCHANGED JQ!vars \/ MainPoolStopped
<1>1. CASE AfterPoolStop' = AfterPoolStop
  BY <1>1, RunningSame DEF JQ!vars, Phase
<1>2. CASE ~closed
  BY <1>2, RunningSame DEF JQ!vars, Phase
<1>3. CASE closed /\ ~MainPoolStopped
  <2>1. AfterPoolStop' = AfterPoolStop
    BY <1>3, MainSteps DEF LifeInv, OrderInv, AfterPoolStop, MainStep, Signal, MainLoadProxies,
       MainCreated, MainStartPool, MainStartAll, MainStartScheduler, MainStopScheduler,
       MainStopPool, MainStopAll, MainSnapshot
  <2> QED BY <1>1, <2>1
<1> QED BY <1>2, <1>3

\* When the wait group's Wait returns, nothing is queued and nothing runs.
LEMMA StopRefines ==
  ASSUME LifeInv, MainPoolStopped
  PROVE  JQ!StopReturns
<1>1. closed /\ ~AfterPoolStop /\ AfterPoolStop' /\ UNCHANGED <<jobQueue, closed, job>>
  BY DEF MainPoolStopped, poolVars, AfterPoolStop, LifeInv, OrderInv
<1>2. \A w \in Worker : worker[w] = "exited" /\ job[w] = NoJob
  BY DEF MainPoolStopped, PoolWaitDone, LifeInv, PoolInv, Running
<1>3. jobQueue = <<>>
  <2>1. 1 \in Worker
    BY CapacityIsNat DEF Worker
  <2> QED BY <1>2, <2>1 DEF LifeInv, PoolInv
<1>4. ASSUME NEW j \in Job
      PROVE  RunningNow[j] = 0
  <2>1. {w \in Worker : job[w] = j} = {}
    BY <1>2, PoolAssumption
  <2> QED BY <2>1, FS_EmptySet DEF RunningNow
<1> QED BY <1>1, <1>3, <1>4, RunningSame DEF JQ!StopReturns, Phase

LEMMA ControlRefines ==
  ASSUME LifeInv, Next, ControlStep
  PROVE  JQ!Next \/ UNCHANGED JQ!vars
<1>1. main' = main
  BY DEF ControlStep
<1>2. CASE SubmitJob /\ ~closed
  <2>1. id \in Job /\ UNCHANGED <<closed, job>> /\ jobQueue' = Append(jobQueue, id)
    BY <1>2, RoundsAssumption DEF SubmitJob, Submit, LifeInv, ControlInv
  <2>2. JQ!Take(id)
    BY <1>1, <1>2, <2>1, RunningSame DEF JQ!Take, Phase
  <2> QED BY <2>1, <2>2 DEF JQ!Next
<1>3. CASE UNCHANGED <<jobQueue, closed, job>>
  BY <1>1, <1>3, RunningSame DEF JQ!vars, Phase, AfterPoolStop
<1> QED
  BY <1>2, <1>3 DEF ControlStep, Control, Select, ReadCount, NextId, SubmitJob, Submit, poolVars

LEMMA WorkerRefines ==
  ASSUME LifeInv, Next, NEW w \in Worker, WorkerStep(w)
  PROVE  JQ!Next \/ UNCHANGED JQ!vars
<1>1. main' = main /\ closed' = closed
  BY DEF WorkerStep, WorkerReceive, JobBegin, JobEnd, WorkerExit, Receive, Finish, Exit
<1>2. Phase' = Phase
  BY <1>1 DEF Phase, AfterPoolStop
<1>3. CASE WorkerReceive(w)
  <2>1. Head(jobQueue) \in Id /\ job[w] = NoJob
    BY <1>3, HeadTailProperties DEF WorkerReceive, Receive, LifeInv, PoolInv, Running
  <2>2. RunningNow' = [RunningNow EXCEPT ![Head(jobQueue)] = @ + 1]
    BY <1>3, <2>1, RunningOneMore, RoundsAssumption DEF WorkerReceive, Receive
  <2>3. JQ!Begin
    BY <1>2, <1>3, <2>2 DEF JQ!Begin, WorkerReceive, Receive
  <2> QED BY <2>3 DEF JQ!Next
<1>4. CASE (JobBegin(w) \/ JobEnd(w)) /\ Finish(w)
  <2>1. job[w] \in Job
    BY <1>4, RoundsAssumption DEF JobBegin, JobEnd, LifeInv, PoolInv, Running
  <2>2. RunningNow[job[w]] > 0 /\ RunningNow' = [RunningNow EXCEPT ![job[w]] = @ - 1]
    BY <1>4, <2>1, RunningOneLess DEF Finish
  <2>3. JQ!End(job[w])
    BY <1>2, <1>4, <2>2 DEF JQ!End, Finish
  <2> QED BY <2>1, <2>3 DEF JQ!Next
<1>5. CASE UNCHANGED <<jobQueue, job>>
  BY <1>2, <1>5, RunningSame DEF JQ!vars
<1> QED BY <1>3, <1>4, <1>5 DEF WorkerStep, JobBegin, JobEnd, WorkerExit, Exit

\* Under main's use of it the worker pool takes jobs, runs each once, in order, and is done
\* with all of them when Stop returns (WorkerPool), for any number of workers.
THEOREM QueueRefinement == Spec => ImplementsJobQueue
<1>1. LifeInv /\ [Next]_vars => [JQ!Next]_JQ!vars
  <2> SUFFICES ASSUME LifeInv, [Next]_vars PROVE JQ!Next \/ UNCHANGED JQ!vars
    OBVIOUS
  <2>1. CASE UNCHANGED vars
    BY <2>1, RunningSame DEF vars, poolVars, JQ!vars, Phase, AfterPoolStop
  <2>2. CASE Next /\ MainStopPool
    <3>1. JQ!StopBegins
      BY <2>2, RunningSame DEF MainStopPool, PoolClose, JQ!StopBegins, Phase, LifeInv, OrderInv,
         AfterPoolStop
    <3> QED BY <3>1 DEF JQ!Next
  <2>3. CASE Next /\ (MainStartPool \/ UNCHANGED poolVars)
    <3>1. UNCHANGED <<jobQueue, closed, job>>
      BY <2>3 DEF MainStartPool, PoolStart, poolVars
    <3>2. CASE MainPoolStopped
      BY <3>2, StopRefines DEF JQ!Next
    <3> QED BY <2>3, <3>1, <3>2, QueueFrame
  <2>4. CASE Next /\ ControlStep /\ SubmitJob
    BY <2>4, ControlRefines
  <2> QED BY <2>1, <2>2, <2>3, <2>4, PoolSteps, WorkerRefines
<1> QED BY <1>1, QueueInit, Life, PTL DEF Spec, ImplementsJobQueue, JQ!Spec
=============================================================================
