------------------------------- MODULE Engine -------------------------------
(***************************************************************************)
(* main.go: start-up, the job every session runs, the metrics monitor, and *)
(* the shutdown sequence, over the proxies, the sessions, the scheduler,   *)
(* the pool and the metrics.  The goroutines are main, those that create   *)
(* the sessions, the scheduler's control goroutine, the workers and the    *)
(* monitor.                                                                *)
(***************************************************************************)
EXTENDS Scheduler, Metrics

\* The two goroutines that take snapshots: main, at the end, and the monitor.
ASSUME ReaderAssumption == {"main", "monitor"} \subseteq Reader

VARIABLES
  main,     \* where main() is
  target    \* cfg.TargetURL is set; the dashboard's handleConfig may set it any time

vars == <<poolVars, sessionVars, schedulerVars, metricsVars, main, target>>

Init ==
  /\ NewProxyManager /\ NewWorkerPool /\ NewSessionManager /\ NewScheduler /\ NewMetrics
  /\ main = "load"
  /\ target \in BOOLEAN

-----------------------------------------------------------------------------
(* Start-up                                                                *)

\* No proxy file is configured, or it is read; main exits when it cannot be.
MainLoadProxies ==
  /\ main = "load"
  /\ \/ main' = "create" /\ UNCHANGED proxyVars
     \/ main' = "create" /\ \E file \in ProxyFiles : LoadProxies(file)
     \/ main' = "exit" /\ UNCHANGED proxyVars
  /\ UNCHANGED <<poolVars, sessions, state, proxy, schedulerVars, metricsVars, target>>

\* One of CreateSessions' goroutines.
SessionGoroutine(i) ==
  /\ main = "create"
  /\ CreateSession(i)
  /\ UNCHANGED <<poolVars, schedulerVars, metricsVars, main, target>>

\* CreateSessions returns: an error, and main exits, when one session failed.
MainCreated ==
  /\ main = "create"
  /\ RegisterSessions
  /\ main' = IF sessions' = Id THEN "startPool" ELSE "exit"
  /\ UNCHANGED <<poolVars, schedulerVars, metricsVars, target>>

MainStartPool ==
  /\ main = "startPool"
  /\ PoolStart
  /\ main' = "startAll"
  /\ UNCHANGED <<sessionVars, schedulerVars, metricsVars, target>>

MainStartAll ==
  /\ main = "startAll"
  /\ StartAll
  /\ main' = "startScheduler"
  /\ UNCHANGED <<poolVars, schedulerVars, metricsVars, target>>

MainStartScheduler ==
  /\ main = "startScheduler"
  /\ SchedulerStart
  /\ main' = "run"
  /\ UNCHANGED <<poolVars, sessionVars, metricsVars, target>>

-----------------------------------------------------------------------------
(* Shutdown, in main's order                                               *)

\* The signal arrives.
Signal ==
  /\ main = "run"
  /\ main' = "stopScheduler"
  /\ UNCHANGED <<poolVars, sessionVars, schedulerVars, metricsVars, target>>

MainStopScheduler ==
  /\ main = "stopScheduler"
  /\ SchedulerStop
  /\ main' = "stopPool"
  /\ UNCHANGED <<poolVars, sessionVars, metricsVars, target>>

MainStopPool ==
  /\ main = "stopPool"
  /\ PoolClose
  /\ main' = "waitPool"
  /\ UNCHANGED <<sessionVars, schedulerVars, metricsVars, target>>

\* wp.wg.Wait() returns; a variant does not wait.
MainPoolUnwaited ==
  /\ main = "waitPool"
  /\ main' = "stopAll"
  /\ UNCHANGED <<poolVars, sessionVars, schedulerVars, metricsVars, target>>
MainPoolStopped ==
  /\ main = "waitPool"
  /\ PoolWaitDone
  /\ main' = "stopAll"
  /\ UNCHANGED <<poolVars, sessionVars, schedulerVars, metricsVars, target>>

MainStopAll ==
  /\ main = "stopAll"
  /\ StopAll
  /\ main' = "snapshot"
  /\ UNCHANGED <<poolVars, schedulerVars, metricsVars, target>>

MainSnapshot ==
  /\ main = "snapshot"
  /\ \/ Load("main") /\ UNCHANGED main
     \/ snap["main"].loads = 3 /\ main' = "done" /\ UNCHANGED metricsVars
  /\ UNCHANGED <<poolVars, sessionVars, schedulerVars, target>>

-----------------------------------------------------------------------------
(* The workers, running jobFn                                              *)

WorkerReceive(w) ==
  /\ Receive(w)
  /\ UNCHANGED <<sessionVars, schedulerVars, metricsVars, main, target>>

\* No target: jobFn returns at once.  Otherwise the request is counted and sent.
JobBegin(w) ==
  /\ worker[w] = "job"
  /\ \/ ~target /\ Finish(w) /\ UNCHANGED metricsVars
     \/ /\ target
        /\ IncrementTotal
        /\ worker' = [worker EXCEPT ![w] = "request"]
        /\ UNCHANGED <<jobQueue, closed, job, panicked, accepted>>
  /\ UNCHANGED <<sessionVars, schedulerVars, main, target>>

\* ExecuteRequest returns (RequestTimeout bounds it): a status below 400, or anything else.
JobEnd(w) ==
  /\ worker[w] = "request"
  /\ IncrementSuccess \/ IncrementFailed
  /\ Finish(w)
  /\ UNCHANGED <<sessionVars, schedulerVars, main, target>>

WorkerExit(w) ==
  /\ Exit(w)
  /\ UNCHANGED <<sessionVars, schedulerVars, metricsVars, main, target>>

-----------------------------------------------------------------------------
(* The other goroutines                                                    *)

ControlStep ==
  /\ Control
  /\ UNCHANGED <<metricsVars, main, target>>

\* The monitor's ticker fires while the program runs.
Monitor ==
  /\ main \notin {"load", "create", "startPool", "startAll", "startScheduler"}
  /\ Load("monitor") \/ Discard("monitor")
  /\ UNCHANGED <<poolVars, sessionVars, schedulerVars, main, target>>

\* The dashboard's handleConfig sets the target; an empty one in its request is ignored.
SetTarget ==
  /\ ~target
  /\ target' = TRUE
  /\ UNCHANGED <<poolVars, sessionVars, schedulerVars, metricsVars, main>>

MainStep == \/ MainLoadProxies \/ MainCreated \/ MainStartPool \/ MainStartAll
            \/ MainStartScheduler \/ MainStopScheduler \/ MainStopPool \/ MainPoolStopped
            \/ MainStopAll \/ MainSnapshot

WorkerStep(w) == WorkerReceive(w) \/ JobBegin(w) \/ JobEnd(w) \/ WorkerExit(w)

Ended == panicked \/ main \in {"done", "exit"}

Next ==
  \/ /\ ~Ended
     /\ \/ \E i \in Id : SessionGoroutine(i)
        \/ MainStep \/ Signal \/ ControlStep \/ Monitor \/ SetTarget
        \/ \E w \in Worker : WorkerStep(w)
  \/ Ended /\ UNCHANGED vars

\* Go runs every goroutine that can go on, and a request ends within its timeout.
Fairness ==
  /\ WF_vars(~Ended /\ MainStep)
  /\ WF_vars(~Ended /\ ControlStep)
  /\ \A w \in Worker : WF_vars(~Ended /\ WorkerStep(w))

Spec == Init /\ [][Next]_vars /\ Fairness
-----------------------------------------------------------------------------
(* Properties                                                              *)

\* The shape of the state; the queue never holds more than the channel's capacity.
TypeOK ==
  /\ PoolTypeOK /\ SessionTypeOK /\ SchedulerTypeOK /\ MetricsTypeOK
  /\ main \in {"load", "create", "startPool", "startAll", "startScheduler", "run",
               "stopScheduler", "stopPool", "waitPool", "stopAll", "snapshot", "done", "exit"}
  /\ target \in BOOLEAN

AfterPoolStop == main \in {"stopAll", "snapshot", "done"}

\* The pool implements the abstract one under main's use of it: every job Submit took is
\* begun in order, by one worker, and has run to its end when WorkerPool.Stop returns ("no
\* request is abandoned mid-flight", README); the panic below only ends the program.
RunningNow == [j \in Job |-> Cardinality({w \in Worker : job[w] = j})]
Phase == IF ~closed THEN "open" ELSE IF AfterPoolStop THEN "stopped" ELSE "closing"
JQ == INSTANCE JobQueue WITH waiting <- jobQueue, running <- RunningNow, phase <- Phase
ImplementsJobQueue == JQ!Spec

\* No job runs on a closed session ("after Close returns the session must not be used",
\* Session.Close), although StopAll asks no worker.
NoUseAfterClose ==
  \A w \in Worker : worker[w] \in Running => state[job[w]] = "active"

\* A snapshot taken among running jobs may show more outcomes than requests (it loads the
\* total first), but never more than there are requests when it returns; and main's, taken
\* when the pool has stopped, is exact: every request counted has one outcome.
SnapshotsAddUp ==
  /\ \A r \in Reader :
       snap[r].loads = 3 => snap[r].success + snap[r].failed <= TotalRequests
  /\ main = "done" => /\ snap["main"].total = snap["main"].success + snap["main"].failed
                      /\ snap["main"].total = TotalRequests

\* No session is passed over: those of lower IDs are at most one job ahead of the others.
DispatchBalanced ==
  ~panicked => \A i, j \in sessions : i < j => accepted[i] - accepted[j] \in {0, 1}

\* The sessions are spread evenly over the proxies in whatever order the goroutines ask
\* ("concurrent callers each receive a distinct proxy", GetNextProxy): nobody goes direct,
\* and when the file lists no proxy twice, an earlier one has at most one session more than
\* a later one.
GivenTo(p) == {i \in Id : state[i] # "none" /\ proxy[i] = p}
ListedOnce == \A m, n \in DOMAIN proxies : proxies[m] = proxies[n] => m = n
ProxiesSpread ==
  proxies # <<>> =>
    /\ GivenTo(Direct) = {}
    /\ ListedOnce => \A m, n \in DOMAIN proxies :
         m < n => Cardinality(GivenTo(proxies[m])) - Cardinality(GivenTo(proxies[n])) \in {0, 1}

\* A signal is followed by a clean end of main, or by the panic below.
ShutdownEnds == main = "stopScheduler" ~> main = "done" \/ panicked

\* "Submit must not be called after Stop" (WorkerPool.Submit): main keeps its own rule.
NoSendOnClosed == ~panicked
=============================================================================
