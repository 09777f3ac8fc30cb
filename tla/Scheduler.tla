----------------------------- MODULE Scheduler -----------------------------
(***************************************************************************)
(* scheduler/scheduler.go: the control goroutine that submits one job per  *)
(* registered session, round after round, until stopCh is closed.          *)
(***************************************************************************)
EXTENDS WorkerPool, SessionManager

CONSTANT MaxRounds   \* bound: the control goroutine begins at most this many rounds

\* A job is the ID of the session it is for.
ASSUME RoundsAssumption == MaxRounds \in Nat /\ Id \subseteq Job

VARIABLES
  stopCh,          \* stopCh is closed
  ctl,             \* the control goroutine: "off", "select", "count", "next", "submit", "exited"
  id, count,       \* dispatchJobs' loop variable and limit
  rounds           \* how many rounds have begun

schedulerVars == <<stopCh, ctl, id, count, rounds>>

NewScheduler ==
  /\ stopCh = FALSE /\ ctl = "off"
  /\ id = 0 /\ count = 0 /\ rounds = 0

SchedulerStart == /\ ctl' = "select"
                  /\ UNCHANGED <<stopCh, id, count, rounds>>

\* select: stopCh is looked at only here, between two rounds.
Select ==
  /\ ctl = "select"
  /\ \/ /\ stopCh
        /\ ctl' = "exited"
        /\ UNCHANGED rounds
     \/ /\ ~stopCh
        /\ rounds < MaxRounds
        /\ ctl' = "count"
        /\ rounds' = rounds + 1
  /\ UNCHANGED <<stopCh, id, count, poolVars, sessionVars>>

\* count := sm.Count(); a variant stops one session short.
LimitShort == Count - 1
Limit == Count
ReadCount ==
  /\ ctl = "count"
  /\ count' = Limit /\ id' = 0
  /\ ctl' = "next"
  /\ UNCHANGED <<stopCh, rounds, poolVars, sessionVars>>

\* The loop's head and GetSession: submit, skip a missing ID, or end the round.
NextId ==
  /\ ctl = "next"
  /\ \/ id < count /\ GetSession(id) /\ ctl' = "submit" /\ UNCHANGED id
     \/ id < count /\ ~GetSession(id) /\ id' = id + 1 /\ UNCHANGED ctl
     \/ id >= count /\ ctl' = "select" /\ UNCHANGED id
  /\ UNCHANGED <<stopCh, count, rounds, poolVars, sessionVars>>

SubmitJob ==
  /\ ctl = "submit"
  /\ Submit(id)
  /\ ctl' = "next" /\ id' = id + 1
  /\ UNCHANGED <<stopCh, count, rounds, sessionVars>>

Control == Select \/ ReadCount \/ NextId \/ SubmitJob

\* once.Do(close(stopCh)); it does not wait for the control goroutine.
SchedulerStop == /\ stopCh' = TRUE
                 /\ UNCHANGED <<ctl, id, count, rounds>>

SchedulerTypeOK ==
  /\ stopCh \in BOOLEAN
  /\ ctl \in {"off", "select", "count", "next", "submit", "exited"}
  /\ id \in Nat /\ count \in Nat /\ rounds \in 0 .. MaxRounds
=============================================================================
