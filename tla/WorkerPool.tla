----------------------------- MODULE WorkerPool -----------------------------
(***************************************************************************)
(* worker/pool.go: a fixed set of goroutines draining one buffered         *)
(* channel.  State and operations only; Engine composes them with the      *)
(* scheduler that submits and with main, which stops the pool.             *)
(***************************************************************************)
EXTENDS Integers, Sequences, FiniteSets

CONSTANTS
  Job, NoJob,       \* what is submitted: here, the session a job is for
  workerCount,      \* the argument of NewWorkerPool
  BufferPerWorker   \* 4 in the code; a smaller one fills the queue with fewer jobs

ASSUME PoolAssumption == NoJob \notin Job /\ workerCount \in Int /\ BufferPerWorker \in Nat \ {0}

VARIABLES
  jobQueue,   \* the channel's buffer, oldest job first
  closed,     \* the channel is closed
  worker,     \* per worker goroutine: "new", "waiting", "job", "request" or "exited"
  job,        \* the job it runs, NoJob between jobs
  panicked,   \* a send on the closed channel ended the program
  accepted    \* history: how many jobs Submit has enqueued, per job

poolVars == <<jobQueue, closed, worker, job, panicked, accepted>>

\* NewWorkerPool's guard against a count of zero or less.
Size == IF workerCount <= 0 THEN 1 ELSE workerCount
Worker == 1 .. Size
Capacity == Size * BufferPerWorker
Running == {"job", "request"}

NewWorkerPool ==
  /\ jobQueue = <<>>
  /\ closed = FALSE
  /\ worker = [w \in Worker |-> "new"]
  /\ job = [w \in Worker |-> NoJob]
  /\ panicked = FALSE
  /\ accepted = [j \in Job |-> 0]

PoolStart ==
  /\ worker' = [w \in Worker |-> "waiting"]
  /\ UNCHANGED <<jobQueue, closed, job, panicked, accepted>>

\* The send: it blocks while the buffer is full, and panics on a closed channel, also
\* when it was blocked as the channel was closed.  A variant does not block.
SubmitUnbounded(j) ==
  /\ ~closed
  /\ jobQueue' = Append(jobQueue, j)
  /\ accepted' = [accepted EXCEPT ![j] = @ + 1]
  /\ UNCHANGED <<closed, worker, job, panicked>>
Submit(j) ==
  \/ /\ ~closed
     /\ Len(jobQueue) < Capacity
     /\ jobQueue' = Append(jobQueue, j)
     /\ accepted' = [accepted EXCEPT ![j] = @ + 1]
     /\ UNCHANGED <<closed, worker, job, panicked>>
  \/ /\ closed
     /\ panicked' = TRUE
     /\ UNCHANGED <<jobQueue, closed, worker, job, accepted>>

\* for job := range wp.jobQueue: a closed channel is drained before the loop ends.
Receive(w) ==
  /\ worker[w] = "waiting"
  /\ jobQueue # <<>>
  /\ job' = [job EXCEPT ![w] = Head(jobQueue)]
  /\ jobQueue' = Tail(jobQueue)
  /\ worker' = [worker EXCEPT ![w] = "job"]
  /\ UNCHANGED <<closed, panicked, accepted>>

\* job() returns.
Finish(w) ==
  /\ worker' = [worker EXCEPT ![w] = "waiting"]
  /\ job' = [job EXCEPT ![w] = NoJob]
  /\ UNCHANGED <<jobQueue, closed, panicked, accepted>>

\* The loop ends and wg.Done() runs; variants: the buffer is not drained first, and the
\* worker never leaves.
ExitUndrained(w) ==
  /\ worker[w] = "waiting" /\ closed
  /\ worker' = [worker EXCEPT ![w] = "exited"]
  /\ UNCHANGED <<jobQueue, closed, job, panicked, accepted>>
ExitNever(w) == FALSE
Exit(w) ==
  /\ worker[w] = "waiting" /\ closed /\ jobQueue = <<>>
  /\ worker' = [worker EXCEPT ![w] = "exited"]
  /\ UNCHANGED <<jobQueue, closed, job, panicked, accepted>>

\* Stop: close, then wait for the wait group.
PoolClose ==
  /\ closed' = TRUE
  /\ UNCHANGED <<jobQueue, worker, job, panicked, accepted>>

PoolWaitDone == \A w \in Worker : worker[w] = "exited"

PoolTypeOK ==
  /\ jobQueue \in Seq(Job) /\ Len(jobQueue) <= Capacity
  /\ closed \in BOOLEAN /\ panicked \in BOOLEAN
  /\ worker \in [Worker -> Running \cup {"new", "waiting", "exited"}]
  /\ job \in [Worker -> Job \cup {NoJob}]
  /\ accepted \in [Job -> Nat]
=============================================================================
