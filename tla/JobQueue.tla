------------------------------ MODULE JobQueue ------------------------------
(***************************************************************************)
(* What worker.WorkerPool promises: a job that Submit has taken is begun   *)
(* after those taken before it, runs once, and has ended when Stop         *)
(* returns; none is taken once Stop has begun.  How many workers there     *)
(* are, and which of them runs a job, is not visible here; see Engine for  *)
(* the implementation, with the pool's callers.                            *)
(***************************************************************************)
EXTENDS Naturals, Sequences

CONSTANT Job

VARIABLES
  waiting,  \* the jobs taken and not begun, oldest first
  running,  \* running[j]: how many times j is running now
  phase     \* "open", "closing" (Stop has begun), "stopped" (Stop has returned)

vars == <<waiting, running, phase>>

Init == /\ waiting = <<>>
        /\ running = [j \in Job |-> 0]
        /\ phase = "open"

Take(j) == /\ phase = "open"
           /\ waiting' = Append(waiting, j)
           /\ UNCHANGED <<running, phase>>

Begin == /\ waiting # <<>>
         /\ running' = [running EXCEPT ![Head(waiting)] = @ + 1]
         /\ waiting' = Tail(waiting)
         /\ UNCHANGED phase

End(j) == /\ running[j] > 0
          /\ running' = [running EXCEPT ![j] = @ - 1]
          /\ UNCHANGED <<waiting, phase>>

StopBegins == /\ phase = "open"
              /\ phase' = "closing"
              /\ UNCHANGED <<waiting, running>>

StopReturns == /\ phase = "closing"
               /\ waiting = <<>> /\ \A j \in Job : running[j] = 0
               /\ phase' = "stopped"
               /\ UNCHANGED <<waiting, running>>

Next == (\E j \in Job : Take(j) \/ End(j)) \/ Begin \/ StopBegins \/ StopReturns

Spec == Init /\ [][Next]_vars
=============================================================================
