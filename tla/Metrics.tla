------------------------------ MODULE Metrics ------------------------------
(***************************************************************************)
(* metrics/metrics.go: three atomic counters, and Snapshot, which loads    *)
(* them one after the other while the workers count on.  Bound: 64-bit     *)
(* counters do not wrap in a run.                                          *)
(***************************************************************************)
EXTENDS Integers

CONSTANT Reader   \* the goroutines that take snapshots

VARIABLES
  TotalRequests, Success, Failed,
  snap   \* per reader: how many loads it has done, and what each returned

metricsVars == <<TotalRequests, Success, Failed, snap>>

NewMetrics ==
  /\ TotalRequests = 0 /\ Success = 0 /\ Failed = 0
  /\ snap = [r \in Reader |-> [loads |-> 0, total |-> 0, success |-> 0, failed |-> 0]]

\* Atomic adds.
IncrementTotal == /\ TotalRequests' = TotalRequests + 1
                  /\ UNCHANGED <<Success, Failed, snap>>
IncrementSuccess == /\ Success' = Success + 1
                    /\ UNCHANGED <<TotalRequests, Failed, snap>>
\* A variant loses the count, as an unsynchronised add may.
IncrementFailedLost == UNCHANGED metricsVars
IncrementFailed == /\ Failed' = Failed + 1
                   /\ UNCHANGED <<TotalRequests, Success, snap>>

\* Snapshot's loads, in the order of its return statement; after the third it returns.
Load(r) ==
  /\ \/ /\ snap[r].loads = 0
        /\ snap' = [snap EXCEPT ![r].loads = 1, ![r].total = TotalRequests]
     \/ /\ snap[r].loads = 1
        /\ snap' = [snap EXCEPT ![r].loads = 2, ![r].success = Success]
     \/ /\ snap[r].loads = 2
        /\ snap' = [snap EXCEPT ![r].loads = 3, ![r].failed = Failed]
  /\ UNCHANGED <<TotalRequests, Success, Failed>>

\* The reader uses its snapshot, and will call Snapshot again.
Discard(r) ==
  /\ snap[r].loads = 3
  /\ snap' = [snap EXCEPT ![r] = [loads |-> 0, total |-> 0, success |-> 0, failed |-> 0]]
  /\ UNCHANGED <<TotalRequests, Success, Failed>>

MetricsTypeOK ==
  /\ TotalRequests \in Nat /\ Success \in Nat /\ Failed \in Nat
  /\ snap \in [Reader -> [loads : 0 .. 3, total : Nat, success : Nat, failed : Nat]]
=============================================================================
