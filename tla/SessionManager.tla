--------------------------- MODULE SessionManager ---------------------------
(***************************************************************************)
(* session/manager.go and the State and Proxy of session/session.go: the   *)
(* registered sessions by ID.  CreateSessions runs one goroutine for each  *)
(* session; every other operation holds sm.mutex and is one action.        *)
(***************************************************************************)
EXTENDS ProxyManager, FiniteSets

CONSTANT NumberOfSessions   \* cfg.NumberOfSessions

ASSUME SessionsAssumption == NumberOfSessions \in Nat

VARIABLES
  sessions,  \* the IDs in sm.sessions
  state,     \* Session.State by ID; "none" and "failed" before and instead of NewSession's
  proxy      \* Session.Proxy by ID

sessionVars == <<proxyVars, sessions, state, proxy>>

Id == 0 .. NumberOfSessions - 1

NewSessionManager ==
  /\ sessions = {}
  /\ state = [i \in Id |-> "none"]
  /\ proxy = [i \in Id |-> Direct]

\* Session i with the proxy p, or the error of its client.
NewSession(i, p) ==
  /\ proxy' = [proxy EXCEPT ![i] = p]
  /\ state' = [state EXCEPT ![i] = IF BuildsClient(p) THEN "idle" ELSE "failed"]

\* The goroutine of session i: it takes the rotation's next proxy and builds the session.
CreateSession(i) ==
  /\ state[i] = "none"
  /\ GetNextProxy
  /\ NewSession(i, NextProxy)
  /\ UNCHANGED sessions

\* All goroutines have sent their results: those that have a session are registered.
RegisterSessions ==
  /\ \A i \in Id : state[i] # "none"
  /\ sessions' = {i \in Id : state[i] = "idle"}
  /\ UNCHANGED <<proxyVars, state, proxy>>

StartAll ==
  /\ state' = [i \in Id |-> IF i \in sessions /\ state[i] = "idle" THEN "active" ELSE state[i]]
  /\ UNCHANGED <<proxyVars, sessions, proxy>>

\* Close every session and forget it.
StopAll ==
  /\ state' = [i \in Id |-> IF i \in sessions THEN "closed" ELSE state[i]]
  /\ sessions' = {}
  /\ UNCHANGED <<proxyVars, proxy>>

Count == Cardinality(sessions)
GetSession(i) == i \in sessions

SessionTypeOK ==
  /\ ProxyTypeOK
  /\ sessions \subseteq Id
  /\ state \in [Id -> {"none", "failed", "idle", "active", "closed"}]
  /\ proxy \in [Id -> Proxy \cup {Direct}]
=============================================================================
