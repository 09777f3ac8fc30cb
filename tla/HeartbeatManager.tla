-------------------------- MODULE HeartbeatManager --------------------------
(***************************************************************************)
(* token/heartbeat.go: session states shared by many goroutines in a       *)
(* sync.Map, and the keep-alive goroutine that updates them.  Every        *)
(* operation on the map is one action; ClaimSession and                    *)
(* ExtractFromResponse are two, a Load and what is done with its result.   *)
(* A *SessionState is a record with its address: CompareAndSwap compares   *)
(* the address, which is reused once nobody refers to it.                  *)
(***************************************************************************)
EXTENDS Integers, Sequences, FiniteSets

CONSTANTS
  Caller, Loop,   \* goroutines calling the manager, and its own keep-alive goroutine
  Session,        \* session IDs
  sessionIDs,     \* the sequence of those Start is given
  Writer,         \* Writer[s]: who calls SetState and ExtractFromResponse for s
  Response,       \* HTTP responses, each received once
  Name,           \* cookie names
  CookieNames,    \* the names a response's Set-Cookie headers set
  Bearer,         \* the responses that carry a new token
  NoSession, NoState, NoResponse

Proc == Caller \cup {Loop}

\* One address more than sessions and goroutines can refer to.
Address == 1 .. Cardinality(Session) + Cardinality(Proc) + 1
StateRecord == [at : Address, available : BOOLEAN, cookies : [Name -> Response \cup {NoResponse}],
                token : Response \cup {NoResponse}]

ASSUME HeartbeatAssumption ==
  /\ IsFiniteSet(Caller) /\ IsFiniteSet(Session) /\ Loop \notin Caller
  /\ sessionIDs \in Seq(Session)
  /\ Writer \in [Session -> SUBSET Proc]
  /\ \A i \in DOMAIN sessionIDs : Loop \in Writer[sessionIDs[i]]
  /\ CookieNames \in [Response -> SUBSET Name]
  /\ Bearer \subseteq Response
  /\ NoSession \notin Session /\ NoResponse \notin Response /\ NoState \notin StateRecord

VARIABLES
  sessions,   \* m.sessions: the stored state, NoState for an ID without one
  pc, id,     \* per goroutine: where it is, and the session its call is for
  old,        \* the state its Load returned, kept while it uses it
  resp,       \* the response it works with
  next,       \* how many of sessionIDs sendKeepAlive has dealt with
  received,   \* history: the responses received so far
  once,       \* m.once has been used
  stopCh,     \* m.stopCh is closed
  latest      \* history: per session, the response that last wrote each cookie

vars == <<sessions, pc, id, old, resp, next, received, once, stopCh, latest>>

NoCookies == [n \in Name |-> NoResponse]

Init ==
  /\ sessions = [s \in Session |-> NoState]
  /\ pc = [p \in Proc |-> IF p = Loop THEN "off" ELSE "idle"]
  /\ id = [p \in Proc |-> NoSession]
  /\ old = [p \in Proc |-> NoState]
  /\ resp = [p \in Proc |-> NoResponse]
  /\ next = 0
  /\ received = {}
  /\ once = FALSE /\ stopCh = FALSE
  /\ latest = [s \in Session |-> NoCookies]

-----------------------------------------------------------------------------
(* States                                                                  *)

\* An address nothing refers to: &SessionState{...} on the heap.
Referenced == ({sessions[s] : s \in Session} \cup {old[p] : p \in Proc}) \ {NoState}
Fresh == CHOOSE a \in Address : \A st \in Referenced : st.at # a

NewState(available, cookies, token) ==
  [at |-> Fresh, available |-> available, cookies |-> cookies, token |-> token]

\* mergeCookies: the response's cookies replace those of their names.
mergeCookies(cookies, r) == [n \in Name |-> IF n \in CookieNames[r] THEN r ELSE cookies[n]]
NewToken(token, r) == IF r \in Bearer THEN r ELSE token

Available(s) == sessions[s] # NoState /\ sessions[s].available

At(p, l) == pc[p] = l
Goto(p, l) == pc' = [pc EXCEPT ![p] = l]

\* The call on id[p] is over, and the goroutine goes on at l.
Done(p, l) ==
  /\ Goto(p, l)
  /\ id' = [id EXCEPT ![p] = NoSession]
  /\ old' = [old EXCEPT ![p] = NoState]

-----------------------------------------------------------------------------
(* The session state API, as goroutines that share sessions call it        *)

\* A solved challenge: the whole state is replaced, whatever was stored.
SetState(p) ==
  /\ At(p, "idle")
  /\ \E s \in Session, r \in Response \ received :
       /\ p \in Writer[s]
       /\ received' = received \cup {r}
       /\ sessions' = [sessions EXCEPT ![s] =
            NewState(TRUE, mergeCookies(NoCookies, r), NewToken(NoResponse, r))]
       /\ latest' = [latest EXCEPT ![s] = mergeCookies(NoCookies, r)]
  /\ UNCHANGED <<pc, id, old, resp, next, once, stopCh>>

\* Range comes to a state that is available; finding none, the caller gets nil.
FindAvailable(p) ==
  /\ At(p, "idle")
  /\ \E s \in Session : Available(s) /\ id' = [id EXCEPT ![p] = s]
  /\ Goto(p, "found")
  /\ UNCHANGED <<sessions, old, resp, next, received, once, stopCh, latest>>

\* ClaimSession's Load, and its return when another has made the state unavailable.
ClaimLoad(p) ==
  /\ At(p, "found")
  /\ \/ /\ Available(id[p])
        /\ old' = [old EXCEPT ![p] = sessions[id[p]]]
        /\ Goto(p, "claim")
        /\ UNCHANGED id
     \/ /\ ~Available(id[p])
        /\ Done(p, "idle")
  /\ UNCHANGED <<sessions, resp, next, received, once, stopCh, latest>>

\* CompareAndSwap finds the very state that was loaded; a variant stores in any case.
SwapsBlind(p) == TRUE
Swaps(p) == sessions[id[p]].at = old[p].at

\* A goroutine that has claimed a session keeps the state it claimed, as a history.
ClaimSwap(p) ==
  /\ At(p, "claim")
  /\ \/ /\ Swaps(p)
        /\ sessions' = [sessions EXCEPT ![id[p]] = NewState(FALSE, old[p].cookies, old[p].token)]
        /\ Goto(p, "claimed")
        /\ UNCHANGED <<id, old>>
     \/ /\ ~Swaps(p)
        /\ Done(p, "idle")
        /\ UNCHANGED sessions
  /\ UNCHANGED <<resp, next, received, once, stopCh, latest>>

\* The owner of a session has a response to its request, and hands it in.
OwnerReceive(p) ==
  /\ At(p, "claimed")
  /\ p \in Writer[id[p]]
  /\ \E r \in Response \ received :
       /\ received' = received \cup {r}
       /\ resp' = [resp EXCEPT ![p] = r]
  /\ Goto(p, "extract")
  /\ UNCHANGED <<sessions, id, old, next, once, stopCh, latest>>

\* The owner's request fails: it goes, and the session stays unavailable.
OwnerLeave(p) ==
  /\ At(p, "claimed")
  /\ Done(p, "idle")
  /\ UNCHANGED <<sessions, resp, next, received, once, stopCh, latest>>

\* ExtractFromResponse returns to sendKeepAlive's loop, or to the caller.
After(p) == IF p = Loop THEN "each" ELSE "idle"

\* Without cookies it returns at once; otherwise it reads the state it builds on.
ExtractLoad(p) ==
  /\ At(p, "extract")
  /\ \/ /\ CookieNames[resp[p]] # {}
        /\ old' = [old EXCEPT ![p] = sessions[id[p]]]
        /\ Goto(p, "store")
        /\ UNCHANGED id
     \/ /\ CookieNames[resp[p]] = {}
        /\ Done(p, After(p))
  /\ UNCHANGED <<sessions, resp, next, received, once, stopCh, latest>>

\* What it builds on: the state it read, or a new one.
Base(p) == IF old[p] = NoState THEN [cookies |-> NoCookies, token |-> NoResponse] ELSE old[p]

\* SetState, without a second look; the session is available, whoever has claimed it.
ExtractStore(p) ==
  /\ At(p, "store")
  /\ sessions' = [sessions EXCEPT ![id[p]] =
       NewState(TRUE, mergeCookies(Base(p).cookies, resp[p]), NewToken(Base(p).token, resp[p]))]
  /\ latest' = [latest EXCEPT ![id[p]] = mergeCookies(@, resp[p])]
  /\ Done(p, After(p))
  /\ UNCHANGED <<resp, next, received, once, stopCh>>

-----------------------------------------------------------------------------
(* The keep-alive loop                                                     *)

Start ==
  /\ ~once
  /\ once' = TRUE
  /\ Goto(Loop, "select")
  /\ UNCHANGED <<sessions, id, old, resp, next, received, stopCh, latest>>

\* Stop, called by one goroutine, uses up the once, so that a later Start does nothing; a
\* variant forgets to.
OnceForgotten == once
OnceAfterStop == TRUE

Stop ==
  /\ ~stopCh
  /\ once' = OnceAfterStop
  /\ stopCh' = TRUE
  /\ UNCHANGED <<sessions, pc, id, old, resp, next, received, latest>>

\* select: <-stopCh; a variant without this case.
StopUnseen == FALSE
StopSeen == stopCh

LoopStop ==
  /\ At(Loop, "select")
  /\ StopSeen
  /\ Goto(Loop, "exited")
  /\ UNCHANGED <<sessions, id, old, resp, next, received, once, stopCh, latest>>

\* select: <-ctx.Done(), any time.
LoopCtxDone ==
  /\ At(Loop, "select")
  /\ Goto(Loop, "exited")
  /\ UNCHANGED <<sessions, id, old, resp, next, received, once, stopCh, latest>>

LoopTick ==
  /\ At(Loop, "select")
  /\ Goto(Loop, "request")
  /\ UNCHANGED <<sessions, id, old, resp, next, received, once, stopCh, latest>>

\* sendKeepAlive's request: no URL, an error or a status other than 2xx ends it.
LoopRequest ==
  /\ At(Loop, "request")
  /\ \/ /\ \E r \in Response \ received :
             /\ received' = received \cup {r}
             /\ resp' = [resp EXCEPT ![Loop] = r]
        /\ next' = 0
        /\ Goto(Loop, "each")
     \/ /\ Goto(Loop, "select")
        /\ UNCHANGED <<received, resp, next>>
  /\ UNCHANGED <<sessions, id, old, once, stopCh, latest>>

\* The same response for every session.
LoopEach ==
  /\ At(Loop, "each")
  /\ \/ /\ next < Len(sessionIDs)
        /\ next' = next + 1
        /\ id' = [id EXCEPT ![Loop] = sessionIDs[next + 1]]
        /\ Goto(Loop, "extract")
     \/ /\ next = Len(sessionIDs)
        /\ Goto(Loop, "select")
        /\ UNCHANGED <<next, id>>
  /\ UNCHANGED <<sessions, old, resp, received, once, stopCh, latest>>

-----------------------------------------------------------------------------
CallerStep(p) ==
  \/ SetState(p)     \/ FindAvailable(p) \/ ClaimLoad(p) \/ ClaimSwap(p)
  \/ OwnerReceive(p) \/ OwnerLeave(p)    \/ ExtractLoad(p) \/ ExtractStore(p)

LoopStep == LoopRequest \/ LoopEach \/ ExtractLoad(Loop) \/ ExtractStore(Loop)

Next == \/ \E p \in Caller : CallerStep(p)
        \/ LoopStep \/ LoopStop \/ LoopCtxDone \/ LoopTick
        \/ Start \/ Stop

\* A request ends within the client's timeout.  When several cases of a select are ready
\* Go picks one at random, so stopCh is not passed over for ever: strong fairness.
Fairness == WF_vars(LoopStep) /\ SF_vars(LoopStop)

Spec == Init /\ [][Next]_vars /\ Fairness
-----------------------------------------------------------------------------
(* Properties                                                              *)

\* The shape of the state; the loop has started, or stopCh is closed, only when the once
\* is used.
TypeOK ==
  /\ sessions \in [Session -> StateRecord \cup {NoState}]
  /\ old \in [Proc -> StateRecord \cup {NoState}]
  /\ \A p \in Caller : pc[p] \in {"idle", "found", "claim", "claimed", "extract", "store"}
  /\ pc[Loop] \in {"off", "select", "request", "each", "extract", "store", "exited"}
  /\ id \in [Proc -> Session \cup {NoSession}]
  /\ resp \in [Proc -> Response \cup {NoResponse}] /\ received \subseteq Response
  /\ next \in 0 .. Len(sessionIDs)
  /\ latest \in [Session -> [Name -> Response \cup {NoResponse}]]
  /\ once \in BOOLEAN /\ stopCh \in BOOLEAN
  /\ stopCh \/ pc[Loop] # "off" => once

\* Of the goroutines that find one available state, at most one wins it, although each has
\* read it and its address may have been used anew ("CompareAndSwap ensures we win the
\* race", ClaimSession).
ClaimedOnce ==
  \A p, q \in Caller : (pc[p] = "claimed" /\ pc[q] = "claimed" /\ old[p] = old[q]) => p = q

\* A session with one writer keeps every cookie that was extracted for it, however many
\* goroutines claim it at the same time: a claim never brings an older state back ("a
\* single writer updates the entry atomically", HeartbeatManager).
SoleWriterKeepsCookies ==
  \A s \in Session :
    (Cardinality(Writer[s]) = 1 /\ sessions[s] # NoState) => sessions[s].cookies = latest[s]

\* A Stop, before Start or after it, leaves no keep-alive loop running.
StopEndsLoop == stopCh ~> [](pc[Loop] \in {"off", "exited"})

\* A session that a goroutine has claimed is its own while no goroutine hands it back: "this
\* goroutine now owns the slot" (README, ClaimSession).
OneOwner ==
  \A p, q \in Caller :
    (/\ pc[p] = "claimed" /\ pc[q] = "claimed" /\ id[p] = id[q]
     /\ Writer[id[p]] \cap Caller = {})
      => p = q
=============================================================================
