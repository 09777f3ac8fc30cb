-------------------------- MODULE MasterController --------------------------
(***************************************************************************)
(* cluster/controller.go with cluster/worker_client.go: BroadcastCookie    *)
(* calls and WatchCookies streams around the jar.  Every call is a         *)
(* goroutine of the gRPC server; a section under subMu or j.mu is one      *)
(* action.  A stream is FIFO and reliable until its client disconnects, so *)
(* Send and the client's Recv and onUpdate are one step.                   *)
(***************************************************************************)
EXTENDS GlobalCookieJar

CONSTANTS
  Stream,    \* the WatchCookies calls
  PC, pcID,  \* the worker machines, and the one that makes each call
  Earlier,   \* Earlier[t]: the streams of t's machine that t replaces on reconnecting
  Leaving,   \* bound: the streams whose clients may disconnect
  ChanCap,   \* a subscriber's channel capacity, 32 in the code
  NoStream

ASSUME StreamAssumption ==
  /\ pcID \in [Stream -> PC]
  /\ Earlier \in [Stream -> SUBSET Stream]
  /\ Leaving \subseteq Stream
  /\ ChanCap \in Nat \ {0}
  /\ NoStream \notin Stream

VARIABLES
  bpc,      \* per broadcast: "idle", "bump", "snapshot", "fanOut", "done"
  resp,     \* its response to the subscribers
  subs,     \* s.subs: the stream registered for each machine
  spc,      \* per stream: "new", "snapshot", "forward", "leave", "closed"
  ch,       \* its channel
  gone,     \* its context is done: the client has disconnected or given up
  last,     \* the last message its client received
  seen,     \* history: the broadcasts whose cookies its client has received
  dropped,  \* history: a full channel has lost it an update
  server    \* ListenAndServe: "serving", "stopping" (in GracefulStop), "returned"

vars == <<jarVars, bpc, resp, subs, spc, ch, gone, last, seen, dropped, server>>

NoMessage == [cookies |-> [n \in Name |-> NoCookie], version |-> 0]

Init ==
  /\ NewGlobalCookieJar
  /\ bpc = [b \in Broadcast |-> "idle"]
  /\ resp = [b \in Broadcast |-> NoMessage]
  /\ subs = [p \in PC |-> NoStream]
  /\ spc = [s \in Stream |-> "new"]
  /\ ch = [s \in Stream |-> <<>>]
  /\ gone = [s \in Stream |-> FALSE]
  /\ last = [s \in Stream |-> NoMessage]
  /\ seen = [s \in Stream |-> {}]
  /\ dropped = [s \in Stream |-> FALSE]
  /\ server = "serving"

streamVars == <<subs, spc, ch, gone, last, seen, dropped>>
-----------------------------------------------------------------------------
(* BroadcastCookie                                                         *)

BroadcastGoto(b, l) == bpc' = [bpc EXCEPT ![b] = l]

\* An empty broadcast is refused and leaves no trace.
BroadcastStore(b) ==
  /\ server = "serving"
  /\ bpc[b] = "idle"
  /\ CookieNames[b] # {}
  /\ StoreEntries(b)
  /\ BroadcastGoto(b, "bump")
  /\ UNCHANGED <<version, resp, streamVars, server>>

BroadcastBump(b) ==
  /\ bpc[b] = "bump"
  /\ version' = NextVersion
  /\ resp' = [resp EXCEPT ![b].version = NextVersion]
  /\ BroadcastGoto(b, "snapshot")
  /\ UNCHANGED <<entries, order, streamVars, server>>

\* What is pushed; a variant pushes only what was uploaded.
PushedOwn(b) == [n \in Name |-> IF n \in CookieNames[b] THEN b ELSE NoCookie]
Pushed(b) == Snapshot.cookies

\* The response pairs a snapshot of the jar taken now with the version Store returned.
BroadcastSnapshot(b) ==
  /\ bpc[b] = "snapshot"
  /\ resp' = [resp EXCEPT ![b].cookies = Pushed(b)]
  /\ BroadcastGoto(b, "fanOut")
  /\ UNCHANGED <<jarVars, streamVars, server>>

\* The streams a fan-out reaches, and whether their channels have room; variants: a
\* channel takes one more than it holds, and a fan-out waits for room everywhere.
Reached == {s \in Stream : subs[pcID[s]] = s}
HasRoomOffByOne(s) == Len(ch[s]) <= ChanCap
HasRoom(s) == Len(ch[s]) < ChanCap
MayFanOutBlocking == \A s \in Reached : HasRoom(s)
MayFanOut == TRUE

\* Under subMu, without blocking: a subscriber whose channel is full loses the update.
BroadcastFanOut(b) ==
  /\ bpc[b] = "fanOut"
  /\ MayFanOut
  /\ ch' = [s \in Stream |-> IF s \in Reached /\ HasRoom(s) THEN Append(ch[s], resp[b]) ELSE ch[s]]
  /\ dropped' = [s \in Stream |-> dropped[s] \/ (s \in Reached /\ ~HasRoom(s))]
  /\ BroadcastGoto(b, "done")
  /\ UNCHANGED <<jarVars, resp, subs, spc, gone, last, seen, server>>

-----------------------------------------------------------------------------
(* WatchCookies                                                            *)

StreamGoto(s, l) == spc' = [spc EXCEPT ![s] = l]

\* stream.Send(m), received by the client's goroutine.
Send(s, m) ==
  /\ last' = [last EXCEPT ![s] = m]
  /\ seen' = [seen EXCEPT ![s] = @ \cup (Range(m.cookies) \ {NoCookie})]

\* A machine opens a stream after giving up its earlier ones, which the server may not
\* have noticed yet.  Registering replaces whatever stream the machine had.
WatchRegister(s) ==
  /\ server = "serving"
  /\ spc[s] = "new"
  /\ \A t \in Earlier[s] : gone[t]
  /\ subs' = [subs EXCEPT ![pcID[s]] = s]
  /\ StreamGoto(s, "snapshot")
  /\ UNCHANGED <<jarVars, bpc, resp, ch, gone, last, seen, dropped, server>>

\* The current jar first; a variant starts with an empty one.
FirstMessageEmpty(s) == NoMessage
FirstMessage(s) == Snapshot

WatchSnapshot(s) ==
  /\ spc[s] = "snapshot"
  /\ \/ ~gone[s] /\ Send(s, FirstMessage(s)) /\ StreamGoto(s, "forward")
     \/ gone[s] /\ StreamGoto(s, "leave") /\ UNCHANGED <<last, seen>>
  /\ UNCHANGED <<jarVars, bpc, resp, subs, ch, gone, dropped, server>>

\* Both cases of the select may be ready; a Send to a client that is gone fails.
WatchForward(s) ==
  /\ spc[s] = "forward"
  /\ ch[s] # <<>>
  /\ ch' = [ch EXCEPT ![s] = Tail(@)]
  /\ \/ ~gone[s] /\ Send(s, Head(ch[s])) /\ UNCHANGED spc
     \/ gone[s] /\ StreamGoto(s, "leave") /\ UNCHANGED <<last, seen>>
  /\ UNCHANGED <<jarVars, bpc, resp, subs, gone, dropped, server>>

\* ctx.Done(); a variant does not look at it.
WatchDoneUnseen(s) == FALSE
WatchDone(s) ==
  /\ spc[s] = "forward"
  /\ gone[s]
  /\ StreamGoto(s, "leave")
  /\ UNCHANGED <<jarVars, bpc, resp, subs, ch, gone, last, seen, dropped, server>>

\* What the deferred delete leaves in s.subs, whoever is registered; a variant forgets it.
WithoutForgotten(s) == subs
Without(s) == [subs EXCEPT ![pcID[s]] = NoStream]

\* The handler returns; its channel and the records kept of it go with it.
WatchLeave(s) ==
  /\ spc[s] = "leave"
  /\ subs' = Without(s)
  /\ StreamGoto(s, "closed")
  /\ ch' = [ch EXCEPT ![s] = <<>>]
  /\ last' = [last EXCEPT ![s] = NoMessage]
  /\ seen' = [seen EXCEPT ![s] = {}]
  /\ dropped' = [dropped EXCEPT ![s] = FALSE]
  /\ UNCHANGED <<jarVars, bpc, resp, gone, server>>

Disconnect(s) ==
  /\ s \in Leaving
  /\ spc[s] # "new" /\ ~gone[s]
  /\ gone' = [gone EXCEPT ![s] = TRUE]
  /\ UNCHANGED <<jarVars, bpc, resp, subs, spc, ch, last, seen, dropped, server>>

-----------------------------------------------------------------------------
(* ListenAndServe.  A Serve that fails returns its error and touches nothing here. *)

Connected(s) == spc[s] \notin {"new", "closed"} /\ ~gone[s]

\* The context is done: GracefulStop refuses new calls.
ServerStop ==
  /\ server = "serving"
  /\ server' = "stopping"
  /\ UNCHANGED <<jarVars, bpc, resp, streamVars>>

\* GracefulStop returns when every handler has.
ServerReturn ==
  /\ server = "stopping"
  /\ \A b \in Broadcast : bpc[b] \in {"idle", "done"}
  /\ \A s \in Stream : spc[s] \in {"new", "closed"}
  /\ server' = "returned"
  /\ UNCHANGED <<jarVars, bpc, resp, streamVars>>

-----------------------------------------------------------------------------
BroadcastStep(b) ==
  BroadcastStore(b) \/ BroadcastBump(b) \/ BroadcastSnapshot(b) \/ BroadcastFanOut(b)

StreamStep(s) == WatchSnapshot(s) \/ WatchForward(s) \/ WatchDone(s) \/ WatchLeave(s)

Next == \/ \E b \in Broadcast : BroadcastStep(b)
        \/ \E s \in Stream : WatchRegister(s) \/ StreamStep(s) \/ Disconnect(s)
        \/ ServerStop \/ ServerReturn

\* A broadcast that has begun goes on.  A stream need not before its client is gone: one
\* that does not read blocks its handler's Send by flow control.
Fairness ==
  /\ \A b \in Broadcast : WF_vars(bpc[b] # "idle" /\ BroadcastStep(b))
  /\ \A s \in Stream : WF_vars(gone[s] /\ StreamStep(s))
  /\ WF_vars(ServerReturn)

Spec == Init /\ [][Next]_vars /\ Fairness
-----------------------------------------------------------------------------
(* Properties                                                              *)

Message == [cookies : [Name -> Broadcast \cup {NoCookie}], version : Nat]

\* The shape of the state; no channel is over its capacity, and no broadcast is stored twice.
TypeOK ==
  /\ JarTypeOK
  /\ bpc \in [Broadcast -> {"idle", "bump", "snapshot", "fanOut", "done"}]
  /\ resp \in [Broadcast -> Message]
  /\ subs \in [PC -> Stream \cup {NoStream}]
  /\ spc \in [Stream -> {"new", "snapshot", "forward", "leave", "closed"}]
  /\ ch \in [Stream -> Seq(Message)] /\ \A s \in Stream : Len(ch[s]) <= ChanCap
  /\ gone \in [Stream -> BOOLEAN] /\ dropped \in [Stream -> BOOLEAN]
  /\ last \in [Stream -> Message] /\ seen \in [Stream -> SUBSET Broadcast]
  /\ server \in {"serving", "stopping", "returned"}

\* A subscriber that is registered and has worked off its channel without losing an update
\* has received every cookie whose BroadcastCookie returned, or a later one of its name,
\* whether the broadcast came before its registration, between it and the first snapshot,
\* or after ("up-to-date before the first BroadcastCookie event arrives", WatchCookies).
SubscriberMissesNothing ==
  \A s \in Reached, b \in Broadcast :
    (spc[s] = "forward" /\ ch[s] = <<>> /\ ~dropped[s] /\ ~gone[s] /\ bpc[b] = "done") =>
      \A n \in CookieNames[b] :
        \E c \in seen[s] : n \in CookieNames[c] /\
          \E i, j \in DOMAIN order : i <= j /\ order[i] = b /\ order[j] = c

\* A message labelled with version v holds the cookies of every broadcast whose Store
\* returned v or less, although Store bumps the version outside the jar's lock and
\* BroadcastCookie labels a later snapshot with its own version.
VersionCovers ==
  \A m \in {last[s] : s \in Stream} \cup {Snapshot} \cup UNION {{ch[s][i] : i \in DOMAIN ch[s]} : s \in Stream} :
    \A b \in Broadcast :
      resp[b].version \in 1 .. m.version => Covers(m.cookies, b)

\* A stream whose handler has returned is not left registered to collect updates nobody
\* reads, however reconnections interleave with the deferred deletes.
NoClosedSubscriber == \A p \in PC : subs[p] # NoStream => spc[subs[p]] # "closed"

\* A broadcast returns whatever the subscribers do, also when none of them reads: their
\* channels never block it.
BroadcastReturns == \A b \in Broadcast : bpc[b] = "bump" ~> bpc[b] = "done"

\* ListenAndServe "blocks until the provided context is cancelled", and then only as long
\* as a watching client stays connected: when none is left it returns, whatever broadcasts
\* and streams were going on and however full their channels are.
StopReturns ==
  server = "stopping" /\ (\A s \in Stream : ~Connected(s)) ~> server = "returned"

\* Every stream that is forwarding to a connected client is registered: BroadcastCookie
\* "pushes them to every active WatchCookies subscriber".
ActiveSubscribed ==
  \A s \in Stream : (spc[s] = "forward" /\ ~gone[s]) => s \in Reached
=============================================================================
