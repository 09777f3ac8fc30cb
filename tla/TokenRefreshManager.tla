------------------------- MODULE TokenRefreshManager -------------------------
(***************************************************************************)
(* token/refresh.go: one JWT, renewed by background goroutines and by      *)
(* callers, with the time its tickers and its deadlines depend on.  A      *)
(* goroutine that can go on does so before time does; a request takes at   *)
(* most Latency.  Both URLs are configured.                                *)
(***************************************************************************)
EXTENDS Integers

CONSTANTS
  Caller,         \* goroutines that call SetToken and Refresh
  AutoRefresh, Heartbeat, \* the goroutines StartAutoRefresh and StartHeartbeat launch, one per call
  Interval,       \* Interval[l]: checkInterval, or StartHeartbeat's interval
  refreshBefore,
  Latency,        \* a request and its answer take at most this long (the client's timeout)
  Life,           \* how long a token issued by the server is valid
  Expiry,         \* bound: when a token that comes from elsewhere may expire
  MaxFailures,    \* bound: a loop's refresh fails at most this often in a row
  MaxTime         \* bound: the clock stops here

Loop == AutoRefresh \cup Heartbeat
Proc == Caller \cup Loop

\* How long a loop may take to replace a token it has found due or malformed.
Renewal(l) == Interval[l] * (MaxFailures + 1) + Latency

ASSUME TokenAssumption ==
  /\ Caller \cap Loop = {} /\ AutoRefresh \cap Heartbeat = {}
  /\ Interval \in [Loop -> Nat \ {0}]
  /\ refreshBefore \in Nat /\ Latency \in Nat /\ Life \in Nat
  /\ Expiry \subseteq Nat
  /\ MaxFailures \in Nat /\ MaxTime \in Nat

\* What the properties ask of the operator's choice of intervals; the code checks none of it.
ASSUME TimingAssumption ==
  /\ \A l \in Loop : Latency < Interval[l]
  /\ \A l \in AutoRefresh : Renewal(l) < refreshBefore /\ Renewal(l) + Latency < Life

VARIABLES
  now,        \* the clock, in seconds
  token,      \* m.token
  stopCh,     \* m.stopCh is closed
  pc,         \* a loop: "off", "select", "request", "exited"; a caller: "idle", "request"
  tick,       \* a loop's ticker has a tick in its channel, which holds one
  nextTick,   \* when it will tick next
  sent,       \* when the request in flight was sent
  failures,   \* how often a loop's refresh has failed since it last succeeded
  start,      \* history: when a loop was launched
  stored,     \* history: when a token with an expiry was stored
  bad,        \* history: since when the token has not been a JWT
  late        \* history: how many requests a loop has begun since Stop

vars == <<now, token, stopCh, pc, tick, nextTick, sent, failures, start, stored, bad, late>>
timers == <<tick, nextTick>>
-----------------------------------------------------------------------------
(* Tokens.  A JWT may lack a numeric exp claim; what is no JWT is malformed *)

NoToken == [kind |-> "none", exp |-> 0]
Malformed == [kind |-> "malformed", exp |-> 0]
Unlimited == [kind |-> "unlimited", exp |-> 0]
Limited(e) == [kind |-> "limited", exp |-> e]
Issued(t) == Limited(t + Life)

\* What a string may be: empty, no JWT, or a JWT, however old.
Token == {NoToken, Malformed, Unlimited} \cup {Limited(e) : e \in Expiry}

IsExpired(tok) ==
  \/ tok.kind \in {"none", "malformed"}
  \/ tok.kind = "limited" /\ now >= tok.exp

\* Whether a check calls Refresh; variants: it waits until the token has expired, and it
\* does nothing about what is no JWT.
DueLate(tok) == tok.kind \in {"malformed", "limited"} /\ IsExpired(tok)
DueParsed(tok) == tok.kind = "limited" /\ now > tok.exp - refreshBefore
Due(tok) ==
  \/ tok.kind = "malformed"
  \/ tok.kind = "limited" /\ now > tok.exp - refreshBefore

-----------------------------------------------------------------------------
Init ==
  /\ now = 0 /\ token = NoToken /\ stopCh = FALSE
  /\ pc = [p \in Proc |-> IF p \in Loop THEN "off" ELSE "idle"]
  /\ tick = [l \in Loop |-> FALSE]
  /\ nextTick = [l \in Loop |-> 0]
  /\ sent = [p \in Proc |-> 0]
  /\ failures = [l \in AutoRefresh |-> 0]
  /\ start = [l \in Loop |-> 0]
  /\ stored = 0 /\ bad = 0
  /\ late = [l \in Loop |-> 0]

Goto(p, l) == pc' = [pc EXCEPT ![p] = l]

\* SetToken, whoever calls it.
Store(tok) ==
  /\ token' = tok
  /\ stored' = IF tok.kind = "limited" THEN now ELSE 0
  /\ bad' = IF tok.kind # "malformed" THEN 0 ELSE IF token.kind = "malformed" THEN bad ELSE now

Send(p) ==
  /\ Goto(p, "request")
  /\ sent' = [sent EXCEPT ![p] = now]

\* A caller stores what it likes: the code looks at none of it.
SetToken(c) ==
  /\ pc[c] = "idle"
  /\ \E tok \in Token \cup {Issued(now)} : Store(tok)
  /\ UNCHANGED <<now, stopCh, pc, timers, sent, failures, start, late>>

\* A caller's own Refresh.
CallRefresh(c) ==
  /\ pc[c] = "idle"
  /\ Send(c)
  /\ UNCHANGED <<now, token, stopCh, timers, failures, start, stored, bad, late>>

\* Where a goroutine goes after a request.
Resume(p) == Goto(p, IF p \in Loop THEN "select" ELSE "idle")

\* A 2xx answer with a token issued for this request: it is stored without a second look,
\* although another token may have been stored since.
RefreshStore(p) ==
  /\ p \notin Heartbeat /\ pc[p] = "request"
  /\ \/ \E t \in sent[p] .. now : Store(Issued(t))
     \/ Store(Unlimited)
  /\ failures' = [l \in AutoRefresh |-> IF l = p THEN 0 ELSE failures[l]]
  /\ Resume(p) /\ sent' = [sent EXCEPT ![p] = 0]
  /\ UNCHANGED <<now, stopCh, timers, start, late>>

\* An answer that is no fresh token: an error, a status other than 2xx and an empty body
\* change nothing, any other body is stored, an error page or an old token included.
Keep == UNCHANGED <<token, stored, bad>>
RefreshFail(p) ==
  /\ p \notin Heartbeat /\ pc[p] = "request"
  /\ p \in AutoRefresh => failures[p] < MaxFailures
  /\ Keep \/ \E tok \in Token \ {NoToken} : Store(tok)
  /\ failures' = [l \in AutoRefresh |-> IF l = p THEN failures[l] + 1 ELSE failures[l]]
  /\ Resume(p) /\ sent' = [sent EXCEPT ![p] = 0]
  /\ UNCHANGED <<now, stopCh, timers, start, late>>

-----------------------------------------------------------------------------
(* The background goroutines                                               *)

\* time.NewTicker's first tick comes after one interval; a variant ticks at once.
FirstTickNow(l) == now
FirstTick(l) == now + Interval[l]

\* StartAutoRefresh or StartHeartbeat; every call launches another goroutine.
Start(l) ==
  /\ pc[l] = "off"
  /\ Goto(l, "select")
  /\ nextTick' = [nextTick EXCEPT ![l] = FirstTick(l)]
  /\ start' = [start EXCEPT ![l] = now]
  /\ UNCHANGED <<now, token, stopCh, tick, sent, failures, stored, bad, late>>

\* once.Do(close(stopCh)): a second Stop does nothing.
Stop ==
  /\ ~stopCh
  /\ stopCh' = TRUE
  /\ UNCHANGED <<now, token, pc, timers, sent, failures, start, stored, bad, late>>

\* select: <-stopCh; a variant without this case.
StopUnseen == FALSE
StopSeen == stopCh

LoopStop(l) ==
  /\ pc[l] = "select"
  /\ StopSeen
  /\ Goto(l, "exited")
  /\ tick' = [tick EXCEPT ![l] = FALSE]
  /\ nextTick' = [nextTick EXCEPT ![l] = 0]
  /\ UNCHANGED <<now, token, stopCh, sent, failures, start, stored, bad, late>>

\* select: <-ticker.C, also when stopCh is closed.  A heartbeat is always sent, a refresh
\* when the token is due.
LoopTick(l) ==
  /\ pc[l] = "select" /\ tick[l]
  /\ tick' = [tick EXCEPT ![l] = FALSE]
  /\ \/ /\ l \in Heartbeat \/ Due(token)
        /\ Send(l)
        /\ late' = [late EXCEPT ![l] = IF stopCh THEN @ + 1 ELSE @]
     \/ /\ l \in AutoRefresh /\ ~Due(token)
        /\ UNCHANGED <<pc, sent, late>>
  /\ UNCHANGED <<now, token, stopCh, nextTick, failures, start, stored, bad>>

\* SendHeartbeat returns; the loop discards its error.
BeatEnd(l) ==
  /\ l \in Heartbeat /\ pc[l] = "request"
  /\ Resume(l) /\ sent' = [sent EXCEPT ![l] = 0]
  /\ UNCHANGED <<now, token, stopCh, timers, failures, start, stored, bad, late>>

-----------------------------------------------------------------------------
(* Time                                                                    *)

\* A loop's ticker goes on while its request is in flight.
Running(l) == pc[l] \in {"select", "request"}

\* Nothing is left to do at this instant.
Quiet ==
  /\ \A l \in Loop : pc[l] = "select" => ~tick[l] /\ ~StopSeen
  /\ \A p \in Proc : pc[p] = "request" => now < sent[p] + Latency

\* A ticker whose channel is full drops its tick.
Pass ==
  /\ Quiet
  /\ now < MaxTime
  /\ now' = now + 1
  /\ tick' = [l \in Loop |-> tick[l] \/ (Running(l) /\ nextTick[l] = now + 1)]
  /\ nextTick' = [l \in Loop |->
       IF Running(l) /\ nextTick[l] = now + 1 THEN nextTick[l] + Interval[l] ELSE nextTick[l]]
  /\ UNCHANGED <<token, stopCh, pc, sent, failures, start, stored, bad, late>>

Answer(p) == RefreshStore(p) \/ RefreshFail(p)

Next == \/ \E c \in Caller : SetToken(c) \/ CallRefresh(c)
        \/ \E p \in Caller \cup AutoRefresh : Answer(p)
        \/ \E l \in Loop : Start(l) \/ LoopStop(l) \/ LoopTick(l) \/ BeatEnd(l)
        \/ Stop \/ Pass

\* Requests end.  When several cases of a select are ready Go picks one at random, so
\* stopCh is not passed over for ever: strong fairness.
Fairness ==
  /\ \A p \in AutoRefresh : WF_vars(Answer(p))
  /\ \A l \in Heartbeat : WF_vars(BeatEnd(l))
  /\ \A l \in Loop : SF_vars(LoopStop(l))

Spec == Init /\ [][Next]_vars /\ Fairness
-----------------------------------------------------------------------------
(* Properties                                                              *)

\* The shape of the state; a loop's next tick lies ahead by at most its interval.
TypeOK ==
  /\ now \in 0 .. MaxTime /\ stored \in 0 .. now /\ bad \in 0 .. now /\ stopCh \in BOOLEAN
  /\ token \in [kind : {"none", "malformed", "unlimited", "limited"}, exp : Nat]
  /\ pc \in [Proc -> {"off", "select", "request", "exited", "idle"}]
  /\ tick \in [Loop -> BOOLEAN]
  /\ \A l \in Loop : Running(l) => nextTick[l] - now \in 1 .. Interval[l]
  /\ sent \in [Proc -> 0 .. now] /\ start \in [Loop -> 0 .. now]
  /\ failures \in [AutoRefresh -> 0 .. MaxFailures] /\ late \in [Loop -> Nat]

\* A token with an expiry is renewed "before the token expires" (package comment) while a
\* refresh loop runs, if both the token was stored and the loop launched in time for a
\* renewal: refreshBefore covers the check interval, the failures and the latency, whatever
\* token an answer, late or stale, or a SetToken puts in its place.
RenewedInTime ==
  \A l \in AutoRefresh :
    (/\ Running(l) /\ ~stopCh /\ token.kind = "limited"
     /\ start[l] + Renewal(l) < token.exp
     /\ stored + Renewal(l) < token.exp)
      => ~IsExpired(token)

\* An answer that is no JWT replaces a good token, but a running loop gets rid of it within
\* the time it takes to renew one ("err != nil: Refresh", StartAutoRefresh).
MalformedReplaced ==
  \A l \in AutoRefresh :
    (Running(l) /\ ~stopCh /\ token.kind = "malformed")
      => now <= bad + Renewal(l) \/ now <= start[l] + Renewal(l)

\* A Stop that meets a tick or a request leaves each loop at most one further request
\* ("Stop signals all background goroutines started by this manager to exit").
OneLateRequest == \A l \in Loop : late[l] <= 1

\* Every loop ends once Stop has been called, those launched after it included, although a
\* ready tick may win over stopCh.
StopEndsLoops == \A l \in Loop : (stopCh /\ Running(l)) ~> pc[l] = "exited"
=============================================================================
