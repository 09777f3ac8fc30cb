---------------------- MODULE TokenRefreshManager_proofs ----------------------
(***************************************************************************)
(* Proofs about token/refresh.go.  A loop takes its tick at the instant    *)
(* it arrives, so a request is sent at a tick and ends before the next     *)
(* one.  The two timing properties follow from where the loop's next check *)
(* can lie, given how often it has failed.                                 *)
(***************************************************************************)
EXTENDS TokenRefreshManager, TLAPS

TokenRecord == [kind : {"none", "malformed", "unlimited", "limited"}, exp : Nat]
Place == {"off", "select", "request", "exited", "idle"}

\* The shape of every variable, with what each kind of goroutine can be doing.
TypeInv ==
  /\ now \in Nat /\ now <= MaxTime
  /\ stored \in 0 .. now /\ bad \in 0 .. now
  /\ stopCh \in BOOLEAN
  /\ token \in TokenRecord
  /\ pc \in [Proc -> Place]
  /\ \A l \in Loop : pc[l] # "idle"
  /\ tick \in [Loop -> BOOLEAN]
  /\ nextTick \in [Loop -> Nat]
  /\ sent \in [Proc -> Nat] /\ \A p \in Proc : sent[p] <= now
  /\ start \in [Loop -> Nat] /\ \A l \in Loop : start[l] <= now
  /\ failures \in [AutoRefresh -> Nat] /\ \A l \in AutoRefresh : failures[l] <= MaxFailures
  /\ late \in [Loop -> Nat]

\* A request is in flight for at most Latency.
AnsweredInTime == \A p \in Proc : pc[p] = "request" => now <= sent[p] + Latency

\* A running loop's ticker: a tick that waits has just come, and a request was sent at one.
TickerOf(l) ==
  /\ pc[l] = "off" => ~tick[l]
  /\ Running(l) => now < nextTick[l] /\ nextTick[l] <= now + Interval[l]
  /\ (pc[l] = "select" /\ tick[l]) => nextTick[l] = now + Interval[l]
  /\ pc[l] = "request" => ~tick[l] /\ nextTick[l] = sent[l] + Interval[l]

TickerInv == \A l \in Loop : TickerOf(l)

\* A loop that has begun a request since Stop has no tick left, and time stands still for
\* one in its select.
LateOf(l) ==
  late[l] # 0 => /\ late[l] = 1 /\ stopCh
                 /\ pc[l] \in {"select", "request"} => ~tick[l]
                 /\ pc[l] # "off"

LateInv == \A l \in Loop : LateOf(l)

TimeInv == TypeInv /\ AnsweredInTime /\ TickerInv

\* When a running loop looks at the token next; during a request, when it looked last.
CheckAt(l) == IF pc[l] = "request" THEN sent[l] ELSE IF tick[l] THEN now ELSE nextTick[l]

\* The time k checks take.
Checks(l, k) == Interval[l] * k

\* Since when both the loop has run and the token has been malformed.
Since(l) == IF bad >= start[l] THEN bad ELSE start[l]

\* Every check after the token has gone bad has failed, but for the one in flight.
MalformedOf(l) ==
  (Running(l) /\ token.kind = "malformed")
    => CheckAt(l) <= Since(l) + Checks(l, failures[l] + 1)

\* The token was stored, and the loop launched, in time for a renewal.
InTime(l) == start[l] + Renewal(l) < token.exp /\ stored + Renewal(l) < token.exp

\* The next check comes before the token is due, or there is time for the failures left.
RoomOf(l) ==
  (Running(l) /\ token.kind = "limited" /\ InTime(l))
    => \/ pc[l] = "select" /\ CheckAt(l) <= token.exp - refreshBefore
       \/ CheckAt(l) + Checks(l, MaxFailures - failures[l]) + Latency < token.exp

MalformedInv == \A l \in AutoRefresh : MalformedOf(l)
RoomInv == \A l \in AutoRefresh : RoomOf(l)

-----------------------------------------------------------------------------
(* The shape of the state                                                  *)

LEMMA Procs ==
  /\ Loop = AutoRefresh \cup Heartbeat /\ Proc = Caller \cup Loop
  /\ Loop \subseteq Proc /\ AutoRefresh \subseteq Loop /\ Heartbeat \subseteq Loop
  /\ \A p \in Proc : p \notin Loop <=> p \in Caller
  /\ \A l \in Loop : l \notin Heartbeat <=> l \in AutoRefresh
  /\ \A l \in Loop : Interval[l] \in Nat /\ Interval[l] > 0 /\ Latency < Interval[l]
  /\ refreshBefore \in Nat /\ Latency \in Nat /\ Life \in Nat
  /\ MaxFailures \in Nat /\ MaxTime \in Nat
BY TokenAssumption, TimingAssumption DEF Loop, Proc

\* What TypeInv says of one goroutine's variables, without the function sets.
LEMMA Shapes ==
  ASSUME TypeInv
  PROVE  /\ now \in Nat
         /\ \A p \in Proc : pc[p] \in Place
         /\ \A p \in Proc : sent[p] \in Nat /\ sent[p] <= now
         /\ \A l \in Loop : /\ pc[l] # "idle" /\ tick[l] \in BOOLEAN /\ nextTick[l] \in Nat
                            /\ start[l] \in Nat /\ start[l] <= now /\ late[l] \in Nat
         /\ \A l \in AutoRefresh : failures[l] \in Nat /\ failures[l] <= MaxFailures
BY Procs DEF TypeInv, Place

\* What is stored has the shape of a token, and the histories lie in the past.
LEMMA StoreShapes ==
  ASSUME TypeInv, NEW tok \in TokenRecord,
         Store(tok)
  PROVE  /\ token' \in TokenRecord
         /\ stored' \in 0 .. now /\ bad' \in 0 .. now
BY DEF TypeInv, Store

LEMMA TokenShapes ==
  ASSUME TypeInv, NEW t \in Nat
  PROVE  /\ Issued(t) \in TokenRecord
         /\ Malformed \in TokenRecord
         /\ Unlimited \in TokenRecord
         /\ NoToken \in TokenRecord
         /\ Token \subseteq TokenRecord
<1>1. /\ Issued(t) \in TokenRecord
      /\ Malformed \in TokenRecord
      /\ Unlimited \in TokenRecord
      /\ NoToken \in TokenRecord
  BY Procs DEF Issued, Limited, Malformed, Unlimited, NoToken, TokenRecord
<1>2. \A e \in Expiry : Limited(e) \in TokenRecord
  BY TokenAssumption DEF Limited, TokenRecord
<1> QED BY <1>1, <1>2 DEF Token

LEMMA TypeInit == Init => TypeInv
<1> SUFFICES ASSUME Init PROVE TypeInv
  OBVIOUS
<1>1. pc \in [Proc -> Place] /\ \A l \in Loop : pc[l] # "idle"
  BY Procs DEF Init, Place
<1>2. tick \in [Loop -> BOOLEAN]
  BY DEF Init
<1>3. token \in TokenRecord
  BY DEF Init, NoToken, TokenRecord
<1>4. now \in Nat /\ now <= MaxTime /\ stored \in 0 .. now /\ bad \in 0 .. now
  BY Procs DEF Init
<1>5. nextTick \in [Loop -> Nat] /\ late \in [Loop -> Nat]
  BY DEF Init
<1>6. /\ sent \in [Proc -> Nat] /\ \A p \in Proc : sent[p] <= now
      /\ start \in [Loop -> Nat] /\ \A l \in Loop : start[l] <= now
  BY DEF Init
<1>7. failures \in [AutoRefresh -> Nat] /\ \A l \in AutoRefresh : failures[l] <= MaxFailures
  BY Procs DEF Init
<1> QED BY <1>1, <1>2, <1>3, <1>4, <1>5, <1>6, <1>7 DEF Init, TypeInv

\* The variables a goroutine changes in one place at most.
LEMMA MovesTyped ==
  ASSUME TypeInv, NEW p \in Proc, NEW l \in {"select", "request", "exited", "idle"},
         p \in Loop => l # "idle",
         Goto(p, l)
  PROVE  /\ pc' \in [Proc -> Place]
         /\ \A k \in Loop : pc'[k] # "idle"
BY Procs DEF TypeInv, Goto, Place

LEMMA TypeStep == TypeInv /\ [Next]_vars => TypeInv'
<1> SUFFICES ASSUME TypeInv, [Next]_vars PROVE TypeInv'
  OBVIOUS
<1>1. CASE UNCHANGED vars
  BY <1>1 DEF TypeInv, vars, timers
<1>2. ASSUME NEW c \in Caller, SetToken(c) PROVE TypeInv'
  <2>1. PICK tok \in Token \cup {Issued(now)} : Store(tok)
    BY <1>2 DEF SetToken
  <2>2. tok \in TokenRecord
    BY Shapes, TokenShapes
  <2>3. token' \in TokenRecord /\ stored' \in 0 .. now /\ bad' \in 0 .. now
    BY <2>1, <2>2, StoreShapes
  <2> QED BY <1>2, <2>3 DEF SetToken, TypeInv, timers
<1>3. ASSUME NEW c \in Caller, CallRefresh(c) PROVE TypeInv'
  <2>1. Goto(c, "request") /\ sent' = [sent EXCEPT ![c] = now]
    BY <1>3 DEF CallRefresh, Send
  <2>2. c \in Proc
    BY Procs
  <2>3. /\ pc' \in [Proc -> Place]
        /\ \A k \in Loop : pc'[k] # "idle"
    BY <2>1, <2>2, MovesTyped
  <2>4. sent' \in [Proc -> Nat] /\ \A q \in Proc : sent'[q] <= now
    BY <2>1, <2>2, Shapes DEF TypeInv
  <2> QED BY <1>3, <2>3, <2>4 DEF CallRefresh, TypeInv, timers
<1>4. ASSUME NEW p \in Caller \cup AutoRefresh, Answer(p) PROVE TypeInv'
  <2>1. ASSUME NEW tok \in TokenRecord, Store(tok)
        PROVE  token' \in TokenRecord /\ stored' \in 0 .. now /\ bad' \in 0 .. now
    BY <2>1, StoreShapes
  <2>2. token' \in TokenRecord /\ stored' \in 0 .. now /\ bad' \in 0 .. now
    <3>1. CASE RefreshStore(p)
      <4>1. \A t \in sent[p] .. now : Issued(t) \in TokenRecord
        BY <1>4, Procs, Shapes, TokenShapes
      <4>2. Unlimited \in TokenRecord
        BY Shapes, TokenShapes
      <4> QED BY <2>1, <3>1, <4>1, <4>2 DEF RefreshStore
    <3>2. CASE RefreshFail(p)
      <4>1. CASE Keep
        BY <4>1 DEF Keep, TypeInv
      <4>2. CASE \E tok \in Token : Store(tok)
        BY <2>1, <4>2, Shapes, TokenShapes
      <4> QED BY <3>2, <4>1, <4>2 DEF RefreshFail
    <3> QED BY <1>4, <3>1, <3>2 DEF Answer
  <2>3. p \in Proc /\ Resume(p) /\ sent' = [sent EXCEPT ![p] = 0]
        /\ UNCHANGED <<now, stopCh, tick, nextTick, start, late>>
    BY <1>4, Procs DEF Answer, RefreshStore, RefreshFail, timers
  <2>4. /\ pc' \in [Proc -> Place]
        /\ \A k \in Loop : pc'[k] # "idle"
    BY <2>3, MovesTyped DEF Resume
  <2>5. sent' \in [Proc -> Nat] /\ \A q \in Proc : sent'[q] <= now
    BY <2>3, Shapes DEF TypeInv
  <2>6. failures' \in [AutoRefresh -> Nat] /\ \A l \in AutoRefresh : failures'[l] <= MaxFailures
    <3>1. CASE RefreshStore(p)
      BY <3>1, Procs, Shapes DEF RefreshStore
    <3>2. CASE RefreshFail(p)
      BY <3>2, Procs, Shapes DEF RefreshFail
    <3> QED BY <1>4, <3>1, <3>2 DEF Answer
  <2> QED BY <2>2, <2>3, <2>4, <2>5, <2>6 DEF TypeInv
<1>5. ASSUME NEW l \in Loop, Start(l) PROVE TypeInv'
  <2>1. l \in Proc /\ Goto(l, "select") /\ start' = [start EXCEPT ![l] = now]
        /\ nextTick' = [nextTick EXCEPT ![l] = now + Interval[l]]
    BY <1>5, Procs DEF Start, FirstTick
  <2>2. /\ pc' \in [Proc -> Place]
        /\ \A k \in Loop : pc'[k] # "idle"
    BY <2>1, MovesTyped
  <2>3. start' \in [Loop -> Nat] /\ \A k \in Loop : start'[k] <= now
    BY <2>1, Shapes DEF TypeInv
  <2>4. nextTick' \in [Loop -> Nat]
    BY <2>1, Shapes, Procs DEF TypeInv
  <2> QED BY <1>5, <2>2, <2>3, <2>4 DEF Start, TypeInv
<1>6. ASSUME NEW l \in Loop, LoopStop(l) PROVE TypeInv'
  <2>1. /\ pc' \in [Proc -> Place]
        /\ \A k \in Loop : pc'[k] # "idle"
    BY <1>6, Procs, MovesTyped DEF LoopStop
  <2>2. tick' \in [Loop -> BOOLEAN]
    BY <1>6 DEF LoopStop, TypeInv
  <2>3. nextTick' \in [Loop -> Nat]
    BY <1>6 DEF LoopStop, TypeInv
  <2> QED BY <1>6, <2>1, <2>2, <2>3 DEF LoopStop, TypeInv
<1>7. ASSUME NEW l \in Loop, LoopTick(l) PROVE TypeInv'
  <2>1. tick' \in [Loop -> BOOLEAN]
    BY <1>7 DEF LoopTick, TypeInv
  <2>2. CASE Send(l) /\ late' = [late EXCEPT ![l] = IF stopCh THEN @ + 1 ELSE @]
    <3>1. /\ pc' \in [Proc -> Place]
          /\ \A k \in Loop : pc'[k] # "idle"
      BY <2>2, Procs, MovesTyped DEF Send
    <3>2. sent' \in [Proc -> Nat] /\ \A q \in Proc : sent'[q] <= now
      BY <2>2, Procs, Shapes DEF Send, TypeInv
    <3>3. late' \in [Loop -> Nat]
      BY <2>2, Shapes DEF TypeInv
    <3> QED BY <1>7, <2>1, <3>1, <3>2, <3>3 DEF LoopTick, TypeInv
  <2>3. CASE UNCHANGED <<pc, sent, late>>
    BY <1>7, <2>1, <2>3 DEF LoopTick, TypeInv
  <2> QED BY <1>7, <2>2, <2>3 DEF LoopTick
<1>8. ASSUME NEW l \in Loop, BeatEnd(l) PROVE TypeInv'
  <2>1. /\ pc' \in [Proc -> Place]
        /\ \A k \in Loop : pc'[k] # "idle"
    BY <1>8, Procs, MovesTyped DEF BeatEnd, Resume
  <2>2. sent' \in [Proc -> Nat] /\ \A q \in Proc : sent'[q] <= now
    BY <1>8, Procs, Shapes DEF BeatEnd, TypeInv
  <2> QED BY <1>8, <2>1, <2>2 DEF BeatEnd, TypeInv, timers
<1>9. CASE Stop
  BY <1>9 DEF Stop, TypeInv, timers
<1>10. CASE Pass
  <2>1. tick' \in [Loop -> BOOLEAN]
    BY <1>10 DEF Pass, TypeInv
  <2>2. nextTick' \in [Loop -> Nat]
    BY <1>10, Procs, Shapes DEF Pass
  <2>3. now' \in Nat /\ now' <= MaxTime /\ now' = now + 1
    BY <1>10, Procs, Shapes DEF Pass
  <2>4. stored \in 0 .. now' /\ bad \in 0 .. now' /\ (\A p \in Proc : sent[p] <= now') /\ \A l \in Loop : start[l] <= now'
    BY <2>3, Shapes DEF TypeInv
  <2> QED BY <1>10, <2>1, <2>2, <2>3, <2>4 DEF Pass, TypeInv
<1> QED BY <1>1, <1>2, <1>3, <1>4, <1>5, <1>6, <1>7, <1>8, <1>9, <1>10 DEF Next

-----------------------------------------------------------------------------
(* The ticker and the requests                                             *)

\* What a step does to the token: it stays, another is stored, or what is no JWT.
TokenKept == token' = token /\ stored' = stored /\ (token.kind = "malformed" => bad' = bad)
TokenStored ==
  token'.kind # "malformed" /\ (token'.kind = "limited" => stored' = now)
TokenSpoilt ==
  token'.kind = "malformed" /\ bad' = (IF token.kind = "malformed" THEN bad ELSE now)

\* What a step is for one loop: its own, another goroutine's, or the passing of time.
Apart(l) ==
  /\ pc'[l] = pc[l] /\ tick'[l] = tick[l] /\ nextTick'[l] = nextTick[l] /\ sent'[l] = sent[l]
  /\ start'[l] = start[l] /\ late'[l] = late[l] /\ now' = now /\ (stopCh => stopCh')
  /\ l \in AutoRefresh => failures'[l] = failures[l]
  /\ TokenKept \/ TokenStored \/ TokenSpoilt

Starts(l) ==
  /\ pc[l] = "off" /\ pc'[l] = "select" /\ tick'[l] = tick[l] /\ nextTick'[l] = now + Interval[l]
  /\ start'[l] = now /\ late'[l] = late[l] /\ now' = now
  /\ UNCHANGED <<failures, token, stored, bad>>

Exits(l) ==
  /\ pc[l] = "select" /\ pc'[l] = "exited" /\ late'[l] = late[l] /\ UNCHANGED <<now, stopCh>>

Sends(l) ==
  /\ pc[l] = "select" /\ tick[l] /\ pc'[l] = "request" /\ ~tick'[l]
  /\ nextTick'[l] = nextTick[l] /\ sent'[l] = now /\ start'[l] = start[l]
  /\ late'[l] = (IF stopCh THEN late[l] + 1 ELSE late[l]) /\ UNCHANGED <<now, stopCh>>
  /\ l \in AutoRefresh => Due(token)
  /\ UNCHANGED <<failures, token, stored, bad>>

Skips(l) ==
  /\ pc[l] = "select" /\ tick[l] /\ pc'[l] = "select" /\ ~tick'[l]
  /\ nextTick'[l] = nextTick[l] /\ start'[l] = start[l]
  /\ late'[l] = late[l] /\ UNCHANGED <<now, stopCh>>
  /\ ~Due(token) /\ UNCHANGED <<failures, token, stored, bad>>

Ends(l) ==
  /\ pc[l] = "request" /\ pc'[l] = "select" /\ tick'[l] = tick[l] /\ nextTick'[l] = nextTick[l]
  /\ start'[l] = start[l] /\ late'[l] = late[l] /\ UNCHANGED <<now, stopCh>>
  /\ l \in AutoRefresh => \/ TokenStored /\ failures'[l] = 0
                          \/ /\ TokenKept \/ TokenStored \/ TokenSpoilt
                             /\ failures[l] < MaxFailures /\ failures'[l] = failures[l] + 1

Ages(l) ==
  /\ pc[l] = "select" => ~tick[l] /\ ~stopCh
  /\ pc[l] = "request" => now < sent[l] + Latency
  /\ pc'[l] = pc[l] /\ sent'[l] = sent[l] /\ start'[l] = start[l] /\ late'[l] = late[l]
  /\ now' = now + 1 /\ UNCHANGED <<stopCh, failures, token, stored, bad>>
  /\ IF Running(l) /\ nextTick[l] = now + 1
     THEN tick'[l] /\ nextTick'[l] = nextTick[l] + Interval[l]
     ELSE tick'[l] = tick[l] /\ nextTick'[l] = nextTick[l]

LEMMA AnswersSet ==
  /\ \A c \in Caller : SetToken(c) => TokenStored \/ TokenSpoilt
  /\ \A p \in Caller \cup AutoRefresh : RefreshStore(p) => TokenStored
  /\ \A p \in Caller \cup AutoRefresh : RefreshFail(p) => TokenKept \/ TokenStored \/ TokenSpoilt
<1>1. ASSUME NEW tok, Store(tok) PROVE TokenStored \/ TokenSpoilt
  BY <1>1 DEF Store, TokenStored, TokenSpoilt
<1>2. ASSUME NEW t, Store(Issued(t)) PROVE TokenStored
  BY <1>2 DEF Store, Issued, Limited, TokenStored
<1>3. Store(Unlimited) => TokenStored
  BY DEF Store, Unlimited, TokenStored
<1>4. Keep => TokenKept
  BY DEF Keep, TokenKept
<1> QED BY <1>1, <1>2, <1>3, <1>4 DEF SetToken, RefreshStore, RefreshFail

LEMMA LoopMoves ==
  ASSUME TypeInv, AnsweredInTime, [Next]_vars, NEW l \in Loop
  PROVE  \/ Apart(l) \/ Starts(l) \/ Exits(l) \/ Sends(l) \/ Skips(l) \/ Ends(l) \/ Ages(l)
<1>0. l \in Proc
  BY Procs
<1>1. CASE UNCHANGED vars
  BY <1>1 DEF vars, timers, Apart, TokenKept
<1>2. ASSUME NEW c \in Caller, SetToken(c) PROVE Apart(l)
  BY <1>2, AnswersSet DEF SetToken, timers, Apart
<1>3. ASSUME NEW c \in Caller, CallRefresh(c) PROVE Apart(l)
  <2>1. c # l /\ c \in Proc
    BY Procs
  <2> QED BY <1>0, <1>3, <2>1 DEF CallRefresh, Send, Goto, timers, Apart, TokenKept, TypeInv
<1>4. ASSUME NEW p \in Caller \cup AutoRefresh, Answer(p) PROVE Apart(l) \/ Ends(l)
  <2>1. p \in Proc /\ Resume(p) /\ sent' = [sent EXCEPT ![p] = 0] /\ pc[p] = "request"
        /\ UNCHANGED <<now, stopCh, tick, nextTick, start, late>>
    BY <1>4, Procs DEF Answer, RefreshStore, RefreshFail, timers
  <2>2. CASE p = l
    <3>1. pc'[l] = "select"
      BY <1>0, <2>1, <2>2 DEF Resume, Goto, TypeInv
    <3>2. l \in AutoRefresh => \/ TokenStored /\ failures'[l] = 0
                               \/ /\ TokenKept \/ TokenStored \/ TokenSpoilt
                                  /\ failures[l] < MaxFailures /\ failures'[l] = failures[l] + 1
      BY <1>4, <2>2, AnswersSet DEF Answer, RefreshStore, RefreshFail
    <3> QED BY <2>1, <2>2, <3>1, <3>2 DEF Ends
  <2>3. CASE p # l
    <3>1. l \in AutoRefresh => failures'[l] = failures[l]
      BY <1>4, <2>3 DEF Answer, RefreshStore, RefreshFail
    <3>2. TokenKept \/ TokenStored \/ TokenSpoilt
      BY <1>4, AnswersSet DEF Answer
    <3> QED BY <1>0, <2>1, <2>3, <3>1, <3>2 DEF Resume, Goto, Apart, TypeInv
  <2> QED BY <2>2, <2>3
<1>5. ASSUME NEW k \in Loop, Start(k) PROVE Apart(l) \/ Starts(l)
  <2>1. CASE k = l
    BY <1>0, <1>5, <2>1 DEF Start, FirstTick, Goto, Starts, TypeInv
  <2>2. CASE k # l
    BY <1>0, <1>5, <2>2 DEF Start, Goto, Apart, TokenKept, TypeInv
  <2> QED BY <2>1, <2>2
<1>6. ASSUME NEW k \in Loop, LoopStop(k) PROVE Apart(l) \/ Exits(l)
  <2>1. CASE k = l
    BY <1>0, <1>6, <2>1 DEF LoopStop, Goto, Exits, TypeInv
  <2>2. CASE k # l
    BY <1>0, <1>6, <2>2 DEF LoopStop, Goto, Apart, TokenKept, TypeInv
  <2> QED BY <2>1, <2>2
<1>7. ASSUME NEW k \in Loop, LoopTick(k) PROVE Apart(l) \/ Sends(l) \/ Skips(l)
  <2>1. CASE k = l
    <3>1. pc[l] = "select" /\ tick[l] /\ tick' = [tick EXCEPT ![l] = FALSE]
          /\ UNCHANGED <<now, stopCh, nextTick, start, token, stored, bad, failures>>
      BY <1>7, <2>1 DEF LoopTick
    <3>2. ~tick'[l]
      BY <3>1 DEF TypeInv
    <3>3. CASE (l \in Heartbeat \/ Due(token)) /\ Send(l) /\ late' = [late EXCEPT ![l] = IF stopCh THEN @ + 1 ELSE @]
      <4>1. pc'[l] = "request" /\ sent'[l] = now
        BY <1>0, <3>3 DEF Send, Goto, TypeInv
      <4>2. late'[l] = IF stopCh THEN late[l] + 1 ELSE late[l]
        BY <3>3 DEF TypeInv
      <4> QED BY <3>1, <3>2, <3>3, <4>1, <4>2, TokenAssumption DEF Sends, Loop
    <3>4. CASE ~Due(token) /\ UNCHANGED <<pc, sent, late>>
      BY <3>1, <3>2, <3>4 DEF Skips
    <3> QED BY <1>7, <2>1, <3>3, <3>4 DEF LoopTick
  <2>2. CASE k # l
    <3>1. tick'[l] = tick[l] /\ UNCHANGED <<now, stopCh, nextTick, start, token, stored, bad, failures>>
      BY <1>7, <2>2 DEF LoopTick, TypeInv
    <3>2. k \in Proc
      BY Procs
    <3>3. pc'[l] = pc[l] /\ sent'[l] = sent[l] /\ late'[l] = late[l]
      BY <1>0, <1>7, <2>2, <3>2 DEF LoopTick, Send, Goto, TypeInv
    <3> QED BY <3>1, <3>3 DEF Apart, TokenKept
  <2> QED BY <2>1, <2>2
<1>8. ASSUME NEW k \in Loop, BeatEnd(k) PROVE Apart(l) \/ Ends(l)
  <2>1. CASE k = l
    BY <1>0, <1>8, <2>1, Procs DEF BeatEnd, Resume, Goto, timers, Ends, TypeInv
  <2>2. CASE k # l
    BY <1>0, <1>8, <2>2 DEF BeatEnd, Resume, Goto, timers, Apart, TokenKept, TypeInv
  <2> QED BY <2>1, <2>2
<1>9. CASE Stop
  BY <1>9 DEF Stop, timers, Apart, TokenKept
<1>10. CASE Pass
  <2>1. /\ pc[l] = "select" => ~tick[l] /\ ~stopCh
        /\ pc[l] = "request" => now < sent[l] + Latency
    BY <1>0, <1>10 DEF Pass, Quiet, StopSeen
  <2>2. IF Running(l) /\ nextTick[l] = now + 1
        THEN tick'[l] /\ nextTick'[l] = nextTick[l] + Interval[l]
        ELSE tick'[l] = tick[l] /\ nextTick'[l] = nextTick[l]
    <3>1. tick'[l] = (tick[l] \/ (Running(l) /\ nextTick[l] = now + 1))
      BY <1>10, Zenon DEF Pass
    <3>2. nextTick'[l] = IF Running(l) /\ nextTick[l] = now + 1
                         THEN nextTick[l] + Interval[l] ELSE nextTick[l]
      BY <1>10, Zenon DEF Pass
    <3>3. tick[l] \in BOOLEAN
      BY Shapes
    <3>4. CASE Running(l) /\ nextTick[l] = now + 1
      BY <3>1, <3>2, <3>4
    <3>5. CASE ~(Running(l) /\ nextTick[l] = now + 1)
      BY <3>1, <3>2, <3>3, <3>5
    <3> QED BY <3>4, <3>5
  <2> QED BY <1>10, <2>1, <2>2 DEF Pass, Ages
<1> QED BY <1>1, <1>2, <1>3, <1>4, <1>5, <1>6, <1>7, <1>8, <1>9, <1>10 DEF Next

LEMMA TickerStep == TypeInv /\ AnsweredInTime /\ TickerInv /\ [Next]_vars => TickerInv'
<1> SUFFICES ASSUME TypeInv, AnsweredInTime, TickerInv, [Next]_vars, NEW l \in Loop PROVE TickerOf(l)'
  BY DEF TickerInv
<1>1. /\ now \in Nat /\ nextTick[l] \in Nat /\ sent[l] \in Nat /\ sent[l] <= now
      /\ Interval[l] \in Nat /\ Interval[l] > 0 /\ Latency \in Nat /\ Latency < Interval[l]
      /\ pc[l] \in {"off", "select", "request", "exited"}
  BY Shapes, Procs DEF Place
<1>2. TickerOf(l)
  BY DEF TickerInv
<1>3. CASE Apart(l)
  BY <1>2, <1>3 DEF Apart, TickerOf, Running
<1>4. CASE Starts(l)
  BY <1>1, <1>2, <1>4 DEF Starts, TickerOf, Running
<1>5. CASE Exits(l)
  BY <1>5 DEF Exits, TickerOf, Running
<1>6. CASE Sends(l)
  BY <1>1, <1>2, <1>6 DEF Sends, TickerOf, Running
<1>7. CASE Skips(l)
  BY <1>1, <1>2, <1>7 DEF Skips, TickerOf, Running
<1>8. CASE Ends(l)
  BY <1>1, <1>2, <1>8 DEF Ends, TickerOf, Running
<1>9. CASE Ages(l)
  BY <1>1, <1>2, <1>9 DEF Ages, TickerOf, Running
<1> QED BY LoopMoves, <1>3, <1>4, <1>5, <1>6, <1>7, <1>8, <1>9

LEMMA AnsweredStep == TypeInv /\ AnsweredInTime /\ [Next]_vars => AnsweredInTime'
<1> SUFFICES ASSUME TypeInv, AnsweredInTime, [Next]_vars, NEW q \in Proc, pc'[q] = "request"
             PROVE  now' <= sent'[q] + Latency
  BY DEF AnsweredInTime
<1>1. now \in Nat /\ sent[q] \in Nat /\ Latency \in Nat
  BY Shapes, Procs
<1>2. ASSUME pc'[q] = pc[q], sent'[q] = sent[q], now' = now PROVE now' <= sent'[q] + Latency
  BY <1>2 DEF AnsweredInTime
<1>3. ASSUME sent'[q] = now, now' = now PROVE now' <= sent'[q] + Latency
  BY <1>1, <1>3
<1>4. ASSUME NEW p \in Proc, Resume(p), sent' = [sent EXCEPT ![p] = 0], now' = now
      PROVE  now' <= sent'[q] + Latency
  <2>1. q # p
    BY <1>4 DEF Resume, Goto, TypeInv
  <2> QED BY <1>2, <1>4, <2>1 DEF Resume, Goto, TypeInv
<1>5. ASSUME NEW p \in Proc, Send(p), now' = now PROVE now' <= sent'[q] + Latency
  <2>1. CASE q = p
    BY <1>3, <1>5, <2>1 DEF Send, TypeInv
  <2>2. CASE q # p
    BY <1>2, <1>5, <2>2 DEF Send, Goto, TypeInv
  <2> QED BY <2>1, <2>2
<1>6. CASE UNCHANGED <<pc, sent, now>>
  BY <1>2, <1>6
<1>7. ASSUME NEW c \in Caller, SetToken(c) \/ CallRefresh(c) PROVE now' <= sent'[q] + Latency
  BY <1>5, <1>6, <1>7, Procs DEF SetToken, CallRefresh
<1>8. ASSUME NEW p \in Caller \cup AutoRefresh, Answer(p) PROVE now' <= sent'[q] + Latency
  BY <1>4, <1>8, Procs DEF Answer, RefreshStore, RefreshFail
<1>9. ASSUME NEW l \in Loop, BeatEnd(l) PROVE now' <= sent'[q] + Latency
  BY <1>4, <1>9, Procs DEF BeatEnd
<1>10. ASSUME NEW l \in Loop, LoopTick(l) PROVE now' <= sent'[q] + Latency
  BY <1>5, <1>6, <1>10, Procs DEF LoopTick
<1>11. ASSUME NEW l \in Loop, NEW x \in {"select", "exited"}, Goto(l, x), UNCHANGED <<sent, now>>
       PROVE  now' <= sent'[q] + Latency
  <2>1. q # l
    BY <1>11, Procs DEF Goto, TypeInv
  <2> QED BY <1>2, <1>11, <2>1 DEF Goto, TypeInv
<1>12. ASSUME NEW l \in Loop, Start(l) \/ LoopStop(l) PROVE now' <= sent'[q] + Latency
  BY <1>11, <1>12 DEF Start, LoopStop
<1>13. CASE Pass
  BY <1>1, <1>13 DEF Pass, Quiet
<1>14. CASE Stop \/ UNCHANGED vars
  BY <1>6, <1>14 DEF Stop, vars
<1> QED BY <1>7, <1>8, <1>9, <1>10, <1>12, <1>13, <1>14 DEF Next

LEMMA TimeInvariant == Spec => []TimeInv
<1>1. Init => TimeInv
  <2>1. ASSUME Init PROVE AnsweredInTime /\ TickerInv
    BY <2>1, Procs DEF Init, AnsweredInTime, TickerInv, TickerOf, Running
  <2> QED BY <2>1, TypeInit DEF TimeInv
<1>2. TimeInv /\ [Next]_vars => TimeInv'
  BY TypeStep, TickerStep, AnsweredStep DEF TimeInv
<1> QED BY <1>1, <1>2, PTL DEF Spec

\* The shape of the state, and a running loop's next tick lies ahead by at most its interval.
THEOREM TokenTyping == Spec => []TypeOK
<1>1. ASSUME TimeInv PROVE TypeOK
  <2>1. /\ now \in 0 .. MaxTime /\ stored \in 0 .. now /\ bad \in 0 .. now /\ stopCh \in BOOLEAN
        /\ token \in TokenRecord /\ pc \in [Proc -> Place] /\ tick \in [Loop -> BOOLEAN]
        /\ late \in [Loop -> Nat]
    BY <1>1, Procs DEF TimeInv, TypeInv
  <2>2. \A l \in Loop : Running(l) => nextTick[l] - now \in 1 .. Interval[l]
    BY <1>1, Shapes, Procs DEF TimeInv, TickerInv, TickerOf
  <2>3. sent \in [Proc -> 0 .. now] /\ start \in [Loop -> 0 .. now]
    BY <1>1 DEF TimeInv, TypeInv
  <2>4. failures \in [AutoRefresh -> 0 .. MaxFailures]
    BY <1>1, Procs DEF TimeInv, TypeInv
  <2> QED BY <2>1, <2>2, <2>3, <2>4 DEF TypeOK, TokenRecord, Place
<1> QED BY <1>1, TimeInvariant, PTL

\* A Stop leaves each loop at most one further request: the tick that was waiting when it
\* was called, as no other comes while time stands still for the loop in its select.
THEOREM AtMostOneLate == Spec => []OneLateRequest
<1>1. Init => LateInv
  BY Procs DEF Init, LateInv, LateOf
<1>2. TimeInv /\ LateInv /\ [Next]_vars => LateInv'
  <2> SUFFICES ASSUME TimeInv, LateInv, [Next]_vars, NEW l \in Loop PROVE LateOf(l)'
    BY DEF LateInv
  <2>1. /\ now \in Nat /\ nextTick[l] \in Nat /\ sent[l] \in Nat /\ late[l] \in Nat
        /\ Interval[l] \in Nat /\ Latency \in Nat /\ Latency < Interval[l]
    BY Shapes, Procs DEF TimeInv
  <2>2. TickerOf(l) /\ LateOf(l)
    BY DEF TimeInv, TickerInv, LateInv
  <2>3. CASE Apart(l)
    BY <2>2, <2>3 DEF Apart, LateOf
  <2>4. CASE Starts(l)
    BY <2>2, <2>4 DEF Starts, LateOf
  <2>5. CASE Exits(l)
    BY <2>2, <2>5 DEF Exits, LateOf
  <2>6. CASE Sends(l)
    BY <2>1, <2>2, <2>6 DEF Sends, LateOf
  <2>7. CASE Skips(l)
    BY <2>2, <2>7 DEF Skips, LateOf
  <2>8. CASE Ends(l)
    BY <2>2, <2>8 DEF Ends, LateOf
  <2>9. CASE Ages(l)
    BY <2>1, <2>2, <2>9 DEF Ages, LateOf, TickerOf
  <2> QED BY LoopMoves, <2>3, <2>4, <2>5, <2>6, <2>7, <2>8, <2>9 DEF TimeInv
<1>3. LateInv => OneLateRequest
  BY DEF LateInv, LateOf, OneLateRequest
<1> QED BY <1>1, <1>2, <1>3, TimeInvariant, PTL DEF Spec

-----------------------------------------------------------------------------
(* The time a refresh loop needs                                           *)

LEMMA ChecksFacts ==
  ASSUME NEW l \in AutoRefresh
  PROVE  /\ \A k \in Nat : Checks(l, k) \in Nat /\ Checks(l, k + 1) = Checks(l, k) + Interval[l]
         /\ \A k \in Nat : \A m \in 0 .. k : Checks(l, m) <= Checks(l, k)
         /\ Renewal(l) = Checks(l, MaxFailures + 1) + Latency
         /\ Renewal(l) \in Nat
<1>1. Interval[l] \in Nat /\ MaxFailures \in Nat /\ Latency \in Nat
  BY Procs
<1>2. \A k \in Nat : Checks(l, k) \in Nat /\ Checks(l, k + 1) = Checks(l, k) + Interval[l]
  BY <1>1 DEF Checks
<1>3. ASSUME NEW k \in Nat, NEW m \in 0 .. k PROVE Checks(l, m) <= Checks(l, k)
  <2>1. PICK d \in Nat : k = m + d
    <3>1. k - m \in Nat /\ k = m + (k - m)
      OBVIOUS
    <3> QED BY <3>1
  <2>2. Interval[l] * (m + d) = Interval[l] * m + Interval[l] * d /\ Interval[l] * d \in Nat
    BY <1>1
  <2>3. Interval[l] * m \in Nat
    BY <1>1
  <2> QED BY <2>1, <2>2, <2>3 DEF Checks
<1>4. Renewal(l) = Checks(l, MaxFailures + 1) + Latency
  BY DEF Renewal, Checks
<1>5. Checks(l, MaxFailures + 1) \in Nat
  <2>1. MaxFailures + 1 \in Nat
    BY <1>1
  <2> QED BY <1>2, <2>1
<1>6. Renewal(l) \in Nat
  BY <1>1, <1>4, <1>5
<1> QED BY <1>2, <1>3, <1>4, <1>6

\* Where the loop's check lies after each kind of step.
LEMMA CheckMoves ==
  ASSUME TimeInv, NEW l \in Loop
  PROVE  /\ CheckAt(l) \in Nat
         /\ Running(l) => CheckAt(l) <= now + Interval[l] /\ now <= CheckAt(l) + Latency
         /\ pc[l] = "select" => now <= CheckAt(l)
         /\ Apart(l) => CheckAt(l)' = CheckAt(l)
         /\ Starts(l) => CheckAt(l)' = now + Interval[l]
         /\ Sends(l) => CheckAt(l) = now /\ CheckAt(l)' = now
         /\ Skips(l) => CheckAt(l) = now /\ CheckAt(l)' = now + Interval[l]
         /\ Ends(l) => CheckAt(l) <= now /\ CheckAt(l)' = CheckAt(l) + Interval[l]
         /\ Ages(l) => CheckAt(l)' = CheckAt(l) \/ ~Running(l)
<1>1. /\ now \in Nat /\ nextTick[l] \in Nat /\ sent[l] \in Nat /\ sent[l] <= now
      /\ Interval[l] \in Nat /\ Interval[l] > 0 /\ Latency \in Nat /\ tick[l] \in BOOLEAN
  BY Shapes, Procs DEF TimeInv
<1>2. TickerOf(l)
  BY DEF TimeInv, TickerInv
<1>3. pc[l] = "request" => now <= sent[l] + Latency
  BY Procs DEF TimeInv, AnsweredInTime
<1>4. CheckAt(l) \in Nat /\ (pc[l] = "select" => now <= CheckAt(l))
  BY <1>1, <1>2 DEF CheckAt, TickerOf, Running
<1>5. Running(l) => CheckAt(l) <= now + Interval[l] /\ now <= CheckAt(l) + Latency
  BY <1>1, <1>2, <1>3 DEF CheckAt, TickerOf, Running
<1>6. Apart(l) => CheckAt(l)' = CheckAt(l)
  BY DEF Apart, CheckAt
<1>7. Starts(l) => CheckAt(l)' = now + Interval[l]
  BY <1>2 DEF Starts, CheckAt, TickerOf
<1>8. Sends(l) => CheckAt(l) = now /\ CheckAt(l)' = now
  BY DEF Sends, CheckAt
<1>9. Skips(l) => CheckAt(l) = now /\ CheckAt(l)' = now + Interval[l]
  BY <1>2 DEF Skips, CheckAt, TickerOf
<1>10. Ends(l) => CheckAt(l) <= now /\ CheckAt(l)' = CheckAt(l) + Interval[l]
  BY <1>1, <1>2 DEF Ends, CheckAt, TickerOf
<1>11. Ages(l) => CheckAt(l)' = CheckAt(l) \/ ~Running(l)
  BY <1>1, <1>2 DEF Ages, CheckAt, TickerOf, Running
<1> QED BY <1>4, <1>5, <1>6, <1>7, <1>8, <1>9, <1>10, <1>11

\* The numbers a refresh loop's case splits are about.
LEMMA Numbers ==
  ASSUME TimeInv, NEW l \in AutoRefresh
  PROVE  /\ now \in Nat /\ CheckAt(l) \in Nat /\ Interval[l] \in Nat /\ Latency \in Nat
         /\ bad \in Nat /\ bad <= now /\ start[l] \in Nat /\ start[l] <= now
         /\ Since(l) \in Nat /\ Since(l) <= now /\ Since(l) >= bad /\ Since(l) >= start[l]
         /\ failures[l] \in Nat /\ failures[l] <= MaxFailures /\ MaxFailures \in Nat
         /\ token.exp \in Nat
BY CheckMoves, Shapes, Procs DEF TimeInv, TypeInv, Since, TokenRecord

LEMMA MalformedStep == TimeInv /\ MalformedInv /\ [Next]_vars => MalformedInv'
<1> SUFFICES ASSUME TimeInv, MalformedInv, [Next]_vars, NEW l \in AutoRefresh,
                    Running(l)', token'.kind = "malformed"
             PROVE  CheckAt(l)' <= Since(l)' + Checks(l, failures'[l] + 1)
  BY DEF MalformedInv, MalformedOf, Checks
<1> DEFINE F == failures[l]
<1>0. l \in Loop /\ TypeInv /\ AnsweredInTime
  BY Procs DEF TimeInv
<1>1. /\ now \in Nat /\ CheckAt(l) \in Nat /\ Interval[l] \in Nat
      /\ Since(l) \in Nat /\ F \in Nat
      /\ bad \in Nat /\ start[l] \in Nat /\ start[l] <= now
  BY Numbers
<1>2. /\ Checks(l, F + 1) \in Nat /\ Interval[l] <= Checks(l, F + 1)
      /\ Checks(l, F + 2) = Checks(l, F + 1) + Interval[l]
  <2>1. Checks(l, 1) = Interval[l] /\ 1 \in 0 .. F + 1
    BY <1>1 DEF Checks
  <2>2. F + 1 \in Nat /\ (F + 1) + 1 = F + 2
    BY <1>1
  <2> QED BY <2>1, <2>2, ChecksFacts
<1>3. (Running(l) /\ token.kind = "malformed") => CheckAt(l) <= Since(l) + Checks(l, F + 1)
  BY DEF MalformedInv, MalformedOf
<1>4. Running(l) => CheckAt(l) <= now + Interval[l]
  BY <1>0, CheckMoves
<1>5. TokenSpoilt /\ start'[l] = start[l] =>
        IF token.kind = "malformed" THEN Since(l)' = Since(l) ELSE Since(l)' = now
  BY <1>1 DEF TokenSpoilt, Since
<1>6. TokenKept /\ start'[l] = start[l] => token.kind = "malformed" /\ Since(l)' = Since(l)
  BY DEF TokenKept, Since
<1>7. ~TokenStored
  BY DEF TokenStored
<1> HIDE DEF F
<1>8. CASE Apart(l)
  <2>1. CheckAt(l)' = CheckAt(l) /\ failures'[l] = F /\ start'[l] = start[l] /\ Running(l)
    BY <1>0, <1>8, CheckMoves DEF Apart, Running, F
  <2>2. CASE TokenKept
    BY <1>1, <1>2, <1>3, <1>6, <2>1, <2>2
  <2>3. CASE TokenSpoilt
    BY <1>1, <1>2, <1>3, <1>4, <1>5, <2>1, <2>3
  <2> QED BY <1>7, <1>8, <2>2, <2>3 DEF Apart
<1>9. CASE Starts(l)
  <2>1. CheckAt(l)' = now + Interval[l] /\ failures'[l] = F
    BY <1>0, <1>9, CheckMoves DEF Starts, F
  <2>2. Since(l)' \in Nat /\ Since(l)' >= now
    BY <1>1, <1>9 DEF Starts, Since
  <2> QED BY <1>1, <1>2, <2>1, <2>2
<1>10. CASE Exits(l)
  BY <1>10 DEF Exits, Running
<1>11. CASE Sends(l)
  <2>1. CheckAt(l)' = CheckAt(l) /\ failures'[l] = F /\ start'[l] = start[l] /\ Running(l)
        /\ TokenKept
    BY <1>0, <1>11, CheckMoves DEF Sends, Running, TokenKept, F
  <2> QED BY <1>3, <1>6, <2>1
<1>12. CASE Skips(l)
  BY <1>12 DEF Skips, Due
<1>13. CASE Ends(l)
  <2>1. CheckAt(l)' = CheckAt(l) + Interval[l] /\ CheckAt(l) <= now /\ start'[l] = start[l] /\ Running(l)
    BY <1>0, <1>13, CheckMoves DEF Ends, Running
  <2>2. failures'[l] + 1 = F + 2 /\ (TokenKept \/ TokenSpoilt)
    BY <1>1, <1>7, <1>13 DEF Ends, F
  <2>3. CASE TokenKept
    BY <1>1, <1>2, <1>3, <1>6, <2>1, <2>2, <2>3
  <2>4. CASE TokenSpoilt
    <3>1. CASE token.kind = "malformed"
      BY <1>1, <1>2, <1>3, <1>5, <2>1, <2>2, <2>4, <3>1
    <3>2. CASE token.kind # "malformed"
      BY <1>1, <1>2, <1>5, <2>1, <2>2, <2>4, <3>2
    <3> QED BY <3>1, <3>2
  <2> QED BY <2>2, <2>3, <2>4
<1>14. CASE Ages(l)
  <2>1. Running(l) /\ failures'[l] = F /\ start'[l] = start[l] /\ TokenKept
    BY <1>14 DEF Ages, Running, TokenKept, F
  <2>2. CheckAt(l)' = CheckAt(l)
    BY <1>0, <1>14, <2>1, CheckMoves
  <2> QED BY <1>3, <1>6, <2>1, <2>2
<1> QED BY <1>0, LoopMoves, <1>8, <1>9, <1>10, <1>11, <1>12, <1>13, <1>14

\* A running loop gets rid of what is no JWT within the time it takes to renew a token: every
\* check since then has failed, and only MaxFailures can.
THEOREM MalformedGoes == Spec => []MalformedReplaced
<1>1. Init => MalformedInv
  BY Procs DEF Init, MalformedInv, MalformedOf, Running
<1>2. TimeInv /\ MalformedInv => MalformedReplaced
  <2> SUFFICES ASSUME TimeInv, MalformedInv, NEW l \in AutoRefresh, Running(l), token.kind = "malformed"
               PROVE  now <= bad + Renewal(l) \/ now <= start[l] + Renewal(l)
    BY DEF MalformedReplaced
  <2>1. now \in Nat /\ CheckAt(l) \in Nat /\ Latency \in Nat /\ Since(l) \in Nat
    BY Numbers
  <2>2. CheckAt(l) <= Since(l) + Checks(l, failures[l] + 1)
    BY DEF MalformedInv, MalformedOf
  <2>3. failures[l] + 1 \in 0 .. MaxFailures + 1 /\ MaxFailures + 1 \in Nat
    BY Numbers
  <2>4. /\ Checks(l, failures[l] + 1) <= Checks(l, MaxFailures + 1)
        /\ Checks(l, failures[l] + 1) \in Nat /\ Checks(l, MaxFailures + 1) \in Nat
        /\ Renewal(l) = Checks(l, MaxFailures + 1) + Latency
    BY <2>3, ChecksFacts
  <2>5. now <= CheckAt(l) + Latency
    BY Procs, CheckMoves
  <2>6. now <= Since(l) + Renewal(l)
    BY <2>1, <2>2, <2>4, <2>5
  <2>7. CASE Since(l) = bad
    BY <2>6, <2>7
  <2>8. CASE Since(l) = start[l]
    BY <2>6, <2>8
  <2> QED BY <2>7, <2>8 DEF Since
<1> QED BY <1>1, <1>2, MalformedStep, TimeInvariant, PTL DEF Spec

\* A token the server issued for a request leaves time for a renewal once it is stored.
LEMMA FreshInTime ==
  ASSUME TimeInv, NEW p \in Caller \cup AutoRefresh, RefreshStore(p), token'.kind = "limited",
         NEW l \in AutoRefresh
  PROVE  stored' + Renewal(l) < token'.exp
<1>1. p \in Proc /\ now \in Nat /\ sent[p] \in Nat /\ Latency \in Nat /\ Life \in Nat
      /\ Renewal(l) \in Nat /\ now <= sent[p] + Latency
  BY Shapes, Procs, ChecksFacts DEF TimeInv, AnsweredInTime, RefreshStore
<1>2. Renewal(l) + Latency < Life
  BY TimingAssumption, Zenon
<1>3. ~ Store(Unlimited)
  BY DEF Store, Unlimited
<1>4. PICK t \in sent[p] .. now : Store(Issued(t))
  BY <1>3 DEF RefreshStore
<1>5. stored' = now /\ token'.exp = t + Life
  BY <1>4 DEF Store, Issued, Limited
<1> QED BY <1>1, <1>2, <1>4, <1>5

\* A token stored now, or a loop launched now, leaves time for every failure.
LEMMA RoomAhead ==
  ASSUME TimeInv, NEW l \in AutoRefresh, NEW f \in 0 .. MaxFailures, NEW e \in Int,
         now + Renewal(l) < e, NEW c \in Nat, c <= now + Interval[l]
  PROVE  c + Checks(l, MaxFailures - f) + Latency < e
<1>1. MaxFailures \in Nat /\ MaxFailures - f \in 0 .. MaxFailures
  BY Procs
<1>2. /\ Checks(l, MaxFailures - f) \in Nat /\ Checks(l, MaxFailures) \in Nat
      /\ Checks(l, MaxFailures + 1) = Checks(l, MaxFailures) + Interval[l]
      /\ Renewal(l) = Checks(l, MaxFailures + 1) + Latency
  BY <1>1, ChecksFacts
<1>3. Checks(l, MaxFailures - f) <= Checks(l, MaxFailures)
  BY <1>1, ChecksFacts
<1> QED BY <1>2, <1>3, Numbers

LEMMA RoomStep == TimeInv /\ RoomInv /\ [Next]_vars => RoomInv'
<1> SUFFICES ASSUME TimeInv, RoomInv, [Next]_vars, NEW l \in AutoRefresh,
                    Running(l)', token'.kind = "limited", InTime(l)'
             PROVE  \/ pc'[l] = "select" /\ CheckAt(l)' <= token'.exp - refreshBefore
                    \/ CheckAt(l)' + Checks(l, MaxFailures - failures'[l]) + Latency < token'.exp
  BY DEF RoomInv, RoomOf, Checks
<1> DEFINE F == failures[l]
           e == token.exp
<1>0. l \in Loop /\ TypeInv /\ AnsweredInTime
  BY Procs DEF TimeInv
<1>1. /\ now \in Nat /\ CheckAt(l) \in Nat /\ Interval[l] \in Nat /\ Latency \in Nat
      /\ F \in 0 .. MaxFailures /\ MaxFailures \in Nat /\ start[l] \in Nat
      /\ e \in Nat /\ refreshBefore \in Nat
  BY Numbers, Procs
<1>2. Running(l) => CheckAt(l) <= now + Interval[l]
  BY <1>0, CheckMoves
<1>3. TokenStored => token'.exp \in Int /\ now + Renewal(l) < token'.exp
  <2>1. token'.exp \in Int
    BY <1>0, TypeStep DEF TypeInv, TokenRecord
  <2>2. stored' + Renewal(l) < token'.exp
    BY DEF InTime, Renewal
  <2> QED BY <2>1, <2>2 DEF TokenStored
<1>4. ~TokenSpoilt
  BY DEF TokenSpoilt
<1>5. (Running(l) /\ token.kind = "limited" /\ InTime(l))
        => \/ pc[l] = "select" /\ CheckAt(l) <= e - refreshBefore
           \/ CheckAt(l) + Checks(l, MaxFailures - F) + Latency < e
  BY DEF RoomInv, RoomOf
<1>6. token' = token /\ stored' = stored /\ start'[l] = start[l] => InTime(l)
  BY DEF InTime, Renewal
<1> HIDE DEF F, e
<1>7. CASE Apart(l)
  <2>1. CheckAt(l)' = CheckAt(l) /\ failures'[l] = F /\ start'[l] = start[l] /\ pc'[l] = pc[l] /\ Running(l)
    BY <1>0, <1>7, CheckMoves DEF Apart, Running, F
  <2>2. CASE TokenKept
    BY <1>5, <1>6, <2>1, <2>2 DEF TokenKept, e
  <2>3. CASE TokenStored
    BY <1>1, <1>2, <1>3, <2>1, <2>3, RoomAhead
  <2> QED BY <1>4, <1>7, <2>2, <2>3 DEF Apart
<1>8. CASE Starts(l)
  <2>1. CheckAt(l)' = now + Interval[l] /\ failures'[l] = F /\ start'[l] = now /\ token' = token
    BY <1>0, <1>8, CheckMoves DEF Starts, F
  <2>2. now + Renewal(l) < e
    BY <2>1 DEF InTime, Renewal, e
  <2>3. now + Interval[l] + Checks(l, MaxFailures - F) + Latency < e
    BY <1>1, <2>2, RoomAhead
  <2> QED BY <2>1, <2>3 DEF e
<1>9. CASE Exits(l)
  BY <1>9 DEF Exits, Running
<1>10. CASE Sends(l)
  <2>1. /\ CheckAt(l) = now /\ CheckAt(l)' = now /\ failures'[l] = F /\ start'[l] = start[l]
        /\ Running(l) /\ token' = token /\ stored' = stored /\ Due(token)
    BY <1>0, <1>10, CheckMoves DEF Sends, Running, F
  <2>2. now > e - refreshBefore
    BY <2>1 DEF Due, e
  <2> QED BY <1>1, <1>5, <1>6, <2>1, <2>2 DEF e
<1>11. CASE Skips(l)
  <2>1. /\ CheckAt(l)' = now + Interval[l] /\ failures'[l] = F /\ token' = token /\ ~Due(token)
    BY <1>0, <1>11, CheckMoves DEF Skips, F
  <2>2. now <= e - refreshBefore
    BY <1>1, <2>1 DEF Due, e
  <2>3. Renewal(l) < refreshBefore /\ Renewal(l) \in Nat
    BY <1>1, TimingAssumption, ChecksFacts
  <2>4. now + Renewal(l) < e
    BY <1>1, <2>2, <2>3
  <2>5. now + Interval[l] + Checks(l, MaxFailures - F) + Latency < e
    BY <1>1, <2>4, RoomAhead
  <2> QED BY <2>1, <2>5 DEF e
<1>12. CASE Ends(l)
  <2>1. CheckAt(l)' = CheckAt(l) + Interval[l] /\ CheckAt(l) <= now /\ start'[l] = start[l]
        /\ pc[l] = "request" /\ Running(l)
    BY <1>0, <1>12, CheckMoves DEF Ends, Running
  <2>2. CASE TokenStored
    <3>1. failures'[l] \in 0 .. MaxFailures /\ CheckAt(l)' \in Nat /\ CheckAt(l)' <= now + Interval[l]
      BY <1>1, <1>12, <2>1 DEF Ends, F
    <3> QED BY <1>3, <2>2, <3>1, RoomAhead
  <2>3. CASE TokenKept /\ F < MaxFailures /\ failures'[l] = F + 1
    <3>1. CheckAt(l) + Checks(l, MaxFailures - F) + Latency < e
      BY <1>5, <1>6, <2>1, <2>3 DEF TokenKept, e
    <3>2. Checks(l, MaxFailures - F) = Checks(l, MaxFailures - (F + 1)) + Interval[l]
          /\ Checks(l, MaxFailures - (F + 1)) \in Nat
      <4>1. MaxFailures - (F + 1) \in Nat /\ (MaxFailures - (F + 1)) + 1 = MaxFailures - F
        BY <1>1, <2>3
      <4> QED BY <4>1, ChecksFacts
    <3>3. token' = token
      BY <2>3 DEF TokenKept
    <3> QED BY <1>1, <2>1, <2>3, <3>1, <3>2, <3>3 DEF e
  <2> QED BY <1>4, <1>12, <2>2, <2>3 DEF Ends, F
<1>13. CASE Ages(l)
  <2>1. Running(l) /\ failures'[l] = F /\ start'[l] = start[l] /\ token' = token
        /\ stored' = stored /\ pc'[l] = pc[l]
    BY <1>13 DEF Ages, Running, F
  <2>2. CheckAt(l)' = CheckAt(l)
    BY <1>0, <1>13, <2>1, CheckMoves
  <2> QED BY <1>5, <1>6, <2>1, <2>2 DEF e
<1> QED BY <1>0, LoopMoves, <1>7, <1>8, <1>9, <1>10, <1>11, <1>12, <1>13

\* A token that is current while a loop runs does not expire, if it was stored and the loop
\* launched more than Renewal before: the next check comes before the token is due, or early
\* enough for the failures still to come.
THEOREM RenewedBeforeExpiry == Spec => []RenewedInTime
<1>1. Init => RoomInv
  BY Procs DEF Init, RoomInv, RoomOf, Running
<1>2. TimeInv /\ RoomInv => RenewedInTime
  <2> SUFFICES ASSUME TimeInv, RoomInv, NEW l \in AutoRefresh, Running(l), token.kind = "limited",
                      InTime(l)
               PROVE  now < token.exp
    BY Numbers DEF RenewedInTime, InTime, IsExpired
  <2>1. /\ now \in Nat /\ CheckAt(l) \in Nat /\ Latency \in Nat /\ token.exp \in Nat
        /\ refreshBefore \in Nat
    BY Numbers, Procs
  <2>2. /\ Renewal(l) \in Nat /\ Checks(l, MaxFailures - failures[l]) \in Nat
    <3>1. MaxFailures + 1 \in Nat /\ MaxFailures - failures[l] \in Nat
      BY Numbers
    <3> QED BY <2>1, <3>1, ChecksFacts
  <2>3. Renewal(l) < refreshBefore
    BY TimingAssumption
  <2>4. /\ pc[l] = "select" => now <= CheckAt(l)
        /\ now <= CheckAt(l) + Latency
    BY Procs, CheckMoves
  <2>5. CASE pc[l] = "select" /\ CheckAt(l) <= token.exp - refreshBefore
    BY <2>1, <2>2, <2>3, <2>4, <2>5
  <2>6. CASE CheckAt(l) + Checks(l, MaxFailures - failures[l]) + Latency < token.exp
    BY <2>1, <2>2, <2>4, <2>6
  <2> QED BY <2>5, <2>6 DEF RoomInv, RoomOf
<1> QED BY <1>1, <1>2, RoomStep, TimeInvariant, PTL DEF Spec
=============================================================================
