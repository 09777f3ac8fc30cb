----------------------- MODULE MasterController_proofs -----------------------
(***************************************************************************)
(* Proofs about MasterController, for any machines, streams, broadcasts    *)
(* and channel capacity: who is registered, what the messages of a version *)
(* hold, and that no subscriber misses a broadcast.                        *)
(***************************************************************************)
EXTENDS MasterController, SequenceTheorems, TLAPS

Label == {"new", "snapshot", "forward", "leave", "closed"}

\* A machine's registered stream is one of its own and is open.
Registration ==
  /\ subs \in [PC -> Stream \cup {NoStream}]
  /\ spc \in [Stream -> Label]
  /\ \A p \in PC : subs[p] # NoStream => pcID[subs[p]] = p /\ spc[subs[p]] # "closed"

\* A stream that moves on, but not to its end, leaves every registration as it is.
LEMMA GotoKeeps ==
  ASSUME Registration, NEW s \in Stream, NEW l \in Label \ {"closed"}, StreamGoto(s, l),
         UNCHANGED subs
  PROVE  Registration'
BY StreamAssumption DEF Registration, StreamGoto, Label

\* The steps of broadcasts, clients and the server concern no registration.
LEMMA FrameKeeps ==
  ASSUME Registration, UNCHANGED <<subs, spc>>
  PROVE  Registration'
BY DEF Registration

LEMMA RegisterKeeps ==
  ASSUME Registration, NEW s \in Stream, WatchRegister(s)
  PROVE  Registration'
<1>1. pcID[s] \in PC /\ s # NoStream
  BY StreamAssumption
<1>2. subs' = [subs EXCEPT ![pcID[s]] = s] /\ spc' = [spc EXCEPT ![s] = "snapshot"]
  BY DEF WatchRegister, StreamGoto
<1> QED BY <1>1, <1>2, StreamAssumption DEF Registration, Label

\* The deferred delete removes the stream that ends, or another one of its machine.
LEMMA LeaveKeeps ==
  ASSUME Registration, NEW s \in Stream, WatchLeave(s)
  PROVE  Registration'
<1>1. pcID[s] \in PC
  BY StreamAssumption
<1>2. subs' = [subs EXCEPT ![pcID[s]] = NoStream] /\ spc' = [spc EXCEPT ![s] = "closed"]
  BY DEF WatchLeave, StreamGoto, Without
<1>3. ASSUME NEW p \in PC, subs'[p] # NoStream
      PROVE  pcID[subs'[p]] = p /\ spc'[subs'[p]] # "closed"
  <2>1. p # pcID[s] /\ subs'[p] = subs[p]
    BY <1>1, <1>2, <1>3 DEF Registration
  <2>2. subs[p] \in Stream /\ subs[p] # s
    BY <2>1, <1>3 DEF Registration
  <2> QED BY <1>2, <1>3, <2>1, <2>2 DEF Registration
<1> QED BY <1>1, <1>2, <1>3 DEF Registration, Label

LEMMA StreamStepKeeps ==
  ASSUME Registration, NEW s \in Stream, StreamStep(s)
  PROVE  Registration'
<1>1. CASE WatchSnapshot(s)
  BY <1>1, GotoKeeps DEF WatchSnapshot, Label
<1>2. CASE WatchForward(s)
  BY <1>2, GotoKeeps, FrameKeeps DEF WatchForward, Label
<1>3. CASE WatchDone(s)
  BY <1>3, GotoKeeps DEF WatchDone, Label
<1>4. CASE WatchLeave(s)
  BY <1>4, LeaveKeeps
<1> QED BY <1>1, <1>2, <1>3, <1>4 DEF StreamStep

\* Whatever order broadcasts, reconnections and deferred deletes come in, a registered
\* stream belongs to its machine, and its handler has not returned (WatchCookies).
THEOREM RegistrationInductive == Spec => []Registration
<1>1. Init => Registration
  BY StreamAssumption DEF Init, Registration, Label
<1>2. Registration /\ [Next]_vars => Registration'
  <2> SUFFICES ASSUME Registration, [Next]_vars PROVE Registration'
    OBVIOUS
  <2>1. CASE \E b \in Broadcast : BroadcastStep(b)
    BY <2>1, FrameKeeps DEF BroadcastStep, BroadcastStore, BroadcastBump, BroadcastSnapshot,
                            BroadcastFanOut, streamVars
  <2>2. CASE \E s \in Stream : WatchRegister(s)
    BY <2>2, RegisterKeeps
  <2>3. CASE \E s \in Stream : StreamStep(s)
    BY <2>3, StreamStepKeeps
  <2>4. CASE \E s \in Stream : Disconnect(s)
    BY <2>4, FrameKeeps DEF Disconnect
  <2>5. CASE ServerStop \/ ServerReturn
    BY <2>5, FrameKeeps DEF ServerStop, ServerReturn, streamVars
  <2>6. CASE UNCHANGED vars
    BY <2>6, FrameKeeps DEF vars
  <2> QED BY <2>1, <2>2, <2>3, <2>4, <2>5, <2>6 DEF Next
<1> QED BY <1>1, <1>2, PTL DEF Spec

\* No handler that has returned is left registered to collect updates nobody reads
\* (the deferred delete of WatchCookies).
THEOREM OpenSubscribers == Spec => []NoClosedSubscriber
<1>1. Registration => NoClosedSubscriber
  BY DEF Registration, NoClosedSubscriber
<1> QED BY <1>1, RegistrationInductive, PTL

-----------------------------------------------------------------------------
(* The shape of the state                                                  *)

\* A broadcast is in the order only once its Store has begun.
StoredOnce == \A i \in DOMAIN order : bpc[order[i]] # "idle"

\* TypeOK with what keeps the order free of repetitions.
TypeInv == TypeOK /\ StoredOnce

LEMMA SnapshotIsMessage ==
  ASSUME TypeInv
  PROVE  Snapshot \in Message /\ NoMessage \in Message
BY DEF TypeInv, TypeOK, JarTypeOK, Snapshot, NoMessage, Message

\* The order gains a broadcast it did not have.
LEMMA StoreKeepsOrder ==
  ASSUME TypeInv, NEW b \in Broadcast, bpc[b] = "idle", StoreEntries(b),
         bpc' = [bpc EXCEPT ![b] = "bump"], UNCHANGED version
  PROVE  JarTypeOK' /\ StoredOnce'
<1>1. order' \in Seq(Broadcast) /\ Len(order') = Len(order) + 1 /\ order'[Len(order) + 1] = b
      /\ \A i \in DOMAIN order : i \in 1 .. Len(order) /\ order'[i] = order[i]
  BY DEF TypeInv, TypeOK, JarTypeOK, StoreEntries
<1>2. \A i \in 1 .. Len(order) : order[i] # b
  BY DEF TypeInv, TypeOK, JarTypeOK, StoredOnce
<1>3. \A i, j \in 1 .. Len(order) : order[i] = order[j] => i = j
  BY DEF TypeInv, TypeOK, JarTypeOK, IsInjective
<1>4. DOMAIN order' = 1 .. Len(order) + 1 /\ Len(order) \in Nat
  BY <1>1 DEF TypeInv, TypeOK, JarTypeOK
<1>5. ASSUME NEW i \in DOMAIN order', NEW j \in DOMAIN order', order'[i] = order'[j]
      PROVE  i = j
  <2>1. DOMAIN order = 1 .. Len(order)
    BY DEF TypeInv, TypeOK, JarTypeOK
  <2>2. CASE i = Len(order) + 1 \/ j = Len(order) + 1
    BY <1>1, <1>2, <1>4, <1>5, <2>1, <2>2
  <2>3. CASE i \in 1 .. Len(order) /\ j \in 1 .. Len(order)
    BY <1>1, <1>3, <1>5, <2>1, <2>3
  <2> QED BY <1>4, <2>2, <2>3
<1>6. ASSUME NEW i \in DOMAIN order' PROVE bpc'[order'[i]] # "idle"
  <2>1. CASE i = Len(order) + 1
    BY <1>1, <2>1 DEF TypeInv, TypeOK
  <2>2. CASE i \in 1 .. Len(order)
    <3>1. order'[i] = order[i] /\ order[i] \in Broadcast /\ order[i] # b /\ bpc[order[i]] # "idle"
      BY <1>1, <1>2, <2>2 DEF TypeInv, TypeOK, JarTypeOK, StoredOnce
    <3> QED BY <3>1 DEF TypeInv, TypeOK
  <2> QED BY <1>4, <2>1, <2>2
<1>7. entries' \in [Name -> Broadcast \cup {NoCookie}]
  BY DEF TypeInv, TypeOK, JarTypeOK, StoreEntries
<1> QED BY <1>1, <1>5, <1>6, <1>7 DEF TypeInv, TypeOK, JarTypeOK, StoredOnce, IsInjective

LEMMA BroadcastKeepsTypes ==
  ASSUME TypeInv, NEW b \in Broadcast, BroadcastStep(b)
  PROVE  TypeInv'
<1>1. CASE BroadcastStore(b)
  <2>1. JarTypeOK' /\ StoredOnce'
    BY <1>1, StoreKeepsOrder DEF BroadcastStore, BroadcastGoto
  <2> QED BY <1>1, <2>1 DEF BroadcastStore, BroadcastGoto, TypeInv, TypeOK, streamVars
<1>2. CASE BroadcastBump(b)
  <2>0. resp[b] \in Message /\ version + 1 \in Nat
    BY DEF TypeInv, TypeOK, JarTypeOK
  <2>1. resp' \in [Broadcast -> Message]
    BY <1>2, <2>0 DEF BroadcastBump, NextVersion, TypeInv, TypeOK, JarTypeOK, Message
  <2> QED BY <1>2, <2>1
          DEF BroadcastBump, BroadcastGoto, NextVersion, TypeInv, TypeOK, JarTypeOK, StoredOnce, streamVars
<1>3. CASE BroadcastSnapshot(b)
  <2>1. resp' \in [Broadcast -> Message]
    <3>1. /\ resp \in [Broadcast -> Message] /\ resp[b] \in Message
          /\ entries \in [Name -> Broadcast \cup {NoCookie}]
      BY DEF TypeInv, TypeOK, JarTypeOK
    <3>2. resp' = [resp EXCEPT ![b].cookies = Pushed(b)]
      BY <1>3 DEF BroadcastSnapshot
    <3>3. Pushed(b) \in [Name -> Broadcast \cup {NoCookie}]
      BY <3>1 DEF Pushed, Snapshot, Message
    <3>4. [resp[b] EXCEPT !.cookies = Pushed(b)] \in Message
      BY <3>1, <3>3 DEF Message
    <3> QED BY <3>1, <3>2, <3>4
  <2> QED BY <1>3, <2>1
          DEF BroadcastSnapshot, BroadcastGoto, TypeInv, TypeOK, JarTypeOK, StoredOnce, streamVars, jarVars
<1>4. CASE BroadcastFanOut(b)
  <2>1. ASSUME NEW s \in Stream PROVE ch'[s] \in Seq(Message) /\ Len(ch'[s]) <= ChanCap
    BY <1>4, StreamAssumption DEF BroadcastFanOut, HasRoom, TypeInv, TypeOK
  <2>2. ch' \in [Stream -> Seq(Message)]
    BY <1>4, <2>1 DEF BroadcastFanOut
  <2>3. dropped' \in [Stream -> BOOLEAN]
    BY <1>4 DEF BroadcastFanOut, TypeInv, TypeOK
  <2> QED BY <1>4, <2>1, <2>2, <2>3
          DEF BroadcastFanOut, BroadcastGoto, TypeInv, TypeOK, JarTypeOK, StoredOnce, jarVars
<1> QED BY <1>1, <1>2, <1>3, <1>4 DEF BroadcastStep

LEMMA SendKeepsTypes ==
  ASSUME TypeInv, NEW s \in Stream, NEW m \in Message, Send(s, m)
  PROVE  last' \in [Stream -> Message] /\ seen' \in [Stream -> SUBSET Broadcast]
<1>1. Range(m.cookies) \ {NoCookie} \subseteq Broadcast
  BY DEF Range, Message
<1> QED BY <1>1 DEF Send, TypeInv, TypeOK

LEMMA StreamKeepsTypes ==
  ASSUME TypeInv, NEW s \in Stream, WatchRegister(s) \/ StreamStep(s) \/ Disconnect(s)
  PROVE  TypeInv'
<1>0. UNCHANGED <<jarVars, bpc, resp>> => (JarTypeOK /\ StoredOnce)'
  BY DEF TypeInv, TypeOK, JarTypeOK, StoredOnce, jarVars
<1>1. CASE WatchRegister(s) \/ WatchDone(s)
  <2>1. /\ subs' \in [PC -> Stream \cup {NoStream}]
        /\ spc' \in [Stream -> {"new", "snapshot", "forward", "leave", "closed"}]
    BY <1>1 DEF WatchRegister, WatchDone, StreamGoto, TypeInv, TypeOK
  <2>2. UNCHANGED <<jarVars, bpc, resp, ch, gone, last, seen, dropped, server>>
    BY <1>1 DEF WatchRegister, WatchDone
  <2> QED BY <1>0, <2>1, <2>2 DEF TypeInv, TypeOK
<1>2. CASE Disconnect(s)
  <2>1. gone' \in [Stream -> BOOLEAN]
    BY <1>2 DEF Disconnect, TypeInv, TypeOK
  <2> QED BY <1>0, <1>2, <2>1 DEF Disconnect, TypeInv, TypeOK
<1>3. CASE WatchSnapshot(s)
  <2>1. last' \in [Stream -> Message] /\ seen' \in [Stream -> SUBSET Broadcast]
    BY <1>3, SnapshotIsMessage, SendKeepsTypes DEF WatchSnapshot, FirstMessage, TypeInv, TypeOK
  <2> QED BY <1>0, <1>3, <2>1 DEF WatchSnapshot, StreamGoto, TypeInv, TypeOK
<1>4. CASE WatchForward(s)
  <2>1. Head(ch[s]) \in Message /\ Tail(ch[s]) \in Seq(Message) /\ Len(Tail(ch[s])) <= ChanCap
    BY <1>4, StreamAssumption, HeadTailProperties DEF WatchForward, TypeInv, TypeOK
  <2>2. last' \in [Stream -> Message] /\ seen' \in [Stream -> SUBSET Broadcast]
    BY <1>4, <2>1, SendKeepsTypes DEF WatchForward, TypeInv, TypeOK
  <2> QED BY <1>0, <1>4, <2>1, <2>2 DEF WatchForward, StreamGoto, TypeInv, TypeOK
<1>5. CASE WatchLeave(s)
  <2>1. last' \in [Stream -> Message] /\ ch' \in [Stream -> Seq(Message)]
        /\ \A t \in Stream : Len(ch'[t]) <= ChanCap
    BY <1>5, SnapshotIsMessage, StreamAssumption DEF WatchLeave, TypeInv, TypeOK
  <2> QED BY <1>0, <1>5, <2>1, StreamAssumption DEF WatchLeave, Without, StreamGoto, TypeInv, TypeOK
<1> QED BY <1>1, <1>2, <1>3, <1>4, <1>5 DEF StreamStep

\* The types, the channels' bound, and that no broadcast is stored twice.
LEMMA TypeKept == Spec => []TypeInv
<1>1. Init => TypeInv
  BY StreamAssumption
     DEF Init, NewGlobalCookieJar, NoMessage, Message, TypeInv, TypeOK, JarTypeOK, StoredOnce, IsInjective
<1>2. TypeInv /\ [Next]_vars => TypeInv'
  <2>1. TypeInv /\ (ServerStop \/ ServerReturn \/ UNCHANGED vars) => TypeInv'
    BY DEF ServerStop, ServerReturn, vars, streamVars, jarVars, TypeInv, TypeOK, JarTypeOK, StoredOnce
  <2> QED BY <2>1, BroadcastKeepsTypes, StreamKeepsTypes DEF Next
<1> QED BY <1>1, <1>2, PTL DEF Spec

\* The shape of the state, for any machines, streams, broadcasts and channel capacity.
THEOREM ControllerTyping == Spec => []TypeOK
BY TypeKept, PTL DEF TypeInv

-----------------------------------------------------------------------------
(* What the messages hold                                                  *)

\* Covers in an order: every cookie of b is in these cookies, or a later one of its name is.
CoversIn(o, cookies, b) ==
  \A n \in CookieNames[b] :
    \E i, j \in DOMAIN o : i <= j /\ o[i] = b /\ o[j] = cookies[n]

\* Under an order o, responses r and version v: message m is no newer than the version, holds
\* what its version says, and only cookies of their names.
Sound(o, r, v, m) ==
  /\ m.version <= v
  /\ \A b \in Broadcast : r[b].version \in 1 .. m.version => CoversIn(o, m.cookies, b)
  /\ \A n \in Name : m.cookies[n] # NoCookie => n \in CookieNames[m.cookies[n]]

\* The order has only gained broadcasts.
Extends(o, p) == \A i \in DOMAIN o : i \in DOMAIN p /\ p[i] = o[i]

\* The jar holds the newest cookie of every name; a broadcast gets its version once stored.
JarInv ==
  /\ \A b \in Broadcast : bpc[b] # "idle" => CoversIn(order, entries, b)
  /\ \A n \in Name : entries[n] # NoCookie => n \in CookieNames[entries[n]]
  /\ \A b \in Broadcast : /\ resp[b].version <= version
                          /\ resp[b].version = 0 <=> bpc[b] \in {"idle", "bump"}

\* Every message on its way or received is sound, a response from its snapshot on.
MessageInv ==
  /\ \A b \in Broadcast : bpc[b] \in {"fanOut", "done"} => Sound(order, resp, version, resp[b])
  /\ \A s \in Stream : Sound(order, resp, version, last[s])
  /\ \A s \in Stream : \A i \in DOMAIN ch[s] : Sound(order, resp, version, ch[s][i])

LEMMA CoversGrows ==
  ASSUME NEW o \in Seq(Broadcast), NEW p \in Seq(Broadcast), Extends(o, p),
         NEW cookies, NEW b \in Broadcast, CoversIn(o, cookies, b)
  PROVE  CoversIn(p, cookies, b)
BY DEF Extends, CoversIn

\* A sound message stays sound while the order grows and broadcasts get new versions.
LEMMA SoundStays ==
  ASSUME NEW o \in Seq(Broadcast), NEW p \in Seq(Broadcast), Extends(o, p),
         NEW r \in [Broadcast -> Message], NEW q \in [Broadcast -> Message],
         NEW v \in Nat, NEW w \in Nat, v <= w,
         \A b \in Broadcast : q[b].version = r[b].version \/ q[b].version > v,
         NEW m \in Message, Sound(o, r, v, m)
  PROVE  Sound(p, q, w, m)
<1>1. m.version \in Nat /\ m.version <= v
  BY DEF Sound, Message
<1>2. ASSUME NEW b \in Broadcast, q[b].version \in 1 .. m.version
      PROVE  CoversIn(p, m.cookies, b)
  <2>1. q[b] \in Message /\ r[b] \in Message
    OBVIOUS
  <2>2. q[b].version \in Nat /\ r[b].version \in Nat
    BY <2>1 DEF Message
  <2>3. q[b].version = r[b].version \/ q[b].version > v
    OBVIOUS
  <2>4. r[b].version \in 1 .. m.version
    BY <1>1, <1>2, <2>2, <2>3
  <2> QED BY <2>4, CoversGrows DEF Sound
<1> QED BY <1>1, <1>2 DEF Sound

\* What a step does to the order, the versions and the responses.
JarGrows ==
  /\ order' \in Seq(Broadcast) /\ Extends(order, order')
  /\ resp' \in [Broadcast -> Message]
  /\ version' \in Nat /\ version <= version'
  /\ \A b \in Broadcast : resp'[b].version = resp[b].version \/ resp'[b].version > version

LEMMA JarOnlyGrows ==
  ASSUME TypeInv, [Next]_vars
  PROVE  JarGrows
<1>1. CASE UNCHANGED <<jarVars, resp>>
  BY <1>1 DEF JarGrows, Extends, jarVars, TypeInv, TypeOK, JarTypeOK
<1>2. ASSUME NEW b \in Broadcast, BroadcastStore(b) PROVE JarGrows
  <2>1. order' \in Seq(Broadcast) /\ Extends(order, order')
    BY <1>2 DEF BroadcastStore, StoreEntries, Extends, TypeInv, TypeOK, JarTypeOK
  <2> QED BY <1>2, <2>1 DEF BroadcastStore, JarGrows, TypeInv, TypeOK, JarTypeOK
<1>3. ASSUME NEW b \in Broadcast, BroadcastBump(b) PROVE JarGrows
  <2>1. resp[b] \in Message /\ version + 1 \in Nat
    BY DEF TypeInv, TypeOK, JarTypeOK
  <2>2. resp' \in [Broadcast -> Message]
    BY <1>3, <2>1 DEF BroadcastBump, NextVersion, TypeInv, TypeOK, JarTypeOK, Message
  <2>3. ASSUME NEW c \in Broadcast PROVE resp'[c].version = resp[c].version \/ resp'[c].version > version
    BY <1>3 DEF BroadcastBump, NextVersion, TypeInv, TypeOK, JarTypeOK, Message
  <2> QED BY <1>3, <2>2, <2>3 DEF BroadcastBump, NextVersion, JarGrows, Extends, TypeInv, TypeOK, JarTypeOK
<1>4. ASSUME NEW b \in Broadcast, BroadcastSnapshot(b) PROVE JarGrows
  <2>1. resp[b] \in Message /\ Pushed(b) \in [Name -> Broadcast \cup {NoCookie}]
    BY DEF TypeInv, TypeOK, JarTypeOK, Pushed, Snapshot
  <2>2. resp' \in [Broadcast -> Message]
    BY <1>4, <2>1 DEF BroadcastSnapshot, TypeInv, TypeOK, Message
  <2>3. ASSUME NEW c \in Broadcast PROVE resp'[c].version = resp[c].version
    BY <1>4 DEF BroadcastSnapshot, TypeInv, TypeOK, Message
  <2> QED BY <1>4, <2>2, <2>3 DEF BroadcastSnapshot, JarGrows, Extends, jarVars, TypeInv, TypeOK, JarTypeOK
<1> QED
  BY <1>1, <1>2, <1>3, <1>4
     DEF Next, vars, BroadcastStep, BroadcastFanOut, WatchRegister, StreamStep, WatchSnapshot,
         WatchForward, WatchDone, WatchLeave, Disconnect, ServerStop, ServerReturn

LEMMA StillSound ==
  ASSUME TypeInv, JarGrows, NEW m \in Message, Sound(order, resp, version, m)
  PROVE  Sound(order', resp', version', m)
BY SoundStays DEF JarGrows, TypeInv, TypeOK, JarTypeOK

\* Storing makes the broadcast the newest of each of its names.
LEMMA StoreCovers ==
  ASSUME TypeInv, JarInv, NEW b \in Broadcast, BroadcastStore(b), NEW c \in Broadcast, bpc'[c] # "idle"
  PROVE  CoversIn(order', entries', c)
<1>1. order' \in Seq(Broadcast) /\ DOMAIN order' = 1 .. Len(order) + 1 /\ DOMAIN order = 1 .. Len(order)
      /\ Len(order) \in Nat /\ order'[Len(order) + 1] = b /\ \A i \in DOMAIN order : order'[i] = order[i]
  BY DEF BroadcastStore, StoreEntries, TypeInv, TypeOK, JarTypeOK
<1>2. ASSUME NEW n \in CookieNames[c]
      PROVE  \E i, j \in DOMAIN order' : i <= j /\ order'[i] = c /\ order'[j] = entries'[n]
  <2>1. n \in Name
    BY JarAssumption
  <2>2. CASE c = b
    <3>1. entries'[n] = b
      BY <1>2, <2>1, <2>2 DEF BroadcastStore, StoreEntries
    <3> QED BY <1>1, <2>2, <3>1
  <2>3. CASE c # b
    <3>1. PICK i \in DOMAIN order, j \in DOMAIN order : i <= j /\ order[i] = c /\ order[j] = entries[n]
      BY <1>2, <2>3 DEF BroadcastStore, BroadcastGoto, JarInv, CoversIn, TypeInv, TypeOK
    <3>2. CASE n \in CookieNames[b]
      <4>1. entries'[n] = b
        BY <2>1, <3>2 DEF BroadcastStore, StoreEntries
      <4>2. i <= Len(order) + 1 /\ i \in DOMAIN order' /\ Len(order) + 1 \in DOMAIN order'
        BY <1>1, <3>1
      <4> QED BY <1>1, <3>1, <4>1, <4>2
    <3>3. CASE n \notin CookieNames[b]
      <4>1. entries'[n] = entries[n]
        BY <2>1, <3>3 DEF BroadcastStore, StoreEntries
      <4> QED BY <1>1, <3>1, <4>1
    <3> QED BY <3>2, <3>3
  <2> QED BY <2>2, <2>3
<1> QED BY <1>2 DEF CoversIn

LEMMA JarKept ==
  ASSUME TypeInv, JarInv, [Next]_vars
  PROVE  JarInv'
<1>1. CASE UNCHANGED <<jarVars, bpc, resp>>
  BY <1>1 DEF JarInv, CoversIn, jarVars
<1>2. ASSUME NEW b \in Broadcast, BroadcastStore(b) PROVE JarInv'
  <2>1. ASSUME NEW n \in Name, entries'[n] # NoCookie PROVE n \in CookieNames[entries'[n]]
    BY <1>2, <2>1 DEF BroadcastStore, StoreEntries, JarInv
  <2>2. ASSUME NEW c \in Broadcast
        PROVE  resp'[c].version <= version' /\ (resp'[c].version = 0 <=> bpc'[c] \in {"idle", "bump"})
    BY <1>2 DEF BroadcastStore, BroadcastGoto, JarInv, TypeInv, TypeOK
  <2> QED BY <1>2, <2>1, <2>2, StoreCovers DEF JarInv
<1>3. ASSUME NEW b \in Broadcast, BroadcastBump(b) PROVE JarInv'
  <2>1. UNCHANGED <<entries, order>> /\ \A c \in Broadcast : bpc'[c] # "idle" => bpc[c] # "idle"
    BY <1>3 DEF BroadcastBump, BroadcastGoto, TypeInv, TypeOK
  <2>2. version' = version + 1 /\ version \in Nat /\ \A c \in Broadcast : resp[c] \in Message
    BY <1>3 DEF BroadcastBump, NextVersion, TypeInv, TypeOK, JarTypeOK
  <2>3. ASSUME NEW c \in Broadcast
        PROVE  resp'[c].version <= version' /\ (resp'[c].version = 0 <=> bpc'[c] \in {"idle", "bump"})
    <3>1. CASE c = b
      BY <1>3, <2>2, <3>1 DEF BroadcastBump, BroadcastGoto, NextVersion, TypeInv, TypeOK, Message
    <3>2. CASE c # b
      <4>1. resp'[c] = resp[c] /\ bpc'[c] = bpc[c] /\ resp[c].version \in Nat
        BY <1>3, <2>2, <3>2 DEF BroadcastBump, BroadcastGoto, TypeInv, TypeOK, Message
      <4> QED BY <2>2, <4>1 DEF JarInv
    <3> QED BY <3>1, <3>2
  <2> QED BY <2>1, <2>3 DEF JarInv, CoversIn
<1>4. ASSUME NEW b \in Broadcast, BroadcastSnapshot(b) \/ BroadcastFanOut(b) PROVE JarInv'
  <2>1. UNCHANGED jarVars /\ \A c \in Broadcast : resp'[c].version = resp[c].version
    <3>1. resp[b] \in Message
      BY DEF TypeInv, TypeOK
    <3>2. CASE BroadcastSnapshot(b)
      BY <3>1, <3>2 DEF BroadcastSnapshot, TypeInv, TypeOK, Message
    <3> QED BY <1>4, <3>2 DEF BroadcastFanOut
  <2>2. \A c \in Broadcast : /\ bpc'[c] # "idle" => bpc[c] # "idle"
                             /\ bpc'[c] \in {"idle", "bump"} <=> bpc[c] \in {"idle", "bump"}
    BY <1>4 DEF BroadcastSnapshot, BroadcastFanOut, BroadcastGoto, TypeInv, TypeOK
  <2> QED BY <2>1, <2>2 DEF JarInv, CoversIn, jarVars
<1> QED
  BY <1>1, <1>2, <1>3, <1>4
     DEF Next, vars, BroadcastStep, WatchRegister, StreamStep, WatchSnapshot,
         WatchForward, WatchDone, WatchLeave, Disconnect, ServerStop, ServerReturn

\* The jar's own cookies are sound under any version a broadcast has been given.
LEMMA SnapshotSound ==
  ASSUME TypeInv, JarInv
  PROVE  Sound(order, resp, version, Snapshot)
<1>1. ASSUME NEW b \in Broadcast, resp[b].version \in 1 .. version
      PROVE  CoversIn(order, entries, b)
  <2>1. bpc[b] # "idle"
    BY <1>1 DEF JarInv, TypeInv, TypeOK, JarTypeOK
  <2> QED BY <2>1 DEF JarInv
<1> QED BY <1>1 DEF Sound, Snapshot, JarInv, TypeInv, TypeOK, JarTypeOK

\* A response is complete once its snapshot is taken: the version it has is an older one.
LEMMA ResponsesSound ==
  ASSUME TypeInv, JarInv, MessageInv, JarGrows, NEW b \in Broadcast, BroadcastStep(b),
         NEW c \in Broadcast, bpc'[c] \in {"fanOut", "done"}
  PROVE  Sound(order', resp', version', resp'[c])
<1>1. CASE bpc[c] \in {"fanOut", "done"}
  <2>1. resp'[c] = resp[c] /\ resp[c] \in Message
    BY <1>1 DEF BroadcastStep, BroadcastStore, BroadcastBump, BroadcastSnapshot, BroadcastFanOut,
                TypeInv, TypeOK
  <2> QED BY <1>1, <2>1, StillSound DEF MessageInv
<1>2. CASE bpc[c] \notin {"fanOut", "done"}
  <2>1. c = b /\ BroadcastSnapshot(b)
    BY <1>2 DEF BroadcastStep, BroadcastStore, BroadcastBump, BroadcastSnapshot, BroadcastFanOut,
                BroadcastGoto, TypeInv, TypeOK
  <2>2. UNCHANGED <<order, version, entries>> /\ resp[b] \in Message /\ resp'[b].cookies = entries
        /\ resp'[b].version = resp[b].version /\ resp[b].version \in Nat /\ resp[b].version <= version
    BY <2>1 DEF BroadcastSnapshot, Pushed, Snapshot, jarVars, JarInv, TypeInv, TypeOK, Message
  <2>3. ASSUME NEW d \in Broadcast, resp'[d].version \in 1 .. resp'[b].version
        PROVE  CoversIn(order, entries, d)
    <3>1. resp'[d].version = resp[d].version
      BY <2>1 DEF BroadcastSnapshot, TypeInv, TypeOK, Message
    <3>2. bpc[d] # "idle"
      BY <2>3, <3>1 DEF JarInv
    <3> QED BY <3>2 DEF JarInv
  <2> QED BY <2>1, <2>2, <2>3 DEF Sound, JarInv
<1> QED BY <1>1, <1>2

LEMMA MessagesKept ==
  ASSUME TypeInv, JarInv, MessageInv, [Next]_vars
  PROVE  MessageInv'
<1>0. JarGrows
  BY JarOnlyGrows
<1>1. ASSUME NEW s \in Stream
      PROVE  /\ Sound(order', resp', version', last[s]) /\ last[s] \in Message
             /\ \A i \in DOMAIN ch[s] : Sound(order', resp', version', ch[s][i]) /\ ch[s][i] \in Message
  BY <1>0, StillSound DEF MessageInv, TypeInv, TypeOK
<1>2. Sound(order', resp', version', Snapshot)
  BY <1>0, SnapshotSound, SnapshotIsMessage, StillSound
<1>3. Sound(order', resp', version', NoMessage)
  BY <1>0 DEF JarGrows, NoMessage, Sound
<1>4. CASE \/ \E s \in Stream : WatchRegister(s) \/ StreamStep(s) \/ Disconnect(s)
           \/ ServerStop \/ ServerReturn \/ UNCHANGED vars
  <2>0. UNCHANGED <<bpc, resp>>
    BY <1>4 DEF vars, WatchRegister, StreamStep, WatchSnapshot, WatchForward, WatchDone, WatchLeave,
                Disconnect, ServerStop, ServerReturn
  <2>1. ASSUME NEW c \in Broadcast, bpc'[c] \in {"fanOut", "done"}
        PROVE  Sound(order', resp', version', resp'[c])
    <3>1. Sound(order, resp, version, resp[c]) /\ resp[c] \in Message
      BY <2>0, <2>1 DEF MessageInv, TypeInv, TypeOK
    <3> QED BY <1>0, <2>0, <3>1, StillSound
  <2>2. CASE UNCHANGED <<ch, last>>
    BY <1>1, <2>1, <2>2 DEF MessageInv
  <2>3. ASSUME NEW s \in Stream, WatchSnapshot(s) PROVE MessageInv'
    BY <1>1, <1>2, <2>1, <2>3 DEF WatchSnapshot, FirstMessage, Send, MessageInv, TypeInv, TypeOK
  <2>4. ASSUME NEW s \in Stream, WatchForward(s) PROVE MessageInv'
    <3>1. ch[s] \in Seq(Message) /\ ch[s] # <<>>
      BY <2>4 DEF WatchForward, TypeInv, TypeOK
    <3>2. 1 \in DOMAIN ch[s] /\ Head(ch[s]) = ch[s][1]
          /\ \A i \in DOMAIN Tail(ch[s]) : i + 1 \in DOMAIN ch[s] /\ Tail(ch[s])[i] = ch[s][i + 1]
      BY <3>1, HeadTailProperties
    <3>3. \A t \in Stream : last'[t] = last[t] \/ last'[t] = ch[s][1]
      BY <2>4, <3>2 DEF WatchForward, Send, TypeInv, TypeOK
    <3>4. \A t \in Stream : Sound(order', resp', version', last'[t])
      BY <1>1, <3>2, <3>3
    <3>5. ASSUME NEW t \in Stream, NEW i \in DOMAIN ch'[t] PROVE Sound(order', resp', version', ch'[t][i])
      BY <1>1, <2>4, <3>2 DEF WatchForward, TypeInv, TypeOK
    <3> QED BY <2>1, <3>4, <3>5 DEF MessageInv
  <2>5. ASSUME NEW s \in Stream, WatchLeave(s) PROVE MessageInv'
    BY <1>1, <1>3, <2>1, <2>5 DEF WatchLeave, MessageInv, TypeInv, TypeOK
  <2> QED
    BY <1>4, <2>2, <2>3, <2>4, <2>5
       DEF vars, streamVars, WatchRegister, StreamStep, WatchDone, Disconnect, ServerStop, ServerReturn
<1>5. ASSUME NEW b \in Broadcast, BroadcastStep(b) PROVE MessageInv'
  <2>1. UNCHANGED last
    BY <1>5 DEF BroadcastStep, BroadcastStore, BroadcastBump, BroadcastSnapshot, BroadcastFanOut, streamVars
  <2>2. ASSUME NEW s \in Stream, NEW i \in DOMAIN ch'[s] PROVE Sound(order', resp', version', ch'[s][i])
    <3>1. CASE BroadcastFanOut(b)
      <4>1. Sound(order', resp', version', resp[b])
        BY <1>0, <3>1, StillSound DEF BroadcastFanOut, MessageInv, TypeInv, TypeOK
      <4>2. ch[s] \in Seq(Message) /\ resp[b] \in Message
        BY DEF TypeInv, TypeOK
      <4>3. ch'[s] = ch[s] \/ ch'[s] = Append(ch[s], resp[b])
        BY <3>1 DEF BroadcastFanOut
      <4>4. ch'[s][i] = resp[b] \/ (i \in DOMAIN ch[s] /\ ch'[s][i] = ch[s][i])
        BY <2>2, <4>2, <4>3
      <4> QED BY <1>1, <4>1, <4>4
    <3>2. CASE UNCHANGED ch
      BY <1>1, <2>2, <3>2
    <3> QED BY <1>5, <3>1, <3>2 DEF BroadcastStep, BroadcastStore, BroadcastBump, BroadcastSnapshot, streamVars
  <2> QED BY <1>0, <1>1, <1>5, <2>1, <2>2, ResponsesSound DEF MessageInv
<1> QED
  BY <1>4, <1>5 DEF Next

\* What every message that is stored, on its way or received holds.
LEMMA MessagesAreSound == Spec => [](JarInv /\ MessageInv)
<1>1. Init => JarInv /\ MessageInv
  BY DEF Init, NewGlobalCookieJar, NoMessage, JarInv, MessageInv, CoversIn, Sound
<1>2. TypeInv /\ JarInv /\ MessageInv /\ [Next]_vars => (JarInv /\ MessageInv)'
  BY JarKept, MessagesKept
<1> QED BY <1>1, <1>2, TypeKept, PTL DEF Spec

\* A message of version v holds every broadcast whose Store returned v or less, although
\* Store bumps the version outside the jar's lock (Store, Snapshot, BroadcastCookie).
THEOREM VersionsCover == Spec => []VersionCovers
<1>1. TypeInv /\ JarInv /\ MessageInv => VersionCovers
  <2> SUFFICES ASSUME TypeInv, JarInv, MessageInv,
                      NEW m \in {last[s] : s \in Stream} \cup {Snapshot}
                                \cup UNION {{ch[s][i] : i \in DOMAIN ch[s]} : s \in Stream},
                      NEW b \in Broadcast, resp[b].version \in 1 .. m.version
               PROVE  Covers(m.cookies, b)
    BY DEF VersionCovers
  <2>1. Sound(order, resp, version, m)
    BY SnapshotSound DEF MessageInv
  <2> QED BY <2>1 DEF Sound, CoversIn, Covers
<1> QED BY <1>1, TypeKept, MessagesAreSound, PTL

-----------------------------------------------------------------------------
(* What a subscriber has received                                          *)

\* A client that has received these broadcasts' cookies has every cookie of b, or a later one.
ReceivedIn(o, cs, b) ==
  \A n \in CookieNames[b] :
    \E c \in cs : n \in CookieNames[c] /\
      \E i, j \in DOMAIN o : i <= j /\ o[i] = b /\ o[j] = c

\* A subscriber that has lost no update.
Current(s) == s \in Reached /\ spc[s] = "forward" /\ ~dropped[s] /\ ~gone[s]

\* What such a subscriber has not received of a finished broadcast is in its channel.
OnItsWay(s, b) ==
  \/ ReceivedIn(order, seen[s], b)
  \/ \E i \in DOMAIN ch[s] : CoversIn(order, ch[s][i].cookies, b)
DeliveryInv == \A s \in Stream, b \in Broadcast : Current(s) /\ bpc[b] = "done" => OnItsWay(s, b)

\* Receiving a message is receiving what it covers.
LEMMA SentIsReceived ==
  ASSUME NEW o \in Seq(Broadcast), NEW r, NEW v, NEW m \in Message, Sound(o, r, v, m),
         NEW b \in Broadcast, CoversIn(o, m.cookies, b),
         NEW cs, Range(m.cookies) \ {NoCookie} \subseteq cs
  PROVE  ReceivedIn(o, cs, b)
<1> SUFFICES ASSUME NEW n \in CookieNames[b]
             PROVE  \E c \in cs : n \in CookieNames[c] /\
                      \E i, j \in DOMAIN o : i <= j /\ o[i] = b /\ o[j] = c
  BY DEF ReceivedIn
<1>1. n \in Name /\ m.cookies \in [Name -> Broadcast \cup {NoCookie}]
  BY JarAssumption DEF Message
<1>2. PICK i \in DOMAIN o, j \in DOMAIN o : i <= j /\ o[i] = b /\ o[j] = m.cookies[n]
  BY DEF CoversIn
<1>3. m.cookies[n] # NoCookie
  <2>1. o[j] \in Broadcast
    BY <1>2
  <2> QED BY <1>2, <2>1, JarAssumption
<1>4. n \in CookieNames[m.cookies[n]] /\ m.cookies[n] \in cs
  BY <1>1, <1>3 DEF Sound, Range
<1> QED BY <1>2, <1>4

LEMMA ReceivedGrows ==
  ASSUME NEW o \in Seq(Broadcast), NEW p \in Seq(Broadcast), Extends(o, p),
         NEW cs, NEW ds, cs \subseteq ds, NEW b \in Broadcast, ReceivedIn(o, cs, b)
  PROVE  ReceivedIn(p, ds, b)
BY DEF Extends, ReceivedIn

\* A broadcast's fan-out puts its response, which covers it, into every channel with room.
LEMMA FanOutDelivers ==
  ASSUME TypeInv, JarInv, MessageInv, DeliveryInv, NEW b \in Broadcast, BroadcastFanOut(b),
         NEW s \in Stream, Current(s)', NEW c \in Broadcast, bpc'[c] = "done"
  PROVE  OnItsWay(s, c)'
<1>1. Current(s) /\ (s \in Reached /\ HasRoom(s)) /\ UNCHANGED <<order, seen>>
  BY DEF BroadcastFanOut, Current, Reached, jarVars, TypeInv, TypeOK
<1>2. ch[s] \in Seq(Message) /\ ch'[s] = Append(ch[s], resp[b])
  BY <1>1 DEF BroadcastFanOut, TypeInv, TypeOK
<1>3. CASE c = b
  <2>1. resp[b].version \in Nat /\ resp[b].version # 0
    BY DEF BroadcastFanOut, JarInv, TypeInv, TypeOK, Message
  <2>2. CoversIn(order, resp[b].cookies, b)
    BY <2>1 DEF BroadcastFanOut, MessageInv, Sound
  <2>3. Len(ch[s]) + 1 \in DOMAIN ch'[s] /\ ch'[s][Len(ch[s]) + 1] = resp[b]
    BY <1>2 DEF TypeInv, TypeOK
  <2> QED BY <1>1, <1>3, <2>2, <2>3 DEF OnItsWay
<1>4. CASE c # b
  <2>1. OnItsWay(s, c)
    BY <1>1, <1>4 DEF BroadcastFanOut, BroadcastGoto, DeliveryInv, TypeInv, TypeOK
  <2>2. \A i \in DOMAIN ch[s] : i \in DOMAIN ch'[s] /\ ch'[s][i] = ch[s][i]
    BY <1>2 DEF TypeInv, TypeOK
  <2> QED BY <1>1, <2>1, <2>2 DEF OnItsWay
<1> QED BY <1>3, <1>4

\* Sending the first message hands over the jar, hence every broadcast stored.
LEMMA FirstMessageDelivers ==
  ASSUME TypeInv, JarInv, NEW s \in Stream, WatchSnapshot(s), ~gone[s],
         NEW b \in Broadcast, bpc[b] = "done"
  PROVE  OnItsWay(s, b)'
<1>1. order' = order /\ Range(Snapshot.cookies) \ {NoCookie} \subseteq seen'[s]
  BY DEF WatchSnapshot, FirstMessage, Send, jarVars, TypeInv, TypeOK
<1>2. CoversIn(order, Snapshot.cookies, b)
  BY DEF JarInv, Snapshot
<1>3. ReceivedIn(order, seen'[s], b)
  BY <1>1, <1>2, SnapshotSound, SnapshotIsMessage, SentIsReceived DEF TypeInv, TypeOK, JarTypeOK
<1> QED BY <1>1, <1>3 DEF OnItsWay

\* Forwarding hands over the head of the channel and keeps the rest.
LEMMA ForwardDelivers ==
  ASSUME TypeInv, MessageInv, NEW s \in Stream, WatchForward(s), ~gone[s],
         NEW b \in Broadcast, OnItsWay(s, b)
  PROVE  OnItsWay(s, b)'
<1>1. order' = order /\ ch'[s] = Tail(ch[s]) /\ order \in Seq(Broadcast) /\ ch[s] \in Seq(Message) /\ ch[s] # <<>>
  BY DEF WatchForward, jarVars, TypeInv, TypeOK, JarTypeOK
<1>2. seen'[s] = seen[s] \cup (Range(Head(ch[s]).cookies) \ {NoCookie})
  BY DEF WatchForward, Send, TypeInv, TypeOK
<1>3. 1 \in DOMAIN ch[s] /\ Head(ch[s]) = ch[s][1]
  BY <1>1, HeadTailProperties
<1>4. CASE ReceivedIn(order, seen[s], b)
  <2>1. Extends(order, order)
    BY DEF Extends
  <2>2. ReceivedIn(order, seen'[s], b)
    BY <1>1, <1>2, <1>4, <2>1, ReceivedGrows
  <2> QED BY <1>1, <2>2 DEF OnItsWay
<1>5. ASSUME NEW i \in DOMAIN ch[s], CoversIn(order, ch[s][i].cookies, b)
      PROVE  OnItsWay(s, b)'
  <2>1. CASE i = 1
    <3>1. Sound(order, resp, version, ch[s][1]) /\ ch[s][1] \in Message
      BY <1>1, <1>3 DEF MessageInv
    <3>2. ReceivedIn(order, seen'[s], b)
      BY <1>1, <1>2, <1>3, <1>5, <2>1, <3>1, SentIsReceived
    <3> QED BY <1>1, <3>2 DEF OnItsWay
  <2>2. CASE i # 1
    <3>1. i - 1 \in DOMAIN Tail(ch[s]) /\ Tail(ch[s])[i - 1] = ch[s][i]
      BY <1>1, <1>5, <2>2
    <3> QED BY <1>1, <1>5, <3>1 DEF OnItsWay
  <2> QED BY <2>1, <2>2
<1> QED BY <1>4, <1>5 DEF OnItsWay

\* A step of another stream, or one that changes no registration, leaves a subscriber as it was.
LEMMA OthersKeepDelivery ==
  ASSUME TypeInv, DeliveryInv, JarGrows, NEW s \in Stream, NEW b \in Broadcast,
         Current(s), bpc[b] = "done", UNCHANGED <<seen[s], ch[s]>>
  PROVE  OnItsWay(s, b)'
<1>1. OnItsWay(s, b)
  BY DEF DeliveryInv
<1>2. order \in Seq(Broadcast) /\ order' \in Seq(Broadcast) /\ Extends(order, order')
  BY DEF JarGrows, TypeInv, TypeOK, JarTypeOK
<1>3. CASE ReceivedIn(order, seen[s], b)
  BY <1>2, <1>3, ReceivedGrows DEF OnItsWay
<1>4. CASE \E i \in DOMAIN ch[s] : CoversIn(order, ch[s][i].cookies, b)
  BY <1>2, <1>4, CoversGrows DEF OnItsWay
<1> QED BY <1>1, <1>3, <1>4 DEF OnItsWay

LEMMA DeliveryKept ==
  ASSUME TypeInv, JarInv, MessageInv, DeliveryInv, [Next]_vars
  PROVE  DeliveryInv'
<1> SUFFICES ASSUME NEW s \in Stream, NEW b \in Broadcast, Current(s)', bpc'[b] = "done"
             PROVE  OnItsWay(s, b)'
  BY DEF DeliveryInv
<1>0. JarGrows
  BY JarOnlyGrows
<1>1. ASSUME NEW c \in Broadcast, BroadcastStep(c) PROVE OnItsWay(s, b)'
  <2>1. CASE BroadcastFanOut(c)
    BY <2>1, FanOutDelivers
  <2>2. CASE BroadcastStore(c) \/ BroadcastBump(c) \/ BroadcastSnapshot(c)
    <3>1. Current(s) /\ bpc[b] = "done" /\ UNCHANGED <<seen[s], ch[s]>>
      BY <2>2 DEF BroadcastStore, BroadcastBump, BroadcastSnapshot, BroadcastGoto, streamVars,
                  Current, Reached, TypeInv, TypeOK
    <3> QED BY <1>0, <3>1, OthersKeepDelivery
  <2> QED BY <1>1, <2>1, <2>2 DEF BroadcastStep
<1>2. ASSUME NEW t \in Stream, WatchRegister(t) \/ StreamStep(t) \/ Disconnect(t)
      PROVE  OnItsWay(s, b)'
  <2>0. bpc[b] = "done" /\ s \in Reached
    <3>1. bpc[b] = "done" /\ subs'[pcID[s]] = s /\ spc'[s] = "forward"
      BY <1>2 DEF WatchRegister, StreamStep, WatchSnapshot, WatchForward, WatchDone, WatchLeave,
                  Disconnect, Current, Reached
    <3>2. CASE WatchRegister(t)
      BY <3>1, <3>2, StreamAssumption DEF WatchRegister, StreamGoto, Reached, TypeInv, TypeOK
    <3>3. CASE WatchLeave(t)
      BY <3>1, <3>3, StreamAssumption DEF WatchLeave, Without, Reached, TypeInv, TypeOK
    <3> QED BY <1>2, <3>1, <3>2, <3>3
            DEF StreamStep, WatchSnapshot, WatchForward, WatchDone, Disconnect, Reached
  <2>1. CASE t = s
    <3>1. CASE WatchSnapshot(t)
      BY <2>0, <2>1, <3>1, FirstMessageDelivers DEF WatchSnapshot, Current
    <3>2. CASE WatchForward(t)
      <4>1. Current(s) /\ ~gone[s]
        BY <2>0, <2>1, <3>2 DEF WatchForward, Current
      <4> QED BY <2>0, <2>1, <3>2, <4>1, ForwardDelivers DEF DeliveryInv
    <3>3. CASE WatchRegister(t) \/ WatchDone(t) \/ WatchLeave(t) \/ Disconnect(t)
      BY <2>1, <3>3 DEF WatchRegister, WatchDone, WatchLeave, Disconnect, StreamGoto, Current, TypeInv, TypeOK
    <3> QED BY <1>2, <3>1, <3>2, <3>3 DEF StreamStep
  <2>2. CASE t # s
    <3>1. /\ spc'[s] = spc[s] /\ gone'[s] = gone[s] /\ dropped'[s] = dropped[s]
          /\ seen'[s] = seen[s] /\ ch'[s] = ch[s]
      BY <1>2, <2>2 DEF WatchRegister, StreamStep, WatchSnapshot, WatchForward, WatchDone, WatchLeave,
                        Disconnect, StreamGoto, Send, TypeInv, TypeOK
    <3>2. Current(s)
      BY <2>0, <3>1 DEF Current
    <3> QED BY <1>0, <2>0, <3>1, <3>2, OthersKeepDelivery
  <2> QED BY <2>1, <2>2
<1>3. CASE ServerStop \/ ServerReturn \/ UNCHANGED vars
  <2>1. Current(s) /\ bpc[b] = "done" /\ UNCHANGED <<seen[s], ch[s]>>
    BY <1>3 DEF ServerStop, ServerReturn, vars, streamVars, Current, Reached
  <2> QED BY <1>0, <2>1, OthersKeepDelivery
<1> QED BY <1>1, <1>2, <1>3 DEF Next

\* A registered subscriber that has lost no update and worked off its channel has every cookie
\* of every finished broadcast, or a later one of its name, however registrations, first
\* snapshots and fan-outs interleave (WatchCookies, BroadcastCookie).
THEOREM NothingMissed == Spec => []SubscriberMissesNothing
<1>1. Init => DeliveryInv
  BY DEF Init, DeliveryInv
<1>2. DeliveryInv => SubscriberMissesNothing
  <2> SUFFICES ASSUME DeliveryInv, NEW s \in Reached, NEW b \in Broadcast,
                      spc[s] = "forward", ch[s] = <<>>, ~dropped[s], ~gone[s], bpc[b] = "done"
               PROVE  ReceivedIn(order, seen[s], b)
    BY DEF SubscriberMissesNothing, ReceivedIn
  <2>1. s \in Stream /\ OnItsWay(s, b)
    BY DEF DeliveryInv, Current, Reached
  <2>2. DOMAIN ch[s] = {}
    OBVIOUS
  <2> QED BY <2>1, <2>2 DEF OnItsWay
<1> QED BY <1>1, <1>2, DeliveryKept, TypeKept, MessagesAreSound, PTL DEF Spec
=============================================================================
