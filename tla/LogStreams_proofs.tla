-------------------------- MODULE LogStreams_proofs --------------------------
(***************************************************************************)
(* Proofs about LogStreams, for any loggers, streams, ring size and        *)
(* channel capacity: the shape of the state, the order in which a client   *)
(* gets the entries, and which of them it may lose.                        *)
(***************************************************************************)
EXTENDS LogStreams, SequenceTheorems, TLAPS

\* How many entries the ring holds.
Kept == IF Len(author) < MaxLogs THEN Len(author) ELSE MaxLogs

-----------------------------------------------------------------------------
(* The shape of the state                                                  *)

LEMMA TypeOKFacts ==
  ASSUME TypeOK
  PROVE  /\ author \in Seq(Logger) /\ Len(author) \in Nat
         /\ adding \in [Logger -> Entry \cup {0}]
         /\ pc \in [Stream -> {"new", "copied", "sent", "live", "leaving"}]
         /\ history \in [Stream -> Seq(Entry)] /\ ch \in [Stream -> Seq(Entry)]
         /\ sent \in [Stream -> Seq(Entry)] /\ missed \in [Stream -> SUBSET Entry]
BY DEF TypeOK

\* The ring is a sequence of entries, the newest one last.
LEMMA RingShape ==
  ASSUME TypeOK
  PROVE  /\ Kept \in Nat /\ Kept <= MaxLogs /\ Kept <= Len(author)
         /\ logs = [i \in 1 .. Kept |-> Len(author) - Kept + i]
         /\ logs \in Seq(Entry) /\ Len(logs) = Kept
         /\ \A i \in 1 .. Kept : logs[i] = Len(author) - Kept + i
<1>1. Len(author) \in Nat /\ MaxLogs \in Nat
  BY LogStreamsAssumption DEF TypeOK
<1>2. Kept \in Nat /\ Kept <= MaxLogs /\ Kept <= Len(author)
  BY <1>1 DEF Kept
<1>3. logs = [i \in 1 .. Kept |-> Len(author) - Kept + i]
  BY DEF TypeOK, Kept
<1>4. \A i \in 1 .. Kept : Len(author) - Kept + i \in Entry
  BY <1>1, <1>2 DEF Entry
<1>5. logs \in Seq(Entry) /\ Len(logs) = Kept
  <2> HIDE DEF Kept, Entry
  <2> QED BY <1>2, <1>3, <1>4
<1> QED BY <1>2, <1>3, <1>5

\* Appending one entry shifts a full ring by one.
LEMMA AppendShiftsRing ==
  ASSUME TypeOK, NEW p \in Logger, AddLogAppend(p)
  PROVE  logs' = [i \in 1 .. Kept' |-> Len(author)' - Kept' + i]
<1>1. Len(author) \in Nat /\ MaxLogs \in Nat \ {0} /\ Len(author') = Len(author) + 1
  BY LogStreamsAssumption DEF TypeOK, AddLogAppend
<1> DEFINE e == Len(author) + 1
           all == Append(logs, e)
<1>2. all \in Seq(Nat) /\ Len(all) = Kept + 1 /\ \A i \in 1 .. Kept + 1 : all[i] = Len(author) - Kept + i
  <2>1. logs \in Seq(Nat) /\ Len(logs) = Kept /\ Kept \in Nat
        /\ \A i \in 1 .. Kept : logs[i] = Len(author) - Kept + i
    <3>1. Entry \subseteq Nat
      BY DEF Entry
    <3> QED BY <3>1, RingShape, SeqMonotonic
  <2>2. e = Len(author) - Kept + (Kept + 1)
    BY <1>1, <2>1
  <2> HIDE DEF Kept
  <2> QED BY <1>1, <2>1, <2>2
<1>3. logs' = IF Len(all) > MaxLogs THEN SubSeq(all, Len(all) - MaxLogs + 1, Len(all)) ELSE all
  BY DEF AddLogAppend, Newest
<1> HIDE DEF all, e
<1>4. CASE Len(author) < MaxLogs
  <2>1. Kept = Len(author) /\ Kept' = Len(author) + 1
    BY <1>1, <1>4 DEF Kept
  <2>2. logs' = all /\ all = [i \in 1 .. Kept + 1 |-> all[i]]
    BY <1>1, <1>2, <1>3, <1>4, <2>1
  <2>3. \A i \in 1 .. Kept' : all[i] = Len(author)' - Kept' + i
    BY <1>1, <1>2, <2>1
  <2> HIDE DEF Kept
  <2> QED BY <1>1, <2>1, <2>2, <2>3
<1>5. CASE Len(author) >= MaxLogs
  <2>1. Kept = MaxLogs /\ Kept' = MaxLogs
    BY <1>1, <1>5 DEF Kept
  <2>2. logs' = SubSeq(all, 2, MaxLogs + 1)
    BY <1>1, <1>2, <1>3, <2>1
  <2>3. \A i \in 2 .. MaxLogs + 1 : all[i] \in Nat
    BY <1>1, <1>2, <2>1
  <2>4. logs' \in Seq(Nat) /\ Len(logs') = MaxLogs /\ \A i \in 1 .. MaxLogs : logs'[i] = all[i + 1]
    BY <1>1, <2>2, <2>3, SubSeqProperties
  <2>5. \A i \in 1 .. MaxLogs : all[i + 1] = Len(author)' - Kept' + i
    BY <1>1, <1>2, <2>1
  <2>6. logs' = [i \in 1 .. MaxLogs |-> logs'[i]]
    BY <2>4
  <2> HIDE DEF Kept
  <2> QED BY <2>1, <2>4, <2>5, <2>6
<1> QED BY <1>1, <1>4, <1>5

LEMMA AppendKeepsTypes ==
  ASSUME TypeOK, NEW p \in Logger, AddLogAppend(p)
  PROVE  TypeOK'
<1>1. author' \in Seq(Logger) /\ Len(author') = Len(author) + 1 /\ Len(author) \in Nat
      /\ Len(author') <= MaxEntries
  BY LogStreamsAssumption DEF TypeOK, AddLogAppend
<1>2. Entry \subseteq Entry' /\ Len(author) + 1 \in Entry'
  BY <1>1 DEF Entry
<1>3. UNCHANGED <<logSubs, ch, pc, history, sent, missed>>
  BY DEF AddLogAppend
<1>4. adding' \in [Logger -> Entry' \cup {0}]
  BY <1>2, TypeOKFacts DEF AddLogAppend
<1>5. /\ history' \in [Stream -> Seq(Entry')] /\ ch' \in [Stream -> Seq(Entry')]
      /\ sent' \in [Stream -> Seq(Entry')] /\ missed' \in [Stream -> SUBSET Entry']
  <2>1. \A es \in Seq(Entry) : es \in Seq(Entry')
    BY <1>2, SeqMonotonic
  <2> HIDE DEF Entry
  <2> QED BY <1>2, <1>3, <2>1, TypeOKFacts
<1>6. logs' = [i \in 1 .. Kept' |-> Len(author)' - Kept' + i]
  BY AppendShiftsRing
<1> QED BY <1>1, <1>3, <1>4, <1>5, <1>6 DEF TypeOK, Kept

LEMMA FanOutKeepsTypes ==
  ASSUME TypeOK, NEW p \in Logger, AddLogFanOut(p)
  PROVE  TypeOK'
<1>1. UNCHANGED <<logs, logSubs, pc, history, sent, author>> /\ Entry' = Entry /\ adding[p] \in Entry
  BY TypeOKFacts DEF AddLogFanOut, Entry
<1>2. adding' \in [Logger -> Entry \cup {0}]
  BY TypeOKFacts DEF AddLogFanOut
<1>3. ASSUME NEW s \in Stream PROVE ch'[s] \in Seq(Entry) /\ Len(ch'[s]) <= ChanCap
  BY <1>1, LogStreamsAssumption, TypeOKFacts DEF AddLogFanOut, HasRoom, TypeOK
<1>4. ch' \in [Stream -> Seq(Entry)]
  BY <1>3 DEF AddLogFanOut
<1>5. missed' \in [Stream -> SUBSET Entry]
  BY <1>1, TypeOKFacts DEF AddLogFanOut
<1> QED BY <1>1, <1>2, <1>3, <1>4, <1>5 DEF TypeOK

LEMMA ReturnTypes ==
  ASSUME TypeOK, NEW s \in Stream, Return(s)
  PROVE  /\ pc' \in [Stream -> {"new", "copied", "sent", "live", "leaving"}]
         /\ {history', ch', sent'} \subseteq [Stream -> Seq(Entry)]
         /\ missed' \in [Stream -> SUBSET Entry]
         /\ \A t \in Stream : Len(history'[t]) <= MaxLogs /\ Len(ch'[t]) <= ChanCap
<1>1. <<>> \in Seq(Entry) /\ Len(<<>>) = 0 /\ {} \subseteq Entry
  OBVIOUS
<1> QED BY <1>1, LogStreamsAssumption DEF Return, Goto, TypeOK

LEMMA StreamKeepsTypes ==
  ASSUME TypeOK, NEW s \in Stream, StreamStep(s)
  PROVE  TypeOK'
<1>0. UNCHANGED <<author, logs, adding>> /\ Entry' = Entry
  BY DEF StreamStep, StreamCopy, StreamSendHistory, StreamSubscribe, StreamForward, StreamCtxDone,
         StreamLeave, Entry
<1>1. CASE StreamCopy(s)
  <2>1. history' \in [Stream -> Seq(Entry)] /\ \A t \in Stream : Len(history'[t]) <= MaxLogs
    BY <1>1, RingShape DEF StreamCopy, Copy, TypeOK
  <2> QED BY <1>0, <1>1, <2>1 DEF StreamCopy, SubsAtCopy, Goto, TypeOK
<1>2. CASE StreamSendHistory(s)
  <2>1. UNCHANGED logSubs /\ pc[s] = "copied"
    BY <1>2 DEF StreamSendHistory
  <2>2. CASE Return(s)
    <3>1. logSubs = {t \in Stream : pc'[t] \in {"live", "leaving"}}
      BY <2>1, <2>2 DEF Return, Goto, TypeOK
    <3> QED BY <1>0, <2>1, <2>2, <3>1, ReturnTypes DEF TypeOK
  <2>3. CASE sent' = [sent EXCEPT ![s] = history[s]] /\ Goto(s, "sent") /\ UNCHANGED <<ch, history, missed>>
    <3>1. logSubs = {t \in Stream : pc'[t] \in {"live", "leaving"}}
          /\ pc' \in [Stream -> {"new", "copied", "sent", "live", "leaving"}]
      BY <2>1, <2>3 DEF Goto, TypeOK
    <3>2. sent' \in [Stream -> Seq(Entry)]
      BY <2>3, TypeOKFacts
    <3> QED BY <1>0, <2>1, <2>3, <3>1, <3>2 DEF TypeOK
  <2> QED BY <1>2, <2>2, <2>3 DEF StreamSendHistory
<1>3. CASE StreamSubscribe(s) \/ StreamCtxDone(s)
  <2>1. UNCHANGED <<ch, history, sent, missed>>
    BY <1>3 DEF StreamSubscribe, StreamCtxDone
  <2>2. pc \in [Stream -> {"new", "copied", "sent", "live", "leaving"}]
        /\ logSubs = {t \in Stream : pc[t] \in {"live", "leaving"}}
    BY DEF TypeOK
  <2>3. CASE StreamSubscribe(s)
    <3>1. pc' = [pc EXCEPT ![s] = "live"] /\ logSubs' = logSubs \cup {s}
      BY <2>3 DEF StreamSubscribe, Goto
    <3>2. pc' \in [Stream -> {"new", "copied", "sent", "live", "leaving"}]
      BY <2>2, <3>1
    <3>3. logSubs' = {t \in Stream : pc'[t] \in {"live", "leaving"}}
      BY <2>2, <3>1
    <3> QED BY <1>0, <2>1, <3>2, <3>3 DEF TypeOK
  <2>4. CASE StreamCtxDone(s)
    <3>1. pc[s] = "live" /\ pc' = [pc EXCEPT ![s] = "leaving"] /\ logSubs' = logSubs
      BY <2>4 DEF StreamCtxDone, Goto
    <3>2. pc' \in [Stream -> {"new", "copied", "sent", "live", "leaving"}]
      BY <2>2, <3>1
    <3>3. logSubs' = {t \in Stream : pc'[t] \in {"live", "leaving"}}
      BY <2>2, <3>1
    <3> QED BY <1>0, <2>1, <3>2, <3>3 DEF TypeOK
  <2> QED BY <1>3, <2>3, <2>4
<1>4. CASE StreamForward(s)
  <2>1. Head(ch[s]) \in Entry /\ Tail(ch[s]) \in Seq(Entry) /\ Len(Tail(ch[s])) <= ChanCap
    BY <1>4, LogStreamsAssumption, HeadTailProperties DEF StreamForward, TypeOK
  <2>2. ch' \in [Stream -> Seq(Entry)] /\ \A t \in Stream : Len(ch'[t]) <= ChanCap
    BY <1>4, <2>1 DEF StreamForward, TypeOK
  <2>3. sent' \in [Stream -> Seq(Entry)]
    <3>1. sent \in [Stream -> Seq(Entry)] /\ Append(sent[s], Head(ch[s])) \in Seq(Entry)
      BY <2>1, TypeOKFacts
    <3> QED BY <1>4, <3>1 DEF StreamForward
  <2>4. pc' \in [Stream -> {"new", "copied", "sent", "live", "leaving"}]
        /\ logSubs = {t \in Stream : pc'[t] \in {"live", "leaving"}}
    BY <1>4 DEF StreamForward, Goto, TypeOK
  <2> QED BY <1>0, <1>4, <2>2, <2>3, <2>4 DEF StreamForward, TypeOK
<1>5. CASE StreamLeave(s)
  BY <1>0, <1>5, ReturnTypes DEF StreamLeave, Without, Return, Goto, TypeOK
<1> QED BY <1>1, <1>2, <1>3, <1>4, <1>5 DEF StreamStep

\* The ring holds the newest entries, in order, no channel is over its capacity, and the
\* subscribers are the handlers between their subscription and its deferred delete.
THEOREM LogTyping == Spec => []TypeOK
<1>1. Init => TypeOK
  <2> SUFFICES ASSUME Init PROVE TypeOK
    OBVIOUS
  <2>1. author \in Seq(Logger) /\ Len(author) = 0 /\ Len(author) <= MaxEntries
    BY LogStreamsAssumption DEF Init
  <2>2. logs = [i \in 1 .. 0 |-> Len(author) - 0 + i]
    BY DEF Init
  <2>3. logSubs = {s \in Stream : pc[s] \in {"live", "leaving"}}
    BY DEF Init
  <2>4. \A s \in Stream : <<>> \in Seq(Entry) /\ Len(<<>>) = 0
    OBVIOUS
  <2> QED BY <2>1, <2>2, <2>3, <2>4, LogStreamsAssumption DEF Init, TypeOK
<1>2. TypeOK /\ [Next]_vars => TypeOK'
  <2>1. TypeOK /\ UNCHANGED vars => TypeOK'
    BY DEF vars, TypeOK, Entry
  <2> QED BY <2>1, AppendKeepsTypes, FanOutKeepsTypes, StreamKeepsTypes DEF Next, LoggerStep
<1> QED BY <1>1, <1>2, PTL DEF Spec

-----------------------------------------------------------------------------
(* The order of what a client gets                                         *)

\* The entry a logger is adding is its newest.
AddingNewest ==
  \A p \in Logger : adding[p] # 0 =>
    author[adding[p]] = p /\ \A e \in Entry : author[e] = p => e <= adding[p]

\* What a handler has sent begins with the history it copied, the ring of that moment.
Prefix(h, es) == Len(h) <= Len(es) /\ \A i \in 1 .. Len(h) : es[i] = h[i]
HistoryInv ==
  \A s \in Stream :
    /\ \A i, j \in 1 .. Len(history[s]) : i < j => history[s][i] < history[s][j]
    /\ pc[s] \in {"new", "copied", "sent"} => ch[s] = <<>>
    /\ pc[s] \in {"new", "copied"} => sent[s] = <<>>
    /\ pc[s] = "sent" => sent[s] = history[s]
    /\ pc[s] \in {"live", "leaving"} => Prefix(history[s], sent[s])

\* In the channel too the entries of one logger are in the order of its calls, after those
\* already sent, but for the seam; and what came through the channel is not being added.
After(a, x, y, seam) == a[x] = a[y] => x < y \/ (x = y /\ seam)
Ordered(h, es, cs, add, a) ==
  /\ \A i, j \in 1 .. Len(es) : i < j => After(a, es[i], es[j], i <= Len(h) /\ Len(h) < j)
  /\ \A i \in 1 .. Len(es), j \in 1 .. Len(cs) : After(a, es[i], cs[j], i <= Len(h))
  /\ \A i, j \in 1 .. Len(cs) : i < j => After(a, cs[i], cs[j], FALSE)
  /\ \A i \in 1 .. Len(cs) : add[a[cs[i]]] # cs[i]
  /\ \A i \in 1 .. Len(es) : i > Len(h) => add[a[es[i]]] # es[i]
OrderInv == \A s \in Stream : Ordered(history[s], sent[s], ch[s], adding, author)

LEMMA NewestKept ==
  ASSUME TypeOK, AddingNewest, [Next]_vars
  PROVE  AddingNewest'
<1>1. ASSUME NEW p \in Logger, AddLogAppend(p) PROVE AddingNewest'
  <2>1. /\ author' = Append(author, p) /\ author \in Seq(Logger) /\ Len(author) \in Nat
        /\ adding' = [adding EXCEPT ![p] = Len(author) + 1] /\ adding \in [Logger -> Entry \cup {0}]
    BY <1>1, TypeOKFacts DEF AddLogAppend
  <2>2. Len(author') = Len(author) + 1 /\ author'[Len(author) + 1] = p
        /\ \A e \in Entry : author'[e] = author[e]
    BY <2>1 DEF Entry
  <2>3. Entry' = Entry \cup {Len(author) + 1} /\ \A e \in Entry : e < Len(author) + 1 /\ e # 0
    BY <2>1, <2>2 DEF Entry
  <2> SUFFICES ASSUME NEW q \in Logger, adding'[q] # 0
               PROVE  author'[adding'[q]] = q /\ \A e \in Entry' : author'[e] = q => e <= adding'[q]
    BY DEF AddingNewest
  <2>4. CASE q = p
    <3>1. adding'[q] = Len(author) + 1
      BY <2>1, <2>4
    <3>2. \A e \in Entry' : e <= Len(author) + 1
      BY <2>1, <2>3 DEF Entry
    <3> QED BY <2>2, <2>4, <3>1, <3>2
  <2>5. CASE q # p
    <3>1. adding'[q] = adding[q] /\ adding[q] \in Entry
      BY <2>1, <2>5
    <3>2. author'[adding[q]] = q /\ \A e \in Entry : author'[e] = q => e <= adding[q]
      BY <2>2, <3>1 DEF AddingNewest
    <3> QED BY <2>2, <2>3, <2>5, <3>1, <3>2
  <2> QED BY <2>4, <2>5
<1>2. ASSUME NEW p \in Logger, AddLogFanOut(p) PROVE AddingNewest'
  BY <1>2, TypeOKFacts DEF AddLogFanOut, AddingNewest, Entry
<1>3. CASE UNCHANGED <<author, adding>>
  BY <1>3 DEF AddingNewest, Entry
<1> QED
  BY <1>1, <1>2, <1>3
     DEF Next, vars, LoggerStep, StreamStep, StreamCopy, StreamSendHistory, StreamSubscribe,
         StreamForward, StreamCtxDone, StreamLeave

LEMMA PrefixAppend ==
  ASSUME NEW S, NEW h \in Seq(S), NEW es \in Seq(S), NEW e \in S, Prefix(h, es)
  PROVE  Prefix(h, Append(es, e))
<1>1. Len(Append(es, e)) = Len(es) + 1 /\ Len(es) \in Nat /\ Len(h) \in Nat
      /\ \A i \in 1 .. Len(es) : Append(es, e)[i] = es[i]
  OBVIOUS
<1>2. Len(h) <= Len(es) /\ \A i \in 1 .. Len(h) : es[i] = h[i]
  BY DEF Prefix
<1>3. 1 .. Len(h) \subseteq 1 .. Len(es) /\ Len(h) <= Len(es) + 1
  BY <1>1, <1>2
<1> QED BY <1>1, <1>2, <1>3 DEF Prefix

LEMMA HistoryKept ==
  ASSUME TypeOK, HistoryInv, [Next]_vars
  PROVE  HistoryInv'
<1>1. CASE UNCHANGED <<pc, history, ch, sent>>
  BY <1>1 DEF HistoryInv
<1>2. ASSUME NEW p \in Logger, AddLogFanOut(p) PROVE HistoryInv'
  <2>1. UNCHANGED <<pc, history, sent>>
    BY <1>2 DEF AddLogFanOut
  <2>2. ASSUME NEW s \in Stream, pc[s] \in {"new", "copied", "sent"} PROVE ch'[s] = ch[s]
    BY <1>2, <2>2 DEF AddLogFanOut, TypeOK
  <2> QED BY <2>1, <2>2 DEF HistoryInv
<1>3. ASSUME NEW s \in Stream, StreamStep(s) PROVE HistoryInv'
  <2> SUFFICES ASSUME NEW t \in Stream
               PROVE  /\ \A i, j \in 1 .. Len(history'[t]) : i < j => history'[t][i] < history'[t][j]
                      /\ pc'[t] \in {"new", "copied", "sent"} => ch'[t] = <<>>
                      /\ pc'[t] \in {"new", "copied"} => sent'[t] = <<>>
                      /\ pc'[t] = "sent" => sent'[t] = history'[t]
                      /\ pc'[t] \in {"live", "leaving"} => Prefix(history'[t], sent'[t])
    BY DEF HistoryInv
  <2>1. CASE t # s
    <3>1. UNCHANGED <<pc[t], history[t], ch[t], sent[t]>>
      BY <1>3, <2>1 DEF StreamStep, StreamCopy, StreamSendHistory, StreamSubscribe, StreamForward,
                        StreamCtxDone, StreamLeave, Return, Goto, TypeOK
    <3> QED BY <3>1 DEF HistoryInv
  <2>2. CASE t = s
    <3>1. CASE Return(s)
      BY <2>2, <3>1, TypeOKFacts DEF Return, Goto
    <3>2. CASE StreamCopy(s)
      <4>1. history'[s] = logs /\ pc'[s] = "copied" /\ ch'[s] = <<>> /\ sent'[s] = <<>>
        BY <3>2 DEF StreamCopy, Copy, Goto, HistoryInv, TypeOK
      <4>2. \A i, j \in 1 .. Len(logs) : i < j => logs[i] < logs[j]
        BY RingShape, TypeOKFacts
      <4> QED BY <2>2, <4>1, <4>2
    <3>3. CASE StreamSendHistory(s) /\ ~Return(s)
      BY <2>2, <3>3, TypeOKFacts DEF StreamSendHistory, Goto, HistoryInv
    <3>4. CASE StreamSubscribe(s)
      <4>1. Prefix(history[s], history[s])
        BY TypeOKFacts DEF Prefix
      <4> QED BY <2>2, <3>4, <4>1, TypeOKFacts DEF StreamSubscribe, Goto, HistoryInv
    <3>5. CASE StreamForward(s)
      <4>1. Head(ch[s]) \in Entry /\ sent[s] \in Seq(Entry) /\ history[s] \in Seq(Entry)
        BY <3>5, TypeOKFacts, HeadTailProperties DEF StreamForward
      <4>2. pc'[s] \in {"live", "leaving"} /\ history'[s] = history[s]
            /\ (sent'[s] = sent[s] \/ sent'[s] = Append(sent[s], Head(ch[s])))
        BY <3>5, TypeOKFacts DEF StreamForward, Goto
      <4>3. Prefix(history[s], sent[s])
        BY <3>5 DEF StreamForward, HistoryInv
      <4>4. Prefix(history[s], Append(sent[s], Head(ch[s])))
        BY <4>1, <4>3, PrefixAppend
      <4>5. Prefix(history[s], sent'[s])
        BY <4>2, <4>3, <4>4
      <4> QED BY <2>2, <4>2, <4>5 DEF HistoryInv
    <3>6. CASE StreamCtxDone(s)
      BY <2>2, <3>6, TypeOKFacts DEF StreamCtxDone, Goto, HistoryInv
    <3> QED BY <1>3, <3>1, <3>2, <3>3, <3>4, <3>5, <3>6 DEF StreamStep, StreamLeave
  <2> QED BY <2>1, <2>2
<1> QED
  BY <1>1, <1>2, <1>3 DEF Next, vars, LoggerStep, AddLogAppend

\* What is ordered stays so while the authors of its entries do, and none is being added anew.
LEMMA OrderedKept ==
  ASSUME NEW E, NEW h \in Seq(E), NEW es \in Seq(E), NEW cs \in Seq(E),
         NEW add, NEW add2, NEW a, NEW a2, Ordered(h, es, cs, add, a),
         \A x \in E : a2[x] = a[x], \A x \in E : add[a[x]] # x => add2[a[x]] # x
  PROVE  Ordered(h, es, cs, add2, a2)
<1>1. (\A i \in 1 .. Len(es) : es[i] \in E) /\ (\A i \in 1 .. Len(cs) : cs[i] \in E)
  OBVIOUS
<1>2. \A x, y \in E : \A seam : After(a, x, y, seam) => After(a2, x, y, seam)
  BY DEF After
<1>3. \A x \in E : add[a[x]] # x => add2[a2[x]] # x
  OBVIOUS
<1>4. \A i, j \in 1 .. Len(es) : i < j => After(a2, es[i], es[j], i <= Len(h) /\ Len(h) < j)
  BY <1>1, <1>2 DEF Ordered
<1>5. \A i \in 1 .. Len(es), j \in 1 .. Len(cs) : After(a2, es[i], cs[j], i <= Len(h))
  BY <1>1, <1>2 DEF Ordered
<1>6. \A i, j \in 1 .. Len(cs) : i < j => After(a2, cs[i], cs[j], FALSE)
  BY <1>1, <1>2 DEF Ordered
<1>7. /\ \A i \in 1 .. Len(cs) : add2[a2[cs[i]]] # cs[i]
      /\ \A i \in 1 .. Len(es) : i > Len(h) => add2[a2[es[i]]] # es[i]
  BY <1>1, <1>3 DEF Ordered
<1> QED BY <1>4, <1>5, <1>6, <1>7 DEF Ordered

\* An entry goes into the channel as its author's newest, which it was adding until now.
LEMMA OrderedReceived ==
  ASSUME NEW E, NEW h \in Seq(E), NEW es \in Seq(E), NEW cs \in Seq(E), NEW e \in E,
         NEW add, NEW add2, NEW a, Ordered(h, es, cs, add, a),
         add[a[e]] = e, add2[a[e]] # e, \A x \in E : add[a[x]] # x => add2[a[x]] # x,
         \A x \in E : a[x] = a[e] => x < e \/ x = e
  PROVE  Ordered(h, es, Append(cs, e), add2, a)
<1> DEFINE ds == Append(cs, e)
<1>1. /\ Len(ds) = Len(cs) + 1 /\ Len(cs) \in Nat /\ Len(es) \in Nat /\ Len(h) \in Nat
      /\ ds[Len(cs) + 1] = e /\ \A i \in 1 .. Len(cs) : ds[i] = cs[i]
  OBVIOUS
<1>2. (\A i \in 1 .. Len(es) : es[i] \in E) /\ (\A i \in 1 .. Len(cs) : cs[i] \in E)
  OBVIOUS
<1> HIDE DEF ds
<1>3. \A j \in 1 .. Len(ds) : j \in 1 .. Len(cs) \/ j = Len(cs) + 1
  BY <1>1
<1>4. Ordered(h, es, cs, add2, a)
  BY OrderedKept
<1>5. ASSUME NEW i \in 1 .. Len(es) PROVE After(a, es[i], e, i <= Len(h))
  <2>1. es[i] \in E /\ (i <= Len(h) \/ i > Len(h))
    BY <1>1, <1>2
  <2>2. i > Len(h) => es[i] # e
    BY DEF Ordered
  <2> QED BY <2>1, <2>2 DEF After
<1>6. ASSUME NEW i \in 1 .. Len(cs) PROVE After(a, cs[i], e, FALSE)
  <2>1. cs[i] # e
    BY DEF Ordered
  <2> QED BY <1>2, <2>1 DEF After
<1>7. \A i \in 1 .. Len(es), j \in 1 .. Len(ds) : After(a, es[i], ds[j], i <= Len(h))
  BY <1>1, <1>3, <1>4, <1>5 DEF Ordered
<1>8. ASSUME NEW i \in 1 .. Len(ds), NEW j \in 1 .. Len(ds), i < j
      PROVE  After(a, ds[i], ds[j], FALSE)
  <2>1. i \in 1 .. Len(cs)
    BY <1>1, <1>3, <1>8
  <2>2. CASE j \in 1 .. Len(cs)
    <3>1. After(a, cs[i], cs[j], FALSE)
      BY <1>4, <1>8, <2>1, <2>2 DEF Ordered
    <3> QED BY <1>1, <2>1, <2>2, <3>1
  <2>3. CASE j = Len(cs) + 1
    BY <1>1, <1>6, <2>1, <2>3
  <2> QED BY <1>3, <2>2, <2>3
<1>9. \A j \in 1 .. Len(ds) : add2[a[ds[j]]] # ds[j]
  BY <1>1, <1>3, <1>4 DEF Ordered
<1> QED BY <1>4, <1>7, <1>8, <1>9 DEF Ordered, ds

\* What is received leaves the channel's head, and may then be sent.
LEMMA OrderedForwarded ==
  ASSUME NEW E, NEW h \in Seq(E), NEW es \in Seq(E), NEW cs \in Seq(E), NEW add, NEW a,
         Ordered(h, es, cs, add, a), Len(h) <= Len(es), cs # <<>>
  PROVE  Ordered(h, es, Tail(cs), add, a) /\ Ordered(h, Append(es, Head(cs)), Tail(cs), add, a)
<1> DEFINE ts == Tail(cs)
           fs == Append(es, Head(cs))
           n == Len(es)
<1>1. /\ Len(cs) \in Nat \ {0} /\ Len(ts) = Len(cs) - 1 /\ Head(cs) = cs[1] /\ 1 \in 1 .. Len(cs)
      /\ \A j \in 1 .. Len(ts) : ts[j] = cs[j + 1] /\ j + 1 \in 1 .. Len(cs) /\ 1 < j + 1
  BY HeadTailProperties
<1>2. /\ Len(fs) = n + 1 /\ n \in Nat /\ Len(h) \in Nat /\ fs[n + 1] = Head(cs)
      /\ \A i \in 1 .. n : fs[i] = es[i]
  OBVIOUS
<1> HIDE DEF ts, fs
<1>3. \A i \in 1 .. Len(fs) : i \in 1 .. n \/ i = n + 1
  BY <1>2
<1>4. ASSUME NEW i \in 1 .. Len(ts), NEW j \in 1 .. Len(ts), i < j
      PROVE  After(a, ts[i], ts[j], FALSE)
  <2>1. i + 1 \in 1 .. Len(cs) /\ j + 1 \in 1 .. Len(cs) /\ i + 1 < j + 1
    BY <1>1, <1>4
  <2>2. After(a, cs[i + 1], cs[j + 1], FALSE)
    BY <2>1 DEF Ordered
  <2> QED BY <1>1, <2>2
<1>5. \A j \in 1 .. Len(ts) : add[a[ts[j]]] # ts[j]
  BY <1>1 DEF Ordered
<1>6. \A i \in 1 .. n, j \in 1 .. Len(ts) : After(a, es[i], ts[j], i <= Len(h))
  BY <1>1 DEF Ordered
<1>7. Ordered(h, es, ts, add, a)
  BY <1>4, <1>5, <1>6 DEF Ordered
<1>8. ASSUME NEW i \in 1 .. Len(fs), NEW j \in 1 .. Len(fs), i < j
      PROVE  After(a, fs[i], fs[j], i <= Len(h) /\ Len(h) < j)
  <2>1. i \in 1 .. n
    BY <1>2, <1>3, <1>8
  <2>2. CASE j \in 1 .. n
    <3>1. After(a, es[i], es[j], i <= Len(h) /\ Len(h) < j)
      BY <1>8, <2>1, <2>2 DEF Ordered
    <3> QED BY <1>2, <2>1, <2>2, <3>1
  <2>3. CASE j = n + 1
    <3>1. After(a, es[i], cs[1], i <= Len(h))
      BY <1>1, <2>1 DEF Ordered
    <3>2. Len(h) < j
      BY <1>2, <2>3
    <3> QED BY <1>1, <1>2, <2>1, <2>3, <3>1, <3>2 DEF After
  <2> QED BY <1>3, <2>2, <2>3
<1>9. ASSUME NEW i \in 1 .. Len(fs), NEW j \in 1 .. Len(ts)
      PROVE  After(a, fs[i], ts[j], i <= Len(h))
  <2>1. CASE i \in 1 .. n
    BY <1>2, <1>6, <2>1
  <2>2. CASE i = n + 1
    <3>1. After(a, cs[1], cs[j + 1], FALSE)
      BY <1>1 DEF Ordered
    <3> QED BY <1>1, <1>2, <2>2, <3>1 DEF After
  <2> QED BY <1>3, <2>1, <2>2
<1>10. \A i \in 1 .. Len(fs) : i > Len(h) => add[a[fs[i]]] # fs[i]
  BY <1>1, <1>2, <1>3 DEF Ordered
<1>11. Ordered(h, fs, ts, add, a)
  BY <1>4, <1>5, <1>8, <1>9, <1>10 DEF Ordered
<1> QED BY <1>7, <1>11 DEF ts, fs

LEMMA HandlerTypes ==
  ASSUME TypeOK, NEW s \in Stream
  PROVE  history[s] \in Seq(Entry) /\ sent[s] \in Seq(Entry) /\ ch[s] \in Seq(Entry)
BY TypeOKFacts

\* A new entry changes nothing for those there are.
LEMMA AppendKeepsOrder ==
  ASSUME TypeOK, OrderInv, NEW p \in Logger, AddLogAppend(p)
  PROVE  OrderInv'
<1>1. UNCHANGED <<sent, ch, history>>
  BY DEF AddLogAppend
<1>2. \A e \in Entry : adding[author[e]] # e => adding'[author[e]] # e
  <2>1. Len(author) \in Nat /\ adding' = [adding EXCEPT ![p] = Len(author) + 1]
        /\ adding \in [Logger -> Entry \cup {0}]
    BY TypeOKFacts DEF AddLogAppend
  <2> QED BY <2>1 DEF Entry
<1>3. \A e \in Entry : author'[e] = author[e]
  BY TypeOKFacts DEF AddLogAppend, Entry
<1> HIDE DEF Entry
<1>4. ASSUME NEW s \in Stream PROVE Ordered(history[s], sent[s], ch[s], adding', author')
  <2>1. Ordered(history[s], sent[s], ch[s], adding, author)
    BY DEF OrderInv
  <2> QED BY <1>2, <1>3, <2>1, HandlerTypes, OrderedKept
<1> QED BY <1>1, <1>4 DEF OrderInv

\* An entry fanned out comes after those of its logger, sent or in the channel.
LEMMA FanOutKeepsOrder ==
  ASSUME TypeOK, AddingNewest, OrderInv, NEW p \in Logger, AddLogFanOut(p)
  PROVE  OrderInv'
<1> DEFINE e == adding[p]
<1>1. UNCHANGED <<sent, history, author>> /\ adding' = [adding EXCEPT ![p] = 0]
      /\ \A s \in Stream : ch'[s] = ch[s] \/ ch'[s] = Append(ch[s], e)
  BY DEF AddLogFanOut
<1>2. e \in Entry /\ author[e] = p /\ \A x \in Entry : author[x] = p => x <= e
  BY TypeOKFacts DEF AddLogFanOut, AddingNewest
<1>3. adding'[author[e]] # e /\ \A x \in Entry : adding[author[x]] # x => adding'[author[x]] # x
  <2>1. \A x \in Entry : x # 0
    BY TypeOKFacts DEF Entry
  <2> HIDE DEF Entry
  <2> QED BY <1>1, <1>2, <2>1, TypeOKFacts
<1>4. \A x \in Entry : author[x] = author[e] => x < e \/ x = e
  BY <1>2 DEF Entry
<1>5. adding[author[e]] = e
  BY <1>2
<1> HIDE DEF e, Entry
<1>6. ASSUME NEW s \in Stream PROVE Ordered(history[s], sent[s], ch'[s], adding', author)
  <2>1. Ordered(history[s], sent[s], ch[s], adding, author)
    BY DEF OrderInv
  <2>2. Ordered(history[s], sent[s], ch[s], adding', author)
    BY <1>3, <2>1, HandlerTypes, OrderedKept
  <2>3. Ordered(history[s], sent[s], Append(ch[s], e), adding', author)
    BY <1>2, <1>3, <1>4, <1>5, <2>1, HandlerTypes, OrderedReceived
  <2> QED BY <1>1, <2>2, <2>3
<1> QED BY <1>1, <1>6 DEF OrderInv

LEMMA StreamKeepsOrder ==
  ASSUME TypeOK, HistoryInv, OrderInv, NEW s \in Stream, StreamStep(s)
  PROVE  OrderInv'
<1>0. UNCHANGED <<author, adding>>
  BY DEF StreamStep, StreamCopy, StreamSendHistory, StreamSubscribe, StreamForward, StreamCtxDone,
         StreamLeave
<1> SUFFICES ASSUME NEW t \in Stream
             PROVE  Ordered(history'[t], sent'[t], ch'[t], adding, author)
  BY <1>0 DEF OrderInv
<1> USE DEF OrderInv
<1>1. CASE UNCHANGED <<sent[t], history[t], ch[t]>>
  BY <1>1
<1>2. CASE sent'[t] = <<>> /\ ch'[t] = <<>>
  BY <1>2 DEF Ordered
<1>3. CASE sent'[t] = history[t] /\ history'[t] = history[t] /\ ch'[t] = <<>>
  <2>1. history[t] \in Seq(Entry) /\ \A i, j \in 1 .. Len(history[t]) : i < j => history[t][i] < history[t][j]
    BY TypeOKFacts DEF HistoryInv
  <2> QED BY <1>3, <2>1 DEF After, Ordered
<1>4. CASE t = s /\ StreamForward(s)
  <2>1. /\ history' = history /\ ch[t] # <<>> /\ ch'[t] = Tail(ch[t])
        /\ sent'[t] = sent[t] \/ sent'[t] = Append(sent[t], Head(ch[t]))
    BY <1>4, TypeOKFacts DEF StreamForward
  <2>2. Len(history[t]) <= Len(sent[t])
    BY <1>4 DEF StreamForward, HistoryInv, Prefix
  <2>3. /\ Ordered(history[t], sent[t], Tail(ch[t]), adding, author)
        /\ Ordered(history[t], Append(sent[t], Head(ch[t])), Tail(ch[t]), adding, author)
    BY <2>1, <2>2, HandlerTypes, OrderedForwarded
  <2> QED BY <2>1, <2>3
<1>5. t # s => UNCHANGED <<sent[t], history[t], ch[t]>>
  BY TypeOKFacts DEF StreamStep, StreamCopy, StreamSendHistory, StreamSubscribe, StreamForward,
     StreamCtxDone, StreamLeave, Return
<1>6. t = s /\ ~StreamForward(s) =>
        \/ UNCHANGED <<sent[t], history[t], ch[t]>>
        \/ sent'[t] = <<>> /\ ch'[t] = <<>>
        \/ sent'[t] = history[t] /\ history'[t] = history[t] /\ ch'[t] = <<>>
  BY TypeOKFacts DEF StreamStep, StreamCopy, StreamSendHistory, StreamSubscribe, StreamCtxDone,
     StreamLeave, Return, HistoryInv
<1> QED BY <1>1, <1>2, <1>3, <1>4, <1>5, <1>6

LEMMA OrderOfEntries == Spec => [](AddingNewest /\ HistoryInv /\ OrderInv)
<1>1. Init => AddingNewest /\ HistoryInv /\ OrderInv
  BY DEF Init, AddingNewest, HistoryInv, OrderInv, Ordered
<1>2. TypeOK /\ AddingNewest /\ HistoryInv /\ OrderInv /\ [Next]_vars
        => (AddingNewest /\ HistoryInv /\ OrderInv)'
  <2> SUFFICES ASSUME TypeOK, AddingNewest, HistoryInv, OrderInv, [Next]_vars PROVE OrderInv'
    BY NewestKept, HistoryKept
  <2>1. CASE UNCHANGED vars
    BY <2>1 DEF vars, OrderInv
  <2> QED BY <2>1, AppendKeepsOrder, FanOutKeepsOrder, StreamKeepsOrder DEF Next, LoggerStep
<1> QED BY <1>1, <1>2, LogTyping, PTL DEF Spec

\* A client gets the entries of one logger in the order of its calls, one of them twice only at
\* the seam between the history and the channel (AddLog, handleLogsStream).
THEOREM InOrder == Spec => []SentInOrder
<1>1. OrderInv => SentInOrder
  BY DEF OrderInv, Ordered, After, SentInOrder
<1> QED BY <1>1, OrderOfEntries, PTL

-----------------------------------------------------------------------------
(* What a client gets                                                      *)

\* From its copy of the ring on, a handler has every entry due to it somewhere.
Accounted(s, e) ==
  \/ e \in missed[s]
  \/ Contains(history[s], e) \/ Contains(sent[s], e) \/ Contains(ch[s], e)
  \/ \E p \in Logger : adding[p] = e
DueInv == \A s \in Stream : pc[s] \in {"copied", "sent", "live"} => \A e \in Due(s) : Accounted(s, e)

\* The ring holds all the entries from its oldest one on.
LEMMA RingHasDue ==
  ASSUME TypeOK, NEW e \in Entry, logs # <<>> => e >= Head(logs)
  PROVE  Contains(logs, e)
<1>1. Len(author) \in Nat \ {0} /\ e \in Nat /\ e <= Len(author) /\ Kept \in Nat \ {0}
  BY LogStreamsAssumption, TypeOKFacts DEF Entry, Kept
<1>2. logs \in Seq(Entry) /\ Len(logs) = Kept /\ \A i \in 1 .. Kept : logs[i] = Len(author) - Kept + i
  BY RingShape
<1> HIDE DEF Kept
<1>3. logs # <<>> /\ Head(logs) = Len(author) - Kept + 1
  BY <1>1, <1>2
<1> DEFINE i == e - (Len(author) - Kept)
<1>4. i \in 1 .. Kept
  BY <1>1, <1>3
<1>5. logs[i] = e
  BY <1>1, <1>2, <1>4
<1> QED BY <1>2, <1>4, <1>5 DEF Contains

LEMMA LoggerKeepsDue ==
  ASSUME TypeOK, DueInv, NEW p \in Logger, LoggerStep(p)
  PROVE  DueInv'
<1>1. CASE AddLogAppend(p)
  <2>1. UNCHANGED <<pc, history, sent, ch, missed>> /\ Len(author) \in Nat /\ Len(author') = Len(author) + 1
        /\ adding' = [adding EXCEPT ![p] = Len(author) + 1] /\ adding[p] = 0
    BY <1>1, TypeOKFacts DEF AddLogAppend
  <2>2. ASSUME NEW s \in Stream, NEW e \in Entry, Accounted(s, e) PROVE Accounted(s, e)'
    BY <2>1, <2>2, TypeOKFacts DEF Accounted, Entry
  <2>3. ASSUME NEW s \in Stream, NEW e, e = Len(author) + 1 PROVE Accounted(s, e)'
    <3>1. adding'[p] = e
      BY <2>1, <2>3, TypeOKFacts
    <3> QED BY <3>1 DEF Accounted
  <2>4. Entry' = Entry \cup {Len(author) + 1}
    BY <2>1 DEF Entry
  <2> SUFFICES ASSUME NEW s \in Stream, pc[s] \in {"copied", "sent", "live"}, NEW e \in Due(s)'
               PROVE  Accounted(s, e)'
    BY <2>1 DEF DueInv
  <2>5. CASE e \in Entry
    <3>1. e \in Due(s)
      BY <2>1, <2>5 DEF Due
    <3> QED BY <2>2, <2>5, <3>1 DEF DueInv
  <2>6. CASE e = Len(author) + 1
    BY <2>3, <2>6
  <2> QED BY <2>4, <2>5, <2>6 DEF Due
<1>2. CASE AddLogFanOut(p)
  <2>1. UNCHANGED <<pc, history, sent, author>> /\ adding' = [adding EXCEPT ![p] = 0]
    BY <1>2 DEF AddLogFanOut
  <2>2. \A s \in Stream : /\ ch'[s] = ch[s] \/ ch'[s] = Append(ch[s], adding[p])
                          /\ missed[s] \subseteq missed'[s]
    BY <1>2 DEF AddLogFanOut
  <2>3. ASSUME NEW s \in Stream, NEW e, Contains(ch[s], e) PROVE Contains(ch'[s], e)
    <3>1. ch[s] \in Seq(Entry) /\ adding[p] \in Entry
      BY <1>2, TypeOKFacts DEF AddLogFanOut
    <3>2. CASE ch'[s] = Append(ch[s], adding[p])
      <4>1. \A i \in 1 .. Len(ch[s]) : i \in 1 .. Len(ch'[s]) /\ ch'[s][i] = ch[s][i]
        BY <3>1, <3>2
      <4> QED BY <2>3, <4>1 DEF Contains
    <3> QED BY <2>2, <2>3, <3>2
  <2>4. ASSUME NEW s \in Stream, NEW e, e = adding[p], pc[s] \in {"copied", "sent", "live"}
        PROVE  Accounted(s, e)'
    <3>1. CASE s \in logSubs /\ HasRoom(s)
      <4>1. ch'[s] = Append(ch[s], e) /\ ch[s] \in Seq(Entry)
        BY <1>2, <2>4, <3>1, TypeOKFacts DEF AddLogFanOut
      <4>2. ch'[s][Len(ch[s]) + 1] = e /\ Len(ch[s]) + 1 \in 1 .. Len(ch'[s])
        BY <4>1
      <4>3. Contains(ch'[s], e)
        BY <4>2 DEF Contains
      <4> QED BY <4>3 DEF Accounted
    <3>2. CASE ~(s \in logSubs /\ HasRoom(s))
      <4>1. pc[s] = "live" => s \in logSubs
        BY DEF TypeOK
      <4>2. e \in missed'[s] \/ Contains(history[s], e)
        BY <1>2, <2>4, <3>2, <4>1 DEF AddLogFanOut
      <4> QED BY <2>1, <4>2 DEF Accounted
    <3> QED BY <3>1, <3>2
  <2>5. ASSUME NEW s \in Stream, NEW e \in Entry, pc[s] \in {"copied", "sent", "live"}, Accounted(s, e)
        PROVE  Accounted(s, e)'
    <3>1. CASE e = adding[p]
      BY <2>4, <2>5, <3>1
    <3>2. CASE e # adding[p]
      BY <2>1, <2>2, <2>3, <2>5, <3>2, TypeOKFacts DEF Accounted
    <3> QED BY <3>1, <3>2
  <2> QED BY <2>1, <2>5 DEF DueInv, Due, Entry
<1> QED BY <1>1, <1>2 DEF LoggerStep

LEMMA StreamKeepsDue ==
  ASSUME TypeOK, HistoryInv, DueInv, NEW s \in Stream, StreamStep(s)
  PROVE  DueInv'
<1>0. UNCHANGED <<author, adding>> /\ Entry' = Entry
  BY DEF StreamStep, StreamCopy, StreamSendHistory, StreamSubscribe, StreamForward, StreamCtxDone,
         StreamLeave, Entry
<1> SUFFICES ASSUME NEW t \in Stream, pc'[t] \in {"copied", "sent", "live"}, NEW e \in Due(t)'
             PROVE  Accounted(t, e)'
  BY DEF DueInv
<1>1. CASE t # s
  <2>1. UNCHANGED <<pc[t], history[t], sent[t], ch[t], missed[t]>>
    BY <1>1, TypeOKFacts DEF StreamStep, StreamCopy, StreamSendHistory, StreamSubscribe, StreamForward,
       StreamCtxDone, StreamLeave, Return, Goto
  <2>2. e \in Due(t)
    BY <1>0, <2>1 DEF Due
  <2> QED BY <1>0, <2>1, <2>2 DEF DueInv, Accounted
<1>2. CASE t = s
  <2>1. CASE StreamCopy(s)
    <3>1. history'[s] = logs
      BY <2>1, TypeOKFacts DEF StreamCopy, Copy
    <3>2. e \in Entry /\ (logs # <<>> => e >= Head(logs))
      BY <1>0, <1>2, <3>1 DEF Due
    <3> QED BY <1>2, <3>1, <3>2, RingHasDue DEF Accounted
  <2>2. CASE StreamSendHistory(s)
    <3>1. pc[s] = "copied" /\ UNCHANGED <<history[s], ch[s], missed[s]>> /\ sent'[s] = history[s]
      BY <1>2, <2>2, TypeOKFacts DEF StreamSendHistory, Return, Goto
    <3>2. e \in Due(s) /\ sent[s] = <<>>
      BY <1>0, <1>2, <3>1 DEF Due, HistoryInv
    <3>3. Accounted(s, e)
      BY <3>1, <3>2 DEF DueInv
    <3> QED BY <1>0, <1>2, <3>1, <3>2, <3>3 DEF Accounted, Contains
  <2>3. CASE StreamSubscribe(s)
    <3>1. pc[s] = "sent" /\ UNCHANGED <<history, sent, ch, missed>>
      BY <2>3 DEF StreamSubscribe
    <3>2. e \in Due(s)
      BY <1>0, <1>2, <3>1 DEF Due
    <3> QED BY <1>0, <1>2, <3>1, <3>2 DEF DueInv, Accounted
  <2>4. CASE StreamForward(s)
    <3>1. pc[s] = "live" /\ UNCHANGED <<history, missed>> /\ ch'[s] = Tail(ch[s])
          /\ sent'[s] = Append(sent[s], Head(ch[s]))
          /\ sent[s] \in Seq(Entry) /\ ch[s] \in Seq(Entry) /\ ch[s] # <<>>
      BY <1>2, <2>4, TypeOKFacts DEF StreamForward, Goto
    <3>2. e \in Due(s)
      BY <1>0, <1>2, <3>1 DEF Due
    <3>3. Contains(sent[s], e) => Contains(sent'[s], e)
      BY <3>1 DEF Contains
    <3>4. ASSUME Contains(ch[s], e) PROVE Contains(sent'[s], e) \/ Contains(ch'[s], e)
      <4>1. PICK i \in 1 .. Len(ch[s]) : ch[s][i] = e
        BY <3>4 DEF Contains
      <4>2. Len(ch[s]) \in Nat /\ Len(ch'[s]) = Len(ch[s]) - 1 /\ Head(ch[s]) = ch[s][1]
            /\ \A j \in 1 .. Len(ch'[s]) : ch'[s][j] = ch[s][j + 1]
        BY <3>1, HeadTailProperties
      <4>3. CASE i = 1
        <5>1. sent'[s][Len(sent[s]) + 1] = e /\ Len(sent[s]) + 1 \in 1 .. Len(sent'[s])
          BY <3>1, <4>1, <4>2, <4>3
        <5> QED BY <5>1 DEF Contains
      <4>4. CASE i # 1
        <5>1. i - 1 \in 1 .. Len(ch'[s]) /\ ch'[s][i - 1] = e
          BY <4>1, <4>2, <4>4
        <5> QED BY <5>1 DEF Contains
      <4> QED BY <4>3, <4>4
    <3>5. Accounted(s, e)
      BY <3>1, <3>2 DEF DueInv
    <3> QED BY <1>0, <1>2, <3>1, <3>3, <3>4, <3>5 DEF Accounted
  <2> QED BY <1>2, <2>1, <2>2, <2>3, <2>4, TypeOKFacts
          DEF StreamStep, StreamCtxDone, StreamLeave, Return, Goto
<1> QED BY <1>1, <1>2

\* A live stream has sent, or has in its channel, every entry from the first of its history on
\* whose AddLog is over, but for those fanned out to a full channel, or between the copy of the
\* ring and the subscription (AddLog, handleLogsStream).
THEOREM LostOnly == Spec => []LostOnlyAsKnown
<1>1. Init => DueInv
  BY DEF Init, DueInv
<1>2. TypeOK /\ HistoryInv /\ DueInv /\ [Next]_vars => DueInv'
  <2>1. DueInv /\ UNCHANGED vars => DueInv'
    BY DEF vars, DueInv, Due, Accounted, Entry
  <2> QED BY <2>1, LoggerKeepsDue, StreamKeepsDue DEF Next
<1>3. TypeOK /\ HistoryInv /\ DueInv => LostOnlyAsKnown
  <2> SUFFICES ASSUME TypeOK, HistoryInv, DueInv, NEW s \in Stream, pc[s] = "live", NEW e \in Due(s)
               PROVE  \/ e \in missed[s] \/ Contains(sent[s], e) \/ Contains(ch[s], e)
                      \/ \E p \in Logger : adding[p] = e
    BY DEF LostOnlyAsKnown
  <2>1. Accounted(s, e) /\ Prefix(history[s], sent[s])
    BY DEF DueInv, HistoryInv
  <2>2. Contains(history[s], e) => Contains(sent[s], e)
    BY <2>1, TypeOKFacts DEF Prefix, Contains
  <2> QED BY <2>1, <2>2 DEF Accounted
<1> QED BY <1>1, <1>2, <1>3, LogTyping, OrderOfEntries, PTL DEF Spec
=============================================================================
