----------------------------- MODULE LogStreams -----------------------------
(***************************************************************************)
(* dashboard/server.go: AddLog, and the handlers of /api/logs/stream.      *)
(* The ring buffer and the subscribers have a lock each, and neither AddLog *)
(* nor a handler holds both: every section is one action.  An entry is its *)
(* place in the order of the appends to the ring.                          *)
(***************************************************************************)
EXTENDS Integers, SequencesExt, FiniteSets

CONSTANTS
  Logger,      \* goroutines that call AddLog: the handlers of a POST, and main
  Stream,      \* requests for /api/logs/stream
  MaxLogs,     \* maxLogs
  ChanCap,     \* the capacity of a subscriber's channel
  MaxEntries   \* bound on the entries of a behaviour

ASSUME LogStreamsAssumption ==
  /\ MaxLogs \in Nat \ {0} /\ ChanCap \in Nat \ {0} /\ MaxEntries \in Nat
  /\ Logger \cap Stream = {}

VARIABLES
  logs,      \* s.logs
  logSubs,   \* s.logSubs: the streams whose channel is in it
  ch,        \* the channel of every stream
  adding,    \* the entry a logger has appended and not fanned out, 0 for none
  pc,        \* of every stream: "new", "copied", "sent", "live", "leaving"
  history,   \* the copy of the ring it sends first
  sent,      \* what it has written to its client
  author,    \* auxiliary: who called AddLog for each entry
  missed     \* auxiliary: the entries each stream's client will never get

vars == <<logs, logSubs, ch, adding, pc, history, sent, author, missed>>

Init ==
  /\ logs = <<>>
  /\ logSubs = {}
  /\ ch = [s \in Stream |-> <<>>]
  /\ adding = [p \in Logger |-> 0]
  /\ pc = [s \in Stream |-> "new"]
  /\ history = [s \in Stream |-> <<>>]
  /\ sent = [s \in Stream |-> <<>>]
  /\ author = <<>>
  /\ missed = [s \in Stream |-> {}]

Goto(s, l) == pc' = [pc EXCEPT ![s] = l]

\* The handler returns; a client that reconnects meets a new one.
Return(s) ==
  /\ Goto(s, "new")
  /\ ch' = [ch EXCEPT ![s] = <<>>]
  /\ history' = [history EXCEPT ![s] = <<>>]
  /\ sent' = [sent EXCEPT ![s] = <<>>]
  /\ missed' = [missed EXCEPT ![s] = {}]

-----------------------------------------------------------------------------
(* AddLog                                                                  *)

\* The ring keeps the newest maxLogs of the entries.
Newest(es) == SubSeq(es, Len(es) - MaxLogs + 1, Len(es))

AddLogAppend(p) ==
  /\ adding[p] = 0
  /\ Len(author) < MaxEntries
  /\ LET entry == Len(author) + 1
         all == Append(logs, entry)
     IN  /\ logs' = IF Len(all) > MaxLogs THEN Newest(all) ELSE all
         /\ adding' = [adding EXCEPT ![p] = entry]
  /\ author' = Append(author, p)
  /\ UNCHANGED <<logSubs, ch, pc, history, sent, missed>>

HasRoom(s) == Len(ch[s]) < ChanCap

\* The select's default drops the entry of a slow subscriber; a variant waits for room.
MayFanOutBlocking == \A s \in logSubs : HasRoom(s)
MayFanOut == TRUE

\* A stream that has copied the ring and not subscribed misses the entry as well, unless the
\* entry was in the ring it copied.
AddLogFanOut(p) ==
  /\ adding[p] # 0
  /\ MayFanOut
  /\ LET entry == adding[p]
         Reached == {s \in logSubs : HasRoom(s)}
         Copied == {s \in Stream : pc[s] \in {"copied", "sent"}}
     IN  /\ ch' = [s \in Stream |-> IF s \in Reached THEN Append(ch[s], entry) ELSE ch[s]]
         /\ missed' = [s \in Stream |->
              IF s \in (logSubs \ Reached) \cup Copied /\ ~Contains(history[s], entry)
              THEN missed[s] \cup {entry} ELSE missed[s]]
  /\ adding' = [adding EXCEPT ![p] = 0]
  /\ UNCHANGED <<logs, logSubs, pc, history, sent, author>>

-----------------------------------------------------------------------------
(* handleLogsStream                                                        *)

\* What the handler copies under logMu; a variant forgets the newest entry.
CopyShort == IF logs = <<>> THEN <<>> ELSE Front(logs)
Copy == logs

\* The subscribers after the copy: the handler subscribes later.  A variant subscribes first.
SubsFirst(s) == logSubs \cup {s}
SubsAtCopy(s) == logSubs

StreamCopy(s) ==
  /\ pc[s] = "new"
  /\ history' = [history EXCEPT ![s] = Copy]
  /\ logSubs' = SubsAtCopy(s)
  /\ Goto(s, "copied")
  /\ UNCHANGED <<logs, ch, adding, sent, author, missed>>

\* A write that fails ends the handler, which has nothing to clean up yet.
StreamSendHistory(s) ==
  /\ pc[s] = "copied"
  /\ \/ /\ sent' = [sent EXCEPT ![s] = history[s]]
        /\ Goto(s, "sent")
        /\ UNCHANGED <<ch, history, missed>>
     \/ /\ history[s] # <<>>
        /\ Return(s)
  /\ UNCHANGED <<logs, logSubs, adding, author>>

StreamSubscribe(s) ==
  /\ pc[s] = "sent"
  /\ logSubs' = logSubs \cup {s}
  /\ Goto(s, "live")
  /\ UNCHANGED <<logs, ch, adding, history, sent, author, missed>>

\* select: entry := <-ch, and the write may fail.
StreamForward(s) ==
  /\ pc[s] = "live"
  /\ ch[s] # <<>>
  /\ ch' = [ch EXCEPT ![s] = Tail(@)]
  /\ \/ sent' = [sent EXCEPT ![s] = Append(@, Head(ch[s]))] /\ UNCHANGED pc
     \/ Goto(s, "leaving") /\ UNCHANGED sent
  /\ UNCHANGED <<logs, logSubs, adding, history, author, missed>>

\* select: <-ctx.Done(), the client is gone.
StreamCtxDone(s) ==
  /\ pc[s] = "live"
  /\ Goto(s, "leaving")
  /\ UNCHANGED <<logs, logSubs, ch, adding, history, sent, author, missed>>

\* The subscribers after the deferred delete; a variant forgets it.
WithoutForgotten(s) == logSubs
Without(s) == logSubs \ {s}

StreamLeave(s) ==
  /\ pc[s] = "leaving"
  /\ logSubs' = Without(s)
  /\ Return(s)
  /\ UNCHANGED <<logs, adding, author>>

-----------------------------------------------------------------------------
LoggerStep(p) == AddLogAppend(p) \/ AddLogFanOut(p)

StreamStep(s) == \/ StreamCopy(s)    \/ StreamSendHistory(s) \/ StreamSubscribe(s)
                 \/ StreamForward(s) \/ StreamCtxDone(s)     \/ StreamLeave(s)

Next == \/ \E p \in Logger : LoggerStep(p)
        \/ \E s \in Stream : StreamStep(s)

\* The fan-out is a goroutine's own code.  A handler may hang in a write to its client.
Fairness == \A p \in Logger : WF_vars(AddLogFanOut(p))

Spec == Init /\ [][Next]_vars /\ Fairness
-----------------------------------------------------------------------------
(* Properties                                                              *)

Entry == 1 .. Len(author)

\* The shape of the state: the ring holds the newest entries, in order, and the subscribers
\* are the streams whose handler is between its subscription and its deferred delete.
TypeOK ==
  /\ author \in Seq(Logger) /\ Len(author) <= MaxEntries
  /\ LET n == IF Len(author) < MaxLogs THEN Len(author) ELSE MaxLogs
     IN  logs = [i \in 1 .. n |-> Len(author) - n + i]
  /\ adding \in [Logger -> Entry \cup {0}]
  /\ pc \in [Stream -> {"new", "copied", "sent", "live", "leaving"}]
  /\ logSubs = {s \in Stream : pc[s] \in {"live", "leaving"}}
  /\ {history, ch, sent} \subseteq [Stream -> Seq(Entry)]
  /\ missed \in [Stream -> SUBSET Entry]
  /\ \A s \in Stream : Len(history[s]) <= MaxLogs /\ Len(ch[s]) <= ChanCap

\* Every client gets the entries of one logger in the order of its calls, and gets one of them
\* twice only at the seam: in the history and again, once, from the channel, because AddLog
\* appends before it fans out.
SentInOrder ==
  \A s \in Stream : \A i, j \in 1 .. Len(sent[s]) :
    (i < j /\ author[sent[s][i]] = author[sent[s][j]])
      => \/ sent[s][i] < sent[s][j]
         \/ sent[s][i] = sent[s][j] /\ i <= Len(history[s]) /\ Len(history[s]) < j

\* The entries of the ring a stream copied, and those added since.
Due(s) == {e \in Entry : history[s] # <<>> => e >= Head(history[s])}

\* A live stream has sent, or has in its channel, every entry due to it whose AddLog is over,
\* but for those it misses: fanned out to a full channel, or after the copy of the ring and
\* before the subscription.
LostOnlyAsKnown ==
  \A s \in Stream : pc[s] = "live" =>
    \A e \in Due(s) : \/ e \in missed[s]
                      \/ Contains(sent[s], e) \/ Contains(ch[s], e)
                      \/ \E p \in Logger : adding[p] = e

\* AddLog returns, whatever the streams and their clients do ("drop rather than block").
AddLogReturns == \A p \in Logger : adding[p] # 0 ~> adding[p] = 0
=============================================================================
