---------------------------- MODULE OrderedHeader ----------------------------
(***************************************************************************)
(* client/ordered_header.go: header fields in the order they were added,   *)
(* with the casing they were given, in Go slices.  A slice is an array and *)
(* a length; Set and Del compact it in place, append writes into it while  *)
(* there is room, and Clone must not share it.  And RoundTrip of           *)
(* client/h2_transport.go, which sends a request's headers after defaults. *)
(***************************************************************************)
EXTENDS Integers, Sequences, SequencesExt

CONSTANTS
  Var,       \* the OrderedHeaders in use
  Key,       \* field names: a header, its canonical form, in one of several casings
  Header,
  Canonical, \* http.CanonicalHeaderKey: the header of each key
  Value,
  NoEntry,   \* what a cell of an array holds that has not been written
  MaxLen,    \* bound: entries of an OrderedHeader
  MaxCalls   \* bound: calls that change one

ASSUME HeaderAssumption ==
  /\ IsFiniteSet(Var)
  /\ Canonical \in [Key -> Header]
  /\ MaxLen \in Nat /\ MaxCalls \in Nat

VARIABLES
  heap,      \* the arrays, each a sequence of as many cells as its capacity
  entries,   \* per OrderedHeader, its slice
  calls      \* how many calls there have been

vars == <<heap, entries, calls>>

Entry == [key : Key, value : Value]
\* Array 0 is the empty one of a nil slice; one is free whenever a slice moves.
Array == 0 .. Cardinality(Var) + 1
Free == CHOOSE a \in Array : a # 0 /\ \A h \in Var : entries[h].array # a

\* What a slice holds.
Slice(cells, n) == SubSeq(cells, 1, n)
View(h) == Slice(heap[entries[h].array], entries[h].len)

Init ==
  /\ heap = [a \in Array |-> <<>>]
  /\ entries = [h \in Var |-> [array |-> 0, len |-> 0]]
  /\ calls = 0

Call == calls < MaxCalls /\ calls' = calls + 1

Matches(e, k) == Canonical[e.key] = Canonical[k]

-----------------------------------------------------------------------------
(* Slices                                                                  *)

\* h.entries = cells[:n], still in its array.
Keep(h, cells, n) ==
  /\ heap' = [heap EXCEPT ![entries[h].array] = cells]
  /\ entries' = [entries EXCEPT ![h].len = n]

\* g's slice is a new array; arrays nobody refers to any more are collected.
Move(g, cells, n) ==
  /\ entries' = [entries EXCEPT ![g] = [array |-> Free, len |-> n]]
  /\ heap' = [a \in Array |->
       IF a = Free THEN cells
       ELSE IF \E f \in Var \ {g} : entries[f].array = a THEN heap[a] ELSE <<>>]

\* append's new capacity, for the few entries a list has.
Grown(n) == IF n = 0 THEN 1 ELSE 2 * n

\* h.entries = append(cells[:n], e)
Extend(h, cells, n, e) ==
  IF n < Len(cells)
  THEN Keep(h, [cells EXCEPT ![n + 1] = e], n + 1)
  ELSE Move(h, [i \in 1 .. Grown(n) |-> IF i <= n THEN cells[i] ELSE IF i = n + 1 THEN e ELSE NoEntry], n + 1)

-----------------------------------------------------------------------------
(* The calls                                                               *)

Add(h, e) ==
  /\ Call
  /\ entries[h].len < MaxLen
  /\ Extend(h, heap[entries[h].array], entries[h].len, e)

\* One turn of Set's loop: out is cells[:n] of the array the range still reads from.
\* A variant keeps the duplicates.
SetTurnAll(out, i, e) ==
  LET old == out.cells[i]
      new == IF Matches(old, e.key) THEN e ELSE old
  IN  [cells |-> [out.cells EXCEPT ![out.n + 1] = new], n |-> out.n + 1,
       replaced |-> out.replaced \/ Matches(old, e.key)]
SetTurn(out, i, e) ==
  LET old == out.cells[i]
      new == IF Matches(old, e.key) THEN e ELSE old
  IN  IF Matches(old, e.key) /\ out.replaced
      THEN out
      ELSE [cells |-> [out.cells EXCEPT ![out.n + 1] = new], n |-> out.n + 1,
            replaced |-> out.replaced \/ Matches(old, e.key)]

\* Set's loop over cells[:n], as a function of the turns made.
SetLoop(cells, n, e) ==
  LET out[i \in 0 .. n] ==
        IF i = 0 THEN [cells |-> cells, n |-> 0, replaced |-> FALSE] ELSE SetTurn(out[i - 1], i, e)
  IN  out[n]

Set(h, e) ==
  LET out == SetLoop(heap[entries[h].array], entries[h].len, e)
  IN  /\ Call
      /\ out.replaced \/ out.n < MaxLen
      /\ IF out.replaced THEN Keep(h, out.cells, out.n) ELSE Extend(h, out.cells, out.n, e)

\* Del's loop, in the same way.
DelTurn(out, i, k) ==
  IF Matches(out.cells[i], k) THEN out
  ELSE [cells |-> [out.cells EXCEPT ![out.n + 1] = out.cells[i]], n |-> out.n + 1]
DelLoop(cells, n, k) ==
  LET out[i \in 0 .. n] ==
        IF i = 0 THEN [cells |-> cells, n |-> 0] ELSE DelTurn(out[i - 1], i, k)
  IN  out[n]

Del(h, k) ==
  LET out == DelLoop(heap[entries[h].array], entries[h].len, k)
  IN  Call /\ Keep(h, out.cells, out.n)

\* g is a copy of h, in an array of its own; a variant shares h's.
CloneShared(h, g) ==
  /\ Call
  /\ entries' = [entries EXCEPT ![g] = entries[h]]
  /\ UNCHANGED heap
Clone(h, g) == Call /\ Move(g, View(h), entries[h].len)

Next == \E h \in Var :
  \/ \E e \in Entry : Add(h, e) \/ Set(h, e)
  \/ \E k \in Key : Del(h, k)
  \/ \E g \in Var \ {h} : Clone(h, g)

Spec == Init /\ [][Next]_vars

-----------------------------------------------------------------------------
(* The request's header map                                                *)

\* header[key] = append(header[key], value), the key as it is; a variant replaces.
PutOnly(m, k, v) == [x \in DOMAIN m \cup {k} |-> IF x = k THEN <<v>> ELSE m[x]]
Put(m, k, v) ==
  [x \in DOMAIN m \cup {k} |->
     IF x # k THEN m[x] ELSE IF k \in DOMAIN m THEN Append(m[k], v) ELSE <<v>>]

\* The loop over the fields es, from the map m, as a function of the turns made.
PutAll(m, es) ==
  LET out[i \in 0 .. Len(es)] ==
        IF i = 0 THEN m ELSE Put(out[i - 1], es[i].key, es[i].value)
  IN  out[Len(es)]

\* ToHTTPHeader, and the Header that ApplyToRequest gives a request.
ToHTTPHeader(h) == PutAll(<<>>, View(h))

\* The fields of one key.
Fields(k, vs) == [i \in 1 .. Len(vs) |-> [key |-> k, value |-> vs[i]]]

\* The header sent for a request that has the header caller, with h for the defaults, when the
\* range visits caller's keys in the order keys.
RoundTrip(h, caller, keys) ==
  LET sent[i \in 0 .. Len(keys)] ==
        IF i = 0 THEN ToHTTPHeader(h) ELSE PutAll(sent[i - 1], Fields(keys[i], caller[keys[i]]))
  IN  sent[Len(keys)]

-----------------------------------------------------------------------------
(* What the calls promise, as operators on lists                           *)

\* The entries of s that do not match k, in order.
Without(s, k) ==
  LET kept[i \in 0 .. Len(s)] ==
        IF i = 0 THEN <<>>
        ELSE IF Matches(s[i], k) THEN kept[i - 1] ELSE Append(kept[i - 1], s[i])
  IN  kept[Len(s)]

\* "Set replaces the first entry whose key matches (case-insensitively) and removes any
\* subsequent duplicates"
Replaced(s, e) ==
  LET i == SelectInSeq(s, LAMBDA f : Matches(f, e.key))
  IN  IF i = 0 THEN Append(s, e)
      ELSE SubSeq(s, 1, i - 1) \o <<e>> \o Without(SubSeq(s, i + 1, Len(s)), e.key)

\* The values of exactly this key, in order.
Values(s, k) ==
  LET found[i \in 0 .. Len(s)] ==
        IF i = 0 THEN <<>>
        ELSE IF s[i].key = k THEN Append(found[i - 1], s[i].value) ELSE found[i - 1]
  IN  found[Len(s)]

OthersKept(h) == \A g \in Var \ {h} : View(g)' = View(g)

-----------------------------------------------------------------------------
(* Properties                                                              *)

\* The shape of the state: a slice lies within its array, whose cells up to its length are
\* written, and no two OrderedHeaders share an array.
TypeOK ==
  /\ heap \in [Array -> Seq(Entry \cup {NoEntry})] /\ heap[0] = <<>>
  /\ entries \in [Var -> [array : Array, len : 0 .. MaxLen]]
  /\ \A h \in Var : entries[h].len <= Len(heap[entries[h].array]) /\ View(h) \in Seq(Entry)
  /\ \A g, h \in Var : entries[g].array = entries[h].array => g = h \/ entries[g].array = 0
  /\ calls \in 0 .. MaxCalls

\* Compacting in place, appending into spare room and copying do to the list what the calls'
\* comments promise, and nothing to any other OrderedHeader.
CallsAsPromised ==
  [][\A h \in Var :
       /\ \A e \in Entry : Add(h, e) => View(h)' = Append(View(h), e) /\ OthersKept(h)
       /\ \A e \in Entry : Set(h, e) => View(h)' = Replaced(View(h), e) /\ OthersKept(h)
       /\ \A k \in Key : Del(h, k) => View(h)' = Without(View(h), k) /\ OthersKept(h)
       /\ \A g \in Var \ {h} : Clone(h, g) => View(g)' = View(h) /\ OthersKept(g)]_vars

\* A request is sent with every default and every value of its own ("NOT discarded ... merges
\* them", RoundTrip), each under the key as given, with nothing else, in whatever order the
\* range visits the map of the request's own.  It takes no side on which of them come
\* first under a shared key.
NothingDiscarded ==
  \A h, g \in Var : \A keys \in SetToSeqs(DOMAIN ToHTTPHeader(g)) :
    LET sent == RoundTrip(h, ToHTTPHeader(g), keys)
    IN  /\ DOMAIN sent = {e.key : e \in ToSet(View(h)) \cup ToSet(View(g))}
        /\ \A k \in DOMAIN sent : sent[k] \in {Values(View(h), k) \o Values(View(g), k),
                                               Values(View(g), k) \o Values(View(h), k)}

=============================================================================
