------------------------- MODULE OrderedHeader_proofs -------------------------
(***************************************************************************)
(* Proofs about OrderedHeader, for any lists, keys and values: no two      *)
(* lists share an array, and every call does to its list what its comment  *)
(* promises.  The loops of Set and Del are recursive functions of the turns*)
(* made; facts about them go by induction, in the form of a set of         *)
(* numbers that holds 0 and every successor.                               *)
(***************************************************************************)
EXTENDS OrderedHeader, SequenceTheorems, FiniteSetTheorems, TLAPS

\* What a cell of an array holds.
Cell == Entry \cup {NoEntry}

\* TypeOK without the bound on the calls.
SlicesOK ==
  /\ heap \in [Array -> Seq(Cell)] /\ heap[0] = <<>>
  /\ entries \in [Var -> [array : Array, len : 0 .. MaxLen]]
  /\ \A h \in Var : entries[h].len <= Len(heap[entries[h].array]) /\ View(h) \in Seq(Entry)
  /\ \A g, h \in Var : entries[g].array = entries[h].array => g = h \/ entries[g].array = 0

\* The bound on the calls is apart from the rest, which no call needs it for.
LEMMA TypeIsSlices == TypeOK <=> SlicesOK /\ calls \in 0 .. MaxCalls
BY DEF TypeOK, SlicesOK, Cell

-----------------------------------------------------------------------------
(* Induction over the natural numbers                                      *)

\* A set of numbers with 0 and every successor of its members is Nat: what every induction below
\* goes by.
LEMMA SetInduction ==
  ASSUME NEW T \in SUBSET Nat, 0 \in T, \A n \in T : n + 1 \in T
  PROVE  T = Nat
<1> SUFFICES ASSUME Nat \ T # {} PROVE FALSE
  OBVIOUS
<1> DEFINE R == OpToRel(<, Nat)
<1>1. IsWellFoundedOn(R, Nat)
  BY NatLessThanWellFounded
<1>2. PICK x \in Nat \ T : \A y \in Nat \ T : ~ (<<y, x>> \in R)
  <2> HIDE DEF R
  <2> QED BY <1>1, WFMin
<1>3. x # 0 /\ x - 1 \in Nat /\ (x - 1) + 1 = x /\ x - 1 < x
  OBVIOUS
<1>4. <<x - 1, x>> \in R
  BY <1>3 DEF OpToRel
<1> QED BY <1>2, <1>3, <1>4

\* A set of lists with the empty one and every extension of its members is that of all lists.
LEMMA ListInduction ==
  ASSUME NEW S, NEW T \in SUBSET Seq(S), <<>> \in T, \A s \in T, e \in S : Append(s, e) \in T
  PROVE  T = Seq(S)
<1> DEFINE U == {n \in Nat : \A s \in Seq(S) : Len(s) = n => s \in T}
<1>1. 0 \in U
  BY LenProperties
<1>2. ASSUME NEW n \in U PROVE n + 1 \in U
  <2> SUFFICES ASSUME NEW s \in Seq(S), Len(s) = n + 1 PROVE s \in T
    OBVIOUS
  <2>1. s # <<>>
    BY LenProperties
  <2>2. PICK t \in Seq(S), e \in S : s = Append(t, e)
    BY <2>1, SequenceEmptyOrAppend
  <2>3. Len(t) = n
    BY <2>2, AppendProperties, LenProperties
  <2>4. t \in T
    BY <2>3
  <2> QED BY <2>2, <2>4
<1>3. U = Nat
  <2> HIDE DEF U
  <2>1. U \subseteq Nat
    BY DEF U
  <2> QED BY <1>1, <1>2, <2>1, SetInduction
<1> QED BY <1>3, LenProperties

-----------------------------------------------------------------------------
(* Slices and their arrays                                                 *)

\* There are more arrays than lists, so one is free.
LEMMA FreeIsFree == Free \in Array /\ Free # 0 /\ \A h \in Var : entries[h].array # Free
<1> DEFINE A == {entries[h].array : h \in Var}
           g == [h \in Var |-> entries[h].array]
           P == 1 .. Cardinality(Var) + 1
<1>1. IsFiniteSet(Var) /\ Cardinality(Var) \in Nat
  BY HeaderAssumption, FS_CardinalityType
<1>2. g \in Surjection(Var, A)
  BY DEF Surjection
<1>3. IsFiniteSet(A) /\ Cardinality(A) <= Cardinality(Var) /\ Cardinality(A) \in Nat
  <2> HIDE DEF g, A
  <2> QED BY <1>1, <1>2, FS_Surjection, FS_CardinalityType
<1>4. Cardinality(P) = Cardinality(Var) + 1
  BY <1>1, FS_Interval
<1>5. ~ (P \subseteq A)
  <2> HIDE DEF A, P
  <2>1. ASSUME P \subseteq A PROVE FALSE
    <3>1. Cardinality(P) <= Cardinality(A)
      BY <1>3, <2>1, FS_Subset
    <3> QED BY <1>1, <1>3, <1>4, <3>1
  <2> QED BY <2>1
<1>6. PICK a \in P : a \notin A
  BY <1>5
<1>7. a \in Array /\ a # 0 /\ \A h \in Var : entries[h].array # a
  BY <1>1, <1>6 DEF Array
<1> QED BY <1>7 DEF Free

\* What a list's slice is, seen through its array.
LEMMA SliceFacts ==
  ASSUME SlicesOK, NEW h \in Var
  PROVE  /\ entries[h].array \in Array /\ entries[h].len \in 0 .. MaxLen /\ MaxLen \in Nat
         /\ heap[entries[h].array] \in Seq(Cell)
         /\ entries[h].len <= Len(heap[entries[h].array])
         /\ \A i \in 1 .. entries[h].len : heap[entries[h].array][i] \in Entry
         /\ View(h) \in Seq(Entry) /\ Len(View(h)) = entries[h].len
         /\ \A i \in 1 .. entries[h].len : View(h)[i] = heap[entries[h].array][i]
<1> DEFINE c == heap[entries[h].array]
           n == entries[h].len
<1>1. entries[h].array \in Array /\ n \in 0 .. MaxLen /\ MaxLen \in Nat
  BY HeaderAssumption DEF SlicesOK
<1>2. c \in Seq(Cell) /\ n <= Len(c) /\ View(h) \in Seq(Entry)
  BY <1>1 DEF SlicesOK
<1>3. View(h) = SubSeq(c, 1, n)
  BY DEF View, Slice
<1> HIDE DEF c, n
<1>4. \A i \in 1 .. n : c[i] \in Cell
  BY <1>1, <1>2, ElementOfSeq, LenProperties
<1>5. Len(SubSeq(c, 1, n)) = n /\ \A i \in 1 .. n : SubSeq(c, 1, n)[i] = c[i]
  BY <1>1, <1>4, SubSeqProperties
<1>6. \A i \in 1 .. n : c[i] \in Entry
  BY <1>1, <1>2, <1>3, <1>5, ElementOfSeq
<1> QED BY <1>1, <1>2, <1>3, <1>5, <1>6 DEF c, n

\* A list that is compacted in its own array: no other list sees it.
LEMMA KeepViews ==
  ASSUME SlicesOK, NEW h \in Var, NEW cells \in Seq(Cell), NEW n \in 0 .. MaxLen,
         n <= Len(cells), Slice(cells, n) \in Seq(Entry),
         entries[h].array = 0 => cells = <<>>,
         Keep(h, cells, n)
  PROVE  SlicesOK' /\ View(h)' = Slice(cells, n) /\ OthersKept(h)
<1> DEFINE a == entries[h].array
<1>1. a \in Array /\ heap' = [heap EXCEPT ![a] = cells] /\ entries' = [entries EXCEPT ![h].len = n]
  BY SliceFacts DEF Keep
<1>2. \A g \in Var : /\ entries'[g].array = entries[g].array
                     /\ entries'[g].len = IF g = h THEN n ELSE entries[g].len
  BY <1>1 DEF SlicesOK
<1>3. heap'[a] = cells /\ \A b \in Array : b # a => heap'[b] = heap[b]
  BY <1>1 DEF SlicesOK
<1>4. View(h)' = Slice(cells, n)
  BY <1>2, <1>3 DEF View
<1>5. ASSUME NEW g \in Var \ {h}
      PROVE  /\ heap'[entries'[g].array] = heap[entries[g].array]
             /\ entries'[g].len = entries[g].len /\ View(g)' = View(g)
  <2>1. heap'[entries[g].array] = heap[entries[g].array]
    <3>1. CASE entries[g].array # a
      BY <1>3, <3>1, SliceFacts
    <3>2. CASE entries[g].array = a
      BY <1>3, <3>2 DEF SlicesOK
    <3> QED BY <3>1, <3>2
  <2> QED BY <1>2, <2>1 DEF View
<1>6. heap' \in [Array -> Seq(Cell)]
  BY <1>1 DEF SlicesOK
<1>7. heap'[0] = <<>>
  <2>1. 0 \in Array
    BY HeaderAssumption, FS_CardinalityType DEF Array
  <2> QED BY <1>3, <2>1 DEF SlicesOK
<1>8. entries' \in [Var -> [array : Array, len : 0 .. MaxLen]]
  BY <1>1 DEF SlicesOK
<1>9. \A g \in Var : entries'[g].len <= Len(heap'[entries'[g].array]) /\ View(g)' \in Seq(Entry)
  <2> TAKE g \in Var
  <2>1. CASE g = h
    BY <1>2, <1>3, <1>4, <2>1
  <2>2. CASE g # h
    BY <1>5, <2>2, SliceFacts
  <2> QED BY <2>1, <2>2
<1>10. \A f, g \in Var : entries'[f].array = entries'[g].array => f = g \/ entries'[f].array = 0
  BY <1>2 DEF SlicesOK
<1> QED BY <1>4, <1>5, <1>6, <1>7, <1>8, <1>9, <1>10 DEF SlicesOK, OthersKept

\* A list that gets an array of its own.
LEMMA MoveViews ==
  ASSUME SlicesOK, NEW g \in Var, NEW cells \in Seq(Cell), NEW n \in 0 .. MaxLen,
         n <= Len(cells), Slice(cells, n) \in Seq(Entry),
         Move(g, cells, n)
  PROVE  SlicesOK' /\ View(g)' = Slice(cells, n) /\ OthersKept(g)
<1> DEFINE a == Free
<1>0. a \in Array /\ a # 0 /\ \A h \in Var : entries[h].array # a
  BY FreeIsFree
<1>1. entries' = [entries EXCEPT ![g] = [array |-> a, len |-> n]]
  BY DEF Move
<1>2. \A b \in Array : heap'[b] = IF b = a THEN cells
                                  ELSE IF \E f \in Var \ {g} : entries[f].array = b THEN heap[b] ELSE <<>>
  BY Zenon DEF Move
<1>3. heap' = [b \in Array |-> heap'[b]]
  BY Zenon DEF Move
<1> HIDE DEF a
<1>4. entries'[g].array = a /\ entries'[g].len = n /\ \A f \in Var \ {g} : entries'[f] = entries[f]
  BY <1>1 DEF SlicesOK
<1>5. View(g)' = Slice(cells, n)
  BY <1>0, <1>2, <1>4 DEF View
<1>6. ASSUME NEW f \in Var \ {g}
      PROVE  heap'[entries'[f].array] = heap[entries[f].array] /\ View(f)' = View(f)
  <2>1. heap'[entries[f].array] = heap[entries[f].array]
    BY <1>0, <1>2, SliceFacts
  <2> QED BY <1>4, <2>1 DEF View
<1>7. heap' \in [Array -> Seq(Cell)]
  <2>1. \A b \in Array : heap'[b] \in Seq(Cell)
    BY <1>2, EmptySeq DEF SlicesOK
  <2> QED BY <1>3, <2>1
<1>8. heap'[0] = <<>>
  <2>1. 0 \in Array
    BY HeaderAssumption, FS_CardinalityType DEF Array
  <2> QED BY <1>0, <1>2, <2>1 DEF SlicesOK
<1>9. entries' \in [Var -> [array : Array, len : 0 .. MaxLen]]
  BY <1>0, <1>1 DEF SlicesOK
<1>10. \A f \in Var : entries'[f].len <= Len(heap'[entries'[f].array]) /\ View(f)' \in Seq(Entry)
  <2> TAKE f \in Var
  <2>1. CASE f = g
    BY <1>0, <1>2, <1>4, <1>5, <2>1
  <2>2. CASE f # g
    BY <1>4, <1>6, <2>2, SliceFacts
  <2> QED BY <2>1, <2>2
<1>11. \A e, f \in Var : entries'[e].array = entries'[f].array => e = f \/ entries'[e].array = 0
  <2> TAKE e, f \in Var
  <2>1. CASE e = g \/ f = g
    BY <1>0, <1>4, <2>1
  <2>2. CASE e # g /\ f # g
    BY <1>4, <2>2 DEF SlicesOK
  <2> QED BY <2>1, <2>2
<1> QED BY <1>5, <1>6, <1>7, <1>8, <1>9, <1>10, <1>11 DEF SlicesOK, OthersKept

\* The first n cells, as a list.
LEMMA SliceOf ==
  ASSUME NEW cells \in Seq(Cell), NEW n \in Nat, n <= Len(cells), \A i \in 1 .. n : cells[i] \in Entry
  PROVE  /\ Slice(cells, n) \in Seq(Entry) /\ Len(Slice(cells, n)) = n
         /\ \A i \in 1 .. n : Slice(cells, n)[i] = cells[i]
BY SubSeqProperties DEF Slice

\* The first n cells hold entries; d holds the same ones, and e after them.
Filled(cells, n) == cells \in Seq(Cell) /\ n \in Nat /\ n <= Len(cells) /\ \A i \in 1 .. n : cells[i] \in Entry
Followed(d, cells, n, e) ==
  d \in Seq(Cell) /\ n + 1 <= Len(d) /\ d[n + 1] = e /\ \A i \in 1 .. n : d[i] = cells[i]

\* One more entry written after the first n.
LEMMA SliceGrows ==
  ASSUME NEW cells, NEW n, Filled(cells, n), NEW d, NEW e \in Entry, Followed(d, cells, n, e)
  PROVE  /\ Filled(d, n + 1)
         /\ Slice(d, n + 1) \in Seq(Entry) /\ Slice(d, n + 1) = Append(Slice(cells, n), e)
<1>0. cells \in Seq(Cell) /\ n \in Nat /\ n <= Len(cells) /\ \A i \in 1 .. n : cells[i] \in Entry
  BY DEF Filled
<1>1. d \in Seq(Cell) /\ n + 1 \in Nat /\ n + 1 <= Len(d) /\ d[n + 1] = e /\ \A i \in 1 .. n : d[i] = cells[i]
  BY <1>0 DEF Followed
<1>2. \A i \in 1 .. n + 1 : d[i] \in Entry
  BY <1>0, <1>1
<1>3. Slice(d, n + 1) \in Seq(Entry) /\ Len(Slice(d, n + 1)) = n + 1
      /\ \A i \in 1 .. n + 1 : Slice(d, n + 1)[i] = d[i]
  BY <1>1, <1>2, SliceOf
<1>4. Slice(cells, n) \in Seq(Entry) /\ Len(Slice(cells, n)) = n
      /\ \A i \in 1 .. n : Slice(cells, n)[i] = cells[i]
  BY <1>0, SliceOf
<1> DEFINE s == Slice(d, n + 1)
           t == Append(Slice(cells, n), e)
<1>5. t \in Seq(Entry) /\ Len(t) = n + 1 /\ t[n + 1] = e /\ \A i \in 1 .. n : t[i] = cells[i]
  BY <1>4, AppendProperties
<1>6. \A i \in 1 .. n + 1 : s[i] = t[i]
  BY <1>0, <1>1, <1>3, <1>5
<1>7. Filled(d, n + 1)
  BY <1>1, <1>2 DEF Filled
<1> HIDE DEF s, t
<1> QED BY <1>3, <1>5, <1>6, <1>7, SeqEqual DEF s, t

\* The next entry there is.
LEMMA SliceNext ==
  ASSUME NEW c, NEW i \in Nat, Filled(c, i + 1)
  PROVE  Slice(c, i + 1) = Append(Slice(c, i), c[i + 1]) /\ Slice(c, i) \in Seq(Entry) /\ c[i + 1] \in Entry
<1>1. Filled(c, i) /\ Followed(c, c, i, c[i + 1]) /\ c[i + 1] \in Entry
  BY LenProperties DEF Filled, Followed
<1>2. Slice(c, i) \in Seq(Entry)
  BY <1>1, SliceOf DEF Filled
<1> QED BY <1>1, <1>2, SliceGrows

\* After i turns of a loop over c the n entries written are behind the range: it has written over
\* nothing that the range has still to read.
Behind(cells, n, c, i) ==
  /\ cells \in Seq(Cell) /\ Len(cells) = Len(c) /\ n \in 0 .. i
  /\ \A j \in i + 1 .. Len(c) : cells[j] = c[j]
  /\ \A j \in 1 .. n : cells[j] \in Entry

Write(cells, n, y) == [cells EXCEPT ![n + 1] = y]

\* A turn that writes y, and one that writes nothing.
LEMMA TurnWrites ==
  ASSUME NEW c \in Seq(Cell), NEW i \in Nat, i + 1 <= Len(c), NEW y \in Entry,
         NEW cells, NEW n, Behind(cells, n, c, i)
  PROVE  /\ Behind(Write(cells, n, y), n + 1, c, i + 1)
         /\ Slice(Write(cells, n, y), n + 1) = Append(Slice(cells, n), y)
<1>0. /\ cells \in Seq(Cell) /\ Len(cells) = Len(c) /\ n \in 0 .. i
      /\ \A j \in i + 1 .. Len(c) : cells[j] = c[j]
      /\ \A j \in 1 .. n : cells[j] \in Entry
  BY DEF Behind
<1> DEFINE d == Write(cells, n, y)
<1>1. /\ Len(c) \in Nat /\ n \in Nat /\ n + 1 \in 1 .. Len(cells) /\ y \in Cell
      /\ n + 1 \in 0 .. i + 1 /\ n <= Len(cells)
  BY <1>0, LenProperties DEF Cell
<1>2. /\ d \in Seq(Cell) /\ Len(d) = Len(c) /\ d[n + 1] = y
      /\ \A j \in 1 .. Len(c) : j # n + 1 => d[j] = cells[j]
  BY <1>0, <1>1, ExceptSeq DEF Write
<1> HIDE DEF d
<1>3. \A j \in (i + 1) + 1 .. Len(c) : d[j] = c[j]
  <2> TAKE j \in (i + 1) + 1 .. Len(c)
  <2>1. j \in 1 .. Len(c) /\ j # n + 1 /\ j \in i + 1 .. Len(c)
    BY <1>0, <1>1
  <2> QED BY <1>0, <1>2, <2>1
<1>4. \A j \in 1 .. n : d[j] = cells[j]
  <2> TAKE j \in 1 .. n
  <2>1. j \in 1 .. Len(c) /\ j # n + 1
    BY <1>0, <1>1
  <2> QED BY <1>2, <2>1
<1>5. Filled(cells, n) /\ Followed(d, cells, n, y)
  BY <1>0, <1>1, <1>2, <1>4 DEF Filled, Followed
<1>6. Slice(d, n + 1) = Append(Slice(cells, n), y) /\ Filled(d, n + 1)
  BY <1>5, SliceGrows
<1>7. Behind(d, n + 1, c, i + 1)
  BY <1>1, <1>2, <1>3, <1>6 DEF Behind, Filled
<1> QED BY <1>6, <1>7 DEF d

LEMMA TurnSkips ==
  ASSUME NEW c \in Seq(Cell), NEW i \in Nat, NEW cells, NEW n, Behind(cells, n, c, i)
  PROVE  Behind(cells, n, c, i + 1)
BY LenProperties DEF Behind

\* append: in the array while there is room, else in a new one.
LEMMA ExtendViews ==
  ASSUME SlicesOK, NEW h \in Var, NEW cells \in Seq(Cell), NEW n \in Nat, n < MaxLen,
         n <= Len(cells), \A i \in 1 .. n : cells[i] \in Entry, NEW e \in Entry,
         entries[h].array = 0 => cells = <<>>,
         Extend(h, cells, n, e)
  PROVE  SlicesOK' /\ View(h)' = Append(Slice(cells, n), e) /\ OthersKept(h)
<1>0. Len(cells) \in Nat /\ MaxLen \in Nat /\ n + 1 \in 0 .. MaxLen /\ e \in Cell /\ n + 1 \in Nat
  BY HeaderAssumption, LenProperties DEF Cell
<1>1. Filled(cells, n)
  BY DEF Filled
<1>2. CASE n < Len(cells)
  <2> DEFINE d == [cells EXCEPT ![n + 1] = e]
  <2>1. n + 1 \in 1 .. Len(cells)
    BY <1>0, <1>2
  <2>2. d \in Seq(Cell) /\ Len(d) = Len(cells) /\ d[n + 1] = e /\ \A i \in 1 .. n : d[i] = cells[i]
    BY <1>0, <2>1, ExceptSeq
  <2>3. Keep(h, d, n + 1)
    BY <1>2 DEF Extend
  <2>4. entries[h].array # 0
    BY <1>2, EmptySeq
  <2> HIDE DEF d
  <2>5. n + 1 <= Len(d)
    BY <1>0, <1>2, <2>2
  <2>6. Slice(d, n + 1) \in Seq(Entry) /\ Slice(d, n + 1) = Append(Slice(cells, n), e)
    <3>1. Followed(d, cells, n, e)
      BY <2>2, <2>5 DEF Followed
    <3> QED BY <1>1, <3>1, SliceGrows
  <2> QED BY <1>0, <2>2, <2>3, <2>4, <2>5, <2>6, KeepViews
<1>3. CASE ~(n < Len(cells))
  <2> DEFINE d == [i \in 1 .. Grown(n) |-> IF i <= n THEN cells[i] ELSE IF i = n + 1 THEN e ELSE NoEntry]
  <2>1. Grown(n) \in Nat /\ n + 1 <= Grown(n)
    BY DEF Grown
  <2>2. \A i \in 1 .. n : cells[i] \in Cell
    BY DEF Cell
  <2>3. d \in [1 .. Grown(n) -> Cell] /\ d[n + 1] = e /\ \A i \in 1 .. n : d[i] = cells[i]
    BY <1>0, <2>1, <2>2 DEF Cell
  <2>4. Move(h, d, n + 1)
    BY <1>3 DEF Extend
  <2> HIDE DEF d
  <2>5. d \in Seq(Cell) /\ Len(d) = Grown(n)
    BY <2>1, <2>3
  <2>6. Slice(d, n + 1) \in Seq(Entry) /\ Slice(d, n + 1) = Append(Slice(cells, n), e)
    <3>1. Followed(d, cells, n, e)
      BY <2>1, <2>3, <2>5 DEF Followed
    <3> QED BY <1>1, <3>1, SliceGrows
  <2> QED BY <1>0, <2>1, <2>4, <2>5, <2>6, MoveViews
<1> QED BY <1>2, <1>3

-----------------------------------------------------------------------------
(* Without                                                                 *)

\* f is Without's recursive function for the first n entries of s.
KeptTo(f, s, k, n) ==
  f = [i \in 0 .. n |-> IF i = 0 THEN <<>>
                        ELSE IF Matches(s[i], k) THEN f[i - 1] ELSE Append(f[i - 1], s[i])]

\* There is such a function for every length, so Without is well defined.
LEMMA KeptExists == \A s, k : \A n \in Nat : \E f : KeptTo(f, s, k, n)
<1> SUFFICES ASSUME NEW s, NEW k PROVE \A n \in Nat : \E f : KeptTo(f, s, k, n)
  OBVIOUS
<1> DEFINE T == {n \in Nat : \E f : KeptTo(f, s, k, n)}
<1>1. 0 \in T
  <2> DEFINE f == [i \in 0 .. 0 |-> <<>>]
  <2>1. KeptTo(f, s, k, 0)
    BY DEF KeptTo
  <2> QED BY <2>1
<1>2. ASSUME NEW n \in T PROVE n + 1 \in T
  <2>1. PICK f : KeptTo(f, s, k, n)
    OBVIOUS
  <2> DEFINE x == IF Matches(s[n + 1], k) THEN f[n] ELSE Append(f[n], s[n + 1])
             g == [i \in 0 .. n + 1 |-> IF i <= n THEN f[i] ELSE x]
  <2>2. g[0] = <<>>
    BY <2>1 DEF KeptTo
  <2>3. ASSUME NEW i \in 1 .. n + 1
        PROVE  g[i] = IF Matches(s[i], k) THEN g[i - 1] ELSE Append(g[i - 1], s[i])
    <3>1. CASE i = n + 1
      BY <3>1
    <3>2. CASE i # n + 1
      <4>1. i \in 0 .. n /\ i # 0 /\ g[i] = f[i] /\ g[i - 1] = f[i - 1]
        BY <3>2
      <4>2. f[i] = IF Matches(s[i], k) THEN f[i - 1] ELSE Append(f[i - 1], s[i])
        BY <2>1, <4>1 DEF KeptTo
      <4> QED BY <4>1, <4>2
    <3> QED BY <3>1, <3>2
  <2>4. g = [i \in 0 .. n + 1 |-> g[i]]
    OBVIOUS
  <2> HIDE DEF g
  <2>5. \A i \in 0 .. n + 1 :
          g[i] = IF i = 0 THEN <<>> ELSE IF Matches(s[i], k) THEN g[i - 1] ELSE Append(g[i - 1], s[i])
    <3> TAKE i \in 0 .. n + 1
    <3>1. i = 0 \/ i \in 1 .. n + 1
      OBVIOUS
    <3> QED BY <2>2, <2>3, <3>1
  <2>6. KeptTo(g, s, k, n + 1)
    BY <2>4, <2>5, Zenon DEF KeptTo
  <2> QED BY <2>6
<1>3. T = Nat
  <2> HIDE DEF T
  <2>1. T \subseteq Nat
    BY DEF T
  <2> QED BY <1>1, <1>2, <2>1, SetInduction
<1> QED BY <1>3

\* What it keeps of n entries depends on them alone.
LEMMA KeptAgree ==
  ASSUME NEW s, NEW t, NEW k, NEW n \in Nat, NEW m \in Nat, n <= m,
         \A i \in 1 .. n : s[i] = t[i],
         NEW f, NEW g, KeptTo(f, s, k, n), KeptTo(g, t, k, m)
  PROVE  f[n] = g[n]
<1> DEFINE T == {i \in Nat : i <= n => f[i] = g[i]}
<1>1. 0 \in T
  BY DEF KeptTo
<1>2. ASSUME NEW i \in T PROVE i + 1 \in T
  <2> SUFFICES ASSUME i + 1 <= n PROVE f[i + 1] = g[i + 1]
    OBVIOUS
  <2>1. i + 1 \in 0 .. n /\ i + 1 \in 0 .. m /\ i + 1 # 0 /\ (i + 1) - 1 = i /\ i + 1 \in 1 .. n
    OBVIOUS
  <2>2. f[i + 1] = IF Matches(s[i + 1], k) THEN f[i] ELSE Append(f[i], s[i + 1])
    BY <2>1 DEF KeptTo
  <2>3. g[i + 1] = IF Matches(t[i + 1], k) THEN g[i] ELSE Append(g[i], t[i + 1])
    BY <2>1 DEF KeptTo
  <2> QED BY <2>1, <2>2, <2>3
<1>3. T = Nat
  <2> HIDE DEF T
  <2>1. T \subseteq Nat
    BY DEF T
  <2> QED BY <1>1, <1>2, <2>1, SetInduction
<1> QED BY <1>3

\* Without(s, k) is its value after the last entry.
LEMMA WithoutIsKept ==
  ASSUME NEW s \in Seq(Entry), NEW k
  PROVE  \E f : KeptTo(f, s, k, Len(s)) /\ Without(s, k) = f[Len(s)]
<1> DEFINE c == CHOOSE f : KeptTo(f, s, k, Len(s))
<1>1. KeptTo(c, s, k, Len(s))
  BY KeptExists, LenProperties
<1>2. Without(s, k) = c[Len(s)]
  BY DEF Without, KeptTo
<1> QED BY <1>1, <1>2

\* Of an empty list nothing is left.
LEMMA WithoutEmpty == ASSUME NEW k PROVE Without(<<>>, k) = <<>>
<1>1. <<>> \in Seq(Entry) /\ Len(<<>>) = 0
  BY EmptySeq
<1>2. PICK f : KeptTo(f, <<>>, k, 0) /\ Without(<<>>, k) = f[0]
  BY <1>1, WithoutIsKept
<1> QED BY <1>2 DEF KeptTo

\* One more entry: Without adds it when it does not match.
LEMMA WithoutAppend ==
  ASSUME NEW s \in Seq(Entry), NEW x \in Entry, NEW k
  PROVE  Without(Append(s, x), k) = IF Matches(x, k) THEN Without(s, k) ELSE Append(Without(s, k), x)
<1> DEFINE t == Append(s, x)
           n == Len(s)
<1>1. n \in Nat /\ t \in Seq(Entry) /\ Len(t) = n + 1 /\ t[n + 1] = x /\ \A i \in 1 .. n : s[i] = t[i]
  BY AppendProperties, LenProperties
<1> HIDE DEF t
<1>2. PICK f : KeptTo(f, s, k, n) /\ Without(s, k) = f[n]
  BY WithoutIsKept
<1> HIDE DEF n
<1>3. PICK g : KeptTo(g, t, k, n + 1) /\ Without(t, k) = g[n + 1]
  BY <1>1, WithoutIsKept
<1>4. f[n] = g[n]
  BY <1>1, <1>2, <1>3, KeptAgree
<1>5. g[n + 1] = IF Matches(x, k) THEN g[n] ELSE Append(g[n], x)
  <2>1. n + 1 \in 0 .. n + 1 /\ n + 1 # 0 /\ (n + 1) - 1 = n
    BY <1>1
  <2> QED BY <1>1, <1>3, <2>1 DEF KeptTo
<1> QED BY <1>2, <1>3, <1>4, <1>5 DEF t

\* What is left of a list of entries is one.
LEMMA WithoutIsList ==
  ASSUME NEW s \in Seq(Entry), NEW k
  PROVE  Without(s, k) \in Seq(Entry)
<1>1. PICK f : KeptTo(f, s, k, Len(s)) /\ Without(s, k) = f[Len(s)]
  BY WithoutIsKept
<1> DEFINE n == Len(s)
           T == {i \in Nat : i <= n => f[i] \in Seq(Entry)}
<1>2. n \in Nat
  BY LenProperties
<1>3. 0 \in T
  BY <1>1, <1>2, EmptySeq DEF KeptTo
<1>4. ASSUME NEW i \in T PROVE i + 1 \in T
  <2> SUFFICES ASSUME i + 1 <= n PROVE f[i + 1] \in Seq(Entry)
    OBVIOUS
  <2>1. i + 1 \in 0 .. n /\ i + 1 # 0 /\ (i + 1) - 1 = i /\ i + 1 \in 1 .. n /\ i <= n
    BY <1>2
  <2>2. f[i + 1] = IF Matches(s[i + 1], k) THEN f[i] ELSE Append(f[i], s[i + 1])
    BY <1>1, <2>1 DEF KeptTo
  <2>3. f[i] \in Seq(Entry) /\ s[i + 1] \in Entry
    BY <2>1, ElementOfSeq
  <2> QED BY <2>2, <2>3, AppendProperties
<1>5. T = Nat
  <2> HIDE DEF T
  <2>1. T \subseteq Nat
    BY DEF T
  <2> QED BY <1>3, <1>4, <2>1, SetInduction
<1> QED BY <1>1, <1>2, <1>5

-----------------------------------------------------------------------------
(* Del                                                                     *)

\* f is Del's loop over the first n cells, as a function of the turns made.
DelTo(f, cells, k, n) ==
  f = [i \in 0 .. n |-> IF i = 0 THEN [cells |-> cells, n |-> 0] ELSE DelTurn(f[i - 1], i, k)]

\* There is such a function for every number of turns.
LEMMA DelExists == \A c, k : \A n \in Nat : \E f : DelTo(f, c, k, n)
<1> SUFFICES ASSUME NEW c, NEW k PROVE \A n \in Nat : \E f : DelTo(f, c, k, n)
  OBVIOUS
<1> DEFINE T == {n \in Nat : \E f : DelTo(f, c, k, n)}
           start == [cells |-> c, n |-> 0]
<1>1. 0 \in T
  <2> DEFINE f == [i \in 0 .. 0 |-> start]
  <2>1. DelTo(f, c, k, 0)
    BY DEF DelTo
  <2> QED BY <2>1
<1> HIDE DEF start
<1>2. ASSUME NEW n \in T PROVE n + 1 \in T
  <2>1. PICK f : DelTo(f, c, k, n)
    OBVIOUS
  <2> DEFINE g == [i \in 0 .. n + 1 |-> IF i <= n THEN f[i] ELSE DelTurn(f[n], n + 1, k)]
  <2>2. g[0] = start
    BY <2>1 DEF DelTo, start
  <2>3. ASSUME NEW i \in 1 .. n + 1 PROVE g[i] = DelTurn(g[i - 1], i, k)
    <3>1. CASE i = n + 1
      BY <3>1
    <3>2. CASE i # n + 1
      <4>1. i \in 0 .. n /\ i # 0 /\ g[i] = f[i] /\ g[i - 1] = f[i - 1]
        BY <3>2
      <4>2. f[i] = DelTurn(f[i - 1], i, k)
        BY <2>1, <4>1 DEF DelTo
      <4> QED BY <4>1, <4>2
    <3> QED BY <3>1, <3>2
  <2>4. g = [i \in 0 .. n + 1 |-> g[i]]
    OBVIOUS
  <2> HIDE DEF g
  <2>5. \A i \in 0 .. n + 1 : g[i] = IF i = 0 THEN start ELSE DelTurn(g[i - 1], i, k)
    <3> TAKE i \in 0 .. n + 1
    <3>1. i = 0 \/ i \in 1 .. n + 1
      OBVIOUS
    <3> QED BY <2>2, <2>3, <3>1
  <2>6. DelTo(g, c, k, n + 1)
    BY <2>4, <2>5, Zenon DEF DelTo, start
  <2> QED BY <2>6
<1>3. T = Nat
  <2> HIDE DEF T
  <2>1. T \subseteq Nat
    BY DEF T
  <2> QED BY <1>1, <1>2, <2>1, SetInduction
<1> QED BY <1>3

\* After i turns of Del's loop: what it has written is what Without keeps of the first i
\* entries, and it has written over nothing the range has still to read.
DelDone(out, c, k, i) ==
  /\ Behind(out.cells, out.n, c, i)
  /\ Slice(out.cells, out.n) = Without(Slice(c, i), k)

\* A turn writes at most one entry, at or before the one it read.
LEMMA DelTurnDone ==
  ASSUME NEW c \in Seq(Cell), NEW k, NEW i \in Nat, i + 1 <= Len(c),
         \A j \in 1 .. i + 1 : c[j] \in Entry, NEW out, DelDone(out, c, k, i)
  PROVE  DelDone(DelTurn(out, i + 1, k), c, k, i + 1)
<1> DEFINE x == c[i + 1]
<1>0. Len(c) \in Nat /\ x \in Entry /\ i + 1 \in i + 1 .. Len(c) /\ i + 1 \in 1 .. i + 1 /\ i <= Len(c)
  BY LenProperties
<1>1. out.cells[i + 1] = x
  BY <1>0 DEF DelDone, Behind
<1>2. Slice(c, i + 1) = Append(Slice(c, i), x) /\ Slice(c, i) \in Seq(Entry)
  <2>1. Filled(c, i + 1)
    BY DEF Filled
  <2> QED BY <2>1, SliceNext
<1> HIDE DEF x
<1>3. Without(Slice(c, i + 1), k)
        = IF Matches(x, k) THEN Without(Slice(c, i), k) ELSE Append(Without(Slice(c, i), k), x)
  BY <1>0, <1>2, WithoutAppend
<1>4. CASE Matches(x, k)
  <2>1. DelTurn(out, i + 1, k) = out
    BY <1>1, <1>4 DEF DelTurn
  <2> QED BY <1>3, <1>4, <2>1, TurnSkips DEF DelDone
<1>5. CASE ~ Matches(x, k)
  <2> DEFINE d == Write(out.cells, out.n, x)
             new == [cells |-> d, n |-> out.n + 1]
  <2>1. DelTurn(out, i + 1, k) = new
    BY <1>1, <1>5 DEF DelTurn, Write
  <2>2. Behind(d, out.n + 1, c, i + 1) /\ Slice(d, out.n + 1) = Append(Slice(out.cells, out.n), x)
    <3>1. Behind(out.cells, out.n, c, i)
      BY DEF DelDone
    <3> QED BY <1>0, <3>1, TurnWrites
  <2> HIDE DEF d
  <2>3. Slice(d, out.n + 1) = Without(Slice(c, i + 1), k)
    BY <1>3, <1>5, <2>2 DEF DelDone
  <2>4. DelDone(new, c, k, i + 1)
    BY <2>2, <2>3 DEF DelDone
  <2> QED BY <2>1, <2>4
<1> QED BY <1>4, <1>5

\* All of Del's turns, by induction on their number.
LEMMA DelLoopDone ==
  ASSUME NEW c \in Seq(Cell), NEW k, NEW n \in Nat, n <= Len(c), \A j \in 1 .. n : c[j] \in Entry
  PROVE  DelDone(DelLoop(c, n, k), c, k, n)
<1> DEFINE f == CHOOSE g : DelTo(g, c, k, n)
           T == {i \in Nat : i <= n => DelDone(f[i], c, k, i)}
<1>1. DelTo(f, c, k, n)
  BY DelExists
<1>2. DelLoop(c, n, k) = f[n]
  BY DEF DelLoop, DelTo
<1> HIDE DEF f
<1>3. 0 \in T
  <2>1. f[0] = [cells |-> c, n |-> 0]
    BY <1>1 DEF DelTo
  <2>2. Slice(c, 0) = <<>>
    BY SubSeqEmpty DEF Slice
  <2>3. DelDone([cells |-> c, n |-> 0], c, k, 0)
    BY <2>2, WithoutEmpty DEF DelDone, Behind
  <2> QED BY <2>1, <2>3
<1>4. ASSUME NEW i \in T PROVE i + 1 \in T
  <2> SUFFICES ASSUME i + 1 <= n PROVE DelDone(f[i + 1], c, k, i + 1)
    OBVIOUS
  <2>1. i \in Nat /\ i + 1 \in 0 .. n /\ i + 1 # 0 /\ (i + 1) - 1 = i /\ i <= n
    OBVIOUS
  <2>2. f[i + 1] = DelTurn(f[i], i + 1, k)
    BY <1>1, <2>1 DEF DelTo
  <2>3. DelDone(f[i], c, k, i)
    BY <2>1
  <2>4. i + 1 <= Len(c) /\ \A j \in 1 .. i + 1 : c[j] \in Entry
    BY <2>1, LenProperties
  <2> QED BY <2>1, <2>2, <2>3, <2>4, DelTurnDone
<1>5. T = Nat
  <2> HIDE DEF T
  <2>1. T \subseteq Nat
    BY DEF T
  <2> QED BY <1>3, <1>4, <2>1, SetInduction
<1> QED BY <1>2, <1>5

-----------------------------------------------------------------------------
(* Replaced                                                                *)

\* i is the first of s that matches k.
FirstAt(s, k, i) ==
  i \in 1 .. Len(s) /\ Matches(s[i], k) /\ \A j \in 1 .. i - 1 : ~ Matches(s[j], k)

\* Some entry of s matches k.
Matched(s, k) == \E j \in 1 .. Len(s) : Matches(s[j], k)

\* A set of numbers that has an element has a least one.
LEMMA LeastElement ==
  ASSUME NEW I \in SUBSET Nat, I # {}
  PROVE  \E i \in I : \A j \in I : i <= j
<1> DEFINE R == OpToRel(<, Nat)
<1>1. PICK i \in I : \A j \in I : ~ (<<j, i>> \in R)
  <2>1. IsWellFoundedOn(R, Nat)
    BY NatLessThanWellFounded
  <2> HIDE DEF R
  <2> QED BY <2>1, WFMin
<1>2. \A j \in I : ~ (j < i)
  BY <1>1 DEF OpToRel
<1>3. \A j \in I : i <= j
  <2> TAKE j \in I
  <2>1. ~ (j < i) /\ i \in Nat /\ j \in Nat
    BY <1>2
  <2> QED BY <2>1
<1> QED BY <1>3

\* A list with a match has a first.
LEMMA FirstExists ==
  ASSUME NEW s \in Seq(Entry), NEW k, Matched(s, k)
  PROVE  \E i : FirstAt(s, k, i)
<1> DEFINE I == {j \in 1 .. Len(s) : Matches(s[j], k)}
<1>1. I \in SUBSET Nat /\ I # {} /\ Len(s) \in Nat
  BY LenProperties DEF Matched
<1>2. PICK i \in I : \A j \in I : i <= j
  <2> HIDE DEF I
  <2> QED BY <1>1, LeastElement
<1>3. \A j \in 1 .. i - 1 : ~ Matches(s[j], k)
  BY <1>1, <1>2
<1> QED BY <1>2, <1>3 DEF FirstAt

\* SelectInSeq finds the first match.
LEMMA SelectFirst ==
  ASSUME NEW s \in Seq(Entry), NEW k, NEW i, FirstAt(s, k, i)
  PROVE  SelectInSeq(s, LAMBDA e : Matches(e, k)) = i /\ i # 0
<1> DEFINE I == {j \in 1 .. Len(s) : Matches(s[j], k)}
<1>1. i \in I /\ \A j \in I : i <= j
  BY LenProperties DEF FirstAt
<1>2. I \in SUBSET Nat
  BY LenProperties
<1>3. i = CHOOSE x \in I : \A y \in I : x <= y
  <2> DEFINE m == CHOOSE x \in I : \A y \in I : x <= y
  <2> HIDE DEF I
  <2>1. m \in I /\ \A y \in I : m <= y
    BY <1>1
  <2>2. m <= i /\ i <= m /\ m \in Nat /\ i \in Nat
    BY <1>1, <1>2, <2>1
  <2> HIDE DEF m
  <2>3. i = m
    BY <2>2
  <2> QED BY <2>3 DEF m
<1>4. SelectInSeq(s, LAMBDA e : Matches(e, k)) = IF I # {} THEN CHOOSE x \in I : \A y \in I : x <= y ELSE 0
  BY DEF SelectInSeq, Min
<1>5. i # 0
  BY LenProperties DEF FirstAt
<1> HIDE DEF I
<1> QED BY <1>1, <1>3, <1>4, <1>5

\* Replaced, by whether there is a match.
LEMMA ReplacedFirst ==
  ASSUME NEW s \in Seq(Entry), NEW e \in Entry, NEW i, FirstAt(s, e.key, i)
  PROVE  Replaced(s, e) = SubSeq(s, 1, i - 1) \o <<e>> \o Without(SubSeq(s, i + 1, Len(s)), e.key)
<1>1. SelectInSeq(s, LAMBDA f : Matches(f, e.key)) = i /\ i # 0
  BY SelectFirst
<1> QED BY <1>1, Zenon DEF Replaced

\* Without a match the new entry goes to the end.
LEMMA ReplacedNone ==
  ASSUME NEW s \in Seq(Entry), NEW e \in Entry, ~ Matched(s, e.key)
  PROVE  Replaced(s, e) = Append(s, e)
<1> DEFINE I == {j \in 1 .. Len(s) : Matches(s[j], e.key)}
<1>1. I = {}
  BY DEF Matched
<1>2. SelectInSeq(s, LAMBDA f : Matches(f, e.key)) = 0
  BY <1>1 DEF SelectInSeq
<1> QED BY <1>2, Zenon DEF Replaced

\* Parts of a list with one more entry.
LEMMA SubSeqAppend ==
  ASSUME NEW s \in Seq(Entry), NEW x \in Entry, NEW m \in 1 .. Len(s) + 1
  PROVE  /\ \A n \in 0 .. Len(s) : SubSeq(Append(s, x), m, n) = SubSeq(s, m, n)
         /\ SubSeq(Append(s, x), m, Len(s) + 1) = Append(SubSeq(s, m, Len(s)), x)
         /\ \A n \in 0 .. Len(s) : SubSeq(s, m, n) \in Seq(Entry)
<1> DEFINE t == Append(s, x)
           l == Len(s)
<1>1. l \in Nat /\ t \in Seq(Entry) /\ Len(t) = l + 1 /\ t[l + 1] = x
      /\ (\A i \in 1 .. l : s[i] = t[i] /\ s[i] \in Entry) /\ m \in 1 .. l + 1
  BY AppendProperties, LenProperties, ElementOfSeq
<1> HIDE DEF t, l
<1>2. ASSUME NEW n \in 0 .. l PROVE SubSeq(t, m, n) = SubSeq(s, m, n) /\ SubSeq(s, m, n) \in Seq(Entry)
  <2> DEFINE a == SubSeq(s, m, n)
             b == SubSeq(t, m, n)
  <2>1. m \in Int /\ n \in Int /\ \A i \in m .. n : s[i] \in Entry /\ t[i] \in Entry /\ s[i] = t[i]
    BY <1>1
  <2>2. /\ a \in Seq(Entry) /\ Len(a) = IF m <= n THEN n - m + 1 ELSE 0
        /\ \A i \in 1 .. n - m + 1 : a[i] = s[m + i - 1]
    BY <2>1, SubSeqProperties
  <2>3. /\ b \in Seq(Entry) /\ Len(b) = IF m <= n THEN n - m + 1 ELSE 0
        /\ \A i \in 1 .. n - m + 1 : b[i] = t[m + i - 1]
    BY <2>1, SubSeqProperties
  <2> HIDE DEF a, b
  <2>4. \A i \in 1 .. Len(a) : a[i] = b[i]
    <3> TAKE i \in 1 .. Len(a)
    <3>1. i \in 1 .. n - m + 1 /\ m + i - 1 \in m .. n
      BY <1>1, <2>2
    <3> QED BY <2>1, <2>2, <2>3, <3>1
  <2>5. a = b
    BY <2>2, <2>3, <2>4, SeqEqual
  <2> QED BY <2>2, <2>5 DEF a, b
<1>3. SubSeq(t, m, l + 1) = Append(SubSeq(s, m, l), x)
  <2>1. m \in 1 .. Len(t) /\ l + 1 \in m .. Len(t) /\ (l + 1) - 1 = l /\ l \in 0 .. l
    BY <1>1
  <2>2. SubSeq(t, m, l + 1) = SubSeq(t, m, (l + 1) - 1) \o <<t[l + 1]>>
    BY <1>1, <2>1, SubSeqRecursiveSecond
  <2>3. SubSeq(t, m, l) = SubSeq(s, m, l) /\ SubSeq(s, m, l) \in Seq(Entry)
    BY <1>2, <2>1
  <2>4. Append(SubSeq(s, m, l), x) = SubSeq(s, m, l) \o <<x>>
    BY <2>3, AppendIsConcat
  <2> QED BY <1>1, <2>1, <2>2, <2>3, <2>4
<1> QED BY <1>2, <1>3 DEF t, l

\* A first match at the end of a list is where the new entry goes.
LEMMA ReplacedFound ==
  ASSUME NEW s \in Seq(Entry), NEW x \in Entry, NEW e \in Entry,
         ~ Matched(s, e.key), Matches(x, e.key)
  PROVE  Replaced(Append(s, x), e) = Append(s, e)
<1> DEFINE t == Append(s, x)
           l == Len(s)
<1>1. l \in Nat /\ t \in Seq(Entry) /\ Len(t) = l + 1 /\ t[l + 1] = x /\ \A i \in 1 .. l : s[i] = t[i]
  BY AppendProperties, LenProperties
<1>2. SubSeq(t, 1, l) = s
  <2>1. 1 \in 1 .. Len(s) + 1 /\ Len(s) \in 0 .. Len(s)
    BY LenProperties
  <2> QED BY <2>1, SubSeqAppend, SubSeqFull
<1> HIDE DEF t
<1>3. FirstAt(t, e.key, l + 1)
  <2>1. \A j \in 1 .. l : ~ Matches(s[j], e.key)
    BY DEF Matched
  <2> HIDE DEF l
  <2> QED BY <1>1, <2>1 DEF FirstAt
<1> HIDE DEF l
<1>4. Replaced(t, e) = SubSeq(t, 1, (l + 1) - 1) \o <<e>> \o Without(SubSeq(t, (l + 1) + 1, Len(t)), e.key)
  BY <1>1, <1>3, ReplacedFirst
<1>5. SubSeq(t, (l + 1) + 1, Len(t)) = <<>>
  BY <1>1, SubSeqEmpty
<1>6. (l + 1) - 1 = l
  BY <1>1
<1>7. Replaced(t, e) = s \o <<e>> \o <<>>
  BY <1>2, <1>4, <1>5, <1>6, WithoutEmpty
<1>8. s \o <<e>> = Append(s, e) /\ Append(s, e) \in Seq(Entry)
  BY AppendIsConcat, AppendProperties
<1>9. Append(s, e) \o <<>> = Append(s, e)
  BY <1>8, ConcatEmptySeq
<1> QED BY <1>7, <1>8, <1>9 DEF t

\* After the first match, one more entry is dropped if it matches and kept if not.
LEMMA ReplacedAppend ==
  ASSUME NEW s \in Seq(Entry), NEW x \in Entry, NEW e \in Entry, Matched(s, e.key)
  PROVE  Replaced(Append(s, x), e)
           = IF Matches(x, e.key) THEN Replaced(s, e) ELSE Append(Replaced(s, e), x)
<1> DEFINE t == Append(s, x)
           l == Len(s)
<1>1. l \in Nat /\ t \in Seq(Entry) /\ Len(t) = l + 1 /\ t[l + 1] = x /\ \A i \in 1 .. l : s[i] = t[i]
  BY AppendProperties, LenProperties
<1>2. PICK i : FirstAt(s, e.key, i)
  BY FirstExists
<1>3. i \in 1 .. l /\ i \in Nat /\ i - 1 \in 0 .. l /\ i + 1 \in 1 .. l + 1
  <2>1. i \in 1 .. l
    BY <1>2 DEF FirstAt
  <2> HIDE DEF l
  <2> QED BY <1>1, <2>1
<1> DEFINE p == SubSeq(s, 1, i - 1)
           r == SubSeq(s, i + 1, l)
           k == e.key
<1>4. SubSeq(t, 1, i - 1) = p /\ p \in Seq(Entry)
  <2>1. 1 \in 1 .. Len(s) + 1
    BY LenProperties
  <2> QED BY <1>3, <2>1, SubSeqAppend
<1>5. SubSeq(t, i + 1, l + 1) = Append(r, x) /\ r \in Seq(Entry)
  <2>1. Len(s) \in 0 .. Len(s)
    BY LenProperties
  <2> QED BY <1>3, <2>1, SubSeqAppend
<1> HIDE DEF t
<1>6. FirstAt(t, k, i)
  BY <1>1, <1>2, <1>3 DEF FirstAt
<1>7. Replaced(s, e) = p \o <<e>> \o Without(r, k)
  BY <1>2, ReplacedFirst
<1>8. Replaced(t, e) = p \o <<e>> \o Without(Append(r, x), k)
  <2>1. Replaced(t, e) = SubSeq(t, 1, i - 1) \o <<e>> \o Without(SubSeq(t, i + 1, Len(t)), e.key)
    BY <1>1, <1>6, ReplacedFirst
  <2>2. SubSeq(t, i + 1, Len(t)) = Append(r, x)
    BY <1>1, <1>5
  <2> HIDE DEF p, r
  <2> QED BY <1>4, <2>1, <2>2
<1> HIDE DEF p, r, k
<1>9. Without(Append(r, x), k) = IF Matches(x, k) THEN Without(r, k) ELSE Append(Without(r, k), x)
  BY <1>5, WithoutAppend
<1>10. CASE Matches(x, k)
  <2>1. Replaced(t, e) = Replaced(s, e)
    BY <1>7, <1>8, <1>9, <1>10
  <2> QED BY <1>10, <2>1 DEF t, k
<1>11. CASE ~ Matches(x, k)
  <2> DEFINE q == p \o <<e>>
             w == Without(r, k)
  <2>1. w \in Seq(Entry)
    BY <1>5, WithoutIsList
  <2>2. q \in Seq(Entry)
    <3>1. <<e>> \in Seq(Entry)
      OBVIOUS
    <3> QED BY <1>4, <3>1, ConcatProperties
  <2> HIDE DEF q, w
  <2>3. <<x>> \in Seq(Entry) /\ q \o w \in Seq(Entry)
    BY <2>1, <2>2, ConcatProperties
  <2>4. q \o Append(w, x) = Append(q \o w, x)
    <3>1. Append(w, x) = w \o <<x>>
      BY <2>1, AppendIsConcat
    <3>2. Append(q \o w, x) = (q \o w) \o <<x>>
      BY <2>3, AppendIsConcat
    <3>3. (q \o w) \o <<x>> = q \o (w \o <<x>>)
      BY <2>1, <2>2, <2>3, ConcatAssociative
    <3> QED BY <3>1, <3>2, <3>3
  <2>5. Replaced(t, e) = Append(Replaced(s, e), x)
    BY <1>7, <1>8, <1>9, <1>11, <2>4 DEF q, w
  <2> QED BY <1>11, <2>5 DEF t, k
<1> QED BY <1>10, <1>11

-----------------------------------------------------------------------------
(* Set                                                                     *)

\* f is Set's loop over the first n cells, as a function of the turns made.
SetTo(f, cells, e, n) ==
  f = [i \in 0 .. n |-> IF i = 0 THEN [cells |-> cells, n |-> 0, replaced |-> FALSE]
                        ELSE SetTurn(f[i - 1], i, e)]

\* There is such a function for every number of turns.
LEMMA SetExists == \A c, e : \A n \in Nat : \E f : SetTo(f, c, e, n)
<1> SUFFICES ASSUME NEW c, NEW e PROVE \A n \in Nat : \E f : SetTo(f, c, e, n)
  OBVIOUS
<1> DEFINE T == {n \in Nat : \E f : SetTo(f, c, e, n)}
           start == [cells |-> c, n |-> 0, replaced |-> FALSE]
<1>1. 0 \in T
  <2> DEFINE f == [i \in 0 .. 0 |-> start]
  <2>1. SetTo(f, c, e, 0)
    BY DEF SetTo
  <2> QED BY <2>1
<1> HIDE DEF start
<1>2. ASSUME NEW n \in T PROVE n + 1 \in T
  <2>1. PICK f : SetTo(f, c, e, n)
    OBVIOUS
  <2> DEFINE g == [i \in 0 .. n + 1 |-> IF i <= n THEN f[i] ELSE SetTurn(f[n], n + 1, e)]
  <2>2. g[0] = start
    BY <2>1 DEF SetTo, start
  <2>3. ASSUME NEW i \in 1 .. n + 1 PROVE g[i] = SetTurn(g[i - 1], i, e)
    <3>1. CASE i = n + 1
      BY <3>1
    <3>2. CASE i # n + 1
      <4>1. i \in 0 .. n /\ i # 0 /\ g[i] = f[i] /\ g[i - 1] = f[i - 1]
        BY <3>2
      <4>2. f[i] = SetTurn(f[i - 1], i, e)
        BY <2>1, <4>1 DEF SetTo
      <4> QED BY <4>1, <4>2
    <3> QED BY <3>1, <3>2
  <2>4. g = [i \in 0 .. n + 1 |-> g[i]]
    OBVIOUS
  <2> HIDE DEF g
  <2>5. \A i \in 0 .. n + 1 : g[i] = IF i = 0 THEN start ELSE SetTurn(g[i - 1], i, e)
    <3> TAKE i \in 0 .. n + 1
    <3>1. i = 0 \/ i \in 1 .. n + 1
      OBVIOUS
    <3> QED BY <2>2, <2>3, <3>1
  <2>6. SetTo(g, c, e, n + 1)
    BY <2>4, <2>5, Zenon DEF SetTo, start
  <2> QED BY <2>6
<1>3. T = Nat
  <2> HIDE DEF T
  <2>1. T \subseteq Nat
    BY DEF T
  <2> QED BY <1>1, <1>2, <2>1, SetInduction
<1> QED BY <1>3

\* After i turns of Set's loop: while it has met no match, it has written the first i entries
\* as they were; after one, what Replaced makes of them.  It has written over nothing the range
\* has still to read.
SetDone(out, c, e, i) ==
  /\ Behind(out.cells, out.n, c, i)
  /\ out.replaced <=> Matched(Slice(c, i), e.key)
  /\ out.replaced => Slice(out.cells, out.n) = Replaced(Slice(c, i), e)
  /\ ~ out.replaced => Slice(out.cells, out.n) = Slice(c, i)

\* Whether one more entry gives a match.
LEMMA MatchedAppend ==
  ASSUME NEW s \in Seq(Entry), NEW x \in Entry, NEW k
  PROVE  Matched(Append(s, x), k) <=> Matched(s, k) \/ Matches(x, k)
<1>1. /\ Len(s) \in Nat /\ Len(Append(s, x)) = Len(s) + 1 /\ Append(s, x)[Len(s) + 1] = x
      /\ \A i \in 1 .. Len(s) : Append(s, x)[i] = s[i]
  BY AppendProperties, LenProperties
<1>2. ASSUME Matched(Append(s, x), k) PROVE Matched(s, k) \/ Matches(x, k)
  <2>1. PICK j \in 1 .. Len(s) + 1 : Matches(Append(s, x)[j], k)
    BY <1>1, <1>2 DEF Matched
  <2>2. j = Len(s) + 1 \/ j \in 1 .. Len(s)
    BY <1>1
  <2> QED BY <1>1, <2>1, <2>2 DEF Matched
<1>3. ASSUME Matched(s, k) \/ Matches(x, k) PROVE Matched(Append(s, x), k)
  <2>1. \A j \in 1 .. Len(s) : j \in 1 .. Len(s) + 1
    BY <1>1
  <2>2. Len(s) + 1 \in 1 .. Len(s) + 1
    BY <1>1
  <2> QED BY <1>1, <1>3, <2>1, <2>2 DEF Matched
<1> QED BY <1>2, <1>3

\* A turn of Set's loop: a first match is replaced, a later one dropped, any other entry moved up.
LEMMA SetTurnDone ==
  ASSUME NEW c \in Seq(Cell), NEW e \in Entry, NEW i \in Nat, i + 1 <= Len(c),
         \A j \in 1 .. i + 1 : c[j] \in Entry, NEW out, SetDone(out, c, e, i)
  PROVE  SetDone(SetTurn(out, i + 1, e), c, e, i + 1)
<1> DEFINE x == c[i + 1]
           s == Slice(c, i)
           k == e.key
<1>0. Len(c) \in Nat /\ x \in Entry /\ i + 1 \in i + 1 .. Len(c) /\ i <= Len(c)
  BY LenProperties
<1>1. out.cells[i + 1] = x
  BY <1>0 DEF SetDone, Behind
<1>2. Slice(c, i + 1) = Append(s, x) /\ s \in Seq(Entry)
  <2>1. Filled(c, i + 1)
    BY DEF Filled
  <2> QED BY <2>1, SliceNext
<1> HIDE DEF x, s, k
<1>3. Matched(Slice(c, i + 1), k) <=> Matched(s, k) \/ Matches(x, k)
  <2>1. Matched(Append(s, x), k) <=> Matched(s, k) \/ Matches(x, k)
    BY <1>0, <1>2, MatchedAppend, Zenon
  <2> QED BY <1>2, <2>1, Zenon
<1>4. /\ out.replaced <=> Matched(s, k)
      /\ out.replaced => Slice(out.cells, out.n) = Replaced(s, e)
      /\ ~ out.replaced => Slice(out.cells, out.n) = s
  BY DEF SetDone, s, k
<1>5. CASE Matches(x, k) /\ out.replaced
  <2>1. SetTurn(out, i + 1, e) = out
    BY <1>1, <1>5 DEF SetTurn, k
  <2>2. Replaced(Slice(c, i + 1), e) = Replaced(s, e)
    BY <1>0, <1>2, <1>4, <1>5, ReplacedAppend DEF k
  <2>3. SetDone(out, c, e, i + 1)
    <3>1. Behind(out.cells, out.n, c, i + 1)
      BY TurnSkips DEF SetDone
    <3> QED BY <1>3, <1>4, <1>5, <2>2, <3>1 DEF SetDone, k
  <2> QED BY <2>1, <2>3
<1>6. CASE ~ (Matches(x, k) /\ out.replaced)
  <2> DEFINE y == IF Matches(x, k) THEN e ELSE x
             d == Write(out.cells, out.n, y)
             new == [cells |-> d, n |-> out.n + 1, replaced |-> out.replaced \/ Matches(x, k)]
  <2>1. SetTurn(out, i + 1, e) = new
    BY <1>1, <1>6 DEF SetTurn, Write, k
  <2>2. y \in Entry
    BY <1>0
  <2> HIDE DEF y
  <2>3. Behind(d, out.n + 1, c, i + 1) /\ Slice(d, out.n + 1) = Append(Slice(out.cells, out.n), y)
    <3>1. Behind(out.cells, out.n, c, i)
      BY DEF SetDone
    <3> QED BY <1>0, <2>2, <3>1, TurnWrites
  <2> HIDE DEF d
  <2>4. ASSUME Matches(x, k) PROVE Slice(d, out.n + 1) = Replaced(Slice(c, i + 1), e)
    <3>1. ~ out.replaced /\ ~ Matched(s, k) /\ Slice(out.cells, out.n) = s
      BY <1>4, <1>6, <2>4
    <3>2. y = e
      BY <2>4 DEF y
    <3> QED BY <1>0, <1>2, <2>3, <2>4, <3>1, <3>2, ReplacedFound DEF k
  <2>5. ASSUME ~ Matches(x, k), out.replaced PROVE Slice(d, out.n + 1) = Replaced(Slice(c, i + 1), e)
    <3>1. Matched(s, k) /\ Slice(out.cells, out.n) = Replaced(s, e)
      BY <1>4, <2>5
    <3>2. y = x
      BY <2>5 DEF y
    <3> QED BY <1>0, <1>2, <2>3, <2>5, <3>1, <3>2, ReplacedAppend DEF k
  <2>6. ASSUME ~ Matches(x, k), ~ out.replaced PROVE Slice(d, out.n + 1) = Slice(c, i + 1)
    BY <1>2, <1>4, <2>3, <2>6 DEF y
  <2>7. new.replaced <=> Matched(Slice(c, i + 1), k)
    BY <1>3, <1>4
  <2>8. /\ new.replaced => Slice(d, out.n + 1) = Replaced(Slice(c, i + 1), e)
        /\ ~ new.replaced => Slice(d, out.n + 1) = Slice(c, i + 1)
    BY <2>4, <2>5, <2>6
  <2>9. new.cells = d /\ new.n = out.n + 1
    OBVIOUS
  <2> HIDE DEF new
  <2>10. SetDone(new, c, e, i + 1)
    BY <2>3, <2>7, <2>8, <2>9 DEF SetDone, k
  <2> QED BY <2>1, <2>10
<1> QED BY <1>5, <1>6

\* All of Set's turns, by induction on their number.
LEMMA SetLoopDone ==
  ASSUME NEW c \in Seq(Cell), NEW e \in Entry, NEW n \in Nat, n <= Len(c), \A j \in 1 .. n : c[j] \in Entry
  PROVE  SetDone(SetLoop(c, n, e), c, e, n)
<1> DEFINE f == CHOOSE g : SetTo(g, c, e, n)
           T == {i \in Nat : i <= n => SetDone(f[i], c, e, i)}
<1>1. SetTo(f, c, e, n)
  BY SetExists
<1>2. SetLoop(c, n, e) = f[n]
  BY DEF SetLoop, SetTo
<1> HIDE DEF f
<1>3. 0 \in T
  <2> DEFINE start == [cells |-> c, n |-> 0, replaced |-> FALSE]
  <2>1. f[0] = start
    BY <1>1 DEF SetTo
  <2>2. Slice(c, 0) = <<>> /\ Len(<<>>) = 0
    BY SubSeqEmpty, EmptySeq DEF Slice
  <2>3. ~ Matched(Slice(c, 0), e.key)
    BY <2>2 DEF Matched
  <2>4. SetDone(start, c, e, 0)
    BY <2>3 DEF SetDone, Behind
  <2> QED BY <2>1, <2>4
<1>4. ASSUME NEW i \in T PROVE i + 1 \in T
  <2> SUFFICES ASSUME i + 1 <= n PROVE SetDone(f[i + 1], c, e, i + 1)
    OBVIOUS
  <2>1. i \in Nat /\ i + 1 \in 0 .. n /\ i + 1 # 0 /\ (i + 1) - 1 = i /\ i <= n
    OBVIOUS
  <2>2. f[i + 1] = SetTurn(f[i], i + 1, e)
    BY <1>1, <2>1 DEF SetTo
  <2>3. SetDone(f[i], c, e, i)
    BY <2>1
  <2>4. i + 1 <= Len(c) /\ \A j \in 1 .. i + 1 : c[j] \in Entry
    BY <2>1, LenProperties
  <2> QED BY <2>1, <2>2, <2>3, <2>4, SetTurnDone
<1>5. T = Nat
  <2> HIDE DEF T
  <2>1. T \subseteq Nat
    BY DEF T
  <2> QED BY <1>3, <1>4, <2>1, SetInduction
<1> QED BY <1>2, <1>5

-----------------------------------------------------------------------------
(* The calls                                                               *)

\* Add appends.
LEMMA AddDoes ==
  ASSUME SlicesOK, NEW h \in Var, NEW e \in Entry, Add(h, e)
  PROVE  SlicesOK' /\ View(h)' = Append(View(h), e) /\ OthersKept(h)
<1> DEFINE c == heap[entries[h].array]
           n == entries[h].len
<1>1. c \in Seq(Cell) /\ n \in Nat /\ n < MaxLen /\ n <= Len(c) /\ \A i \in 1 .. n : c[i] \in Entry
  BY SliceFacts DEF Add
<1>2. entries[h].array = 0 => c = <<>>
  BY DEF SlicesOK
<1>3. Extend(h, c, n, e) /\ View(h) = Slice(c, n)
  BY DEF Add, View
<1> HIDE DEF c, n
<1> QED BY <1>1, <1>2, <1>3, ExtendViews

\* Set replaces the first match and drops the others, or appends.
LEMMA SetDoes ==
  ASSUME SlicesOK, NEW h \in Var, NEW e \in Entry, Set(h, e)
  PROVE  SlicesOK' /\ View(h)' = Replaced(View(h), e) /\ OthersKept(h)
<1> DEFINE c == heap[entries[h].array]
           n == entries[h].len
           out == SetLoop(c, n, e)
<1>1. /\ c \in Seq(Cell) /\ n \in 0 .. MaxLen /\ MaxLen \in Nat /\ n \in Nat
      /\ n <= Len(c) /\ \A i \in 1 .. n : c[i] \in Entry
  BY SliceFacts
<1>2. View(h) = Slice(c, n) /\ View(h) \in Seq(Entry)
  BY SliceFacts DEF View
<1>3. entries[h].array = 0 => c = <<>>
  BY DEF SlicesOK
<1>4. /\ out.replaced \/ out.n < MaxLen
      /\ IF out.replaced THEN Keep(h, out.cells, out.n) ELSE Extend(h, out.cells, out.n, e)
  BY DEF Set
<1> HIDE DEF c, n
<1>5. SetDone(out, c, e, n)
  BY <1>1, SetLoopDone
<1> HIDE DEF out
<1>6. /\ out.cells \in Seq(Cell) /\ Len(out.cells) = Len(c) /\ out.n \in Nat /\ out.n \in 0 .. MaxLen
      /\ out.n <= Len(out.cells) /\ \A j \in 1 .. out.n : out.cells[j] \in Entry
  BY <1>1, <1>5, LenProperties DEF SetDone, Behind
<1>7. entries[h].array = 0 => out.cells = <<>>
  BY <1>3, <1>6, EmptySeq
<1>8. CASE out.replaced
  <2>1. Slice(out.cells, out.n) = Replaced(View(h), e)
    BY <1>2, <1>5, <1>8 DEF SetDone
  <2>2. Slice(out.cells, out.n) \in Seq(Entry)
    BY <1>6, SliceOf
  <2>3. Keep(h, out.cells, out.n)
    BY <1>4, <1>8
  <2> QED BY <1>6, <1>7, <2>1, <2>2, <2>3, KeepViews
<1>9. CASE ~ out.replaced
  <2>1. Slice(out.cells, out.n) = View(h) /\ ~ Matched(View(h), e.key)
    BY <1>2, <1>5, <1>9 DEF SetDone
  <2>2. Replaced(View(h), e) = Append(View(h), e)
    BY <1>2, <2>1, ReplacedNone
  <2>3. Extend(h, out.cells, out.n, e) /\ out.n < MaxLen
    BY <1>4, <1>9
  <2> QED BY <1>6, <1>7, <2>1, <2>2, <2>3, ExtendViews
<1> QED BY <1>8, <1>9

\* Del leaves what does not match.
LEMMA DelDoes ==
  ASSUME SlicesOK, NEW h \in Var, NEW k \in Key, Del(h, k)
  PROVE  SlicesOK' /\ View(h)' = Without(View(h), k) /\ OthersKept(h)
<1> DEFINE c == heap[entries[h].array]
           n == entries[h].len
           out == DelLoop(c, n, k)
<1>1. /\ c \in Seq(Cell) /\ n \in 0 .. MaxLen /\ MaxLen \in Nat /\ n \in Nat
      /\ n <= Len(c) /\ \A i \in 1 .. n : c[i] \in Entry
  BY SliceFacts
<1>2. View(h) = Slice(c, n)
  BY DEF View
<1>3. entries[h].array = 0 => c = <<>>
  BY DEF SlicesOK
<1>4. Keep(h, out.cells, out.n)
  BY DEF Del
<1> HIDE DEF c, n
<1>5. DelDone(out, c, k, n)
  BY <1>1, DelLoopDone
<1> HIDE DEF out
<1>6. /\ out.cells \in Seq(Cell) /\ Len(out.cells) = Len(c) /\ out.n \in Nat /\ out.n \in 0 .. MaxLen
      /\ out.n <= Len(out.cells) /\ \A j \in 1 .. out.n : out.cells[j] \in Entry
  BY <1>1, <1>5, LenProperties DEF DelDone, Behind
<1>7. entries[h].array = 0 => out.cells = <<>>
  BY <1>3, <1>6, EmptySeq
<1>8. Slice(out.cells, out.n) = Without(View(h), k)
  BY <1>2, <1>5 DEF DelDone
<1>9. Slice(out.cells, out.n) \in Seq(Entry)
  BY <1>6, SliceOf
<1> QED BY <1>4, <1>6, <1>7, <1>8, <1>9, KeepViews

\* Clone copies, into an array of the copy's own.
LEMMA CloneDoes ==
  ASSUME SlicesOK, NEW h \in Var, NEW g \in Var, Clone(h, g)
  PROVE  SlicesOK' /\ View(g)' = View(h) /\ OthersKept(g)
<1> DEFINE n == entries[h].len
           v == View(h)
<1>1. v \in Seq(Entry) /\ Len(v) = n /\ n \in 0 .. MaxLen
  BY SliceFacts
<1>2. Move(g, v, n)
  BY DEF Clone
<1> HIDE DEF n, v
<1>3. v \in Seq(Cell)
  BY <1>1, SeqMonotonic DEF Cell
<1>4. Slice(v, n) = v
  BY <1>1, SubSeqFull DEF Slice
<1>5. n <= Len(v)
  BY <1>1, HeaderAssumption
<1> QED BY <1>1, <1>2, <1>3, <1>4, <1>5, MoveViews DEF v

-----------------------------------------------------------------------------
(* Values                                                                  *)

\* Values' recursive function for the first n entries of s, and one turn of it.
ValuesNext(p, e, k) == IF e.key = k THEN Append(p, e.value) ELSE p
ValuesTo(f, s, k, n) == f = [i \in 0 .. n |-> IF i = 0 THEN <<>> ELSE ValuesNext(f[i - 1], s[i], k)]

LEMMA ValuesExists == \A s, k : \A n \in Nat : \E f : ValuesTo(f, s, k, n)
<1> SUFFICES ASSUME NEW s, NEW k PROVE \A n \in Nat : \E f : ValuesTo(f, s, k, n)
  OBVIOUS
<1> DEFINE T == {n \in Nat : \E f : ValuesTo(f, s, k, n)}
<1>1. 0 \in T
  <2> DEFINE f == [i \in 0 .. 0 |-> <<>>]
  <2>1. ValuesTo(f, s, k, 0)
    BY DEF ValuesTo
  <2> QED BY <2>1
<1>2. ASSUME NEW n \in T PROVE n + 1 \in T
  <2>1. PICK f : ValuesTo(f, s, k, n)
    OBVIOUS
  <2> DEFINE g == [i \in 0 .. n + 1 |-> IF i <= n THEN f[i] ELSE ValuesNext(f[n], s[n + 1], k)]
  <2>2. g[0] = <<>>
    BY <2>1 DEF ValuesTo
  <2>3. ASSUME NEW i \in 1 .. n + 1 PROVE g[i] = ValuesNext(g[i - 1], s[i], k)
    <3>1. CASE i = n + 1
      BY <3>1
    <3>2. CASE i # n + 1
      <4>1. i \in 0 .. n /\ i # 0 /\ g[i] = f[i] /\ g[i - 1] = f[i - 1]
        BY <3>2
      <4>2. f[i] = ValuesNext(f[i - 1], s[i], k)
        BY <2>1, <4>1 DEF ValuesTo
      <4> QED BY <4>1, <4>2
    <3> QED BY <3>1, <3>2
  <2>4. g = [i \in 0 .. n + 1 |-> g[i]]
    OBVIOUS
  <2> HIDE DEF g
  <2>5. \A i \in 0 .. n + 1 : g[i] = IF i = 0 THEN <<>> ELSE ValuesNext(g[i - 1], s[i], k)
    <3> TAKE i \in 0 .. n + 1
    <3>1. i = 0 \/ i \in 1 .. n + 1
      OBVIOUS
    <3> QED BY <2>2, <2>3, <3>1
  <2>6. ValuesTo(g, s, k, n + 1)
    BY <2>4, <2>5, Zenon DEF ValuesTo
  <2> QED BY <2>6
<1>3. T = Nat
  <2> HIDE DEF T
  <2>1. T \subseteq Nat
    BY DEF T
  <2> QED BY <1>1, <1>2, <2>1, SetInduction
<1> QED BY <1>3

LEMMA ValuesAgree ==
  ASSUME NEW s, NEW t, NEW k, NEW n \in Nat, NEW m \in Nat, n <= m,
         \A i \in 1 .. n : s[i] = t[i],
         NEW f, NEW g, ValuesTo(f, s, k, n), ValuesTo(g, t, k, m)
  PROVE  f[n] = g[n]
<1> DEFINE T == {i \in Nat : i <= n => f[i] = g[i]}
<1>1. 0 \in T
  BY DEF ValuesTo
<1>2. ASSUME NEW i \in T PROVE i + 1 \in T
  <2> SUFFICES ASSUME i + 1 <= n PROVE f[i + 1] = g[i + 1]
    OBVIOUS
  <2>1. i + 1 \in 0 .. n /\ i + 1 \in 0 .. m /\ i + 1 # 0 /\ (i + 1) - 1 = i /\ i + 1 \in 1 .. n
    OBVIOUS
  <2>2. f[i + 1] = ValuesNext(f[i], s[i + 1], k)
    BY <2>1 DEF ValuesTo
  <2>3. g[i + 1] = ValuesNext(g[i], t[i + 1], k)
    BY <2>1 DEF ValuesTo
  <2> QED BY <2>1, <2>2, <2>3
<1>3. T = Nat
  <2> HIDE DEF T
  <2>1. T \subseteq Nat
    BY DEF T
  <2> QED BY <1>1, <1>2, <2>1, SetInduction
<1> QED BY <1>3

LEMMA ValuesIs ==
  ASSUME NEW S, NEW s \in Seq(S), NEW k
  PROVE  \E f : ValuesTo(f, s, k, Len(s)) /\ Values(s, k) = f[Len(s)]
<1> DEFINE c == CHOOSE f : ValuesTo(f, s, k, Len(s))
<1>1. ValuesTo(c, s, k, Len(s))
  BY ValuesExists, LenProperties
<1>2. Values(s, k) = c[Len(s)]
  BY DEF Values, ValuesTo, ValuesNext
<1> QED BY <1>1, <1>2

LEMMA ValuesEmpty == ASSUME NEW k PROVE Values(<<>>, k) = <<>>
<1>1. <<>> \in Seq({}) /\ Len(<<>>) = 0
  BY EmptySeq
<1>2. PICK f : ValuesTo(f, <<>>, k, 0) /\ Values(<<>>, k) = f[0]
  BY <1>1, ValuesIs
<1> QED BY <1>2 DEF ValuesTo

LEMMA ValuesAppend ==
  ASSUME NEW S, NEW s \in Seq(S), NEW x \in S, NEW k
  PROVE  Values(Append(s, x), k) = ValuesNext(Values(s, k), x, k)
<1> DEFINE t == Append(s, x)
           n == Len(s)
<1>1. n \in Nat /\ t \in Seq(S) /\ Len(t) = n + 1 /\ t[n + 1] = x /\ \A i \in 1 .. n : s[i] = t[i]
  BY AppendProperties, LenProperties
<1> HIDE DEF t
<1>2. PICK f : ValuesTo(f, s, k, n) /\ Values(s, k) = f[n]
  BY ValuesIs
<1> HIDE DEF n
<1>3. PICK g : ValuesTo(g, t, k, n + 1) /\ Values(t, k) = g[n + 1]
  BY <1>1, ValuesIs
<1>4. f[n] = g[n]
  BY <1>1, <1>2, <1>3, ValuesAgree
<1>5. g[n + 1] = ValuesNext(g[n], x, k)
  <2>1. n + 1 \in 0 .. n + 1 /\ n + 1 # 0 /\ (n + 1) - 1 = n
    BY <1>1
  <2> QED BY <1>1, <1>3, <2>1 DEF ValuesTo
<1> QED BY <1>2, <1>3, <1>4, <1>5 DEF t

-----------------------------------------------------------------------------
(* PutAll and RoundTrip                                                    *)

\* PutAll's recursive function for the first n of the fields s, and one turn of it.
PutNext(p, e) == Put(p, e.key, e.value)
PutTo(f, s, b, n) == f = [i \in 0 .. n |-> IF i = 0 THEN b ELSE PutNext(f[i - 1], s[i])]

LEMMA PutAllExists == \A s, b : \A n \in Nat : \E f : PutTo(f, s, b, n)
<1> SUFFICES ASSUME NEW s, NEW b PROVE \A n \in Nat : \E f : PutTo(f, s, b, n)
  OBVIOUS
<1> DEFINE T == {n \in Nat : \E f : PutTo(f, s, b, n)}
<1>1. 0 \in T
  <2> DEFINE f == [i \in 0 .. 0 |-> b]
  <2>1. PutTo(f, s, b, 0)
    BY DEF PutTo
  <2> QED BY <2>1
<1>2. ASSUME NEW n \in T PROVE n + 1 \in T
  <2>1. PICK f : PutTo(f, s, b, n)
    OBVIOUS
  <2> DEFINE g == [i \in 0 .. n + 1 |-> IF i <= n THEN f[i] ELSE PutNext(f[n], s[n + 1])]
  <2>2. g[0] = b
    BY <2>1 DEF PutTo
  <2>3. ASSUME NEW i \in 1 .. n + 1 PROVE g[i] = PutNext(g[i - 1], s[i])
    <3>1. CASE i = n + 1
      BY <3>1
    <3>2. CASE i # n + 1
      <4>1. i \in 0 .. n /\ i # 0 /\ g[i] = f[i] /\ g[i - 1] = f[i - 1]
        BY <3>2
      <4>2. f[i] = PutNext(f[i - 1], s[i])
        BY <2>1, <4>1 DEF PutTo
      <4> QED BY <4>1, <4>2
    <3> QED BY <3>1, <3>2
  <2>4. g = [i \in 0 .. n + 1 |-> g[i]]
    OBVIOUS
  <2> HIDE DEF g
  <2>5. \A i \in 0 .. n + 1 : g[i] = IF i = 0 THEN b ELSE PutNext(g[i - 1], s[i])
    <3> TAKE i \in 0 .. n + 1
    <3>1. i = 0 \/ i \in 1 .. n + 1
      OBVIOUS
    <3> QED BY <2>2, <2>3, <3>1
  <2>6. PutTo(g, s, b, n + 1)
    BY <2>4, <2>5, Zenon DEF PutTo
  <2> QED BY <2>6
<1>3. T = Nat
  <2> HIDE DEF T
  <2>1. T \subseteq Nat
    BY DEF T
  <2> QED BY <1>1, <1>2, <2>1, SetInduction
<1> QED BY <1>3

LEMMA PutAllAgree ==
  ASSUME NEW s, NEW t, NEW b, NEW n \in Nat, NEW m \in Nat, n <= m,
         \A i \in 1 .. n : s[i] = t[i],
         NEW f, NEW g, PutTo(f, s, b, n), PutTo(g, t, b, m)
  PROVE  f[n] = g[n]
<1> DEFINE T == {i \in Nat : i <= n => f[i] = g[i]}
<1>1. 0 \in T
  BY DEF PutTo
<1>2. ASSUME NEW i \in T PROVE i + 1 \in T
  <2> SUFFICES ASSUME i + 1 <= n PROVE f[i + 1] = g[i + 1]
    OBVIOUS
  <2>1. i + 1 \in 0 .. n /\ i + 1 \in 0 .. m /\ i + 1 # 0 /\ (i + 1) - 1 = i /\ i + 1 \in 1 .. n
    OBVIOUS
  <2>2. f[i + 1] = PutNext(f[i], s[i + 1])
    BY <2>1 DEF PutTo
  <2>3. g[i + 1] = PutNext(g[i], t[i + 1])
    BY <2>1 DEF PutTo
  <2> QED BY <2>1, <2>2, <2>3
<1>3. T = Nat
  <2> HIDE DEF T
  <2>1. T \subseteq Nat
    BY DEF T
  <2> QED BY <1>1, <1>2, <2>1, SetInduction
<1> QED BY <1>3

LEMMA PutAllIs ==
  ASSUME NEW S, NEW s \in Seq(S), NEW b
  PROVE  \E f : PutTo(f, s, b, Len(s)) /\ PutAll(b, s) = f[Len(s)]
<1> DEFINE c == CHOOSE f : PutTo(f, s, b, Len(s))
<1>1. PutTo(c, s, b, Len(s))
  BY PutAllExists, LenProperties
<1>2. PutAll(b, s) = c[Len(s)]
  BY DEF PutAll, PutTo, PutNext
<1> QED BY <1>1, <1>2

LEMMA PutAllEmpty == ASSUME NEW b PROVE PutAll(b, <<>>) = b
<1>1. <<>> \in Seq({}) /\ Len(<<>>) = 0
  BY EmptySeq
<1>2. PICK f : PutTo(f, <<>>, b, 0) /\ PutAll(b, <<>>) = f[0]
  BY <1>1, PutAllIs
<1> QED BY <1>2 DEF PutTo

LEMMA PutAllAppend ==
  ASSUME NEW S, NEW s \in Seq(S), NEW x \in S, NEW b
  PROVE  PutAll(b, Append(s, x)) = PutNext(PutAll(b, s), x)
<1> DEFINE t == Append(s, x)
           n == Len(s)
<1>1. n \in Nat /\ t \in Seq(S) /\ Len(t) = n + 1 /\ t[n + 1] = x /\ \A i \in 1 .. n : s[i] = t[i]
  BY AppendProperties, LenProperties
<1> HIDE DEF t
<1>2. PICK f : PutTo(f, s, b, n) /\ PutAll(b, s) = f[n]
  BY PutAllIs
<1> HIDE DEF n
<1>3. PICK g : PutTo(g, t, b, n + 1) /\ PutAll(b, t) = g[n + 1]
  BY <1>1, PutAllIs
<1>4. f[n] = g[n]
  BY <1>1, <1>2, <1>3, PutAllAgree
<1>5. g[n + 1] = PutNext(g[n], x)
  <2>1. n + 1 \in 0 .. n + 1 /\ n + 1 # 0 /\ (n + 1) - 1 = n
    BY <1>1
  <2> QED BY <1>1, <1>3, <2>1 DEF PutTo
<1> QED BY <1>2, <1>3, <1>4, <1>5 DEF t

\* RoundTrip's recursive function for the first n keys of s, and one turn of it.
RoundNext(p, k, caller) == PutAll(p, Fields(k, caller[k]))
RoundTo(f, s, b, caller, n) == f = [i \in 0 .. n |-> IF i = 0 THEN b ELSE RoundNext(f[i - 1], s[i], caller)]

LEMMA RoundTripExists == \A s, b, caller : \A n \in Nat : \E f : RoundTo(f, s, b, caller, n)
<1> SUFFICES ASSUME NEW s, NEW b, NEW caller PROVE \A n \in Nat : \E f : RoundTo(f, s, b, caller, n)
  OBVIOUS
<1> DEFINE T == {n \in Nat : \E f : RoundTo(f, s, b, caller, n)}
<1>1. 0 \in T
  <2> DEFINE f == [i \in 0 .. 0 |-> b]
  <2>1. RoundTo(f, s, b, caller, 0)
    BY DEF RoundTo
  <2> QED BY <2>1
<1>2. ASSUME NEW n \in T PROVE n + 1 \in T
  <2>1. PICK f : RoundTo(f, s, b, caller, n)
    OBVIOUS
  <2> DEFINE g == [i \in 0 .. n + 1 |-> IF i <= n THEN f[i] ELSE RoundNext(f[n], s[n + 1], caller)]
  <2>2. g[0] = b
    BY <2>1 DEF RoundTo
  <2>3. ASSUME NEW i \in 1 .. n + 1 PROVE g[i] = RoundNext(g[i - 1], s[i], caller)
    <3>1. CASE i = n + 1
      BY <3>1
    <3>2. CASE i # n + 1
      <4>1. i \in 0 .. n /\ i # 0 /\ g[i] = f[i] /\ g[i - 1] = f[i - 1]
        BY <3>2
      <4>2. f[i] = RoundNext(f[i - 1], s[i], caller)
        BY <2>1, <4>1 DEF RoundTo
      <4> QED BY <4>1, <4>2
    <3> QED BY <3>1, <3>2
  <2>4. g = [i \in 0 .. n + 1 |-> g[i]]
    OBVIOUS
  <2> HIDE DEF g
  <2>5. \A i \in 0 .. n + 1 : g[i] = IF i = 0 THEN b ELSE RoundNext(g[i - 1], s[i], caller)
    <3> TAKE i \in 0 .. n + 1
    <3>1. i = 0 \/ i \in 1 .. n + 1
      OBVIOUS
    <3> QED BY <2>2, <2>3, <3>1
  <2>6. RoundTo(g, s, b, caller, n + 1)
    BY <2>4, <2>5, Zenon DEF RoundTo
  <2> QED BY <2>6
<1>3. T = Nat
  <2> HIDE DEF T
  <2>1. T \subseteq Nat
    BY DEF T
  <2> QED BY <1>1, <1>2, <2>1, SetInduction
<1> QED BY <1>3

LEMMA RoundTripAgree ==
  ASSUME NEW s, NEW t, NEW b, NEW caller, NEW n \in Nat, NEW m \in Nat, n <= m,
         \A i \in 1 .. n : s[i] = t[i],
         NEW f, NEW g, RoundTo(f, s, b, caller, n), RoundTo(g, t, b, caller, m)
  PROVE  f[n] = g[n]
<1> DEFINE T == {i \in Nat : i <= n => f[i] = g[i]}
<1>1. 0 \in T
  BY DEF RoundTo
<1>2. ASSUME NEW i \in T PROVE i + 1 \in T
  <2> SUFFICES ASSUME i + 1 <= n PROVE f[i + 1] = g[i + 1]
    OBVIOUS
  <2>1. i + 1 \in 0 .. n /\ i + 1 \in 0 .. m /\ i + 1 # 0 /\ (i + 1) - 1 = i /\ i + 1 \in 1 .. n
    OBVIOUS
  <2>2. f[i + 1] = RoundNext(f[i], s[i + 1], caller)
    BY <2>1 DEF RoundTo
  <2>3. g[i + 1] = RoundNext(g[i], t[i + 1], caller)
    BY <2>1 DEF RoundTo
  <2> QED BY <2>1, <2>2, <2>3
<1>3. T = Nat
  <2> HIDE DEF T
  <2>1. T \subseteq Nat
    BY DEF T
  <2> QED BY <1>1, <1>2, <2>1, SetInduction
<1> QED BY <1>3

LEMMA RoundTripIs ==
  ASSUME NEW S, NEW s \in Seq(S), NEW h, NEW caller
  PROVE  \E f : RoundTo(f, s, ToHTTPHeader(h), caller, Len(s)) /\ RoundTrip(h, caller, s) = f[Len(s)]
<1> DEFINE c == CHOOSE f : RoundTo(f, s, ToHTTPHeader(h), caller, Len(s))
<1>1. RoundTo(c, s, ToHTTPHeader(h), caller, Len(s))
  BY RoundTripExists, LenProperties
<1>2. RoundTrip(h, caller, s) = c[Len(s)]
  BY DEF RoundTrip, RoundTo, RoundNext
<1> QED BY <1>1, <1>2

LEMMA RoundTripEmpty == ASSUME NEW h, NEW caller PROVE RoundTrip(h, caller, <<>>) = ToHTTPHeader(h)
<1>1. <<>> \in Seq({}) /\ Len(<<>>) = 0
  BY EmptySeq
<1>2. PICK f : RoundTo(f, <<>>, ToHTTPHeader(h), caller, 0) /\ RoundTrip(h, caller, <<>>) = f[0]
  BY <1>1, RoundTripIs
<1> QED BY <1>2 DEF RoundTo

LEMMA RoundTripAppend ==
  ASSUME NEW S, NEW s \in Seq(S), NEW x \in S, NEW h, NEW caller
  PROVE  RoundTrip(h, caller, Append(s, x)) = RoundNext(RoundTrip(h, caller, s), x, caller)
<1> DEFINE t == Append(s, x)
           n == Len(s)
<1>1. n \in Nat /\ t \in Seq(S) /\ Len(t) = n + 1 /\ t[n + 1] = x /\ \A i \in 1 .. n : s[i] = t[i]
  BY AppendProperties, LenProperties
<1> HIDE DEF t
<1>2. PICK f : RoundTo(f, s, ToHTTPHeader(h), caller, n) /\ RoundTrip(h, caller, s) = f[n]
  BY RoundTripIs
<1> HIDE DEF n
<1>3. PICK g : RoundTo(g, t, ToHTTPHeader(h), caller, n + 1) /\ RoundTrip(h, caller, t) = g[n + 1]
  BY <1>1, RoundTripIs
<1>4. f[n] = g[n]
  BY <1>1, <1>2, <1>3, RoundTripAgree
<1>5. g[n + 1] = RoundNext(g[n], x, caller)
  <2>1. n + 1 \in 0 .. n + 1 /\ n + 1 # 0 /\ (n + 1) - 1 = n
    BY <1>1
  <2> QED BY <1>1, <1>3, <2>1 DEF RoundTo
<1> QED BY <1>2, <1>3, <1>4, <1>5 DEF t

-----------------------------------------------------------------------------
(* The header of a request                                                 *)

\* A header map has values for its keys, and for no others.
HeaderMap(m) == DOMAIN m \subseteq Key /\ \A k \in DOMAIN m : m[k] \in Seq(Value) /\ m[k] # <<>>
ValuesAt(m, k) == IF k \in DOMAIN m THEN m[k] ELSE <<>>

LEMMA ValuesAtFacts ==
  ASSUME NEW m, HeaderMap(m), NEW k \in Key
  PROVE  ValuesAt(m, k) \in Seq(Value) /\ (k \in DOMAIN m <=> ValuesAt(m, k) # <<>>)
BY EmptySeq DEF HeaderMap, ValuesAt

\* A turn adds one value, after those of its key.
LEMMA PutAdds ==
  ASSUME NEW m, HeaderMap(m), NEW k \in Key, NEW v \in Value
  PROVE  /\ HeaderMap(Put(m, k, v))
         /\ \A j \in Key : ValuesAt(Put(m, k, v), j)
                             = IF j = k THEN Append(ValuesAt(m, k), v) ELSE ValuesAt(m, j)
<1> DEFINE p == Put(m, k, v)
<1>1. ValuesAt(m, k) \in Seq(Value)
  BY ValuesAtFacts
<1>2. Append(ValuesAt(m, k), v) \in Seq(Value) /\ Append(ValuesAt(m, k), v) # <<>>
  BY <1>1, AppendProperties
<1>3. DOMAIN p = DOMAIN m \cup {k} /\ \A j \in DOMAIN m : j # k => p[j] = m[j]
  BY DEF Put
<1>4. p[k] = Append(ValuesAt(m, k), v)
  <2>1. CASE k \in DOMAIN m
    BY <2>1 DEF Put, ValuesAt
  <2>2. CASE k \notin DOMAIN m
    <3>1. p[k] = <<v>>
      BY <2>2 DEF Put
    <3>2. Append(<<>>, v) = <<v>>
      OBVIOUS
    <3> QED BY <2>2, <3>1, <3>2 DEF ValuesAt
  <2> QED BY <2>1, <2>2
<1> HIDE DEF p
<1>5. HeaderMap(p)
  BY <1>2, <1>3, <1>4 DEF HeaderMap
<1>6. \A j \in Key : ValuesAt(p, j) = IF j = k THEN Append(ValuesAt(m, k), v) ELSE ValuesAt(m, j)
  BY <1>3, <1>4 DEF ValuesAt
<1> QED BY <1>5, <1>6 DEF p

LEMMA ConcatAppend ==
  ASSUME NEW s \in Seq(Value), NEW t \in Seq(Value), NEW x \in Value
  PROVE  Append(s \o t, x) = s \o Append(t, x)
<1>1. s \o t \in Seq(Value) /\ <<x>> \in Seq(Value)
  BY ConcatProperties
<1>2. Append(s \o t, x) = (s \o t) \o <<x>> /\ Append(t, x) = t \o <<x>>
  BY <1>1, AppendIsConcat
<1> QED BY <1>1, <1>2, ConcatAssociative

LEMMA ValuesType == ASSUME NEW s \in Seq(Entry), NEW k PROVE Values(s, k) \in Seq(Value)
<1> DEFINE T == {t \in Seq(Entry) : Values(t, k) \in Seq(Value)}
<1>1. <<>> \in T
  BY ValuesEmpty, EmptySeq
<1>2. ASSUME NEW t \in T, NEW x \in Entry PROVE Append(t, x) \in T
  <2>1. Values(Append(t, x), k) = ValuesNext(Values(t, k), x, k) /\ Append(t, x) \in Seq(Entry)
    BY ValuesAppend, AppendProperties
  <2>2. x.value \in Value /\ Values(t, k) \in Seq(Value)
    BY DEF Entry
  <2>3. Append(Values(t, k), x.value) \in Seq(Value)
    BY <2>2, AppendProperties
  <2>4. Values(Append(t, x), k) \in Seq(Value)
    BY <2>1, <2>2, <2>3 DEF ValuesNext
  <2> QED BY <2>1, <2>4
<1> HIDE DEF T
<1>3. T \in SUBSET Seq(Entry)
  BY DEF T
<1>4. T = Seq(Entry)
  BY <1>1, <1>2, <1>3, ListInduction
<1> QED BY <1>4 DEF T

\* A loop over the fields es adds their values, in their order.
Adds(p, m, es) ==
  HeaderMap(p) /\ \A k \in Key : ValuesAt(p, k) = ValuesAt(m, k) \o Values(es, k)

LEMMA PutAllAdds ==
  ASSUME NEW m, HeaderMap(m), NEW s \in Seq(Entry)
  PROVE  Adds(PutAll(m, s), m, s)
<1> DEFINE T == {t \in Seq(Entry) : Adds(PutAll(m, t), m, t)}
<1>1. <<>> \in T
  <2>1. \A k \in Key : ValuesAt(m, k) \o <<>> = ValuesAt(m, k)
    BY ValuesAtFacts, ConcatEmptySeq
  <2> QED BY <2>1, PutAllEmpty, ValuesEmpty, EmptySeq DEF Adds
<1>2. ASSUME NEW t \in T, NEW x \in Entry PROVE Append(t, x) \in T
  <2> DEFINE p == PutAll(m, t)
             q == PutAll(m, Append(t, x))
  <2>1. Append(t, x) \in Seq(Entry) /\ t \in Seq(Entry) /\ x.key \in Key /\ x.value \in Value
    BY AppendProperties DEF Entry
  <2>0. x.value \in Value
    BY <2>1
  <2>2. q = Put(p, x.key, x.value)
    BY PutAllAppend DEF PutNext
  <2>3. HeaderMap(p) /\ \A k \in Key : ValuesAt(p, k) = ValuesAt(m, k) \o Values(t, k)
    BY DEF Adds
  <2> HIDE DEF p, q
  <2>4. /\ HeaderMap(q)
        /\ \A j \in Key : ValuesAt(q, j)
             = IF j = x.key THEN Append(ValuesAt(p, x.key), x.value) ELSE ValuesAt(p, j)
    BY <2>1, <2>2, <2>3, PutAdds
  <2>5. ASSUME NEW k \in Key PROVE ValuesAt(q, k) = ValuesAt(m, k) \o Values(Append(t, x), k)
    <3>1. Values(Append(t, x), k) = IF x.key = k THEN Append(Values(t, k), x.value) ELSE Values(t, k)
      BY <2>1, ValuesAppend DEF ValuesNext
    <3>2. ValuesAt(m, k) \in Seq(Value) /\ Values(t, k) \in Seq(Value)
      BY <2>1, ValuesAtFacts, ValuesType
    <3>3. CASE x.key = k
      <4>1. Append(ValuesAt(m, k) \o Values(t, k), x.value) = ValuesAt(m, k) \o Append(Values(t, k), x.value)
        BY <2>0, <3>2, ConcatAppend
      <4> QED BY <2>3, <2>4, <3>1, <3>3, <4>1
    <3>4. CASE x.key # k
      BY <2>3, <2>4, <3>1, <3>4
    <3> QED BY <3>3, <3>4
  <2>6. Adds(q, m, Append(t, x))
    BY <2>4, <2>5 DEF Adds
  <2> QED BY <2>1, <2>6 DEF q
<1> HIDE DEF T
<1>3. T \in SUBSET Seq(Entry)
  BY DEF T
<1>4. T = Seq(Entry)
  BY <1>1, <1>2, <1>3, ListInduction
<1> QED BY <1>4 DEF T

LEMMA FieldsAppend ==
  ASSUME NEW k \in Key, NEW us \in Seq(Value), NEW u \in Value, Fields(k, us) \in Seq(Entry)
  PROVE  Fields(k, Append(us, u)) = Append(Fields(k, us), [key |-> k, value |-> u])
<1> DEFINE n == Len(us)
           x == [key |-> k, value |-> u]
           vs == Append(us, u)
           t == Fields(k, us)
<1>1. n \in Nat /\ Len(vs) = n + 1 /\ vs[n + 1] = u /\ \A i \in 1 .. n : vs[i] = us[i]
  BY AppendProperties, LenProperties
<1>2. Len(t) = n /\ \A i \in 1 .. n : t[i] = [key |-> k, value |-> us[i]]
  BY <1>1 DEF Fields
<1>3. x \in Entry
  BY DEF Entry
<1> HIDE DEF n, x, vs, t
<1>4. Append(t, x) \in Seq(Entry) /\ Len(Append(t, x)) = n + 1 /\ Append(t, x)[n + 1] = x
      /\ \A i \in 1 .. n : Append(t, x)[i] = t[i]
  BY <1>2, <1>3, AppendProperties DEF t
<1>5. Append(t, x) = [i \in 1 .. n + 1 |-> Append(t, x)[i]]
  BY <1>4, LenProperties
<1>6. \A i \in 1 .. n + 1 : Append(t, x)[i] = [key |-> k, value |-> vs[i]]
  <2> TAKE i \in 1 .. n + 1
  <2>1. CASE i = n + 1
    BY <1>1, <1>4, <2>1 DEF x
  <2>2. CASE i \in 1 .. n
    BY <1>1, <1>2, <1>4, <2>2
  <2>3. i = n + 1 \/ i \in 1 .. n
    BY <1>1
  <2> QED BY <2>1, <2>2, <2>3
<1>7. Fields(k, vs) = [i \in 1 .. n + 1 |-> [key |-> k, value |-> vs[i]]]
  BY <1>1 DEF Fields
<1> QED BY <1>5, <1>6, <1>7 DEF t, vs, x

\* The fields of one key have its values, and no other key's.
LEMMA FieldsValues ==
  ASSUME NEW k \in Key, NEW vs \in Seq(Value), NEW j
  PROVE  Fields(k, vs) \in Seq(Entry) /\ Values(Fields(k, vs), j) = IF j = k THEN vs ELSE <<>>
<1> DEFINE T == {us \in Seq(Value) : /\ Fields(k, us) \in Seq(Entry)
                                     /\ Values(Fields(k, us), j) = IF j = k THEN us ELSE <<>>}
<1>1. <<>> \in T
  <2>1. Fields(k, <<>>) = <<>>
    BY DEF Fields
  <2> QED BY <2>1, ValuesEmpty, EmptySeq
<1>2. ASSUME NEW us \in T, NEW u \in Value PROVE Append(us, u) \in T
  <2> DEFINE x == [key |-> k, value |-> u]
             t == Fields(k, us)
  <2>1. us \in Seq(Value) /\ t \in Seq(Entry) /\ Append(us, u) \in Seq(Value) /\ Values(t, j) = IF j = k THEN us ELSE <<>>
    BY AppendProperties
  <2>2. x \in Entry /\ x.key = k /\ x.value = u
    BY DEF Entry
  <2>3. Fields(k, Append(us, u)) = Append(t, x)
    BY <2>1, FieldsAppend
  <2> HIDE DEF x, t
  <2>4. Append(t, x) \in Seq(Entry) /\ Values(Append(t, x), j) = IF x.key = j THEN Append(Values(t, j), x.value) ELSE Values(t, j)
    BY <2>1, <2>2, AppendProperties, ValuesAppend DEF ValuesNext
  <2> QED BY <2>1, <2>2, <2>3, <2>4
<1> HIDE DEF T
<1>3. T \in SUBSET Seq(Value)
  BY DEF T
<1>4. T = Seq(Value)
  BY <1>1, <1>2, <1>3, ListInduction
<1> QED BY <1>4 DEF T

\* The keys a list names, and that it names none twice.
Named(ks) == {ks[i] : i \in 1 .. Len(ks)}
Once(ks) == \A i, j \in 1 .. Len(ks) : i # j => ks[i] # ks[j]

LEMMA NamedAppend ==
  ASSUME NEW S, NEW ks \in Seq(S), NEW x \in S
  PROVE  /\ Named(Append(ks, x)) = Named(ks) \cup {x}
         /\ Once(Append(ks, x)) => Once(ks) /\ x \notin Named(ks)
<1> DEFINE n == Len(ks)
           t == Append(ks, x)
<1>1. n \in Nat /\ Len(t) = n + 1 /\ t[n + 1] = x /\ \A i \in 1 .. n : t[i] = ks[i]
  BY AppendProperties, LenProperties
<1> HIDE DEF t
<1>2. \A i \in 1 .. Len(t) : i \in 1 .. n \/ i = n + 1
  BY <1>1
<1>3. n + 1 \in 1 .. Len(t) /\ \A i \in 1 .. n : i \in 1 .. Len(t) /\ i # n + 1
  BY <1>1
<1>4. Named(t) = Named(ks) \cup {x}
  BY <1>1, <1>2, <1>3 DEF Named
<1>5. Once(t) => Once(ks)
  BY <1>1, <1>3 DEF Once
<1>6. Once(t) => x \notin Named(ks)
  BY <1>1, <1>3 DEF Once, Named
<1> QED BY <1>4, <1>5, <1>6 DEF t

\* What has been sent once the keys of ks have been visited.
SentOnce(p, b, caller, ks) ==
  /\ HeaderMap(p)
  /\ \A k \in Key : ValuesAt(p, k) = ValuesAt(b, k) \o (IF k \in Named(ks) THEN caller[k] ELSE <<>>)

LEMMA TurnSends ==
  ASSUME NEW b, HeaderMap(b), NEW caller, HeaderMap(caller), NEW ks, NEW x \in DOMAIN caller,
         x \notin Named(ks), NEW p, SentOnce(p, b, caller, ks), NEW ls, Named(ls) = Named(ks) \cup {x}
  PROVE  SentOnce(RoundNext(p, x, caller), b, caller, ls)
<1> DEFINE q == RoundNext(p, x, caller)
           es == Fields(x, caller[x])
<1>1. x \in Key /\ caller[x] \in Seq(Value)
  BY DEF HeaderMap
<1>2. es \in Seq(Entry) /\ \A k : Values(es, k) = IF k = x THEN caller[x] ELSE <<>>
  BY <1>1, FieldsValues
<1>3. q = PutAll(p, es) /\ HeaderMap(p)
  BY DEF RoundNext, SentOnce
<1> HIDE DEF q, es
<1>4. Adds(q, p, es)
  BY <1>2, <1>3, PutAllAdds
<1>5. ASSUME NEW k \in Key
      PROVE  ValuesAt(q, k) = ValuesAt(b, k) \o (IF k \in Named(ls) THEN caller[k] ELSE <<>>)
  <2>1. ValuesAt(q, k) = ValuesAt(p, k) \o Values(es, k)
    BY <1>4 DEF Adds
  <2>2. ValuesAt(p, k) = ValuesAt(b, k) \o (IF k \in Named(ks) THEN caller[k] ELSE <<>>)
    BY DEF SentOnce
  <2>3. ValuesAt(b, k) \in Seq(Value) /\ ValuesAt(p, k) \in Seq(Value)
    BY <1>3, ValuesAtFacts
  <2>4. CASE k = x
    <3>1. ValuesAt(p, k) = ValuesAt(b, k)
      BY <2>2, <2>3, <2>4, ConcatEmptySeq
    <3> QED BY <1>2, <2>1, <2>4, <3>1
  <2>5. CASE k # x
    <3>1. ValuesAt(q, k) = ValuesAt(p, k)
      BY <1>2, <2>1, <2>3, <2>5, ConcatEmptySeq
    <3> QED BY <2>2, <2>5, <3>1
  <2> QED BY <2>4, <2>5
<1> QED BY <1>4, <1>5 DEF SentOnce, Adds, q

\* In whatever order the keys are visited: the values of the base, and then the caller's.
LEMMA RoundTripSends ==
  ASSUME NEW h, HeaderMap(ToHTTPHeader(h)), NEW caller, HeaderMap(caller),
         NEW keys \in Seq(DOMAIN caller), Once(keys)
  PROVE  SentOnce(RoundTrip(h, caller, keys), ToHTTPHeader(h), caller, keys)
<1> DEFINE b == ToHTTPHeader(h)
           D == DOMAIN caller
           T == {ks \in Seq(D) : Once(ks) => SentOnce(RoundTrip(h, caller, ks), b, caller, ks)}
<1>0. HeaderMap(b)
  OBVIOUS
<1>1. <<>> \in T
  <2>1. \A k \in Key : ValuesAt(b, k) \o <<>> = ValuesAt(b, k)
    BY <1>0, ValuesAtFacts, ConcatEmptySeq
  <2>2. Named(<<>>) = {}
    BY DEF Named
  <2>3. RoundTrip(h, caller, <<>>) = b
    BY RoundTripEmpty
  <2> HIDE DEF b
  <2>4. SentOnce(b, b, caller, <<>>)
    BY <1>0, <2>1, <2>2 DEF SentOnce
  <2> QED BY <2>3, <2>4, EmptySeq
<1>2. ASSUME NEW ks \in T, NEW x \in D PROVE Append(ks, x) \in T
  <2>1. ks \in Seq(D) /\ Append(ks, x) \in Seq(D)
    BY AppendProperties
  <2>2. RoundTrip(h, caller, Append(ks, x)) = RoundNext(RoundTrip(h, caller, ks), x, caller)
    BY <2>1, RoundTripAppend
  <2>3. Named(Append(ks, x)) = Named(ks) \cup {x}
    BY <2>1, NamedAppend
  <2>4. ASSUME Once(Append(ks, x))
        PROVE  SentOnce(RoundTrip(h, caller, Append(ks, x)), b, caller, Append(ks, x))
    <3>1. Once(ks) /\ x \notin Named(ks)
      BY <2>1, <2>4, NamedAppend
    <3>2. SentOnce(RoundTrip(h, caller, ks), b, caller, ks)
      BY <3>1
    <3> HIDE DEF b
    <3> QED BY <1>0, <2>2, <2>3, <3>1, <3>2, TurnSends
  <2> QED BY <2>1, <2>4
<1> HIDE DEF T
<1>3. T \in SUBSET Seq(D)
  BY DEF T
<1>4. T = Seq(D)
  <2> HIDE DEF D
  <2> QED BY <1>1, <1>2, <1>3, ListInduction
<1> QED BY <1>4 DEF T

LEMMA ConcatEmpty ==
  ASSUME NEW s \in Seq(Value), NEW t \in Seq(Value)
  PROVE  s \o t = <<>> <=> s = <<>> /\ t = <<>>
<1>1. Len(s) \in Nat /\ Len(t) \in Nat /\ Len(s \o t) = Len(s) + Len(t) /\ s \o t \in Seq(Value)
  BY ConcatProperties, LenProperties
<1>2. (s = <<>> <=> Len(s) = 0) /\ (t = <<>> <=> Len(t) = 0) /\ (s \o t = <<>> <=> Len(s \o t) = 0)
  BY <1>1, EmptySeq, LenProperties
<1> QED BY <1>1, <1>2

\* Values finds a key's entries.
Carries(s, k) == \E i \in 1 .. Len(s) : s[i].key = k

LEMMA ValuesFind ==
  ASSUME NEW s \in Seq(Entry), NEW k
  PROVE  Values(s, k) # <<>> <=> Carries(s, k)
<1> DEFINE T == {t \in Seq(Entry) : Values(t, k) # <<>> <=> Carries(t, k)}
<1>1. <<>> \in T
  <2>1. Values(<<>>, k) = <<>> /\ Len(<<>>) = 0 /\ <<>> \in Seq(Entry)
    BY ValuesEmpty, EmptySeq
  <2> QED BY <2>1 DEF Carries
<1>2. ASSUME NEW t \in T, NEW x \in Entry PROVE Append(t, x) \in T
  <2> DEFINE u == Append(t, x)
             n == Len(t)
  <2>0. t \in Seq(Entry) /\ (Values(t, k) # <<>> <=> Carries(t, k))
    OBVIOUS
  <2>1. u \in Seq(Entry) /\ n \in Nat /\ Len(u) = n + 1 /\ u[n + 1] = x /\ \A i \in 1 .. n : u[i] = t[i]
    BY <2>0, AppendProperties, LenProperties
  <2>2. /\ Values(u, k) = IF x.key = k THEN Append(Values(t, k), x.value) ELSE Values(t, k)
        /\ Values(t, k) \in Seq(Value) /\ x.value \in Value
    BY <2>0, ValuesAppend, ValuesType DEF ValuesNext, Entry
  <2>3. Append(Values(t, k), x.value) # <<>>
    BY <2>2, AppendProperties
  <2> HIDE DEF u, n
  <2>4. Carries(u, k) <=> Carries(t, k) \/ x.key = k
    <3>1. \A i \in 1 .. n + 1 : i \in 1 .. n \/ i = n + 1
      BY <2>1
    <3>2. n + 1 \in 1 .. n + 1 /\ \A i \in 1 .. n : i \in 1 .. n + 1
      BY <2>1
    <3> QED BY <2>1, <3>1, <3>2 DEF Carries, n
  <2>5. Values(u, k) # <<>> <=> Carries(u, k)
    BY <2>0, <2>2, <2>3, <2>4
  <2> QED BY <2>1, <2>5 DEF u
<1> HIDE DEF T
<1>3. T \in SUBSET Seq(Entry)
  BY DEF T
<1>4. T = Seq(Entry)
  BY <1>1, <1>2, <1>3, ListInduction
<1> QED BY <1>4 DEF T

\* The map of a list: each key's values, in order.
LEMMA HeaderOf ==
  ASSUME NEW h, View(h) \in Seq(Entry)
  PROVE  /\ HeaderMap(ToHTTPHeader(h))
         /\ \A k \in Key : ValuesAt(ToHTTPHeader(h), k) = Values(View(h), k)
<1> DEFINE b == ToHTTPHeader(h)
<1>1. HeaderMap(<<>>)
  BY DEF HeaderMap
<1>2. Adds(b, <<>>, View(h))
  BY <1>1, PutAllAdds DEF ToHTTPHeader
<1> HIDE DEF b
<1>3. \A k \in Key : ValuesAt(<<>>, k) = <<>>
  BY DEF ValuesAt
<1>4. \A k \in Key : ValuesAt(b, k) = Values(View(h), k)
  <2> TAKE k \in Key
  <2>1. Values(View(h), k) \in Seq(Value)
    BY ValuesType
  <2>2. <<>> \o Values(View(h), k) = Values(View(h), k)
    BY <2>1, ConcatEmptySeq
  <2> QED BY <1>2, <1>3, <2>2 DEF Adds
<1> QED BY <1>2, <1>4 DEF Adds, b

\* A header map made of a list has finitely many keys, so that a list of them that names none
\* twice and is as long names them all.
LEMMA KeysNamed ==
  ASSUME NEW h, View(h) \in Seq(Entry), NEW keys \in SetToSeqs(DOMAIN ToHTTPHeader(h))
  PROVE  keys \in Seq(DOMAIN ToHTTPHeader(h)) /\ Once(keys) /\ Named(keys) = DOMAIN ToHTTPHeader(h)
<1> DEFINE D == DOMAIN ToHTTPHeader(h)
           s == View(h)
           n == Len(s)
           g == [i \in 1 .. n |-> s[i].key]
<1>1. HeaderMap(ToHTTPHeader(h)) /\ \A k \in Key : ValuesAt(ToHTTPHeader(h), k) = Values(s, k)
  BY HeaderOf
<1>2. D \subseteq {s[i].key : i \in 1 .. n}
  <2> SUFFICES ASSUME NEW k \in D PROVE k \in {s[i].key : i \in 1 .. n}
    OBVIOUS
  <2>1. k \in Key
    BY <1>1 DEF HeaderMap
  <2>2. Values(s, k) # <<>>
    BY <1>1, <2>1, ValuesAtFacts
  <2>3. Carries(s, k)
    BY <2>2, ValuesFind
  <2> QED BY <2>3 DEF Carries
<1>3. IsFiniteSet(D)
  <2>1. n \in Nat
    BY LenProperties
  <2>2. IsFiniteSet(1 .. n)
    BY <2>1, FS_Interval
  <2>3. g \in Surjection(1 .. n, {s[i].key : i \in 1 .. n})
    BY DEF Surjection
  <2> HIDE DEF D, s, n, g
  <2>4. IsFiniteSet({s[i].key : i \in 1 .. n})
    BY <2>2, <2>3, FS_Surjection
  <2> QED BY <1>2, <2>4, FS_Subset
<1> HIDE DEF D
<1> DEFINE c == Cardinality(D)
<1>4. c \in Nat
  BY <1>3, FS_CardinalityType
<1>5. keys \in [1 .. c -> D] /\ \A i, j \in 1 .. c : i # j => keys[i] # keys[j]
  BY DEF SetToSeqs, D
<1> HIDE DEF c
<1>6. keys \in Seq(D) /\ Len(keys) = c
  BY <1>4, <1>5
<1>7. Once(keys)
  BY <1>5, <1>6 DEF Once
<1>8. keys \in Injection(1 .. c, D)
  BY <1>5 DEF Injection, IsInjective
<1>9. Cardinality(1 .. c) = Cardinality(D)
  <2>1. Cardinality(1 .. c) = c
    BY <1>4, FS_Interval
  <2> QED BY <2>1 DEF c
<1>10. keys \in Surjection(1 .. c, D)
  BY <1>3, <1>8, <1>9, FS_Injection
<1>11. Named(keys) = D
  BY <1>6, <1>10 DEF Named, Surjection
<1> QED BY <1>6, <1>7, <1>11 DEF D

\* What a request is sent with, in whatever order its own keys are visited.
LEMMA SentValues ==
  ASSUME NEW h, View(h) \in Seq(Entry), NEW g, View(g) \in Seq(Entry),
         NEW keys \in SetToSeqs(DOMAIN ToHTTPHeader(g))
  PROVE  /\ HeaderMap(RoundTrip(h, ToHTTPHeader(g), keys))
         /\ \A k \in Key : ValuesAt(RoundTrip(h, ToHTTPHeader(g), keys), k)
                             = Values(View(h), k) \o Values(View(g), k)
<1> DEFINE caller == ToHTTPHeader(g)
           b == ToHTTPHeader(h)
           sent == RoundTrip(h, caller, keys)
<1>1. HeaderMap(b) /\ \A k \in Key : ValuesAt(b, k) = Values(View(h), k)
  BY HeaderOf
<1>2. HeaderMap(caller) /\ \A k \in Key : ValuesAt(caller, k) = Values(View(g), k)
  BY HeaderOf
<1>3. keys \in Seq(DOMAIN caller) /\ Once(keys) /\ Named(keys) = DOMAIN caller
  BY KeysNamed
<1>4. SentOnce(sent, b, caller, keys)
  BY <1>1, <1>2, <1>3, RoundTripSends
<1> HIDE DEF sent, b, caller
<1>5. \A k \in Key : (IF k \in Named(keys) THEN caller[k] ELSE <<>>) = Values(View(g), k)
  BY <1>2, <1>3 DEF ValuesAt
<1>6. ASSUME NEW k \in Key PROVE ValuesAt(sent, k) = Values(View(h), k) \o Values(View(g), k)
  <2>1. ValuesAt(sent, k) = ValuesAt(b, k) \o (IF k \in Named(keys) THEN caller[k] ELSE <<>>)
    BY <1>4 DEF SentOnce
  <2> QED BY <1>1, <1>5, <2>1
<1> QED BY <1>4, <1>6 DEF SentOnce, sent, caller

\* The header sent has every entry of the lists h and g, and no other.
KeptAll(sent, h, g) ==
  /\ DOMAIN sent = {e.key : e \in ToSet(View(h)) \cup ToSet(View(g))}
  /\ \A k \in DOMAIN sent : sent[k] \in {Values(View(h), k) \o Values(View(g), k),
                                         Values(View(g), k) \o Values(View(h), k)}

\* Whatever the calls, nothing a request carries is lost.
LEMMA NothingLost ==
  ASSUME NEW h, View(h) \in Seq(Entry), NEW g, View(g) \in Seq(Entry),
         NEW keys \in SetToSeqs(DOMAIN ToHTTPHeader(g))
  PROVE  KeptAll(RoundTrip(h, ToHTTPHeader(g), keys), h, g)
<1> DEFINE sent == RoundTrip(h, ToHTTPHeader(g), keys)
           s == View(h)
           t == View(g)
<1>1. HeaderMap(sent) /\ \A k \in Key : ValuesAt(sent, k) = Values(s, k) \o Values(t, k)
  BY SentValues
<1> HIDE DEF sent
<1>2. \A k \in DOMAIN sent : k \in Key /\ sent[k] = Values(s, k) \o Values(t, k)
  BY <1>1 DEF HeaderMap, ValuesAt
<1>3. \A k : Values(s, k) \in Seq(Value) /\ Values(t, k) \in Seq(Value)
  BY ValuesType
<1>4. \A k \in Key : k \in DOMAIN sent <=> Values(s, k) # <<>> \/ Values(t, k) # <<>>
  <2> TAKE k \in Key
  <2>1. k \in DOMAIN sent <=> ValuesAt(sent, k) # <<>>
    BY <1>1, ValuesAtFacts
  <2>2. Values(s, k) \o Values(t, k) = <<>> <=> Values(s, k) = <<>> /\ Values(t, k) = <<>>
    BY <1>3, ConcatEmpty
  <2> QED BY <1>1, <2>1, <2>2
<1>5. \A k : (Values(s, k) # <<>> <=> Carries(s, k)) /\ (Values(t, k) # <<>> <=> Carries(t, k))
  BY ValuesFind
<1>6. DOMAIN sent = {e.key : e \in ToSet(s) \cup ToSet(t)}
  <2>1. \A k \in Key : k \in DOMAIN sent <=> Carries(s, k) \/ Carries(t, k)
    BY <1>4, <1>5
  <2>2. ToSet(s) = {s[i] : i \in 1 .. Len(s)} /\ ToSet(t) = {t[i] : i \in 1 .. Len(t)}
    BY LenProperties DEF ToSet
  <2>3. (\A i \in 1 .. Len(s) : s[i].key \in Key) /\ (\A i \in 1 .. Len(t) : t[i].key \in Key)
    <3>1. (\A i \in 1 .. Len(s) : s[i] \in Entry) /\ (\A i \in 1 .. Len(t) : t[i] \in Entry)
      BY ElementOfSeq
    <3> HIDE DEF s, t
    <3> QED BY <3>1 DEF Entry
  <2> HIDE DEF s, t
  <2>4. \A k : k \in {e.key : e \in ToSet(s) \cup ToSet(t)} <=> Carries(s, k) \/ Carries(t, k)
    BY <2>2 DEF Carries
  <2>5. \A k : Carries(s, k) \/ Carries(t, k) => k \in Key
    BY <2>3 DEF Carries
  <2> QED BY <1>2, <2>1, <2>4, <2>5
<1> QED BY <1>2, <1>6 DEF KeptAll, sent

-----------------------------------------------------------------------------
(* The theorems                                                            *)

\* Whatever the calls, every OrderedHeader's slice lies within its array, over cells that hold
\* entries, and no two of them share one: no compaction in place and no append into spare room
\* (Set, Del and Add) can write into another list.
THEOREM HeaderTyping == Spec => []TypeOK
<1>1. Init => TypeOK
  <2> SUFFICES ASSUME Init PROVE TypeOK
    OBVIOUS
  <2>1. <<>> \in Seq(Cell) /\ <<>> \in Seq(Entry) /\ Len(<<>>) = 0 /\ Cardinality(Var) \in Nat
    BY EmptySeq, HeaderAssumption, FS_CardinalityType
  <2>2. 0 \in Array /\ 0 \in 0 .. MaxLen /\ calls \in 0 .. MaxCalls
    BY <2>1, HeaderAssumption DEF Array, Init
  <2>3. \A h \in Var : entries[h].array = 0 /\ entries[h].len = 0
    BY DEF Init
  <2>4. heap \in [Array -> Seq(Cell)] /\ heap[0] = <<>>
    BY <2>1, <2>2 DEF Init
  <2>5. \A h \in Var : View(h) = <<>>
    BY <2>3, SubSeqEmpty DEF View, Slice
  <2>6. entries \in [Var -> [array : Array, len : 0 .. MaxLen]]
    BY <2>2 DEF Init
  <2>7. SlicesOK
    BY <2>1, <2>3, <2>4, <2>5, <2>6 DEF SlicesOK
  <2> QED BY <2>2, <2>7, TypeIsSlices
<1>2. TypeOK /\ [Next]_vars => TypeOK'
  <2> SUFFICES ASSUME TypeOK, [Next]_vars PROVE TypeOK'
    OBVIOUS
  <2>1. SlicesOK
    BY TypeIsSlices
  <2>2. CASE UNCHANGED vars
    BY <2>2 DEF TypeOK, vars, View
  <2>3. CASE Next
    <3>1. SlicesOK'
      BY <2>1, <2>3, AddDoes, SetDoes, DelDoes, CloneDoes DEF Next
    <3>2. Call
      BY <2>3 DEF Next, Add, Set, Del, Clone
    <3>3. calls' \in 0 .. MaxCalls
      BY <3>2, HeaderAssumption DEF Call, TypeOK
    <3> QED BY <3>1, <3>3 DEF TypeOK, SlicesOK, Cell
  <2> QED BY <2>2, <2>3
<1> QED BY <1>1, <1>2, PTL DEF Spec

\* Set's and Del's loops, append and Clone do to the list what the calls' comments promise
\* ("Set replaces the first entry whose key matches (case-insensitively) and removes any
\* subsequent duplicates"), for lists of any length, and nothing to any other list.
THEOREM CallsKeepPromises == Spec => CallsAsPromised
<1> DEFINE Promised ==
      \A h \in Var :
        /\ \A e \in Entry : Add(h, e) => View(h)' = Append(View(h), e) /\ OthersKept(h)
        /\ \A e \in Entry : Set(h, e) => View(h)' = Replaced(View(h), e) /\ OthersKept(h)
        /\ \A k \in Key : Del(h, k) => View(h)' = Without(View(h), k) /\ OthersKept(h)
        /\ \A g \in Var \ {h} : Clone(h, g) => View(g)' = View(h) /\ OthersKept(g)
<1>1. TypeOK => Promised
  BY TypeIsSlices, AddDoes, SetDoes, DelDoes, CloneDoes
<1> HIDE DEF Promised
<1>2. TypeOK /\ [Next]_vars => [Promised]_vars
  BY <1>1
<1>3. Spec => [][Promised]_vars
  BY <1>2, HeaderTyping, PTL DEF Spec
<1> QED BY <1>3 DEF CallsAsPromised, Promised

\* A request is sent with every default and every value of its own ("NOT discarded"), and nothing
\* else, in whatever order RoundTrip visits the map of its own.
THEOREM RequestKeepsAll == Spec => []NothingDiscarded
<1>1. TypeOK => NothingDiscarded
  <2> SUFFICES ASSUME TypeOK, NEW h \in Var, NEW g \in Var, NEW keys \in SetToSeqs(DOMAIN ToHTTPHeader(g))
               PROVE  KeptAll(RoundTrip(h, ToHTTPHeader(g), keys), h, g)
    BY Zenon DEF NothingDiscarded, KeptAll
  <2>1. View(h) \in Seq(Entry) /\ View(g) \in Seq(Entry)
    BY DEF TypeOK
  <2> QED BY <2>1, NothingLost
<1> QED BY <1>1, HeaderTyping, PTL
=============================================================================
