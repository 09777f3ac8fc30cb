-------------------------- MODULE Validator_proofs --------------------------
(***************************************************************************)
(* Proofs about Validator, for any goroutines and documents: what          *)
(* diffSchemas reports is exactly the difference of its arguments, and so  *)
(* are the results of Validate; only one first Validate teaches; and       *)
(* extractSchema returns the types of all the fields.                      *)
(***************************************************************************)
EXTENDS Validator, SequenceTheorems, FiniteSetTheorems, TLAPS

-----------------------------------------------------------------------------
(* Induction over the natural numbers and over lists                       *)

\* A set of numbers with 0 and every successor of its members is Nat: what every induction below
\* goes by.
LEMMA SetInduction ==
  ASSUME NEW T \in SUBSET Nat, 0 \in T, \A n \in T : n + 1 \in T
  PROVE  T = Nat
<1> SUFFICES ASSUME Nat \ T # {} PROVE FALSE
  OBVIOUS
<1> DEFINE R == OpToRel(<, Nat)
<1>1. IsWellFoundedOn(R, Nat)
  BY NatLessThanWellFounded
<1>2. PICK x \in Nat \ T : \A y \in Nat \ T : ~ (<<y, x>> \in R)
  <2> HIDE DEF R
  <2> QED BY <1>1, WFMin
<1>3. x # 0 /\ x - 1 \in Nat /\ (x - 1) + 1 = x /\ x - 1 < x
  OBVIOUS
<1>4. <<x - 1, x>> \in R
  BY <1>3 DEF OpToRel
<1> QED BY <1>2, <1>3, <1>4

\* A set of lists with the empty one and every extension of its members is that of all lists.
LEMMA ListInduction ==
  ASSUME NEW S, NEW T \in SUBSET Seq(S), <<>> \in T, \A s \in T, e \in S : Append(s, e) \in T
  PROVE  T = Seq(S)
<1> DEFINE U == {n \in Nat : \A s \in Seq(S) : Len(s) = n => s \in T}
<1>1. 0 \in U
  BY LenProperties
<1>2. ASSUME NEW n \in U PROVE n + 1 \in U
  <2> SUFFICES ASSUME NEW s \in Seq(S), Len(s) = n + 1 PROVE s \in T
    OBVIOUS
  <2>1. s # <<>>
    BY LenProperties
  <2>2. PICK t \in Seq(S), e \in S : s = Append(t, e)
    BY <2>1, SequenceEmptyOrAppend
  <2>3. Len(t) = n
    BY <2>2, AppendProperties, LenProperties
  <2>4. t \in T
    BY <2>3
  <2> QED BY <2>2, <2>4
<1>3. U = Nat
  <2> HIDE DEF U
  <2>1. U \subseteq Nat
    BY DEF U
  <2> QED BY <1>1, <1>2, <2>1, SetInduction
<1> QED BY <1>3, LenProperties

\* A set of numbers that has an element has a least one.
LEMMA LeastElement ==
  ASSUME NEW I \in SUBSET Nat, I # {}
  PROVE  \E i \in I : \A j \in I : i <= j
<1> DEFINE R == OpToRel(<, Nat)
<1>1. PICK i \in I : \A j \in I : ~ (<<j, i>> \in R)
  <2>1. IsWellFoundedOn(R, Nat)
    BY NatLessThanWellFounded
  <2> HIDE DEF R
  <2> QED BY <2>1, WFMin
<1>2. \A j \in I : ~ (j < i)
  BY <1>1 DEF OpToRel
<1>3. \A j \in I : i <= j
  <2> TAKE j \in I
  <2>1. ~ (j < i) /\ i \in Nat /\ j \in Nat
    BY <1>2
  <2> QED BY <2>1
<1> QED BY <1>3

-----------------------------------------------------------------------------
(* Flattening a list of lists                                              *)

\* What is in a list.
In(x, s) == \E i \in 1 .. Len(s) : s[i] = x

\* What is in either of two lists is in the two together.
LEMMA InConcat ==
  ASSUME NEW S, NEW s \in Seq(S), NEW t \in Seq(S)
  PROVE  s \o t \in Seq(S) /\ \A x : In(x, s \o t) <=> In(x, s) \/ In(x, t)
<1> DEFINE u == s \o t
           m == Len(s)
           n == Len(t)
<1>1. /\ m \in Nat /\ n \in Nat /\ u \in Seq(S) /\ Len(u) = m + n
      /\ \A i \in 1 .. m : u[i] = s[i]
      /\ \A i \in 1 .. n : u[m + i] = t[i]
  BY ConcatProperties, LenProperties
<1> HIDE DEF u, m, n
<1>2. ASSUME NEW x, NEW i \in 1 .. m + n, u[i] = x PROVE In(x, s) \/ In(x, t)
  <2>1. CASE i \in 1 .. m
    BY <1>1, <1>2, <2>1 DEF In, m
  <2>2. CASE i \notin 1 .. m
    <3>1. i - m \in 1 .. n /\ m + (i - m) = i
      BY <1>1, <2>2
    <3> QED BY <1>1, <1>2, <3>1 DEF In, n
  <2> QED BY <2>1, <2>2
<1>3. \A i \in 1 .. m : i \in 1 .. m + n
  BY <1>1
<1>4. \A i \in 1 .. n : m + i \in 1 .. m + n
  BY <1>1
<1>5. \A x : In(x, s) => In(x, u)
  BY <1>1, <1>3 DEF In, m
<1>6. \A x : In(x, t) => In(x, u)
  BY <1>1, <1>4 DEF In, n
<1>7. \A x : In(x, u) => In(x, s) \/ In(x, t)
  BY <1>1, <1>2 DEF In
<1> QED BY <1>1, <1>5, <1>6, <1>7 DEF u

\* A list and its last member.
LEMMA FrontOfAppend ==
  ASSUME NEW S, NEW s \in Seq(S), NEW x \in S
  PROVE  Append(s, x) # <<>> /\ Front(Append(s, x)) = s /\ Last(Append(s, x)) = x
<1> DEFINE t == Append(s, x)
           n == Len(s)
<1>1. /\ n \in Nat /\ t \in Seq(S) /\ Len(t) = n + 1 /\ t[n + 1] = x
      /\ \A i \in 1 .. n : t[i] = s[i]
  BY AppendProperties, LenProperties
<1> HIDE DEF t
<1>2. t # <<>> /\ Last(t) = x
  BY <1>1, EmptySeq DEF Last
<1>3. Front(t) = SubSeq(t, 1, n)
  BY <1>1 DEF Front
<1>4. Front(t) \in Seq(S) /\ Len(Front(t)) = n /\ \A i \in 1 .. n : Front(t)[i] = t[i]
  BY <1>1, <1>3, SubSeqProperties
<1>5. Front(t) = s
  BY <1>1, <1>4, SeqEqual
<1> QED BY <1>2, <1>5 DEF t

LEMMA FrontAndLast ==
  ASSUME NEW S, NEW s \in Seq(S), s # <<>>
  PROVE  s = Append(Front(s), Last(s)) /\ Front(s) \in Seq(S) /\ Last(s) \in S
<1>1. PICK t \in Seq(S), x \in S : s = Append(t, x)
  BY SequenceEmptyOrAppend
<1> QED BY <1>1, FrontOfAppend

\* FlattenSeq's recursive function for the first n members of s.
FlatTo(f, s, n) == f = [i \in 1 .. n |-> IF i = 1 THEN s[i] ELSE f[i - 1] \o s[i]]

LEMMA FlatExists == \A s : \A n \in Nat : \E f : FlatTo(f, s, n)
<1> SUFFICES ASSUME NEW s PROVE \A n \in Nat : \E f : FlatTo(f, s, n)
  OBVIOUS
<1> DEFINE T == {n \in Nat : \E f : FlatTo(f, s, n)}
<1>1. 0 \in T
  <2> DEFINE f == [i \in 1 .. 0 |-> s[i]]
  <2>1. FlatTo(f, s, 0)
    BY DEF FlatTo
  <2> QED BY <2>1
<1>2. ASSUME NEW n \in T PROVE n + 1 \in T
  <2>1. PICK f : FlatTo(f, s, n)
    OBVIOUS
  <2> DEFINE g == [i \in 1 .. n + 1 |-> IF i <= n THEN f[i] ELSE IF i = 1 THEN s[i] ELSE f[n] \o s[i]]
  <2>2. ASSUME NEW i \in 1 .. n + 1 PROVE g[i] = IF i = 1 THEN s[i] ELSE g[i - 1] \o s[i]
    <3>1. CASE i = n + 1
      <4>1. i # 1 => i - 1 \in 1 .. n + 1 /\ i - 1 <= n /\ i - 1 = n
        BY <3>1
      <4>2. ~ (i <= n)
        BY <3>1
      <4> QED BY <4>1, <4>2
    <3>2. CASE i # n + 1
      <4>1. i \in 1 .. n /\ g[i] = f[i] /\ (i # 1 => g[i - 1] = f[i - 1])
        BY <3>2
      <4>2. f[i] = IF i = 1 THEN s[i] ELSE f[i - 1] \o s[i]
        BY <2>1, <4>1 DEF FlatTo
      <4> QED BY <4>1, <4>2
    <3> QED BY <3>1, <3>2
  <2>3. g = [i \in 1 .. n + 1 |-> g[i]]
    OBVIOUS
  <2> HIDE DEF g
  <2>4. FlatTo(g, s, n + 1)
    BY <2>2, <2>3, Zenon DEF FlatTo
  <2> QED BY <2>4
<1>3. T = Nat
  <2> HIDE DEF T
  <2>1. T \subseteq Nat
    BY DEF T
  <2> QED BY <1>1, <1>2, <2>1, SetInduction
<1> QED BY <1>3

\* Two lists have the same first n members.
SameTo(s, t, n) == \A i \in 1 .. n : s[i] = t[i]

LEMMA FlatAgree ==
  ASSUME NEW s, NEW t, NEW n \in Nat, NEW m \in Nat, n <= m, SameTo(s, t, n),
         NEW f, NEW g, FlatTo(f, s, n), FlatTo(g, t, m)
  PROVE  n # 0 => f[n] = g[n]
<1> DEFINE T == {i \in Nat : i \in 1 .. n => f[i] = g[i]}
<1>1. 0 \in T
  OBVIOUS
<1>2. ASSUME NEW i \in T PROVE i + 1 \in T
  <2> SUFFICES ASSUME i + 1 \in 1 .. n PROVE f[i + 1] = g[i + 1]
    OBVIOUS
  <2>1. i + 1 \in 1 .. m /\ (i + 1) - 1 = i /\ (i + 1 # 1 => i \in 1 .. n)
    OBVIOUS
  <2>2. f[i + 1] = IF i + 1 = 1 THEN s[i + 1] ELSE f[i] \o s[i + 1]
    BY <2>1 DEF FlatTo
  <2>3. g[i + 1] = IF i + 1 = 1 THEN t[i + 1] ELSE g[i] \o t[i + 1]
    BY <2>1 DEF FlatTo
  <2>4. s[i + 1] = t[i + 1] /\ (i + 1 # 1 => f[i] = g[i])
    BY <2>1 DEF SameTo
  <2> QED BY <2>2, <2>3, <2>4
<1>3. T = Nat
  <2> HIDE DEF T
  <2>1. T \subseteq Nat
    BY DEF T
  <2> QED BY <1>1, <1>2, <2>1, SetInduction
<1>4. n # 0 => n \in T /\ n \in 1 .. n
  BY <1>3
<1> QED BY <1>4

LEMMA FlattenIs ==
  ASSUME NEW S, NEW s \in Seq(S), s # <<>>
  PROVE  \E f : FlatTo(f, s, Len(s)) /\ FlattenSeq(s) = f[Len(s)]
<1> DEFINE c == CHOOSE f : FlatTo(f, s, Len(s))
<1>1. Len(s) \in Nat /\ Len(s) # 0
  BY LenProperties, EmptySeq
<1>2. FlatTo(c, s, Len(s))
  BY <1>1, FlatExists
<1>3. FlattenSeq(s) = c[Len(s)]
  BY <1>1 DEF FlattenSeq, FlatTo
<1> QED BY <1>2, <1>3

LEMMA FlattenEmpty == FlattenSeq(<<>>) = <<>>
BY DEF FlattenSeq

LEMMA FlattenAppend ==
  ASSUME NEW S, NEW s \in Seq(Seq(S)), NEW x \in Seq(S)
  PROVE  FlattenSeq(Append(s, x)) = FlattenSeq(s) \o x
<1> DEFINE t == Append(s, x)
           n == Len(s)
<1>1. /\ n \in Nat /\ t \in Seq(Seq(S)) /\ Len(t) = n + 1 /\ t[n + 1] = x /\ t # <<>>
      /\ \A i \in 1 .. n : s[i] = t[i]
  BY AppendProperties, LenProperties, EmptySeq
<1> HIDE DEF t
<1>2. PICK g : FlatTo(g, t, n + 1) /\ FlattenSeq(t) = g[n + 1]
  BY <1>1, FlattenIs
<1>3. n + 1 \in 1 .. n + 1 /\ (n + 1) - 1 = n
  BY <1>1
<1>4. g[n + 1] = IF n + 1 = 1 THEN x ELSE g[n] \o x
  BY <1>1, <1>2, <1>3 DEF FlatTo
<1>5. CASE s = <<>>
  <2>1. n + 1 = 1 /\ FlattenSeq(s) = <<>>
    BY <1>5, FlattenEmpty
  <2>2. <<>> \o x = x
    BY ConcatEmptySeq
  <2> QED BY <1>2, <1>4, <1>5, <2>1, <2>2 DEF t
<1>6. CASE s # <<>>
  <2>1. n # 0 /\ n \in 1 .. n /\ n + 1 # 1
    BY <1>1, <1>6, EmptySeq, LenProperties
  <2>2. PICK f : FlatTo(f, s, n) /\ FlattenSeq(s) = f[n]
    BY <1>6, FlattenIs
  <2>3. f[n] = g[n]
    <3>1. n \in Nat /\ n + 1 \in Nat /\ n <= n + 1 /\ n # 0
      BY <1>1, <2>1
    <3>2. SameTo(s, t, n)
      BY <1>1 DEF SameTo
    <3> HIDE DEF n
    <3> QED BY <1>2, <2>2, <3>1, <3>2, FlatAgree
  <2> QED BY <1>2, <1>4, <2>1, <2>2, <2>3 DEF t
<1> QED BY <1>5, <1>6

\* A flattened list of lists is a list, and holds what they hold.
Flat(s, S) ==
  /\ FlattenSeq(s) \in Seq(S)
  /\ \A x : In(x, FlattenSeq(s)) <=> \E i \in 1 .. Len(s) : In(x, s[i])

LEMMA FlattenHolds == ASSUME NEW S, NEW s \in Seq(Seq(S)) PROVE Flat(s, S)
<1> DEFINE T == {t \in Seq(Seq(S)) : Flat(t, S)}
<1>1. <<>> \in T
  <2>1. <<>> \in Seq(Seq(S)) /\ <<>> \in Seq(S) /\ Len(<<>>) = 0
    BY EmptySeq
  <2>2. \A x : ~ In(x, <<>>)
    BY <2>1 DEF In
  <2>3. \A i \in 1 .. Len(<<>>) : FALSE
    BY <2>1
  <2>4. Flat(<<>>, S)
    BY <2>1, <2>2, <2>3, FlattenEmpty DEF Flat
  <2> QED BY <2>1, <2>4
<1>2. ASSUME NEW t \in T, NEW x \in Seq(S) PROVE Append(t, x) \in T
  <2> DEFINE u == Append(t, x)
             n == Len(t)
             f == FlattenSeq(t)
  <2>1. /\ n \in Nat /\ u \in Seq(Seq(S)) /\ Len(u) = n + 1 /\ u[n + 1] = x
        /\ \A i \in 1 .. n : u[i] = t[i]
    BY AppendProperties, LenProperties
  <2>2. f \in Seq(S) /\ \A y : In(y, f) <=> \E i \in 1 .. n : In(y, t[i])
    BY DEF Flat
  <2>3. FlattenSeq(u) = f \o x
    BY FlattenAppend
  <2> HIDE DEF u, f, n
  <2>4. f \o x \in Seq(S) /\ \A y : In(y, f \o x) <=> In(y, f) \/ In(y, x)
    BY <2>2, InConcat
  <2>5. \A y : (\E i \in 1 .. n + 1 : In(y, u[i])) <=> (\E i \in 1 .. n : In(y, t[i])) \/ In(y, x)
    <3> TAKE y
    <3>1. \A i \in 1 .. n + 1 : i \in 1 .. n \/ i = n + 1
      BY <2>1
    <3>2. n + 1 \in 1 .. n + 1 /\ \A i \in 1 .. n : i \in 1 .. n + 1
      BY <2>1
    <3> QED BY <2>1, <3>1, <3>2
  <2>6. Flat(u, S)
    BY <2>1, <2>2, <2>3, <2>4, <2>5 DEF Flat
  <2> QED BY <2>1, <2>6 DEF u
<1>3. T = Seq(Seq(S))
  <2> HIDE DEF T
  <2>1. T \subseteq Seq(Seq(S))
    BY DEF T
  <2> QED BY <1>1, <1>2, <2>1, ListInduction
<1> QED BY <1>3

-----------------------------------------------------------------------------
(* Paths and positions                                                     *)

\* A key is a list of segments, and not an empty one.
LEMMA KeyIsList == Key \subseteq Seq(Segment) /\ Empty \in Key /\ \A k \in Key : Len(k) \in Nat /\ Len(k) >= 1
<1>1. Empty \in Seq(Segment) /\ Empty # <<>>
  BY SegmentAssumption DEF Empty
<1>2. \A k \in Key : k \in Seq(Segment) /\ Len(k) \in Nat /\ Len(k) # 0
  BY EmptySeq, LenProperties DEF Key
<1> QED BY <1>1, <1>2 DEF Key

\* A position's keys joined by dots.
LEMMA Joined ==
  ASSUME NEW pos \in Seq(Key), pos # <<>>
  PROVE  FlattenSeq(pos) \in Key /\ (FlattenSeq(pos) = Empty => pos[1] = Empty)
<1> DEFINE Good(p) == p # <<>> => FlattenSeq(p) \in Key /\ (FlattenSeq(p) = Empty => p[1] = Empty)
           T == {p \in Seq(Key) : Good(p)}
<1>1. <<>> \in T
  BY EmptySeq
<1>2. ASSUME NEW p \in T, NEW k \in Key PROVE Append(p, k) \in T
  <2>1. k \in Seq(Segment) /\ Len(k) \in Nat /\ Len(k) >= 1
    BY KeyIsList
  <2>2. p \in Seq(Seq(Segment))
    BY KeyIsList
  <2>3. FlattenSeq(Append(p, k)) = FlattenSeq(p) \o k
    BY <2>1, <2>2, FlattenAppend
  <2>4. Append(p, k) \in Seq(Key)
    OBVIOUS
  <2>5. CASE p = <<>>
    <3>1. Append(p, k)[1] = k
      BY <2>5
    <3>2. FlattenSeq(Append(p, k)) = k
      BY <2>1, <2>3, <2>5, FlattenEmpty, ConcatEmptySeq
    <3> QED BY <2>4, <3>1, <3>2
  <2>6. CASE p # <<>>
    <3> DEFINE f == FlattenSeq(p)
    <3>1. f \in Key /\ f \in Seq(Segment) /\ Len(f) \in Nat /\ Len(f) >= 1
      BY <2>6, KeyIsList
    <3> HIDE DEF f
    <3>2. f \o k \in Seq(Segment) /\ Len(f \o k) = Len(f) + Len(k)
      BY <2>1, <3>1, ConcatProperties
    <3>3. Len(f \o k) >= 2
      BY <2>1, <3>1, <3>2
    <3>4. Len(<<>>) = 0 /\ Len(Empty) = 1
      BY DEF Empty
    <3>5. f \o k # <<>> /\ f \o k # Empty
      BY <3>3, <3>4
    <3>6. FlattenSeq(Append(p, k)) \in Key /\ FlattenSeq(Append(p, k)) # Empty
      BY <2>3, <3>2, <3>5 DEF f, Key
    <3> QED BY <2>4, <3>6
  <2> QED BY <2>5, <2>6
<1>3. T = Seq(Key)
  <2> HIDE DEF T
  <2>1. T \subseteq Seq(Key)
    BY DEF T
  <2> QED BY <1>1, <1>2, <2>1, ListInduction
<1> QED BY <1>3

\* The prefix of the call for the object at pos.
Prefix(pos) == IF pos = <<>> THEN Empty ELSE FlattenSeq(pos)

\* A document whose own keys are not "", as Unambiguous asks.
Plain(d) == IsDocument(d) /\ <<Empty>> \notin DOMAIN d

\* d's positions are lists of keys.
LEMMA PositionsOf ==
  ASSUME NEW d, IsDocument(d)
  PROVE  /\ <<>> \in DOMAIN d /\ IsFiniteSet(DOMAIN d)
         /\ \A pos \in DOMAIN d : pos \in Seq(Key) /\ Len(pos) \in Nat /\ Len(pos) <= MaxDepth /\ d[pos] \in Type
BY LenProperties DEF IsDocument

\* What is inside the object obj, but one key deeper.
LEMMA KeysAre ==
  ASSUME NEW d, IsDocument(d), NEW obj \in DOMAIN d
  PROVE  \A k : k \in Keys(d, obj) <=> k \in Key /\ Append(obj, k) \in DOMAIN d
<1>1. obj \in Seq(Key) /\ \A pos \in DOMAIN d : pos \in Seq(Key)
  BY PositionsOf
<1>2. ASSUME NEW k \in Keys(d, obj) PROVE k \in Key /\ Append(obj, k) \in DOMAIN d
  <2>1. PICK pos \in DOMAIN d : pos # <<>> /\ Front(pos) = obj /\ k = Last(pos)
    BY DEF Keys
  <2>2. pos = Append(Front(pos), Last(pos)) /\ Last(pos) \in Key
    BY <1>1, <2>1, FrontAndLast
  <2> QED BY <2>1, <2>2
<1>3. ASSUME NEW k \in Key, Append(obj, k) \in DOMAIN d PROVE k \in Keys(d, obj)
  <2>1. Append(obj, k) # <<>> /\ Front(Append(obj, k)) = obj /\ Last(Append(obj, k)) = k
    BY <1>1, FrontOfAppend
  <2> QED BY <1>3, <2>1 DEF Keys
<1> QED BY <1>2, <1>3

\* The range visits every key of an object, and nothing else.
LEMMA KeysVisited ==
  ASSUME NEW d, IsDocument(d), NEW order \in Orders(d), NEW obj \in DOMAIN d
  PROVE  order[obj] \in Seq(Key) /\ \A k : In(k, order[obj]) <=> k \in Keys(d, obj)
<1> DEFINE K == Keys(d, obj)
           P == {q \in DOMAIN d : q # <<>> /\ Front(q) = obj}
           o == order[obj]
           c == Cardinality(K)
<1>1. K \subseteq Key
  BY KeysAre
<1>2. o \in SetToSeqs(K)
  BY DEF Orders
<1>3. IsFiniteSet(K)
  <2> DEFINE g == [pos \in P |-> Last(pos)]
  <2>1. IsFiniteSet(P)
    BY PositionsOf, FS_Subset
  <2>2. K = {Last(pos) : pos \in P}
    BY DEF Keys
  <2>3. g \in Surjection(P, K)
    BY <2>2 DEF Surjection
  <2> HIDE DEF g, K, P
  <2> QED BY <2>1, <2>3, FS_Surjection
<1> HIDE DEF K, o
<1>4. c \in Nat
  BY <1>3, FS_CardinalityType
<1>5. o \in [1 .. c -> K] /\ \A i, j \in 1 .. c : i # j => o[i] # o[j]
  BY <1>2 DEF SetToSeqs
<1>6. Cardinality(1 .. c) = c
  BY <1>4, FS_Interval
<1>7. o \in Injection(1 .. c, K)
  BY <1>5 DEF Injection, IsInjective
<1>8. o \in Surjection(1 .. c, K)
  BY <1>3, <1>6, <1>7, FS_Injection
<1> HIDE DEF c
<1>9. o \in Seq(K) /\ Len(o) = c
  BY <1>4, <1>5
<1>10. o \in Seq(Key)
  BY <1>1, <1>9
<1>11. \A k : In(k, o) <=> k \in K
  BY <1>5, <1>8, <1>9 DEF In, Surjection
<1> QED BY <1>10, <1>11 DEF K, o

-----------------------------------------------------------------------------
(* The calls of flattenSchema                                              *)

\* What may be written.
Writing == [path : Key, type : Type]

\* The call for obj, and all of them: flattenSchema's recursive function.
Calls(d, order, out, obj) == [prefix \in Key |-> Writes(d, order, out, obj, prefix)]
OutOf(out, d, order) == out = [obj \in DOMAIN d |-> Calls(d, order, out, obj)]

\* A call depends on the calls for what is inside its object.
LEMMA CallsAgree ==
  ASSUME NEW d, IsDocument(d), NEW order \in Orders(d), NEW obj \in DOMAIN d, NEW f, NEW g,
         \A k \in Keys(d, obj) : f[Append(obj, k)] = g[Append(obj, k)]
  PROVE  Calls(d, order, f, obj) = Calls(d, order, g, obj)
<1> DEFINE o == order[obj]
<1>1. \A i \in 1 .. Len(o) : o[i] \in Keys(d, obj)
  BY KeysVisited DEF In
<1>2. ASSUME NEW prefix PROVE Writes(d, order, f, obj, prefix) = Writes(d, order, g, obj, prefix)
  <2>1. \A i \in 1 .. Len(o) : Visit(d, f, obj, prefix, o[i]) = Visit(d, g, obj, prefix, o[i])
    BY <1>1 DEF Visit
  <2>2. [i \in 1 .. Len(o) |-> Visit(d, f, obj, prefix, o[i])]
          = [i \in 1 .. Len(o) |-> Visit(d, g, obj, prefix, o[i])]
    BY <2>1
  <2> QED BY <2>2 DEF Writes
<1> QED BY <1>2 DEF Calls

\* Documents are not endlessly deep, so the recursion is sound.
LEMMA OutExists ==
  ASSUME NEW d, IsDocument(d), NEW order \in Orders(d)
  PROVE  \E out : OutOf(out, d, order)
<1> DEFINE Fit(f, n) ==
             /\ f = [obj \in DOMAIN d |-> f[obj]]
             /\ \A obj \in DOMAIN d : Len(obj) + n > MaxDepth => f[obj] = Calls(d, order, f, obj)
           T == {n \in Nat : \E f : Fit(f, n)}
<1>0. MaxDepth \in Nat /\ \A obj \in DOMAIN d : Len(obj) \in Nat /\ Len(obj) <= MaxDepth
  BY PositionsOf, SegmentAssumption
<1>1. 0 \in T
  <2> DEFINE f == [obj \in DOMAIN d |-> 0]
  <2>1. f = [obj \in DOMAIN d |-> f[obj]]
    OBVIOUS
  <2>2. \A obj \in DOMAIN d : ~ (Len(obj) + 0 > MaxDepth)
    BY <1>0
  <2> HIDE DEF f
  <2>3. Fit(f, 0)
    BY <2>1, <2>2
  <2> QED BY <2>3
<1>2. ASSUME NEW n \in T PROVE n + 1 \in T
  <2>1. PICK f : Fit(f, n)
    OBVIOUS
  <2> DEFINE g == [obj \in DOMAIN d |-> IF Len(obj) + n = MaxDepth THEN Calls(d, order, f, obj) ELSE f[obj]]
  <2>2. g = [obj \in DOMAIN d |-> g[obj]]
    OBVIOUS
  <2>3. ASSUME NEW obj \in DOMAIN d, Len(obj) + (n + 1) > MaxDepth PROVE g[obj] = Calls(d, order, g, obj)
    <3>1. \A k \in Keys(d, obj) : g[Append(obj, k)] = f[Append(obj, k)]
      <4> TAKE k \in Keys(d, obj)
      <4>1. Append(obj, k) \in DOMAIN d /\ Len(Append(obj, k)) = Len(obj) + 1
        BY KeysAre, PositionsOf, AppendProperties
      <4>2. Len(Append(obj, k)) + n # MaxDepth
        BY <1>0, <2>3, <4>1
      <4> QED BY <4>1, <4>2
    <3>2. Calls(d, order, g, obj) = Calls(d, order, f, obj)
      <4> HIDE DEF g
      <4> QED BY <3>1, CallsAgree
    <3>3. CASE Len(obj) + n = MaxDepth
      BY <3>2, <3>3
    <3>4. CASE Len(obj) + n # MaxDepth
      <4>1. Len(obj) + n > MaxDepth
        BY <1>0, <2>3, <3>4
      <4>2. f[obj] = Calls(d, order, f, obj)
        BY <2>1, <4>1
      <4> QED BY <3>2, <3>4, <4>2
    <3> QED BY <3>3, <3>4
  <2> HIDE DEF g
  <2>4. Fit(g, n + 1)
    BY <2>2, <2>3
  <2> HIDE DEF Fit
  <2> QED BY <2>4
<1>3. T = Nat
  <2> HIDE DEF T
  <2>1. T \subseteq Nat
    BY DEF T
  <2> QED BY <1>1, <1>2, <2>1, SetInduction
<1>4. PICK f : Fit(f, MaxDepth + 1)
  <2>1. MaxDepth + 1 \in T
    <3> HIDE DEF T
    <3> QED BY <1>0, <1>3
  <2> HIDE DEF Fit
  <2> QED BY <2>1
<1>5. \A obj \in DOMAIN d : f[obj] = Calls(d, order, f, obj)
  BY <1>0, <1>4
<1>6. f = [obj \in DOMAIN d |-> Calls(d, order, f, obj)]
  BY <1>4, <1>5, Zenon
<1> QED BY <1>6 DEF OutOf

\* So flattenSchema's writes are those of the call for the whole.
LEMMA FlattenSchemaIs ==
  ASSUME NEW d, IsDocument(d), NEW order \in Orders(d)
  PROVE  \E out : OutOf(out, d, order) /\ flattenSchema(d, order) = out[<<>>][Empty]
<1> DEFINE c == CHOOSE out : OutOf(out, d, order)
<1>1. OutOf(c, d, order)
  BY OutExists
<1>2. flattenSchema(d, order) = c[<<>>][Empty]
  BY DEF flattenSchema, OutOf, Calls
<1> QED BY <1>1, <1>2

\* A path is a string.
LEMMA PathIsKey == ASSUME NEW prefix \in Key, NEW k \in Key PROVE Path(prefix, k) \in Key
<1>1. prefix \in Seq(Segment) /\ k \in Seq(Segment) /\ Len(prefix) >= 1 /\ Len(k) >= 1
  BY KeyIsList
<1>2. prefix \o k \in Seq(Segment) /\ Len(prefix \o k) = Len(prefix) + Len(k)
  BY <1>1, ConcatProperties
<1>3. prefix \o k # <<>>
  <2>1. Len(prefix) \in Nat /\ Len(k) \in Nat /\ Len(<<>>) = 0
    BY KeyIsList
  <2> QED BY <1>1, <1>2, <2>1
<1>4. prefix \o k \in Key
  BY <1>2, <1>3 DEF Key
<1> QED BY <1>4 DEF Path

\* What the call for obj writes with a prefix.
Typed(d, out, obj) == \A prefix \in Key : out[obj][prefix] \in Seq(Writing)

\* What a visit writes, if pos is where it is and path its path.
Wrote(d, out, pos, path, w) ==
  w = Write(path, d[pos]) \/ (d[pos] = "object" /\ In(w, out[pos][path]))

LEMMA VisitWrites ==
  ASSUME NEW d, IsDocument(d), NEW obj \in DOMAIN d, NEW k \in Keys(d, obj), NEW prefix \in Key,
         NEW out, Typed(d, out, Append(obj, k))
  PROVE  /\ Visit(d, out, obj, prefix, k) \in Seq(Writing)
         /\ \A w : In(w, Visit(d, out, obj, prefix, k))
                     <=> Wrote(d, out, Append(obj, k), Path(prefix, k), w)
<1> DEFINE pos == Append(obj, k)
           path == Path(prefix, k)
           x == Write(path, d[pos])
           rest == IF d[pos] = "object" THEN out[pos][path] ELSE <<>>
<1>1. k \in Key /\ pos \in DOMAIN d /\ d[pos] \in Type
  BY KeysAre, PositionsOf
<1>2. path \in Key
  BY <1>1, PathIsKey
<1>3. x \in Writing
  BY <1>1, <1>2 DEF Write, Writing
<1>4. rest \in Seq(Writing)
  BY <1>2, EmptySeq DEF Typed
<1>5. Visit(d, out, obj, prefix, k) = <<x>> \o rest
  BY DEF Visit
<1>6. \A w : In(w, rest) <=> d[pos] = "object" /\ In(w, out[pos][path])
  <2>1. \A w : ~ In(w, <<>>)
    BY DEF In
  <2> QED BY <2>1
<1> HIDE DEF x, rest
<1>7. <<x>> \in Seq(Writing) /\ \A w : In(w, <<x>>) <=> w = x
  BY <1>3 DEF In
<1>8. <<x>> \o rest \in Seq(Writing) /\ \A w : In(w, <<x>> \o rest) <=> In(w, <<x>>) \/ In(w, rest)
  BY <1>4, <1>7, InConcat
<1>9. \A w : In(w, <<x>> \o rest) <=> Wrote(d, out, pos, path, w)
  BY <1>6, <1>7, <1>8 DEF Wrote, x
<1> QED BY <1>5, <1>8, <1>9

\* A call writes what its visits write.
LEMMA CallWrites ==
  ASSUME NEW d, IsDocument(d), NEW order \in Orders(d), NEW out, OutOf(out, d, order),
         NEW obj \in DOMAIN d, \A k \in Keys(d, obj) : Typed(d, out, Append(obj, k)), NEW prefix \in Key
  PROVE  /\ out[obj][prefix] \in Seq(Writing)
         /\ \A w : In(w, out[obj][prefix])
                     <=> \E k \in Keys(d, obj) : Wrote(d, out, Append(obj, k), Path(prefix, k), w)
<1> DEFINE o == order[obj]
           v == [i \in 1 .. Len(o) |-> Visit(d, out, obj, prefix, o[i])]
<1>1. o \in Seq(Key) /\ \A k : In(k, o) <=> k \in Keys(d, obj)
  BY KeysVisited
<1>2. out[obj] = Calls(d, order, out, obj)
  BY DEF OutOf
<1>3. out[obj][prefix] = FlattenSeq(v)
  BY <1>2 DEF Calls, Writes
<1>4. \A k \in Keys(d, obj) :
        /\ Visit(d, out, obj, prefix, k) \in Seq(Writing)
        /\ \A w : In(w, Visit(d, out, obj, prefix, k)) <=> Wrote(d, out, Append(obj, k), Path(prefix, k), w)
  BY VisitWrites
<1> HIDE DEF o
<1>5. \A i \in 1 .. Len(o) : o[i] \in Keys(d, obj)
  BY <1>1 DEF In
<1>6. v \in Seq(Seq(Writing)) /\ Len(v) = Len(o) /\ \A i \in 1 .. Len(o) : v[i] = Visit(d, out, obj, prefix, o[i])
  <2>1. Len(o) \in Nat
    BY <1>1, LenProperties
  <2> QED BY <1>4, <1>5, <2>1
<1> HIDE DEF v
<1>7. Flat(v, Writing)
  BY <1>6, FlattenHolds
<1>8. ASSUME NEW w
      PROVE  In(w, FlattenSeq(v)) <=> \E k \in Keys(d, obj) : In(w, Visit(d, out, obj, prefix, k))
  <2>1. In(w, FlattenSeq(v)) <=> \E i \in 1 .. Len(o) : In(w, Visit(d, out, obj, prefix, o[i]))
    BY <1>6, <1>7 DEF Flat
  <2>2. \A k \in Keys(d, obj) : \E i \in 1 .. Len(o) : o[i] = k
    BY <1>1 DEF In
  <2> QED BY <1>5, <2>1, <2>2
<1> QED BY <1>3, <1>4, <1>7, <1>8 DEF Flat

\* Every call writes fields and types.
LEMMA AllTyped ==
  ASSUME NEW d, IsDocument(d), NEW order \in Orders(d), NEW out, OutOf(out, d, order)
  PROVE  \A obj \in DOMAIN d : Typed(d, out, obj)
<1> DEFINE T == {n \in Nat : \A obj \in DOMAIN d : Len(obj) + n > MaxDepth => Typed(d, out, obj)}
<1>0. MaxDepth \in Nat /\ \A obj \in DOMAIN d : Len(obj) \in Nat /\ Len(obj) <= MaxDepth
  BY PositionsOf, SegmentAssumption
<1>1. 0 \in T
  BY <1>0
<1>2. ASSUME NEW n \in T PROVE n + 1 \in T
  <2> SUFFICES ASSUME NEW obj \in DOMAIN d, Len(obj) + (n + 1) > MaxDepth PROVE Typed(d, out, obj)
    OBVIOUS
  <2>1. \A k \in Keys(d, obj) : Typed(d, out, Append(obj, k))
    <3> TAKE k \in Keys(d, obj)
    <3>1. Append(obj, k) \in DOMAIN d /\ Len(Append(obj, k)) = Len(obj) + 1
      BY KeysAre, PositionsOf, AppendProperties
    <3>2. Len(Append(obj, k)) + n > MaxDepth
      BY <1>0, <3>1
    <3> QED BY <3>1, <3>2
  <2> HIDE DEF T
  <2> QED BY <2>1, CallWrites DEF Typed
<1>3. T = Nat
  <2> HIDE DEF T
  <2>1. T \subseteq Nat
    BY DEF T
  <2> QED BY <1>1, <1>2, <2>1, SetInduction
<1>4. MaxDepth + 1 \in T
  <2> HIDE DEF T
  <2> QED BY <1>0, <1>3
<1>5. \A obj \in DOMAIN d : Len(obj) + (MaxDepth + 1) > MaxDepth
  BY <1>0
<1> QED BY <1>4, <1>5

-----------------------------------------------------------------------------
(* What extractSchema returns                                              *)

\* What is in an object is one key deeper, and the object around it is in the document too.
LEMMA Around ==
  ASSUME NEW d, IsDocument(d), NEW pos \in DOMAIN d, pos # <<>>
  PROVE  /\ Front(pos) \in DOMAIN d /\ d[Front(pos)] = "object"
         /\ Last(pos) \in Keys(d, Front(pos)) /\ pos = Append(Front(pos), Last(pos))
         /\ Len(Front(pos)) \in Nat /\ Len(pos) = Len(Front(pos)) + 1
<1>1. pos \in Seq(Key)
  BY PositionsOf
<1>2. pos = Append(Front(pos), Last(pos)) /\ Front(pos) \in Seq(Key) /\ Last(pos) \in Key
  BY <1>1, FrontAndLast
<1>3. Front(pos) \in DOMAIN d /\ d[Front(pos)] = "object"
  BY DEF IsDocument
<1>4. Last(pos) \in Keys(d, Front(pos))
  BY <1>2, <1>3, KeysAre
<1>5. Len(Append(Front(pos), Last(pos))) = Len(Front(pos)) + 1 /\ Len(Front(pos)) \in Nat
  BY <1>2, AppendProperties, LenProperties
<1> QED BY <1>2, <1>3, <1>4, <1>5

\* No position leads through a key "" of a plain document itself.
LEMMA FirstKey ==
  ASSUME NEW d, Plain(d)
  PROVE  \A pos \in DOMAIN d : pos # <<>> => pos[1] # Empty
<1> DEFINE T == {n \in Nat : \A pos \in DOMAIN d : Len(pos) = n + 1 => pos[1] # Empty}
<1>0. IsDocument(d) /\ <<Empty>> \notin DOMAIN d /\ \A pos \in DOMAIN d : pos \in Seq(Key)
  BY PositionsOf DEF Plain
<1>1. 0 \in T
  <2> SUFFICES ASSUME NEW pos \in DOMAIN d, Len(pos) = 0 + 1 PROVE pos[1] # Empty
    OBVIOUS
  <2>1. pos \in Seq(Key) /\ Len(pos) = 1
    BY <1>0
  <2>2. pos = <<pos[1]>>
    BY <2>1
  <2> QED BY <1>0, <2>2
<1>2. ASSUME NEW n \in T PROVE n + 1 \in T
  <2> SUFFICES ASSUME NEW pos \in DOMAIN d, Len(pos) = (n + 1) + 1 PROVE pos[1] # Empty
    OBVIOUS
  <2> DEFINE f == Front(pos)
             k == Last(pos)
  <2>1. pos # <<>>
    BY <1>0, EmptySeq
  <2>2. f \in DOMAIN d /\ pos = Append(f, k) /\ Len(f) \in Nat /\ Len(pos) = Len(f) + 1 /\ k \in Key
    BY <1>0, <2>1, Around, KeysAre
  <2>3. f \in Seq(Key) /\ Len(f) = n + 1
    BY <1>0, <2>2
  <2> HIDE DEF f, k
  <2>4. f[1] # Empty
    BY <2>2, <2>3
  <2>5. 1 \in 1 .. Len(f)
    BY <2>3
  <2>6. Append(f, k)[1] = f[1]
    BY <2>2, <2>3, <2>5, AppendProperties
  <2> QED BY <2>2, <2>4, <2>6
<1>3. T = Nat
  <2> HIDE DEF T
  <2>1. T \subseteq Nat
    BY DEF T
  <2> QED BY <1>1, <1>2, <2>1, SetInduction
<1> SUFFICES ASSUME NEW pos \in DOMAIN d, pos # <<>> PROVE pos[1] # Empty
  OBVIOUS
<1>4. Len(pos) \in Nat /\ Len(pos) # 0
  BY <1>0, EmptySeq, LenProperties
<1>5. Len(pos) - 1 \in T /\ Len(pos) = (Len(pos) - 1) + 1
  <2> HIDE DEF T
  <2> QED BY <1>3, <1>4
<1> QED BY <1>5

\* The prefix of a call is where its object is.
LEMMA PathIs ==
  ASSUME NEW d, Plain(d), NEW obj \in DOMAIN d, NEW k \in Keys(d, obj)
  PROVE  /\ Prefix(obj) \in Key
         /\ Path(Prefix(obj), k) = FlattenSeq(Append(obj, k))
         /\ Prefix(Append(obj, k)) = FlattenSeq(Append(obj, k))
<1>1. obj \in Seq(Key) /\ k \in Key
  BY PositionsOf, KeysAre DEF Plain
<1>2. obj \in Seq(Seq(Segment)) /\ k \in Seq(Segment)
  BY <1>1, KeyIsList
<1>3. FlattenSeq(Append(obj, k)) = FlattenSeq(obj) \o k
  BY <1>2, FlattenAppend
<1>4. Prefix(Append(obj, k)) = FlattenSeq(Append(obj, k))
  BY <1>1, FrontOfAppend DEF Prefix
<1>5. CASE obj = <<>>
  <2>1. FlattenSeq(Append(obj, k)) = k
    BY <1>2, <1>3, <1>5, FlattenEmpty, ConcatEmptySeq
  <2>2. Prefix(obj) = Empty /\ Path(Empty, k) = k
    BY <1>5 DEF Prefix, Path
  <2> QED BY <1>4, <2>1, <2>2, KeyIsList
<1>6. CASE obj # <<>>
  <2>1. Prefix(obj) = FlattenSeq(obj)
    BY <1>6 DEF Prefix
  <2>2. obj[1] # Empty
    BY <1>6, FirstKey
  <2>3. FlattenSeq(obj) \in Key /\ FlattenSeq(obj) # Empty
    BY <1>1, <1>6, <2>2, Joined
  <2>4. Path(FlattenSeq(obj), k) = FlattenSeq(obj) \o k
    BY <2>3 DEF Path
  <2> QED BY <1>3, <1>4, <2>1, <2>3, <2>4
<1> QED BY <1>5, <1>6

\* The write for a field.
WriteOf(d, f) == Write(FlattenSeq(f), d[f])

\* What is written inside an object.
WrittenAt(d, out, obj, w) == In(w, out[obj][Prefix(obj)])

\* The writes for an object's keys, in a plain document.
LEMMA ObjectWrites ==
  ASSUME NEW d, Plain(d), NEW order \in Orders(d), NEW out, OutOf(out, d, order), NEW obj \in DOMAIN d, NEW w
  PROVE  WrittenAt(d, out, obj, w) <=>
           \E k \in Keys(d, obj) :
             \/ w = WriteOf(d, Append(obj, k))
             \/ d[Append(obj, k)] = "object" /\ WrittenAt(d, out, Append(obj, k), w)
<1>1. IsDocument(d)
  BY DEF Plain
<1>2. \A k \in Keys(d, obj) : Typed(d, out, Append(obj, k))
  BY <1>1, AllTyped, KeysAre
<1>3. Prefix(obj) \in Key
  <2>1. obj \in Seq(Key)
    BY <1>1, PositionsOf
  <2> QED BY <2>1, Joined, KeyIsList DEF Prefix
<1>4. WrittenAt(d, out, obj, w)
        <=> \E k \in Keys(d, obj) : Wrote(d, out, Append(obj, k), Path(Prefix(obj), k), w)
  BY <1>1, <1>2, <1>3, CallWrites DEF WrittenAt
<1>5. ASSUME NEW k \in Keys(d, obj)
      PROVE  Wrote(d, out, Append(obj, k), Path(Prefix(obj), k), w)
               <=> \/ w = WriteOf(d, Append(obj, k))
                   \/ d[Append(obj, k)] = "object" /\ WrittenAt(d, out, Append(obj, k), w)
  <2>1. Path(Prefix(obj), k) = FlattenSeq(Append(obj, k)) /\ Prefix(Append(obj, k)) = FlattenSeq(Append(obj, k))
    BY PathIs
  <2> QED BY <2>1 DEF Wrote, WriteOf, WrittenAt
<1> QED BY <1>4, <1>5

\* Only fields are written.
LEMMA OnlyFields ==
  ASSUME NEW d, Plain(d), NEW order \in Orders(d), NEW out, OutOf(out, d, order)
  PROVE  \A w : WrittenAt(d, out, <<>>, w) => \E f \in Fields(d) : w = WriteOf(d, f)
<1> DEFINE Only(obj) == \A w : WrittenAt(d, out, obj, w) => \E f \in Fields(d) : w = WriteOf(d, f)
           T == {n \in Nat : \A obj \in DOMAIN d : Len(obj) + n > MaxDepth => Only(obj)}
<1>0. /\ IsDocument(d) /\ MaxDepth \in Nat /\ <<>> \in DOMAIN d
      /\ \A obj \in DOMAIN d : Len(obj) \in Nat /\ Len(obj) <= MaxDepth
  BY PositionsOf, SegmentAssumption DEF Plain
<1>1. 0 \in T
  <2>1. \A obj \in DOMAIN d : ~ (Len(obj) + 0 > MaxDepth)
    BY <1>0
  <2> HIDE DEF Only
  <2> QED BY <2>1
<1>2. ASSUME NEW n \in T PROVE n + 1 \in T
  <2> SUFFICES ASSUME NEW obj \in DOMAIN d, Len(obj) + (n + 1) > MaxDepth PROVE Only(obj)
    BY DEF T
  <2>1. \A k \in Keys(d, obj) : Append(obj, k) \in Fields(d) /\ Only(Append(obj, k))
    <3> TAKE k \in Keys(d, obj)
    <3>1. Append(obj, k) \in DOMAIN d /\ Len(Append(obj, k)) = Len(obj) + 1 /\ Append(obj, k) # <<>>
      BY <1>0, KeysAre, PositionsOf, AppendProperties, FrontOfAppend
    <3>2. Len(Append(obj, k)) + n > MaxDepth
      BY <1>0, <3>1
    <3> HIDE DEF Only
    <3>3. Only(Append(obj, k))
      BY <3>1, <3>2 DEF T
    <3> QED BY <3>1, <3>3 DEF Fields
  <2> SUFFICES ASSUME NEW w, WrittenAt(d, out, obj, w) PROVE \E f \in Fields(d) : w = WriteOf(d, f)
    OBVIOUS
  <2>2. PICK k \in Keys(d, obj) :
          \/ w = WriteOf(d, Append(obj, k))
          \/ d[Append(obj, k)] = "object" /\ WrittenAt(d, out, Append(obj, k), w)
    BY ObjectWrites
  <2> QED BY <2>1, <2>2
<1>3. T = Nat
  <2> HIDE DEF T
  <2>1. T \subseteq Nat
    BY DEF T
  <2> QED BY <1>1, <1>2, <2>1, SetInduction
<1>4. MaxDepth + 1 \in T
  <2> HIDE DEF T
  <2> QED BY <1>0, <1>3
<1> HIDE DEF Only
<1>5. Len(<<>>) = 0 /\ 0 + (MaxDepth + 1) > MaxDepth
  BY <1>0
<1>6. Only(<<>>)
  BY <1>0, <1>4, <1>5
<1> QED BY <1>6 DEF Only

\* Every field is written.
LEMMA AllFields ==
  ASSUME NEW d, Plain(d), NEW order \in Orders(d), NEW out, OutOf(out, d, order), NEW f \in Fields(d)
  PROVE  WrittenAt(d, out, <<>>, WriteOf(d, f))
<1> DEFINE Up(obj) == d[obj] = "object" => \A w : WrittenAt(d, out, obj, w) => WrittenAt(d, out, <<>>, w)
           T == {n \in Nat : \A obj \in DOMAIN d : Len(obj) = n => Up(obj)}
<1>0. IsDocument(d) /\ \A obj \in DOMAIN d : obj \in Seq(Key) /\ Len(obj) \in Nat
  BY PositionsOf DEF Plain
<1>1. 0 \in T
  <2>1. \A obj \in DOMAIN d : Len(obj) = 0 => obj = <<>>
    BY <1>0, EmptySeq
  <2> QED BY <2>1
<1>2. ASSUME NEW n \in T PROVE n + 1 \in T
  <2> SUFFICES ASSUME NEW obj \in DOMAIN d, Len(obj) = n + 1, d[obj] = "object",
                      NEW w, WrittenAt(d, out, obj, w)
               PROVE  WrittenAt(d, out, <<>>, w)
    OBVIOUS
  <2> DEFINE g == Front(obj)
             k == Last(obj)
  <2>1. obj # <<>>
    BY <1>0, EmptySeq
  <2>2. g \in DOMAIN d /\ d[g] = "object" /\ k \in Keys(d, g) /\ obj = Append(g, k) /\ Len(g) = n
    BY <1>0, <2>1, Around
  <2> HIDE DEF g, k
  <2>3. WrittenAt(d, out, g, w)
    BY <2>2, ObjectWrites
  <2> QED BY <2>2, <2>3
<1>3. T = Nat
  <2> HIDE DEF T
  <2>1. T \subseteq Nat
    BY DEF T
  <2> QED BY <1>1, <1>2, <2>1, SetInduction
<1>4. f \in DOMAIN d /\ f # <<>>
  BY DEF Fields
<1> DEFINE g == Front(f)
           k == Last(f)
<1>5. g \in DOMAIN d /\ d[g] = "object" /\ k \in Keys(d, g) /\ f = Append(g, k) /\ Len(g) \in Nat
  BY <1>0, <1>4, Around
<1> HIDE DEF g, k
<1>6. WrittenAt(d, out, g, WriteOf(d, f))
  BY <1>5, ObjectWrites
<1>7. Len(g) \in T
  <2> HIDE DEF T
  <2> QED BY <1>3, <1>5
<1> QED BY <1>5, <1>6, <1>7

\* s holds a type for every path written, one that was written for it.
Holds(s, ws) ==
  /\ s = [path \in DOMAIN s |-> s[path]]
  /\ \A path : path \in DOMAIN s <=> \E w : In(w, ws) /\ w.path = path
  /\ \A path \in DOMAIN s : \E w : In(w, ws) /\ w.path = path /\ s[path] = w.type

LEMMA WrittenHolds == ASSUME NEW S, NEW ws \in Seq(S) PROVE Holds(Written(ws), ws)
<1> DEFINE P == {w.path : w \in ToSet(ws)}
           Final(path, i) == /\ ws[i].path = path
                             /\ \A j \in i + 1 .. Len(ws) : ws[j].path # path
           At(path) == CHOOSE i \in DOMAIN ws : Final(path, i)
<1>1. Len(ws) \in Nat /\ DOMAIN ws = 1 .. Len(ws)
  BY LenProperties
<1>2. ToSet(ws) = {ws[i] : i \in 1 .. Len(ws)}
  BY <1>1 DEF ToSet
<1>3. \A path : path \in P <=> \E w : In(w, ws) /\ w.path = path
  BY <1>2 DEF In
<1>4. Written(ws) = [path \in P |-> ws[At(path)].type]
  BY DEF Written
<1>5. ASSUME NEW path \in P PROVE \E i \in DOMAIN ws : Final(path, i)
  <2> DEFINE I == {n \in Nat : n < Len(ws) /\ ws[Len(ws) - n].path = path}
  <2>1. I # {}
    <3>1. PICK i \in 1 .. Len(ws) : ws[i].path = path
      BY <1>3 DEF In
    <3>2. Len(ws) - i \in Nat /\ Len(ws) - i < Len(ws) /\ Len(ws) - (Len(ws) - i) = i
      BY <1>1
    <3>3. Len(ws) - i \in I
      BY <3>1, <3>2
    <3> QED BY <3>3
  <2>2. PICK n \in I : \A m \in I : n <= m
    <3>1. I \in SUBSET Nat
      OBVIOUS
    <3> HIDE DEF I
    <3> QED BY <2>1, <3>1, LeastElement
  <2>3. n \in Nat /\ n < Len(ws) /\ ws[Len(ws) - n].path = path
    OBVIOUS
  <2>4. ASSUME NEW j \in Len(ws) - n + 1 .. Len(ws), ws[j].path = path PROVE FALSE
    <3>1. Len(ws) - j \in Nat /\ Len(ws) - j < Len(ws) /\ Len(ws) - (Len(ws) - j) = j /\ Len(ws) - j < n
      BY <1>1, <2>3
    <3>2. Len(ws) - j \in I
      BY <2>4, <3>1
    <3> HIDE DEF I
    <3>3. n <= Len(ws) - j
      BY <2>2, <3>2
    <3> QED BY <2>3, <3>1, <3>3
  <2>5. Len(ws) - n \in 1 .. Len(ws)
    BY <1>1, <2>3
  <2> QED BY <1>1, <2>3, <2>4, <2>5
<1>6. ASSUME NEW path \in P PROVE In(ws[At(path)], ws) /\ ws[At(path)].path = path
  <2>1. At(path) \in DOMAIN ws /\ Final(path, At(path))
    BY <1>5, <1>6
  <2> HIDE DEF At
  <2> QED BY <1>1, <2>1 DEF In
<1> HIDE DEF P, At
<1>7. DOMAIN Written(ws) = P /\ \A path \in P : Written(ws)[path] = ws[At(path)].type
  BY <1>4
<1>8. Written(ws) = [path \in P |-> Written(ws)[path]]
  BY <1>4, <1>7
<1> DEFINE s == Written(ws)
<1>9. DOMAIN s = P /\ s = [path \in P |-> s[path]] /\ \A path \in P : s[path] = ws[At(path)].type
  BY <1>7, <1>8
<1> HIDE DEF s
<1>10. Holds(s, ws)
  BY <1>3, <1>6, <1>9 DEF Holds
<1> QED BY <1>10 DEF s

\* The schema of an unambiguous document.
LEMMA ExtractExact ==
  ASSUME NEW d, IsDocument(d), Unambiguous(d), NEW s \in extractSchema(d)
  PROVE  s = SchemaOfFields(d)
<1>1. PICK order \in Orders(d) : s = Written(flattenSchema(d, order))
  BY DEF extractSchema
<1>2. Plain(d)
  BY DEF Plain, Unambiguous
<1>3. PICK out : OutOf(out, d, order) /\ flattenSchema(d, order) = out[<<>>][Empty]
  BY FlattenSchemaIs
<1> DEFINE ws == out[<<>>][Empty]
<1>4. ws \in Seq(Writing)
  <2>1. Typed(d, out, <<>>)
    BY <1>3, AllTyped, PositionsOf
  <2> QED BY <2>1, KeyIsList DEF Typed
<1>5. \A w : In(w, ws) <=> \E f \in Fields(d) : w = WriteOf(d, f)
  <2>1. \A w : In(w, ws) <=> WrittenAt(d, out, <<>>, w)
    BY DEF WrittenAt, Prefix
  <2> QED BY <1>2, <1>3, <2>1, OnlyFields, AllFields
<1>6. Holds(s, ws)
  <2>1. s = Written(ws)
    BY <1>1, <1>3
  <2> QED BY <1>4, <2>1, WrittenHolds
<1> HIDE DEF ws
<1> DEFINE P == {FlattenSeq(f) : f \in Fields(d)}
           Field1(path) == CHOOSE f \in Fields(d) : FlattenSeq(f) = path
<1>7. \A f : WriteOf(d, f).path = FlattenSeq(f) /\ WriteOf(d, f).type = d[f]
  BY DEF WriteOf, Write
<1>8. DOMAIN s = P
  <2>1. \A path : path \in DOMAIN s <=> \E w : In(w, ws) /\ w.path = path
    BY <1>6 DEF Holds
  <2>2. \A path : path \in DOMAIN s <=> \E f \in Fields(d) : FlattenSeq(f) = path
    BY <1>5, <1>7, <2>1
  <2> QED BY <2>2
<1>9. ASSUME NEW path \in P PROVE s[path] = d[Field1(path)]
  <2>1. PICK w : In(w, ws) /\ w.path = path /\ s[path] = w.type
    <3>1. path \in DOMAIN s
      BY <1>8
    <3> QED BY <1>6, <3>1 DEF Holds
  <2>2. PICK f \in Fields(d) : w = WriteOf(d, f)
    BY <1>5, <2>1
  <2>3. FlattenSeq(f) = path /\ s[path] = d[f]
    BY <1>7, <2>1, <2>2
  <2>4. Field1(path) \in Fields(d) /\ FlattenSeq(Field1(path)) = path
    BY <2>3
  <2> HIDE DEF Field1
  <2>5. Field1(path) = f
    BY <2>3, <2>4 DEF Unambiguous
  <2> QED BY <2>3, <2>5
<1>10. s = [path \in P |-> s[path]]
  BY <1>6, <1>8 DEF Holds
<1>11. SchemaOfFields(d) = [path \in P |-> d[Field1(path)]]
  BY DEF SchemaOfFields
<1> HIDE DEF P, Field1
<1> QED BY <1>9, <1>10, <1>11

-----------------------------------------------------------------------------
(* Comparing schemas                                                       *)

\* Every member of Schema is a function, with fields for a domain and types for values.
LEMMA SchemaIsFunction ==
  ASSUME NEW s \in Schema
  PROVE  /\ DOMAIN s \subseteq Field
         /\ s \in [DOMAIN s -> Type]
BY DEF Schema

\* What diffSchemas reports of any field of two schemas.
LEMMA DiffExact ==
  ASSUME NEW b \in Schema, NEW c \in Schema
  PROVE  SaysExactly(diffSchemas(b, c), b, c)
<1> DEFINE D == diffSchemas(b, c)
<1>0. /\ \A m \in Missing(b, c) : m.field \in DOMAIN b \ DOMAIN c
      /\ \A m \in Changed(b, c) : m.field \in DOMAIN b \cap DOMAIN c /\ b[m.field] # c[m.field]
      /\ \A m \in Added(b, c) : m.field \in DOMAIN c \ DOMAIN b
  BY DEF Missing, Changed, Added, Mismatch
<1>1. ASSUME NEW f \in DOMAIN b \cap DOMAIN c
      PROVE  Reported(D, f) = IF b[f] = c[f] THEN {}
                              ELSE {Mismatch("TYPE_CHANGE", f, b[f], c[f])}
  <2>1. Reported(D, f) = {m \in Changed(b, c) : m.field = f}
    BY <1>0 DEF Reported, diffSchemas
  <2>2. CASE b[f] = c[f]
    BY <1>0, <2>1, <2>2
  <2>3. CASE b[f] # c[f]
    <3>1. Mismatch("TYPE_CHANGE", f, b[f], c[f]) \in Changed(b, c)
      BY <2>3 DEF Changed
    <3>2. \A m \in Changed(b, c) : m.field = f => m = Mismatch("TYPE_CHANGE", f, b[f], c[f])
      BY DEF Changed, Mismatch
    <3>3. Mismatch("TYPE_CHANGE", f, b[f], c[f]).field = f
      BY DEF Mismatch
    <3> QED BY <2>1, <2>3, <3>1, <3>2, <3>3
  <2> QED BY <2>2, <2>3
<1>2. ASSUME NEW f \in DOMAIN b \ DOMAIN c
      PROVE  Reported(D, f) = {Mismatch("MISSING_FIELD", f, b[f], NoType)}
  <2>1. Reported(D, f) = {m \in Missing(b, c) : m.field = f}
    BY <1>0 DEF Reported, diffSchemas
  <2>2. Mismatch("MISSING_FIELD", f, b[f], NoType) \in Missing(b, c)
    BY DEF Missing
  <2>3. \A m \in Missing(b, c) : m.field = f => m = Mismatch("MISSING_FIELD", f, b[f], NoType)
    BY DEF Missing, Mismatch
  <2>4. Mismatch("MISSING_FIELD", f, b[f], NoType).field = f
    BY DEF Mismatch
  <2> QED BY <2>1, <2>2, <2>3, <2>4
<1>3. ASSUME NEW f \in DOMAIN c \ DOMAIN b
      PROVE  Reported(D, f) = {Mismatch("ADDED_FIELD", f, NoType, c[f])}
  <2>1. Reported(D, f) = {m \in Added(b, c) : m.field = f}
    BY <1>0 DEF Reported, diffSchemas
  <2>2. Mismatch("ADDED_FIELD", f, NoType, c[f]) \in Added(b, c)
    BY DEF Added
  <2>3. \A m \in Added(b, c) : m.field = f => m = Mismatch("ADDED_FIELD", f, NoType, c[f])
    BY DEF Added, Mismatch
  <2>4. Mismatch("ADDED_FIELD", f, NoType, c[f]).field = f
    BY DEF Mismatch
  <2> QED BY <2>1, <2>2, <2>3, <2>4
<1>4. \A m \in D : m.field \in DOMAIN b \cup DOMAIN c
  BY <1>0 DEF diffSchemas
<1> QED BY <1>1, <1>2, <1>3, <1>4 DEF SaysExactly

\* diffSchemas returns mismatches.
LEMMA DiffTyped ==
  ASSUME NEW b \in Schema, NEW c \in Schema
  PROVE  diffSchemas(b, c) \subseteq Mismatches
<1>1. /\ \A f \in DOMAIN b : f \in Field /\ b[f] \in Type
      /\ \A f \in DOMAIN c : f \in Field /\ c[f] \in Type
  BY SchemaIsFunction
<1>2. Missing(b, c) \subseteq Mismatches
  BY <1>1 DEF Missing, Mismatch, Mismatches
<1>3. Changed(b, c) \subseteq Mismatches
  BY <1>1 DEF Changed, Mismatch, Mismatches
<1>4. Added(b, c) \subseteq Mismatches
  BY <1>1 DEF Added, Mismatch, Mismatches
<1> QED BY <1>2, <1>3, <1>4 DEF diffSchemas

\* A call that returns forgets what it had, and leaves the other calls alone.
LEMMA ReturnTyped ==
  ASSUME TypeOK, ResultInv, NEW p \in Proc, Return(p),
         baseline' \in Schema \cup {NoSchema}, taught' \in Nat
  PROVE  TypeOK' /\ ResultInv'
BY DEF TypeOK, ResultInv, Return, Goto, diffSchemas, Missing, Changed, Added

\* A call's schema is one of its document's, until it returns.
LEMMA ParsedKept ==
  ASSUME TypeOK, ParsedInv, [Next]_vars
  PROVE  ParsedInv'
<1>1. doc \in [Proc -> Document \cup {NoDocument}] /\ current \in [Proc -> Schema \cup {NoSchema}]
  BY DEF TypeOK
<1>2. ASSUME NEW p \in Proc, NEW l, Extract(p, l) PROVE ParsedInv'
  <2>1. PICK d \in Document : \E s \in Schemas[d] :
          doc' = [doc EXCEPT ![p] = d] /\ current' = [current EXCEPT ![p] = s]
    BY <1>2 DEF Extract, Parsed
  <2>2. PICK s \in Schemas[d] : doc' = [doc EXCEPT ![p] = d] /\ current' = [current EXCEPT ![p] = s]
    BY <2>1
  <2> QED BY <1>1, <2>2 DEF ParsedInv
<1>3. ASSUME NEW p \in Proc, Return(p) PROVE ParsedInv'
  BY <1>1, <1>3 DEF Return, ParsedInv
<1>4. ASSUME UNCHANGED <<doc, current>> PROVE ParsedInv'
  BY <1>4 DEF ParsedInv
<1>5. ASSUME NEW p \in Proc, Step(p)
      PROVE  (\E l : Extract(p, l)) \/ Return(p) \/ UNCHANGED <<doc, current>>
  BY <1>5 DEF Step, LearnExtract, LearnStore, ValidateExtract, ValidateLocked, ValidateDiff, ValidateReturn, Reset
<1>6. CASE Next
  BY <1>2, <1>3, <1>4, <1>5, <1>6 DEF Next
<1>7. CASE UNCHANGED vars
  BY <1>4, <1>7 DEF vars
<1> QED BY <1>6, <1>7

\* The rest of IInv is preserved by every step of a goroutine.
LEMMA StepIInv ==
  ASSUME TypeOK, ResultInv, TeacherInv, NEW p \in Proc, Step(p)
  PROVE  TypeOK' /\ ResultInv' /\ TeacherInv'
<1>1. CASE LearnExtract(p) \/ ValidateExtract(p)
  <2>1. PICK l \in {"learn", "validate"} : Extract(p, l)
    BY <1>1 DEF LearnExtract, ValidateExtract
  <2>2. PICK d \in Document, s \in Schema :
          doc' = [doc EXCEPT ![p] = d] /\ current' = [current EXCEPT ![p] = s]
    <3>1. \A d \in Document : Parsed(d) \subseteq Schema
      BY ValidatorAssumption DEF Parsed
    <3> QED BY <2>1, <3>1 DEF Extract
  <2>3. TypeOK'
    BY <2>1, <2>2 DEF TypeOK, Extract, Goto
  <2>4. ResultInv'
    BY <2>1, <2>2 DEF TypeOK, ResultInv, Extract, Goto, diffSchemas, Missing, Changed, Added
  <2>5. TeacherInv'
    BY <2>1 DEF TeacherInv, Extract
  <2> QED BY <2>3, <2>4, <2>5
<1>2. CASE LearnStore(p)
  <2>1. current[p] \in Schema
    BY <1>2 DEF LearnStore, TypeOK
  <2>2. TypeOK' /\ ResultInv'
    BY <1>2, <2>1, ReturnTyped DEF LearnStore
  <2>3. TeacherInv'
    BY <1>2 DEF TeacherInv, LearnStore
  <2> QED BY <2>2, <2>3
<1>3. CASE ValidateLocked(p)
  <2>1. current[p] \in Schema /\ pc[p] = "validate"
    BY <1>3 DEF ValidateLocked, TypeOK
  <2>2. CASE Teaches(p)
    <3>1. baseline' = current[p] /\ taught' = taught + 1 /\ Return(p) /\ taught = 0
      BY <1>3, <2>2 DEF ValidateLocked, Teaches, TeacherInv
    <3>2. TypeOK' /\ ResultInv'
      BY <2>1, <3>1, ReturnTyped DEF TypeOK
    <3>3. TeacherInv'
      BY <2>1, <3>1, ValidatorAssumption DEF TeacherInv
    <3> QED BY <3>2, <3>3
  <2>3. CASE ~Teaches(p)
    <3>1. /\ baseline \in Schema
          /\ copied' = [copied EXCEPT ![p] = baseline] /\ Goto(p, "diff")
          /\ UNCHANGED <<baseline, taught, doc, current, result, unset>>
      BY <1>3, <2>3 DEF ValidateLocked, Teaches, TypeOK
    <3>2. TypeOK'
      BY <2>1, <3>1 DEF TypeOK, Goto
    <3>3. ResultInv'
      BY <2>1, <3>1 DEF TypeOK, ResultInv, Goto, diffSchemas, Missing, Changed, Added
    <3>4. TeacherInv'
      BY <3>1 DEF TeacherInv
    <3> QED BY <3>2, <3>3, <3>4
  <2> QED BY <2>2, <2>3
<1>4. CASE ValidateDiff(p)
  <2>1. TypeOK'
    <3>1. diffSchemas(copied[p], current[p]) \subseteq Mismatches
      BY <1>4, DiffTyped DEF TypeOK, ValidateDiff
    <3> QED BY <1>4, <3>1 DEF TypeOK, ValidateDiff, Goto
  <2>2. ResultInv'
    BY <1>4 DEF TypeOK, ResultInv, ValidateDiff, Goto, diffSchemas, Missing, Changed, Added
  <2>3. TeacherInv'
    BY <1>4 DEF TeacherInv, ValidateDiff
  <2> QED BY <2>1, <2>2, <2>3
<1>5. CASE ValidateReturn(p)
  <2>1. TypeOK' /\ ResultInv'
    BY <1>5, ReturnTyped DEF ValidateReturn, TypeOK
  <2>2. TeacherInv'
    BY <1>5 DEF TeacherInv, ValidateReturn
  <2> QED BY <2>1, <2>2
<1>6. CASE Reset(p)
  <2>1. TypeOK'
    BY <1>6 DEF TypeOK, Reset
  <2>2. ResultInv'
    BY <1>6 DEF ResultInv, Reset, diffSchemas, Missing, Changed, Added
  <2>3. TeacherInv'
    BY <1>6 DEF TeacherInv, Reset
  <2> QED BY <2>1, <2>2, <2>3
<1> QED BY <1>1, <1>2, <1>3, <1>4, <1>5, <1>6 DEF Step

\* IInv holds in every reachable state.
THEOREM ValidatorInductive == Spec => []IInv
<1>1. Init => IInv
  BY DEF Init, IInv, TypeOK, ResultInv, TeacherInv, ParsedInv
<1>2. IInv /\ [Next]_vars => IInv'
  <2> SUFFICES ASSUME IInv, [Next]_vars PROVE IInv'
    OBVIOUS
  <2>1. ParsedInv'
    BY ParsedKept DEF IInv
  <2>2. CASE UNCHANGED vars
    <3>1. TypeOK' /\ ResultInv' /\ TeacherInv'
      BY <2>2 DEF vars, IInv, TypeOK, ResultInv, TeacherInv, diffSchemas, Missing, Changed, Added
    <3> QED BY <2>1, <3>1 DEF IInv
  <2>3. CASE Next
    <3>1. TypeOK' /\ ResultInv' /\ TeacherInv'
      BY <2>3, StepIInv DEF Next, IInv
    <3> QED BY <2>1, <3>1 DEF IInv
  <2> QED BY <2>2, <2>3
<1> QED BY <1>1, <1>2, PTL DEF Spec

\* Type correctness: no call goes on without a schema, nor compares with no baseline.
THEOREM ValidatorTyping == Spec => []TypeOK
<1>1. IInv => TypeOK
  BY DEF IInv
<1> QED BY <1>1, ValidatorInductive, PTL

\* What Validate returns is exactly the difference between the baseline and the response.
THEOREM Exactness == Spec => []ResultExact
<1>1. IInv => ResultExact
  BY DiffExact DEF IInv, TypeOK, ResultInv, ResultExact
<1> QED BY <1>1, ValidatorInductive, PTL

\* Between two Resets or Learns only one Validate sets the baseline.
THEOREM SingleTeacher == Spec => []OneTeacher
<1>1. IInv => OneTeacher
  BY DEF IInv, TeacherInv, OneTeacher
<1> QED BY <1>1, ValidatorInductive, PTL
\* The schema of a document in which no two fields share a dotted path is the type of every
\* field at any depth by that path, in whatever order flattenSchema visits its maps.
THEOREM SchemasExact == Spec => []SchemaExact
<1>1. IInv => SchemaExact
  <2> SUFFICES ASSUME IInv, NEW p \in Proc, doc[p] # NoDocument, Unambiguous(doc[p])
               PROVE  current[p] = SchemaOfFields(doc[p])
    BY DEF SchemaExact
  <2>1. doc[p] \in Document /\ current[p] \in Schemas[doc[p]]
    BY DEF IInv, TypeOK, ParsedInv
  <2>2. IsDocument(doc[p])
    BY <2>1, ValidatorAssumption
  <2>3. current[p] \in extractSchema(doc[p])
    BY <2>1 DEF Schemas
  <2> QED BY <2>2, <2>3, ExtractExact
<1> QED BY <1>1, ValidatorInductive, PTL
=============================================================================
