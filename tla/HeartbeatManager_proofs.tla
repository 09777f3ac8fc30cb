----------------------- MODULE HeartbeatManager_proofs -----------------------
(***************************************************************************)
(* Proofs about HeartbeatManager, for any goroutines, sessions, writers    *)
(* and responses: the shape of the state, that a state is claimed once     *)
(* although addresses are reused, and that a claim undoes no cookie.       *)
(***************************************************************************)
EXTENDS HeartbeatManager, FiniteSetTheorems, TLAPS

Label == {"idle", "found", "claim", "claimed", "extract", "store",
          "off", "select", "request", "each", "exited"}

\* TypeOK with what a goroutine's place says of its local variables.
TypeInv ==
  /\ TypeOK
  /\ pc \in [Proc -> Label]
  /\ \A p \in Proc :
       /\ pc[p] \in {"found", "claim", "claimed", "extract", "store"} => id[p] \in Session
       /\ pc[p] \in {"extract", "store", "each"} => resp[p] \in Response
       /\ pc[p] \in {"claim", "claimed"} => old[p] # NoState /\ sessions[id[p]] # NoState

-----------------------------------------------------------------------------
(* Addresses                                                               *)

LEMMA ProcFacts ==
  /\ Loop \in Proc /\ Caller \subseteq Proc /\ Loop \notin Caller
  /\ IsFiniteSet(Proc) /\ Cardinality(Proc) \in Nat
  /\ IsFiniteSet(Session) /\ Cardinality(Session) \in Nat
BY HeartbeatAssumption, FS_AddElement, FS_CardinalityType DEF Proc

\* As many addresses are in use as there are references, at most.
LEMMA AddressesOf ==
  ASSUME NEW S, IsFiniteSet(S), NEW f \in [S -> StateRecord \cup {NoState}]
  PROVE  LET A == {f[x].at : x \in {y \in S : f[y] # NoState}}
         IN  IsFiniteSet(A) /\ Cardinality(A) \in Nat /\ Cardinality(A) <= Cardinality(S)
<1> DEFINE T == {y \in S : f[y] # NoState}
           A == {f[x].at : x \in T}
           g == [x \in T |-> f[x].at]
<1>1. IsFiniteSet(T) /\ Cardinality(T) <= Cardinality(S)
  BY FS_Subset
<1>2. g \in Surjection(T, A)
  BY DEF Surjection
<1>3. IsFiniteSet(A) /\ Cardinality(A) <= Cardinality(T)
  <2> HIDE DEF g, A, T
  <2> QED BY <1>1, <1>2, FS_Surjection
<1>4. Cardinality(A) \in Nat /\ Cardinality(T) \in Nat /\ Cardinality(S) \in Nat
  BY <1>1, <1>3, FS_CardinalityType
<1> QED BY <1>1, <1>3, <1>4

\* There is an address nothing refers to, and a new state gets one.
LEMMA FreshIsNew ==
  ASSUME TypeInv
  PROVE  Fresh \in Address /\ \A st \in Referenced : st.at # Fresh
<1> DEFINE A == {sessions[s].at : s \in {t \in Session : sessions[t] # NoState}}
           B == {old[p].at : p \in {q \in Proc : old[q] # NoState}}
<1>1. IsFiniteSet(A) /\ Cardinality(A) \in Nat /\ Cardinality(A) <= Cardinality(Session)
  BY AddressesOf, ProcFacts DEF TypeInv, TypeOK
<1>2. IsFiniteSet(B) /\ Cardinality(B) \in Nat /\ Cardinality(B) <= Cardinality(Proc)
  BY AddressesOf, ProcFacts DEF TypeInv, TypeOK
<1>3. \A st \in Referenced : st.at \in A \cup B
  BY DEF Referenced
<1> HIDE DEF A, B
<1>4. IsFiniteSet(A \cup B) /\ Cardinality(A \cup B) <= Cardinality(Session) + Cardinality(Proc)
  <2>1. /\ IsFiniteSet(A \cup B)
        /\ Cardinality(A \cup B) = Cardinality(A) + Cardinality(B) - Cardinality(A \cap B)
    BY <1>1, <1>2, FS_Union
  <2>2. Cardinality(A \cap B) \in Nat
    BY <1>1, FS_Subset, FS_CardinalityType
  <2> QED BY <1>1, <1>2, <2>1, <2>2, ProcFacts
<1>5. \E a \in Address : a \notin A \cup B
  <2>1. Cardinality(Address) = Cardinality(Session) + Cardinality(Proc) + 1
    BY FS_Interval, ProcFacts DEF Address
  <2> SUFFICES ASSUME Address \subseteq A \cup B PROVE FALSE
    OBVIOUS
  <2>2. Cardinality(Address) <= Cardinality(A \cup B) /\ Cardinality(A \cup B) \in Nat
    BY <1>4, FS_Subset, FS_CardinalityType
  <2> QED BY <1>4, <2>1, <2>2, ProcFacts
<1> QED BY <1>3, <1>5 DEF Fresh

LEMMA NewStateType ==
  ASSUME TypeInv, NEW v \in BOOLEAN, NEW c \in [Name -> Response \cup {NoResponse}],
         NEW t \in Response \cup {NoResponse}
  PROVE  NewState(v, c, t) \in StateRecord /\ NewState(v, c, t).at = Fresh
         /\ NewState(v, c, t).cookies = c /\ NewState(v, c, t) # NoState
<1>1. NewState(v, c, t) \in StateRecord
  BY FreshIsNew DEF NewState, StateRecord
<1> QED BY <1>1, HeartbeatAssumption DEF NewState

LEMMA MergedType ==
  ASSUME NEW c \in [Name -> Response \cup {NoResponse}], NEW r \in Response,
         NEW t \in Response \cup {NoResponse}
  PROVE  /\ mergeCookies(c, r) \in [Name -> Response \cup {NoResponse}]
         /\ NewToken(t, r) \in Response \cup {NoResponse}
BY DEF mergeCookies, NewToken

LEMMA BaseType ==
  ASSUME TypeInv, NEW p \in Proc
  PROVE  /\ NoCookies \in [Name -> Response \cup {NoResponse}]
         /\ Base(p).cookies \in [Name -> Response \cup {NoResponse}]
         /\ Base(p).token \in Response \cup {NoResponse}
BY DEF TypeInv, TypeOK, Base, NoCookies, StateRecord

-----------------------------------------------------------------------------
(* The shape of the state                                                  *)

\* Every change of the map stores one new state.
Put(s, x) ==
  /\ x \in StateRecord /\ x # NoState /\ x.at = Fresh
  /\ sessions' = [sessions EXCEPT ![s] = x]

LEMMA SetStatePuts ==
  ASSUME TypeInv, NEW p \in Caller, SetState(p)
  PROVE  \E s \in Session, r \in Response :
           /\ p \in Writer[s] /\ received' = received \cup {r}
           /\ Put(s, NewState(TRUE, mergeCookies(NoCookies, r), NewToken(NoResponse, r)))
           /\ sessions'[s].cookies = mergeCookies(NoCookies, r)
           /\ latest' = [latest EXCEPT ![s] = mergeCookies(NoCookies, r)]
<1>1. PICK s \in Session, r \in Response \ received :
        /\ p \in Writer[s]
        /\ received' = received \cup {r}
        /\ sessions' = [sessions EXCEPT ![s] =
             NewState(TRUE, mergeCookies(NoCookies, r), NewToken(NoResponse, r))]
        /\ latest' = [latest EXCEPT ![s] = mergeCookies(NoCookies, r)]
  BY DEF SetState
<1>2. /\ mergeCookies(NoCookies, r) \in [Name -> Response \cup {NoResponse}]
      /\ NewToken(NoResponse, r) \in Response \cup {NoResponse}
  BY MergedType DEF NoCookies
<1>3. Put(s, NewState(TRUE, mergeCookies(NoCookies, r), NewToken(NoResponse, r)))
  BY <1>1, <1>2, NewStateType DEF Put
<1>4. sessions'[s].cookies = mergeCookies(NoCookies, r)
  BY <1>1, <1>2, NewStateType DEF TypeInv, TypeOK
<1> QED BY <1>1, <1>3, <1>4

LEMMA ClaimSwapPuts ==
  ASSUME TypeInv, NEW p \in Caller, ClaimSwap(p), Swaps(p)
  PROVE  /\ id[p] \in Session /\ old[p] \in StateRecord
         /\ Put(id[p], NewState(FALSE, old[p].cookies, old[p].token))
         /\ sessions'[id[p]].cookies = old[p].cookies
<1>1. p \in Proc /\ pc[p] = "claim"
  BY ProcFacts DEF ClaimSwap, At
<1>2. id[p] \in Session /\ old[p] \in StateRecord
  BY <1>1 DEF TypeInv, TypeOK
<1>3. sessions' = [sessions EXCEPT ![id[p]] = NewState(FALSE, old[p].cookies, old[p].token)]
  BY DEF ClaimSwap
<1>4. old[p].cookies \in [Name -> Response \cup {NoResponse}] /\ old[p].token \in Response \cup {NoResponse}
  BY <1>2 DEF StateRecord
<1> DEFINE x == NewState(FALSE, old[p].cookies, old[p].token)
<1>5. x \in StateRecord /\ x # NoState /\ x.at = Fresh /\ x.cookies = old[p].cookies
  BY <1>4, NewStateType
<1>6. sessions' = [sessions EXCEPT ![id[p]] = x]
  BY <1>3
<1> HIDE DEF x
<1>7. Put(id[p], x)
  BY <1>5, <1>6 DEF Put
<1>8. sessions'[id[p]] = x
  BY <1>2, <1>6 DEF TypeInv, TypeOK
<1> QED BY <1>2, <1>5, <1>7, <1>8 DEF x

LEMMA ExtractStorePuts ==
  ASSUME TypeInv, NEW p \in Proc, ExtractStore(p)
  PROVE  /\ id[p] \in Session /\ resp[p] \in Response
         /\ Put(id[p], NewState(TRUE, mergeCookies(Base(p).cookies, resp[p]), NewToken(Base(p).token, resp[p])))
         /\ sessions'[id[p]].cookies = mergeCookies(Base(p).cookies, resp[p])
<1>1. pc[p] = "store"
  BY DEF ExtractStore, At
<1>2. id[p] \in Session /\ resp[p] \in Response
  BY <1>1 DEF TypeInv
<1>3. sessions' = [sessions EXCEPT ![id[p]] =
        NewState(TRUE, mergeCookies(Base(p).cookies, resp[p]), NewToken(Base(p).token, resp[p]))]
  BY DEF ExtractStore
<1>4. /\ mergeCookies(Base(p).cookies, resp[p]) \in [Name -> Response \cup {NoResponse}]
      /\ NewToken(Base(p).token, resp[p]) \in Response \cup {NoResponse}
  BY <1>2, BaseType, MergedType
<1> QED BY <1>2, <1>3, <1>4, NewStateType DEF Put, TypeInv, TypeOK

LEMMA PutTypes ==
  ASSUME TypeInv, NEW s \in Session, NEW x, Put(s, x)
  PROVE  /\ sessions' \in [Session -> StateRecord \cup {NoState}]
         /\ \A t \in Session : sessions[t] # NoState => sessions'[t] # NoState
BY DEF Put, TypeInv, TypeOK

\* The place a goroutine moves to fits its local variables.
Fits(p) ==
  /\ p \in Caller => pc'[p] \in {"idle", "found", "claim", "claimed", "extract", "store"}
  /\ p = Loop => pc'[p] \in {"off", "select", "request", "each", "extract", "store", "exited"}
  /\ pc'[p] \in {"found", "claim", "claimed", "extract", "store"} => id'[p] \in Session
  /\ pc'[p] \in {"extract", "store", "each"} => resp'[p] \in Response
  /\ pc'[p] \in {"claim", "claimed"} => old'[p] # NoState /\ sessions'[id'[p]] # NoState

\* A step of p's changes only p's local variables.
Local(p) ==
  /\ pc' \in [Proc -> Label] /\ id' \in [Proc -> Session \cup {NoSession}]
  /\ old' \in [Proc -> StateRecord \cup {NoState}] /\ resp' \in [Proc -> Response \cup {NoResponse}]
  /\ \A q \in Proc : q # p => pc'[q] = pc[q] /\ id'[q] = id[q] /\ old'[q] = old[q] /\ resp'[q] = resp[q]

\* A step that stores at most one state and moves one goroutine keeps the types.
LEMMA LocalKeepsTypes ==
  ASSUME TypeInv, NEW p \in Proc, Local(p), Fits(p),
         sessions' \in [Session -> StateRecord \cup {NoState}],
         \A t \in Session : sessions[t] # NoState => sessions'[t] # NoState,
         received' \subseteq Response, latest' \in [Session -> [Name -> Response \cup {NoResponse}]],
         next' \in 0 .. Len(sessionIDs), UNCHANGED stopCh, once' \in BOOLEAN, once => once',
         pc'[Loop] # "off" => once' \/ pc[Loop] # "off"
  PROVE  TypeInv'
<1>1. ASSUME NEW q \in Proc
      PROVE  /\ q \in Caller => pc'[q] \in {"idle", "found", "claim", "claimed", "extract", "store"}
             /\ q = Loop => pc'[q] \in {"off", "select", "request", "each", "extract", "store", "exited"}
             /\ pc'[q] \in {"found", "claim", "claimed", "extract", "store"} => id'[q] \in Session
             /\ pc'[q] \in {"extract", "store", "each"} => resp'[q] \in Response
             /\ pc'[q] \in {"claim", "claimed"} => old'[q] # NoState /\ sessions'[id'[q]] # NoState
  <2>1. CASE q = p
    BY <2>1 DEF Fits
  <2>2. CASE q # p
    BY <2>2 DEF Local, TypeInv, TypeOK
  <2> QED BY <2>1, <2>2
<1>2. stopCh' \in BOOLEAN /\ (stopCh' \/ pc'[Loop] # "off" => once')
  BY DEF TypeInv, TypeOK
<1> QED BY <1>1, <1>2, ProcFacts DEF Local, TypeInv, TypeOK

LEMMA TypeFacts ==
  ASSUME TypeInv
  PROVE  /\ sessions \in [Session -> StateRecord \cup {NoState}]
         /\ pc \in [Proc -> Label] /\ id \in [Proc -> Session \cup {NoSession}]
         /\ old \in [Proc -> StateRecord \cup {NoState}]
         /\ resp \in [Proc -> Response \cup {NoResponse}] /\ received \subseteq Response
         /\ next \in 0 .. Len(sessionIDs) /\ once \in BOOLEAN /\ stopCh \in BOOLEAN
         /\ latest \in [Session -> [Name -> Response \cup {NoResponse}]]
BY DEF TypeInv, TypeOK

\* A call that ends leaves no trace in its goroutine.
LEMMA DoneIsLocal ==
  ASSUME TypeInv, NEW p \in Proc, NEW l \in Label, Done(p, l), UNCHANGED resp
  PROVE  /\ Local(p) /\ pc'[p] = l
         /\ \A q \in Proc : old'[q] = old[q] \/ old'[q] = NoState
BY TypeFacts DEF Done, Goto, Local

LEMMA UnchangedTypes ==
  ASSUME TypeInv, UNCHANGED sessions
  PROVE  /\ sessions' \in [Session -> StateRecord \cup {NoState}]
         /\ \A t \in Session : sessions[t] # NoState => sessions'[t] # NoState
BY TypeFacts

\* A step that neither starts nor stops the loop, nor moves along its sessions.
LEMMA StepKeepsTypes ==
  ASSUME TypeInv, NEW p \in Proc, Local(p), Fits(p), p = Loop => pc[Loop] # "off",
         sessions' \in [Session -> StateRecord \cup {NoState}],
         \A t \in Session : sessions[t] # NoState => sessions'[t] # NoState,
         received' \subseteq Response, latest' \in [Session -> [Name -> Response \cup {NoResponse}]],
         UNCHANGED <<next, once, stopCh>>
  PROVE  TypeInv'
<1>1. pc'[Loop] # "off" => once' \/ pc[Loop] # "off"
  BY ProcFacts DEF Local
<1> QED BY <1>1, LocalKeepsTypes, TypeFacts

LEMMA ExtractKeepsTypes ==
  ASSUME TypeInv, NEW p \in Proc, ExtractLoad(p) \/ ExtractStore(p)
  PROVE  TypeInv'
<1>1. pc[p] \in {"extract", "store"} /\ id[p] \in Session /\ resp[p] \in Response
  BY DEF ExtractLoad, ExtractStore, At, TypeInv
<1>2. ASSUME Done(p, After(p)), UNCHANGED resp PROVE Local(p) /\ Fits(p)
  <2>1. /\ After(p) \in Label /\ After(p) \in {"idle", "each"}
        /\ p \in Caller => After(p) = "idle"
        /\ p = Loop => After(p) = "each"
    BY ProcFacts DEF After, Label
  <2>2. Local(p) /\ pc'[p] = After(p)
    BY <1>2, <2>1, DoneIsLocal
  <2> QED BY <1>1, <1>2, <2>1, <2>2 DEF Fits
<1>3. CASE ExtractLoad(p)
  <2>1. Local(p) /\ Fits(p)
    <3>1. CASE CookieNames[resp[p]] # {}
      <4>1. /\ old' = [old EXCEPT ![p] = sessions[id[p]]] /\ sessions[id[p]] \in StateRecord \cup {NoState}
            /\ pc' = [pc EXCEPT ![p] = "store"] /\ UNCHANGED <<id, resp>>
        BY <1>1, <1>3, <3>1, TypeFacts DEF ExtractLoad, Goto
      <4> QED BY <1>1, <4>1, TypeFacts DEF Local, Fits, Label
    <3>2. CASE CookieNames[resp[p]] = {}
      BY <1>2, <1>3, <3>2 DEF ExtractLoad
    <3> QED BY <3>1, <3>2
  <2>2. received' \subseteq Response /\ latest' \in [Session -> [Name -> Response \cup {NoResponse}]]
        /\ UNCHANGED <<sessions, next, once, stopCh>>
    BY <1>3, TypeFacts DEF ExtractLoad
  <2> QED BY <1>1, <2>1, <2>2, UnchangedTypes, StepKeepsTypes
<1>4. CASE ExtractStore(p)
  <2>1. Local(p) /\ Fits(p)
    BY <1>2, <1>4 DEF ExtractStore
  <2>2. sessions' \in [Session -> StateRecord \cup {NoState}]
        /\ \A t \in Session : sessions[t] # NoState => sessions'[t] # NoState
    BY <1>4, ExtractStorePuts, PutTypes
  <2>3. latest' \in [Session -> [Name -> Response \cup {NoResponse}]]
    <3>1. mergeCookies(latest[id[p]], resp[p]) \in [Name -> Response \cup {NoResponse}]
      BY <1>1, MergedType, TypeFacts
    <3> QED BY <1>1, <1>4, <3>1, TypeFacts DEF ExtractStore
  <2>4. received' \subseteq Response /\ UNCHANGED <<next, once, stopCh>>
    BY <1>4, TypeFacts DEF ExtractStore
  <2> QED BY <1>1, <2>1, <2>2, <2>3, <2>4, StepKeepsTypes
<1> QED BY <1>3, <1>4

LEMMA CallerKeepsTypes ==
  ASSUME TypeInv, NEW p \in Caller, CallerStep(p)
  PROVE  TypeInv'
<1>0. p \in Proc /\ p # Loop
  BY ProcFacts
<1>1. CASE SetState(p)
  <2>1. PICK s \in Session, r \in Response :
          /\ received' = received \cup {r}
          /\ Put(s, NewState(TRUE, mergeCookies(NoCookies, r), NewToken(NoResponse, r)))
          /\ latest' = [latest EXCEPT ![s] = mergeCookies(NoCookies, r)]
    BY <1>1, SetStatePuts
  <2>2. mergeCookies(NoCookies, r) \in [Name -> Response \cup {NoResponse}]
    BY MergedType DEF NoCookies
  <2>3. latest' \in [Session -> [Name -> Response \cup {NoResponse}]] /\ received' \subseteq Response
    BY <2>1, <2>2, TypeFacts
  <2>4. Local(p) /\ Fits(p)
    BY <1>0, <1>1, TypeFacts DEF SetState, At, Local, Fits
  <2>5. sessions' \in [Session -> StateRecord \cup {NoState}]
        /\ \A t \in Session : sessions[t] # NoState => sessions'[t] # NoState
    BY <2>1, PutTypes
  <2> QED BY <1>0, <1>1, <2>3, <2>4, <2>5, StepKeepsTypes DEF SetState
<1>2. CASE FindAvailable(p)
  <2>1. Local(p) /\ Fits(p)
    BY <1>0, <1>2, TypeFacts DEF FindAvailable, Goto, Local, Fits, Label
  <2> QED BY <1>0, <1>2, <2>1, UnchangedTypes, StepKeepsTypes, TypeFacts DEF FindAvailable
<1>3. CASE ClaimLoad(p)
  <2>1. id[p] \in Session
    BY <1>0, <1>3 DEF ClaimLoad, At, TypeInv
  <2>2. Local(p) /\ Fits(p)
    <3>1. CASE Available(id[p])
      BY <1>0, <1>3, <2>1, <3>1, TypeFacts DEF ClaimLoad, Available, Goto, Local, Fits, Label
    <3>2. CASE ~Available(id[p])
      BY <1>0, <1>3, <3>2, DoneIsLocal DEF ClaimLoad, Fits, Label
    <3> QED BY <3>1, <3>2
  <2> QED BY <1>0, <1>3, <2>2, UnchangedTypes, StepKeepsTypes, TypeFacts DEF ClaimLoad
<1>4. CASE ClaimSwap(p)
  <2>1. CASE Swaps(p)
    <3>1. id[p] \in Session /\ Put(id[p], NewState(FALSE, old[p].cookies, old[p].token))
      BY <1>4, <2>1, ClaimSwapPuts
    <3>2. sessions' \in [Session -> StateRecord \cup {NoState}]
          /\ \A t \in Session : sessions[t] # NoState => sessions'[t] # NoState
      BY <3>1, PutTypes
    <3>3. pc[p] = "claim" /\ old[p] # NoState /\ sessions[id[p]] # NoState
      BY <1>0, <1>4 DEF ClaimSwap, At, TypeInv
    <3>4. Local(p) /\ Fits(p)
      BY <1>0, <1>4, <2>1, <3>1, <3>2, <3>3, TypeFacts DEF ClaimSwap, Goto, Local, Fits, Label
    <3> QED BY <1>0, <1>4, <3>2, <3>4, StepKeepsTypes, TypeFacts DEF ClaimSwap
  <2>2. CASE ~Swaps(p)
    <3>1. Local(p) /\ Fits(p)
      BY <1>0, <1>4, <2>2, DoneIsLocal DEF ClaimSwap, Fits, Label
    <3> QED BY <1>0, <1>4, <2>2, <3>1, UnchangedTypes, StepKeepsTypes, TypeFacts DEF ClaimSwap
  <2> QED BY <2>1, <2>2
<1>5. CASE OwnerReceive(p)
  <2>1. pc[p] = "claimed" /\ id[p] \in Session
    BY <1>0, <1>5 DEF OwnerReceive, At, TypeInv
  <2>2. Local(p) /\ Fits(p)
    BY <1>0, <1>5, <2>1, TypeFacts DEF OwnerReceive, Goto, Local, Fits, Label
  <2>3. received' \subseteq Response
    BY <1>5, TypeFacts DEF OwnerReceive
  <2> QED BY <1>0, <1>5, <2>2, <2>3, UnchangedTypes, StepKeepsTypes, TypeFacts DEF OwnerReceive
<1>6. CASE OwnerLeave(p)
  <2>1. Local(p) /\ Fits(p)
    BY <1>0, <1>6, DoneIsLocal DEF OwnerLeave, Fits, Label
  <2> QED BY <1>0, <1>6, <2>1, UnchangedTypes, StepKeepsTypes, TypeFacts DEF OwnerLeave
<1> QED BY <1>0, <1>1, <1>2, <1>3, <1>4, <1>5, <1>6, ExtractKeepsTypes DEF CallerStep

LEMMA LoopKeepsTypes ==
  ASSUME TypeInv, LoopRequest \/ LoopEach \/ LoopStop \/ LoopCtxDone \/ LoopTick \/ Start \/ Stop
  PROVE  TypeInv'
<1>0. Loop \in Proc /\ Loop \notin Caller
  BY ProcFacts
<1>1. CASE LoopStop \/ LoopCtxDone \/ LoopTick
  <2>1. pc[Loop] = "select" /\ UNCHANGED <<id, old, resp>>
        /\ (pc' = [pc EXCEPT ![Loop] = "exited"] \/ pc' = [pc EXCEPT ![Loop] = "request"])
    BY <1>1 DEF LoopStop, LoopCtxDone, LoopTick, At, Goto
  <2>2. Local(Loop) /\ Fits(Loop)
    BY <1>0, <2>1, TypeFacts DEF Local, Fits, Label
  <2> QED BY <1>0, <1>1, <2>1, <2>2, UnchangedTypes, StepKeepsTypes, TypeFacts
          DEF LoopStop, LoopCtxDone, LoopTick
<1>2. CASE LoopRequest
  <2>1. PICK r \in Response \cup {NoResponse}, l \in {"each", "select"} :
          /\ l = "each" => r \in Response
          /\ resp' = [resp EXCEPT ![Loop] = r] /\ pc' = [pc EXCEPT ![Loop] = l]
    <3>1. CASE \E r \in Response : resp' = [resp EXCEPT ![Loop] = r] /\ pc' = [pc EXCEPT ![Loop] = "each"]
      BY <3>1
    <3>2. CASE resp' = resp /\ pc' = [pc EXCEPT ![Loop] = "select"]
      <4>1. resp' = [resp EXCEPT ![Loop] = resp[Loop]] /\ resp[Loop] \in Response \cup {NoResponse}
        BY <1>0, <3>2, TypeFacts
      <4> QED BY <3>2, <4>1
    <3> QED BY <1>2, <3>1, <3>2 DEF LoopRequest, Goto
  <2>2. Local(Loop) /\ Fits(Loop)
    BY <1>0, <1>2, <2>1, TypeFacts DEF LoopRequest, Local, Fits, Label
  <2>3. received' \subseteq Response /\ next' \in 0 .. Len(sessionIDs)
    BY <1>2, HeartbeatAssumption, TypeFacts DEF LoopRequest
  <2>4. pc[Loop] # "off"
    BY <1>2 DEF LoopRequest, At
  <2> QED BY <1>0, <1>2, <2>2, <2>3, <2>4, UnchangedTypes, LocalKeepsTypes, TypeFacts DEF LoopRequest
<1>3. CASE LoopEach
  <2>1. pc[Loop] = "each" /\ resp[Loop] \in Response
    BY <1>0, <1>3 DEF LoopEach, At, TypeInv
  <2>2. CASE next < Len(sessionIDs)
    <3>1. next + 1 \in 1 .. Len(sessionIDs) /\ sessionIDs[next + 1] \in Session
      BY <2>2, HeartbeatAssumption, TypeFacts
    <3>2. /\ next' = next + 1 /\ id' = [id EXCEPT ![Loop] = sessionIDs[next + 1]]
          /\ pc' = [pc EXCEPT ![Loop] = "extract"] /\ UNCHANGED <<old, resp>>
      BY <1>3, <2>2, HeartbeatAssumption, TypeFacts DEF LoopEach, Goto
    <3>3. Local(Loop) /\ Fits(Loop)
      BY <1>0, <2>1, <3>1, <3>2, TypeFacts DEF Local, Fits, Label
    <3>4. next' \in 0 .. Len(sessionIDs)
      BY <3>1, <3>2
    <3> QED BY <1>0, <1>3, <2>1, <3>3, <3>4, UnchangedTypes, LocalKeepsTypes, TypeFacts DEF LoopEach
  <2>3. CASE next = Len(sessionIDs)
    <3>1. pc' = [pc EXCEPT ![Loop] = "select"] /\ UNCHANGED <<id, old, resp, next>>
      BY <1>3, <2>3, HeartbeatAssumption, TypeFacts DEF LoopEach, Goto
    <3>2. Local(Loop) /\ Fits(Loop)
      BY <1>0, <3>1, TypeFacts DEF Local, Fits, Label
    <3> QED BY <1>0, <1>3, <2>1, <3>1, <3>2, UnchangedTypes, LocalKeepsTypes, TypeFacts DEF LoopEach
  <2> QED BY <1>3, <2>2, <2>3 DEF LoopEach
<1>4. CASE Start
  <2>1. pc' = [pc EXCEPT ![Loop] = "select"] /\ UNCHANGED <<id, old, resp>> /\ once' = TRUE
    BY <1>4 DEF Start, Goto
  <2>2. Local(Loop) /\ Fits(Loop)
    BY <1>0, <2>1, TypeFacts DEF Local, Fits, Label
  <2> QED BY <1>0, <1>4, <2>1, <2>2, UnchangedTypes, LocalKeepsTypes, TypeFacts DEF Start
<1>5. CASE Stop
  BY <1>5 DEF Stop, OnceAfterStop, TypeInv, TypeOK
<1> QED BY <1>1, <1>2, <1>3, <1>4, <1>5

LEMMA TypesKept ==
  ASSUME TypeInv, [Next]_vars
  PROVE  TypeInv'
<1>1. CASE UNCHANGED vars
  BY <1>1 DEF vars, TypeInv, TypeOK
<1> QED BY <1>1, CallerKeepsTypes, LoopKeepsTypes, ExtractKeepsTypes, ProcFacts DEF Next, LoopStep

LEMMA TypesHold == Spec => []TypeInv
<1>1. Init => TypeInv
  <2> SUFFICES ASSUME Init PROVE TypeInv
    OBVIOUS
  <2>1. /\ sessions \in [Session -> StateRecord \cup {NoState}]
        /\ pc \in [Proc -> Label] /\ id \in [Proc -> Session \cup {NoSession}]
        /\ old \in [Proc -> StateRecord \cup {NoState}]
        /\ resp \in [Proc -> Response \cup {NoResponse}] /\ received \subseteq Response
        /\ latest \in [Session -> [Name -> Response \cup {NoResponse}]]
    BY DEF Init, Label, NoCookies
  <2>2. next \in 0 .. Len(sessionIDs)
    BY HeartbeatAssumption DEF Init
  <2>3. \A p \in Proc : IF p = Loop THEN pc[p] = "off" ELSE pc[p] = "idle"
    BY DEF Init
  <2>4. ~once /\ ~stopCh /\ once \in BOOLEAN /\ stopCh \in BOOLEAN
    BY DEF Init
  <2> QED BY <2>1, <2>2, <2>3, <2>4, ProcFacts DEF TypeInv, TypeOK
<1> QED BY <1>1, TypesKept, PTL DEF Spec

\* The shape of the state, for any goroutines, sessions and responses.
THEOREM HeartbeatTyping == Spec => []TypeOK
BY TypesHold, PTL DEF TypeInv

-----------------------------------------------------------------------------
(* Claims                                                                  *)

\* An address is that of one state, stored for one session.
OneStatePerAddress ==
  /\ \A x, y \in Referenced : x.at = y.at => x = y
  /\ \A s, t \in Session :
       (sessions[s] # NoState /\ sessions[t] # NoState /\ sessions[s].at = sessions[t].at) => s = t

\* While a goroutine keeps the state it has claimed, no session is stored at its address.
ClaimInv ==
  /\ \A p \in Caller : pc[p] = "claimed" =>
       \A s \in Session : sessions[s] # NoState => sessions[s].at # old[p].at
  /\ ClaimedOnce

\* No goroutine comes to hold a claim, or another state with it.
ClaimsKept == \A p \in Caller : pc'[p] = "claimed" => pc[p] = "claimed" /\ old'[p] = old[p]

\* A goroutine's reference goes, or becomes one to a stored state.
LEMMA ReadsKeepAddresses ==
  ASSUME TypeInv, OneStatePerAddress, ClaimInv, UNCHANGED sessions, ClaimsKept,
         \A p \in Proc : old'[p] \in {old[p], NoState} \cup {sessions[s] : s \in Session}
  PROVE  OneStatePerAddress' /\ ClaimInv'
<1>1. Referenced' \subseteq Referenced
  BY DEF Referenced
<1>2. ClaimInv'
  BY DEF ClaimInv, ClaimedOnce, ClaimsKept
<1> QED BY <1>1, <1>2 DEF OneStatePerAddress

\* A new state has an address nothing refers to.
LEMMA PutKeepsAddresses ==
  ASSUME TypeInv, OneStatePerAddress, NEW s \in Session, NEW x, Put(s, x),
         \A p \in Proc : old'[p] \in {old[p], NoState}
  PROVE  OneStatePerAddress'
<1>1. Referenced' \subseteq Referenced \cup {x}
  BY TypeFacts DEF Referenced, Put
<1>2. \A y \in Referenced : y.at # x.at
  BY FreshIsNew DEF Put
<1>3. \A y, z \in Referenced' : y.at = z.at => y = z
  BY <1>1, <1>2 DEF OneStatePerAddress
<1>4. ASSUME NEW t \in Session, NEW u \in Session, sessions'[t] # NoState, sessions'[u] # NoState,
             sessions'[t].at = sessions'[u].at
      PROVE  t = u
  <2>1. \A v \in Session : v # s /\ sessions'[v] # NoState =>
          sessions'[v] = sessions[v] /\ sessions[v] \in Referenced
    BY TypeFacts DEF Put, Referenced
  <2>2. sessions'[s] = x
    BY TypeFacts DEF Put
  <2> QED BY <1>2, <1>4, <2>1, <2>2 DEF OneStatePerAddress
<1> QED BY <1>3, <1>4 DEF OneStatePerAddress

LEMMA PutKeepsClaim ==
  ASSUME TypeInv, ClaimInv, NEW s \in Session, NEW x, Put(s, x), NEW p \in Caller, pc[p] = "claimed"
  PROVE  \A t \in Session : sessions'[t] # NoState => sessions'[t].at # old[p].at
<1>1. p \in Proc /\ old[p] # NoState
  BY ProcFacts DEF TypeInv
<1>2. old[p] \in Referenced
  BY <1>1 DEF Referenced
<1> SUFFICES ASSUME NEW t \in Session, sessions'[t] # NoState PROVE sessions'[t].at # old[p].at
  OBVIOUS
<1>3. CASE t = s
  BY <1>2, <1>3, FreshIsNew, TypeFacts DEF Put
<1>4. CASE t # s
  BY <1>4, TypeFacts DEF Put, ClaimInv
<1> QED BY <1>3, <1>4

\* The winner replaces the state it has read, and no other goroutine has claimed that one.
LEMMA SwapKeepsClaims ==
  ASSUME TypeInv, OneStatePerAddress, ClaimInv, NEW p \in Caller, ClaimSwap(p), Swaps(p)
  PROVE  OneStatePerAddress' /\ ClaimInv'
<1> DEFINE s == id[p]
           x == NewState(FALSE, old[p].cookies, old[p].token)
<1>1. p \in Proc /\ pc[p] = "claim" /\ old[p] # NoState /\ sessions[s] # NoState
  BY ProcFacts DEF ClaimSwap, At, TypeInv
<1>2. s \in Session /\ Put(s, x)
  BY ClaimSwapPuts
<1> HIDE DEF x
<1>3. pc' = [pc EXCEPT ![p] = "claimed"] /\ old' = old /\ sessions[s].at = old[p].at
  BY DEF ClaimSwap, Swaps, Goto
<1>4. OneStatePerAddress'
  BY <1>2, <1>3, PutKeepsAddresses
<1>5. \A t \in Session : sessions'[t] # NoState => sessions'[t].at # old[p].at
  <2> SUFFICES ASSUME NEW t \in Session, sessions'[t] # NoState PROVE sessions'[t].at # old[p].at
    OBVIOUS
  <2>1. CASE t = s
    <3>1. old[p] \in Referenced
      BY <1>1 DEF Referenced
    <3> QED BY <1>2, <2>1, <3>1, FreshIsNew, TypeFacts DEF Put
  <2>2. CASE t # s
    BY <1>1, <1>2, <1>3, <2>2, TypeFacts DEF Put, OneStatePerAddress
  <2> QED BY <2>1, <2>2
<1>6. \A q \in Caller : q # p => pc'[q] = pc[q]
  BY <1>3, ProcFacts, TypeFacts
<1>7. \A q \in Caller : pc'[q] = "claimed" =>
        \A t \in Session : sessions'[t] # NoState => sessions'[t].at # old'[q].at
  BY <1>2, <1>3, <1>5, <1>6, PutKeepsClaim
<1>8. \A q \in Caller : q # p /\ pc[q] = "claimed" => old[q] # old[p]
  BY <1>1, <1>2, <1>3 DEF ClaimInv
<1>9. ClaimedOnce'
  BY <1>3, <1>6, <1>8 DEF ClaimInv, ClaimedOnce
<1> QED BY <1>4, <1>7, <1>9 DEF ClaimInv

LEMMA PutKeepsClaims ==
  ASSUME TypeInv, OneStatePerAddress, ClaimInv, NEW s \in Session, NEW x, Put(s, x), ClaimsKept,
         \A p \in Proc : old'[p] \in {old[p], NoState}
  PROVE  OneStatePerAddress' /\ ClaimInv'
<1>1. OneStatePerAddress'
  BY PutKeepsAddresses
<1>2. \A p \in Caller : pc'[p] = "claimed" =>
        \A t \in Session : sessions'[t] # NoState => sessions'[t].at # old'[p].at
  BY PutKeepsClaim DEF ClaimsKept
<1>3. ClaimedOnce'
  BY DEF ClaimInv, ClaimedOnce, ClaimsKept
<1> QED BY <1>1, <1>2, <1>3 DEF ClaimInv

\* Whose pc does not come to "claimed".
LEMMA MoveKeepsClaims ==
  ASSUME TypeInv, NEW p \in Proc, NEW l \in Label \ {"claimed"}, Goto(p, l),
         \A q \in Proc : q # p => old'[q] = old[q]
  PROVE  ClaimsKept
<1>1. \A q \in Proc : IF q = p THEN pc'[q] = l ELSE pc'[q] = pc[q]
  BY TypeFacts DEF Goto
<1> QED BY <1>1, ProcFacts DEF ClaimsKept

LEMMA ClaimsAreKept ==
  ASSUME TypeInv, OneStatePerAddress, ClaimInv, [Next]_vars
  PROVE  OneStatePerAddress' /\ ClaimInv'
<1>0. Caller \subseteq Proc /\ Loop \in Proc
  BY ProcFacts
<1>1. CASE UNCHANGED <<sessions, pc, old>>
  BY <1>1, ReadsKeepAddresses DEF ClaimsKept
<1>2. ASSUME NEW p \in Caller, SetState(p) PROVE OneStatePerAddress' /\ ClaimInv'
  <2>1. UNCHANGED <<pc, old>>
    BY <1>2 DEF SetState
  <2>2. ClaimsKept
    BY <2>1 DEF ClaimsKept
  <2> QED BY <1>2, <2>1, <2>2, SetStatePuts, PutKeepsClaims
<1>3. ASSUME NEW p \in Proc, NEW l \in Label \ {"claimed"}, Goto(p, l), UNCHANGED <<sessions, old>>
      PROVE  OneStatePerAddress' /\ ClaimInv'
  BY <1>3, MoveKeepsClaims, ReadsKeepAddresses
<1>4. ASSUME NEW p \in Proc, NEW l \in Label \ {"claimed"}, Done(p, l)
      PROVE  ClaimsKept /\ \A q \in Proc : old'[q] \in {old[q], NoState}
  <2>1. \A q \in Proc : IF q = p THEN old'[q] = NoState ELSE old'[q] = old[q]
    BY <1>4, TypeFacts DEF Done
  <2> QED BY <1>4, <2>1, MoveKeepsClaims DEF Done
<1>5. ASSUME NEW p \in Proc, NEW l \in Label \ {"claimed"}, Goto(p, l), UNCHANGED sessions,
             id[p] \in Session, old' = [old EXCEPT ![p] = sessions[id[p]]]
      PROVE  OneStatePerAddress' /\ ClaimInv'
  <2>1. \A q \in Proc : IF q = p THEN old'[q] = sessions[id[p]] ELSE old'[q] = old[q]
    BY <1>5, TypeFacts
  <2> QED BY <1>5, <2>1, MoveKeepsClaims, ReadsKeepAddresses
<1>6. ASSUME NEW p \in Caller, FindAvailable(p) \/ OwnerReceive(p) PROVE OneStatePerAddress' /\ ClaimInv'
  BY <1>0, <1>3, <1>6 DEF FindAvailable, OwnerReceive, Label
<1>7. ASSUME NEW p \in Caller, ClaimLoad(p) PROVE OneStatePerAddress' /\ ClaimInv'
  <2>1. id[p] \in Session
    BY <1>0, <1>7 DEF ClaimLoad, At, TypeInv
  <2>2. CASE Available(id[p])
    BY <1>0, <1>5, <1>7, <2>1, <2>2 DEF ClaimLoad, Label
  <2>3. CASE ~Available(id[p])
    BY <1>0, <1>4, <1>7, <2>3, ReadsKeepAddresses DEF ClaimLoad, Label
  <2> QED BY <2>2, <2>3
<1>8. ASSUME NEW p \in Caller, ClaimSwap(p) PROVE OneStatePerAddress' /\ ClaimInv'
  <2>1. CASE Swaps(p)
    BY <1>8, <2>1, SwapKeepsClaims
  <2>2. CASE ~Swaps(p)
    BY <1>0, <1>4, <1>8, <2>2, ReadsKeepAddresses DEF ClaimSwap, Label
  <2> QED BY <2>1, <2>2
<1>9. ASSUME NEW p \in Caller, OwnerLeave(p) PROVE OneStatePerAddress' /\ ClaimInv'
  BY <1>0, <1>4, <1>9, ReadsKeepAddresses DEF OwnerLeave, Label
<1>10. ASSUME NEW p \in Proc, ExtractLoad(p) PROVE OneStatePerAddress' /\ ClaimInv'
  <2>1. id[p] \in Session
    BY <1>10 DEF ExtractLoad, At, TypeInv
  <2>2. CASE CookieNames[resp[p]] # {}
    BY <1>5, <1>10, <2>1, <2>2 DEF ExtractLoad, Label
  <2>3. CASE CookieNames[resp[p]] = {}
    BY <1>4, <1>10, <2>3, ReadsKeepAddresses DEF ExtractLoad, After, Label
  <2> QED BY <2>2, <2>3
<1>11. ASSUME NEW p \in Proc, ExtractStore(p) PROVE OneStatePerAddress' /\ ClaimInv'
  <2>1. ClaimsKept /\ \A q \in Proc : old'[q] \in {old[q], NoState}
    BY <1>4, <1>11 DEF ExtractStore, After, Label
  <2> QED BY <1>11, <2>1, ExtractStorePuts, PutKeepsClaims
<1>12. CASE LoopRequest \/ LoopEach \/ LoopStop \/ LoopCtxDone \/ LoopTick \/ Start
  BY <1>0, <1>3, <1>12 DEF LoopRequest, LoopEach, LoopStop, LoopCtxDone, LoopTick, Start, Label
<1> QED
  BY <1>0, <1>1, <1>2, <1>6, <1>7, <1>8, <1>9, <1>10, <1>11, <1>12
     DEF Next, CallerStep, LoopStep, Stop, vars

LEMMA ClaimsHold == Spec => [](OneStatePerAddress /\ ClaimInv)
<1>1. Init => OneStatePerAddress /\ ClaimInv
  <2> SUFFICES ASSUME Init PROVE OneStatePerAddress /\ ClaimInv
    OBVIOUS
  <2>1. \A p \in Caller : pc[p] = "idle"
    BY ProcFacts DEF Init
  <2> QED BY <2>1 DEF Init, OneStatePerAddress, Referenced, ClaimInv, ClaimedOnce
<1> QED BY <1>1, ClaimsAreKept, TypesHold, PTL DEF Spec

\* Of the goroutines that have read one available state at most one wins it, although its
\* address may have been used anew (ClaimSession).
THEOREM ClaimedAtMostOnce == Spec => []ClaimedOnce
BY ClaimsHold, PTL DEF ClaimInv

-----------------------------------------------------------------------------
(* Cookies                                                                 *)

\* A sole writer that is about to store builds on the cookies written last.
CookieInv ==
  /\ SoleWriterKeepsCookies
  /\ \A s \in Session : sessions[s] = NoState => latest[s] = NoCookies
  /\ \A p \in Proc : pc[p] \in {"extract", "store"} => p \in Writer[id[p]]
  /\ \A p \in Proc : pc[p] = "store" /\ Cardinality(Writer[id[p]]) = 1 => Base(p).cookies = latest[id[p]]

LEMMA SoleWriter ==
  ASSUME NEW s \in Session, Cardinality(Writer[s]) = 1, NEW p \in Writer[s], NEW q \in Writer[s]
  PROVE  p = q
<1>1. IsFiniteSet(Writer[s])
  BY FS_Subset, ProcFacts, HeartbeatAssumption
<1> QED BY <1>1, FS_Singleton

\* Steps that store nothing, whoever they make a writer that is about to read.
LEMMA ReadsKeepCookies ==
  ASSUME TypeInv, CookieInv, UNCHANGED <<sessions, latest>>, NEW p \in Proc,
         \A q \in Proc : q # p => pc'[q] = pc[q] /\ old'[q] = old[q] /\ id'[q] = id[q],
         pc'[p] # "store", pc'[p] = "extract" => p \in Writer[id'[p]]
  PROVE  CookieInv'
<1>1. \A q \in Proc : pc'[q] \in {"extract", "store"} => q \in Writer[id'[q]]
  BY DEF CookieInv
<1>2. ASSUME NEW q \in Proc, pc'[q] = "store", Cardinality(Writer[id'[q]]) = 1
      PROVE  (Base(q).cookies)' = latest'[id'[q]]
  <2>1. q # p
    BY <1>2
  <2> QED BY <1>2, <2>1 DEF CookieInv, Base
<1> QED BY <1>1, <1>2 DEF CookieInv, SoleWriterKeepsCookies

\* A writer's store: nobody else is about to store for a session it is the sole writer of.
LEMMA WritesKeepCookies ==
  ASSUME TypeInv, CookieInv, NEW p \in Proc, NEW s \in Session, p \in Writer[s],
         NEW x, Put(s, x), NEW c, latest' = [latest EXCEPT ![s] = c],
         Cardinality(Writer[s]) = 1 => x.cookies = c,
         \A q \in Proc : q # p => pc'[q] = pc[q] /\ old'[q] = old[q] /\ id'[q] = id[q],
         pc'[p] \notin {"extract", "store"}
  PROVE  CookieInv'
<1>1. \A t \in Session : IF t = s THEN sessions'[t] = x /\ latest'[t] = c /\ x # NoState
                         ELSE sessions'[t] = sessions[t] /\ latest'[t] = latest[t]
  BY TypeFacts DEF Put
<1>2. SoleWriterKeepsCookies' /\ \A t \in Session : sessions'[t] = NoState => latest'[t] = NoCookies
  BY <1>1 DEF CookieInv, SoleWriterKeepsCookies
<1>3. \A q \in Proc : pc'[q] \in {"extract", "store"} => q \in Writer[id'[q]]
  BY DEF CookieInv
<1>4. ASSUME NEW q \in Proc, pc'[q] = "store", Cardinality(Writer[id'[q]]) = 1
      PROVE  (Base(q).cookies)' = latest'[id'[q]]
  <2>1. q # p /\ pc[q] = "store" /\ id'[q] = id[q] /\ old'[q] = old[q] /\ id[q] \in Session
    BY <1>4 DEF TypeInv
  <2>2. id[q] # s
    BY <1>4, <2>1, SoleWriter DEF CookieInv
  <2>3. Base(q).cookies = latest[id[q]]
    BY <1>4, <2>1 DEF CookieInv
  <2> QED BY <1>1, <2>1, <2>2, <2>3 DEF Base
<1> QED BY <1>2, <1>3, <1>4 DEF CookieInv

\* A claim stores the cookies of the very state it replaces.
LEMMA SwapKeepsCookies ==
  ASSUME TypeInv, OneStatePerAddress, CookieInv, NEW p \in Caller, ClaimSwap(p), Swaps(p)
  PROVE  CookieInv'
<1> DEFINE s == id[p]
           x == NewState(FALSE, old[p].cookies, old[p].token)
<1>1. p \in Proc /\ pc[p] = "claim" /\ old[p] # NoState /\ sessions[s] # NoState
  BY ProcFacts DEF ClaimSwap, At, TypeInv
<1>2. s \in Session /\ Put(s, x) /\ sessions'[s].cookies = old[p].cookies
  BY ClaimSwapPuts
<1> HIDE DEF x
<1>3. sessions[s] = old[p]
  <2>1. sessions[s] \in Referenced /\ old[p] \in Referenced
    BY <1>1, <1>2 DEF Referenced
  <2> QED BY <2>1 DEF OneStatePerAddress, ClaimSwap, Swaps
<1>4. UNCHANGED <<latest, id, old>> /\ pc' = [pc EXCEPT ![p] = "claimed"]
  BY DEF ClaimSwap, Goto
<1>5. \A t \in Session : /\ sessions[t] = NoState <=> sessions'[t] = NoState
                         /\ sessions[t] # NoState => sessions'[t].cookies = sessions[t].cookies
  BY <1>1, <1>2, <1>3, TypeFacts DEF Put
<1>6. \A q \in Proc : pc'[q] \in {"extract", "store"} => pc'[q] = pc[q]
  BY <1>4, TypeFacts
<1>7. SoleWriterKeepsCookies' /\ \A t \in Session : sessions'[t] = NoState => latest'[t] = NoCookies
  BY <1>4, <1>5 DEF CookieInv, SoleWriterKeepsCookies
<1> QED BY <1>4, <1>6, <1>7 DEF CookieInv, Base

LEMMA CookiesKept ==
  ASSUME TypeInv, OneStatePerAddress, CookieInv, [Next]_vars
  PROVE  CookieInv'
<1>0. Caller \subseteq Proc /\ Loop \in Proc
  BY ProcFacts
<1>1. CASE UNCHANGED <<sessions, pc, old, id, latest>>
  BY <1>1 DEF CookieInv, SoleWriterKeepsCookies, Base
<1>2. ASSUME NEW p \in Proc, NEW l \in Label \ {"extract", "store"}, Goto(p, l),
             \A q \in Proc : q # p => old'[q] = old[q] /\ id'[q] = id[q], UNCHANGED <<sessions, latest>>
      PROVE  CookieInv'
  BY <1>2, ReadsKeepCookies, TypeFacts DEF Goto
<1>3. ASSUME NEW p \in Proc, NEW l \in Label \ {"extract", "store"}, Done(p, l), UNCHANGED <<sessions, latest>>
      PROVE  CookieInv'
  <2>1. \A q \in Proc : q # p => old'[q] = old[q] /\ id'[q] = id[q]
    BY <1>3, TypeFacts DEF Done
  <2> QED BY <1>2, <1>3, <2>1 DEF Done
<1>4. ASSUME NEW p \in Caller, SetState(p) PROVE CookieInv'
  <2>1. PICK s \in Session, r \in Response :
          /\ p \in Writer[s]
          /\ Put(s, NewState(TRUE, mergeCookies(NoCookies, r), NewToken(NoResponse, r)))
          /\ sessions'[s].cookies = mergeCookies(NoCookies, r)
          /\ latest' = [latest EXCEPT ![s] = mergeCookies(NoCookies, r)]
    BY <1>4, SetStatePuts
  <2>2. sessions'[s] = NewState(TRUE, mergeCookies(NoCookies, r), NewToken(NoResponse, r))
    BY <2>1, TypeFacts DEF Put
  <2>3. pc[p] = "idle" /\ UNCHANGED <<pc, id, old>>
    BY <1>4 DEF SetState, At
  <2> QED BY <1>0, <2>1, <2>2, <2>3, WritesKeepCookies
<1>5. ASSUME NEW p \in Caller, FindAvailable(p) PROVE CookieInv'
  <2>1. Goto(p, "found") /\ UNCHANGED <<sessions, latest, old>> /\ \A q \in Proc : q # p => id'[q] = id[q]
    BY <1>0, <1>5, TypeFacts DEF FindAvailable
  <2> QED BY <1>0, <1>2, <2>1 DEF Label
<1>6. ASSUME NEW p \in Caller, ClaimLoad(p) PROVE CookieInv'
  <2>1. CASE Available(id[p])
    <3>1. Goto(p, "claim") /\ UNCHANGED <<sessions, latest, id>> /\ \A q \in Proc : q # p => old'[q] = old[q]
      BY <1>0, <1>6, <2>1, TypeFacts DEF ClaimLoad
    <3> QED BY <1>0, <1>2, <3>1 DEF Label
  <2>2. CASE ~Available(id[p])
    BY <1>0, <1>3, <1>6, <2>2 DEF ClaimLoad, Label
  <2> QED BY <2>1, <2>2
<1>7. ASSUME NEW p \in Caller, ClaimSwap(p) PROVE CookieInv'
  <2>1. CASE Swaps(p)
    BY <1>7, <2>1, SwapKeepsCookies
  <2>2. CASE ~Swaps(p)
    BY <1>0, <1>3, <1>7, <2>2 DEF ClaimSwap, Label
  <2> QED BY <2>1, <2>2
<1>8. ASSUME NEW p \in Caller, OwnerReceive(p) PROVE CookieInv'
  <2>1. p \in Writer[id[p]] /\ UNCHANGED <<sessions, latest, old, id>>
        /\ \A q \in Proc : IF q = p THEN pc'[q] = "extract" ELSE pc'[q] = pc[q]
    BY <1>0, <1>8, TypeFacts DEF OwnerReceive, Goto
  <2> QED BY <1>0, <2>1, ReadsKeepCookies
<1>9. ASSUME NEW p \in Caller, OwnerLeave(p) PROVE CookieInv'
  BY <1>0, <1>3, <1>9 DEF OwnerLeave, Label
<1>10. ASSUME NEW p \in Proc, ExtractLoad(p) PROVE CookieInv'
  <2>1. pc[p] = "extract" /\ id[p] \in Session /\ UNCHANGED <<sessions, latest>>
    BY <1>10 DEF ExtractLoad, At, TypeInv
  <2>2. CASE CookieNames[resp[p]] # {}
    <3>1. UNCHANGED id /\ \A q \in Proc : IF q = p THEN pc'[q] = "store" /\ old'[q] = sessions[id[p]]
                                          ELSE pc'[q] = pc[q] /\ old'[q] = old[q]
      BY <1>10, <2>2, TypeFacts DEF ExtractLoad, Goto
    <3>2. ASSUME Cardinality(Writer[id[p]]) = 1 PROVE (Base(p).cookies)' = latest[id[p]]
      <4>1. old'[p] = sessions[id[p]]
        BY <3>1
      <4>2. CASE sessions[id[p]] = NoState
        BY <2>1, <4>1, <4>2 DEF Base, CookieInv, NoCookies
      <4>3. CASE sessions[id[p]] # NoState
        BY <2>1, <3>2, <4>1, <4>3 DEF Base, CookieInv, SoleWriterKeepsCookies
      <4> QED BY <4>2, <4>3
    <3>3. \A q \in Proc : pc'[q] \in {"extract", "store"} => q \in Writer[id'[q]]
      BY <2>1, <3>1 DEF CookieInv
    <3>4. ASSUME NEW q \in Proc, pc'[q] = "store", Cardinality(Writer[id'[q]]) = 1
          PROVE  (Base(q).cookies)' = latest'[id'[q]]
      <4>1. CASE q = p
        BY <2>1, <3>1, <3>2, <3>4, <4>1
      <4>2. CASE q # p
        <5>1. pc[q] = "store" /\ id'[q] = id[q] /\ old'[q] = old[q]
          BY <3>1, <3>4, <4>2
        <5> QED BY <2>1, <3>4, <5>1 DEF CookieInv, Base
      <4> QED BY <4>1, <4>2
    <3> QED BY <2>1, <3>3, <3>4 DEF CookieInv, SoleWriterKeepsCookies
  <2>3. CASE CookieNames[resp[p]] = {}
    BY <1>3, <1>10, <2>3 DEF ExtractLoad, After, Label
  <2> QED BY <2>2, <2>3
<1>11. ASSUME NEW p \in Proc, ExtractStore(p) PROVE CookieInv'
  <2> DEFINE s == id[p]
             x == NewState(TRUE, mergeCookies(Base(p).cookies, resp[p]), NewToken(Base(p).token, resp[p]))
  <2>1. pc[p] = "store" /\ p \in Writer[s]
    BY <1>11 DEF ExtractStore, At, CookieInv
  <2>2. s \in Session /\ Put(s, x) /\ sessions'[s].cookies = mergeCookies(Base(p).cookies, resp[p])
    BY <1>11, ExtractStorePuts
  <2>3. sessions'[s] = x
    BY <2>2, TypeFacts DEF Put
  <2>4. latest' = [latest EXCEPT ![s] = mergeCookies(latest[s], resp[p])]
    BY <1>11 DEF ExtractStore
  <2>5. Cardinality(Writer[s]) = 1 => Base(p).cookies = latest[s]
    BY <2>1 DEF CookieInv
  <2>6. \A q \in Proc : IF q = p THEN pc'[q] = After(p)
                        ELSE pc'[q] = pc[q] /\ old'[q] = old[q] /\ id'[q] = id[q]
    BY <1>11, TypeFacts DEF ExtractStore, Done, Goto
  <2>7. pc'[p] \notin {"extract", "store"}
    BY <2>6 DEF After
  <2> DEFINE c == mergeCookies(latest[s], resp[p])
  <2>8. Cardinality(Writer[s]) = 1 => x.cookies = c
    BY <2>2, <2>3, <2>5
  <2>9. latest' = [latest EXCEPT ![s] = c]
    BY <2>4
  <2>10. \A q \in Proc : q # p => pc'[q] = pc[q] /\ old'[q] = old[q] /\ id'[q] = id[q]
    BY <2>6
  <2> HIDE DEF x, c, s
  <2> QED BY <2>1, <2>2, <2>3, <2>7, <2>8, <2>9, <2>10, WritesKeepCookies
<1>12. CASE LoopRequest \/ LoopStop \/ LoopCtxDone \/ LoopTick \/ Start
  BY <1>0, <1>2, <1>12 DEF LoopRequest, LoopStop, LoopCtxDone, LoopTick, Start, Label
<1>13. CASE LoopEach
  <2>1. CASE next < Len(sessionIDs)
    <3>1. next + 1 \in DOMAIN sessionIDs
      BY <2>1, HeartbeatAssumption, TypeFacts
    <3>2. UNCHANGED <<sessions, latest, old>> /\ id' = [id EXCEPT ![Loop] = sessionIDs[next + 1]]
          /\ pc' = [pc EXCEPT ![Loop] = "extract"]
      BY <1>13, <2>1, HeartbeatAssumption, TypeFacts DEF LoopEach, Goto
    <3>3. \A q \in Proc : IF q = Loop THEN pc'[q] = "extract" /\ id'[q] = sessionIDs[next + 1]
                          ELSE pc'[q] = pc[q] /\ id'[q] = id[q]
      BY <3>2, TypeFacts
    <3> QED BY <1>0, <3>1, <3>2, <3>3, HeartbeatAssumption, ReadsKeepCookies
  <2>2. CASE next = Len(sessionIDs)
    <3>1. Goto(Loop, "select") /\ UNCHANGED <<sessions, latest, old, id>>
      BY <1>13, <2>2, HeartbeatAssumption, TypeFacts DEF LoopEach
    <3> QED BY <1>0, <1>2, <3>1 DEF Label
  <2> QED BY <1>13, <2>1, <2>2 DEF LoopEach
<1> QED
  BY <1>0, <1>1, <1>4, <1>5, <1>6, <1>7, <1>8, <1>9, <1>10, <1>11, <1>12, <1>13
     DEF Next, CallerStep, LoopStep, Stop, vars

\* A session with one writer keeps every cookie extracted for it, however many goroutines claim
\* it: no claim brings an older state back (ClaimSession, ExtractFromResponse).
THEOREM CookiesSurviveClaims == Spec => []SoleWriterKeepsCookies
<1>1. Init => CookieInv
  <2> SUFFICES ASSUME Init PROVE CookieInv
    OBVIOUS
  <2>1. \A p \in Proc : pc[p] \notin {"extract", "store"}
    BY DEF Init
  <2> QED BY <2>1 DEF Init, CookieInv, SoleWriterKeepsCookies
<1>2. CookieInv => SoleWriterKeepsCookies
  BY DEF CookieInv
<1> QED BY <1>1, <1>2, CookiesKept, TypesHold, ClaimsHold, PTL DEF Spec
=============================================================================
