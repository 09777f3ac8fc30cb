-------------------------- MODULE GlobalCookieJar --------------------------
(***************************************************************************)
(* The GlobalCookieJar of cluster/controller.go: cookies by name, and a    *)
(* version counter that is bumped after the jar's lock has been released.  *)
(* A cookie is known by the broadcast that uploaded it.                    *)
(***************************************************************************)
EXTENDS Integers, Sequences, SequencesExt

CONSTANTS
  Broadcast,    \* the BroadcastCookie calls
  Name,         \* cookie names
  CookieNames,  \* the names each broadcast uploads
  NoCookie

ASSUME JarAssumption ==
  /\ CookieNames \in [Broadcast -> SUBSET Name]
  /\ NoCookie \notin Broadcast

VARIABLES
  entries,  \* per name, the broadcast whose cookie is stored
  version,
  order     \* history: the broadcasts stored, oldest first

jarVars == <<entries, version, order>>

NewGlobalCookieJar ==
  /\ entries = [n \in Name |-> NoCookie]
  /\ version = 0
  /\ order = <<>>

\* The section of Store under j.mu.
StoreEntries(b) ==
  /\ entries' = [n \in Name |-> IF n \in CookieNames[b] THEN b ELSE entries[n]]
  /\ order' = Append(order, b)

\* The rest of Store: the atomic increment, whose result is returned.
NextVersion == version + 1

\* Snapshot reads both under the read-lock.  A version bump between its two reads is the
\* same as one just before it, so the pair is the one of a single state.
Snapshot == [cookies |-> entries, version |-> version]

\* Every cookie of b is in these cookies, or a later one of the same name is.
Covers(cookies, b) ==
  \A n \in CookieNames[b] :
    \E i, j \in DOMAIN order : i <= j /\ order[i] = b /\ order[j] = cookies[n]

JarTypeOK ==
  /\ entries \in [Name -> Broadcast \cup {NoCookie}]
  /\ version \in Nat
  /\ order \in Seq(Broadcast) /\ IsInjective(order)
=============================================================================
