------------------------ MODULE MCMasterController ------------------------
(* Instances of MasterController for TLC.                                  *)
EXTENDS MasterController, TLC
CONSTANTS b1, b2, n1, n2, pc1, pc2, s1, s2, t1

\* Two broadcasts that share a name, one of them with a second name.
MCCookieNames == b1 :> {n1} @@ b2 :> {n1, n2}
\* Machine pc1 watches with s1, then reconnects with s2; pc2 watches with t1.
MCpcID == s1 :> pc1 @@ s2 :> pc1 @@ t1 :> pc2
MCEarlier == s1 :> {} @@ s2 :> {s1} @@ t1 :> {}
=============================================================================
