------------------------- MODULE MCHeartbeatManager -------------------------
(* Instances of HeartbeatManager for TLC: the loop keeps s1 alive, and the  *)
(* callers write s2.                                                       *)
EXTENDS HeartbeatManager, TLC
CONSTANTS c1, c2, s1, s2, r1, r2, r3, n1, n2

MCsessionIDs == <<s1>>
MCWriter == s1 :> {Loop} @@ s2 :> {c1, c2}
\* r3 sets no cookie; r1 and r3 carry a token.
MCCookieNames == r1 :> {n1} @@ r2 :> {n1, n2} @@ r3 :> {}
=============================================================================
