------------------------ MODULE MCTokenRefreshManager ------------------------
(* An instance of TokenRefreshManager for TLC: one refresh loop, one        *)
(* heartbeat loop and a caller.                                            *)
EXTENDS TokenRefreshManager
CONSTANTS a1, h1, c1
MCInterval == [l \in Loop |-> IF l = a1 THEN 2 ELSE 3]
=============================================================================
