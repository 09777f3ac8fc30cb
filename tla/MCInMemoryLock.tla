--------------------------- MODULE MCInMemoryLock ---------------------------
(* Instances of InMemoryLock for TLC.                                       *)
EXTENDS InMemoryLock
=============================================================================
