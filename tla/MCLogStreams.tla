---------------------------- MODULE MCLogStreams ----------------------------
(* Instances of LogStreams for TLC. *)
EXTENDS LogStreams

\* One entry more than the ring holds.
MCMaxEntries == MaxLogs + 1
=============================================================================
