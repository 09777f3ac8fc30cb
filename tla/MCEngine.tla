------------------------------ MODULE MCEngine ------------------------------
(* Instances of Engine for TLC: a job is the ID of its session, and the     *)
(* pool has as many workers as there are sessions (main.go).               *)
EXTENDS Engine
CONSTANTS p, q, bad
MCReader == {"main", "monitor"}

(* A file with fewer proxies than sessions, so that the rotation wraps, and one whose     *)
(* second proxy does not parse.  Nothing after the start-up depends on the proxies.      *)
MCProxyFiles == {<<p>>, <<q, bad>>}
=============================================================================
