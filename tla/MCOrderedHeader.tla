--------------------------- MODULE MCOrderedHeader ---------------------------
(* An instance of OrderedHeader for TLC: a header in two casings, and       *)
(* another.                                                                *)
EXTENDS OrderedHeader
CONSTANTS h1, h2, lower, upper, other, host, accept, v1, v2
MCCanonical == lower :> accept @@ upper :> accept @@ other :> host
MCSymmetry == Permutations({v1, v2}) \cup Permutations({h1, h2})
=============================================================================
