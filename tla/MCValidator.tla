---------------------------- MODULE MCValidator ----------------------------
(* Instances of Validator for TLC, over small documents.                   *)
EXTENDS Validator

a == <<"a">>
b == <<"b">>
ab == <<"a", "b">>

Scalar(t) == <<>> :> t
Object == <<>> :> "object"

\* A document as the value of a key.
Inside(k, d) == [pos \in {<<k>> \o q : q \in DOMAIN d} |-> d[Tail(pos)]]

Number == Scalar("number")

\* The values of "a", and objects that have "a" or "a.b", which meets the "b" inside "a"; and
\* one whose key is "", which leaves no trace in the path of the "b" inside it.
Inner == {Number, Scalar("string"), Object, Object @@ Inside(b, Number),
          Object @@ Inside(b, Object @@ Inside(a, Number))}
MCDocument ==
  {Object @@ f @@ g : f \in {<<>>} \cup {Inside(a, v) : v \in Inner},
                      g \in {<<>>, Inside(ab, Scalar("string"))}}
    \cup {Number, Object @@ Inside(Empty, Object @@ Inside(b, Number))}

MCSegment == {"", "a", "b"}
MCField == {a, b, ab, ab \o a, Empty}
MCType == {"object", "number", "string"}
=============================================================================
