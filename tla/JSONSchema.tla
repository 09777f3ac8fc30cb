----------------------------- MODULE JSONSchema -----------------------------
(***************************************************************************)
(* payload/validator.go, extractSchema and flattenSchema: the field paths  *)
(* of a JSON object and their types.  A string is the sequence of its      *)
(* dot-separated segments, so that the key "a.b" and the key "b" inside    *)
(* the object "a" have one path, as they have in the code.  A document is  *)
(* the type of each position in it: a position is the sequence of keys     *)
(* that lead to it, <<>> the document itself.                              *)
(***************************************************************************)
EXTENDS Integers, SequencesExt

CONSTANTS
  Segment,    \* what may stand between two dots of a string
  Blank,      \* the segment of no characters
  Type,       \* JSON type names
  MaxDepth    \* the depth of nesting that encoding/json accepts

ASSUME SegmentAssumption == Blank \in Segment /\ MaxDepth \in Nat

Key == Seq(Segment) \ {<<>>}

\* "", which is a string of one segment.
Empty == <<Blank>>

\* The documents that encoding/json parses: what is inside an object has the object around it.
IsDocument(d) ==
  /\ d \in [DOMAIN d -> Type]
  /\ IsFiniteSet(DOMAIN d) /\ <<>> \in DOMAIN d
  /\ \A pos \in DOMAIN d :
       /\ pos \in Seq(Key) /\ Len(pos) <= MaxDepth
       /\ pos # <<>> => Front(pos) \in DOMAIN d /\ d[Front(pos)] = "object"

\* The keys of the object obj.
Keys(d, obj) == {Last(pos) : pos \in {q \in DOMAIN d : q # <<>> /\ Front(q) = obj}}

\* The orders in which the range may visit the keys of every object of d.
Orders(d) ==
  LET Seqs == UNION {SetToSeqs(Keys(d, obj)) : obj \in DOMAIN d}
  IN  {order \in [DOMAIN d -> Seqs] : \A obj \in DOMAIN d : order[obj] \in SetToSeqs(Keys(d, obj))}

\* The path of a key of the object whose prefix is given; a variant forgets where it is.
PathForgotten(prefix, k) == k
Path(prefix, k) == IF prefix = Empty THEN k ELSE prefix \o k

\* s[path] = type
Write(path, type) == [path |-> path, type |-> type]

\* The writes to s for one key of the object obj: its own, and those of the call for what is
\* inside it, which out has.
Visit(d, out, obj, prefix, k) ==
  LET pos == Append(obj, k)
      path == Path(prefix, k)
  IN  <<Write(path, d[pos])>> \o (IF d[pos] = "object" THEN out[pos][path] ELSE <<>>)

\* The writes of a call, key after key.
Writes(d, order, out, obj, prefix) ==
  FlattenSeq([i \in 1 .. Len(order[obj]) |-> Visit(d, out, obj, prefix, order[obj][i])])

flattenSchema(d, order) ==
  LET out[obj \in DOMAIN d] == [prefix \in Key |-> Writes(d, order, out, obj, prefix)]
  IN  out[<<>>][Empty]

\* What the map holds after the writes: a path written twice has the later type.
Written(writes) ==
  LET LastAt(path) == CHOOSE i \in DOMAIN writes :
        /\ writes[i].path = path
        /\ \A j \in i + 1 .. Len(writes) : writes[j].path # path
  IN  [path \in {w.path : w \in ToSet(writes)} |-> writes[LastAt(path)].type]

\* The schemas it may return, none for what is not an object: extractSchema returns an error.
extractSchema(d) ==
  IF d[<<>>] = "object" THEN {Written(flattenSchema(d, order)) : order \in Orders(d)} ELSE {}

-----------------------------------------------------------------------------
(* What the schema should be                                               *)

\* The fields at any depth, whose keys joined by dots are FlattenSeq(f).
Fields(d) == DOMAIN d \ {<<>>}

\* No two fields share a dotted path, and no key of the whole is "".
Unambiguous(d) ==
  /\ \A f, g \in Fields(d) : FlattenSeq(f) = FlattenSeq(g) => f = g
  /\ <<Empty>> \notin DOMAIN d

\* The type of every field by its dotted path.
SchemaOfFields(d) ==
  [path \in {FlattenSeq(f) : f \in Fields(d)} |->
     d[CHOOSE f \in Fields(d) : FlattenSeq(f) = path]]
=============================================================================
