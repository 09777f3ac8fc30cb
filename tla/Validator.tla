----------------------------- MODULE Validator -----------------------------
(***************************************************************************)
(* payload/validator.go: a baseline schema behind a lock, learned from the *)
(* first response and compared with later ones by many goroutines.         *)
(* Extraction and comparison happen outside the lock; the section under    *)
(* v.mu is one action.                                                     *)
(***************************************************************************)
EXTENDS JSONSchema

CONSTANTS
  Proc,       \* goroutines using the validator
  Document,   \* responses
  Field,      \* field paths
  NoSchema, NoDocument, NoType

\* A schema: the type of each of some fields.
Schema == UNION {[F -> Type] : F \in SUBSET Field}

\* The schemas extractSchema may return for a document, none on an error.
Schemas == [d \in Document |-> extractSchema(d)]

ASSUME ValidatorAssumption ==
  /\ \A d \in Document : IsDocument(d)
  /\ Schemas \in [Document -> SUBSET Schema]
  /\ NoSchema \notin Schema /\ NoType \notin Type

VARIABLES
  baseline,   \* v.baseline, NoSchema for nil
  pc,         \* per goroutine: "idle", "learn", "validate", "diff", "done"
  doc,        \* the document of its call
  current,    \* the schema it extracted
  copied,     \* Validate's copy of the baseline
  result,     \* the mismatches Validate returns
  unset,      \* history: there was no baseline as its call began
  taught      \* history: how many Validates since the last Reset or Learn set the baseline

vars == <<baseline, pc, doc, current, copied, result, unset, taught>>

-----------------------------------------------------------------------------
(* diffSchemas                                                             *)

Mismatch(kind, field, was, is) ==
  [kind |-> kind, field |-> field, BaselineType |-> was, CurrentType |-> is]

\* All of them.
Mismatches == [kind : {"MISSING_FIELD", "TYPE_CHANGE", "ADDED_FIELD"}, field : Field,
               BaselineType : Type \cup {NoType}, CurrentType : Type \cup {NoType}]

Missing(b, c) == {Mismatch("MISSING_FIELD", f, b[f], NoType) : f \in DOMAIN b \ DOMAIN c}
\* A variant that overlooks a changed type.
ChangedNever(b, c) == {}
Changed(b, c) == {Mismatch("TYPE_CHANGE", f, b[f], c[f]) :
                    f \in {g \in DOMAIN b \cap DOMAIN c : b[g] # c[g]}}
Added(b, c) == {Mismatch("ADDED_FIELD", f, NoType, c[f]) : f \in DOMAIN c \ DOMAIN b}

\* The mismatches, which the code then sorts: no two are about one field.
diffSchemas(b, c) == Missing(b, c) \cup Changed(b, c) \cup Added(b, c)

-----------------------------------------------------------------------------
Init ==
  /\ baseline = NoSchema
  /\ pc = [p \in Proc |-> "idle"]
  /\ doc = [p \in Proc |-> NoDocument]
  /\ current = [p \in Proc |-> NoSchema]
  /\ copied = [p \in Proc |-> NoSchema]
  /\ result = [p \in Proc |-> {}]
  /\ unset = [p \in Proc |-> FALSE]
  /\ taught = 0

Goto(p, l) == pc' = [pc EXCEPT ![p] = l]

\* The call returns, and the goroutine forgets it.
Return(p) ==
  /\ Goto(p, "idle")
  /\ doc' = [doc EXCEPT ![p] = NoDocument]
  /\ current' = [current EXCEPT ![p] = NoSchema]
  /\ copied' = [copied EXCEPT ![p] = NoSchema]
  /\ result' = [result EXCEPT ![p] = {}]
  /\ unset' = [unset EXCEPT ![p] = FALSE]

\* The schemas a call goes on with: extractSchema's error ends it.  A variant goes on.
ParsedAnyway(d) == IF Schemas[d] = {} THEN {NoSchema} ELSE Schemas[d]
Parsed(d) == Schemas[d]

\* Learn and Validate begin by extracting the document's schema.
Extract(p, l) ==
  /\ pc[p] = "idle"
  /\ \E d \in Document : \E s \in Parsed(d) :
       /\ doc' = [doc EXCEPT ![p] = d]
       /\ current' = [current EXCEPT ![p] = s]
  /\ unset' = [unset EXCEPT ![p] = baseline = NoSchema]
  /\ Goto(p, l)
  /\ UNCHANGED <<baseline, copied, result, taught>>

LearnExtract(p) == Extract(p, "learn")
ValidateExtract(p) == Extract(p, "validate")

LearnStore(p) ==
  /\ pc[p] = "learn"
  /\ baseline' = current[p]
  /\ taught' = 0
  /\ Return(p)

\* Validate sets the baseline when there is none; a variant asks before its section, as
\* HasBaseline followed by Learn would.
TeachesStale(p) == unset[p]
Teaches(p) == baseline = NoSchema

ValidateLocked(p) ==
  /\ pc[p] = "validate"
  /\ \/ /\ Teaches(p)
        /\ baseline' = current[p]
        /\ taught' = taught + 1
        /\ Return(p)
     \/ /\ ~Teaches(p)
        /\ copied' = [copied EXCEPT ![p] = baseline]
        /\ Goto(p, "diff")
        /\ UNCHANGED <<baseline, taught, doc, current, result, unset>>

ValidateDiff(p) ==
  /\ pc[p] = "diff"
  /\ result' = [result EXCEPT ![p] = diffSchemas(copied[p], current[p])]
  /\ Goto(p, "done")
  /\ UNCHANGED <<baseline, doc, current, copied, unset, taught>>

\* The caller takes the result.
ValidateReturn(p) ==
  /\ pc[p] = "done"
  /\ Return(p)
  /\ UNCHANGED <<baseline, taught>>

Reset(p) ==
  /\ pc[p] = "idle"
  /\ baseline' = NoSchema
  /\ taught' = 0
  /\ UNCHANGED <<pc, doc, current, copied, result, unset>>

Step(p) == \/ LearnExtract(p) \/ LearnStore(p)
           \/ ValidateExtract(p) \/ ValidateLocked(p) \/ ValidateDiff(p) \/ ValidateReturn(p)
           \/ Reset(p)

Next == \E p \in Proc : Step(p)

Spec == Init /\ [][Next]_vars
-----------------------------------------------------------------------------
(* Properties                                                              *)

\* The shape of the state; no call goes on without a schema, nor compares with no baseline.
TypeOK ==
  /\ baseline \in Schema \cup {NoSchema}
  /\ pc \in [Proc -> {"idle", "learn", "validate", "diff", "done"}]
  /\ doc \in [Proc -> Document \cup {NoDocument}]
  /\ current \in [Proc -> Schema \cup {NoSchema}]
  /\ copied \in [Proc -> Schema \cup {NoSchema}]
  /\ result \in [Proc -> SUBSET Mismatches]
  /\ unset \in [Proc -> BOOLEAN]
  /\ taught \in Nat
  /\ \A p \in Proc : /\ pc[p] # "idle" => current[p] \in Schema
                     /\ pc[p] \in {"diff", "done"} => copied[p] \in Schema

\* The mismatches about a field.
Reported(D, f) == {m \in D : m.field = f}

\* D says exactly how c differs from b: a field is in one mismatch if it is on one side only
\* or has two types, in none if it is the same, and the mismatch has the types of both sides.
SaysExactly(D, b, c) ==
  /\ \A f \in DOMAIN b \cap DOMAIN c :
       Reported(D, f) = IF b[f] = c[f] THEN {} ELSE {Mismatch("TYPE_CHANGE", f, b[f], c[f])}
  /\ \A f \in DOMAIN b \ DOMAIN c : Reported(D, f) = {Mismatch("MISSING_FIELD", f, b[f], NoType)}
  /\ \A f \in DOMAIN c \ DOMAIN b : Reported(D, f) = {Mismatch("ADDED_FIELD", f, NoType, c[f])}
  /\ \A m \in D : m.field \in DOMAIN b \cup DOMAIN c

\* What Validate returns says exactly how its response differs from the baseline it copied
\* ("an empty slice means the response matches the baseline perfectly").
ResultExact == \A p \in Proc : pc[p] = "done" => SaysExactly(result[p], copied[p], current[p])

\* Of the first Validates that run at the same time only one sets the baseline: the others
\* are compared with it.
OneTeacher == taught <= 1

\* The schema of a document in which no two fields share a dotted path is the type of every
\* field at any depth by that path ("user.address.zip"), in whatever order its fields are visited.
SchemaExact ==
  \A p \in Proc :
    (doc[p] # NoDocument /\ Unambiguous(doc[p])) => current[p] = SchemaOfFields(doc[p])

\* The inductive invariant behind these: a result is the comparison of what its call has, and
\* a Validate has taught only if there is a baseline; the schema is one of the document's.
ResultInv == \A p \in Proc : pc[p] = "done" => result[p] = diffSchemas(copied[p], current[p])
TeacherInv == taught \in {0, 1} /\ (baseline = NoSchema => taught = 0)
ParsedInv == \A p \in Proc : doc[p] # NoDocument => current[p] \in Schemas[doc[p]]
IInv == TypeOK /\ ParsedInv /\ ResultInv /\ TeacherInv
=============================================================================
