------------------------------- MODULE Schema -------------------------------
(***************************************************************************)
(* What the project makes of an introspected GraphQL schema: which of the  *)
(* fields it hopes for exist (schema.py), what it selects inside a         *)
(* composite field, how a query template is filled (querybuild.py), and    *)
(* which field an error message of the server is about (recon.py).         *)
(*                                                                         *)
(* A schema maps the name of each type to its fields; a field has the kind *)
(* and the name of its innermost type, and may take arguments.  A message  *)
(* is the set of field names whose letters occur in it.                    *)
(***************************************************************************)
EXTENDS FiniteSets

CONSTANTS
  Preferred,   \* leaves that identify an object; others are then not asked
  Risky,       \* leaves never asked for
  Within       \* <<f, g>>: the letters of field f occur in those of field g

CompositeKinds == {"OBJECT", "INTERFACE", "UNION"}

HasType(schema, t) == t \in DOMAIN schema
Has(schema, t, f) == HasType(schema, t) /\ f \in DOMAIN schema[t]

PresentFields(schema, t, wanted) == {f \in wanted : Has(schema, t, f)}
AbsentFields(schema, t, wanted) == wanted \ PresentFields(schema, t, wanted)

Composites(schema, t, fields) ==
  {f \in PresentFields(schema, t, fields) : schema[t][f].kind \in CompositeKinds}

\* The types whose details a selection on t looks up besides t itself.
LeafTypes(schema, t, wanted) ==
  {schema[t][f].of : f \in Composites(schema, t, wanted)}

LeafFields(schema, t, exclude) ==
  LET leaves == {f \in DOMAIN schema[t] :
                   /\ f \notin Risky \cup exclude
                   /\ ~schema[t][f].args
                   /\ schema[t][f].kind \in {"SCALAR", "ENUM"}}
      identity == leaves \cap Preferred
  IN IF ~HasType(schema, t) THEN {}
     ELSE IF identity # {} THEN identity ELSE leaves

(***************************************************************************)
(* A selection: the scalar fields asked for, the leaves asked for inside   *)
(* each composite field, and the composite fields left out for want of     *)
(* any leaf.                                                               *)
(***************************************************************************)
BuildSelection(schema, t, fields, exclude) ==
  LET composite == Composites(schema, t, fields)
      leavesOf == [f \in composite |-> LeafFields(schema, schema[t][f].of, exclude)]
      usable == {f \in composite : leavesOf[f] # {}}
  IN [type |-> t,
      plain |-> PresentFields(schema, t, fields) \ composite,
      nested |-> [f \in usable |-> leavesOf[f]],
      skipped |-> composite \ usable]

Leaves(selection) ==
  UNION {selection.nested[f] : f \in DOMAIN selection.nested}

\* Rendering an empty selection raises QueryError.
IsEmpty(selection) == selection.plain = {} /\ DOMAIN selection.nested = {}

(***************************************************************************)
(* The permission-gated leaves <<type, leaf>> that a selection asks for.   *)
(* The server answers with an error about one of them.                     *)
(***************************************************************************)
GatedIn(schema, gated, selection) ==
  {g \in gated : \E f \in DOMAIN selection.nested :
                   /\ schema[selection.type][f].of = g[1]
                   /\ g[2] \in selection.nested[f]}

MessageAbout(leaf) == {leaf} \cup {f \in {w[1] : w \in Within} : <<f, leaf>> \in Within}

\* Not the code: a name inside the one complained about is blamed as well.
BlamedFieldsAnywhere(message, candidates) == candidates \cap message

BlamedFields(message, candidates) ==
  LET hits == candidates \cap message
  IN {f \in hits : \A g \in hits \ {f} : <<f, g>> \notin Within}
=============================================================================
