------------------------------ MODULE MCClient ------------------------------
(***************************************************************************)
(* An instance of Client for TLC: one kind of query with two documents, as *)
(* before and after a change of schema, and holds on either side of what a *)
(* backoff is ready to wait.                                               *)
(***************************************************************************)
EXTENDS Client

MCHolds == {0, 2}
=============================================================================
