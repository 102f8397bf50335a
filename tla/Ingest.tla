------------------------------- MODULE Ingest -------------------------------
(***************************************************************************)
(* What the collector promises about the durable event store, and nothing  *)
(* about how it keeps the promise.                                         *)
(*                                                                         *)
(* A stream (one event type of one run) is a chain of pages on the server: *)
(* the page read at a cursor names the cursor of the page after it, or     *)
(* none.  The store holds, for every stream, a prefix of its chain.  It    *)
(* grows one page at a time, always by the page that follows the last one  *)
(* stored, and it shrinks only when a whole run is discarded to be fetched *)
(* again.  Crashes, interrupts, refusals and resumptions are not visible   *)
(* here: that is the promise.                                              *)
(***************************************************************************)
EXTENDS Integers

CONSTANTS
  Runs, Streams,   \* a stream of a run is a pair <<run, stream>>
  NextOf,          \* NextOf[k][c]: the cursor after the page at c, or None
  Start,           \* the cursor of the first page of every stream
  None

VARIABLE landed    \* landed[k]: the pairs <<page index, cursor>> stored for k

Init == landed = [k \in Runs \X Streams |-> {}]

\* The stored pages that no stored page comes after (one, or none at all).
Newest(k) == {q \in landed[k] : \A o \in landed[k] : o[1] <= q[1]}

(***************************************************************************)
(* What can be stored next: the first page of an empty stream, or the page *)
(* the newest one points to.  Nothing can follow a page that points to     *)
(* none: the stream is exhausted.                                          *)
(***************************************************************************)
Following(k) ==
  IF landed[k] = {}
    THEN {<<0, Start>>}
    ELSE {<<q[1] + 1, NextOf[k][q[2]]>> :
             q \in {n \in Newest(k) : NextOf[k][n[2]] # None}}

\* One page of one stream becomes durable.
Land(k) ==
  \E p \in Following(k) : landed' = [landed EXCEPT ![k] = @ \cup {p}]

\* A run is cleared so that all its streams are fetched again.
Discard(r) ==
  landed' = [k \in Runs \X Streams |-> IF k[1] = r THEN {} ELSE landed[k]]

Next ==
  \/ \E k \in Runs \X Streams : Land(k)
  \/ \E r \in Runs : Discard(r)

Spec == Init /\ [][Next]_landed
=============================================================================
