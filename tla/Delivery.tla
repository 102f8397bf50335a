------------------------------ MODULE Delivery ------------------------------
(***************************************************************************)
(* What the paginator promises to the consumer of a stream, and nothing    *)
(* about pages, cursors or the events that come twice.                     *)
(*                                                                         *)
(* The events of the log arrive one by one, each time the next one.  From  *)
(* time to time what has arrived is kept; a consumer that was stopped goes *)
(* on from there.  A stream is called complete only if all of it arrived.  *)
(* An honest server is never refused, and only a log that is longer than   *)
(* the consumer's patience is given up; a server that is not honest may be *)
(* refused, and may have sent anything before, but not be called complete. *)
(***************************************************************************)
EXTENDS Integers, Sequences

CONSTANTS
  Events,
  Patience   \* no log of at most so many events is given up

VARIABLES
  log,      \* the events of the stream
  honest,   \* whether the server sends what the cursors ask for
  got,      \* what the consumer has
  kept,     \* what it is to have when it goes on after a stop
  state     \* "running", "stopped", or how it ended

vars == <<log, honest, got, kept, state>>

Init ==
  /\ log \in Seq(Events) /\ honest \in BOOLEAN
  /\ got = <<>> /\ kept = <<>> /\ state = "running"

\* The events that can come next.
Due == IF honest THEN {log[i] : i \in {Len(got) + 1} \cap DOMAIN log} ELSE Events

Running == state = "running" /\ UNCHANGED <<log, honest>>

Deliver ==
  /\ Running
  /\ \E e \in Due : got' = Append(got, e)
  /\ UNCHANGED <<kept, state>>

Keep == Running /\ kept' = got /\ UNCHANGED <<got, state>>

Complete == Running /\ got = log /\ kept' = got /\ state' = "complete" /\ UNCHANGED got

Refuse == Running /\ ~honest /\ state' = "refused" /\ UNCHANGED <<got, kept>>

GiveUp ==
  /\ Running
  /\ honest => Len(log) > Patience
  /\ state' = "given up"
  /\ UNCHANGED <<got, kept>>

Stop == Running /\ state' = "stopped" /\ UNCHANGED <<got, kept>>

GoOn ==
  /\ state = "stopped"
  /\ state' = "running" /\ got' = kept
  /\ UNCHANGED <<log, honest, kept>>

Next == Deliver \/ Keep \/ Complete \/ Refuse \/ GiveUp \/ Stop \/ GoOn

Spec == Init /\ [][Next]_vars
=============================================================================
