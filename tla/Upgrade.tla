------------------------------- MODULE Upgrade -------------------------------
(***************************************************************************)
(* What numbered scripts are to do to a file, and nothing of the processes *)
(* that open it, look, run, die and race: one statement is run after the   *)
(* other, each of them once, from the first of version 1 on, and a version *)
(* goes on record when its script is done and before the next one starts.  *)
(***************************************************************************)
EXTENDS Naturals

CONSTANT Statements   \* version -> how many statements its script has

VARIABLES
  executed,   \* the statements <<version, index>> that took effect
  ledger      \* the versions on record

Script(v) == {<<v, i>> : i \in 1..Statements[v]}
UpTo(v) == UNION {Script(u) : u \in 1..v}

Init == executed = {} /\ ledger = {}

\* The next statement of the next version.
Run(v, k) ==
  /\ ledger = 1..v - 1
  /\ executed = UpTo(v - 1) \cup {<<v, i>> : i \in 1..k - 1}
  /\ executed' = executed \cup {<<v, k>>}
  /\ UNCHANGED ledger

Record(v) ==
  /\ ledger = 1..v - 1
  /\ executed = UpTo(v)
  /\ ledger' = 1..v
  /\ UNCHANGED executed

Next ==
  \E v \in DOMAIN Statements \ {0} :
    Record(v) \/ \E k \in 1..Statements[v] : Run(v, k)

Spec == Init /\ [][Next]_<<executed, ledger>>
=============================================================================
