------------------------------ MODULE Migrations ------------------------------
(***************************************************************************)
(* Opening a database file (db.py): the numbered scripts a process finds   *)
(* pending when it looks are run one after the other, and each is put into *)
(* the ledger after it ran.  executescript commits every statement by      *)
(* itself, whatever transaction is around it, and a statement that ran     *)
(* once (CREATE TABLE, ALTER TABLE ADD COLUMN, CREATE INDEX) fails if it   *)
(* is run again.  Processes of different releases share the file.          *)
(***************************************************************************)
EXTENDS Naturals, FiniteSets, FiniteSetsExt

CONSTANTS
  Openers,       \* processes
  Expected,      \* process -> EXPECTED_SCHEMA_VERSION of its release
  Numbered,      \* process -> the versions of the files it finds
  Statements     \* version -> how many statements its script has

ASSUME MigrationsAssumption ==
  \A p \in Openers :
    /\ IsFiniteSet(Numbered[p]) /\ Numbered[p] \subseteq DOMAIN Statements
    /\ Expected[p] \in Nat
    /\ \A v \in Numbered[p] : v \in Nat \ {0} /\ Statements[v] \in Nat \ {0}

VARIABLES
  executed,   \* the statements <<version, index>> that took effect
  ledger,     \* schema_migrations
  opener,     \* process -> [at, pending, step]
  deaths,     \* whether a process died while it migrated
  overlapped  \* whether two processes migrated at the same time

migrationVars == <<executed, ledger, opener, deaths, overlapped>>

Closed == [at |-> "closed", pending |-> {}, step |-> 1]
LastOf(versions) == IF versions = {} THEN 0 ELSE Max(versions)

MigrationsInit ==
  /\ executed = {}
  /\ ledger = {}
  /\ opener = [p \in Openers |-> Closed]
  /\ deaths = FALSE
  /\ overlapped = FALSE

Migrating(p) == opener[p].at \in {"migrating", "recording"}

\* Not the code: the scripts are run in the wrong order.
VersionNewestFirst(p) == Max(opener[p].pending)

Version(p) == Min(opener[p].pending)

Move(p, state) == opener' = [opener EXCEPT ![p] = state]

\* discover_migrations: versions must run 1..N with no gaps.
WellNumbered(p) == Numbered[p] = 1..Cardinality(Numbered[p])

\* Not the code: the version on record is taken for one to come.
LookAtLedgerFromHighest(p) ==
  LET pending == {v \in Numbered[p] : v >= LastOf(ledger)} IN
  /\ opener[p].at = "closed"
  /\ Move(p, IF ~WellNumbered(p) THEN [Closed EXCEPT !.at = "failed"]
             ELSE IF pending = {} THEN [Closed EXCEPT !.at = "checking"]
             ELSE [at |-> "migrating", pending |-> pending, step |-> 1])
  /\ overlapped' = (overlapped \/ \E q \in Openers \ {p} : Migrating(q))
  /\ UNCHANGED <<executed, ledger, deaths>>

\* migrate looks at the ledger once, for all that it will run.
LookAtLedger(p) ==
  LET pending == Numbered[p] \ ledger IN
  /\ opener[p].at = "closed"
  /\ Move(p, IF ~WellNumbered(p) THEN [Closed EXCEPT !.at = "failed"]
             ELSE IF pending = {} THEN [Closed EXCEPT !.at = "checking"]
             ELSE [at |-> "migrating", pending |-> pending, step |-> 1])
  /\ overlapped' = (overlapped \/ \E q \in Openers \ {p} : Migrating(q))
  /\ UNCHANGED <<executed, ledger, deaths>>

RunStatement(p) ==
  LET statement == <<Version(p), opener[p].step>> IN
  /\ opener[p].at = "migrating"
  /\ IF statement \in executed
     THEN Move(p, [Closed EXCEPT !.at = "failed"]) /\ UNCHANGED executed
     ELSE /\ executed' = executed \cup {statement}
          /\ Move(p, IF opener[p].step = Statements[Version(p)]
                     THEN [opener[p] EXCEPT !.at = "recording"]
                     ELSE [opener[p] EXCEPT !.step = @ + 1])
  /\ UNCHANGED <<ledger, deaths, overlapped>>

RecordVersion(p) ==
  LET rest == opener[p].pending \ {Version(p)} IN
  /\ opener[p].at = "recording"
  /\ ledger' = ledger \cup {Version(p)}
  /\ Move(p, IF rest = {} THEN [Closed EXCEPT !.at = "checking"]
             ELSE [at |-> "migrating", pending |-> rest, step |-> 1])
  /\ UNCHANGED <<executed, deaths, overlapped>>

\* Database.__init__ compares the highest version of the ledger.
CheckVersion(p) ==
  /\ opener[p].at = "checking"
  /\ Move(p, [Closed EXCEPT
                !.at = IF LastOf(ledger) = Expected[p] THEN "open" ELSE "failed"])
  /\ UNCHANGED <<executed, ledger, deaths, overlapped>>

Leave(p) ==
  /\ opener[p].at \in {"open", "failed"}
  /\ Move(p, Closed)
  /\ UNCHANGED <<executed, ledger, deaths, overlapped>>

Dies(p) ==
  /\ Migrating(p) \/ opener[p].at = "checking"
  /\ Move(p, Closed)
  /\ deaths' = (deaths \/ Migrating(p))
  /\ UNCHANGED <<executed, ledger, overlapped>>

MigrationsNext ==
  \E p \in Openers :
    \/ LookAtLedger(p) \/ RunStatement(p) \/ RecordVersion(p)
    \/ CheckVersion(p) \/ Leave(p) \/ Dies(p)

MigrationsSpec == MigrationsInit /\ [][MigrationsNext]_migrationVars

-----------------------------------------------------------------------------
ScriptOf(v) == {<<v, i>> : i \in 1..Statements[v]}

MigrationsTypeOK ==
  /\ executed \subseteq UNION {ScriptOf(v) : v \in DOMAIN Statements}
  /\ ledger \subseteq DOMAIN Statements
  /\ \A p \in Openers : Migrating(p) => opener[p].pending # {}

\* The ledger can be believed: whatever died or ran at the same time, a version
\* on record was run to its last statement, on top of all versions below it,
\* so that the highest version, all that opening compares, tells the schema;
\* and what was done without the ledger knowing is at most the next version.
LedgerMeansSchema ==
  /\ ledger = 1..LastOf(ledger)
  /\ \A v \in ledger : ScriptOf(v) \subseteq executed
  /\ \A s \in executed : s[1] <= LastOf(ledger) + 1

\* Whoever runs them, dies in the middle or races with another: the file goes
\* through the states of one process that runs every script once, in order.
File == INSTANCE Upgrade

ScriptsInOrder == File!Spec

\* A file is refused only for a reason: it is of a newer release, or of an
\* older one that lacks the scripts, or a process died or ran into another
\* while it migrated.
RefusedForCause ==
  \A p \in Openers :
    opener[p].at = "failed" =>
      \/ deaths \/ overlapped
      \/ ~WellNumbered(p)
      \/ LastOf(ledger) > Expected[p]
      \/ LastOf(Numbered[p]) # Expected[p]
=============================================================================
