---------------------------- MODULE CommandProofs ----------------------------
(***************************************************************************)
(* The commands beside the collector, for every value of their constants.  *)
(*                                                                         *)
(* Migrations first: the ledger of schema_migrations can be believed, and  *)
(* nobody is refused the file without a cause.  The process that ran the   *)
(* first statement of a script owns that version, since the statement      *)
(* fails for everybody else; an owner works on the version after the       *)
(* highest on record, and there is at most one.  What an owner that died   *)
(* has left behind stays ahead of the ledger for ever.                     *)
(*                                                                         *)
(* Then the types of all commands, and that they do not touch one another: *)
(* what is true of each alone is true of them together.                    *)
(***************************************************************************)
EXTENDS Commands, ReportProofs, DiscoveryProofs

Level == LastOf(ledger)

\* A process that has run a statement of the version it works on.
Owner(p) == Migrating(p) /\ (opener[p].at = "recording" \/ opener[p].step > 1)

Places == {"closed", "migrating", "recording", "checking", "open", "failed"}

TypeInv ==
  /\ executed \subseteq Nat \X Nat
  /\ opener \in [Openers -> [at : Places, pending : SUBSET Nat, step : Nat \ {0}]]

LedgerInv == Level \in Nat /\ ledger = 1..Level

PendingInv ==
  \A p \in Openers : Migrating(p) =>
    \E n \in Nat : /\ opener[p].pending = Version(p)..n
                   /\ Version(p) \in Nat \ {0}
                   /\ Version(p) <= n
                   /\ Version(p) <= Level + 1
                   /\ 1..n \subseteq Numbered[p]

RanInv ==
  /\ \A v \in ledger : ScriptOf(v) \subseteq executed
  /\ \A s \in executed : s[1] <= Level + 1

StepInv ==
  \A p \in Openers : Migrating(p) => opener[p].step <= Statements[Version(p)]

OwnerInv ==
  \A p \in Openers : Owner(p) =>
    /\ Version(p) = Level + 1
    /\ \A i \in 1..opener[p].step - 1 : <<Version(p), i>> \in executed
    /\ opener[p].at = "recording" => ScriptOf(Version(p)) \subseteq executed

OneOwner == \A p, q \in Openers : Owner(p) /\ Owner(q) => p = q

LInv ==
  /\ TypeInv /\ LedgerInv /\ PendingInv /\ RanInv /\ StepInv /\ OwnerInv /\ OneOwner

-----------------------------------------------------------------------------
\* The highest version of 1..n is n, and of nothing 0.
LEMMA LastOfInterval ==
  ASSUME NEW n \in Nat
  PROVE  LastOf(1..n) = n
<1>1. CASE n = 0
  <2>1. 1..n = {} BY <1>1
  <2> QED BY <2>1, <1>1 DEF LastOf
<1>2. CASE n # 0
  <2>1. n \in 1..n /\ \A y \in 1..n : n >= y BY <1>2
  <2>2. \A x \in 1..n : (\A y \in 1..n : x >= y) => x = n BY <2>1
  <2>3. Max(1..n) = n BY <2>1, <2>2 DEF Max
  <2> QED BY <2>1, <2>3 DEF LastOf
<1> QED BY <1>1, <1>2

\* The lowest version of a..n is a.
LEMMA MinOfInterval ==
  ASSUME NEW a \in Nat, NEW n \in Nat, a <= n
  PROVE  Min(a..n) = a
<1>1. a \in a..n /\ \A y \in a..n : a <= y OBVIOUS
<1>2. \A x \in a..n : (\A y \in a..n : x <= y) => x = a BY <1>1
<1> QED BY <1>1, <1>2 DEF Min

\* What a process finds pending is the versions after the highest on record.
LEMMA PendingAfterLevel ==
  ASSUME NEW p \in Openers, WellNumbered(p), LedgerInv, Numbered[p] \ ledger # {}
  PROVE  \E n \in Nat : /\ Numbered[p] \ ledger = Level + 1..n
                        /\ Level + 1 <= n
                        /\ Numbered[p] = 1..n
<1> DEFINE n == Cardinality(Numbered[p])
<1>1. n \in Nat BY FS_CardinalityType, MigrationsAssumption
<1>2. Numbered[p] = 1..n BY DEF WellNumbered
<1>3. Level \in Nat /\ ledger = 1..Level BY DEF LedgerInv
<1>4. Numbered[p] \ ledger = Level + 1..n BY <1>1, <1>2, <1>3
<1>5. Level + 1 <= n BY <1>4, <1>1, <1>3
<1> QED BY <1>1, <1>2, <1>4, <1>5

State == [at : Places, pending : SUBSET Nat, step : Nat \ {0}]

\* A step of p changes nothing that is said of another process.
LEMMA OthersStay ==
  ASSUME NEW p \in Openers, NEW q \in Openers \ {p}, TypeInv,
         NEW state \in State, Move(p, state)
  PROVE  /\ opener'[p] = state
         /\ opener'[q] = opener[q]
         /\ Migrating(q)' = Migrating(q)
         /\ Owner(q)' = Owner(q)
         /\ Version(q)' = Version(q)
<1>1. opener' = [opener EXCEPT ![p] = state] BY DEF Move
<1>2. opener'[p] = state /\ opener'[q] = opener[q] BY <1>1 DEF TypeInv
<1> QED BY <1>2 DEF Migrating, Owner, Version

\* p stops migrating, or goes on not migrating.
LEMMA Withdraws ==
  ASSUME LInv, NEW p \in Openers, NEW state \in State,
         state.at \notin {"migrating", "recording"}, Move(p, state),
         UNCHANGED <<executed, ledger>>
  PROVE  LInv'
<1>1. opener' = [opener EXCEPT ![p] = state] BY DEF Move
<1>2. TypeInv BY DEF LInv
<1>3. opener'[p] = state /\ ~Migrating(p)' /\ ~Owner(p)'
  BY <1>1, <1>2 DEF TypeInv, Migrating, Owner
<1>4. \A q \in Openers \ {p} :
        /\ opener'[q] = opener[q] /\ Migrating(q)' = Migrating(q)
        /\ Owner(q)' = Owner(q) /\ Version(q)' = Version(q)
  BY <1>2, OthersStay
<1>5. Level' = Level BY DEF Level, LastOf
<1>6. TypeInv' BY <1>1, <1>2 DEF TypeInv, State
<1>7. LedgerInv' BY <1>5 DEF LInv, LedgerInv
<1>8. PendingInv' BY <1>3, <1>4, <1>5 DEF LInv, PendingInv
<1>9. RanInv' BY <1>5 DEF LInv, RanInv, ScriptOf
<1>10. StepInv' BY <1>3, <1>4 DEF LInv, StepInv
<1>11. OwnerInv' BY <1>3, <1>4, <1>5 DEF LInv, OwnerInv, ScriptOf
<1>12. OneOwner' BY <1>3, <1>4 DEF LInv, OneOwner
<1> QED BY <1>6, <1>7, <1>8, <1>9, <1>10, <1>11, <1>12 DEF LInv

LEMMA ClosedIsState ==
  ASSUME NEW place \in Places
  PROVE  /\ [Closed EXCEPT !.at = place] \in State
         /\ [Closed EXCEPT !.at = place].at = place
         /\ Closed \in State /\ Closed.at = "closed"
BY DEF Closed, State, Places

\* p finds scripts pending: it owns nothing yet.
LEMMA Looks ==
  ASSUME LInv, NEW p \in Openers, LookAtLedger(p)
  PROVE  LInv'
<1> DEFINE pending == Numbered[p] \ ledger
           state == [at |-> "migrating", pending |-> pending, step |-> 1]
<1>1. UNCHANGED <<executed, ledger>> BY DEF LookAtLedger
<1>2. CASE ~WellNumbered(p) \/ pending = {}
  <2>1. \E place \in {"failed", "checking"} : Move(p, [Closed EXCEPT !.at = place])
    BY <1>2 DEF LookAtLedger
  <2>2. PICK place \in {"failed", "checking"} : Move(p, [Closed EXCEPT !.at = place])
    BY <2>1
  <2>3. place \in Places BY DEF Places
  <2> QED BY <1>1, <2>2, <2>3, ClosedIsState, Withdraws
<1>3. CASE WellNumbered(p) /\ pending # {}
  <2>1. LedgerInv /\ TypeInv BY DEF LInv
  <2>2. PICK n \in Nat : /\ pending = Level + 1..n
                         /\ Level + 1 <= n
                         /\ Numbered[p] = 1..n
    BY <1>3, <2>1, PendingAfterLevel
  <2>3. Level \in Nat BY <2>1 DEF LedgerInv
  <2>4. state \in State
    BY <2>2, <2>3 DEF State, Places
  <2>5. Move(p, state) BY <1>3 DEF LookAtLedger
  <2>6. \A q \in Openers \ {p} :
          /\ opener'[q] = opener[q] /\ Migrating(q)' = Migrating(q)
          /\ Owner(q)' = Owner(q) /\ Version(q)' = Version(q)
    BY <2>1, <2>4, <2>5, OthersStay
  <2>7. opener' = [opener EXCEPT ![p] = state] BY <2>5 DEF Move
  <2>8. opener'[p] = state BY <2>1, <2>7 DEF TypeInv
  <2>9. ~Owner(p)' BY <2>8 DEF Owner, Migrating
  <2>10. Version(p)' = Level + 1
    <3>1. Version(p)' = Min(pending) BY <2>8 DEF Version
    <3>2. Min(Level + 1..n) = Level + 1 BY <2>2, <2>3, MinOfInterval
    <3> QED BY <3>1, <3>2, <2>2
  <2>11. Level' = Level BY <1>1 DEF Level, LastOf
  <2>12. TypeInv' BY <1>1, <2>1, <2>4, <2>7 DEF TypeInv, State
  <2>13. LedgerInv' BY <1>1, <2>1, <2>11 DEF LedgerInv
  <2>14. PendingInv'
    <3> SUFFICES ASSUME NEW q \in Openers, Migrating(q)'
                 PROVE  \E m \in Nat : /\ opener'[q].pending = Version(q)'..m
                                       /\ Version(q)' \in Nat \ {0}
                                       /\ Version(q)' <= m
                                       /\ Version(q)' <= Level' + 1
                                       /\ 1..m \subseteq Numbered[q]
      BY DEF PendingInv
    <3>1. CASE q = p
      <4>1. opener'[q].pending = Version(q)'..n
        BY <3>1, <2>2, <2>8, <2>10
      <4> QED BY <3>1, <4>1, <2>2, <2>3, <2>10, <2>11
    <3>2. CASE q # p BY <3>2, <2>6, <2>11 DEF LInv, PendingInv
    <3> QED BY <3>1, <3>2
  <2>15. RanInv' BY <1>1, <2>11 DEF LInv, RanInv, ScriptOf
  <2>16. StepInv'
    <3>1. Level + 1 \in Numbered[p] BY <2>2, <2>3
    <3>2. Statements[Level + 1] >= 1 BY <3>1, MigrationsAssumption
    <3> QED BY <3>2, <2>6, <2>8, <2>10 DEF LInv, StepInv
  <2>17. OwnerInv' BY <1>1, <2>6, <2>9, <2>11 DEF LInv, OwnerInv, ScriptOf
  <2>18. OneOwner' BY <2>6, <2>9 DEF LInv, OneOwner
  <2> QED BY <2>12, <2>13, <2>14, <2>15, <2>16, <2>17, <2>18 DEF LInv
<1> QED BY <1>2, <1>3

\* The version that p works on, while it does.
LEMMA WorkingOn ==
  ASSUME LInv, NEW p \in Openers, Migrating(p)
  PROVE  /\ Level \in Nat
         /\ Version(p) \in Numbered[p]
         /\ Version(p) \in Nat \ {0}
         /\ Version(p) <= Level + 1
         /\ Statements[Version(p)] \in Nat \ {0}
         /\ opener[p].step \in 1..Statements[Version(p)]
<1>1. PICK n \in Nat : /\ Version(p) \in Nat \ {0}
                       /\ Version(p) <= n
                       /\ Version(p) <= Level + 1
                       /\ 1..n \subseteq Numbered[p]
  BY DEF LInv, PendingInv
<1>2. Version(p) \in Numbered[p] BY <1>1
<1>3. Statements[Version(p)] \in Nat \ {0} BY <1>2, MigrationsAssumption
<1>4. opener[p].step \in Nat \ {0} BY DEF LInv, TypeInv
<1>5. opener[p].step <= Statements[Version(p)] BY DEF LInv, StepInv
<1> QED BY <1>1, <1>2, <1>3, <1>4, <1>5 DEF LInv, LedgerInv

\* An owner has run the first statement of its version.
LEMMA OwnerRanFirst ==
  ASSUME LInv, NEW p \in Openers, Owner(p)
  PROVE  Version(p) = Level + 1 /\ <<Level + 1, 1>> \in executed
<1>1. Migrating(p) BY DEF Owner
<1>2. /\ Level \in Nat /\ Statements[Version(p)] \in Nat \ {0}
      /\ opener[p].step \in 1..Statements[Version(p)]
  BY <1>1, WorkingOn
<1>3. /\ Version(p) = Level + 1
      /\ \A i \in 1..opener[p].step - 1 : <<Version(p), i>> \in executed
      /\ opener[p].at = "recording" => ScriptOf(Version(p)) \subseteq executed
  BY DEF LInv, OwnerInv
<1>4. CASE opener[p].step > 1
  <2>1. 1 \in 1..opener[p].step - 1 BY <1>2, <1>4
  <2> QED BY <1>3, <2>1
<1>5. CASE opener[p].at = "recording"
  <2>1. <<Version(p), 1>> \in ScriptOf(Version(p)) BY <1>2 DEF ScriptOf
  <2> QED BY <1>3, <1>5, <2>1
<1> QED BY <1>4, <1>5 DEF Owner

\* A statement that can be run is of the version after the highest on record,
\* and nobody else has begun with that.
LEMMA FirstComes ==
  ASSUME LInv, NEW p \in Openers, Migrating(p),
         <<Version(p), opener[p].step>> \notin executed
  PROVE  /\ Version(p) = Level + 1
         /\ \A q \in Openers \ {p} : ~Owner(q)
         /\ \A i \in 1..opener[p].step - 1 : <<Version(p), i>> \in executed
<1>1. /\ Level \in Nat /\ Version(p) \in Nat \ {0} /\ Version(p) <= Level + 1
      /\ Statements[Version(p)] \in Nat \ {0}
      /\ opener[p].step \in 1..Statements[Version(p)]
  BY WorkingOn
<1>2. CASE Owner(p)
  BY <1>2 DEF LInv, OwnerInv, OneOwner
<1>3. CASE ~Owner(p)
  <2>1. opener[p].step = 1 BY <1>1, <1>3 DEF Owner
  <2>2. Version(p) \notin ledger
    <3>1. <<Version(p), 1>> \in ScriptOf(Version(p)) BY <1>1 DEF ScriptOf
    <3> QED BY <3>1, <2>1 DEF LInv, RanInv
  <2>3. Version(p) = Level + 1 BY <2>2, <1>1 DEF LInv, LedgerInv
  <2>4. \A q \in Openers \ {p} : ~Owner(q) BY <2>1, <2>3, OwnerRanFirst
  <2>5. 1..opener[p].step - 1 = {} BY <2>1
  <2> QED BY <2>3, <2>4, <2>5
<1> QED BY <1>2, <1>3

LEMMA Runs ==
  ASSUME LInv, NEW p \in Openers, RunStatement(p)
  PROVE  LInv'
<1> DEFINE v == Version(p)
           k == opener[p].step
           state == IF k = Statements[v] THEN [opener[p] EXCEPT !.at = "recording"]
                    ELSE [opener[p] EXCEPT !.step = @ + 1]
<1>1. UNCHANGED ledger /\ opener[p].at = "migrating" /\ Migrating(p)
  BY DEF RunStatement, Migrating
<1>2. CASE <<v, k>> \in executed
  <2>1. Move(p, [Closed EXCEPT !.at = "failed"]) /\ UNCHANGED executed
    BY <1>2 DEF RunStatement
  <2>2. "failed" \in Places BY DEF Places
  <2> QED BY <1>1, <2>1, <2>2, ClosedIsState, Withdraws
<1>3. CASE <<v, k>> \notin executed
  <2>1. TypeInv /\ LedgerInv /\ opener[p] \in State BY DEF LInv, TypeInv, State
  <2>2. executed' = executed \cup {<<v, k>>} /\ Move(p, state)
    BY <1>3 DEF RunStatement
  <2>3. /\ Level \in Nat /\ v \in Nat \ {0} /\ Statements[v] \in Nat \ {0}
        /\ k \in 1..Statements[v]
    BY <1>1, WorkingOn
  <2>4. /\ v = Level + 1
        /\ \A q \in Openers \ {p} : ~Owner(q)
        /\ \A i \in 1..k - 1 : <<v, i>> \in executed
    BY <1>1, <1>3, FirstComes
  <2>5. /\ state \in State
        /\ state.pending = opener[p].pending
        /\ \/ state.at = "recording" /\ state.step = k /\ k = Statements[v]
           \/ state.at = "migrating" /\ state.step = k + 1 /\ k + 1 <= Statements[v]
    <3>1. CASE k = Statements[v]
      <4>1. state = [opener[p] EXCEPT !.at = "recording"] BY <3>1
      <4> QED BY <3>1, <4>1, <2>1 DEF State, Places
    <3>2. CASE k # Statements[v]
      <4>1. state = [opener[p] EXCEPT !.step = k + 1] BY <3>2
      <4>2. k + 1 <= Statements[v] BY <3>2, <2>3
      <4> QED BY <1>1, <2>1, <2>3, <4>1, <4>2 DEF State, Places
    <3> QED BY <3>1, <3>2
  <2> HIDE DEF state
  <2>6. \A q \in Openers \ {p} :
          /\ opener'[q] = opener[q] /\ Migrating(q)' = Migrating(q)
          /\ Owner(q)' = Owner(q) /\ Version(q)' = Version(q)
    BY <2>1, <2>2, <2>5, OthersStay
  <2>7. opener' = [opener EXCEPT ![p] = state] BY <2>2 DEF Move
  <2>8. opener'[p] = state BY <2>1, <2>7 DEF TypeInv
  <2>9. Version(p)' = v BY <2>5, <2>8 DEF Version
  <2>10. Level' = Level BY <1>1 DEF Level, LastOf
  <2>11. TypeInv'
    <3>1. <<v, k>> \in Nat \X Nat BY <2>3
    <3>2. executed' \subseteq Nat \X Nat BY <3>1, <2>1, <2>2 DEF TypeInv
    <3>3. opener' \in [Openers -> State] BY <2>1, <2>5, <2>7 DEF TypeInv, State
    <3> QED BY <3>2, <3>3 DEF TypeInv, State
  <2>12. LedgerInv' BY <1>1, <2>1, <2>10 DEF LedgerInv
  <2>13. PendingInv'
    <3> SUFFICES ASSUME NEW q \in Openers, Migrating(q)'
                 PROVE  \E m \in Nat : /\ opener'[q].pending = Version(q)'..m
                                       /\ Version(q)' \in Nat \ {0}
                                       /\ Version(q)' <= m
                                       /\ Version(q)' <= Level' + 1
                                       /\ 1..m \subseteq Numbered[q]
      BY DEF PendingInv
    <3>1. CASE q = p BY <3>1, <1>1, <2>5, <2>8, <2>9, <2>10 DEF LInv, PendingInv
    <3>2. CASE q # p BY <3>2, <2>6, <2>10 DEF LInv, PendingInv
    <3> QED BY <3>1, <3>2
  <2>14. RanInv'
    <3>1. \A w \in ledger' : ScriptOf(w) \subseteq executed'
      BY <1>1, <2>2 DEF LInv, RanInv, ScriptOf
    <3>2. \A s \in executed' : s[1] <= Level' + 1
      BY <2>2, <2>3, <2>4, <2>10 DEF LInv, RanInv
    <3> QED BY <3>1, <3>2 DEF RanInv, ScriptOf
  <2>15. StepInv'
    <3>1. opener'[p].step <= Statements[Version(p)'] BY <2>3, <2>5, <2>8, <2>9
    <3> QED BY <3>1, <2>6 DEF LInv, StepInv
  <2>16. OwnerInv'
    <3> SUFFICES ASSUME NEW q \in Openers, Owner(q)'
                 PROVE  /\ Version(q)' = Level' + 1
                        /\ \A i \in 1..opener'[q].step - 1 : <<Version(q)', i>> \in executed'
                        /\ opener'[q].at = "recording" =>
                             ScriptOf(Version(q)') \subseteq executed'
      BY DEF OwnerInv, ScriptOf
    <3>1. q = p BY <2>4, <2>6
    <3>2. \A i \in 1..k : <<v, i>> \in executed'
      BY <2>2, <2>3, <2>4
    <3>3. \A i \in 1..state.step - 1 : <<v, i>> \in executed' BY <3>2, <2>3, <2>5
    <3>4. state.at = "recording" => ScriptOf(v) \subseteq executed'
      BY <3>2, <2>5 DEF ScriptOf
    <3> QED BY <3>1, <3>3, <3>4, <2>4, <2>8, <2>9, <2>10
  <2>17. OneOwner' BY <2>4, <2>6 DEF OneOwner
  <2> QED BY <2>11, <2>12, <2>13, <2>14, <2>15, <2>16, <2>17 DEF LInv
<1> QED BY <1>2, <1>3

LEMMA Records ==
  ASSUME LInv, NEW p \in Openers, RecordVersion(p)
  PROVE  LInv'
<1> DEFINE v == Version(p)
           rest == opener[p].pending \ {v}
           state == IF rest = {} THEN [Closed EXCEPT !.at = "checking"]
                    ELSE [at |-> "migrating", pending |-> rest, step |-> 1]
<1>1. /\ TypeInv /\ LedgerInv /\ Level \in Nat
      /\ Migrating(p) /\ Owner(p) /\ opener[p].at = "recording"
      /\ UNCHANGED executed
      /\ ledger' = ledger \cup {v}
      /\ Move(p, state)
  BY DEF LInv, LedgerInv, RecordVersion, Migrating, Owner
<1>2. PICK n \in Nat : /\ opener[p].pending = v..n /\ v \in Nat \ {0} /\ v <= n
                       /\ 1..n \subseteq Numbered[p]
  BY <1>1 DEF LInv, PendingInv
<1>3. /\ v = Level + 1
      /\ ScriptOf(v) \subseteq executed
      /\ \A q \in Openers \ {p} : ~Owner(q)
  BY <1>1 DEF LInv, OwnerInv, OneOwner
<1>4. ledger' = 1..Level + 1 BY <1>1, <1>3 DEF LedgerInv
<1>5. Level' = Level + 1
  <2>1. LastOf(1..Level + 1) = Level + 1 BY <1>1, LastOfInterval
  <2> QED BY <2>1, <1>4 DEF Level, LastOf
<1>6. rest = v + 1..n BY <1>2
<1>7. /\ state \in State
      /\ state.at \in {"checking", "migrating"}
      /\ state.step = 1
      /\ state.at = "migrating" => rest # {} /\ state.pending = rest
  <2>1. CASE rest = {}
    <3>1. state = [Closed EXCEPT !.at = "checking"] BY <2>1
    <3> QED BY <3>1 DEF Closed, State, Places
  <2>2. CASE rest # {}
    <3>1. state = [at |-> "migrating", pending |-> rest, step |-> 1] BY <2>2
    <3>2. rest \in SUBSET Nat BY <1>2, <1>6
    <3> QED BY <2>2, <3>1, <3>2 DEF State, Places
  <2> QED BY <2>1, <2>2
<1> HIDE DEF state
<1>8. \A q \in Openers \ {p} :
        /\ opener'[q] = opener[q] /\ Migrating(q)' = Migrating(q)
        /\ Owner(q)' = Owner(q) /\ Version(q)' = Version(q)
  BY <1>1, <1>7, OthersStay
<1>9. opener' = [opener EXCEPT ![p] = state] BY <1>1 DEF Move
<1>10. opener'[p] = state BY <1>1, <1>9 DEF TypeInv
<1>11. \A q \in Openers : ~Owner(q)'
  BY <1>3, <1>7, <1>8, <1>10 DEF Owner, Migrating
<1>12. Migrating(p)' => /\ v + 1 <= n /\ opener'[p].pending = v + 1..n
                       /\ Version(p)' = v + 1
  <2> SUFFICES ASSUME Migrating(p)'
               PROVE  /\ v + 1 <= n /\ opener'[p].pending = v + 1..n
                      /\ Version(p)' = v + 1
    OBVIOUS
  <2>1. state.at = "migrating" BY <1>7, <1>10 DEF Migrating
  <2>2. rest # {} /\ opener'[p].pending = v + 1..n BY <2>1, <1>6, <1>7, <1>10
  <2>3. v + 1 <= n BY <2>2, <1>2, <1>6
  <2>4. Min(v + 1..n) = v + 1 BY <2>3, <1>2, MinOfInterval
  <2>5. Version(p)' = Min(opener'[p].pending) BY DEF Version
  <2> QED BY <2>2, <2>3, <2>4, <2>5
<1>13. TypeInv' BY <1>1, <1>7, <1>9 DEF TypeInv, State
<1>14. LedgerInv' BY <1>1, <1>4, <1>5 DEF LedgerInv
<1>15. PendingInv'
  <2> SUFFICES ASSUME NEW q \in Openers, Migrating(q)'
               PROVE  \E m \in Nat : /\ opener'[q].pending = Version(q)'..m
                                     /\ Version(q)' \in Nat \ {0}
                                     /\ Version(q)' <= m
                                     /\ Version(q)' <= Level' + 1
                                     /\ 1..m \subseteq Numbered[q]
    BY DEF PendingInv
  <2>1. CASE q = p BY <2>1, <1>1, <1>2, <1>3, <1>5, <1>12
  <2>2. CASE q # p
    <3>1. PICK m \in Nat : /\ opener[q].pending = Version(q)..m
                           /\ Version(q) \in Nat \ {0}
                           /\ Version(q) <= m
                           /\ Version(q) <= Level + 1
                           /\ 1..m \subseteq Numbered[q]
      BY <2>2, <1>8 DEF LInv, PendingInv
    <3> QED BY <2>2, <3>1, <1>1, <1>5, <1>8
  <2> QED BY <2>1, <2>2
<1>16. RanInv'
  <2>1. \A w \in ledger' : ScriptOf(w) \subseteq executed'
    BY <1>1, <1>3 DEF LInv, RanInv, ScriptOf
  <2>2. \A s \in executed' : s[1] <= Level' + 1
    <3> SUFFICES ASSUME NEW s \in executed PROVE s[1] <= Level + 1 + 1
      BY <1>1, <1>5
    <3>1. s[1] <= Level + 1 /\ s[1] \in Nat BY <1>1 DEF LInv, RanInv, TypeInv
    <3> QED BY <3>1, <1>1
  <2> QED BY <2>1, <2>2 DEF RanInv, ScriptOf
<1>17. StepInv'
  <2> SUFFICES ASSUME NEW q \in Openers, Migrating(q)'
               PROVE  opener'[q].step <= Statements[Version(q)']
    BY DEF StepInv
  <2>1. CASE q = p
    <3>1. v + 1 \in Numbered[p] BY <2>1, <1>2, <1>12
    <3>2. Statements[v + 1] \in Nat \ {0} BY <3>1, MigrationsAssumption
    <3> QED BY <2>1, <3>2, <1>7, <1>10, <1>12
  <2>2. CASE q # p BY <2>2, <1>8 DEF LInv, StepInv
  <2> QED BY <2>1, <2>2
<1>18. OwnerInv' BY <1>11 DEF OwnerInv
<1>19. OneOwner' BY <1>11 DEF OneOwner
<1> QED BY <1>13, <1>14, <1>15, <1>16, <1>17, <1>18, <1>19 DEF LInv

\* p dies, leaves, or compares the highest version with its own.
LEMMA Departs ==
  ASSUME LInv, NEW p \in Openers, CheckVersion(p) \/ Leave(p) \/ Dies(p)
  PROVE  LInv'
<1>1. UNCHANGED <<executed, ledger>> BY DEF CheckVersion, Leave, Dies
<1>2. \E place \in {"open", "failed", "closed"} :
        Move(p, [Closed EXCEPT !.at = place]) \/ Move(p, Closed)
  BY DEF CheckVersion, Leave, Dies
<1>3. {"open", "failed", "closed"} \subseteq Places BY DEF Places
<1> QED BY <1>1, <1>2, <1>3, ClosedIsState, Withdraws

LEMMA LInvInitially == MigrationsInit => LInv
<1> SUFFICES ASSUME MigrationsInit PROVE LInv OBVIOUS
<1>1. executed = {} /\ ledger = {} /\ opener = [p \in Openers |-> Closed]
  BY DEF MigrationsInit
<1>2. Level = 0 BY <1>1 DEF Level, LastOf
<1>3. \A p \in Openers : opener[p] = Closed /\ ~Migrating(p) /\ ~Owner(p)
  BY <1>1 DEF Closed, Migrating, Owner
<1>4. TypeInv BY <1>1 DEF TypeInv, Closed, Places
<1>5. LedgerInv BY <1>1, <1>2 DEF LedgerInv
<1>6. PendingInv /\ StepInv BY <1>3 DEF PendingInv, StepInv
<1>7. RanInv BY <1>1 DEF RanInv
<1>8. OwnerInv /\ OneOwner BY <1>3 DEF OwnerInv, OneOwner
<1> QED BY <1>4, <1>5, <1>6, <1>7, <1>8 DEF LInv

LEMMA LInvStep == LInv /\ [MigrationsNext]_migrationVars => LInv'
<1> SUFFICES ASSUME LInv, [MigrationsNext]_migrationVars PROVE LInv' OBVIOUS
<1>1. CASE UNCHANGED migrationVars
  <2>1. Level' = Level BY <1>1 DEF migrationVars, Level, LastOf
  <2> QED BY <1>1, <2>1 DEF migrationVars, LInv, TypeInv, LedgerInv, PendingInv, RanInv,
       StepInv, OwnerInv, OneOwner, Owner, Migrating, Version, ScriptOf
<1>2. ASSUME NEW p \in Openers, LookAtLedger(p) PROVE LInv' BY <1>2, Looks
<1>3. ASSUME NEW p \in Openers, RunStatement(p) PROVE LInv' BY <1>3, Runs
<1>4. ASSUME NEW p \in Openers, RecordVersion(p) PROVE LInv' BY <1>4, Records
<1>5. ASSUME NEW p \in Openers, CheckVersion(p) \/ Leave(p) \/ Dies(p) PROVE LInv'
  BY <1>5, Departs
<1> QED BY <1>1, <1>2, <1>3, <1>4, <1>5 DEF MigrationsNext

LEMMA LInvAlways == MigrationsSpec => []LInv
BY LInvInitially, LInvStep, PTL DEF MigrationsSpec

(***************************************************************************)
(* A version on record has been run to its last statement, on top of all   *)
(* below it, and what ran without being on record is of the next version   *)
(* (db.py, Database.migrate): whatever processes of whatever releases open *)
(* the file, in whatever order, and wherever they die.                     *)
(***************************************************************************)
THEOREM LedgerBelieved == MigrationsSpec => []LedgerMeansSchema
<1>1. LInv => LedgerMeansSchema BY DEF LInv, LedgerInv, RanInv, LedgerMeansSchema, Level
<1> QED BY <1>1, LInvAlways, PTL

-----------------------------------------------------------------------------
(***************************************************************************)
(* Why a file is refused.  While nobody died and nobody met another, what  *)
(* ran and is not on record is of the script of the one process that is    *)
(* still running it: nobody finds a statement of his run already.          *)
(***************************************************************************)
Reason(p) ==
  \/ deaths \/ overlapped
  \/ ~WellNumbered(p)
  \/ LastOf(ledger) > Expected[p]
  \/ LastOf(Numbered[p]) # Expected[p]

CheckedInv ==
  \A p \in Openers :
    opener[p].at = "checking" => WellNumbered(p) /\ Numbered[p] \subseteq ledger

KnownInv ==
  \A p \in Openers :
    Migrating(p) => WellNumbered(p) /\ Numbered[p] \subseteq ledger \cup opener[p].pending

\* s is a statement that p has run.
RunBy(p, s) ==
  /\ Migrating(p) /\ Version(p) = s[1]
  /\ opener[p].at = "recording" \/ s[2] < opener[p].step

AloneInv ==
  ~overlapped =>
    /\ \A p, q \in Openers : Migrating(p) /\ Migrating(q) => p = q
    /\ \A p \in Openers : Migrating(p) => Version(p) = Level + 1
    /\ ~deaths => \A s \in executed : s[1] \in ledger \/ \E p \in Openers : RunBy(p, s)

RefusedInv == \A p \in Openers : opener[p].at = "failed" => Reason(p)

CauseInv == CheckedInv /\ KnownInv /\ AloneInv /\ RefusedInv

\* p stops migrating, or goes on not migrating: the ledger and the statements
\* are as they were, and if p was migrating, it died or somebody overlapped.
LEMMA WithdrawsForCause ==
  ASSUME LInv, CauseInv, NEW p \in Openers,
         NEW place \in {"closed", "checking", "open", "failed"},
         Move(p, [Closed EXCEPT !.at = place]),
         UNCHANGED <<executed, ledger>>,
         deaths => deaths', overlapped => overlapped',
         Migrating(p) => deaths' \/ overlapped',
         place = "checking" => WellNumbered(p) /\ Numbered[p] \subseteq ledger,
         place = "failed" => Reason(p)'
  PROVE  CauseInv'
<1> DEFINE state == [Closed EXCEPT !.at = place]
<1>1. TypeInv BY DEF LInv
<1>2. place \in Places BY DEF Places
<1>3. state \in State /\ state.at = place BY <1>2, ClosedIsState
<1>4. opener'[p] = state BY <1>1, <1>3 DEF Move, TypeInv
<1>5. \A q \in Openers \ {p} :
        opener'[q] = opener[q] /\ Migrating(q)' = Migrating(q) /\ Version(q)' = Version(q)
  BY <1>1, <1>3, OthersStay
<1>6. opener'[p].at = place /\ ~Migrating(p)' BY <1>3, <1>4 DEF Migrating
<1>7. Level' = Level BY DEF Level, LastOf
<1>8. CheckedInv' BY <1>5, <1>6 DEF CauseInv, CheckedInv, WellNumbered
<1>9. KnownInv' BY <1>5, <1>6 DEF CauseInv, KnownInv, WellNumbered
<1>10. AloneInv'
  <2> SUFFICES ASSUME ~overlapped' PROVE AloneInv' BY DEF AloneInv
  <2>1. /\ \A a, b \in Openers : Migrating(a) /\ Migrating(b) => a = b
        /\ \A q \in Openers : Migrating(q) => Version(q) = Level + 1
        /\ ~deaths => \A s \in executed : s[1] \in ledger \/ \E q \in Openers : RunBy(q, s)
    BY DEF CauseInv, AloneInv
  <2>2. \A a, b \in Openers : Migrating(a)' /\ Migrating(b)' => a = b BY <2>1, <1>5, <1>6
  <2>3. \A q \in Openers : Migrating(q)' => Version(q)' = Level' + 1
    BY <2>1, <1>5, <1>6, <1>7
  <2>4. ASSUME ~deaths', NEW s \in executed', s[1] \notin ledger'
        PROVE  \E q \in Openers : RunBy(q, s)'
    <3>1. ~deaths /\ ~Migrating(p) BY <2>4
    <3>2. PICK q \in Openers : RunBy(q, s) BY <2>1, <2>4, <3>1
    <3>3. q # p BY <3>1, <3>2 DEF RunBy
    <3>4. RunBy(q, s)' BY <3>2, <3>3, <1>5 DEF RunBy
    <3> QED BY <3>4
  <2> QED BY <2>2, <2>3, <2>4 DEF AloneInv
<1>11. RefusedInv'
  <2> SUFFICES ASSUME NEW q \in Openers, opener'[q].at = "failed" PROVE Reason(q)'
    BY DEF RefusedInv
  <2>1. CASE q = p BY <2>1, <1>6
  <2>2. CASE q # p
    <3>1. Reason(q) BY <2>2, <1>5 DEF CauseInv, RefusedInv
    <3> QED BY <3>1 DEF Reason, WellNumbered, LastOf
  <2> QED BY <2>1, <2>2
<1> QED BY <1>8, <1>9, <1>10, <1>11 DEF CauseInv

\* What p finds pending begins with the version after the highest on record.
LEMMA LooksForCause ==
  ASSUME LInv, CauseInv, NEW p \in Openers, LookAtLedger(p)
  PROVE  CauseInv'
<1> DEFINE pending == Numbered[p] \ ledger
           state == [at |-> "migrating", pending |-> pending, step |-> 1]
<1>1. /\ UNCHANGED <<executed, ledger, deaths>>
      /\ overlapped' = (overlapped \/ \E q \in Openers \ {p} : Migrating(q))
      /\ opener[p].at = "closed"
      /\ ~Migrating(p)
  BY DEF LookAtLedger, Migrating
<1>2. CASE ~WellNumbered(p)
  <2>1. Move(p, [Closed EXCEPT !.at = "failed"]) BY <1>2 DEF LookAtLedger
  <2>2. Reason(p)' BY <1>2 DEF Reason, WellNumbered
  <2> QED BY <1>1, <2>1, <2>2, WithdrawsForCause
<1>3. CASE WellNumbered(p) /\ pending = {}
  <2>1. Move(p, [Closed EXCEPT !.at = "checking"]) BY <1>3 DEF LookAtLedger
  <2>2. Numbered[p] \subseteq ledger BY <1>3
  <2> QED BY <1>1, <1>3, <2>1, <2>2, WithdrawsForCause
<1>4. CASE WellNumbered(p) /\ pending # {}
  <2>1. LedgerInv /\ TypeInv /\ Level \in Nat BY DEF LInv, LedgerInv
  <2>2. PICK n \in Nat : pending = Level + 1..n /\ Level + 1 <= n
    BY <1>4, <2>1, PendingAfterLevel
  <2>3. state \in State BY <2>1, <2>2 DEF State, Places
  <2>4. Move(p, state) BY <1>4 DEF LookAtLedger
  <2>5. \A q \in Openers \ {p} :
          opener'[q] = opener[q] /\ Migrating(q)' = Migrating(q) /\ Version(q)' = Version(q)
    BY <2>1, <2>3, <2>4, OthersStay
  <2>6. opener'[p] = state BY <2>1, <2>4 DEF Move, TypeInv
  <2>7. Version(p)' = Level + 1
    <3>1. Version(p)' = Min(pending) BY <2>6 DEF Version
    <3>2. Min(Level + 1..n) = Level + 1 BY <2>1, <2>2, MinOfInterval
    <3> QED BY <3>1, <3>2, <2>2
  <2>8. Level' = Level BY <1>1 DEF Level, LastOf
  <2>9. CheckedInv' BY <1>1, <2>5, <2>6 DEF CauseInv, CheckedInv, WellNumbered
  <2>10. KnownInv' BY <1>1, <1>4, <2>5, <2>6 DEF CauseInv, KnownInv, WellNumbered
  <2>11. AloneInv'
    <3> SUFFICES ASSUME ~overlapped' PROVE AloneInv' BY DEF AloneInv
    <3>1. ~overlapped /\ \A q \in Openers : ~Migrating(q) BY <1>1
    <3>2. \A q \in Openers : Migrating(q)' => q = p BY <3>1, <2>5
    <3>3. ASSUME ~deaths', NEW s \in executed' PROVE s[1] \in ledger'
      <4>1. \A q \in Openers : ~RunBy(q, s) BY <3>1 DEF RunBy
      <4> QED BY <4>1, <3>1, <3>3, <1>1 DEF CauseInv, AloneInv
    <3> QED BY <3>2, <3>3, <2>7, <2>8 DEF AloneInv
  <2>12. RefusedInv'
    <3> SUFFICES ASSUME NEW q \in Openers, opener'[q].at = "failed" PROVE Reason(q)'
      BY DEF RefusedInv
    <3>1. q # p BY <2>6
    <3>2. Reason(q) BY <3>1, <2>5 DEF CauseInv, RefusedInv
    <3> QED BY <3>2, <1>1 DEF Reason, WellNumbered, LastOf
  <2> QED BY <2>9, <2>10, <2>11, <2>12 DEF CauseInv
<1> QED BY <1>2, <1>3, <1>4

LEMMA RunsForCause ==
  ASSUME LInv, CauseInv, NEW p \in Openers, RunStatement(p)
  PROVE  CauseInv'
<1> DEFINE v == Version(p)
           k == opener[p].step
           s0 == <<v, k>>
<1>1. /\ UNCHANGED <<ledger, deaths, overlapped>>
      /\ opener[p].at = "migrating" /\ Migrating(p)
      /\ LedgerInv /\ TypeInv
  BY DEF RunStatement, Migrating, LInv
<1>2. /\ Level \in Nat /\ v \in Nat \ {0} /\ Statements[v] \in Nat \ {0}
      /\ k \in 1..Statements[v]
  BY <1>1, WorkingOn
<1>3. CASE s0 \in executed
  <2>1. Move(p, [Closed EXCEPT !.at = "failed"]) /\ UNCHANGED executed
    BY <1>3 DEF RunStatement
  <2>2. deaths \/ overlapped
    <3> SUFFICES ASSUME ~deaths, ~overlapped PROVE FALSE OBVIOUS
    <3>1. v = Level + 1 BY <1>1 DEF CauseInv, AloneInv
    <3>2. s0[1] \notin ledger BY <3>1, <1>1, <1>2 DEF LedgerInv
    <3>3. PICK q \in Openers : RunBy(q, s0) BY <1>3, <3>2 DEF CauseInv, AloneInv
    <3>4. q = p BY <3>3, <1>1 DEF CauseInv, AloneInv, RunBy
    <3> QED BY <3>3, <3>4, <1>1, <1>2 DEF RunBy
  <2>3. deaths' \/ overlapped' BY <2>2, <1>1
  <2>4. Reason(p)' BY <2>3 DEF Reason
  <2> QED BY <1>1, <2>1, <2>3, <2>4, WithdrawsForCause
<1>4. CASE s0 \notin executed
  <2> DEFINE state == IF k = Statements[v] THEN [opener[p] EXCEPT !.at = "recording"]
                      ELSE [opener[p] EXCEPT !.step = @ + 1]
  <2>1. executed' = executed \cup {s0} /\ Move(p, state) BY <1>4 DEF RunStatement
  <2>2. opener[p] \in State BY <1>1 DEF TypeInv, State
  <2>3. /\ state \in State
        /\ state.pending = opener[p].pending
        /\ state.at \in {"migrating", "recording"}
        /\ state.at = "recording" \/ state.step = k + 1
    <3>1. CASE k = Statements[v]
      <4>1. state = [opener[p] EXCEPT !.at = "recording"] BY <3>1
      <4> QED BY <4>1, <2>2 DEF State, Places
    <3>2. CASE k # Statements[v]
      <4>1. state = [opener[p] EXCEPT !.step = k + 1] BY <3>2
      <4> QED BY <4>1, <1>1, <1>2, <2>2 DEF State, Places
    <3> QED BY <3>1, <3>2
  <2> HIDE DEF state
  <2>4. \A q \in Openers \ {p} :
          opener'[q] = opener[q] /\ Migrating(q)' = Migrating(q) /\ Version(q)' = Version(q)
    BY <1>1, <2>1, <2>3, OthersStay
  <2>5. opener'[p] = state BY <1>1, <2>1 DEF Move, TypeInv
  <2>6. Migrating(p)' /\ Version(p)' = v /\ opener'[p].pending = opener[p].pending
    BY <2>3, <2>5 DEF Migrating, Version
  <2>7. Level' = Level BY <1>1 DEF Level, LastOf
  <2>8. CheckedInv' BY <1>1, <2>3, <2>4, <2>5 DEF CauseInv, CheckedInv, WellNumbered
  <2>9. KnownInv'
    <3> SUFFICES ASSUME NEW q \in Openers, Migrating(q)'
                 PROVE  /\ WellNumbered(q)
                        /\ Numbered[q] \subseteq ledger' \cup opener'[q].pending
      BY DEF KnownInv, WellNumbered
    <3>1. Migrating(q) /\ opener'[q].pending = opener[q].pending BY <1>1, <2>4, <2>6
    <3> QED BY <3>1, <1>1 DEF CauseInv, KnownInv
  <2>10. AloneInv'
    <3> SUFFICES ASSUME ~overlapped' PROVE AloneInv' BY DEF AloneInv
    <3>1. /\ \A a, b \in Openers : Migrating(a) /\ Migrating(b) => a = b
          /\ \A q \in Openers : Migrating(q) => Version(q) = Level + 1
          /\ ~deaths => \A s \in executed : s[1] \in ledger \/ \E q \in Openers : RunBy(q, s)
      BY <1>1 DEF CauseInv, AloneInv
    <3>2. \A q \in Openers : Migrating(q)' => q = p BY <3>1, <1>1, <2>4
    <3>3. ASSUME ~deaths', NEW s \in executed', s[1] \notin ledger' PROVE RunBy(p, s)'
      <4>1. CASE s = s0
        <5>1. s[1] = v /\ s[2] = k BY <4>1
        <5>2. opener'[p].at = "recording" \/ s[2] < opener'[p].step
          BY <5>1, <1>2, <2>3, <2>5
        <5> QED BY <5>1, <5>2, <2>6 DEF RunBy
      <4>2. CASE s # s0
        <5>1. PICK q \in Openers : RunBy(q, s) BY <4>2, <3>1, <3>3, <1>1, <2>1
        <5>2. q = p BY <5>1, <3>1, <1>1 DEF RunBy
        <5>3. s[1] = v /\ s[2] < k BY <5>1, <5>2, <1>1 DEF RunBy
        <5>4. s[2] \in Nat
          <6>1. s \in Nat \X Nat BY <4>2, <2>1, <1>1 DEF TypeInv
          <6> QED BY <6>1
        <5>5. opener'[p].at = "recording" \/ s[2] < opener'[p].step
          BY <5>3, <5>4, <1>2, <2>3, <2>5
        <5> QED BY <5>3, <5>5, <2>6 DEF RunBy
      <4> QED BY <4>1, <4>2
    <3>4. Version(p)' = Level' + 1 BY <3>1, <1>1, <2>6, <2>7
    <3> QED BY <3>2, <3>3, <3>4 DEF AloneInv
  <2>11. RefusedInv'
    <3> SUFFICES ASSUME NEW q \in Openers, opener'[q].at = "failed" PROVE Reason(q)'
      BY DEF RefusedInv
    <3>1. q # p BY <2>3, <2>5
    <3>2. Reason(q) BY <3>1, <2>4 DEF CauseInv, RefusedInv
    <3> QED BY <3>2, <1>1 DEF Reason, WellNumbered, LastOf
  <2> QED BY <2>8, <2>9, <2>10, <2>11 DEF CauseInv
<1> QED BY <1>3, <1>4

LEMMA RecordsForCause ==
  ASSUME LInv, CauseInv, NEW p \in Openers, RecordVersion(p)
  PROVE  CauseInv'
<1> DEFINE v == Version(p)
           rest == opener[p].pending \ {v}
           state == IF rest = {} THEN [Closed EXCEPT !.at = "checking"]
                    ELSE [at |-> "migrating", pending |-> rest, step |-> 1]
<1>1. /\ TypeInv /\ LedgerInv /\ Level \in Nat
      /\ Migrating(p) /\ Owner(p) /\ opener[p].at = "recording"
      /\ UNCHANGED <<executed, deaths, overlapped>>
      /\ ledger' = ledger \cup {v}
      /\ Move(p, state)
  BY DEF LInv, LedgerInv, RecordVersion, Migrating, Owner
<1>2. PICK n \in Nat : opener[p].pending = v..n /\ v \in Nat \ {0} /\ v <= n
  BY <1>1 DEF LInv, PendingInv
<1>3. v = Level + 1 BY <1>1 DEF LInv, OwnerInv
<1>4. ledger' = 1..Level + 1 BY <1>1, <1>3 DEF LedgerInv
<1>5. Level' = Level + 1
  <2>1. LastOf(1..Level + 1) = Level + 1 BY <1>1, LastOfInterval
  <2> QED BY <2>1, <1>4 DEF Level, LastOf
<1>6. rest = v + 1..n BY <1>2
<1>7. /\ state \in State
      /\ \/ state.at = "checking" /\ rest = {}
         \/ state.at = "migrating" /\ rest # {} /\ state.pending = rest
  <2>1. CASE rest = {}
    <3>1. state = [Closed EXCEPT !.at = "checking"] BY <2>1
    <3> QED BY <2>1, <3>1 DEF Closed, State, Places
  <2>2. CASE rest # {}
    <3>1. state = [at |-> "migrating", pending |-> rest, step |-> 1] BY <2>2
    <3>2. rest \in SUBSET Nat BY <1>2, <1>6
    <3> QED BY <2>2, <3>1, <3>2 DEF State, Places
  <2> QED BY <2>1, <2>2
<1> HIDE DEF state
<1>8. \A q \in Openers \ {p} :
        opener'[q] = opener[q] /\ Migrating(q)' = Migrating(q) /\ Version(q)' = Version(q)
  BY <1>1, <1>7, OthersStay
<1>9. opener'[p] = state BY <1>1 DEF Move, TypeInv
<1>10. WellNumbered(p) /\ Numbered[p] \subseteq ledger' \cup rest
  BY <1>1 DEF CauseInv, KnownInv
<1>11. CheckedInv' BY <1>1, <1>7, <1>8, <1>9, <1>10 DEF CauseInv, CheckedInv, WellNumbered
<1>12. KnownInv'
  <2> SUFFICES ASSUME NEW q \in Openers, Migrating(q)'
               PROVE  /\ WellNumbered(q)
                      /\ Numbered[q] \subseteq ledger' \cup opener'[q].pending
    BY DEF KnownInv, WellNumbered
  <2>1. CASE q = p BY <2>1, <1>7, <1>9, <1>10 DEF Migrating
  <2>2. CASE q # p BY <2>2, <1>1, <1>8 DEF CauseInv, KnownInv
  <2> QED BY <2>1, <2>2
<1>13. AloneInv'
  <2> SUFFICES ASSUME ~overlapped' PROVE AloneInv' BY DEF AloneInv
  <2>1. /\ \A a, b \in Openers : Migrating(a) /\ Migrating(b) => a = b
        /\ ~deaths => \A s \in executed : s[1] \in ledger \/ \E q \in Openers : RunBy(q, s)
    BY <1>1 DEF CauseInv, AloneInv
  <2>2. \A q \in Openers : Migrating(q)' => q = p BY <2>1, <1>1, <1>8
  <2>3. Migrating(p)' => Version(p)' = Level' + 1
    <3> SUFFICES ASSUME Migrating(p)' PROVE Version(p)' = Level' + 1 OBVIOUS
    <3>1. rest # {} /\ opener'[p].pending = v + 1..n BY <1>6, <1>7, <1>9 DEF Migrating
    <3>2. v + 1 <= n BY <3>1, <1>2, <1>6
    <3>3. Min(v + 1..n) = v + 1 BY <3>2, <1>2, MinOfInterval
    <3>4. Version(p)' = Min(opener'[p].pending) BY DEF Version
    <3> QED BY <3>1, <3>3, <3>4, <1>3, <1>5
  <2>4. ASSUME ~deaths', NEW s \in executed' PROVE s[1] \in ledger'
    <3>1. CASE s[1] \in ledger BY <3>1, <1>1
    <3>2. CASE s[1] \notin ledger
      <4>1. PICK q \in Openers : RunBy(q, s) BY <3>2, <2>1, <2>4, <1>1
      <4>2. q = p BY <4>1, <2>1, <1>1 DEF RunBy
      <4> QED BY <4>1, <4>2, <1>1 DEF RunBy
    <3> QED BY <3>1, <3>2
  <2> QED BY <2>2, <2>3, <2>4 DEF AloneInv
<1>14. RefusedInv'
  <2> SUFFICES ASSUME NEW q \in Openers, opener'[q].at = "failed" PROVE Reason(q)'
    BY DEF RefusedInv
  <2>1. q # p BY <1>7, <1>9
  <2>2. Reason(q) BY <2>1, <1>8 DEF CauseInv, RefusedInv
  <2>3. Level > Expected[q] => Level' > Expected[q] BY <1>1, <1>5, MigrationsAssumption
  <2> QED BY <2>2, <2>3, <1>1 DEF Reason, WellNumbered, Level, LastOf
<1> QED BY <1>11, <1>12, <1>13, <1>14 DEF CauseInv

\* A process that finds its scripts on record and another highest version than
\* its own met a newer release, or has not the scripts of its own version.
LEMMA ChecksForCause ==
  ASSUME LInv, CauseInv, NEW p \in Openers, CheckVersion(p)
  PROVE  CauseInv'
<1>1. /\ UNCHANGED <<executed, ledger, deaths, overlapped>>
      /\ opener[p].at = "checking" /\ ~Migrating(p)
  BY DEF CheckVersion, Migrating
<1>2. CASE LastOf(ledger) = Expected[p]
  <2>1. Move(p, [Closed EXCEPT !.at = "open"]) BY <1>2 DEF CheckVersion
  <2> QED BY <1>1, <2>1, WithdrawsForCause
<1>3. CASE LastOf(ledger) # Expected[p]
  <2> DEFINE n == Cardinality(Numbered[p])
  <2>1. Move(p, [Closed EXCEPT !.at = "failed"]) BY <1>3 DEF CheckVersion
  <2>2. n \in Nat /\ Expected[p] \in Nat BY FS_CardinalityType, MigrationsAssumption
  <2>3. Numbered[p] = 1..n /\ Numbered[p] \subseteq ledger
    BY <1>1 DEF CauseInv, CheckedInv, WellNumbered
  <2>4. Level \in Nat /\ ledger = 1..Level BY DEF LInv, LedgerInv
  <2>5. n <= Level
    <3>1. CASE n = 0 BY <3>1, <2>4
    <3>2. CASE n # 0
      <4>1. n \in 1..Level BY <3>2, <2>2, <2>3, <2>4
      <4> QED BY <4>1, <2>4
    <3> QED BY <3>1, <3>2
  <2>6. LastOf(Numbered[p]) = n BY <2>2, <2>3, LastOfInterval
  <2>7. Level > Expected[p] \/ LastOf(Numbered[p]) # Expected[p]
    <3>1. Level # Expected[p] BY <1>3 DEF Level
    <3> QED BY <3>1, <2>2, <2>4, <2>5, <2>6
  <2>8. Level' = Level BY <1>1 DEF Level, LastOf
  <2>9. Reason(p)' BY <2>7, <2>8 DEF Reason, Level
  <2> QED BY <1>1, <2>1, <2>9, WithdrawsForCause
<1> QED BY <1>2, <1>3

LEMMA LeavesForCause ==
  ASSUME LInv, CauseInv, NEW p \in Openers, Leave(p) \/ Dies(p)
  PROVE  CauseInv'
<1>1. Closed = [Closed EXCEPT !.at = "closed"] BY DEF Closed
<1>2. Move(p, [Closed EXCEPT !.at = "closed"]) /\ UNCHANGED <<executed, ledger, overlapped>>
  BY <1>1 DEF Leave, Dies
<1>3. (deaths => deaths') /\ (Migrating(p) => deaths')
  <2>1. CASE Leave(p)
    <3>1. ~Migrating(p) BY <2>1 DEF Leave, Migrating
    <3> QED BY <2>1, <3>1 DEF Leave
  <2>2. CASE Dies(p) BY <2>2, Zenon DEF Dies
  <2> QED BY <2>1, <2>2
<1> QED BY <1>2, <1>3, WithdrawsForCause

LEMMA CauseInvStep == LInv /\ CauseInv /\ [MigrationsNext]_migrationVars => CauseInv'
<1> SUFFICES ASSUME LInv, CauseInv, [MigrationsNext]_migrationVars PROVE CauseInv' OBVIOUS
<1>1. CASE UNCHANGED migrationVars
  BY <1>1 DEF migrationVars, CauseInv, CheckedInv, KnownInv, AloneInv, RefusedInv, Reason,
     RunBy, Migrating, Version, WellNumbered, Level, LastOf
<1>2. ASSUME NEW p \in Openers, LookAtLedger(p) PROVE CauseInv' BY <1>2, LooksForCause
<1>3. ASSUME NEW p \in Openers, RunStatement(p) PROVE CauseInv' BY <1>3, RunsForCause
<1>4. ASSUME NEW p \in Openers, RecordVersion(p) PROVE CauseInv' BY <1>4, RecordsForCause
<1>5. ASSUME NEW p \in Openers, CheckVersion(p) PROVE CauseInv' BY <1>5, ChecksForCause
<1>6. ASSUME NEW p \in Openers, Leave(p) \/ Dies(p) PROVE CauseInv' BY <1>6, LeavesForCause
<1> QED BY <1>1, <1>2, <1>3, <1>4, <1>5, <1>6 DEF MigrationsNext

(***************************************************************************)
(* A file is refused only because it is of a newer release, or an older    *)
(* one lacks its scripts, or a process died or met another while it        *)
(* migrated (db.py, Database.migrate and the check of the version): as     *)
(* long as processes come one after the other and live, every one that has *)
(* the scripts of its version opens a file of that version or a lower one. *)
(***************************************************************************)
THEOREM RefusedWithReason == MigrationsSpec => []RefusedForCause
<1>1. MigrationsInit => CauseInv
  <2> SUFFICES ASSUME MigrationsInit PROVE CauseInv OBVIOUS
  <2>1. \A p \in Openers : opener[p] = Closed /\ ~Migrating(p)
    BY DEF MigrationsInit, Closed, Migrating
  <2> QED BY <2>1 DEF MigrationsInit, Closed, CauseInv, CheckedInv, KnownInv, AloneInv,
       RefusedInv
<1>2. CauseInv => RefusedForCause BY DEF CauseInv, RefusedInv, Reason, RefusedForCause
<1> QED BY <1>1, <1>2, CauseInvStep, LInvAlways, PTL DEF MigrationsSpec

-----------------------------------------------------------------------------
\* Every statement that took effect is of a script, and those before it took
\* effect as well.
RunInOrder ==
  /\ \A s \in executed : \E v \in DOMAIN Statements \ {0} : \E i \in 1..Statements[v] : s = <<v, i>>
  /\ \A v, i \in Nat : <<v, i>> \in executed => \A j \in 1..i : <<v, j>> \in executed

\* The statement that p runs, if it takes effect, is the next one of the next
\* version: all before it took effect.
LEMMA NextStatement ==
  ASSUME LInv, NEW p \in Openers, opener[p].at = "migrating",
         <<Version(p), opener[p].step>> \notin executed
  PROVE  /\ Version(p) \in DOMAIN Statements \ {0} /\ Version(p) \in Nat
         /\ opener[p].step \in 1..Statements[Version(p)] /\ Statements[Version(p)] \in Nat
         /\ Level \in Nat /\ Version(p) = Level + 1
         /\ \A i \in 1..opener[p].step - 1 : <<Version(p), i>> \in executed
<1> DEFINE v == Version(p)
           k == opener[p].step
<1>1. Migrating(p)
  BY DEF Migrating
<1>2. /\ Level \in Nat /\ v \in Numbered[p] /\ v \in Nat \ {0} /\ v <= Level + 1
      /\ Statements[v] \in Nat \ {0} /\ k \in 1..Statements[v]
  BY <1>1, WorkingOn
<1>3. v \in DOMAIN Statements
  BY <1>2, MigrationsAssumption
<1>4. v = Level + 1
  <2>1. SUFFICES ASSUME v <= Level PROVE FALSE
    BY <1>2
  <2>2. v \in ledger
    BY <1>2, <2>1 DEF LInv, LedgerInv
  <2>3. ScriptOf(v) \subseteq executed
    BY <2>2 DEF LInv, RanInv
  <2>4. <<v, k>> \in ScriptOf(v)
    BY <1>2 DEF ScriptOf
  <2> QED BY <2>3, <2>4
<1>5. \A i \in 1..k - 1 : <<v, i>> \in executed
  <2>1. CASE k > 1
    <3>1. Owner(p)
      BY <1>1, <2>1 DEF Owner
    <3> QED BY <3>1 DEF LInv, OwnerInv
  <2>2. CASE ~(k > 1)
    BY <1>2, <2>2
  <2> QED BY <2>1, <2>2
<1> QED BY <1>2, <1>3, <1>4, <1>5

\* Every step keeps the order of the statements.
LEMMA OrderStep == LInv /\ RunInOrder /\ [MigrationsNext]_migrationVars => RunInOrder'
<1> SUFFICES ASSUME LInv, RunInOrder, [MigrationsNext]_migrationVars PROVE RunInOrder'
  OBVIOUS
<1>1. CASE UNCHANGED executed
  BY <1>1 DEF RunInOrder
<1>2. ASSUME NEW p \in Openers, RunStatement(p), executed' # executed PROVE RunInOrder'
  <2> DEFINE v == Version(p)
             k == opener[p].step
  <2>1. /\ opener[p].at = "migrating" /\ <<v, k>> \notin executed
        /\ executed' = executed \cup {<<v, k>>}
    BY <1>2 DEF RunStatement
  <2>2. /\ v \in DOMAIN Statements \ {0} /\ v \in Nat /\ k \in 1..Statements[v] /\ Statements[v] \in Nat
        /\ \A i \in 1..k - 1 : <<v, i>> \in executed
    BY <2>1, NextStatement
  <2> HIDE DEF v, k
  <2>3. \A s \in executed' : \E u \in DOMAIN Statements \ {0} : \E i \in 1..Statements[u] : s = <<u, i>>
    BY <2>1, <2>2 DEF RunInOrder
  <2>4. ASSUME NEW u \in Nat, NEW i \in Nat, <<u, i>> \in executed', NEW j \in 1..i
        PROVE  <<u, j>> \in executed'
    <3>1. CASE <<u, i>> \in executed
      BY <2>1, <3>1 DEF RunInOrder
    <3>2. CASE <<u, i>> = <<v, k>>
      <4>1. u = v /\ i = k
        BY <3>2
      <4>2. j = k \/ j \in 1..k - 1
        BY <4>1, <2>2
      <4> QED BY <4>1, <4>2, <2>1, <2>2
    <3> QED BY <2>1, <2>4, <3>1, <3>2
  <2> QED BY <2>3, <2>4 DEF RunInOrder
<1> QED BY <1>1, <1>2 DEF MigrationsNext, LookAtLedger, RecordVersion, CheckVersion, Leave, Dies,
           migrationVars

\* What took effect of the versions on record are their whole scripts, and of
\* the next one the statements before the first that did not.
LEMMA FileIs ==
  ASSUME LInv, RunInOrder, NEW v \in Nat \ {0}, v = Level + 1, NEW k \in Nat \ {0},
         \A i \in 1..k - 1 : <<v, i>> \in executed,
         <<v, k>> \notin executed
  PROVE  executed = File!UpTo(v - 1) \cup {<<v, i>> : i \in 1..k - 1}
<1>1. Level \in Nat /\ ledger = 1..v - 1
  BY DEF LInv, LedgerInv
<1>2. File!UpTo(v - 1) = UNION {ScriptOf(u) : u \in 1..v - 1}
  BY DEF File!UpTo, File!Script, ScriptOf
<1>3. \A u \in 1..v - 1 : ScriptOf(u) \subseteq executed
  BY <1>1 DEF LInv, RanInv
<1>4. ASSUME NEW s \in executed
      PROVE  s \in (UNION {ScriptOf(u) : u \in 1..v - 1}) \cup {<<v, i>> : i \in 1..k - 1}
  <2>1. PICK u \in DOMAIN Statements \ {0} : \E i \in 1..Statements[u] : s = <<u, i>>
    BY DEF RunInOrder
  <2>2. PICK i \in 1..Statements[u] : s = <<u, i>>
    BY <2>1
  <2>3. s \in Nat \X Nat /\ s[1] = u /\ s[2] = i
    BY <2>2 DEF LInv, TypeInv
  <2>4. u \in Nat \ {0} /\ i \in Nat /\ i >= 1
    BY <2>2, <2>3
  <2>5. u <= v
    BY <2>3 DEF LInv, RanInv
  <2>6. CASE u = v
    <3>1. i < k
      <4>1. ASSUME i >= k PROVE FALSE
        <5>1. k \in 1..i
          BY <2>4, <4>1
        <5>2. <<v, i>> \in executed
          BY <2>2, <2>6
        <5> QED BY <2>4, <5>1, <5>2 DEF RunInOrder
      <4> QED BY <2>4, <4>1
    <3>2. i \in 1..k - 1
      BY <2>4, <3>1
    <3>3. s = <<v, i>>
      BY <2>2, <2>6
    <3>4. s \in {<<v, j>> : j \in 1..k - 1}
      BY <3>2, <3>3
    <3> QED BY <3>4
  <2>7. CASE u # v
    <3>1. u \in 1..v - 1
      BY <2>4, <2>5, <2>7
    <3>2. s \in ScriptOf(u)
      BY <2>2 DEF ScriptOf
    <3> QED BY <3>1, <3>2
  <2> QED BY <2>6, <2>7
<1> DEFINE whole == UNION {ScriptOf(u) : u \in 1..v - 1}
           part == {<<v, i>> : i \in 1..k - 1}
<1>5. whole \subseteq executed /\ part \subseteq executed /\ executed \subseteq whole \cup part
  BY <1>3, <1>4
<1> HIDE DEF whole, part
<1>6. executed = whole \cup part
  BY <1>5
<1> QED BY <1>2, <1>6 DEF whole, part

\* A step of any process is a step of the file, or none.
LEMMA FileStep ==
  LInv /\ RunInOrder /\ [MigrationsNext]_migrationVars => [File!Next]_<<executed, ledger>>
<1> SUFFICES ASSUME LInv, RunInOrder, [MigrationsNext]_migrationVars,
                    ~UNCHANGED <<executed, ledger>>
             PROVE  File!Next
  OBVIOUS
<1>1. ASSUME NEW p \in Openers, RunStatement(p) PROVE File!Next
  <2> DEFINE v == Version(p)
             k == opener[p].step
  <2>1. /\ opener[p].at = "migrating" /\ <<v, k>> \notin executed
        /\ executed' = executed \cup {<<v, k>>} /\ ledger' = ledger
    BY <1>1 DEF RunStatement
  <2>2. /\ v \in DOMAIN Statements \ {0} /\ v \in Nat /\ k \in 1..Statements[v] /\ Statements[v] \in Nat
        /\ Level \in Nat /\ v = Level + 1
        /\ \A i \in 1..k - 1 : <<v, i>> \in executed
    BY <2>1, NextStatement
  <2> HIDE DEF v, k
  <2>3. ledger = 1..v - 1
    BY <2>2 DEF LInv, LedgerInv
  <2>4. v \in Nat \ {0} /\ k \in Nat \ {0}
    BY <2>2
  <2>5. executed = File!UpTo(v - 1) \cup {<<v, i>> : i \in 1..k - 1}
    BY <2>1, <2>2, <2>4, FileIs
  <2>6. File!Run(v, k)
    BY <2>1, <2>3, <2>5 DEF File!Run
  <2> QED BY <2>2, <2>6 DEF File!Next
<1>2. ASSUME NEW p \in Openers, RecordVersion(p) PROVE File!Next
  <2> DEFINE v == Version(p)
             n == Statements[v]
  <2>1. /\ opener[p].at = "recording" /\ Migrating(p) /\ Owner(p)
        /\ ledger' = ledger \cup {v} /\ executed' = executed
    BY <1>2 DEF RecordVersion, Migrating, Owner
  <2>2. /\ Level \in Nat /\ v \in Numbered[p] /\ v \in Nat \ {0} /\ n \in Nat \ {0}
    BY <2>1, WorkingOn
  <2>3. v = Level + 1 /\ ScriptOf(v) \subseteq executed
    BY <2>1 DEF LInv, OwnerInv
  <2>4. v \in DOMAIN Statements
    BY <2>2, MigrationsAssumption
  <2>5. ledger = 1..v - 1
    BY <2>2, <2>3 DEF LInv, LedgerInv
  <2>6. ledger' = 1..v
    BY <2>1, <2>2, <2>5
  <2>7. <<v, n + 1>> \notin executed
    <3>1. SUFFICES ASSUME <<v, n + 1>> \in executed PROVE FALSE
      OBVIOUS
    <3>2. PICK u \in DOMAIN Statements \ {0} : \E i \in 1..Statements[u] : <<v, n + 1>> = <<u, i>>
      BY <3>1 DEF RunInOrder
    <3>3. u = v /\ n + 1 \in 1..n
      BY <3>2
    <3> QED BY <2>2, <3>3
  <2>8. \A i \in 1..n : <<v, i>> \in executed
    BY <2>3 DEF ScriptOf
  <2> HIDE DEF v
  <2>9. executed = File!UpTo(v - 1) \cup {<<v, i>> : i \in 1..n}
    <3> DEFINE k == n + 1
    <3>1. k \in Nat \ {0} /\ k - 1 = n
      BY <2>2
    <3> HIDE DEF k
    <3>2. <<v, k>> \notin executed
      BY <2>7 DEF k
    <3>3. executed = File!UpTo(v - 1) \cup {<<v, i>> : i \in 1..k - 1}
      BY <2>2, <2>3, <2>8, <3>1, <3>2, FileIs
    <3> QED BY <3>1, <3>3
  <2>10. File!UpTo(v) = File!UpTo(v - 1) \cup {<<v, i>> : i \in 1..n}
    <3>1. 1..v = (1..v - 1) \cup {v}
      BY <2>2
    <3> QED BY <3>1 DEF File!UpTo, File!Script
  <2>11. File!Record(v)
    BY <2>1, <2>5, <2>6, <2>9, <2>10 DEF File!Record
  <2> QED BY <2>2, <2>4, <2>11 DEF File!Next
<1> QED BY <1>1, <1>2 DEF MigrationsNext, LookAtLedger, CheckVersion, Leave, Dies, migrationVars

(***************************************************************************)
(* However many processes open the file at the same time, and wherever     *)
(* they die, in the middle of a script or between a script and its ledger  *)
(* row (db.py, Database.migrate; executescript commits each statement by   *)
(* itself): the file goes through the states of a single process that runs *)
(* each statement once, in order, and records each version when it is      *)
(* done.                                                                   *)
(***************************************************************************)
THEOREM OneAfterTheOther == MigrationsSpec => ScriptsInOrder
<1>1. MigrationsInit => RunInOrder /\ File!Init
  BY DEF MigrationsInit, RunInOrder, File!Init
<1> QED BY <1>1, LInvInitially, LInvStep, OrderStep, FileStep, PTL
        DEF MigrationsSpec, ScriptsInOrder, File!Spec

-----------------------------------------------------------------------------
(***************************************************************************)
(* The types of the commands.                                              *)
(***************************************************************************)
\* Recon starts with all the faults it may have, and nothing asked.
LEMMA ReconTypesStart == ReconInit => ReconTypeOK
<1> SUFFICES ASSUME ReconInit PROVE ReconTypeOK
  OBVIOUS
<1>1. /\ world \in Worlds /\ coded \in BOOLEAN /\ fight = FALSE /\ pc = "auth"
      /\ faults = MaxFaults /\ retry.attempt = 1 /\ DOMAIN asked = {} /\ written = NoReport
  BY DEF ReconInit
<1>2. MaxFaults \in Nat
  BY ReconAssumption
<1>3. faults \in 0..MaxFaults /\ retry.attempt \in 1..MaxAttempts
  BY <1>1, <1>2 DEF MaxAttempts
<1>4. DOMAIN asked \subseteq DOMAIN Wanted /\ written = IF pc = "done" THEN findings ELSE NoReport
  BY <1>1
<1> QED BY <1>1, <1>3, <1>4 DEF ReconTypeOK

\* What a sample of the events loses is finite, as the categories are.
LEMMA LostFinite ==
  ASSUME NEW lost \in SUBSET Labels
  PROVE  Cardinality(lost) \in Nat
<1>1. IsFiniteSet(Categories \cup {"Casts_enemies"})
  BY ReconAssumption, FS_AddElement
<1>2. lost \subseteq Categories \cup {"Casts_enemies"}
  BY DEF Labels, Sampled, If
<1>3. IsFiniteSet(lost)
  BY <1>1, <1>2, FS_Subset
<1> QED BY <1>3, FS_CardinalityType

\* A call that fails uses up a fault, and one that answers none.
LEMMA FaultsCounted ==
  ASSUME faults \in 0..MaxFaults, ReconNext
  PROVE  faults' \in 0..MaxFaults
<1>0. MaxFaults \in Nat /\ faults \in 0..MaxFaults
  BY ReconAssumption
<1>1. \A step : Fails(step) => faults' \in 0..MaxFaults
  <2>1. \A step : Fails(step) => faults > 0 /\ faults' = faults - 1
    BY DEF Fails
  <2>2. faults > 0 /\ faults' = faults - 1 => faults' \in 0..MaxFaults
    BY <1>0
  <2> QED BY <2>1, <2>2
<1>2. Answers => faults' \in 0..MaxFaults
  BY <1>0 DEF Answers
<1>3. \A step, selections : CallWith(step, selections) => faults' \in 0..MaxFaults
  BY <1>1 DEF CallWith
<1>4. CASE StepAuth \/ StepRateLimit \/ StepSchemaTypes \/ StepFieldVerification
  BY <1>1, <1>2, <1>4 DEF StepAuth, StepRateLimit, StepSchemaTypes, StepFieldVerification
<1>5. CASE StepDiscovery \/ StepZones \/ StepReportsProbe \/ StepReportMetadata
  BY <1>1, <1>2, <1>5 DEF StepDiscovery, StepZones, StepReportsProbe, StepReportMetadata,
     MetadataSkipped, MetadataUnanswered, MetadataRejected, MetadataAnswered
<1>6. CASE StepFights
  BY <1>2, <1>3, <1>6 DEF StepFights
<1>7. CASE StepMasterData
  BY <1>1, <1>2, <1>7 DEF StepMasterData
<1>8. CASE StepQueryCost
  BY <1>2, <1>3, <1>8 DEF StepQueryCost
<1>9. CASE StepDungeonPulls
  BY <1>2, <1>3, <1>9 DEF StepDungeonPulls
<1>10. CASE StepEventSamples
  <2>1. CASE Answers
    BY <1>2, <2>1
  <2>2. CASE \E lost \in SUBSET Labels : /\ Cardinality(lost) <= faults
                                         /\ faults' = faults - Cardinality(lost)
    <3>1. PICK lost \in SUBSET Labels : /\ Cardinality(lost) <= faults
                                        /\ faults' = faults - Cardinality(lost)
      BY <2>2
    <3>2. Cardinality(lost) \in Nat
      BY LostFinite
    <3> QED BY <1>0, <3>1, <3>2
  <2> QED BY <1>10, <2>1, <2>2 DEF StepEventSamples
<1>11. CASE StepPaginationProbe
  <2>1. CASE faults > 0 /\ faults' = faults - 1
    BY <1>0, <2>1
  <2>2. \A step : Fails(step) => faults > 0 /\ faults' = faults - 1
    BY DEF Fails
  <2> QED BY <1>2, <1>11, <2>1, <2>2 DEF StepPaginationProbe
<1>12. CASE SecondPageFails \/ IntrospectionFails
  BY <1>1, <1>12 DEF SecondPageFails, IntrospectionFails, Escapes
<1> QED BY <1>4, <1>5, <1>6, <1>7, <1>8, <1>9, <1>10, <1>11, <1>12 DEF ReconNext

\* A selection is asked of a type that is wanted, an attempt is one of three,
\* and nothing else of the run's own changes.
LEMMA AskedAndTried ==
  ASSUME ReconInv, ReconTypeOK, ReconNext
  PROVE  /\ coded' = coded /\ fight' \in BOOLEAN
         /\ retry'.attempt \in 1..MaxAttempts
         /\ DOMAIN asked' \subseteq DOMAIN Wanted
<1>1. /\ fight \in BOOLEAN /\ retry.attempt \in 1..MaxAttempts
      /\ DOMAIN asked \subseteq DOMAIN Wanted
  BY DEF ReconTypeOK
<1>2. \A a, t, s : DOMAIN With(a, t, s) = DOMAIN a \cup {t}
  BY DEF With
<1>3. {"Report", "ReportFight", "ReportDungeonPull", "ReportDungeonPullNPC"} \subseteq DOMAIN Wanted
  BY ReconAssumption
<1>4. CASE UNCHANGED <<coded, retry, asked, fight>>
  BY <1>1, <1>4
<1>5. StepAuth \/ StepRateLimit \/ StepSchemaTypes \/ StepFieldVerification
        => UNCHANGED <<coded, retry, asked, fight>>
  BY DEF StepAuth, StepRateLimit, StepSchemaTypes, StepFieldVerification
<1>6. StepDiscovery \/ StepZones \/ StepReportsProbe \/ MetadataSkipped \/ MetadataUnanswered
        => UNCHANGED <<coded, retry, asked, fight>>
  BY DEF StepDiscovery, StepZones, StepReportsProbe, MetadataSkipped, MetadataUnanswered
<1>7. StepMasterData \/ StepQueryCost \/ StepEventSamples \/ StepPaginationProbe
        => UNCHANGED <<coded, retry, asked, fight>>
  BY DEF StepMasterData, StepQueryCost, StepEventSamples, StepPaginationProbe
<1>8. SecondPageFails \/ IntrospectionFails => UNCHANGED <<coded, retry, asked, fight>>
  BY DEF SecondPageFails, IntrospectionFails, Escapes
<1>9. CASE MetadataRejected
  <2>1. UNCHANGED <<coded, asked, fight>> /\ pc = "report_metadata"
    BY <1>9 DEF MetadataRejected, Attempting
  <2>2. retry = [attempt |-> retry.attempt, excluded |-> retry.excluded]
    BY <2>1, Turns DEF ReconInv, Underway
  <2>3. PICK blamed :
          \/ retry' = [retry EXCEPT !.excluded = @ \cup blamed]
          \/ /\ retry.attempt # MaxAttempts
             /\ retry' = [attempt |-> retry.attempt + 1, excluded |-> retry.excluded \cup blamed]
    BY <1>9 DEF MetadataRejected
  <2>4. \/ retry'.attempt = retry.attempt
        \/ retry.attempt # MaxAttempts /\ retry'.attempt = retry.attempt + 1
    BY <2>2, <2>3
  <2>5. retry'.attempt \in 1..MaxAttempts
    BY <1>1, <2>4 DEF MaxAttempts
  <2> QED BY <1>1, <2>1, <2>5
<1>10. CASE MetadataAnswered
  <2>1. /\ UNCHANGED <<coded, fight, retry>>
        /\ asked' = With(asked, "Report", Selection("Report", retry.excluded))
    BY <1>10 DEF MetadataAnswered
  <2>2. DOMAIN asked' = DOMAIN asked \cup {"Report"}
    BY <1>2, <2>1, Zenon
  <2>3. DOMAIN asked' \subseteq DOMAIN Wanted
    BY <1>1, <1>3, <2>2
  <2> QED BY <1>1, <2>1, <2>3
<1>11. CASE StepFights
  <2>1. /\ UNCHANGED <<coded, retry>>
        /\ \/ UNCHANGED <<asked, fight>>
           \/ /\ fight' \in BOOLEAN
              /\ asked' = With(asked, "ReportFight", Selection("ReportFight", {}))
    BY <1>11 DEF StepFights
  <2>2. DOMAIN asked' \subseteq DOMAIN asked \cup {"ReportFight"}
    <3>1. asked' = asked \/ DOMAIN asked' = DOMAIN asked \cup {"ReportFight"}
      BY <1>2, <2>1, Zenon
    <3> QED BY <3>1
  <2>3. DOMAIN asked' \subseteq DOMAIN Wanted
    BY <1>1, <1>3, <2>2
  <2> QED BY <1>1, <2>1, <2>3
<1>12. CASE StepDungeonPulls
  <2>1. /\ UNCHANGED <<coded, retry, fight>>
        /\ \/ UNCHANGED asked
           \/ asked' = With(With(asked, "ReportDungeonPull", Selection("ReportDungeonPull", {})),
                            "ReportDungeonPullNPC", Selection("ReportDungeonPullNPC", {}))
    BY <1>12 DEF StepDungeonPulls
  <2>2. DOMAIN asked' \subseteq DOMAIN asked \cup {"ReportDungeonPull", "ReportDungeonPullNPC"}
    <3>1. CASE UNCHANGED asked
      BY <3>1
    <3>2. CASE ~UNCHANGED asked
      <4> DEFINE b == With(asked, "ReportDungeonPull", Selection("ReportDungeonPull", {}))
      <4>1. DOMAIN b = DOMAIN asked \cup {"ReportDungeonPull"}
        BY <1>2
      <4>2. DOMAIN asked' = DOMAIN b \cup {"ReportDungeonPullNPC"}
        <5>1. asked' = With(b, "ReportDungeonPullNPC", Selection("ReportDungeonPullNPC", {}))
          BY <2>1, <3>2
        <5> HIDE DEF b
        <5> QED BY <1>2, <5>1, Zenon
      <4> QED BY <4>1, <4>2
    <3> QED BY <3>1, <3>2
  <2>3. DOMAIN asked' \subseteq DOMAIN Wanted
    BY <1>1, <1>3, <2>2
  <2> QED BY <1>1, <2>1, <2>3
<1> QED BY <1>4, <1>5, <1>6, <1>7, <1>8, <1>9, <1>10, <1>11, <1>12 DEF ReconNext, StepReportMetadata

\* Every step of recon keeps the types.
LEMMA ReconTypesStep ==
  ReconInv /\ ReconInv' /\ ReconTypeOK /\ [ReconNext]_reconVars => ReconTypeOK'
<1> SUFFICES ASSUME ReconInv, ReconInv', ReconTypeOK, [ReconNext]_reconVars PROVE ReconTypeOK'
  OBVIOUS
<1>1. CASE ReconNext
  <2>1. /\ world' \in Worlds /\ written' = IF pc' = "done" THEN findings' ELSE NoReport
        /\ fight' => "ReportFight" \in DOMAIN asked'
    BY DEF ReconInv, FightKnown
  <2>2. faults' \in 0..MaxFaults
    BY <1>1, FaultsCounted DEF ReconTypeOK
  <2>3. /\ coded' = coded /\ fight' \in BOOLEAN /\ retry'.attempt \in 1..MaxAttempts
        /\ DOMAIN asked' \subseteq DOMAIN Wanted
    BY <1>1, AskedAndTried
  <2> QED BY <2>1, <2>2, <2>3 DEF ReconTypeOK
<1>2. CASE UNCHANGED reconVars
  BY <1>2 DEF ReconTypeOK, reconVars
<1> QED BY <1>1, <1>2

\* What a discovery writes is a season's, with a zone that was in the list or
\* pinned before.
LEMMA OverlayTyped ==
  ASSUME CatalogInv, CatalogTypeOK, NEW n \in Seasons, NEW basis
  PROVE  LET o == BuildOverlay(MatchZones(LiveZones(n), Registry.names, Registry.pinned), basis)
         IN /\ o.season \in Seasons
            /\ o.verified \in BOOLEAN
            /\ o.zone \in Seasons \cup {z.id : z \in OtherZones} \cup {NoZone}
<1> DEFINE zones == LiveZones(n)
           names == Registry.names
           pinned == Registry.pinned
           m == MatchZones(zones, names, pinned)
           o == BuildOverlay(m, basis)
           ids == Seasons \cup {z.id : z \in OtherZones} \cup {NoZone}
           agreed == {FirstMatch(zones, names[d]).zone : d \in SettledFirst(zones, names)}
<1>1. /\ o.season = Registry.season /\ o.zone = m.season
      /\ o.verified = (DOMAIN m.matched = DOMAIN names /\ m.unmatched = {})
  BY DEF BuildOverlay
<1>2. o.verified \in BOOLEAN
  <2> HIDE DEF o, m, names
  <2> QED BY <1>1
<1>3. Registry.season \in Seasons /\ Registry.pinned \in ids
  <2>1. /\ Registry.season = IF overlay = NoOverlay THEN authored ELSE overlay.season
        /\ Registry.pinned = IF overlay = NoOverlay THEN NoZone ELSE overlay.zone
    BY DEF Registry
  <2> QED BY <2>1, AuthoredIsSeason DEF CatalogTypeOK
<1>4. m.season = SeasonZone(zones, names, pinned)
  BY MatchIs
<1>5. \A z \in zones : z.id \in ids
  <2> SUFFICES ASSUME NEW z \in zones PROVE z.id \in ids
    OBVIOUS
  <2>1. z \in OtherZones \/ z.id \in Seasons
    BY LiveZone
  <2> QED BY <2>1
<1>6. \A d \in SettledFirst(zones, names) : FirstMatch(zones, names[d]).zone \in ids
  <2> SUFFICES ASSUME NEW d \in SettledFirst(zones, names)
               PROVE  FirstMatch(zones, names[d]).zone \in ids
    OBVIOUS
  <2>1. \/ \E h \in EncounterHits(zones, names[d]) : FirstMatch(zones, names[d]) = AsEncounter(h)
        \/ \E z \in ZoneHits(zones, names[d]) : FirstMatch(zones, names[d]) = AsZone(zones, z)
    BY FirstIs
  <2>2. \A h \in EncounterHits(zones, names[d]) : \E z \in zones : AsEncounter(h).zone = z.id
    BY DEF EncounterHits, AsEncounter
  <2>3. \A i \in ZoneHits(zones, names[d]) : \E z \in zones : AsZone(zones, i).zone = z.id
    BY DEF ZoneHits, AsZone
  <2> HIDE DEF ids, zones, names
  <2> QED BY <2>1, <2>2, <2>3, <1>5
<1>7. SeasonZone(zones, names, pinned) \in ids
  <2>1. CASE pinned # NoZone
    BY <2>1, <1>3 DEF SeasonZone
  <2>2. CASE pinned = NoZone /\ Cardinality(agreed) = 1
    <3>1. agreed # {} /\ agreed \subseteq ids
      BY <1>6, <2>2, TheOnlyOne
    <3>2. (CHOOSE z \in agreed : TRUE) \in ids
      <4> HIDE DEF agreed, ids
      <4> QED BY <3>1
    <3> QED BY <2>2, <3>2 DEF SeasonZone
  <2>3. CASE pinned = NoZone /\ Cardinality(agreed) # 1
    BY <2>3 DEF SeasonZone
  <2> QED BY <2>1, <2>2, <2>3
<1> QED BY <1>1, <1>2, <1>3, <1>4, <1>7

\* Every step of the catalogue keeps the types.
LEMMA CatalogTypesStep ==
  CatalogInv /\ CatalogInv' /\ CatalogTypeOK /\ [CatalogNext]_catalogVars => CatalogTypeOK'
<1> SUFFICES ASSUME CatalogInv, CatalogInv', CatalogTypeOK, [CatalogNext]_catalogVars
             PROVE  CatalogTypeOK'
  OBVIOUS
<1> DEFINE Typed(o) == /\ o.season \in Seasons
                       /\ o.verified \in BOOLEAN
                       /\ o.zone \in Seasons \cup {z.id : z \in OtherZones} \cup {NoZone}
<1>1. overlay # NoOverlay => Typed(overlay)
  BY DEF CatalogTypeOK
<1>2. overlay' # NoOverlay => Typed(overlay')
  <2>1. CASE UNCHANGED overlay
    BY <1>1, <2>1
  <2>2. CASE overlay' = NoOverlay
    BY <2>2
  <2>3. ASSUME NEW r \in Requests, DiscoverDungeons(r), overlay' # overlay
        PROVE  Typed(overlay')
    <3>1. PICK n \in Seasons : FetchZones(r) = LiveZones(n)
      BY ZonesFetched
    <3>2. \E basis : overlay' = BuildOverlay(MatchZones(LiveZones(n), Registry.names,
                                                        Registry.pinned), basis)
      BY <2>3, <3>1 DEF DiscoverDungeons
    <3> HIDE DEF Typed
    <3> QED BY <3>2, OverlayTyped DEF Typed
  <2> QED BY <2>1, <2>2, <2>3 DEF CatalogNext, SeasonOpens, AuthorSeason, DeleteOverlay,
             EmptyCache, catalogVars
<1>3. /\ opened' \in Seasons /\ authored' \in 1..opened'
      /\ \A r \in Requests : answers'[r] = NoAnswer \/ \E s \in Seasons : answers'[r] = LiveZones(s)
      /\ overlay' # NoOverlay => DOMAIN overlay'.entries \subseteq Dungeons
  BY DEF CatalogInv, OverlayInv
<1> QED BY <1>2, <1>3 DEF CatalogTypeOK

\* The catalogue starts in the first season, with nothing written.
LEMMA CatalogStarts == CatalogInit => CatalogInv /\ CatalogTypeOK
BY SeasonsNumbered DEF CatalogInit, CatalogInv, CatalogTypeOK

-----------------------------------------------------------------------------
\* What is executed or on record is of the scripts, and a process that migrates
\* has something to do.
LEMMA MigrationTypesStep ==
  LInv /\ LInv' /\ MigrationsTypeOK /\ [MigrationsNext]_migrationVars => MigrationsTypeOK'
<1> SUFFICES ASSUME LInv, LInv', MigrationsTypeOK, [MigrationsNext]_migrationVars
             PROVE  MigrationsTypeOK'
  OBVIOUS
<1> DEFINE all == UNION {ScriptOf(v) : v \in DOMAIN Statements}
<1>1. ASSUME NEW p \in Openers, Migrating(p)
      PROVE  Version(p) \in DOMAIN Statements /\ <<Version(p), opener[p].step>> \in all
  <2>1. /\ Version(p) \in Numbered[p] /\ opener[p].step \in 1..Statements[Version(p)]
    BY <1>1, WorkingOn
  <2>2. Version(p) \in DOMAIN Statements
    BY <2>1, MigrationsAssumption
  <2>3. <<Version(p), opener[p].step>> \in ScriptOf(Version(p))
    BY <2>1 DEF ScriptOf
  <2> QED BY <2>2, <2>3
<1>2. executed' \subseteq all /\ ledger' \subseteq DOMAIN Statements
  <2>1. executed \subseteq all /\ ledger \subseteq DOMAIN Statements
    BY DEF MigrationsTypeOK
  <2>2. CASE UNCHANGED <<executed, ledger>>
    BY <2>1, <2>2
  <2>3. ASSUME NEW p \in Openers, RunStatement(p) PROVE executed' \subseteq all /\ ledger' = ledger
    <3>1. /\ Migrating(p) /\ ledger' = ledger
          /\ executed' = executed \/ executed' = executed \cup {<<Version(p), opener[p].step>>}
      BY <2>3 DEF RunStatement, Migrating
    <3> QED BY <3>1, <1>1, <2>1
  <2>4. ASSUME NEW p \in Openers, RecordVersion(p)
        PROVE  ledger' \subseteq DOMAIN Statements /\ executed' = executed
    <3>1. Migrating(p) /\ ledger' = ledger \cup {Version(p)} /\ executed' = executed
      BY <2>4 DEF RecordVersion, Migrating
    <3> QED BY <3>1, <1>1, <2>1
  <2>5. CASE \E p \in Openers : LookAtLedger(p) \/ CheckVersion(p) \/ Leave(p) \/ Dies(p)
    <3>1. UNCHANGED <<executed, ledger>>
      BY <2>5 DEF LookAtLedger, CheckVersion, Leave, Dies
    <3> QED BY <3>1, <2>2
  <2> HIDE DEF all
  <2> QED BY <2>1, <2>2, <2>3, <2>4, <2>5 DEF MigrationsNext, migrationVars
<1>3. ASSUME NEW p \in Openers, Migrating(p)' PROVE opener'[p].pending # {}
  <2>1. \E n \in Nat : /\ opener'[p].pending = Version(p)'..n
                       /\ Version(p)' \in Nat \ {0}
                       /\ Version(p)' <= n
    BY <1>3 DEF LInv, PendingInv
  <2> QED BY <2>1
<1> QED BY <1>2, <1>3 DEF MigrationsTypeOK

\* A new file has run nothing, and nobody has opened it.
LEMMA MigrationTypesStart == MigrationsInit => MigrationsTypeOK
BY DEF MigrationsInit, MigrationsTypeOK, Migrating, Closed

-----------------------------------------------------------------------------
\* A probe that has asked for nothing is in its cap.
LEMMA NewInCap ==
  ASSUME MaxPages \in Nat, PageLimit \in Nat
  PROVE  NewProbe.pages <= MaxPages /\ NewProbe.events <= NewProbe.pages * PageLimit
<1>1. NewProbe.pages = 0 /\ NewProbe.events = 0
  BY DEF NewProbe
<1>2. 0 <= MaxPages /\ 0 <= 0 * PageLimit
  OBVIOUS
<1> QED BY <1>1, <1>2

\* The commands start with all of their reports to come.
LEMMA ProbesTypesStart == ProbesInit => ProbesTypeOK
<1> SUFFICES ASSUME ProbesInit PROVE ProbesTypeOK
  OBVIOUS
<1>1. /\ server \in Servers /\ phase = "fights" /\ measured = <<>> /\ output = NotMeasured
      /\ left = IF command = "benchmark" THEN Reports ELSE 1
      /\ probe = NewProbe
  BY DEF ProbesInit
<1>2. {Reports, MaxPages, PageLimit} \subseteq Nat
  BY ProbesAssumption
<1>3. left \in 0..IF command = "benchmark" THEN Reports ELSE 1
  BY <1>1, <1>2
<1>4. Len(measured) <= Len(Requested)
  BY <1>1 DEF Requested
<1>5. probe.pages <= MaxPages /\ probe.events <= probe.pages * PageLimit
  BY <1>1, <1>2, NewInCap
<1> QED BY <1>1, <1>3, <1>4, <1>5 DEF ProbesTypeOK

\* A probe keeps to its cap and to the size of a page.
LEMMA ProbeInCap ==
  ProbesInv /\ ProbesTypeOK /\ [ProbesNext]_probeVars =>
    probe'.pages <= MaxPages /\ probe'.events <= probe'.pages * PageLimit
<1> SUFFICES ASSUME ProbesInv, ProbesTypeOK, [ProbesNext]_probeVars
             PROVE  probe'.pages <= MaxPages /\ probe'.events <= probe'.pages * PageLimit
  OBVIOUS
<1>1. probe.pages <= MaxPages /\ probe.events <= probe.pages * PageLimit
  BY DEF ProbesTypeOK
<1>2. MaxPages \in Nat /\ PageLimit \in Nat /\ server \in Servers
  BY ProbesAssumption DEF ProbesInv
<1>3. CASE ReadPage \/ ProbeFails
  <2>1. Reading(probe) /\ Fits(Request, probe)
    BY <1>2, <1>3, NewFits DEF ReadPage, ProbeFails, ProbesInv, Measures
  <2>2. /\ probe.pages \in Nat /\ probe.events \in Nat /\ probe.pages < MaxPages
        /\ Fields \subseteq DOMAIN probe
    BY <2>1 DEF Fits, Reading
  <2>3. CASE ReadPage
    <3>1. probe' = AfterPage(Request, probe)
      BY <2>3 DEF ReadPage
    <3>2. /\ probe'.pages = probe.pages + 1 /\ probe'.events \in Nat
          /\ probe'.events - probe.events \in 0 .. PageLimit
      BY <1>2, <2>1, <3>1, AfterPageFits DEF Fits
    <3>3. \A n, k, e, f \in Nat : e <= n * k /\ f - e \in 0 .. k => f <= (n + 1) * k
      BY Z3
    <3> QED BY <1>1, <1>2, <2>2, <3>2, <3>3
  <2>4. CASE ProbeFails
    <3>1. probe'.pages = probe.pages /\ probe'.events = probe.events
      BY <2>2, <2>4 DEF ProbeFails, Fields
    <3> QED BY <1>1, <3>1
  <2> QED BY <1>3, <2>3, <2>4
<1>4. CASE EndProbe
  <2>1. probe' = NewProbe
    BY <1>4 DEF EndProbe
  <2> QED BY <1>2, <2>1, NewInCap
<1>5. CASE ~(ReadPage \/ ProbeFails \/ EndProbe)
  <2>1. probe' = probe
    BY <1>5 DEF ProbesNext, FetchFights, NothingToProbe, Compare, WriteResults, probeVars
  <2> QED BY <1>1, <2>1
<1> QED BY <1>3, <1>4, <1>5

\* A report is taken only if one is left, and the output is what was concluded.
LEMMA ProbesTypesStep ==
  ProbesInv /\ ProbesInv' /\ ProbesTypeOK /\ [ProbesNext]_probeVars => ProbesTypeOK'
<1> SUFFICES ASSUME ProbesInv, ProbesInv', ProbesTypeOK, [ProbesNext]_probeVars PROVE ProbesTypeOK'
  OBVIOUS
<1> DEFINE most == IF command = "benchmark" THEN Reports ELSE 1
<1>1. most \in Nat
  BY ProbesAssumption
<1>2. \/ UNCHANGED <<command, phase, left, output>>
      \/ (FetchFights \/ NothingToProbe \/ Compare \/ WriteResults) /\ UNCHANGED command
  BY DEF ProbesNext, FetchFights, NothingToProbe, ReadPage, ProbeFails, EndProbe, Probing,
         Compare, WriteResults, probeVars
<1>3. left' \in 0..most
  <2>1. left \in 0..most
    BY DEF ProbesTypeOK
  <2>2. left' = left \/ (left > 0 /\ left' = left - 1)
    BY <1>2 DEF FetchFights, NothingToProbe, Compare, WriteResults
  <2> HIDE DEF most
  <2> QED BY <1>1, <2>1, <2>2
<1>4. phase' \in {"fights", "probing", "written", "stopped"}
  BY <1>2 DEF FetchFights, NothingToProbe, Compare, WriteResults, ProbesTypeOK
<1>5. output' = IF phase' = "written" THEN results' ELSE NotMeasured
  <2>1. output = IF phase = "written" THEN results ELSE NotMeasured
    BY DEF ProbesTypeOK
  <2> QED BY <2>1 DEF ProbesNext, FetchFights, NothingToProbe, ReadPage, ProbeFails, EndProbe,
                      Probing, Compare, WriteResults, probeVars
<1>6. server' \in Servers /\ Len(measured') <= Len(Requested')
  BY DEF ProbesInv, Probed
<1>7. probe' # NewProbe => phase' = "probing" /\ Len(measured') < Len(Requested')
  <2>1. probe # NewProbe => phase = "probing" /\ Len(measured) < Len(Requested)
    BY DEF ProbesTypeOK
  <2>2. ASSUME UNCHANGED probeVars \/ FetchFights PROVE phase # "fights" => UNCHANGED phase
    BY <2>2 DEF probeVars, FetchFights
  <2>3. probe' # NewProbe => Len(measured') < Len(Requested')
    BY DEF ProbesInv
  <2> QED BY <2>1, <2>2, <2>3 DEF ProbesNext, FetchFights, NothingToProbe, ReadPage, ProbeFails,
             EndProbe, Probing, Compare, WriteResults, probeVars
<1>8. probe'.pages <= MaxPages /\ probe'.events <= probe'.pages * PageLimit
  BY ProbeInCap
<1> QED BY <1>2, <1>3, <1>4, <1>5, <1>6, <1>7, <1>8 DEF ProbesTypeOK, FetchFights

-----------------------------------------------------------------------------
\* An event has a time since its pull exactly if it is in one.
LEMMA SincePullTyped ==
  ASSUME NEW rows, GoodRows(rows), NEW t \in Moments \cup {NoTime}
  PROVE  LET e == NormalizeEvent(rows, t) IN (e.pull = NoPull) = (e.sincePull = NoTime)
<1> DEFINE e == NormalizeEvent(rows, t)
<1>1. CASE t = NoTime
  <2>1. e.pull = NoPull /\ e.sincePull = NoTime
    BY <1>1 DEF NormalizeEvent
  <2> QED BY <2>1
<1>2. CASE t # NoTime
  <2>1. e.at = t /\ e.timed /\ (e.pull = NoPull => e.sincePull = NoTime)
    BY <1>2 DEF NormalizeEvent
  <2>2. t \in Int /\ NoTime \notin Int
    BY <1>2, IntakeAssumption
  <2>3. e.pull = NoPull \/ \E p \in ToSet(rows) : e.sincePull = t - p.start
    BY <2>1, EventAssigned DEF WellAssigned, HoldingOf
  <2>4. \A p \in ToSet(rows) : p.start \in Int
    BY DEF GoodRows, ToSet
  <2>5. e.pull = NoPull \/ e.sincePull \in Int
    <3> HIDE DEF e
    <3> QED BY <2>2, <2>3, <2>4
  <2> QED BY <2>1, <2>2, <2>5
<1> QED BY <1>1, <1>2

\* Nothing is stored of a run at first.
LEMMA IntakeTypesStart == IntakeInit => IntakeTypeOK
BY DEF IntakeInit, IntakeTypeOK

\* Every event is stored as it is normalized.
LEMMA IntakeTypesStep ==
  IntakeInv /\ IntakeInv' /\ IntakeTypeOK /\ [IntakeNext]_intakeVars => IntakeTypeOK'
<1> SUFFICES ASSUME IntakeInv, IntakeInv', IntakeTypeOK, [IntakeNext]_intakeVars
             PROVE  IntakeTypeOK'
  OBVIOUS
<1>1. served' \in PullSets /\ cached' \in PullSets \cup {NotFetched}
  BY DEF IntakeInv
<1>2. moved' \in BOOLEAN
  <2>1. moved \in BOOLEAN
    BY DEF IntakeTypeOK
  <2>2. CollectPulls => moved' \in BOOLEAN
    BY <2>1 DEF CollectPulls
  <2> QED BY <2>1, <2>2 DEF IntakeNext, ServerMoves, EmptyRawCache, ResetRunEvents, StoreEvent, intakeVars
<1>3. ASSUME NEW e \in events' PROVE (e.pull = NoPull) = (e.sincePull = NoTime)
  <2>1. CASE e \in events
    BY <2>1 DEF IntakeTypeOK
  <2>2. e \in events \/ \E t \in Moments \cup {NoTime} : e = NormalizeEvent(pulls, t)
    BY <1>3 DEF IntakeNext, ServerMoves, EmptyRawCache, ResetRunEvents, CollectPulls, StoreEvent, intakeVars
  <2>3. GoodRows(pulls)
    BY DEF IntakeInv
  <2> QED BY <2>1, <2>2, <2>3, SincePullTyped
<1> QED BY <1>1, <1>2, <1>3 DEF IntakeTypeOK

-----------------------------------------------------------------------------
\* There is no run and no report at first.
LEMMA ValidationStarts == ValidationInit => ValidationInv /\ ValidationTypeOK
BY FS_EmptySet DEF ValidationInit, ValidationInv, CorpusFinite, ValidationTypeOK

\* The runs are those that are stored, and what is analysable is one of them.
LEMMA ValidationTypesStep ==
  ValidationInv' /\ ValidationTypeOK /\ [ValidationNext]_validationVars => ValidationTypeOK'
<1> SUFFICES ASSUME ValidationInv', ValidationTypeOK, [ValidationNext]_validationVars
             PROVE  ValidationTypeOK'
  OBVIOUS
<1>1. DOMAIN corpus' \subseteq RunIds
  BY DEF ValidationTypeOK, ValidationNext, StoreRun, CollectValidation, validationVars
<1>2. \A r \in DOMAIN corpus' : corpus'[r] \in RunRows
  BY DEF ValidationInv, CorpusFinite
<1>3. validation' # NoValidation => validation'.analysable \subseteq DOMAIN validation'.of
  BY DEF ValidationInv, Analysable
<1> QED BY <1>1, <1>2, <1>3 DEF ValidationTypeOK

-----------------------------------------------------------------------------
(***************************************************************************)
(* The commands together.                                                  *)
(***************************************************************************)
\* A step is a step of each command, or leaves it alone: none of them reads or
\* writes what is another's.
LEMMA StepsApart ==
  ASSUME [Next]_vars
  PROVE  /\ UNCHANGED scenario
         /\ [ReconNext]_reconVars /\ [CatalogNext]_catalogVars
         /\ [MigrationsNext]_migrationVars /\ [ProbesNext]_probeVars
         /\ [IntakeNext]_intakeVars /\ [SourcesNext]_sourceVars
         /\ [ValidationNext]_validationVars
BY DEF Next, vars, others

\* The commands together are each of them: its own specification holds of a
\* behaviour of all, whatever the others do.
LEMMA CommandsApart ==
  Spec => /\ ReconSpec /\ CatalogSpec /\ MigrationsSpec /\ ProbesSpec
          /\ IntakeSpec /\ SourcesSpec /\ ValidationSpec
<1>1. Init => /\ ReconInit /\ CatalogInit /\ MigrationsInit /\ ProbesInit
              /\ IntakeInit /\ SourcesInit /\ ValidationInit
  BY DEF Init
<1>2. [Next]_vars => /\ [ReconNext]_reconVars /\ [CatalogNext]_catalogVars
                     /\ [MigrationsNext]_migrationVars /\ [ProbesNext]_probeVars
                     /\ [IntakeNext]_intakeVars /\ [SourcesNext]_sourceVars
                     /\ [ValidationNext]_validationVars
  BY StepsApart
<1> QED BY <1>1, <1>2, PTL DEF Spec, ReconSpec, CatalogSpec, MigrationsSpec, ProbesSpec,
           IntakeSpec, SourcesSpec, ValidationSpec

\* Each command alone keeps its types: recon (recon.py).
LEMMA ReconTyped == ReconSpec => []ReconTypeOK
BY ReconStarts, ReconStep, ReconTypesStart, ReconTypesStep, PTL DEF ReconSpec

\* discover-dungeons (discover.py).
LEMMA CatalogTyped == CatalogSpec => []CatalogTypeOK
BY CatalogStarts, CatalogStep, CatalogTypesStep, PTL DEF CatalogSpec

\* Opening a database (db.py).
LEMMA MigrationsTyped == MigrationsSpec => []MigrationsTypeOK
BY LInvInitially, LInvStep, MigrationTypesStart, MigrationTypesStep, PTL DEF MigrationsSpec

\* benchmark and focus-benchmark (benchmark.py).
LEMMA ProbesTyped == ProbesSpec => []ProbesTypeOK
BY ProbesStart, ProbesStep, ProbesTypesStart, ProbesTypesStep, PTL DEF ProbesSpec

\* The pulls and the events of a run (normalize.py, pullassign.py).
LEMMA IntakeTyped == IntakeSpec => []IntakeTypeOK
BY IntakeStarts, IntakeStep, IntakeTypesStart, IntakeTypesStep, PTL DEF IntakeSpec

\* discover-reports (reportsource.py).
LEMMA ReadersTyped == SourcesSpec => []SourcesTypeOK
<1>1. SourcesInv => SourcesTypeOK
  BY DEF SourcesInv
<1> QED BY <1>1, SourcesInitially, SourcesStep, PTL DEF SourcesSpec

\* validate (validate.py).
LEMMA ValidationTyped == ValidationSpec => []ValidationTypeOK
BY ValidationStarts, ValidationStep, ValidationTypesStep, PTL DEF ValidationSpec

\* For any servers, files, logs, pulls, lists and corpora, the state of every
\* command is of its type in every state: no call that fails is counted twice,
\* no selection is asked of a type that nothing is wanted of, recon_findings.json
\* holds the findings of the whole run or is not there, and an event outside the
\* pulls has no time in one.
THEOREM CommandsTyped == Spec => []TypesOK
<1>1. Init => scenario \in Scenarios
  BY DEF Init
<1>2. scenario \in Scenarios /\ [Next]_vars => (scenario \in Scenarios)'
  BY StepsApart
<1>3. Spec => [](scenario \in Scenarios)
  BY <1>1, <1>2, PTL DEF Spec
<1>4. (/\ scenario \in Scenarios
       /\ ReconTypeOK /\ CatalogTypeOK /\ MigrationsTypeOK /\ ProbesTypeOK
       /\ IntakeTypeOK /\ SourcesTypeOK /\ ValidationTypeOK) => TypesOK
  BY DEF TypesOK
<1> QED BY <1>3, <1>4, CommandsApart, ReconTyped, CatalogTyped, MigrationsTyped, ProbesTyped,
           IntakeTyped, ReadersTyped, ValidationTyped, PTL
=============================================================================
