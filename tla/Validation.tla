------------------------------ MODULE Validation ------------------------------
(***************************************************************************)
(* The validation report (validate.py): the runs that it calls analysable, *)
(* perhaps of one dungeon only, the shapes of the corpus by the streams    *)
(* that the manifest has of each run, and the limitations it confesses.    *)
(*                                                                         *)
(* A run is [manifest, standing, status, dungeon, outside]: manifest maps  *)
(* each stream of run_stream_coverage to its status; standing is what      *)
(* is_canonical says, and outside whether an event of it is in no pull.    *)
(* A stream is [type, side, focus].                                        *)
(***************************************************************************)
EXTENDS Naturals, FiniteSets, FiniteSetsExt

CONSTANTS
  RunIds, RunRows,   \* the corpora: functions from some RunIds to RunRows
  Filters,           \* the dungeons --dungeon may name
  AnyDungeon,        \* no filter
  NoFocus,           \* a stream that is not narrowed
  NoValidation

ASSUME ValidationAssumption ==
  \A row \in RunRows : IsFiniteSet(DOMAIN row.manifest)

VARIABLES
  corpus,
  validation         \* the report: what was analysable, what it says

validationVars == <<corpus, validation>>

ValidationInit ==
  /\ corpus = <<>>
  /\ validation = NoValidation

\* stream_coverage: the label of a stream does not tell one focus from another.
Label(stream) == <<stream.type, stream.side, stream.focus # NoFocus>>
LabelsOf(r) == {Label(s) : s \in DOMAIN corpus[r].manifest}
InManifest == {r \in DOMAIN corpus : corpus[r].manifest # <<>>}
StreamShapes == {LabelsOf(r) : r \in InManifest}
Widest ==
  CHOOSE s \in StreamShapes : \A t \in StreamShapes : Cardinality(t) <= Cardinality(s)
ThinShapes == {s \in StreamShapes : Widest \ s # {}}
IncompleteStreams ==
  UNION {{<<r, s>> : s \in {t \in DOMAIN corpus[r].manifest : corpus[r].manifest[t] # "ok"}} :
           r \in InManifest}

\* Not the code: one pass is enough for ever.
DedupeStateOnce ==
  LET unexamined == {r \in DOMAIN corpus : corpus[r].standing = "unexamined"} IN
  IF corpus = <<>> THEN "empty"
  ELSE IF unexamined = DOMAIN corpus THEN "never_run" ELSE "current"

\* dedupe_coverage.
DedupeState ==
  LET unexamined == {r \in DOMAIN corpus : corpus[r].standing = "unexamined"} IN
  IF corpus = <<>> THEN "empty"
  ELSE IF unexamined = DOMAIN corpus THEN "never_run"
  ELSE IF unexamined # {} THEN "stale" ELSE "current"

When(condition, text) == IF condition THEN {text} ELSE {}

\* known_limitations knows of no filter.
KnownLimitations ==
  When(DedupeState = "never_run", "dedupe never run")
  \cup When(DedupeState = "stale", "dedupe stale")
  \cup When(InManifest = {} /\ corpus # <<>>, "no manifest")
  \cup When(IncompleteStreams # {}, "streams not exhausted")
  \cup When(Cardinality(StreamShapes) > 1, "several profiles")
  \cup When(\E r \in DOMAIN corpus : corpus[r].outside, "events outside pulls")
  \cup When(\E r \in DOMAIN corpus : corpus[r].status # "complete", "runs not complete")

Analysable(filter) ==
  {r \in DOMAIN corpus : /\ filter \in {AnyDungeon, corpus[r].dungeon}
                         /\ corpus[r].status = "complete"
                         /\ corpus[r].standing # "duplicate"}

-----------------------------------------------------------------------------
\* A job stores a run, or stores it again, or dedupe marks it, until a report is
\* made of what is there.  Bound: one report; another one would be made alike.
StoreRun(r, row) ==
  /\ validation = NoValidation
  /\ corpus' = [q \in DOMAIN corpus \cup {r} |-> IF q = r THEN row ELSE corpus[q]]
  /\ UNCHANGED validation

CollectValidation(filter) ==
  /\ validation' =
       [of |-> corpus,
        analysable |-> Analysable(filter),
        thin |-> IF StreamShapes = {} THEN {} ELSE ThinShapes,
        limits |-> KnownLimitations]
  /\ UNCHANGED corpus

ValidationNext ==
  \/ \E r \in RunIds, row \in RunRows : StoreRun(r, row)
  \/ \E filter \in Filters \cup {AnyDungeon} : CollectValidation(filter)

ValidationSpec == ValidationInit /\ [][ValidationNext]_validationVars

ValidationTypeOK ==
  /\ DOMAIN corpus \subseteq RunIds
  /\ \A r \in DOMAIN corpus : corpus[r] \in RunRows
  /\ validation # NoValidation => validation.analysable \subseteq DOMAIN validation.of

AsksFor(row, label) == \E s \in DOMAIN row.manifest : Label(s) = label

\* A count pooled over the runs that a report calls analysable, of one dungeon
\* or of all, and in a corpus of which the manifest knows every run, cannot
\* mislead a reader of its limitations: if one of them was not asked for a
\* stream that another has, or has not all of it, or was never compared with
\* the others, the report says so, and names a shape that has less.
ReportConfesses ==
  validation # NoValidation =>
    LET of == validation.of
        known == \A r \in DOMAIN of : of[r].manifest # <<>>
    IN \A q, r \in validation.analysable :
         /\ known =>
              \A s \in DOMAIN of[q].manifest :
                ~AsksFor(of[r], Label(s)) =>
                  "several profiles" \in validation.limits /\ validation.thin # {}
         /\ \A s \in DOMAIN of[r].manifest :
              of[r].manifest[s] # "ok" => "streams not exhausted" \in validation.limits
         /\ of[r].standing = "unexamined" =>
              {"dedupe never run", "dedupe stale"} \cap validation.limits # {}
=============================================================================
