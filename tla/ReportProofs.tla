----------------------------- MODULE ReportProofs -----------------------------
(***************************************************************************)
(* What the project's reports say of the data: the validation report, for  *)
(* any corpus; its verdict on overlapping pulls with the assignment of     *)
(* events to them; the reconnaissance report, for any schema, server and   *)
(* report; and the verdicts of the benchmarks, for any server and caps.    *)
(***************************************************************************)
EXTENDS Validation, Intake, Recon, Probes, FiniteSetTheorems, SequenceTheorems,
        WellFoundedInduction, TLAPS

(***************************************************************************)
(* The validation report.                                                  *)
(***************************************************************************)
\* A set of numbers that is not empty has a least.
LEMMA LeastNumber ==
  ASSUME NEW S \in SUBSET Nat, S # {}
  PROVE  \E n \in S : \A m \in S : n <= m
<1>1. PICK n \in S : \A m \in S : ~(<<m, n>> \in OpToRel(<, Nat))
  BY NatLessThanWellFounded, WFMin, Zenon
<1>2. ASSUME NEW m \in S PROVE n <= m
  <2>1. ~(m < n)
    BY <1>1, Zenon DEF OpToRel
  <2> QED BY <2>1
<1> QED BY <1>2

\* A function on a finite set has finitely many values.
LEMMA ValuesFinite ==
  ASSUME NEW S, IsFiniteSet(S), NEW f, f = [x \in S |-> f[x]]
  PROVE  IsFiniteSet({f[x] : x \in S})
<1> DEFINE T == {f[x] : x \in S}
<1>1. f \in [S -> T]
  OBVIOUS
<1>2. \A t \in T : \E x \in S : f[x] = t
  OBVIOUS
<1> HIDE DEF T
<1>3. f \in Surjection(S, T)
  BY <1>1, <1>2 DEF Surjection
<1>4. IsFiniteSet(T)
  BY <1>3, FS_Surjection
<1> QED BY <1>4 DEF T

\* Of finitely many finite sets one is as large as any.
LEMMA LargestExists ==
  ASSUME NEW F, F # {}, IsFiniteSet(F), \A s \in F : IsFiniteSet(s)
  PROVE  \E s \in F : \A t \in F : Cardinality(t) <= Cardinality(s)
<1> DEFINE B == Cardinality(UNION F)
           short == {B - Cardinality(s) : s \in F}
<1>1. IsFiniteSet(UNION F)
  BY FS_UNION
<1>2. \A s \in F : Cardinality(s) \in Nat /\ Cardinality(s) <= B
  <2>1. TAKE s \in F
  <2>2. IsFiniteSet(s) /\ s \subseteq UNION F
    OBVIOUS
  <2> QED BY <2>2, <1>1, FS_Subset, FS_CardinalityType
<1>3. B \in Nat
  BY <1>1, FS_CardinalityType
<1> HIDE DEF B
<1>4. short \in SUBSET Nat /\ short # {}
  <2>1. \A s \in F : B - Cardinality(s) \in Nat
    BY <1>2, <1>3
  <2> QED BY <2>1
<1>5. PICK n \in short : \A m \in short : n <= m
  <2> HIDE DEF short
  <2> QED BY <1>4, LeastNumber
<1>6. PICK s \in F : n = B - Cardinality(s)
  BY <1>5
<1>7. ASSUME NEW t \in F PROVE Cardinality(t) <= Cardinality(s)
  <2>1. n <= B - Cardinality(t)
    BY <1>5
  <2> QED BY <2>1, <1>2, <1>3, <1>6
<1> QED BY <1>7

\* A set with two members counts more than one.
LEMMA TwoAreMany ==
  ASSUME NEW F, IsFiniteSet(F), NEW s \in F, NEW t \in F, s # t
  PROVE  Cardinality(F) > 1
<1>1. /\ IsFiniteSet({s}) /\ Cardinality({s}) = 1
      /\ t \notin {s}
  BY FS_Singleton
<1>2. Cardinality({s} \cup {t}) = 2
  BY <1>1, FS_AddElement
<1>3. {s} \cup {t} \subseteq F
  OBVIOUS
<1>4. Cardinality({s} \cup {t}) <= Cardinality(F) /\ Cardinality(F) \in Nat
  BY <1>3, FS_Subset, FS_CardinalityType
<1> QED BY <1>2, <1>4

\* The corpus is of finitely many runs, each with finitely many streams.
CorpusFinite ==
  /\ IsFiniteSet(DOMAIN corpus)
  /\ \A r \in DOMAIN corpus : corpus[r] \in RunRows

\* A report stays one of the corpus it was made of.
ValidationInv ==
  /\ CorpusFinite
  /\ validation # NoValidation =>
       \E filter \in Filters \cup {AnyDungeon} :
         validation = [of |-> corpus, analysable |-> Analysable(filter),
                       thin |-> IF StreamShapes = {} THEN {} ELSE ThinShapes,
                       limits |-> KnownLimitations]

\* The shapes are finitely many, and finite.
LEMMA ShapesFinite ==
  ASSUME CorpusFinite
  PROVE  IsFiniteSet(StreamShapes) /\ \A s \in StreamShapes : IsFiniteSet(s)
<1>1. IsFiniteSet(InManifest)
  <2>1. InManifest \subseteq DOMAIN corpus
    BY DEF InManifest
  <2> QED BY <2>1, FS_Subset DEF CorpusFinite
<1>2. IsFiniteSet(StreamShapes)
  <2> DEFINE labels == [r \in InManifest |-> LabelsOf(r)]
  <2>1. StreamShapes = {labels[r] : r \in InManifest}
    BY DEF StreamShapes
  <2>2. labels = [r \in InManifest |-> labels[r]]
    OBVIOUS
  <2> HIDE DEF labels
  <2> QED BY <1>1, <2>1, <2>2, ValuesFinite
<1>3. ASSUME NEW s \in StreamShapes PROVE IsFiniteSet(s)
  <2>1. PICK r \in InManifest : s = LabelsOf(r)
    BY <1>3 DEF StreamShapes
  <2>2. IsFiniteSet(DOMAIN corpus[r].manifest)
    BY ValidationAssumption DEF CorpusFinite, InManifest
  <2>3. IsFiniteSet(LabelsOf(r))
    <3> DEFINE streams == DOMAIN corpus[r].manifest
               labels == [t \in streams |-> Label(t)]
    <3>1. LabelsOf(r) = {labels[t] : t \in streams}
      BY DEF LabelsOf
    <3>2. labels = [t \in streams |-> labels[t]]
      OBVIOUS
    <3>3. IsFiniteSet(streams)
      BY <2>2
    <3> HIDE DEF labels, streams
    <3> QED BY <3>1, <3>2, <3>3, ValuesFinite
  <2> QED BY <2>1, <2>3
<1> QED BY <1>2, <1>3

\* Where shapes differ, one of them has less than the widest.
LEMMA ThinOneNamed ==
  ASSUME CorpusFinite, NEW s \in StreamShapes, NEW t \in StreamShapes, s # t
  PROVE  ThinShapes # {}
<1>1. /\ IsFiniteSet(StreamShapes) /\ \A u \in StreamShapes : IsFiniteSet(u)
  BY ShapesFinite
<1>2. \E u \in StreamShapes : \A v \in StreamShapes : Cardinality(v) <= Cardinality(u)
  BY <1>1, LargestExists
<1>3. /\ Widest \in StreamShapes
      /\ \A v \in StreamShapes : Cardinality(v) <= Cardinality(Widest)
  BY <1>2, Zenon DEF Widest
<1>4. ASSUME NEW v \in StreamShapes, Widest \ v = {} PROVE v = Widest
  <2>1. Widest \subseteq v /\ IsFiniteSet(v) /\ IsFiniteSet(Widest)
    BY <1>1, <1>3, <1>4
  <2>2. /\ Cardinality(Widest) <= Cardinality(v) /\ Cardinality(v) <= Cardinality(Widest)
        /\ Cardinality(v) \in Nat /\ Cardinality(Widest) \in Nat
    BY <2>1, <1>3, FS_Subset, FS_CardinalityType
  <2>3. Cardinality(v) = Cardinality(Widest)
    BY <2>2
  <2> QED BY <2>1, <2>3, FS_Subset
<1>5. s # Widest \/ t # Widest
  OBVIOUS
<1> QED BY <1>4, <1>5 DEF ThinShapes

\* What a report of the corpus as it is confesses.
LEMMA ConfessesOf ==
  ASSUME CorpusFinite, NEW filter, NEW q \in Analysable(filter), NEW r \in Analysable(filter)
  PROVE  /\ (\A p \in DOMAIN corpus : corpus[p].manifest # <<>>) =>
              \A s \in DOMAIN corpus[q].manifest :
                ~AsksFor(corpus[r], Label(s)) =>
                  /\ "several profiles" \in KnownLimitations
                  /\ StreamShapes # {} /\ ThinShapes # {}
         /\ \A s \in DOMAIN corpus[r].manifest :
              corpus[r].manifest[s] # "ok" => "streams not exhausted" \in KnownLimitations
         /\ corpus[r].standing = "unexamined" =>
              "dedupe never run" \in KnownLimitations \/ "dedupe stale" \in KnownLimitations
<1>1. q \in DOMAIN corpus /\ r \in DOMAIN corpus
  BY DEF Analysable
<1>2. ASSUME \A p \in DOMAIN corpus : corpus[p].manifest # <<>>,
             NEW s \in DOMAIN corpus[q].manifest, ~AsksFor(corpus[r], Label(s))
      PROVE  "several profiles" \in KnownLimitations /\ StreamShapes # {} /\ ThinShapes # {}
  <2>1. LabelsOf(q) \in StreamShapes /\ LabelsOf(r) \in StreamShapes
    BY <1>1, <1>2 DEF StreamShapes, InManifest
  <2>2. Label(s) \in LabelsOf(q) /\ Label(s) \notin LabelsOf(r)
    BY <1>2, Zenon DEF LabelsOf, AsksFor
  <2>3. LabelsOf(q) # LabelsOf(r)
    BY <2>2
  <2>4. Cardinality(StreamShapes) > 1
    BY <2>1, <2>3, ShapesFinite, TwoAreMany
  <2>5. ThinShapes # {}
    BY <2>1, <2>3, ThinOneNamed
  <2> QED BY <2>1, <2>4, <2>5 DEF KnownLimitations, When
<1>3. ASSUME NEW s \in DOMAIN corpus[r].manifest, corpus[r].manifest[s] # "ok"
      PROVE  "streams not exhausted" \in KnownLimitations
  <2>1. corpus[r].manifest # <<>>
    BY <1>3
  <2>2. <<r, s>> \in IncompleteStreams
    BY <2>1, <1>1, <1>3 DEF IncompleteStreams, InManifest
  <2>3. IncompleteStreams # {}
    BY <2>2
  <2> QED BY <2>3 DEF KnownLimitations, When
<1>4. ASSUME corpus[r].standing = "unexamined"
      PROVE  "dedupe never run" \in KnownLimitations \/ "dedupe stale" \in KnownLimitations
  <2>1. corpus # <<>>
    BY <1>1
  <2>2. DedupeState \in {"never_run", "stale"}
    BY <2>1, <1>1, <1>4 DEF DedupeState
  <2> QED BY <2>2 DEF KnownLimitations, When
<1> QED BY <1>2, <1>3, <1>4

\* The invariant is what the report must be.
LEMMA InvConfesses == ValidationInv => ReportConfesses
<1> SUFFICES ASSUME ValidationInv, validation # NoValidation PROVE ReportConfesses
  BY DEF ReportConfesses
<1>1. PICK filter \in Filters \cup {AnyDungeon} :
        validation = [of |-> corpus, analysable |-> Analysable(filter),
                      thin |-> IF StreamShapes = {} THEN {} ELSE ThinShapes,
                      limits |-> KnownLimitations]
  BY DEF ValidationInv
<1>2. /\ validation.of = corpus /\ validation.analysable = Analysable(filter)
      /\ StreamShapes # {} => validation.thin = ThinShapes
      /\ validation.limits = KnownLimitations
  BY <1>1
<1>3. CorpusFinite
  BY DEF ValidationInv
<1>4. ASSUME NEW q \in Analysable(filter), NEW r \in Analysable(filter)
      PROVE  /\ (\A p \in DOMAIN corpus : corpus[p].manifest # <<>>) =>
                  \A s \in DOMAIN corpus[q].manifest :
                    ~AsksFor(corpus[r], Label(s)) =>
                      "several profiles" \in validation.limits /\ validation.thin # {}
             /\ \A s \in DOMAIN corpus[r].manifest :
                  corpus[r].manifest[s] # "ok" => "streams not exhausted" \in validation.limits
             /\ corpus[r].standing = "unexamined" =>
                  {"dedupe never run", "dedupe stale"} \cap validation.limits # {}
  BY <1>2, <1>3, ConfessesOf
<1> QED BY <1>2, <1>4, Zenon DEF ReportConfesses

\* What is reported depends on the corpus alone.
LEMMA CorpusSays ==
  ASSUME corpus' = corpus
  PROVE  /\ StreamShapes' = StreamShapes /\ ThinShapes' = ThinShapes
         /\ KnownLimitations' = KnownLimitations
         /\ \A f \in Filters \cup {AnyDungeon} : Analysable(f)' = Analysable(f)
BY DEF StreamShapes, ThinShapes, Widest, KnownLimitations, Analysable, InManifest, LabelsOf,
   IncompleteStreams, DedupeState

\* A run is stored, or a report is made.
LEMMA ValidationStep == ValidationInv /\ [ValidationNext]_validationVars => ValidationInv'
<1> SUFFICES ASSUME ValidationInv, [ValidationNext]_validationVars PROVE ValidationInv'
  OBVIOUS
<1>1. ASSUME NEW r \in RunIds, NEW row \in RunRows, StoreRun(r, row) PROVE ValidationInv'
  <2>1. /\ DOMAIN corpus' = DOMAIN corpus \cup {r}
        /\ \A p \in DOMAIN corpus' : corpus'[p] = IF p = r THEN row ELSE corpus[p]
        /\ validation' = NoValidation
    BY <1>1 DEF StoreRun
  <2>2. IsFiniteSet(DOMAIN corpus')
    BY <2>1, FS_AddElement DEF ValidationInv, CorpusFinite
  <2>3. \A p \in DOMAIN corpus' : corpus'[p] \in RunRows
    BY <2>1 DEF ValidationInv, CorpusFinite
  <2> QED BY <2>1, <2>2, <2>3 DEF ValidationInv, CorpusFinite
<1>2. ASSUME NEW filter \in Filters \cup {AnyDungeon}, CollectValidation(filter)
      PROVE  ValidationInv'
  <2>1. corpus' = corpus
    BY <1>2 DEF CollectValidation
  <2>2. validation' = [of |-> corpus, analysable |-> Analysable(filter),
                       thin |-> IF StreamShapes = {} THEN {} ELSE ThinShapes,
                       limits |-> KnownLimitations]
    BY <1>2 DEF CollectValidation
  <2>3. /\ StreamShapes' = StreamShapes /\ ThinShapes' = ThinShapes
        /\ KnownLimitations' = KnownLimitations
        /\ \A f \in Filters \cup {AnyDungeon} : Analysable(f)' = Analysable(f)
    BY <2>1, CorpusSays
  <2>4. CorpusFinite'
    BY <2>1 DEF ValidationInv, CorpusFinite
  <2> QED BY <2>1, <2>2, <2>3, <2>4, Zenon DEF ValidationInv
<1>3. CASE UNCHANGED validationVars
  <2>1. corpus' = corpus /\ validation' = validation
    BY <1>3 DEF validationVars
  <2>2. /\ StreamShapes' = StreamShapes /\ ThinShapes' = ThinShapes
        /\ KnownLimitations' = KnownLimitations
        /\ \A f \in Filters \cup {AnyDungeon} : Analysable(f)' = Analysable(f)
    BY <2>1, CorpusSays
  <2>3. CorpusFinite'
    BY <2>1 DEF ValidationInv, CorpusFinite
  <2> QED BY <2>1, <2>2, <2>3, Zenon DEF ValidationInv
<1> QED BY <1>1, <1>2, <1>3 DEF ValidationNext

\* A report of validate.py confesses every gap that a count over its analysable
\* runs could hide, for every corpus, filter and manifest.
THEOREM GapsConfessed == ValidationSpec => []ReportConfesses
<1>1. ValidationInit => ValidationInv
  BY FS_EmptySet DEF ValidationInit, ValidationInv, CorpusFinite
<1> QED BY <1>1, InvConfesses, ValidationStep, PTL DEF ValidationSpec

-----------------------------------------------------------------------------
(***************************************************************************)
(* Pulls: their orders.                                                    *)
(***************************************************************************)
\* How many are before x.
Rank(S, R, x) == Cardinality({y \in S : <<y, x>> \in R})

\* In a strict order of finitely many, each is preceded by a number of its own,
\* and every number that there are is of one.
LEMMA RankOnto ==
  ASSUME NEW S, IsFiniteSet(S), NEW R,
         \A x \in S : <<x, x>> \notin R,
         \A x, y \in S : x # y => <<x, y>> \in R \/ <<y, x>> \in R,
         \A x, y, z \in S : <<x, y>> \in R /\ <<y, z>> \in R => <<x, z>> \in R
  PROVE  /\ Cardinality(S) \in Nat
         /\ \A x \in S : Rank(S, R, x) \in 0 .. Cardinality(S) - 1
         /\ \A x, y \in S : <<x, y>> \in R => Rank(S, R, x) < Rank(S, R, y)
         /\ \A n \in 1 .. Cardinality(S) : \E x \in S : Rank(S, R, x) = n - 1
<1> DEFINE N == Cardinality(S)
           Ahead(x) == {y \in S : <<y, x>> \in R}
           f == [x \in S |-> Rank(S, R, x)]
           T == {f[x] : x \in S}
<1>1. N \in Nat
  BY FS_CardinalityType
<1>2. \A x \in S : Ahead(x) \subseteq S /\ x \notin Ahead(x)
  OBVIOUS
<1> HIDE DEF N
<1>3. ASSUME NEW x \in S PROVE Rank(S, R, x) \in 0 .. N - 1
  <2>1. Rank(S, R, x) = Cardinality(Ahead(x))
    BY DEF Rank
  <2>2. Ahead(x) \subseteq S /\ Ahead(x) # S
    BY <1>2
  <2> HIDE DEF Ahead
  <2>3. /\ Cardinality(Ahead(x)) <= N /\ Cardinality(Ahead(x)) # N
        /\ Cardinality(Ahead(x)) \in Nat
    BY <2>2, FS_Subset, FS_CardinalityType DEF N
  <2> QED BY <2>1, <2>3, <1>1
<1>4. ASSUME NEW x \in S, NEW y \in S, <<x, y>> \in R PROVE Rank(S, R, x) < Rank(S, R, y)
  <2>1. Rank(S, R, x) = Cardinality(Ahead(x)) /\ Rank(S, R, y) = Cardinality(Ahead(y))
    BY DEF Rank
  <2>2. Ahead(x) \subseteq Ahead(y) /\ x \in Ahead(y) /\ x \notin Ahead(x)
    BY <1>4
  <2>3. IsFiniteSet(Ahead(y))
    <3>1. Ahead(y) \subseteq S
      OBVIOUS
    <3> HIDE DEF Ahead
    <3> QED BY <3>1, FS_Subset
  <2> HIDE DEF Ahead
  <2>4. Ahead(x) # Ahead(y)
    BY <2>2
  <2>5. /\ Cardinality(Ahead(x)) <= Cardinality(Ahead(y))
        /\ Cardinality(Ahead(x)) # Cardinality(Ahead(y))
        /\ IsFiniteSet(Ahead(x))
    BY <2>2, <2>3, <2>4, FS_Subset
  <2>6. Cardinality(Ahead(x)) \in Nat /\ Cardinality(Ahead(y)) \in Nat
    BY <2>3, <2>5, FS_CardinalityType
  <2> QED BY <2>1, <2>5, <2>6
<1>5. T \subseteq 0 .. N - 1
  BY <1>3
<1>6. ASSUME NEW x \in S, NEW y \in S, f[x] = f[y] PROVE x = y
  <2>1. f[x] = Rank(S, R, x) /\ f[y] = Rank(S, R, y)
    OBVIOUS
  <2>2. Rank(S, R, x) \in Int /\ Rank(S, R, y) \in Int
    BY <1>3
  <2>3. ~(<<x, y>> \in R) /\ ~(<<y, x>> \in R)
    BY <2>1, <2>2, <1>4, <1>6
  <2> QED BY <2>3
<1>7. f \in [S -> T] /\ \A t \in T : \E x \in S : f[x] = t
  OBVIOUS
<1> HIDE DEF T, f
<1>8. Cardinality(T) = N
  <2>1. f \in Surjection(S, T)
    BY <1>7 DEF Surjection
  <2>2. DOMAIN f = S
    BY <1>7
  <2>3. f \in Injection(S, T)
    BY <1>6, <1>7, <2>2, Zenon DEF Injection, IsInjective
  <2> QED BY <2>1, <2>3, FS_Surjection DEF N
<1>9. T = 0 .. N - 1
  <2>1. IsFiniteSet(0 .. N - 1) /\ Cardinality(0 .. N - 1) = N
    <3>1. IsFiniteSet(0 .. N - 1)
      BY <1>1, FS_Interval
    <3>2. Cardinality(0 .. N - 1) = IF 0 > N - 1 THEN 0 ELSE (N - 1) - 0 + 1
      BY <1>1, FS_Interval
    <3> QED BY <3>1, <3>2, <1>1
  <2> QED BY <2>1, <1>5, <1>8, FS_Subset
<1>10. ASSUME NEW n \in 1 .. N PROVE \E x \in S : Rank(S, R, x) = n - 1
  <2>1. n - 1 \in T
    BY <1>1, <1>9
  <2>2. PICK x \in S : f[x] = n - 1
    BY <2>1, <1>7
  <2> QED BY <2>2 DEF f
<1> QED BY <1>1, <1>3, <1>4, <1>10 DEF N

\* A set of numbers of an interval that is not empty has a greatest, and Max is it.
LEMMA GreatestIs ==
  ASSUME NEW n \in Nat, NEW S, S # {}, \A x \in S : x \in Nat /\ x <= n
  PROVE  Max(S) \in S /\ \A x \in S : x <= Max(S)
<1> DEFINE D == {n - x : x \in S}
<1>1. D \in SUBSET Nat /\ D # {}
  OBVIOUS
<1>2. PICK d \in D : \A e \in D : d <= e
  <2> HIDE DEF D
  <2> QED BY <1>1, LeastNumber
<1>3. PICK m \in S : d = n - m
  BY <1>2
<1>4. \A x \in S : m >= x
  <2>1. TAKE x \in S
  <2>2. d <= n - x
    BY <1>2
  <2> QED BY <2>2, <1>3
<1>5. Max(S) \in S /\ \A x \in S : Max(S) >= x
  BY <1>4 DEF Max
<1>6. \A x \in S : x \in Int
  OBVIOUS
<1> QED BY <1>5, <1>6

\* The rows of pulls: a sequence, each with an id of its own.
GoodRows(rows) ==
  /\ \E k \in Nat : DOMAIN rows = 1 .. k
  /\ \A i \in DOMAIN rows :
       /\ rows[i].id \in Nat \ {0} /\ rows[i].start \in Int /\ rows[i].stop \in Int
       /\ rows[i].start <= rows[i].stop
       /\ \A j \in DOMAIN rows : rows[i].id = rows[j].id => i = j

\* The order of normalize_pulls gives each pull with an id a row of its own.
LEMMA RowsNormalized ==
  ASSUME NEW raw \in PullSets
  PROVE  /\ GoodRows(NormalizePulls(raw))
         /\ NormalizePulls(raw) = [i \in DOMAIN NormalizePulls(raw) |-> NormalizePulls(raw)[i]]
<1> DEFINE kept == {p \in raw : p.id # NoId}
           R == {pair \in kept \X kept : Earlier(pair[1], pair[2])}
           N == Cardinality(kept)
           Nth(n) == CHOOSE p \in kept : Place(kept, p) = n - 1
           rows == NormalizePulls(raw)
<1>1. /\ IsFiniteSet(kept)
      /\ \A p \in kept : /\ p.start \in Int /\ p.stop \in Int /\ p.start <= p.stop
                         /\ p.id \in Nat \ {0}
                         /\ \A q \in kept : p.id = q.id => p = q
  <2>1. IsFiniteSet(raw) /\ kept \subseteq raw
    BY IntakeAssumption
  <2>2. IsFiniteSet(kept)
    <3> HIDE DEF kept
    <3> QED BY <2>1, FS_Subset
  <2> QED BY <2>2, IntakeAssumption
<1>2. \A p \in kept : IdOrZero(p) = p.id
  BY DEF IdOrZero
<1> HIDE DEF kept
<1>3. \A p, q \in kept : <<p, q>> \in R <=> Earlier(p, q)
  OBVIOUS
<1>4. \A p, q \in kept :
        Earlier(p, q) <=> p.start < q.start \/ (p.start = q.start /\ p.id < q.id)
  BY <1>2 DEF Earlier
<1> HIDE DEF R
<1>5. \A p \in kept : <<p, p>> \notin R
  BY <1>1, <1>3, <1>4
<1>6. \A p, q \in kept : p # q => <<p, q>> \in R \/ <<q, p>> \in R
  BY <1>1, <1>3, <1>4
<1>7. \A p, q, r \in kept : <<p, q>> \in R /\ <<q, r>> \in R => <<p, r>> \in R
  BY <1>1, <1>3, <1>4
<1>8. N \in Nat /\ \A n \in 1 .. N : \E p \in kept : Rank(kept, R, p) = n - 1
  BY <1>1, <1>5, <1>6, <1>7, RankOnto
<1>9. \A p \in kept : Rank(kept, R, p) = Place(kept, p)
  <2>1. TAKE p \in kept
  <2>2. {q \in kept : <<q, p>> \in R} = {q \in kept : Earlier(q, p)}
    BY <1>3
  <2> QED BY <2>2 DEF Rank, Place
<1>10. \A n \in 1 .. N : Nth(n) \in kept /\ Place(kept, Nth(n)) = n - 1
  <2>1. TAKE n \in 1 .. N
  <2>2. \E p \in kept : Place(kept, p) = n - 1
    BY <1>8, <1>9
  <2> QED BY <2>2
<1>11. /\ DOMAIN rows = 1 .. N
       /\ \A n \in 1 .. N : /\ rows[n].id = Nth(n).id /\ rows[n].start = Nth(n).start
                            /\ rows[n].stop = Nth(n).stop
       /\ rows = [n \in DOMAIN rows |-> rows[n]]
  BY DEF NormalizePulls, kept
<1> HIDE DEF N, Nth, rows
<1>12. ASSUME NEW n \in 1 .. N, NEW m \in 1 .. N, rows[n].id = rows[m].id PROVE n = m
  <2>1. Nth(n) = Nth(m)
    BY <1>1, <1>10, <1>11, <1>12
  <2>2. n - 1 = m - 1
    BY <2>1, <1>10
  <2>3. n \in Int /\ m \in Int
    BY <1>8
  <2> QED BY <2>2, <2>3
<1>13. \A n \in 1 .. N : /\ rows[n].id \in Nat \ {0} /\ rows[n].start \in Int
                         /\ rows[n].stop \in Int /\ rows[n].start <= rows[n].stop
  BY <1>1, <1>10, <1>11
<1>14. GoodRows(rows)
  BY <1>8, <1>11, <1>12, <1>13 DEF GoodRows
<1> QED BY <1>11, <1>14 DEF rows

\* The intervals are the rows, in the order of their starts, and of those that
\* start together, of their ends.
LEMMA IntervalsSorted ==
  ASSUME NEW rows, GoodRows(rows)
  PROVE  \E at \in [DOMAIN rows -> DOMAIN rows] :
           /\ DOMAIN Intervals(rows) = DOMAIN rows
           /\ \A n \in DOMAIN rows : Intervals(rows)[n] = rows[at[n]]
           /\ \A j \in DOMAIN rows : \E n \in DOMAIN rows : at[n] = j
           /\ \A m, n \in DOMAIN rows : m < n => Before(rows, at[m], at[n])
<1> DEFINE D == DOMAIN rows
           R == {pair \in D \X D : Before(rows, pair[1], pair[2])}
           PlaceOf(j) == Cardinality({i \in D : Before(rows, i, j)})
           at == [n \in D |-> CHOOSE j \in D : PlaceOf(j) = n - 1]
<1>1. PICK k \in Nat : D = 1 .. k
  BY DEF GoodRows
<1>2. /\ IsFiniteSet(D) /\ Cardinality(D) = k
      /\ \A i \in D : i \in Int /\ rows[i].start \in Int /\ rows[i].stop \in Int
  <2>1. IsFiniteSet(1 .. k) /\ Cardinality(1 .. k) = IF 1 > k THEN 0 ELSE k - 1 + 1
    BY FS_Interval
  <2>2. Cardinality(1 .. k) = k
    BY <2>1
  <2> QED BY <2>1, <2>2, <1>1 DEF GoodRows
<1>3. Intervals(rows) = [n \in D |-> rows[at[n]]]
  BY DEF Intervals
<1> HIDE DEF D
<1>4. \A i, j \in D : <<i, j>> \in R <=> Before(rows, i, j)
  OBVIOUS
<1> HIDE DEF R
<1>5. \A i \in D : <<i, i>> \notin R
  BY <1>2, <1>4 DEF Before
<1>6. \A i, j \in D : i # j => <<i, j>> \in R \/ <<j, i>> \in R
  BY <1>2, <1>4 DEF Before
<1>7. \A i, j, l \in D : <<i, j>> \in R /\ <<j, l>> \in R => <<i, l>> \in R
  BY <1>2, <1>4 DEF Before
<1>8. /\ \A j \in D : Rank(D, R, j) \in 0 .. k - 1
      /\ \A i, j \in D : <<i, j>> \in R => Rank(D, R, i) < Rank(D, R, j)
      /\ \A n \in 1 .. k : \E j \in D : Rank(D, R, j) = n - 1
  BY <1>2, <1>5, <1>6, <1>7, RankOnto
<1>9. \A j \in D : Rank(D, R, j) = PlaceOf(j)
  <2>1. TAKE j \in D
  <2>2. {i \in D : <<i, j>> \in R} = {i \in D : Before(rows, i, j)}
    BY <1>4
  <2> QED BY <2>2 DEF Rank
<1> HIDE DEF PlaceOf
<1>10. \A n \in D : at[n] \in D /\ PlaceOf(at[n]) = n - 1
  <2>1. TAKE n \in D
  <2>2. \E j \in D : PlaceOf(j) = n - 1
    BY <1>1, <1>8, <1>9
  <2>3. at[n] = CHOOSE j \in D : PlaceOf(j) = n - 1
    OBVIOUS
  <2> QED BY <2>2, <2>3
<1>11. at \in [D -> D]
  BY <1>10
<1> HIDE DEF at
<1>12. ASSUME NEW m \in D, NEW n \in D, m < n PROVE Before(rows, at[m], at[n])
  <2>1. PlaceOf(at[m]) = m - 1 /\ PlaceOf(at[n]) = n - 1 /\ at[m] \in D /\ at[n] \in D
    BY <1>10
  <2>2. ~(PlaceOf(at[n]) < PlaceOf(at[m])) /\ at[m] # at[n]
    BY <2>1, <1>2, <1>12
  <2>3. ~(<<at[n], at[m]>> \in R)
    BY <2>1, <2>2, <1>8, <1>9
  <2> QED BY <2>1, <2>2, <2>3, <1>4, <1>6
<1>13. ASSUME NEW j \in D PROVE \E n \in D : at[n] = j
  <2>1. PlaceOf(j) \in 0 .. k - 1
    BY <1>8, <1>9
  <2>2. PlaceOf(j) + 1 \in D /\ (PlaceOf(j) + 1) - 1 = PlaceOf(j)
    BY <2>1, <1>1
  <2>3. PlaceOf(at[PlaceOf(j) + 1]) = PlaceOf(j) /\ at[PlaceOf(j) + 1] \in D
    BY <2>2, <1>10
  <2>4. ASSUME NEW i \in D, PlaceOf(i) = PlaceOf(j) PROVE i = j
    <3>1. Rank(D, R, i) = Rank(D, R, j) /\ Rank(D, R, i) \in Int /\ Rank(D, R, j) \in Int
      BY <2>4, <1>8, <1>9
    <3>2. ~(<<i, j>> \in R) /\ ~(<<j, i>> \in R)
      BY <3>1, <1>8
    <3> QED BY <3>2, <1>6
  <2>5. at[PlaceOf(j) + 1] = j
    BY <2>3, <2>4
  <2> QED BY <2>2, <2>5
<1>14. DOMAIN Intervals(rows) = D /\ \A n \in D : Intervals(rows)[n] = rows[at[n]]
  BY <1>3
<1> QED BY <1>11, <1>12, <1>13, <1>14 DEF D

\* The intervals are as many as the rows.
LEMMA IntervalsLength ==
  ASSUME NEW rows, NEW k \in Nat, DOMAIN rows = 1 .. k
  PROVE  Len(Intervals(rows)) = k
<1> DEFINE iv == Intervals(rows)
<1>1. DOMAIN iv = 1 .. k /\ iv = [n \in 1 .. k |-> iv[n]]
  BY DEF Intervals
<1> HIDE DEF iv
<1>2. iv \in Seq({iv[n] : n \in 1 .. k})
  BY <1>1
<1>3. Len(iv) \in Nat /\ DOMAIN iv = 1 .. Len(iv)
  BY <1>2
<1>4. \A a, b \in Nat : 1 .. a = 1 .. b => a = b
  <2>1. TAKE a, b \in Nat
  <2>2. HAVE 1 .. a = 1 .. b
  <2>3. (a \in 1 .. a <=> a \in 1 .. b) /\ (b \in 1 .. a <=> b \in 1 .. b)
    BY <2>2
  <2>4. (0 < a => a <= b) /\ (0 < b => b <= a)
    BY <2>3
  <2> QED BY <2>4
<1>5. 1 .. Len(iv) = 1 .. k
  BY <1>1, <1>3
<1>6. Len(iv) = k
  BY <1>3, <1>4, <1>5
<1> QED BY <1>6 DEF iv

\* The order of the intervals is one of starts first.
LEMMA BeforeStarts ==
  ASSUME NEW rows, GoodRows(rows), NEW i \in DOMAIN rows, NEW j \in DOMAIN rows,
         Before(rows, i, j)
  PROVE  rows[i].start <= rows[j].start
<1>1. rows[i].start \in Int /\ rows[j].start \in Int
  BY DEF GoodRows
<1>2. rows[i].start < rows[j].start \/ rows[i].start = rows[j].start
  BY DEF Before
<1> QED BY <1>1, <1>2

\* Neighbours that do not overlap: then no two do, and the last that started is
\* the only one that can hold a moment.
LEMMA NeighboursTell ==
  ASSUME NEW rows, GoodRows(rows), Overlaps(Intervals(rows)) = {},
         NEW i \in DOMAIN rows, NEW m \in DOMAIN rows, i < m
  PROVE  Intervals(rows)[i].stop < Intervals(rows)[m].start
<1> DEFINE iv == Intervals(rows)
<1>1. PICK k \in Nat : DOMAIN rows = 1 .. k
  BY DEF GoodRows
<1>2. PICK at \in [DOMAIN rows -> DOMAIN rows] :
        /\ DOMAIN iv = DOMAIN rows
        /\ \A n \in DOMAIN rows : iv[n] = rows[at[n]]
        /\ \A x, y \in DOMAIN rows : x < y => Before(rows, at[x], at[y])
  BY IntervalsSorted
<1>3. \A n \in 1 .. k : iv[n].start \in Int /\ iv[n].stop \in Int
  <2> HIDE DEF iv
  <2>1. TAKE n \in 1 .. k
  <2>2. at[n] \in DOMAIN rows /\ iv[n] = rows[at[n]]
    BY <1>1, <1>2
  <2> QED BY <2>2 DEF GoodRows
<1>4. ASSUME NEW x \in 1 .. k, NEW y \in 1 .. k, x < y PROVE iv[x].start <= iv[y].start
  <2>1. /\ at[x] \in DOMAIN rows /\ at[y] \in DOMAIN rows
        /\ iv[x] = rows[at[x]] /\ iv[y] = rows[at[y]]
        /\ Before(rows, at[x], at[y])
    <3> HIDE DEF iv
    <3> QED BY <1>1, <1>2, <1>4
  <2> HIDE DEF iv
  <2> QED BY <2>1, BeforeStarts
<1>5. Len(iv) = k
  BY <1>1, IntervalsLength
<1> HIDE DEF iv
<1>6. i \in 1 .. k /\ m \in 1 .. k /\ i + 1 \in 1 .. k /\ i \in 1 .. Len(iv) - 1
  <2>1. i \in 1 .. k /\ m \in 1 .. k
    BY <1>1
  <2> QED BY <2>1, <1>5
<1>7. ~(iv[i + 1].start <= iv[i].stop)
  BY <1>6 DEF Overlaps, iv
<1>8. iv[i + 1].start <= iv[m].start
  <2>1. CASE i + 1 = m
    BY <2>1, <1>3, <1>6
  <2>2. CASE i + 1 < m
    BY <2>2, <1>4, <1>6
  <2> QED BY <2>1, <2>2, <1>6
<1> QED BY <1>3, <1>6, <1>7, <1>8 DEF iv

\* PullAssigner.find: nothing only if no pull holds the moment, and otherwise
\* the one of those that do that started last.
LEMMA FindIs ==
  ASSUME NEW rows, GoodRows(rows), NEW t \in Int
  PROVE  LET holding == {j \in DOMAIN rows : rows[j].start <= t /\ t <= rows[j].stop}
             hit == Find(Intervals(rows), t)
         IN IF holding = {} THEN hit = NoPull
            ELSE \E j \in holding : /\ hit = rows[j].id
                                    /\ \A i \in holding : rows[i].start <= rows[j].start
<1> DEFINE iv == Intervals(rows)
           holding == {j \in DOMAIN rows : rows[j].start <= t /\ t <= rows[j].stop}
           started == {n \in DOMAIN iv : iv[n].start <= t}
           looked == IF Overlaps(iv) = {} /\ started # {} THEN {Max(started)} ELSE started
           found == {n \in looked : t <= iv[n].stop}
           all == {n \in DOMAIN iv : iv[n].start <= t /\ t <= iv[n].stop}
<1>1. PICK k \in Nat : DOMAIN rows = 1 .. k
  BY DEF GoodRows
<1>2. PICK at \in [DOMAIN rows -> DOMAIN rows] :
        /\ DOMAIN iv = DOMAIN rows
        /\ \A n \in DOMAIN rows : iv[n] = rows[at[n]]
        /\ \A j \in DOMAIN rows : \E n \in DOMAIN rows : at[n] = j
        /\ \A x, y \in DOMAIN rows : x < y => Before(rows, at[x], at[y])
  BY IntervalsSorted
<1>3. \A n \in 1 .. k : iv[n].start \in Int /\ iv[n].stop \in Int
  <2> HIDE DEF iv
  <2>1. TAKE n \in 1 .. k
  <2>2. at[n] \in DOMAIN rows /\ iv[n] = rows[at[n]]
    BY <1>1, <1>2
  <2> QED BY <2>2 DEF GoodRows
<1>4. ASSUME NEW x \in 1 .. k, NEW y \in 1 .. k, x < y PROVE iv[x].start <= iv[y].start
  <2>1. /\ at[x] \in DOMAIN rows /\ at[y] \in DOMAIN rows
        /\ iv[x] = rows[at[x]] /\ iv[y] = rows[at[y]]
        /\ Before(rows, at[x], at[y])
    <3> HIDE DEF iv
    <3> QED BY <1>1, <1>2, <1>4
  <2> HIDE DEF iv
  <2> QED BY <2>1, BeforeStarts
<1>5. Overlaps(iv) = {} => \A x, y \in 1 .. k : x < y => iv[x].stop < iv[y].start
  BY <1>1, NeighboursTell
<1>6. Find(iv, t) = IF found = {} THEN NoPull ELSE iv[Max(found)].id
  BY DEF Find
<1> HIDE DEF iv
<1>7. DOMAIN iv = 1 .. k
  BY <1>1, <1>2
<1>8. found = all
  <2>1. CASE looked = started
    BY <2>1
  <2>2. CASE Overlaps(iv) = {} /\ started # {}
    <3>1. looked = {Max(started)}
      BY <2>2
    <3>2. \A x \in started : x \in Nat /\ x <= k
      BY <1>7
    <3>3. Max(started) \in started /\ \A x \in started : x <= Max(started)
      <4> HIDE DEF started
      <4> QED BY <2>2, <3>2, GreatestIs
    <3>4. ASSUME NEW n \in all PROVE n = Max(started)
      <4>1. n \in started /\ n \in 1 .. k /\ Max(started) \in 1 .. k
        BY <3>3, <1>7
      <4>2. n <= Max(started)
        BY <4>1, <3>3
      <4>3. iv[Max(started)].start <= t /\ t <= iv[n].stop
        BY <3>3
      <4>4. ~(n < Max(started))
        BY <4>1, <4>3, <2>2, <1>3, <1>5
      <4> QED BY <4>1, <4>2, <4>4
    <3>5. found \subseteq all
      BY <3>1, <3>3
    <3>6. all \subseteq found
      <4>1. \A n \in all : n \in looked
        BY <3>1, <3>4
      <4> QED BY <4>1
    <3> QED BY <3>5, <3>6
  <2> QED BY <2>1, <2>2
<1>9. ASSUME NEW n \in all PROVE n \in Nat /\ n <= k /\ n \in 1 .. k /\ at[n] \in holding
  <2>1. n \in 1 .. k
    BY <1>7
  <2>2. iv[n] = rows[at[n]] /\ at[n] \in DOMAIN rows
    BY <2>1, <1>1, <1>2
  <2> QED BY <2>1, <2>2
<1>10. \A j \in holding : \E n \in all : at[n] = j
  BY <1>1, <1>2, <1>7
<1> HIDE DEF found, all, looked, started, holding
<1>11. CASE all = {}
  BY <1>6, <1>8, <1>10, <1>11 DEF iv, holding
<1>12. CASE all # {}
  <2>1. Max(all) \in all /\ \A x \in all : x <= Max(all)
    BY <1>9, <1>12, GreatestIs
  <2>2. Find(iv, t) = rows[at[Max(all)]].id
    BY <2>1, <1>1, <1>2, <1>6, <1>8, <1>9, <1>12
  <2>3. ASSUME NEW i \in holding PROVE rows[i].start <= rows[at[Max(all)]].start
    <3>1. PICK n \in all : at[n] = i
      BY <1>10
    <3>2. iv[n].start = rows[i].start /\ iv[Max(all)].start = rows[at[Max(all)]].start
      BY <3>1, <2>1, <1>1, <1>2, <1>9
    <3>3. n <= Max(all) /\ n \in 1 .. k /\ Max(all) \in 1 .. k
      BY <2>1, <1>9
    <3>4. iv[n].start <= iv[Max(all)].start
      <4>1. CASE n = Max(all)
        BY <4>1, <3>3, <1>3
      <4>2. CASE n < Max(all)
        BY <4>2, <3>3, <1>4
      <4> QED BY <4>1, <4>2, <3>3
    <3> QED BY <3>2, <3>4
  <2>4. at[Max(all)] \in holding
    BY <2>1, <1>9
  <2> QED BY <2>2, <2>3, <2>4 DEF iv, holding
<1> QED BY <1>11, <1>12

\* The pulls of an event, of any rows.
HoldingOf(rows, t) == {p \in ToSet(rows) : p.start <= t /\ t <= p.stop}

\* An event is in a pull of those that hold it, if any does.
WellAssigned(rows, e) ==
  IF HoldingOf(rows, e.at) = {} THEN e.pull = NoPull
  ELSE \E p \in HoldingOf(rows, e.at) :
         /\ e.pull = p.id
         /\ e.sincePull = e.at - p.start
         /\ \A q \in HoldingOf(rows, e.at) : q.start <= p.start

\* A row's id is found again.
LEMMA StartFound ==
  ASSUME NEW rows, GoodRows(rows), NEW j \in DOMAIN rows
  PROVE  StartOf(rows, rows[j].id) = rows[j].start
<1> DEFINE c == CHOOSE i \in DOMAIN rows : rows[i].id = rows[j].id
<1>1. c \in DOMAIN rows /\ rows[c].id = rows[j].id
  OBVIOUS
<1>2. c = j
  BY <1>1 DEF GoodRows
<1> QED BY <1>2 DEF StartOf

\* What NormalizeEvent makes of a timestamp.
LEMMA EventAssigned ==
  ASSUME NEW rows, GoodRows(rows), NEW t \in Moments \cup {NoTime}
  PROVE  /\ NormalizeEvent(rows, t).at \in Int
         /\ NormalizeEvent(rows, t).timed => WellAssigned(rows, NormalizeEvent(rows, t))
<1> DEFINE e == NormalizeEvent(rows, t)
           holding == {j \in DOMAIN rows : rows[j].start <= t /\ t <= rows[j].stop}
           hit == Find(Intervals(rows), t)
<1>1. e.at \in Int
  BY IntakeAssumption DEF NormalizeEvent
<1>2. ASSUME t # NoTime PROVE WellAssigned(rows, e)
  <2>1. t \in Int
    BY <1>2, IntakeAssumption
  <2>2. /\ e.at = t /\ e.pull = hit
        /\ e.sincePull = IF hit = NoPull THEN NoTime ELSE t - StartOf(rows, hit)
    BY <1>2 DEF NormalizeEvent
  <2>3. IF holding = {} THEN hit = NoPull
        ELSE \E j \in holding : /\ hit = rows[j].id
                                /\ \A i \in holding : rows[i].start <= rows[j].start
    BY <2>1, FindIs
  <2>4. HoldingOf(rows, t) = {rows[j] : j \in holding}
    BY DEF HoldingOf, ToSet
  <2> HIDE DEF e, hit
  <2>5. CASE holding = {}
    BY <2>2, <2>3, <2>4, <2>5 DEF WellAssigned
  <2>6. CASE holding # {}
    <3>1. PICK j \in holding : /\ hit = rows[j].id
                               /\ \A i \in holding : rows[i].start <= rows[j].start
      BY <2>3, <2>6
    <3>2. hit # NoPull
      BY <3>1, IntakeAssumption DEF GoodRows
    <3>3. e.sincePull = t - rows[j].start
      BY <2>2, <3>1, <3>2, StartFound
    <3>4. rows[j] \in HoldingOf(rows, t)
      BY <2>4
    <3>5. \A q \in HoldingOf(rows, t) : q.start <= rows[j].start
      BY <2>4, <3>1
    <3> HIDE DEF holding
    <3> QED BY <2>2, <3>1, <3>3, <3>4, <3>5 DEF WellAssigned
  <2> QED BY <2>5, <2>6
<1>3. e.timed = (t # NoTime)
  BY DEF NormalizeEvent
<1> QED BY <1>1, <1>2, <1>3

\* The rows are those of an answer, and as long as they are the rows that the
\* events were given to, each event is where the rows say.
IntakeInv ==
  /\ served \in PullSets
  /\ cached \in PullSets \cup {NotFetched}
  /\ GoodRows(pulls)
  /\ \A e \in events : e.at \in Int
  /\ ~moved => \A e \in events : e.timed => WellAssigned(pulls, e)

\* Nothing is stored of a run at first.
LEMMA IntakeStarts ==
  ASSUME IntakeInit
  PROVE  IntakeInv
<1>1. GoodRows(<<>>)
  BY DEF GoodRows
<1> QED BY <1>1 DEF IntakeInit, IntakeInv

\* The pulls keep their order and the events their pulls in every step.
LEMMA IntakeStep ==
  ASSUME IntakeInv, [IntakeNext]_intakeVars
  PROVE  IntakeInv'
<1>1. CASE ServerMoves
  BY <1>1 DEF ServerMoves, IntakeInv, WellAssigned, HoldingOf
<1>2. CASE EmptyRawCache
  BY <1>2 DEF EmptyRawCache, IntakeInv, WellAssigned, HoldingOf
<1>3. CASE ResetRunEvents
  BY <1>3 DEF ResetRunEvents, IntakeInv
<1>4. CASE CollectPulls
  <2>1. cached' \in PullSets
    BY <1>4 DEF CollectPulls, IntakeInv
  <2>2. GoodRows(pulls')
    BY <1>4, <2>1, RowsNormalized DEF CollectPulls
  <2>3. ~moved' => ~moved /\ (events' = {} \/ pulls' = pulls)
    BY <1>4 DEF CollectPulls
  <2>4. served' = served /\ events' = events
    BY <1>4 DEF CollectPulls
  <2>5. ASSUME ~moved', NEW e \in events', e.timed PROVE WellAssigned(pulls', e)
    <3>1. pulls' = pulls /\ WellAssigned(pulls, e)
      BY <2>3, <2>4, <2>5 DEF IntakeInv
    <3> QED BY <3>1
  <2> QED BY <2>1, <2>2, <2>4, <2>5 DEF IntakeInv
<1>5. ASSUME NEW t \in Moments \cup {NoTime}, StoreEvent(t) PROVE IntakeInv'
  <2>1. /\ events' = events \cup {NormalizeEvent(pulls, t)}
        /\ served' = served /\ cached' = cached /\ pulls' = pulls /\ moved' = moved
    BY <1>5 DEF StoreEvent
  <2>2. /\ NormalizeEvent(pulls, t).at \in Int
        /\ NormalizeEvent(pulls, t).timed => WellAssigned(pulls, NormalizeEvent(pulls, t))
    BY EventAssigned DEF IntakeInv
  <2>3. ASSUME ~moved', NEW e \in events', e.timed PROVE WellAssigned(pulls', e)
    BY <2>1, <2>2, <2>3 DEF IntakeInv
  <2>4. \A e \in events' : e.at \in Int
    BY <2>1, <2>2 DEF IntakeInv
  <2> QED BY <2>1, <2>3, <2>4 DEF IntakeInv
<1>6. CASE UNCHANGED intakeVars
  BY <1>6 DEF intakeVars, IntakeInv, WellAssigned, HoldingOf
<1> QED BY <1>1, <1>2, <1>3, <1>4, <1>5, <1>6 DEF IntakeNext

\* As long as its pulls were not replaced by others, an event is in a pull if
\* one holds it, in one that does, and of several in the one that started last,
\* with the time since that one's start.
THEOREM EventsAssigned == IntakeSpec => []EventsInTheirPulls
<1>1. IntakeInit => IntakeInv
  BY IntakeStarts
<1>2. IntakeInv /\ [IntakeNext]_intakeVars => IntakeInv'
  BY IntakeStep
<1>3. IntakeInv => EventsInTheirPulls
  <2>1. \A t : Holding(t) = HoldingOf(pulls, t)
    BY DEF Holding, HoldingOf
  <2> QED BY <2>1 DEF IntakeInv, EventsInTheirPulls, WellAssigned
<1> QED BY <1>1, <1>2, <1>3, PTL DEF IntakeSpec

\* Two rows that hold one moment are a pair, the earlier one first.
LEMMA HoldersPair ==
  ASSUME NEW rows, GoodRows(rows), NEW t \in Int,
         NEW p \in HoldingOf(rows, t), NEW q \in HoldingOf(rows, t),
         p # q, p.start <= q.start
  PROVE  <<p, q>> \in OverlappingPairs(rows)
<1>1. PICK i \in DOMAIN rows : p = rows[i]
  BY DEF HoldingOf, ToSet
<1>2. PICK j \in DOMAIN rows : q = rows[j]
  BY DEF HoldingOf, ToSet
<1>3. p.id # q.id
  BY <1>1, <1>2 DEF GoodRows
<1>4. q.start <= p.stop
  <2>1. q.start \in Int /\ p.stop \in Int /\ q.start <= t /\ t <= p.stop
    BY <1>1, <1>2 DEF GoodRows, HoldingOf
  <2> QED BY <2>1
<1>5. p \in ToSet(rows) /\ q \in ToSet(rows)
  BY DEF HoldingOf
<1> QED BY <1>3, <1>4, <1>5 DEF OverlappingPairs

\* A pair that is not one of neighbours that touch, with an event both hold.
LEMMA EventContests ==
  ASSUME GoodRows(pulls), NEW e \in events, e.at \in Int,
         NEW p \in HoldingOf(pulls, e.at), NEW q \in HoldingOf(pulls, e.at),
         p # q, p.start <= q.start
  PROVE  OverlapVerdict = "contested" \/ (e.at = p.stop /\ e.at = q.start)
<1> DEFINE pairs == OverlappingPairs(pulls)
           contested == {c \in pairs : KindOf(c) # "touching" /\ InWindow(c) # {}}
<1>1. <<p, q>> \in pairs
  BY HoldersPair
<1>2. /\ p.start \in Int /\ p.stop \in Int /\ q.start \in Int /\ q.stop \in Int
      /\ q.start <= e.at /\ e.at <= p.stop /\ e.at <= q.stop
  BY DEF HoldingOf, ToSet, GoodRows
<1>3. CASE q.start = p.stop
  BY <1>2, <1>3
<1>4. CASE q.start # p.stop
  <2>1. KindOf(<<p, q>>) # "touching"
    BY <1>4 DEF KindOf
  <2>2. e \in InWindow(<<p, q>>)
    BY <1>2 DEF InWindow, Shorter
  <2>3. <<p, q>> \in contested
    BY <1>1, <2>1, <2>2
  <2>4. OverlapVerdict = IF pairs = {} THEN "none"
                         ELSE IF \A c \in pairs : KindOf(c) = "touching" THEN "boundaries"
                         ELSE IF contested = {} THEN "unaffected" ELSE "contested"
    BY DEF OverlapVerdict
  <2> HIDE DEF pairs, contested
  <2> QED BY <1>1, <2>1, <2>3, <2>4
<1> QED BY <1>3, <1>4

\* The warning of the collector, which compares neighbours in the order of the
\* search, is there exactly if two pulls share a moment.
LEMMA WarningTells ==
  ASSUME NEW rows, GoodRows(rows)
  PROVE  (OverlappingPairs(rows) = {}) <=> (Overlaps(Intervals(rows)) = {})
<1> DEFINE iv == Intervals(rows)
<1>1. PICK k \in Nat : DOMAIN rows = 1 .. k
  BY DEF GoodRows
<1>2. PICK at \in [DOMAIN rows -> DOMAIN rows] :
        /\ DOMAIN iv = DOMAIN rows
        /\ \A n \in DOMAIN rows : iv[n] = rows[at[n]]
        /\ \A j \in DOMAIN rows : \E n \in DOMAIN rows : at[n] = j
        /\ \A x, y \in DOMAIN rows : x < y => Before(rows, at[x], at[y])
  BY IntervalsSorted
<1>3. Len(iv) = k
  BY <1>1, IntervalsLength
<1>4. Overlaps(iv) = {} => \A x, y \in 1 .. k : x < y => iv[x].stop < iv[y].start
  BY <1>1, NeighboursTell
<1> HIDE DEF iv
<1>5. ASSUME NEW n \in 1 .. k
      PROVE  /\ at[n] \in DOMAIN rows /\ iv[n] = rows[at[n]] /\ iv[n] \in ToSet(rows)
             /\ iv[n].start \in Int /\ iv[n].stop \in Int /\ iv[n].start <= iv[n].stop
  <2>1. at[n] \in DOMAIN rows /\ iv[n] = rows[at[n]]
    BY <1>1, <1>2
  <2> QED BY <2>1 DEF GoodRows, ToSet
<1>6. ASSUME NEW n \in Overlaps(iv) PROVE OverlappingPairs(rows) # {}
  <2>1. n \in 1 .. k /\ n + 1 \in 1 .. k /\ n < n + 1
    <3>1. n \in 1 .. k - 1
      BY <1>3 DEF Overlaps
    <3>2. k \in Nat
      BY <1>1
    <3> QED BY <3>1, <3>2
  <2>2. iv[n + 1].start <= iv[n].stop
    BY DEF Overlaps
  <2>3. Before(rows, at[n], at[n + 1])
    BY <2>1, <1>1, <1>2
  <2>4. iv[n].start <= iv[n + 1].start
    BY <2>1, <2>3, <1>5, BeforeStarts
  <2>5. at[n] # at[n + 1]
    <3>1. \A i \in DOMAIN rows : ~Before(rows, i, i)
      BY <1>1 DEF Before, GoodRows
    <3> QED BY <2>1, <2>3, <3>1, <1>5
  <2>6. iv[n].id # iv[n + 1].id
    <3>1. at[n] \in DOMAIN rows /\ at[n + 1] \in DOMAIN rows
      BY <2>1, <1>5
    <3>2. rows[at[n]].id # rows[at[n + 1]].id
      BY <3>1, <2>5 DEF GoodRows
    <3> QED BY <2>1, <3>2, <1>5
  <2>7. <<iv[n], iv[n + 1]>> \in OverlappingPairs(rows)
    BY <2>1, <2>2, <2>4, <2>6, <1>5 DEF OverlappingPairs
  <2> QED BY <2>7
<1>7. ASSUME Overlaps(iv) = {}, NEW pair \in OverlappingPairs(rows) PROVE FALSE
  <2>1. PICK i \in DOMAIN rows : pair[1] = rows[i]
    BY <1>7 DEF OverlappingPairs, ToSet
  <2>2. PICK j \in DOMAIN rows : pair[2] = rows[j]
    BY <1>7 DEF OverlappingPairs, ToSet
  <2>3. pair[1].id # pair[2].id /\ pair[2].start >= pair[1].start /\ pair[2].start <= pair[1].stop
    BY <1>7 DEF OverlappingPairs
  <2>4. PICK m \in 1 .. k : at[m] = i
    BY <1>1, <1>2
  <2>5. PICK n \in 1 .. k : at[n] = j
    BY <1>1, <1>2
  <2>6. pair[1] = iv[m] /\ pair[2] = iv[n] /\ m # n
    BY <2>1, <2>2, <2>3, <2>4, <2>5, <1>5
  <2>7. CASE m < n
    <3>1. iv[m].stop < iv[n].start
      BY <2>7, <1>4, <1>7
    <3>2. iv[n].start <= iv[m].stop
      BY <2>3, <2>6
    <3> QED BY <3>1, <3>2, <1>5
  <2>8. CASE n < m
    <3>1. iv[n].stop < iv[m].start
      BY <2>8, <1>4, <1>7
    <3>2. iv[n].start >= iv[m].start
      BY <2>3, <2>6
    <3>3. /\ iv[n].start \in Int /\ iv[n].stop \in Int /\ iv[m].start \in Int
          /\ iv[n].start <= iv[n].stop
      BY <1>5
    <3> QED BY <3>1, <3>2, <3>3
  <2> QED BY <2>6, <2>7, <2>8
<1>8. Overlaps(iv) = {} <=> OverlappingPairs(rows) = {}
  BY <1>6, <1>7
<1> QED BY <1>8 DEF iv

\* Both numbers that tell of overlaps can be relied on: where the report denies
\* a contest no event lies in two pulls but on their boundary, and the collector
\* warns exactly if two pulls share a moment.
THEOREM OverlapsTold == IntakeSpec => []OverlapVerdictRight
<1>1. IntakeInit => IntakeInv
  BY IntakeStarts
<1>2. IntakeInv /\ [IntakeNext]_intakeVars => IntakeInv'
  BY IntakeStep
<1>3. ASSUME IntakeInv PROVE OverlapVerdictRight
  <2>1. \A t : Holding(t) = HoldingOf(pulls, t)
    BY DEF Holding, HoldingOf
  <2>2. GoodRows(pulls) /\ \A e \in events : e.at \in Int
    BY <1>3 DEF IntakeInv
  <2>3. ASSUME OverlapVerdict # "contested", NEW e \in events,
               NEW p \in Holding(e.at), NEW q \in Holding(e.at), p # q
        PROVE  (e.at = p.stop /\ e.at = q.start) \/ (e.at = q.stop /\ e.at = p.start)
    <3>1. /\ e.at \in Int /\ p \in HoldingOf(pulls, e.at) /\ q \in HoldingOf(pulls, e.at)
      BY <2>1, <2>2, <2>3
    <3>2. p.start \in Int /\ q.start \in Int
      BY <3>1, <2>2 DEF HoldingOf, ToSet, GoodRows
    <3>3. CASE p.start <= q.start
      BY <3>1, <3>3, <2>2, <2>3, EventContests
    <3>4. CASE q.start <= p.start
      BY <3>1, <3>4, <2>2, <2>3, EventContests
    <3> QED BY <3>2, <3>3, <3>4
  <2>4. (OverlapVerdict = "none") <=> (OverlappingPairs(pulls) = {})
    BY DEF OverlapVerdict
  <2>5. (OverlapVerdict = "none") = (Overlaps(Intervals(pulls)) = {})
    BY <2>2, <2>4, WarningTells
  <2> QED BY <2>3, <2>5 DEF OverlapVerdictRight
<1> QED BY <1>1, <1>2, <1>3, PTL DEF IntakeSpec

(***************************************************************************)
(* The reconnaissance report.                                              *)
(***************************************************************************)

(***************************************************************************)
(* The recon report.                                                       *)
(***************************************************************************)
\* The steps of the run in their order.
Turn ==
  [auth |-> 1, rate_limit |-> 2, schema_types |-> 3, field_verification |-> 4,
   discovery_paths |-> 5, world_zones |-> 6, reports_probe |-> 7, report_metadata |-> 8,
   fights |-> 9, master_data |-> 10, query_cost |-> 11, dungeon_pulls |-> 12,
   event_samples |-> 13, pagination_probe |-> 14]

\* What is recorded under the steps that are none of the plan.
Extras == {"api_usage", "report_probes", "discovery_reports_arguments"}

IsFindings(f) == f = [steps |-> f.steps, parts |-> f.parts, limits |-> f.limits,
                      fixtures |-> f.fixtures]

\* g is what step p makes of f: nothing of another step is lost.
Grown(f, g, p) ==
  /\ IsFindings(g)
  /\ DOMAIN f.steps \subseteq DOMAIN g.steps
  /\ DOMAIN g.steps \subseteq DOMAIN f.steps \cup {p} \cup Extras
  /\ \A s \in DOMAIN f.steps : s # p /\ s \notin Extras => g.steps[s] = f.steps[s]
  /\ \A k \in DOMAIN f.parts :
       k[1] # p => k \in DOMAIN g.parts /\ g.parts[k] = f.parts[k]
  /\ f.limits \subseteq g.limits

\* The operations on findings, and what they leave alone.
LEMMA FindingsOperations ==
  ASSUME NEW f, IsFindings(f)
  PROVE  /\ \A s, status :
              /\ IsFindings(Record(f, s, status))
              /\ DOMAIN Record(f, s, status).steps = DOMAIN f.steps \cup {s}
              /\ Record(f, s, status).steps[s] = status
              /\ \A t \in DOMAIN f.steps :
                   t # s => Record(f, s, status).steps[t] = f.steps[t]
              /\ Record(f, s, status).parts = f.parts
              /\ Record(f, s, status).limits = f.limits
         /\ \A texts : /\ IsFindings(Limitation(f, texts))
                       /\ Limitation(f, texts).steps = f.steps
                       /\ Limitation(f, texts).parts = f.parts
                       /\ Limitation(f, texts).limits = f.limits \cup texts
         /\ \A s : /\ IsFindings(SaveFixture(f, s))
                   /\ SaveFixture(f, s).steps = f.steps
                   /\ SaveFixture(f, s).parts = f.parts
                   /\ SaveFixture(f, s).limits = f.limits
         /\ \A s, statuses :
              /\ IsFindings(RecordParts(f, s, statuses))
              /\ RecordParts(f, s, statuses).steps = f.steps
              /\ RecordParts(f, s, statuses).limits = f.limits
              /\ \A l \in DOMAIN statuses :
                   /\ <<s, l>> \in DOMAIN RecordParts(f, s, statuses).parts
                   /\ RecordParts(f, s, statuses).parts[<<s, l>>] = statuses[l]
              /\ \A k \in DOMAIN f.parts :
                   k[1] # s => /\ k \in DOMAIN RecordParts(f, s, statuses).parts
                               /\ RecordParts(f, s, statuses).parts[k] = f.parts[k]
<1>1. \A s, status : Record(f, s, status) =
        [steps |-> With(f.steps, s, status), parts |-> f.parts, limits |-> f.limits,
         fixtures |-> f.fixtures]
  BY DEF Record, IsFindings
<1>2. \A texts : Limitation(f, texts) =
        [steps |-> f.steps, parts |-> f.parts, limits |-> f.limits \cup texts,
         fixtures |-> f.fixtures]
  BY SMTT(30) DEF Limitation, IsFindings
<1>3. \A s : SaveFixture(f, s) =
        [steps |-> f.steps, parts |-> f.parts, limits |-> f.limits,
         fixtures |-> f.fixtures \cup {s}]
  BY DEF SaveFixture, IsFindings
<1>4. \A s, statuses : RecordParts(f, s, statuses) =
        [steps |-> f.steps, 
         parts |-> [k \in DOMAIN f.parts \cup {<<s, l>> : l \in DOMAIN statuses} |->
                      IF k[1] = s THEN statuses[k[2]] ELSE f.parts[k]],
         limits |-> f.limits, fixtures |-> f.fixtures]
  BY DEF RecordParts, IsFindings
<1>5. ASSUME NEW s, NEW status
      PROVE  /\ IsFindings(Record(f, s, status))
             /\ DOMAIN Record(f, s, status).steps = DOMAIN f.steps \cup {s}
             /\ Record(f, s, status).steps[s] = status
             /\ \A t \in DOMAIN f.steps :
                  t # s => Record(f, s, status).steps[t] = f.steps[t]
             /\ Record(f, s, status).parts = f.parts
             /\ Record(f, s, status).limits = f.limits
  <2> DEFINE w == With(f.steps, s, status)
  <2>1. /\ DOMAIN w = DOMAIN f.steps \cup {s} /\ w[s] = status
        /\ \A t \in DOMAIN f.steps : t # s => w[t] = f.steps[t]
    BY DEF With
  <2> HIDE DEF w
  <2>2. Record(f, s, status) = [steps |-> w, parts |-> f.parts, limits |-> f.limits,
                                fixtures |-> f.fixtures]
    BY <1>1 DEF w
  <2> QED BY <2>1, <2>2 DEF IsFindings
<1>6. ASSUME NEW texts
      PROVE  /\ IsFindings(Limitation(f, texts))
             /\ Limitation(f, texts).steps = f.steps
             /\ Limitation(f, texts).parts = f.parts
             /\ Limitation(f, texts).limits = f.limits \cup texts
  BY <1>2 DEF IsFindings
<1>7. ASSUME NEW s
      PROVE  /\ IsFindings(SaveFixture(f, s))
             /\ SaveFixture(f, s).steps = f.steps
             /\ SaveFixture(f, s).parts = f.parts
             /\ SaveFixture(f, s).limits = f.limits
  BY <1>3 DEF IsFindings
<1>8. ASSUME NEW s, NEW statuses
      PROVE  /\ IsFindings(RecordParts(f, s, statuses))
             /\ RecordParts(f, s, statuses).steps = f.steps
             /\ RecordParts(f, s, statuses).limits = f.limits
             /\ \A l \in DOMAIN statuses :
                  /\ <<s, l>> \in DOMAIN RecordParts(f, s, statuses).parts
                  /\ RecordParts(f, s, statuses).parts[<<s, l>>] = statuses[l]
             /\ \A k \in DOMAIN f.parts :
                  k[1] # s => /\ k \in DOMAIN RecordParts(f, s, statuses).parts
                              /\ RecordParts(f, s, statuses).parts[k] = f.parts[k]
  <2> DEFINE K == DOMAIN f.parts \cup {<<s, l>> : l \in DOMAIN statuses}
             w == [k \in K |-> IF k[1] = s THEN statuses[k[2]] ELSE f.parts[k]]
  <2>1. \A l \in DOMAIN statuses : <<s, l>> \in DOMAIN w /\ w[<<s, l>>] = statuses[l]
    OBVIOUS
  <2>2. \A k \in DOMAIN f.parts : k[1] # s => k \in DOMAIN w /\ w[k] = f.parts[k]
    OBVIOUS
  <2>3. RecordParts(f, s, statuses) = [steps |-> f.steps, parts |-> w, limits |-> f.limits,
                                       fixtures |-> f.fixtures]
    BY <1>4
  <2> HIDE DEF w
  <2> QED BY <2>1, <2>2, <2>3 DEF IsFindings
<1> QED BY <1>5, <1>6, <1>7, <1>8

\* Each of them grows the findings, by its own step.
LEMMA OperationsGrow ==
  ASSUME NEW f, NEW g, NEW p, Grown(f, g, p)
  PROVE  /\ \A status : Grown(f, Record(g, p, status), p)
         /\ \A s \in Extras : \A status : Grown(f, Record(g, s, status), p)
         /\ \A texts : Grown(f, Limitation(g, texts), p)
         /\ \A s : Grown(f, SaveFixture(g, s), p)
         /\ \A statuses : Grown(f, RecordParts(g, p, statuses), p)
<1>0. IsFindings(g)
  BY DEF Grown
<1>1. ASSUME NEW s \in Extras \cup {p}, NEW status PROVE Grown(f, Record(g, s, status), p)
  <2> DEFINE h == Record(g, s, status)
  <2>1. /\ IsFindings(h)
        /\ DOMAIN h.steps = DOMAIN g.steps \cup {s}
        /\ \A t \in DOMAIN g.steps : t # s => h.steps[t] = g.steps[t]
        /\ h.parts = g.parts /\ h.limits = g.limits
    BY <1>0, FindingsOperations
  <2> HIDE DEF h
  <2>2. Grown(f, h, p)
    BY <2>1 DEF Grown
  <2> QED BY <2>2 DEF h
<1>2. ASSUME NEW texts PROVE Grown(f, Limitation(g, texts), p)
  <2> DEFINE h == Limitation(g, texts)
  <2>1. /\ IsFindings(h) /\ h.steps = g.steps /\ h.parts = g.parts
        /\ h.limits = g.limits \cup texts
    BY <1>0, FindingsOperations
  <2> HIDE DEF h
  <2>2. Grown(f, h, p)
    BY <2>1 DEF Grown
  <2> QED BY <2>2 DEF h
<1>3. ASSUME NEW s PROVE Grown(f, SaveFixture(g, s), p)
  <2> DEFINE h == SaveFixture(g, s)
  <2>1. /\ IsFindings(h) /\ h.steps = g.steps /\ h.parts = g.parts
        /\ h.limits = g.limits
    BY <1>0, FindingsOperations
  <2> HIDE DEF h
  <2>2. Grown(f, h, p)
    BY <2>1 DEF Grown
  <2> QED BY <2>2 DEF h
<1>4. ASSUME NEW statuses PROVE Grown(f, RecordParts(g, p, statuses), p)
  <2> DEFINE h == RecordParts(g, p, statuses)
  <2>1. /\ IsFindings(h) /\ h.steps = g.steps /\ h.limits = g.limits
        /\ \A k \in DOMAIN g.parts :
             k[1] # p => k \in DOMAIN h.parts /\ h.parts[k] = g.parts[k]
    BY <1>0, FindingsOperations
  <2> HIDE DEF h
  <2>2. Grown(f, h, p)
    BY <2>1 DEF Grown
  <2> QED BY <2>2 DEF h
<1> QED BY <1>1, <1>2, <1>3, <1>4

\* Findings grow out of themselves.
LEMMA GrownFromItself ==
  ASSUME NEW f, NEW p, IsFindings(f)
  PROVE  Grown(f, f, p)
BY DEF Grown

\* What a call that failed is to leave in the findings.
FailureTold(f, c) ==
  IF c[2] = "" THEN Shows(f, c[1], "FAILED")
  ELSE c \in DOMAIN f.parts /\ f.parts[c] = "FAILED"

IdAbsent(limits) == <<"absent", "ReportFight", "id">> \in limits

AbsentSaid(limits) ==
  \A t \in DOMAIN Wanted : \A f \in AbsentFields(Schema, t, Wanted[t]) :
    <<"absent", t, f>> \in limits

FieldSaid(limits, selection, t, f) ==
  \/ f \in selection.plain
  \/ /\ f \in DOMAIN selection.nested
     /\ \A leaf \in LeafFields(Schema, Schema[t][f].of, {}) \ selection.nested[f] :
          <<"dropped", t, leaf>> \in limits
  \/ <<"absent", t, f>> \in limits
  \/ <<"no leaves", t, f>> \in limits

MissingSaid(limits, selections) ==
  \A t \in DOMAIN selections : \A f \in Wanted[t] :
    FieldSaid(limits, selections[t], t, f)

FightKnown(has, selections) ==
  has => /\ "ReportFight" \in DOMAIN selections
         /\ selections["ReportFight"] = Selection("ReportFight", {})

\* While the run is on: the steps behind it are in the findings, with what
\* failed in them, and the metadata were answered once they are behind.
Underway ==
  /\ \A c \in failed :
       c[1] \in DOMAIN Turn /\ Turn[c[1]] < Turn[pc] /\ FailureTold(findings, c)
  /\ \A s \in DOMAIN Turn :
       Turn[s] < Turn[pc] =>
         s \in DOMAIN findings.steps \/ (s = "dungeon_pulls" /\ IdAbsent(findings.limits))
  /\ Turn[pc] > 4 => AbsentSaid(findings.limits)
  /\ Turn[pc] <= 8 => /\ "report_metadata" \notin DOMAIN findings.steps
                      /\ retry = [attempt |-> retry.attempt, excluded |-> retry.excluded]
                      /\ retry.attempt \in 1 .. MaxAttempts
                      /\ Cardinality(retry.excluded) = retry.attempt - 1
  /\ Turn[pc] > 8 => Shows(findings, "report_metadata", "OK")

AllTold(report, failures) ==
  /\ \A step \in SchemaSteps \cup ReportSteps :
       step \in DOMAIN report.steps \/ Excused(report, step)
  /\ \A c \in failures : FailureTold(report, c)

\* Why the metadata may be lost.
LossExplained(report, failures, excluded) ==
  Shows(report, "report_metadata", "FAILED") =>
    \/ <<"report_metadata", "">> \in failures
    \/ ~Report.found
    \/ IsEmpty(Selection("Report", excluded))
    \/ Cardinality(RefusedNames) >= MaxAttempts

ReconInv ==
  /\ world \in Worlds
  /\ IsFindings(findings)
  /\ pc \in DOMAIN Turn \cup {"done", "escaped"}
  /\ written = IF pc = "done" THEN findings ELSE NoReport
  /\ MissingSaid(findings.limits, asked)
  /\ FightKnown(fight, asked)
  /\ retry.excluded \subseteq RefusedNames /\ IsFiniteSet(retry.excluded)
  /\ pc \in DOMAIN Turn => Underway
  /\ pc = "done" => /\ AllTold(findings, failed)
                    /\ LossExplained(findings, failed, retry.excluded)

\* The order of the steps.
LEMMA Turns ==
  /\ DOMAIN Turn = {"auth", "rate_limit", "schema_types", "field_verification",
                    "discovery_paths", "world_zones", "reports_probe", "report_metadata",
                    "fights", "master_data", "query_cost", "dungeon_pulls",
                    "event_samples", "pagination_probe"}
  /\ Turn["auth"] = 1 /\ Turn["rate_limit"] = 2 /\ Turn["schema_types"] = 3
  /\ Turn["field_verification"] = 4 /\ Turn["discovery_paths"] = 5
  /\ Turn["world_zones"] = 6 /\ Turn["reports_probe"] = 7
  /\ Turn["report_metadata"] = 8 /\ Turn["fights"] = 9 /\ Turn["master_data"] = 10
  /\ Turn["query_cost"] = 11 /\ Turn["dungeon_pulls"] = 12
  /\ Turn["event_samples"] = 13 /\ Turn["pagination_probe"] = 14
BY DEF Turn

\* A failure that was told stays told as the findings grow by other steps.
LEMMA StaysTold ==
  ASSUME NEW f, NEW g, NEW p, Grown(f, g, p), NEW c, FailureTold(f, c),
         c[1] # p, c[1] \notin Extras
  PROVE  FailureTold(g, c)
BY DEF Grown, FailureTold, Shows

\* What is said stays said.
LEMMA StaysSaid ==
  ASSUME NEW l, NEW m, l \subseteq m
  PROVE  /\ AbsentSaid(l) => AbsentSaid(m)
         /\ \A selections : MissingSaid(l, selections) => MissingSaid(m, selections)
         /\ IdAbsent(l) => IdAbsent(m)
<1>1. \A selection, t, f : FieldSaid(l, selection, t, f) => FieldSaid(m, selection, t, f)
  BY DEF FieldSaid
<1> QED BY <1>1 DEF AbsentSaid, MissingSaid, IdAbsent

\* The server is one for the whole run.
LEMMA SameWorld ==
  ASSUME world' = world
  PROVE  /\ AbsentSaid(findings.limits)' <=> AbsentSaid(findings'.limits)
         /\ MissingSaid(findings.limits, asked)' <=> MissingSaid(findings'.limits, asked')
         /\ FightKnown(fight, asked)' <=> FightKnown(fight', asked')
         /\ RefusedNames' = RefusedNames
         /\ AllTold(findings, failed)' <=> AllTold(findings', failed')
         /\ LossExplained(findings, failed, retry.excluded)'
              <=> LossExplained(findings', failed', retry'.excluded)
<1>1. Schema' = Schema /\ Report' = Report
  BY DEF Schema, Report
<1>2. \A t, e : Selection(t, e)' = Selection(t, e)
  BY <1>1 DEF Selection
<1>3. RefusedNames' = RefusedNames
  BY <1>1 DEF RefusedNames
<1>4. AbsentSaid(findings.limits)' <=> AbsentSaid(findings'.limits)
  BY <1>1 DEF AbsentSaid
<1>5. MissingSaid(findings.limits, asked)' <=> MissingSaid(findings'.limits, asked')
  BY <1>1 DEF MissingSaid, FieldSaid
<1>6. FightKnown(fight, asked)' <=> FightKnown(fight', asked')
  BY <1>1 DEF FightKnown, Selection
<1>7. AllTold(findings, failed)' <=> AllTold(findings', failed')
  BY DEF AllTold, Excused, FailureTold, Shows
<1>8. LossExplained(findings, failed, retry.excluded)'
        <=> LossExplained(findings', failed', retry'.excluded)
  BY <1>1, <1>3 DEF LossExplained, Shows, Selection
<1> QED BY <1>3, <1>4, <1>5, <1>6, <1>7, <1>8

\* The failures of a step and of those before it are told.
LEMMA FailuresTold ==
  ASSUME ReconInv, pc \in DOMAIN Turn, Grown(findings, findings', pc),
         \A c \in failed' : c \in failed \/ (c[1] = pc /\ FailureTold(findings', c))
  PROVE  \A c \in failed' :
           /\ c[1] = pc \/ (c[1] \in DOMAIN Turn /\ Turn[c[1]] < Turn[pc])
           /\ FailureTold(findings', c)
<1>1. TAKE c \in failed'
<1>2. CASE c[1] = pc /\ FailureTold(findings', c)
  BY <1>2
<1>3. CASE c \in failed
  <2>1. c[1] \in DOMAIN Turn /\ Turn[c[1]] < Turn[pc] /\ FailureTold(findings, c)
    BY <1>3 DEF ReconInv, Underway
  <2>2. c[1] # pc
    <3>1. Turn[pc] \in Int
      BY Turns
    <3> QED BY <2>1, <3>1
  <2>3. c[1] \notin Extras
    BY <2>1, Turns DEF Extras
  <2> QED BY <2>1, <2>2, <2>3, StaysTold
<1> QED BY <1>1, <1>2, <1>3

\* A step of the run after which another is to come.
LEMMA StepAdvances ==
  ASSUME ReconInv, pc \in DOMAIN Turn, pc' \in DOMAIN Turn, Turn[pc] < Turn[pc'],
         \A s \in DOMAIN Turn :
           Turn[s] < Turn[pc'] =>
             \/ s = pc \/ Turn[s] < Turn[pc]
             \/ s = "dungeon_pulls" /\ IdAbsent(findings'.limits),
         world' = world, written' = written, retry' = retry,
         Grown(findings, findings', pc), pc \in DOMAIN findings'.steps,
         \A c \in failed' : c \in failed \/ (c[1] = pc /\ FailureTold(findings', c)),
         Turn[pc] > 4 \/ Turn[pc'] <= 4 \/ AbsentSaid(findings'.limits),
         pc = "report_metadata" => findings'.steps[pc] = "OK",
         MissingSaid(findings'.limits, asked'), FightKnown(fight', asked')
  PROVE  ReconInv'
<1> DEFINE p == pc
           q == pc'
<1>1. /\ IsFindings(findings') /\ findings.limits \subseteq findings'.limits
      /\ DOMAIN findings.steps \subseteq DOMAIN findings'.steps
  BY DEF Grown
<1>2. Underway
  BY DEF ReconInv
<1>3. Turn[pc] \in 1 .. 14 /\ Turn[pc'] \in 1 .. 14
  BY Turns
<1>4. \A c \in failed' :
        c[1] \in DOMAIN Turn /\ Turn[c[1]] < Turn[pc'] /\ FailureTold(findings', c)
  <2>1. TAKE c \in failed'
  <2>2. /\ c[1] = pc \/ (c[1] \in DOMAIN Turn /\ Turn[c[1]] < Turn[pc])
        /\ FailureTold(findings', c)
    BY FailuresTold
  <2>3. c[1] \in DOMAIN Turn => Turn[c[1]] \in Int
    BY Turns
  <2> QED BY <2>2, <2>3, <1>3
<1>5. ASSUME NEW s \in DOMAIN Turn, Turn[s] < Turn[pc']
      PROVE  s \in DOMAIN findings'.steps \/ (s = "dungeon_pulls" /\ IdAbsent(findings'.limits))
  <2>1. CASE s = pc
    BY <2>1
  <2>2. CASE Turn[s] < Turn[pc]
    BY <2>2, <1>1, <1>2, StaysSaid DEF Underway
  <2> QED BY <1>5, <2>1, <2>2
<1>6. Turn[pc'] > 4 => AbsentSaid(findings'.limits)
  <2>1. Turn[pc] > 4 => AbsentSaid(findings.limits)
    BY <1>2 DEF Underway
  <2> QED BY <2>1, <1>1, <1>3, StaysSaid
<1>7. ASSUME Turn[pc'] <= 8
      PROVE  /\ "report_metadata" \notin DOMAIN findings'.steps
             /\ retry' = [attempt |-> retry'.attempt, excluded |-> retry'.excluded]
             /\ retry'.attempt \in 1 .. MaxAttempts
             /\ Cardinality(retry'.excluded) = retry'.attempt - 1
  <2>1. Turn[pc] <= 8 /\ pc # "report_metadata"
    BY <1>3, <1>7, Turns
  <2>2. "report_metadata" \notin Extras
    BY DEF Extras
  <2> QED BY <2>1, <2>2, <1>2 DEF Underway, Grown
<1>8. ASSUME Turn[pc'] > 8 PROVE Shows(findings', "report_metadata", "OK")
  <2>1. "report_metadata" \in DOMAIN Turn /\ Turn["report_metadata"] = 8
    BY Turns
  <2>2. pc = "report_metadata" \/ Turn[pc] > 8
    BY <2>1, <1>3, <1>8
  <2>3. CASE pc = "report_metadata"
    BY <2>3 DEF Shows
  <2>4. CASE Turn[pc] > 8
    <3>1. pc # "report_metadata" /\ "report_metadata" \notin Extras
      BY <2>1, <2>4 DEF Extras
    <3>2. Shows(findings, "report_metadata", "OK")
      BY <2>4, <1>2 DEF Underway
    <3> QED BY <3>1, <3>2 DEF Shows, Grown
  <2> QED BY <2>2, <2>3, <2>4
<1>9. Underway'
  BY <1>4, <1>5, <1>6, <1>7, <1>8, SameWorld DEF Underway, FailureTold, IdAbsent, Shows
<1>10. pc' # "done" /\ pc' # "escaped" /\ pc # "done" /\ pc # "escaped"
  BY Turns
<1> QED
  BY <1>1, <1>9, <1>10, SameWorld DEF ReconInv

\* A step after which the report is written.
LEMMA StepFinishes ==
  ASSUME ReconInv, pc \in DOMAIN Turn, pc' = "done", written' = findings',
         world' = world, Grown(findings, findings', pc),
         \A c \in failed' : c \in failed \/ (c[1] = pc /\ FailureTold(findings', c)),
         \A s \in SchemaSteps \cup ReportSteps :
           s \in DOMAIN findings'.steps \/ Excused(findings', s),
         MissingSaid(findings'.limits, asked'), FightKnown(fight', asked'),
         retry'.excluded \subseteq RefusedNames, IsFiniteSet(retry'.excluded),
         LossExplained(findings', failed', retry'.excluded)
  PROVE  ReconInv'
<1>1. IsFindings(findings')
  BY DEF Grown
<1>2. AllTold(findings', failed')
  BY FailuresTold DEF AllTold
<1>3. pc' \notin DOMAIN Turn
  BY Turns
<1> QED BY <1>1, <1>2, <1>3, SameWorld DEF ReconInv

\* A run that an exception ends.
LEMMA RunEscapes ==
  ASSUME ReconInv, pc \in DOMAIN Turn, pc' = "escaped",
         UNCHANGED <<world, findings, retry, asked, fight, written>>
  PROVE  ReconInv'
<1>1. pc' \notin DOMAIN Turn /\ pc' # "done" /\ pc # "done"
  BY Turns
<1> QED BY <1>1, SameWorld DEF ReconInv

\* A leaf is left out of a nested selection only if it was excluded.
LEMMA LeavesLeftOut ==
  ASSUME NEW s, NEW t, NEW e, LeafFields(s, t, e) # {},
         NEW leaf \in LeafFields(s, t, {}) \ LeafFields(s, t, e)
  PROVE  leaf \in e
BY DEF LeafFields

\* What a selection asks for, and what it skips.
LEMMA SelectionParts ==
  ASSUME NEW t, NEW e
  PROVE  LET s == Selection(t, e)
             present == PresentFields(Schema, t, Wanted[t])
             composite == Composites(Schema, t, Wanted[t])
         IN /\ s.type = t
            /\ s.plain = present \ composite
            /\ DOMAIN s.nested \subseteq composite
            /\ s.skipped = composite \ DOMAIN s.nested
            /\ \A f \in DOMAIN s.nested :
                 /\ s.nested[f] = LeafFields(Schema, Schema[t][f].of, e)
                 /\ s.nested[f] # {}
<1>1. PresentFields(Schema, t, PresentFields(Schema, t, Wanted[t]))
        = PresentFields(Schema, t, Wanted[t])
  BY DEF PresentFields
<1>2. Composites(Schema, t, PresentFields(Schema, t, Wanted[t])) = Composites(Schema, t, Wanted[t])
  BY <1>1 DEF Composites
<1> DEFINE composite == Composites(Schema, t, Wanted[t])
           leavesOf == [f \in composite |-> LeafFields(Schema, Schema[t][f].of, e)]
           usable == {f \in composite : leavesOf[f] # {}}
<1>3. Selection(t, e) = [type |-> t,
                         plain |-> PresentFields(Schema, t, Wanted[t]) \ composite,
                         nested |-> [f \in usable |-> leavesOf[f]],
                         skipped |-> composite \ usable]
  BY <1>1, <1>2 DEF Selection, BuildSelection
<1> QED BY <1>3

\* What a selection does not ask for of the wanted fields is said.
LEMMA SelectionSaid ==
  ASSUME NEW t \in DOMAIN Wanted, NEW e, NEW limits, AbsentSaid(limits),
         SkippedIn(Selection(t, e)) \subseteq limits,
         \A leaf \in e : <<"dropped", t, leaf>> \in limits,
         NEW selections, MissingSaid(limits, selections)
  PROVE  MissingSaid(limits, With(selections, t, Selection(t, e)))
<1> DEFINE s == Selection(t, e)
           composite == Composites(Schema, t, Wanted[t])
<1>1. /\ s.type = t
      /\ s.plain = PresentFields(Schema, t, Wanted[t]) \ composite
      /\ s.skipped = composite \ DOMAIN s.nested
      /\ \A f \in DOMAIN s.nested : /\ s.nested[f] = LeafFields(Schema, Schema[t][f].of, e)
                                    /\ s.nested[f] # {}
  BY SelectionParts
<1>2. \A f \in s.skipped : <<"no leaves", t, f>> \in limits
  BY <1>1 DEF SkippedIn
<1> HIDE DEF s
<1>3. ASSUME NEW f \in Wanted[t] PROVE FieldSaid(limits, s, t, f)
  <2>1. CASE f \notin PresentFields(Schema, t, Wanted[t])
    BY <2>1, <1>3 DEF AbsentSaid, AbsentFields, FieldSaid
  <2>2. CASE f \in PresentFields(Schema, t, Wanted[t]) \ composite
    BY <2>2, <1>1 DEF FieldSaid
  <2>3. CASE f \in s.skipped
    BY <2>3, <1>2 DEF FieldSaid
  <2>4. CASE f \in DOMAIN s.nested
    <3>1. \A leaf \in LeafFields(Schema, Schema[t][f].of, {}) \ s.nested[f] : leaf \in e
      BY <2>4, <1>1, LeavesLeftOut
    <3> QED BY <2>4, <3>1 DEF FieldSaid
  <2> QED BY <1>1, <2>1, <2>2, <2>3, <2>4
<1> DEFINE w == With(selections, t, s)
<1>4. /\ DOMAIN w = DOMAIN selections \cup {t} /\ w[t] = s
      /\ \A u \in DOMAIN selections : u # t => w[u] = selections[u]
  BY DEF With
<1> HIDE DEF w
<1>5. MissingSaid(limits, w)
  BY <1>3, <1>4 DEF MissingSaid
<1> QED BY <1>5 DEF w, s

\* Of the names the server's message may be about, the one it is about is blamed.
LEMMA BlamedIs ==
  ASSUME NEW leaf, NEW candidates, leaf \in candidates
  PROVE  BlamedFields(MessageAbout(leaf), candidates) = {leaf}
<1> DEFINE message == MessageAbout(leaf)
           hits == candidates \cap message
<1>1. /\ leaf \in hits
      /\ \A f \in hits : f = leaf \/ <<f, leaf>> \in Within
  BY DEF MessageAbout
<1>2. \A f, g : <<f, g>> \in Within => f # g /\ <<g, f>> \notin Within
  <2>1. TAKE f, g
  <2>2. <<f, g>>[1] = f /\ <<f, g>>[2] = g
    OBVIOUS
  <2> QED BY <2>2, ReconAssumption
<1>3. BlamedFields(message, candidates) =
        {f \in hits : \A g \in hits \ {f} : <<f, g>> \notin Within}
  BY DEF BlamedFields
<1> HIDE DEF hits, message
<1>4. ASSUME NEW f \in hits, \A g \in hits \ {f} : <<f, g>> \notin Within PROVE f = leaf
  BY <1>1, <1>4
<1>5. \A g \in hits \ {leaf} : <<leaf, g>> \notin Within
  BY <1>1, <1>2
<1> QED BY <1>1, <1>3, <1>4, <1>5 DEF message

\* What a rejection blames is refused by the server, and was not left out yet.
LEMMA RejectionBlames ==
  ASSUME NEW e, NEW g \in GatedIn(Schema, world.gated, Selection("Report", e))
  PROVE  /\ g[2] \in RefusedNames /\ g[2] \notin e
         /\ BlamedFields(MessageAbout(g[2]), Leaves(Selection("Report", e)) \ e) = {g[2]}
<1> DEFINE s == Selection("Report", e)
<1>1. /\ s.type = "Report"
      /\ DOMAIN s.nested \subseteq Composites(Schema, "Report", Wanted["Report"])
      /\ \A f \in DOMAIN s.nested : s.nested[f] = LeafFields(Schema, Schema["Report"][f].of, e)
  BY SelectionParts
<1>2. PICK f \in DOMAIN s.nested : Schema[s.type][f].of = g[1] /\ g[2] \in s.nested[f]
  BY DEF GatedIn
<1>3. g \in world.gated
  BY DEF GatedIn
<1> HIDE DEF s
<1>4. g[2] \notin e
  BY <1>1, <1>2 DEF LeafFields
<1>5. g[1] \in LeafTypes(Schema, "Report", Wanted["Report"])
  BY <1>1, <1>2 DEF LeafTypes
<1>6. g[2] \in RefusedNames
  BY <1>3, <1>5 DEF RefusedNames
<1>7. g[2] \in Leaves(s) \ e
  BY <1>2, <1>4 DEF Leaves
<1> QED BY <1>4, <1>6, <1>7, BlamedIs DEF s

\* Finish adds the last step and writes the findings.
LEMMA Finishing ==
  ASSUME NEW f, NEW p, Grown(findings, f, p), Finish(f)
  PROVE  /\ pc' = "done" /\ written' = findings'
         /\ Grown(findings, findings', p)
         /\ DOMAIN findings'.steps = DOMAIN f.steps \cup {"api_usage"}
         /\ \A s \in DOMAIN f.steps : s # "api_usage" => findings'.steps[s] = f.steps[s]
         /\ findings'.parts = f.parts /\ findings'.limits = f.limits
<1>1. findings' = Record(f, "api_usage", "OK") /\ pc' = "done" /\ written' = findings'
  BY DEF Finish
<1>2. IsFindings(f)
  BY DEF Grown
<1>3. Grown(findings, findings', p)
  BY <1>1, OperationsGrow DEF Extras
<1> QED BY <1>1, <1>2, <1>3, FindingsOperations

\* A call of the step failed, and the step was recorded so; or none did.
FailedOr ==
  \/ failed' = failed
  \/ failed' = failed \cup {<<pc, "">>} /\ findings'.steps[pc] = "FAILED"

\* A call that a step makes and that fails is told under the step.
LEMMA FailureRecorded ==
  ASSUME FailedOr, pc \in DOMAIN findings'.steps
  PROVE  \A c \in failed' : c \in failed \/ (c[1] = pc /\ FailureTold(findings', c))
<1>1. TAKE c \in failed'
<1>2. CASE failed' = failed
  BY <1>2
<1>3. CASE failed' = failed \cup {<<pc, "">>} /\ findings'.steps[pc] = "FAILED"
  <2>1. CASE c = <<pc, "">>
    <3>1. c[1] = pc /\ c[2] = ""
      BY <2>1
    <3>2. FailureTold(findings', c)
      BY <1>3, <3>1 DEF FailureTold, Shows
    <3> QED BY <3>1, <3>2
  <2> QED BY <1>1, <1>3, <2>1
<1> QED BY <1>2, <1>3 DEF FailedOr

\* g is f with step p noted under its status, and perhaps more.
Notes(f, g, p, status) == Grown(f, g, p) /\ p \in DOMAIN g.steps /\ g.steps[p] = status

\* Recording the step's status notes it, whatever was added before.
LEMMA NotesRecord ==
  ASSUME NEW f, NEW p, NEW status, NEW g, Grown(f, g, p)
  PROVE  Notes(f, Record(g, p, status), p, status)
<1> DEFINE h == Record(g, p, status)
<1>1. Grown(f, h, p)
  BY OperationsGrow
<1>2. IsFindings(g)
  BY DEF Grown
<1>3. p \in DOMAIN h.steps /\ h.steps[p] = status
  BY <1>2, FindingsOperations
<1> QED BY <1>1, <1>3 DEF Notes

\* What is added after a step was noted leaves it noted.
LEMMA NotesMore ==
  ASSUME NEW f, NEW g, NEW p, NEW status, Notes(f, g, p, status)
  PROVE  /\ \A texts : /\ Notes(f, Limitation(g, texts), p, status)
                       /\ Limitation(g, texts).limits = g.limits \cup texts
         /\ \A s : /\ Notes(f, SaveFixture(g, s), p, status)
                   /\ SaveFixture(g, s).limits = g.limits
         /\ \A statuses : Notes(f, RecordParts(g, p, statuses), p, status)
         /\ \A s \in Extras \ {p} : \A other : Notes(f, Record(g, s, other), p, status)
<1>0. IsFindings(g) /\ Grown(f, g, p) /\ p \in DOMAIN g.steps /\ g.steps[p] = status
  BY DEF Notes, Grown
<1>1. ASSUME NEW texts
      PROVE  /\ Notes(f, Limitation(g, texts), p, status)
             /\ Limitation(g, texts).limits = g.limits \cup texts
  <2>1. /\ Limitation(g, texts).steps = g.steps
        /\ Limitation(g, texts).limits = g.limits \cup texts
    BY <1>0, FindingsOperations
  <2>2. Grown(f, Limitation(g, texts), p)
    BY <1>0, OperationsGrow
  <2> QED BY <1>0, <2>1, <2>2 DEF Notes
<1>2. ASSUME NEW s
      PROVE  /\ Notes(f, SaveFixture(g, s), p, status)
             /\ SaveFixture(g, s).limits = g.limits
  <2>1. SaveFixture(g, s).steps = g.steps /\ SaveFixture(g, s).limits = g.limits
    BY <1>0, FindingsOperations
  <2>2. Grown(f, SaveFixture(g, s), p)
    BY <1>0, OperationsGrow
  <2> QED BY <1>0, <2>1, <2>2 DEF Notes
<1>3. ASSUME NEW statuses PROVE Notes(f, RecordParts(g, p, statuses), p, status)
  <2>1. RecordParts(g, p, statuses).steps = g.steps
    BY <1>0, FindingsOperations
  <2>2. Grown(f, RecordParts(g, p, statuses), p)
    BY <1>0, OperationsGrow
  <2> QED BY <1>0, <2>1, <2>2 DEF Notes
<1>4. ASSUME NEW s \in Extras \ {p}, NEW other PROVE Notes(f, Record(g, s, other), p, status)
  <2> DEFINE h == Record(g, s, other)
  <2>1. /\ DOMAIN h.steps = DOMAIN g.steps \cup {s}
        /\ \A t \in DOMAIN g.steps : t # s => h.steps[t] = g.steps[t]
    BY <1>0, FindingsOperations
  <2>2. Grown(f, h, p)
    BY <1>0, OperationsGrow
  <2> HIDE DEF h
  <2>3. Notes(f, h, p, status)
    BY <1>0, <2>1, <2>2 DEF Notes
  <2> QED BY <2>3 DEF h
<1> QED BY <1>1, <1>2, <1>3, <1>4

\* A step that concerns no selection, and the one after it.
LEMMA PlainStep ==
  ASSUME ReconInv, pc \in DOMAIN Turn, pc' \in DOMAIN Turn, Turn[pc'] = Turn[pc] + 1,
         pc # "report_metadata",
         UNCHANGED <<world, retry, asked, fight, written>>,
         Grown(findings, findings', pc), pc \in DOMAIN findings'.steps,
         \A c \in failed' : c \in failed \/ (c[1] = pc /\ FailureTold(findings', c)),
         pc = "field_verification" => AbsentSaid(findings'.limits)
  PROVE  ReconInv'
<1>1. /\ Turn[pc] \in 1 .. 14
      /\ \A s \in DOMAIN Turn : Turn[s] \in 1 .. 14 /\ (Turn[s] = Turn[pc] => s = pc)
      /\ Turn[pc] = 4 => pc = "field_verification"
  BY Turns
<1>2. \A s \in DOMAIN Turn : Turn[s] < Turn[pc'] => s = pc \/ Turn[s] < Turn[pc]
  BY <1>1
<1>3. findings.limits \subseteq findings'.limits
  BY DEF Grown
<1>4. MissingSaid(findings'.limits, asked') /\ FightKnown(fight', asked')
  BY <1>3, StaysSaid DEF ReconInv
<1>5. Turn[pc] > 4 \/ Turn[pc'] <= 4 \/ AbsentSaid(findings'.limits)
  BY <1>1
<1> QED BY <1>1, <1>2, <1>4, <1>5, StepAdvances

\* Before the metadata: nothing is known of them.
LEMMA NoMetadataYet ==
  ASSUME ReconInv, pc \in DOMAIN Turn, Turn[pc] < 8, Grown(findings, findings', pc)
  PROVE  \A failures, excluded : LossExplained(findings', failures, excluded)
<1>1. "report_metadata" \notin DOMAIN findings.steps /\ pc # "report_metadata"
  BY Turns DEF ReconInv, Underway
<1>2. "report_metadata" \notin DOMAIN findings'.steps
  BY <1>1 DEF Grown, Extras
<1> QED BY <1>2 DEF LossExplained, Shows

\* The shapes that most steps give their findings.
LEMMA NotesShapes ==
  ASSUME NEW f, NEW p, IsFindings(f), NEW status
  PROVE  /\ Notes(f, Record(f, p, status), p, status)
         /\ \A texts : Notes(f, Limitation(Record(f, p, status), texts), p, status)
         /\ \A texts, s :
              Notes(f, SaveFixture(Limitation(Record(f, p, status), texts), s), p, status)
         /\ \A s : Notes(f, SaveFixture(Record(f, p, status), s), p, status)
<1>1. Notes(f, Record(f, p, status), p, status)
  BY GrownFromItself, NotesRecord
<1>2. \A texts : Notes(f, Limitation(Record(f, p, status), texts), p, status)
  BY <1>1, NotesMore
<1>3. \A s : Notes(f, SaveFixture(Record(f, p, status), s), p, status)
  BY <1>1, NotesMore
<1>4. ASSUME NEW texts, NEW s
      PROVE  Notes(f, SaveFixture(Limitation(Record(f, p, status), texts), s), p, status)
  BY <1>2, NotesMore
<1> QED BY <1>1, <1>2, <1>3, <1>4

\* A step noted, that failed if a call of it did, and the one after it.
LEMMA NotedStep ==
  ASSUME ReconInv, pc \in DOMAIN Turn, pc' \in DOMAIN Turn, Turn[pc'] = Turn[pc] + 1,
         pc # "report_metadata",
         UNCHANGED <<world, retry, asked, fight, written>>,
         NEW status, Notes(findings, findings', pc, status),
         failed' = failed \/ (failed' = failed \cup {<<pc, "">>} /\ status = "FAILED"),
         pc = "field_verification" => AbsentSaid(findings'.limits)
  PROVE  ReconInv'
<1>1. FailedOr /\ Grown(findings, findings', pc) /\ pc \in DOMAIN findings'.steps
  BY DEF FailedOr, Notes
<1>2. \A c \in failed' : c \in failed \/ (c[1] = pc /\ FailureTold(findings', c))
  BY <1>1, FailureRecorded
<1> QED BY <1>1, <1>2, PlainStep

\* The same for a step whose call failed.
LEMMA FailedStep ==
  ASSUME ReconInv, pc \in DOMAIN Turn, pc' \in DOMAIN Turn, Turn[pc'] = Turn[pc] + 1,
         pc # "report_metadata",
         UNCHANGED <<world, retry, asked, fight, written>>,
         Notes(findings, findings', pc, "FAILED"),
         failed' = failed \cup {<<pc, "">>},
         pc = "field_verification" => AbsentSaid(findings'.limits)
  PROVE  ReconInv'
BY NotedStep

\* The first step: a token is had or the step is recorded as failed.
LEMMA AuthKeeps == ReconInv /\ StepAuth => ReconInv'
<1> SUFFICES ASSUME ReconInv, StepAuth PROVE ReconInv'
  OBVIOUS
<1>1. pc = "auth" /\ pc \in DOMAIN Turn /\ Turn[pc] = 1 /\ IsFindings(findings)
  BY Turns DEF StepAuth, ReconInv
<1>2. UNCHANGED <<world, retry, asked, fight>>
  BY DEF StepAuth
<1>3. CASE /\ Fails("auth")
           /\ Finish(Limitation(Record(findings, "auth", "FAILED"),
                                {<<"no evidence", "auth", "">>}))
  <2> DEFINE f == Limitation(Record(findings, "auth", "FAILED"),
                             {<<"no evidence", "auth", "">>})
  <2>1. Notes(findings, f, "auth", "FAILED")
    BY <1>1, NotesShapes
  <2> HIDE DEF f
  <2>2. Finish(f)
    BY <1>3 DEF f
  <2>3. /\ pc' = "done" /\ written' = findings' /\ Grown(findings, findings', "auth")
        /\ "auth" \in DOMAIN findings'.steps /\ findings'.steps["auth"] = "FAILED"
    BY <2>1, <2>2, Finishing DEF Notes
  <2>4. \A c \in failed' : c \in failed \/ (c[1] = pc /\ FailureTold(findings', c))
    <3>1. FailedOr /\ pc \in DOMAIN findings'.steps
      BY <1>1, <1>3, <2>3 DEF Fails, FailedOr
    <3> QED BY <3>1, FailureRecorded
  <2>5. \A s : Excused(findings', s)
    BY <2>3 DEF Excused, Shows
  <2>6. MissingSaid(findings'.limits, asked') /\ FightKnown(fight', asked')
    BY <1>2, <2>3, StaysSaid DEF Grown, ReconInv
  <2>7. LossExplained(findings', failed', retry'.excluded)
    BY <1>1, <2>3, NoMetadataYet
  <2>8. retry'.excluded \subseteq RefusedNames /\ IsFiniteSet(retry'.excluded)
    BY <1>2 DEF ReconInv
  <2> QED BY <1>1, <1>2, <2>3, <2>4, <2>5, <2>6, <2>7, <2>8, StepFinishes
<1>4. CASE Answers /\ Continue(Record(findings, "auth", "OK"), "rate_limit")
  <2>1. pc' = "rate_limit" /\ written' = written /\ findings' = Record(findings, "auth", "OK")
    BY <1>4 DEF Continue
  <2>2. Notes(findings, findings', pc, "OK")
    BY <1>1, <2>1, NotesShapes
  <2>3. pc' \in DOMAIN Turn /\ Turn[pc'] = 2
    BY <2>1, Turns
  <2> QED BY <1>1, <1>2, <1>4, <2>1, <2>2, <2>3, NotedStep DEF Answers
<1> QED BY <1>3, <1>4 DEF StepAuth

\* The budget is read once, and a failure to read it is recorded.
LEMMA RateLimitKeeps == ReconInv /\ StepRateLimit => ReconInv'
<1> SUFFICES ASSUME ReconInv, StepRateLimit PROVE ReconInv'
  OBVIOUS
<1>1. pc = "rate_limit" /\ pc \in DOMAIN Turn /\ Turn[pc] = 2 /\ IsFindings(findings)
  BY Turns DEF StepRateLimit, ReconInv
<1>2. UNCHANGED <<world, retry, asked, fight>>
  BY DEF StepRateLimit
<1>3. PICK status, texts :
        /\ Continue(Limitation(Record(findings, "rate_limit", status), texts), "schema_types")
        /\ failed' = failed \/ (failed' = failed \cup {<<pc, "">>} /\ status = "FAILED")
  BY <1>1 DEF StepRateLimit, Fails, Answers
<1>4. /\ pc' = "schema_types" /\ written' = written
      /\ findings' = Limitation(Record(findings, "rate_limit", status), texts)
  BY <1>3 DEF Continue
<1>5. Notes(findings, findings', pc, status)
  BY <1>1, <1>4, NotesShapes
<1>6. pc' \in DOMAIN Turn /\ Turn[pc'] = 3
  BY <1>4, Turns
<1>7. pc # "report_metadata" /\ pc # "field_verification" /\ Turn[pc'] = Turn[pc] + 1
  BY <1>1, <1>6
<1>8. UNCHANGED <<world, retry, asked, fight, written>>
  BY <1>2, <1>4
<1> QED BY <1>1, <1>3, <1>5, <1>6, <1>7, <1>8, NotedStep

\* The core types are listed, and those that the schema lacks are named.
LEMMA SchemaTypesKeeps == ReconInv /\ StepSchemaTypes => ReconInv'
<1> SUFFICES ASSUME ReconInv, StepSchemaTypes PROVE ReconInv'
  OBVIOUS
<1>1. pc = "schema_types" /\ pc \in DOMAIN Turn /\ Turn[pc] = 3 /\ IsFindings(findings)
  BY Turns DEF StepSchemaTypes, ReconInv
<1>2. UNCHANGED <<world, retry, asked, fight>>
  BY DEF StepSchemaTypes
<1>3. pc' = "field_verification" /\ written' = written
  BY DEF StepSchemaTypes, Continue
<1>4. pc' \in DOMAIN Turn /\ Turn[pc'] = 4
  BY <1>3, Turns
<1>5. CASE Fails("schema_types")
           /\ Continue(Record(findings, "schema_types", "FAILED"), "field_verification")
  <2>1. Notes(findings, findings', pc, "FAILED")
    BY <1>1, <1>5, NotesShapes DEF Continue
  <2>2. failed' = failed \cup {<<pc, "">>}
    BY <1>1, <1>5 DEF Fails
  <2>3. pc # "report_metadata" /\ pc # "field_verification" /\ Turn[pc'] = Turn[pc] + 1
    BY <1>1, <1>4
  <2>4. pc \in DOMAIN Turn /\ pc' \in DOMAIN Turn
    BY <1>1, <1>4
  <2>5. UNCHANGED <<world, retry, asked, fight, written>>
    BY <1>2, <1>3
  <2> QED BY <2>1, <2>2, <2>3, <2>4, <2>5, FailedStep
<1>6. ASSUME NEW status, NEW texts, Answers,
             Continue(SaveFixture(Limitation(Record(findings, "schema_types", status), texts),
                                  "schema_types"), "field_verification")
      PROVE  ReconInv'
  <2>1. Notes(findings, findings', pc, status)
    BY <1>1, <1>6, NotesShapes DEF Continue
  <2> QED BY <1>1, <1>2, <1>3, <1>4, <1>6, <2>1, NotedStep DEF Answers
<1> QED BY <1>5, <1>6 DEF StepSchemaTypes

\* Each wanted field that its type lacks is named from here on.
LEMMA FieldVerificationKeeps == ReconInv /\ StepFieldVerification => ReconInv'
<1> SUFFICES ASSUME ReconInv, StepFieldVerification PROVE ReconInv'
  OBVIOUS
<1>1. pc = "field_verification" /\ pc \in DOMAIN Turn /\ Turn[pc] = 4 /\ IsFindings(findings)
  BY Turns DEF StepFieldVerification, ReconInv
<1>2. UNCHANGED <<world, retry, asked, fight, written>> /\ failed' = failed
  BY DEF StepFieldVerification, Answers, Continue
<1> DEFINE absent == UNION {{<<"absent", t, f>> : f \in AbsentFields(Schema, t, Wanted[t])} :
                              t \in DOMAIN Wanted}
<1>3. PICK texts :
        /\ findings' = SaveFixture(Limitation(Record(findings, "field_verification", "OK"),
                                              absent \cup texts), "field_verification")
        /\ pc' = "discovery_paths"
  BY DEF StepFieldVerification, Continue
<1>4. \A t \in DOMAIN Wanted : \A f \in AbsentFields(Schema, t, Wanted[t]) :
        <<"absent", t, f>> \in absent
  OBVIOUS
<1> HIDE DEF absent
<1>5. Notes(findings, findings', pc, "OK")
  BY <1>1, <1>3, NotesShapes
<1>6. absent \subseteq findings'.limits
  <2>1. IsFindings(Record(findings, "field_verification", "OK"))
    BY <1>1, FindingsOperations
  <2>2. absent \subseteq Limitation(Record(findings, "field_verification", "OK"),
                                    absent \cup texts).limits
    BY <2>1, FindingsOperations
  <2>3. IsFindings(Limitation(Record(findings, "field_verification", "OK"), absent \cup texts))
    BY <2>1, FindingsOperations
  <2> QED BY <1>3, <2>2, <2>3, FindingsOperations
<1>7. AbsentSaid(findings'.limits)
  BY <1>4, <1>6 DEF AbsentSaid
<1>8. pc' \in DOMAIN Turn /\ Turn[pc'] = Turn[pc] + 1 /\ pc # "report_metadata"
  BY <1>1, <1>3, Turns
<1> QED BY <1>1, <1>2, <1>5, <1>7, <1>8, NotedStep

\* The lookup of the discovery paths notes what it found.
LEMMA DiscoveryKeeps == ReconInv /\ StepDiscovery => ReconInv'
<1> SUFFICES ASSUME ReconInv, StepDiscovery PROVE ReconInv'
  OBVIOUS
<1>1. pc = "discovery_paths" /\ pc \in DOMAIN Turn /\ Turn[pc] = 5 /\ IsFindings(findings)
  BY Turns DEF StepDiscovery, ReconInv
<1>2. UNCHANGED <<world, retry, asked, fight, written>> /\ failed' = failed
      /\ pc' = "world_zones"
  BY DEF StepDiscovery, Answers, Continue
<1> DEFINE f == Record(findings, "discovery_paths", "OK")
<1>3. \/ findings' = f
      \/ \E texts : findings' = Limitation(f, texts)
      \/ findings' = Record(f, "discovery_reports_arguments", "OK")
  BY DEF StepDiscovery, Continue
<1>4. Notes(findings, f, "discovery_paths", "OK")
  BY <1>1, NotesShapes
<1> HIDE DEF f
<1>5. "discovery_reports_arguments" \in Extras \ {"discovery_paths"}
  BY DEF Extras
<1>6. Notes(findings, findings', pc, "OK")
  BY <1>1, <1>3, <1>4, <1>5, NotesMore
<1>7. pc' \in DOMAIN Turn /\ Turn[pc'] = Turn[pc] + 1 /\ pc # "report_metadata"
      /\ pc # "field_verification"
  BY <1>1, <1>2, Turns
<1> QED BY <1>1, <1>2, <1>6, <1>7, NotedStep

\* The zone list, with the dungeons that match no zone or several.
LEMMA ZonesKeeps == ReconInv /\ StepZones => ReconInv'
<1> SUFFICES ASSUME ReconInv, StepZones PROVE ReconInv'
  OBVIOUS
<1>1. pc = "world_zones" /\ pc \in DOMAIN Turn /\ Turn[pc] = 6 /\ IsFindings(findings)
  BY Turns DEF StepZones, ReconInv
<1>2. UNCHANGED <<world, retry, asked, fight, written>> /\ pc' = "reports_probe"
  BY DEF StepZones, Continue
<1>3. pc' \in DOMAIN Turn /\ Turn[pc'] = Turn[pc] + 1 /\ pc # "report_metadata"
      /\ pc # "field_verification"
  BY <1>1, <1>2, Turns
<1>4. CASE Fails("world_zones")
           /\ Continue(Record(findings, "world_zones", "FAILED"), "reports_probe")
  <2>1. Notes(findings, findings', pc, "FAILED")
    BY <1>1, <1>4, NotesShapes DEF Continue
  <2>2. failed' = failed \cup {<<pc, "">>}
    BY <1>1, <1>4 DEF Fails
  <2> QED BY <1>1, <1>2, <1>3, <2>1, <2>2, FailedStep
<1>5. ASSUME NEW status, NEW texts, Answers,
             Continue(SaveFixture(Limitation(Record(findings, "world_zones", status), texts),
                                  "world_zones"), "reports_probe")
      PROVE  ReconInv'
  <2>1. Notes(findings, findings', pc, status)
    BY <1>1, <1>5, NotesShapes DEF Continue
  <2>2. failed' = failed
    BY <1>5 DEF Answers
  <2> QED BY <1>1, <1>2, <1>3, <2>1, <2>2, NotedStep
<1> QED BY <1>4, <1>5 DEF StepZones

\* The steps of the plan behind the run, and the one it is at, are in the findings.
LEMMA StepsThere ==
  ASSUME ReconInv, pc \in DOMAIN Turn, Grown(findings, findings', pc),
         pc \in DOMAIN findings'.steps, NEW s \in DOMAIN Turn, Turn[s] <= Turn[pc]
  PROVE  s \in DOMAIN findings'.steps \/ (s = "dungeon_pulls" /\ IdAbsent(findings'.limits))
<1>1. Turn[s] \in Int /\ Turn[pc] \in Int /\ (Turn[s] = Turn[pc] => s = pc)
  BY Turns
<1>2. CASE Turn[s] < Turn[pc]
  <2>1. s \in DOMAIN findings.steps \/ (s = "dungeon_pulls" /\ IdAbsent(findings.limits))
    BY <1>2 DEF ReconInv, Underway
  <2> QED BY <2>1, StaysSaid DEF Grown
<1> QED BY <1>1, <1>2

\* The steps from the probes on.
LEMMA LateTurns ==
  \A p \in {"reports_probe", "report_metadata", "fights", "master_data", "query_cost",
            "dungeon_pulls", "event_samples", "pagination_probe"} : Turn[p] \in 7 .. 14
BY Turns

\* The steps up to the probes are behind a run that has come to the report.
LEMMA SchemaStepsThere ==
  ASSUME ReconInv, pc \in DOMAIN Turn, Turn[pc] \in 7 .. 14, Grown(findings, findings', pc),
         pc \in DOMAIN findings'.steps
  PROVE  SchemaSteps \subseteq DOMAIN findings'.steps
<1>1. ASSUME NEW s \in SchemaSteps PROVE s \in DOMAIN findings'.steps
  <2>1. s \in DOMAIN Turn /\ Turn[s] <= 7 /\ Turn[s] \in Int /\ Turn[pc] \in Int
        /\ s # "dungeon_pulls"
    BY Turns DEF SchemaSteps
  <2> QED BY <2>1, StepsThere
<1> QED BY <1>1

\* The probes of the report list, unscoped and by zone.
LEMMA ReportsProbeKeeps == ReconInv /\ StepReportsProbe => ReconInv'
<1> SUFFICES ASSUME ReconInv, StepReportsProbe PROVE ReconInv'
  OBVIOUS
<1>1. pc = "reports_probe" /\ pc \in DOMAIN Turn /\ Turn[pc] = 7 /\ IsFindings(findings)
  BY Turns DEF StepReportsProbe, ReconInv
<1>2. UNCHANGED <<world, retry, asked, fight>> /\ failed' = failed
  BY DEF StepReportsProbe, Answers
<1>3. \E f, status : Notes(findings, f, "reports_probe", status) /\ AfterProbes(f)
  <2>1. CASE AfterProbes(Record(findings, "reports_probe", "SKIPPED"))
    BY <1>1, <2>1, NotesShapes
  <2>2. ASSUME NEW status, NEW statuses, NEW texts,
               AfterProbes(Limitation(RecordParts(Record(findings, "reports_probe", status),
                                                  "reports_probe", statuses), texts))
        PROVE  \E f, st : Notes(findings, f, "reports_probe", st) /\ AfterProbes(f)
    <3>1. Notes(findings, Record(findings, "reports_probe", status), "reports_probe", status)
      BY <1>1, NotesShapes
    <3>2. Notes(findings, RecordParts(Record(findings, "reports_probe", status),
                                      "reports_probe", statuses), "reports_probe", status)
      BY <3>1, NotesMore
    <3>3. Notes(findings, Limitation(RecordParts(Record(findings, "reports_probe", status),
                                                 "reports_probe", statuses), texts),
                "reports_probe", status)
      BY <3>2, NotesMore
    <3> QED BY <2>2, <3>3
  <2> QED BY <2>1, <2>2 DEF StepReportsProbe
<1>4. PICK f, status : Notes(findings, f, "reports_probe", status) /\ AfterProbes(f)
  BY <1>3
<1>5. CASE coded
  <2>1. findings' = f /\ pc' = "report_metadata" /\ written' = written
    BY <1>4, <1>5 DEF AfterProbes, Continue
  <2>2. pc' \in DOMAIN Turn /\ Turn[pc'] = Turn[pc] + 1 /\ pc # "report_metadata"
        /\ pc # "field_verification"
    BY <1>1, <2>1, Turns
  <2>3. Notes(findings, findings', pc, status)
    BY <1>1, <1>4, <2>1
  <2> QED BY <1>1, <1>2, <2>1, <2>2, <2>3, NotedStep
<1>6. CASE ~coded
  <2> DEFINE g == Limitation(Record(f, "report_probes", "SKIPPED"),
                             {<<"unverified", "report", "">>})
  <2>1. Finish(g)
    BY <1>4, <1>6 DEF AfterProbes
  <2>2. Notes(findings, Record(f, "report_probes", "SKIPPED"), "reports_probe", status)
    <3>1. "report_probes" \in Extras \ {"reports_probe"}
      BY DEF Extras
    <3> QED BY <3>1, <1>4, NotesMore
  <2>3. Notes(findings, g, "reports_probe", status)
    BY <2>2, NotesMore
  <2>4. "report_probes" \in DOMAIN g.steps /\ g.steps["report_probes"] = "SKIPPED"
    <3>1. IsFindings(f)
      BY <1>4 DEF Notes, Grown
    <3>2. /\ IsFindings(Record(f, "report_probes", "SKIPPED"))
          /\ "report_probes" \in DOMAIN Record(f, "report_probes", "SKIPPED").steps
          /\ Record(f, "report_probes", "SKIPPED").steps["report_probes"] = "SKIPPED"
      BY <3>1, FindingsOperations
    <3>3. g.steps = Record(f, "report_probes", "SKIPPED").steps
      BY <3>2, FindingsOperations
    <3> QED BY <3>2, <3>3
  <2> HIDE DEF g
  <2>5. /\ pc' = "done" /\ written' = findings' /\ Grown(findings, findings', pc)
        /\ pc \in DOMAIN findings'.steps /\ Shows(findings', "report_probes", "SKIPPED")
    BY <1>1, <2>1, <2>3, <2>4, Finishing DEF Notes, Shows
  <2>6. SchemaSteps \subseteq DOMAIN findings'.steps
    BY <1>1, <2>5, SchemaStepsThere
  <2>7. \A s \in ReportSteps : Excused(findings', s)
    BY <2>5 DEF Excused
  <2>8. MissingSaid(findings'.limits, asked') /\ FightKnown(fight', asked')
    BY <1>2, <2>5, StaysSaid DEF Grown, ReconInv
  <2>9. LossExplained(findings', failed', retry'.excluded)
    BY <1>1, <2>5, NoMetadataYet
  <2>10. retry'.excluded \subseteq RefusedNames /\ IsFiniteSet(retry'.excluded)
    BY <1>2 DEF ReconInv
  <2>11. /\ \A s \in SchemaSteps \cup ReportSteps :
              s \in DOMAIN findings'.steps \/ Excused(findings', s)
         /\ \A c \in failed' : c \in failed
    BY <1>2, <2>6, <2>7
  <2> QED BY <1>1, <1>2, <2>5, <2>8, <2>9, <2>10, <2>11, StepFinishes
<1> QED BY <1>5, <1>6

\* Nothing of a fight is lost when another type is asked for.
LEMMA FightKept ==
  ASSUME NEW has, NEW selections, FightKnown(has, selections), NEW t, t # "ReportFight", NEW s
  PROVE  FightKnown(has, With(selections, t, s))
BY DEF FightKnown, With

\* A run that ends with the metadata, as it does unless they were answered.
LEMMA MetadataEnds ==
  ASSUME ReconInv, pc = "report_metadata", NEW f, NEW status \in {"SKIPPED", "FAILED"},
         Notes(findings, f, "report_metadata", status), Finish(f),
         UNCHANGED world,
         failed' = failed
           \/ (failed' = failed \cup {<<"report_metadata", "">>} /\ status = "FAILED"),
         MissingSaid(f.limits, asked'), FightKnown(fight', asked'),
         retry'.excluded \subseteq RefusedNames, IsFiniteSet(retry'.excluded),
         status = "FAILED" =>
           \/ <<"report_metadata", "">> \in failed'
           \/ ~Report.found
           \/ IsEmpty(Selection("Report", retry'.excluded))
           \/ Cardinality(RefusedNames) >= MaxAttempts
  PROVE  ReconInv'
<1>1. pc \in DOMAIN Turn /\ Turn[pc] = 8
  BY Turns
<1>2. /\ pc' = "done" /\ written' = findings' /\ Grown(findings, findings', pc)
      /\ pc \in DOMAIN findings'.steps /\ findings'.steps[pc] = status
      /\ findings'.limits = f.limits
  BY Finishing DEF Notes
<1>3. SchemaSteps \subseteq DOMAIN findings'.steps
  <2>1. Turn[pc] \in 7 .. 14
    BY LateTurns
  <2> QED BY <1>1, <1>2, <2>1, SchemaStepsThere
<1>4. \A s \in ReportSteps : s \in DOMAIN findings'.steps \/ Excused(findings', s)
  BY <1>2 DEF Excused, Shows
<1>5. \A c \in failed' : c \in failed \/ (c[1] = pc /\ FailureTold(findings', c))
  <2>1. FailedOr
    BY <1>2 DEF FailedOr
  <2> QED BY <2>1, <1>2, FailureRecorded
<1>6. LossExplained(findings', failed', retry'.excluded)
  BY <1>2 DEF LossExplained, Shows
<1>7. MissingSaid(findings'.limits, asked')
  BY <1>2
<1> QED BY <1>1, <1>2, <1>3, <1>4, <1>5, <1>6, <1>7, StepFinishes

\* What a limitation, then the status, then other limitations make of the findings.
LEMMA MetadataNotes ==
  ASSUME NEW f, IsFindings(f), NEW p, NEW first, NEW status, NEW second
  PROVE  /\ Notes(f, Limitation(Record(Limitation(f, first), p, status), second), p, status)
         /\ f.limits \cup first \cup second
              = Limitation(Record(Limitation(f, first), p, status), second).limits
<1>1. Grown(f, Limitation(f, first), p)
  BY GrownFromItself, OperationsGrow
<1>2. Notes(f, Record(Limitation(f, first), p, status), p, status)
  BY <1>1, NotesRecord
<1>3. IsFindings(Limitation(f, first)) /\ Limitation(f, first).limits = f.limits \cup first
  BY FindingsOperations
<1>4. Record(Limitation(f, first), p, status).limits = f.limits \cup first
  BY <1>3, FindingsOperations
<1> QED BY <1>2, <1>4, NotesMore

\* Without a report there are no metadata to ask for.
LEMMA MetadataSkippedKeeps == ReconInv /\ MetadataSkipped => ReconInv'
<1> SUFFICES ASSUME ReconInv, MetadataSkipped PROVE ReconInv'
  OBVIOUS
<1> DEFINE f == Record(findings, "report_metadata", "SKIPPED")
<1>1. /\ pc = "report_metadata" /\ Finish(f) /\ failed' = failed
      /\ UNCHANGED <<world, retry, asked, fight>>
  BY DEF MetadataSkipped, Answers
<1>2. IsFindings(findings)
  BY DEF ReconInv
<1>3. Notes(findings, f, "report_metadata", "SKIPPED") /\ f.limits = findings.limits
  BY <1>2, NotesShapes, FindingsOperations
<1> HIDE DEF f
<1>4. /\ MissingSaid(f.limits, asked') /\ FightKnown(fight', asked')
      /\ retry'.excluded \subseteq RefusedNames /\ IsFiniteSet(retry'.excluded)
  BY <1>1, <1>3 DEF ReconInv
<1> QED BY <1>1, <1>3, <1>4, MetadataEnds

\* A round of the retry whose call fails ends the step as failed.
LEMMA MetadataUnansweredKeeps == ReconInv /\ MetadataUnanswered => ReconInv'
<1> SUFFICES ASSUME ReconInv, MetadataUnanswered PROVE ReconInv'
  OBVIOUS
<1> DEFINE first == SkippedIn(Selection("Report", retry.excluded))
           second == {<<"dropped", "Report", leaf>> : leaf \in retry.excluded}
           f == Limitation(Record(Limitation(findings, first), "report_metadata", "FAILED"),
                           second)
<1>1. /\ pc = "report_metadata" /\ Finish(f)
      /\ \/ IsEmpty(Selection("Report", retry.excluded)) /\ failed' = failed
         \/ failed' = failed \cup {<<"report_metadata", "">>}
      /\ UNCHANGED <<world, retry, asked, fight>>
  BY DEF MetadataUnanswered, Attempting, MetadataFails, Dropped, Answers, Fails
<1>2. IsFindings(findings)
  BY DEF ReconInv
<1>3. /\ Notes(findings, f, "report_metadata", "FAILED")
      /\ findings.limits \cup first \cup second = f.limits
  BY <1>2, MetadataNotes
<1> HIDE DEF f, first, second
<1>4. /\ MissingSaid(f.limits, asked') /\ FightKnown(fight', asked')
      /\ retry'.excluded \subseteq RefusedNames /\ IsFiniteSet(retry'.excluded)
  BY <1>1, <1>3, StaysSaid DEF ReconInv
<1>5. \/ <<"report_metadata", "">> \in failed'
      \/ IsEmpty(Selection("Report", retry'.excluded))
  BY <1>1
<1> QED BY <1>1, <1>3, <1>4, <1>5, MetadataEnds

\* A refusal excludes the leaf that its message blames, or ends the step.
LEMMA MetadataRejectedKeeps == ReconInv /\ MetadataRejected => ReconInv'
<1> SUFFICES ASSUME ReconInv, MetadataRejected PROVE ReconInv'
  OBVIOUS
<1> DEFINE E == retry.excluded
           s == Selection("Report", E)
           first == SkippedIn(s)
           f == Limitation(findings, first)
<1>1. /\ pc = "report_metadata" /\ failed' = failed
      /\ UNCHANGED <<world, asked, fight>>
  BY DEF MetadataRejected, Attempting, Answers
<1>2. PICK g \in GatedIn(Schema, world.gated, s) :
        LET blamed == BlamedFields(MessageAbout(g[2]), Leaves(s) \ E)
        IN IF blamed = {} \/ retry.attempt = MaxAttempts
           THEN /\ retry' = [retry EXCEPT !.excluded = @ \cup blamed]
                /\ Finish(Limitation(Record(f, "report_metadata", "FAILED"),
                                     {<<"dropped", "Report", leaf>> : leaf \in E \cup blamed}))
           ELSE /\ retry' = [attempt |-> retry.attempt + 1, excluded |-> E \cup blamed]
                /\ Continue(f, "report_metadata")
  BY DEF MetadataRejected
<1>3. /\ g[2] \in RefusedNames /\ g[2] \notin E
      /\ BlamedFields(MessageAbout(g[2]), Leaves(s) \ E) = {g[2]}
  BY RejectionBlames
<1>4. /\ IsFindings(findings) /\ E \subseteq RefusedNames /\ IsFiniteSet(E)
      /\ pc \in DOMAIN Turn /\ Turn[pc] = 8 /\ Underway
  BY <1>1, Turns DEF ReconInv
<1>5. /\ retry.attempt \in 1 .. MaxAttempts /\ Cardinality(E) = retry.attempt - 1
      /\ retry = [attempt |-> retry.attempt, excluded |-> E]
  BY <1>4 DEF Underway
<1>6. /\ IsFiniteSet(E \cup {g[2]}) /\ Cardinality(E \cup {g[2]}) = Cardinality(E) + 1
      /\ E \cup {g[2]} \subseteq RefusedNames
  BY <1>3, <1>4, FS_AddElement
<1>7. IsFiniteSet(RefusedNames)
  <2> DEFINE G == {h \in world.gated : h[1] \in LeafTypes(Schema, "Report", Wanted["Report"])}
             name == [h \in G |-> h[2]]
  <2>1. IsFiniteSet(world.gated)
    BY ReconAssumption DEF ReconInv
  <2>2. IsFiniteSet(G)
    BY <2>1, FS_Subset
  <2>3. RefusedNames = {name[h] : h \in G} /\ name = [h \in G |-> name[h]]
    BY DEF RefusedNames
  <2> HIDE DEF G, name
  <2> QED BY <2>2, <2>3, ValuesFinite
<1> HIDE DEF s
<1>8. CASE retry.attempt = MaxAttempts
  <2> DEFINE second == {<<"dropped", "Report", leaf>> : leaf \in E \cup {g[2]}}
             h == Limitation(Record(f, "report_metadata", "FAILED"), second)
  <2>1. Finish(h) /\ retry' = [retry EXCEPT !.excluded = @ \cup {g[2]}]
    BY <1>2, <1>3, <1>8
  <2>2. retry'.excluded \subseteq RefusedNames /\ IsFiniteSet(retry'.excluded)
    <3>1. retry' = [attempt |-> retry.attempt, excluded |-> E \cup {g[2]}]
      BY <2>1, <1>5
    <3> QED BY <3>1, <1>6
  <2>3. Cardinality(RefusedNames) >= MaxAttempts
    <3>1. Cardinality(E \cup {g[2]}) <= Cardinality(RefusedNames)
      BY <1>6, <1>7, FS_Subset
    <3>2. Cardinality(RefusedNames) \in Nat
      BY <1>7, FS_CardinalityType
    <3> QED BY <3>1, <3>2, <1>5, <1>6, <1>8 DEF MaxAttempts
  <2>4. /\ Notes(findings, h, "report_metadata", "FAILED")
        /\ findings.limits \cup first \cup second = h.limits
    BY <1>4, MetadataNotes
  <2> HIDE DEF h, second, first
  <2>5. MissingSaid(h.limits, asked') /\ FightKnown(fight', asked')
    BY <1>1, <2>4, StaysSaid DEF ReconInv
  <2> QED BY <1>1, <2>1, <2>2, <2>3, <2>4, <2>5, MetadataEnds
<1>9. CASE retry.attempt # MaxAttempts
  <2>1. /\ retry' = [attempt |-> retry.attempt + 1, excluded |-> E \cup {g[2]}]
        /\ findings' = f /\ pc' = "report_metadata" /\ written' = written
    BY <1>2, <1>3, <1>9 DEF Continue
  <2>2. /\ IsFindings(findings') /\ findings'.steps = findings.steps
        /\ findings'.parts = findings.parts /\ findings.limits \subseteq findings'.limits
    BY <1>4, <2>1, FindingsOperations
  <2>3. /\ retry'.attempt \in 1 .. MaxAttempts /\ retry'.excluded = E \cup {g[2]}
        /\ retry' = [attempt |-> retry'.attempt, excluded |-> retry'.excluded]
        /\ Cardinality(retry'.excluded) = retry'.attempt - 1
    BY <2>1, <1>5, <1>6, <1>9 DEF MaxAttempts
  <2>4. MissingSaid(findings'.limits, asked') /\ FightKnown(fight', asked')
    BY <1>1, <2>2, StaysSaid DEF ReconInv
  <2>5. AbsentSaid(findings'.limits)
    BY <1>4, <2>2, StaysSaid DEF Underway
  <2>6. \A s1 \in DOMAIN Turn : Turn[s1] < Turn[pc] =>
          s1 \in DOMAIN findings'.steps \/ (s1 = "dungeon_pulls" /\ IdAbsent(findings'.limits))
    BY <1>4, <2>2, StaysSaid DEF Underway
  <2>7. \A c \in failed' :
          c[1] \in DOMAIN Turn /\ Turn[c[1]] < Turn[pc] /\ FailureTold(findings', c)
    BY <1>1, <1>4, <2>2 DEF Underway, FailureTold, Shows
  <2>8. "report_metadata" \notin DOMAIN findings'.steps
    BY <1>4, <2>2 DEF Underway
  <2>9. pc' = pc
    BY <1>1, <2>1
  <2>10. Underway'
    BY <1>1, <1>4, <2>3, <2>5, <2>6, <2>7, <2>8, <2>9, SameWorld
       DEF Underway, FailureTold, IdAbsent, Shows
  <2>11. pc # "done" /\ pc' # "done"
    BY <1>1, <2>1
  <2>12. retry'.excluded \subseteq RefusedNames /\ IsFiniteSet(retry'.excluded)
    BY <1>6, <2>3
  <2> QED BY <1>1, <1>4, <2>1, <2>2, <2>4, <2>9, <2>10, <2>11, <2>12, SameWorld DEF ReconInv
<1> QED BY <1>8, <1>9

\* A limitation, and the status of the step.
LEMMA NotesAfterLimitation ==
  ASSUME NEW f, IsFindings(f), NEW p, NEW first, NEW status
  PROVE  /\ Notes(f, Record(Limitation(f, first), p, status), p, status)
         /\ Record(Limitation(f, first), p, status).limits = f.limits \cup first
<1>1. Grown(f, Limitation(f, first), p)
  BY GrownFromItself, OperationsGrow
<1>2. Notes(f, Record(Limitation(f, first), p, status), p, status)
  BY <1>1, NotesRecord
<1>3. IsFindings(Limitation(f, first)) /\ Limitation(f, first).limits = f.limits \cup first
  BY FindingsOperations
<1> QED BY <1>2, <1>3, FindingsOperations

\* A step that asks for a selection, and the one after it.
LEMMA SelectingStep ==
  ASSUME ReconInv, pc \in DOMAIN Turn, pc' \in DOMAIN Turn, Turn[pc'] = Turn[pc] + 1,
         pc \in {"report_metadata", "fights", "dungeon_pulls"},
         UNCHANGED <<world, retry, written>>, failed' = failed,
         NEW status, Notes(findings, findings', pc, status),
         pc = "report_metadata" => status = "OK",
         MissingSaid(findings'.limits, asked'), FightKnown(fight', asked')
  PROVE  ReconInv'
<1>1. /\ Turn[pc] \in 8 .. 14
      /\ \A s \in DOMAIN Turn : Turn[s] \in 1 .. 14 /\ (Turn[s] = Turn[pc] => s = pc)
  BY Turns
<1>2. \A s \in DOMAIN Turn : Turn[s] < Turn[pc'] => s = pc \/ Turn[s] < Turn[pc]
  BY <1>1
<1>3. /\ Grown(findings, findings', pc) /\ pc \in DOMAIN findings'.steps
      /\ pc = "report_metadata" => findings'.steps[pc] = "OK"
  BY DEF Notes
<1>4. Turn[pc] > 4 /\ Turn[pc] < Turn[pc']
  BY <1>1
<1> QED BY <1>2, <1>3, <1>4, StepAdvances

\* What a selection that is asked for leaves out is said.
LEMMA SelectionAsked ==
  ASSUME ReconInv, pc \in DOMAIN Turn, Turn[pc] \in 8 .. 14,
         NEW t \in DOMAIN Wanted, NEW e, NEW limits, findings.limits \subseteq limits,
         SkippedIn(Selection(t, e)) \subseteq limits,
         \A leaf \in e : <<"dropped", t, leaf>> \in limits
  PROVE  /\ MissingSaid(limits, With(asked, t, Selection(t, e)))
         /\ AbsentSaid(limits) /\ MissingSaid(limits, asked)
<1>1. AbsentSaid(findings.limits)
  BY DEF ReconInv, Underway
<1>2. AbsentSaid(limits) /\ MissingSaid(limits, asked)
  BY <1>1, StaysSaid DEF ReconInv
<1> QED BY <1>2, SelectionSaid

\* An answered round names each leaf that was left out to get it.
LEMMA MetadataAnsweredKeeps == ReconInv /\ MetadataAnswered => ReconInv'
<1> SUFFICES ASSUME ReconInv, MetadataAnswered PROVE ReconInv'
  OBVIOUS
<1> DEFINE E == retry.excluded
           s == Selection("Report", E)
           first == SkippedIn(s)
           second == {<<"dropped", "Report", leaf>> : leaf \in E}
           f == Limitation(Limitation(findings, first), second)
<1>1. /\ pc = "report_metadata" /\ failed' = failed
      /\ asked' = With(asked, "Report", s)
      /\ UNCHANGED <<world, retry, fight>>
  BY DEF MetadataAnswered, Attempting, Answers
<1>2. \/ /\ ~Report.found
         /\ Finish(Limitation(Record(f, "report_metadata", "FAILED"),
                              {<<"no data", "report", "">>}))
      \/ \E texts :
           Continue(SaveFixture(Limitation(Record(f, "report_metadata", "OK"), texts),
                                "report_metadata"), "fights")
  BY DEF MetadataAnswered, Dropped
<1>3. /\ IsFindings(findings) /\ pc \in DOMAIN Turn /\ Turn[pc] = 8
  BY <1>1, Turns DEF ReconInv
<1>4. Turn[pc] \in 8 .. 14
  BY <1>3
<1>5. \A leaf \in E : <<"dropped", "Report", leaf>> \in second
  OBVIOUS
<1> HIDE DEF s, first, second
<1>6. /\ IsFindings(f) /\ Grown(findings, f, "report_metadata")
      /\ f.limits = findings.limits \cup first \cup second
  <2>1. /\ IsFindings(Limitation(findings, first))
        /\ Limitation(findings, first).limits = findings.limits \cup first
    BY <1>3, FindingsOperations
  <2>2. Grown(findings, Limitation(findings, first), "report_metadata")
    BY <1>3, GrownFromItself, OperationsGrow
  <2>3. Grown(findings, f, "report_metadata")
    BY <2>2, OperationsGrow
  <2> QED BY <2>1, <2>3, FindingsOperations
<1> HIDE DEF f
<1>7. ASSUME NEW limits, f.limits \subseteq limits
      PROVE  MissingSaid(limits, asked') /\ FightKnown(fight', asked')
  <2>1. FightKnown(fight', asked')
    BY <1>1, FightKept DEF ReconInv
  <2>2. "Report" \in DOMAIN Wanted
    BY ReconAssumption
  <2>3. findings.limits \subseteq limits /\ SkippedIn(Selection("Report", E)) \subseteq limits
        /\ \A leaf \in E : <<"dropped", "Report", leaf>> \in limits
    BY <1>5, <1>6, <1>7 DEF first, s
  <2> QED BY <1>1, <1>3, <1>4, <2>1, <2>2, <2>3, SelectionAsked DEF s
<1>8. ASSUME NEW status
      PROVE  /\ Notes(findings, Record(f, "report_metadata", status), "report_metadata", status)
             /\ Record(f, "report_metadata", status).limits = f.limits
  BY <1>6, NotesRecord, FindingsOperations
<1>9. ASSUME NEW texts, ~Report.found,
             Finish(Limitation(Record(f, "report_metadata", "FAILED"), texts))
      PROVE  ReconInv'
  <2> DEFINE g == Limitation(Record(f, "report_metadata", "FAILED"), texts)
  <2>1. Notes(findings, g, "report_metadata", "FAILED") /\ f.limits \subseteq g.limits
    BY <1>8, NotesMore
  <2>2. Finish(g)
    BY <1>9
  <2> HIDE DEF g
  <2>3. MissingSaid(g.limits, asked') /\ FightKnown(fight', asked')
    BY <1>7, <2>1
  <2>4. retry'.excluded \subseteq RefusedNames /\ IsFiniteSet(retry'.excluded)
    BY <1>1 DEF ReconInv
  <2> QED BY <1>1, <1>9, <2>1, <2>2, <2>3, <2>4, MetadataEnds
<1>10. ASSUME NEW texts,
              Continue(SaveFixture(Limitation(Record(f, "report_metadata", "OK"), texts),
                                   "report_metadata"), "fights")
       PROVE  ReconInv'
  <2>1. /\ findings' = SaveFixture(Limitation(Record(f, "report_metadata", "OK"), texts),
                                   "report_metadata")
        /\ pc' = "fights" /\ written' = written
    BY <1>10 DEF Continue
  <2> DEFINE g == Limitation(Record(f, "report_metadata", "OK"), texts)
  <2>2. Notes(findings, g, "report_metadata", "OK") /\ f.limits \subseteq g.limits
    BY <1>8, NotesMore
  <2>3. findings' = SaveFixture(g, "report_metadata")
    BY <2>1
  <2> HIDE DEF g
  <2>4. Notes(findings, findings', pc, "OK") /\ f.limits \subseteq findings'.limits
    BY <1>1, <2>2, <2>3, NotesMore
  <2>5. MissingSaid(findings'.limits, asked') /\ FightKnown(fight', asked')
    BY <1>7, <2>4
  <2>6. pc' \in DOMAIN Turn /\ Turn[pc'] = Turn[pc] + 1
    BY <1>3, <2>1, Turns
  <2>7. pc \in {"report_metadata", "fights", "dungeon_pulls"}
    BY <1>1
  <2> QED BY <1>1, <1>3, <2>1, <2>4, <2>5, <2>6, <2>7, SelectingStep
<1> QED BY <1>2, <1>9, <1>10

\* The fights of the report: their selection is asked for, or the step says why not.
LEMMA FightsKeeps == ReconInv /\ StepFights => ReconInv'
<1> SUFFICES ASSUME ReconInv, StepFights PROVE ReconInv'
  OBVIOUS
<1> DEFINE s == Selection("ReportFight", {})
           first == SkippedIn(s)
           f == Limitation(findings, first)
<1>1. /\ pc = "fights" /\ pc' = "master_data" /\ written' = written
      /\ UNCHANGED <<world, retry>>
  BY DEF StepFights, Continue
<1>2. \/ /\ failed' = failed /\ findings' = Record(f, "fights", "SKIPPED")
         /\ UNCHANGED <<asked, fight>>
      \/ /\ failed' = failed \cup {<<"fights", "">>} /\ findings' = Record(f, "fights", "FAILED")
         /\ UNCHANGED <<asked, fight>>
      \/ /\ failed' = failed /\ asked' = With(asked, "ReportFight", s)
         /\ \E status, texts :
              findings' = SaveFixture(Limitation(Record(f, "fights", status), texts), "fights")
  BY DEF StepFights, Answers, CallWith, Fails, Continue
<1>3. /\ IsFindings(findings) /\ pc \in DOMAIN Turn /\ Turn[pc] = 9
      /\ pc' \in DOMAIN Turn /\ Turn[pc'] = Turn[pc] + 1
      /\ pc # "report_metadata" /\ pc # "field_verification"
      /\ pc \in {"report_metadata", "fights", "dungeon_pulls"}
  BY <1>1, Turns DEF ReconInv
<1> HIDE DEF s, first
<1>4. ASSUME NEW status
      PROVE  /\ Notes(findings, Record(f, "fights", status), "fights", status)
             /\ Record(f, "fights", status).limits = findings.limits \cup first
  BY <1>3, NotesAfterLimitation
<1> HIDE DEF f
<1>5. CASE /\ failed' = failed /\ findings' = Record(f, "fights", "SKIPPED")
           /\ UNCHANGED <<asked, fight>>
  <2>1. Notes(findings, findings', pc, "SKIPPED")
    BY <1>1, <1>4, <1>5
  <2>2. UNCHANGED <<world, retry, asked, fight, written>>
    BY <1>1, <1>5
  <2> QED BY <1>3, <1>5, <2>1, <2>2, NotedStep
<1>6. CASE /\ failed' = failed \cup {<<"fights", "">>} /\ findings' = Record(f, "fights", "FAILED")
           /\ UNCHANGED <<asked, fight>>
  <2>1. Notes(findings, findings', pc, "FAILED")
    BY <1>1, <1>4, <1>6
  <2>2. UNCHANGED <<world, retry, asked, fight, written>> /\ failed' = failed \cup {<<pc, "">>}
    BY <1>1, <1>6
  <2> QED BY <1>3, <2>1, <2>2, FailedStep
<1>7. ASSUME NEW status, NEW texts, failed' = failed, asked' = With(asked, "ReportFight", s),
             findings' = SaveFixture(Limitation(Record(f, "fights", status), texts), "fights")
      PROVE  ReconInv'
  <2> DEFINE g == Limitation(Record(f, "fights", status), texts)
  <2>1. /\ Notes(findings, g, "fights", status)
        /\ g.limits = findings.limits \cup first \cup texts
    BY <1>4, NotesMore
  <2>2. findings' = SaveFixture(g, "fights")
    BY <1>7
  <2> HIDE DEF g
  <2>3. /\ Notes(findings, findings', pc, status)
        /\ findings'.limits = findings.limits \cup first \cup texts
    BY <1>1, <2>1, <2>2, NotesMore
  <2>4. FightKnown(fight', asked')
    BY <1>7 DEF FightKnown, With, s
  <2>5. MissingSaid(findings'.limits, asked')
    <3>1. "ReportFight" \in DOMAIN Wanted
      BY ReconAssumption
    <3>2. Turn[pc] \in 8 .. 14
      BY <1>3
    <3>3. /\ findings.limits \subseteq findings'.limits
          /\ SkippedIn(Selection("ReportFight", {})) \subseteq findings'.limits
      BY <2>3 DEF first, s
    <3> QED BY <1>3, <1>7, <3>1, <3>2, <3>3, SelectionAsked DEF s
  <2> QED BY <1>1, <1>3, <1>7, <2>3, <2>4, <2>5, SelectingStep
<1> QED BY <1>2, <1>5, <1>6, <1>7

\* Master data are there, empty or lost to a failure.
LEMMA MasterDataKeeps == ReconInv /\ StepMasterData => ReconInv'
<1> SUFFICES ASSUME ReconInv, StepMasterData PROVE ReconInv'
  OBVIOUS
<1>1. pc = "master_data" /\ pc \in DOMAIN Turn /\ Turn[pc] = 10 /\ IsFindings(findings)
  BY Turns DEF StepMasterData, ReconInv
<1>2. UNCHANGED <<world, retry, asked, fight, written>> /\ pc' = "query_cost"
  BY DEF StepMasterData, Continue
<1>3. pc' \in DOMAIN Turn /\ Turn[pc'] = Turn[pc] + 1 /\ pc # "report_metadata"
      /\ pc # "field_verification"
  BY <1>1, <1>2, Turns
<1>4. CASE Fails("master_data")
           /\ Continue(Record(findings, "master_data", "FAILED"), "query_cost")
  <2>1. Notes(findings, findings', pc, "FAILED")
    BY <1>1, <1>4, NotesShapes DEF Continue
  <2>2. failed' = failed \cup {<<pc, "">>}
    BY <1>1, <1>4 DEF Fails
  <2> QED BY <1>1, <1>2, <1>3, <2>1, <2>2, FailedStep
<1>5. ASSUME NEW status, Answers,
             Continue(SaveFixture(Record(findings, "master_data", status), "master_data"),
                      "query_cost")
      PROVE  ReconInv'
  <2>1. Notes(findings, findings', pc, status)
    BY <1>1, <1>5, NotesShapes DEF Continue
  <2>2. failed' = failed
    BY <1>5 DEF Answers
  <2> QED BY <1>1, <1>2, <1>3, <2>1, <2>2, NotedStep
<1> QED BY <1>4, <1>5 DEF StepMasterData

\* Once the metadata were answered, they stay so.
LEMMA MetadataStay ==
  ASSUME ReconInv, pc \in DOMAIN Turn, Turn[pc] \in 9 .. 14, Grown(findings, findings', pc)
  PROVE  /\ Shows(findings', "report_metadata", "OK")
         /\ \A failures, excluded : LossExplained(findings', failures, excluded)
<1>1. Shows(findings, "report_metadata", "OK")
  BY DEF ReconInv, Underway
<1>2. pc # "report_metadata"
  BY Turns
<1>3. Shows(findings', "report_metadata", "OK")
  BY <1>1, <1>2 DEF Shows, Grown, Extras
<1> QED BY <1>3 DEF LossExplained, Shows

\* The end of a run that had the report.
LEMMA LateEnd ==
  ASSUME ReconInv, pc \in DOMAIN Turn, Turn[pc] \in 9 .. 14,
         NEW f, NEW status, Notes(findings, f, pc, status), Finish(f),
         UNCHANGED <<world, retry, asked, fight>>,
         \A c \in failed' : c \in failed \/ (c[1] = pc /\ FailureTold(findings', c)),
         \A s \in ReportSteps : s \in DOMAIN findings'.steps \/ Excused(findings', s)
  PROVE  ReconInv'
<1>1. /\ pc' = "done" /\ written' = findings' /\ Grown(findings, findings', pc)
      /\ pc \in DOMAIN findings'.steps
  BY Finishing DEF Notes
<1>2. SchemaSteps \subseteq DOMAIN findings'.steps
  <2>1. Turn[pc] \in 7 .. 14
    OBVIOUS
  <2> QED BY <1>1, <2>1, SchemaStepsThere
<1>3. LossExplained(findings', failed', retry'.excluded)
  BY <1>1, MetadataStay
<1>4. MissingSaid(findings'.limits, asked') /\ FightKnown(fight', asked')
  BY <1>1, StaysSaid DEF Grown, ReconInv
<1>5. retry'.excluded \subseteq RefusedNames /\ IsFiniteSet(retry'.excluded)
  BY DEF ReconInv
<1>6. \A s \in SchemaSteps \cup ReportSteps :
        s \in DOMAIN findings'.steps \/ Excused(findings', s)
  BY <1>2
<1> QED BY <1>1, <1>3, <1>4, <1>5, <1>6, StepFinishes

\* A call of step p failed only if the step did.
StatusTells(p, status) ==
  failed' = failed \/ (failed' = failed \cup {<<p, "">>} /\ status = "FAILED")

\* What follows step_query_cost.
LEMMA AfterQueryCostKeeps ==
  ASSUME ReconInv, pc = "query_cost", NEW f, NEW status, Notes(findings, f, "query_cost", status),
         AfterQueryCost(f), UNCHANGED <<world, retry, asked, fight>>,
         StatusTells("query_cost", status)
  PROVE  ReconInv'
<1>1. pc \in DOMAIN Turn /\ Turn[pc] = 11 /\ Turn[pc] \in 9 .. 14
  BY Turns
<1>2. CASE ~fight
  <2> DEFINE g == Limitation(f, {<<"no fight", "report", "">>})
  <2>1. /\ Notes(findings, g, "query_cost", status)
        /\ g.limits = f.limits \cup {<<"no fight", "report", "">>}
    BY NotesMore
  <2>2. Finish(g)
    BY <1>2 DEF AfterQueryCost
  <2> HIDE DEF g
  <2>3. /\ Grown(findings, findings', pc) /\ pc \in DOMAIN findings'.steps
        /\ findings'.steps[pc] = status
        /\ <<"no fight", "report", "">> \in findings'.limits
    BY <2>1, <2>2, Finishing DEF Notes
  <2>4. \A c \in failed' : c \in failed \/ (c[1] = pc /\ FailureTold(findings', c))
    <3>1. FailedOr
      BY <2>3 DEF FailedOr, StatusTells
    <3> QED BY <3>1, <2>3, FailureRecorded
  <2>5. ASSUME NEW s \in ReportSteps PROVE s \in DOMAIN findings'.steps \/ Excused(findings', s)
    <3>1. CASE s \in {"report_metadata", "fights", "master_data", "query_cost"}
      <4>1. s \in DOMAIN Turn /\ Turn[s] <= Turn[pc] /\ s # "dungeon_pulls"
        BY <3>1, <1>1, Turns
      <4> QED BY <4>1, <1>1, <2>3, StepsThere
    <3>2. CASE s \in {"dungeon_pulls", "event_samples", "pagination_probe"}
      BY <3>2, <2>3 DEF Excused
    <3> QED BY <3>1, <3>2 DEF ReportSteps
  <2> QED BY <1>1, <2>1, <2>2, <2>4, <2>5, LateEnd
<1>3. CASE fight /\ "id" \in asked["ReportFight"].plain
  <2>1. findings' = f /\ pc' = "dungeon_pulls" /\ written' = written
    BY <1>3 DEF AfterQueryCost, Continue
  <2>2. /\ pc' \in DOMAIN Turn /\ Turn[pc'] = Turn[pc] + 1
        /\ pc # "report_metadata" /\ pc # "field_verification"
    BY <1>1, <2>1, Turns
  <2>3. Notes(findings, findings', pc, status)
    BY <2>1
  <2>4. UNCHANGED <<world, retry, asked, fight, written>>
    BY <2>1
  <2>5. failed' = failed \/ (failed' = failed \cup {<<pc, "">>} /\ status = "FAILED")
    BY DEF StatusTells
  <2> QED BY <1>1, <2>2, <2>3, <2>4, <2>5, NotedStep
<1>4. CASE fight /\ "id" \notin asked["ReportFight"].plain
  <2>1. findings' = f /\ pc' = "event_samples" /\ written' = written
    BY <1>4 DEF AfterQueryCost, Continue
  <2>2. pc' \in DOMAIN Turn /\ Turn[pc'] = 13 /\ pc # "report_metadata"
    BY <2>1, Turns
  <2>3. /\ Grown(findings, findings', pc) /\ pc \in DOMAIN findings'.steps
        /\ findings'.steps[pc] = status
    BY <2>1 DEF Notes
  <2>4. IdAbsent(findings'.limits)
    <3>1. asked["ReportFight"] = Selection("ReportFight", {})
      BY <1>4 DEF ReconInv, FightKnown
    <3>2. asked["ReportFight"].plain =
            PresentFields(Schema, "ReportFight", Wanted["ReportFight"])
              \ Composites(Schema, "ReportFight", Wanted["ReportFight"])
      BY <3>1, SelectionParts
    <3>3. "id" \in Wanted["ReportFight"] /\ "ReportFight" \in DOMAIN Wanted
      BY ReconAssumption
    <3>4. Has(Schema, "ReportFight", "id") =>
            Schema["ReportFight"]["id"].kind \notin CompositeKinds
      BY ReconAssumption DEF ReconInv, Schema
    <3>5. "id" \in AbsentFields(Schema, "ReportFight", Wanted["ReportFight"])
      BY <1>4, <3>2, <3>3, <3>4 DEF PresentFields, Composites, AbsentFields
    <3>6. AbsentSaid(findings.limits)
      BY <1>1 DEF ReconInv, Underway
    <3>7. IdAbsent(findings.limits)
      BY <3>3, <3>5, <3>6 DEF AbsentSaid, IdAbsent
    <3> QED BY <3>7, <2>3, StaysSaid DEF Grown
  <2>5. \A s \in DOMAIN Turn : Turn[s] < Turn[pc'] =>
          \/ s = pc \/ Turn[s] < Turn[pc]
          \/ s = "dungeon_pulls" /\ IdAbsent(findings'.limits)
    BY <1>1, <2>2, <2>4, Turns
  <2>6. \A c \in failed' : c \in failed \/ (c[1] = pc /\ FailureTold(findings', c))
    <3>1. FailedOr
      BY <2>3 DEF FailedOr, StatusTells
    <3> QED BY <3>1, <2>3, FailureRecorded
  <2>7. MissingSaid(findings'.limits, asked') /\ FightKnown(fight', asked')
    BY <2>3, StaysSaid DEF Grown, ReconInv
  <2>8. Turn[pc] < Turn[pc'] /\ Turn[pc] > 4
    BY <1>1, <2>2
  <2> QED BY <1>1, <2>1, <2>2, <2>3, <2>5, <2>6, <2>7, <2>8, StepAdvances
<1> QED BY <1>2, <1>3, <1>4

\* The cost of a query of fights, whose selection names what it lacks.
LEMMA QueryCostKeeps == ReconInv /\ StepQueryCost => ReconInv'
<1> SUFFICES ASSUME ReconInv, StepQueryCost PROVE ReconInv'
  OBVIOUS
<1> DEFINE first == SkippedIn(Selection("ReportFight", {}))
<1>1. pc = "query_cost" /\ UNCHANGED <<world, retry, asked, fight>> /\ IsFindings(findings)
  BY DEF StepQueryCost, ReconInv
<1>2. PICK status \in {"SKIPPED", "FAILED", "OK"} :
        /\ AfterQueryCost(Record(Limitation(findings, first), "query_cost", status))
        /\ \/ failed' = failed
           \/ failed' = failed \cup {<<"query_cost", "">>} /\ status = "FAILED"
  BY DEF StepQueryCost, CallWith, Fails, Answers
<1> HIDE DEF first
<1> DEFINE f == Record(Limitation(findings, first), "query_cost", status)
<1>3. Notes(findings, f, "query_cost", status) /\ AfterQueryCost(f)
  BY <1>1, <1>2, NotesAfterLimitation
<1> HIDE DEF f
<1>4. StatusTells("query_cost", status)
  BY <1>2 DEF StatusTells
<1> QED BY <1>1, <1>3, <1>4, AfterQueryCostKeeps

\* The pulls of the fight that was chosen, if one was.
LEMMA DungeonPullsKeeps == ReconInv /\ StepDungeonPulls => ReconInv'
<1> SUFFICES ASSUME ReconInv, StepDungeonPulls PROVE ReconInv'
  OBVIOUS
<1> DEFINE pull == Selection("ReportDungeonPull", {})
           npc == Selection("ReportDungeonPullNPC", {})
           first == SkippedIn(pull) \cup SkippedIn(npc)
           f == Limitation(findings, first)
<1>1. /\ pc = "dungeon_pulls" /\ pc' = "event_samples" /\ written' = written
      /\ UNCHANGED <<world, retry, fight>>
  BY DEF StepDungeonPulls, Continue
<1>2. \/ /\ failed' = failed /\ findings' = Record(f, "dungeon_pulls", "SKIPPED")
         /\ asked' = asked
      \/ /\ failed' = failed \cup {<<"dungeon_pulls", "">>}
         /\ findings' = Record(f, "dungeon_pulls", "FAILED")
         /\ asked' = asked
      \/ /\ failed' = failed
         /\ asked' = With(With(asked, "ReportDungeonPull", pull), "ReportDungeonPullNPC", npc)
         /\ \E status, texts :
              findings' = SaveFixture(Limitation(Record(f, "dungeon_pulls", status), texts),
                                      "dungeon_pulls")
  BY DEF StepDungeonPulls, Answers, CallWith, Fails, Continue
<1>3. /\ IsFindings(findings) /\ pc \in DOMAIN Turn /\ Turn[pc] = 12
      /\ pc' \in DOMAIN Turn /\ Turn[pc'] = Turn[pc] + 1
      /\ pc # "report_metadata" /\ pc # "field_verification"
      /\ pc \in {"report_metadata", "fights", "dungeon_pulls"}
  BY <1>1, Turns DEF ReconInv
<1>4. SkippedIn(pull) \subseteq first /\ SkippedIn(npc) \subseteq first
  OBVIOUS
<1> HIDE DEF pull, npc, first
<1>5. ASSUME NEW status
      PROVE  /\ Notes(findings, Record(f, "dungeon_pulls", status), "dungeon_pulls", status)
             /\ Record(f, "dungeon_pulls", status).limits = findings.limits \cup first
  BY <1>3, NotesAfterLimitation
<1> HIDE DEF f
<1>6. CASE /\ failed' = failed /\ findings' = Record(f, "dungeon_pulls", "SKIPPED")
           /\ asked' = asked
  <2>1. Notes(findings, findings', pc, "SKIPPED")
    BY <1>1, <1>5, <1>6
  <2>2. UNCHANGED <<world, retry, asked, fight, written>>
    BY <1>1, <1>6
  <2> QED BY <1>3, <1>6, <2>1, <2>2, NotedStep
<1>7. CASE /\ failed' = failed \cup {<<"dungeon_pulls", "">>}
           /\ findings' = Record(f, "dungeon_pulls", "FAILED")
           /\ asked' = asked
  <2>1. Notes(findings, findings', pc, "FAILED")
    BY <1>1, <1>5, <1>7
  <2>2. UNCHANGED <<world, retry, asked, fight, written>> /\ failed' = failed \cup {<<pc, "">>}
    BY <1>1, <1>7
  <2> QED BY <1>3, <2>1, <2>2, FailedStep
<1>8. ASSUME NEW status, NEW texts, failed' = failed,
             asked' = With(With(asked, "ReportDungeonPull", pull), "ReportDungeonPullNPC", npc),
             findings' = SaveFixture(Limitation(Record(f, "dungeon_pulls", status), texts),
                                     "dungeon_pulls")
      PROVE  ReconInv'
  <2> DEFINE g == Limitation(Record(f, "dungeon_pulls", status), texts)
  <2>1. /\ Notes(findings, g, "dungeon_pulls", status)
        /\ g.limits = findings.limits \cup first \cup texts
    BY <1>5, NotesMore
  <2>2. findings' = SaveFixture(g, "dungeon_pulls")
    BY <1>8
  <2> HIDE DEF g
  <2>3. /\ Notes(findings, findings', pc, status)
        /\ findings'.limits = findings.limits \cup first \cup texts
    BY <1>1, <2>1, <2>2, NotesMore
  <2> DEFINE between == With(asked, "ReportDungeonPull", pull)
  <2>4. FightKnown(fight', asked')
    <3>1. FightKnown(fight, between)
      BY FightKept DEF ReconInv
    <3> HIDE DEF between
    <3> QED BY <1>1, <1>8, <3>1, FightKept DEF between
  <2>5. MissingSaid(findings'.limits, asked')
    <3>1. /\ "ReportDungeonPull" \in DOMAIN Wanted
          /\ "ReportDungeonPullNPC" \in DOMAIN Wanted
      BY ReconAssumption
    <3>2. Turn[pc] \in 8 .. 14
      BY <1>3
    <3>3. /\ findings.limits \subseteq findings'.limits
          /\ SkippedIn(Selection("ReportDungeonPull", {})) \subseteq findings'.limits
          /\ SkippedIn(Selection("ReportDungeonPullNPC", {})) \subseteq findings'.limits
      BY <1>4, <2>3 DEF pull, npc
    <3>4. MissingSaid(findings'.limits, between) /\ AbsentSaid(findings'.limits)
      BY <1>3, <3>1, <3>2, <3>3, SelectionAsked DEF pull
    <3> HIDE DEF between
    <3>5. MissingSaid(findings'.limits, With(between, "ReportDungeonPullNPC", npc))
      BY <3>1, <3>3, <3>4, SelectionSaid DEF npc
    <3> QED BY <1>8, <3>5 DEF between
  <2> QED BY <1>1, <1>3, <1>8, <2>3, <2>4, <2>5, SelectingStep
<1> QED BY <1>1, <1>2, <1>6, <1>7, <1>8

\* One sample for each kind of event, and a status for each.
LEMMA EventSamplesKeeps == ReconInv /\ StepEventSamples => ReconInv'
<1> SUFFICES ASSUME ReconInv, StepEventSamples PROVE ReconInv'
  OBVIOUS
<1>1. /\ pc = "event_samples" /\ pc' = "pagination_probe"
      /\ UNCHANGED <<world, retry, asked, fight, written>>
  BY DEF StepEventSamples, Continue
<1>2. /\ IsFindings(findings) /\ pc \in DOMAIN Turn
      /\ pc' \in DOMAIN Turn /\ Turn[pc'] = Turn[pc] + 1
      /\ pc # "report_metadata" /\ pc # "field_verification"
  BY <1>1, Turns DEF ReconInv
<1>3. CASE Answers /\ Continue(Record(findings, "event_samples", "SKIPPED"), "pagination_probe")
  <2>1. Notes(findings, findings', pc, "SKIPPED")
    BY <1>1, <1>2, <1>3, NotesShapes DEF Continue
  <2>2. failed' = failed
    BY <1>3 DEF Answers
  <2> QED BY <1>1, <1>2, <2>1, <2>2, NotedStep
<1>4. ASSUME NEW lost \in SUBSET Labels, NEW more, NEW texts,
             failed' = failed \cup {<<"event_samples", l>> : l \in lost},
             findings' =
               Limitation(
                 RecordParts([Record(findings, "event_samples", "OK") EXCEPT
                                !.fixtures = more],
                             "event_samples",
                             [l \in Labels |-> IF l \in lost THEN "FAILED" ELSE "OK"]),
                 texts)
      PROVE  ReconInv'
  <2> DEFINE a == Record(findings, "event_samples", "OK")
             b == [a EXCEPT !.fixtures = more]
             statuses == [l \in Labels |-> IF l \in lost THEN "FAILED" ELSE "OK"]
             c == RecordParts(b, "event_samples", statuses)
  <2>1. Notes(findings, a, "event_samples", "OK")
    BY <1>2, NotesShapes
  <2>2. findings' = Limitation(c, texts)
    BY <1>4
  <2>3. \A l \in lost : l \in DOMAIN statuses /\ statuses[l] = "FAILED"
    OBVIOUS
  <2>4. \A l \in lost : l # ""
    <3>1. \A l \in Labels : l \in Categories \/ l = "Casts_enemies"
      BY DEF Labels, Sampled, If
    <3> QED BY <3>1, ReconAssumption
  <2> HIDE DEF a, statuses
  <2>5. Notes(findings, b, "event_samples", "OK") /\ IsFindings(b)
    <3>1. IsFindings(a)
      BY <2>1 DEF Notes, Grown
    <3>2. b = [steps |-> a.steps, parts |-> a.parts, limits |-> a.limits, fixtures |-> more]
      BY <3>1 DEF IsFindings
    <3> HIDE DEF b
    <3>3. IsFindings(b) /\ b.steps = a.steps /\ b.parts = a.parts /\ b.limits = a.limits
      BY <3>2 DEF IsFindings
    <3> QED BY <2>1, <3>3 DEF Notes, Grown
  <2> HIDE DEF b
  <2>6. /\ Notes(findings, c, "event_samples", "OK") /\ IsFindings(c)
        /\ \A l \in lost : /\ <<"event_samples", l>> \in DOMAIN c.parts
                           /\ c.parts[<<"event_samples", l>>] = "FAILED"
    <3>1. Notes(findings, c, "event_samples", "OK")
      BY <2>5, NotesMore
    <3>2. IsFindings(c) /\ \A l \in DOMAIN statuses :
            /\ <<"event_samples", l>> \in DOMAIN c.parts
            /\ c.parts[<<"event_samples", l>>] = statuses[l]
      BY <2>5, FindingsOperations
    <3> HIDE DEF c
    <3> QED BY <2>3, <3>1, <3>2
  <2> HIDE DEF c
  <2>7. Notes(findings, findings', pc, "OK") /\ findings'.parts = c.parts
    BY <1>1, <2>2, <2>6, NotesMore, FindingsOperations
  <2>8. \A k \in failed' : k \in failed \/ (k[1] = pc /\ FailureTold(findings', k))
    <3>1. TAKE k \in failed'
    <3>2. ASSUME NEW l \in lost, k = <<"event_samples", l>>
          PROVE  k[1] = pc /\ FailureTold(findings', k)
      <4>1. k[1] = "event_samples" /\ k[2] = l /\ l # ""
        BY <2>4, <3>2
      <4>2. k \in DOMAIN findings'.parts /\ findings'.parts[k] = "FAILED"
        BY <2>6, <2>7, <3>2
      <4> QED BY <1>1, <4>1, <4>2 DEF FailureTold
    <3> QED BY <1>4, <3>2
  <2>9. Grown(findings, findings', pc) /\ pc \in DOMAIN findings'.steps
    BY <2>7 DEF Notes
  <2> QED BY <1>1, <1>2, <2>8, <2>9, PlainStep
<1> QED BY <1>3, <1>4 DEF StepEventSamples, Continue

\* At the last step every other one is in the findings, or excused.
LEMMA PlanDone ==
  ASSUME ReconInv, pc = "pagination_probe", Grown(findings, findings', pc),
         pc \in DOMAIN findings'.steps, NEW s \in ReportSteps
  PROVE  s \in DOMAIN findings'.steps \/ Excused(findings', s)
<1>1. pc \in DOMAIN Turn /\ s \in DOMAIN Turn /\ Turn[s] <= Turn[pc]
  BY Turns DEF ReportSteps
<1>2. s \in DOMAIN findings'.steps \/ (s = "dungeon_pulls" /\ IdAbsent(findings'.limits))
  BY <1>1, StepsThere
<1> QED BY <1>2 DEF IdAbsent, Excused

\* The last step, after which the report is written.
LEMMA PaginationProbeKeeps == ReconInv /\ StepPaginationProbe => ReconInv'
<1> SUFFICES ASSUME ReconInv, StepPaginationProbe PROVE ReconInv'
  OBVIOUS
<1>1. pc = "pagination_probe" /\ UNCHANGED <<world, retry, asked, fight>>
  BY DEF StepPaginationProbe
<1>2. IsFindings(findings) /\ pc \in DOMAIN Turn /\ Turn[pc] \in 9 .. 14
  BY <1>1, Turns DEF ReconInv
<1>3. ASSUME NEW f, NEW status, Notes(findings, f, pc, status), Finish(f),
             StatusTells(pc, status)
      PROVE  ReconInv'
  <2>1. /\ Grown(findings, findings', pc) /\ pc \in DOMAIN findings'.steps
        /\ findings'.steps[pc] = status
    BY <1>1, <1>3, Finishing DEF Notes
  <2>2. \A c \in failed' : c \in failed \/ (c[1] = pc /\ FailureTold(findings', c))
    <3>1. FailedOr
      BY <1>3, <2>1 DEF FailedOr, StatusTells
    <3> QED BY <3>1, <2>1, FailureRecorded
  <2>3. \A s \in ReportSteps : s \in DOMAIN findings'.steps \/ Excused(findings', s)
    BY <1>1, <2>1, PlanDone
  <2> QED BY <1>1, <1>2, <1>3, <2>2, <2>3, LateEnd
<1>4. CASE Answers /\ Finish(Record(findings, "pagination_probe", "SKIPPED"))
  <2>1. Notes(findings, Record(findings, "pagination_probe", "SKIPPED"), pc, "SKIPPED")
    BY <1>1, <1>2, NotesShapes
  <2>2. StatusTells(pc, "SKIPPED")
    BY <1>4 DEF StatusTells, Answers
  <2> QED BY <1>3, <1>4, <2>1, <2>2
<1>5. CASE Fails("pagination_probe") /\ Finish(Record(findings, "pagination_probe", "FAILED"))
  <2>1. Notes(findings, Record(findings, "pagination_probe", "FAILED"), pc, "FAILED")
    BY <1>1, <1>2, NotesShapes
  <2>2. StatusTells(pc, "FAILED")
    BY <1>1, <1>5 DEF StatusTells, Fails
  <2> QED BY <1>3, <1>5, <2>1, <2>2
<1>6. ASSUME NEW texts, Answers,
             Finish(Limitation(Record(findings, "pagination_probe", "SINGLE_PAGE"), texts))
      PROVE  ReconInv'
  <2>1. Notes(findings, Limitation(Record(findings, "pagination_probe", "SINGLE_PAGE"), texts),
              pc, "SINGLE_PAGE")
    BY <1>1, <1>2, NotesShapes
  <2>2. StatusTells(pc, "SINGLE_PAGE")
    BY <1>6 DEF StatusTells, Answers
  <2> QED BY <1>3, <1>6, <2>1, <2>2
<1>7. ASSUME NEW traversal \in {"OK", "FAILED"}, NEW statuses,
             "traversal" \in DOMAIN statuses, statuses["traversal"] = traversal,
             failed' = failed
               \/ /\ traversal = "FAILED"
                  /\ failed' = failed \cup {<<"pagination_probe", "traversal">>},
             Finish(RecordParts(Record(findings, "pagination_probe", "OK"),
                                "pagination_probe", statuses))
      PROVE  ReconInv'
  <2> DEFINE a == Record(findings, "pagination_probe", "OK")
             f == RecordParts(a, "pagination_probe", statuses)
             k == <<"pagination_probe", "traversal">>
  <2>1. Notes(findings, a, "pagination_probe", "OK")
    BY <1>2, NotesShapes
  <2> HIDE DEF a
  <2>2. Notes(findings, f, pc, "OK") /\ k \in DOMAIN f.parts /\ f.parts[k] = traversal
    <3>1. Notes(findings, f, "pagination_probe", "OK")
      BY <2>1, NotesMore
    <3>2. IsFindings(a)
      BY <2>1 DEF Notes, Grown
    <3>3. k \in DOMAIN f.parts /\ f.parts[k] = statuses["traversal"]
      BY <1>7, <3>2, FindingsOperations
    <3> HIDE DEF f, k
    <3> QED BY <1>1, <1>7, <3>1, <3>3
  <2>3. Finish(f)
    BY <1>7 DEF a
  <2> HIDE DEF f
  <2>4. /\ Grown(findings, findings', pc) /\ pc \in DOMAIN findings'.steps
        /\ k \in DOMAIN findings'.parts /\ findings'.parts[k] = traversal
    BY <2>2, <2>3, Finishing DEF Notes
  <2>5. \A c \in failed' : c \in failed \/ (c[1] = pc /\ FailureTold(findings', c))
    <3>1. k[1] = pc /\ k[2] # ""
      BY <1>1
    <3> HIDE DEF k
    <3>2. traversal = "FAILED" => FailureTold(findings', k)
      BY <2>4, <3>1 DEF FailureTold
    <3>3. \A c \in failed' : c \in failed \/ (c = k /\ traversal = "FAILED")
      BY <1>7 DEF k
    <3> QED BY <3>1, <3>2, <3>3
  <2>6. \A s \in ReportSteps : s \in DOMAIN findings'.steps \/ Excused(findings', s)
    BY <1>1, <2>4, PlanDone
  <2> QED BY <1>1, <1>2, <2>2, <2>3, <2>5, <2>6, LateEnd
<1>8. ASSUME NEW traversal \in {"OK", "FAILED"},
             IF traversal = "OK" THEN Answers
             ELSE /\ faults > 0
                  /\ faults' = faults - 1
                  /\ failed' = failed \cup {<<"pagination_probe", "traversal">>},
             Finish(RecordParts(Record(findings, "pagination_probe", "OK"), "pagination_probe",
                                [semantics |-> Report.cursor, traversal |-> traversal]))
      PROVE  ReconInv'
  <2> DEFINE statuses == [semantics |-> Report.cursor, traversal |-> traversal]
  <2>1. "traversal" \in DOMAIN statuses /\ statuses["traversal"] = traversal
    OBVIOUS
  <2>2. \/ failed' = failed
        \/ /\ traversal = "FAILED"
           /\ failed' = failed \cup {<<"pagination_probe", "traversal">>}
    BY <1>8 DEF Answers
  <2>3. Finish(RecordParts(Record(findings, "pagination_probe", "OK"), "pagination_probe",
                           statuses))
    BY <1>8
  <2> HIDE DEF statuses
  <2> QED BY <1>7, <2>1, <2>2, <2>3
<1> QED BY <1>4, <1>5, <1>6, <1>8 DEF StepPaginationProbe

\* An exception that no step catches ends the run without a report.
LEMMA EscapesKeep == ReconInv /\ (SecondPageFails \/ IntrospectionFails) => ReconInv'
<1> SUFFICES ASSUME ReconInv, SecondPageFails \/ IntrospectionFails PROVE ReconInv'
  OBVIOUS
<1>1. /\ pc \in {"pagination_probe", "field_verification", "discovery_paths",
                 "report_metadata", "fights", "dungeon_pulls"}
      /\ pc' = "escaped"
      /\ UNCHANGED <<world, findings, retry, asked, fight, written>>
  BY DEF SecondPageFails, IntrospectionFails, Escapes
<1>2. pc \in DOMAIN Turn
  BY <1>1, Turns
<1> QED BY <1>1, <1>2, RunEscapes

\* The run starts with nothing told, failed or asked.
LEMMA ReconStarts == ReconInit => ReconInv
<1> SUFFICES ASSUME ReconInit PROVE ReconInv
  OBVIOUS
<1>1. /\ pc = "auth" /\ pc \in DOMAIN Turn /\ Turn[pc] = 1
      /\ \A s \in DOMAIN Turn : ~(Turn[s] < Turn[pc])
  BY Turns DEF ReconInit
<1>2. /\ DOMAIN findings.steps = {} /\ IsFindings(findings) /\ failed = {} /\ DOMAIN asked = {}
      /\ world \in Worlds /\ written = NoReport /\ fight = FALSE
      /\ retry = [attempt |-> 1, excluded |-> {}]
  BY DEF ReconInit, IsFindings
<1>3. Cardinality({}) = 0 /\ IsFiniteSet({})
  BY FS_EmptySet
<1>4. Underway
  BY <1>1, <1>2, <1>3 DEF Underway, MaxAttempts
<1> QED BY <1>1, <1>2, <1>3, <1>4 DEF ReconInv, MissingSaid, FightKnown

\* Every step of the run keeps the invariant.
LEMMA ReconStep == ReconInv /\ [ReconNext]_reconVars => ReconInv'
<1> SUFFICES ASSUME ReconInv, [ReconNext]_reconVars PROVE ReconInv'
  OBVIOUS
<1>1. CASE StepAuth \/ StepRateLimit \/ StepSchemaTypes \/ StepFieldVerification
  BY <1>1, AuthKeeps, RateLimitKeeps, SchemaTypesKeeps, FieldVerificationKeeps
<1>2. CASE StepDiscovery \/ StepZones \/ StepReportsProbe \/ StepReportMetadata
  BY <1>2, DiscoveryKeeps, ZonesKeeps, ReportsProbeKeeps, MetadataSkippedKeeps,
     MetadataUnansweredKeeps, MetadataRejectedKeeps, MetadataAnsweredKeeps
     DEF StepReportMetadata
<1>3. CASE StepFights \/ StepMasterData \/ StepQueryCost \/ StepDungeonPulls
  BY <1>3, FightsKeeps, MasterDataKeeps, QueryCostKeeps, DungeonPullsKeeps
<1>4. CASE StepEventSamples \/ StepPaginationProbe \/ SecondPageFails \/ IntrospectionFails
  BY <1>4, EventSamplesKeeps, PaginationProbeKeeps, EscapesKeep
<1>5. CASE UNCHANGED reconVars
  <2>1. /\ UNCHANGED <<world, findings, pc, written, asked, fight, retry, failed>>
    BY <1>5 DEF reconVars
  <2>2. Underway' <=> Underway
    BY <2>1, SameWorld DEF Underway, FailureTold, IdAbsent, Shows
  <2> QED BY <2>1, <2>2, SameWorld DEF ReconInv
<1> QED BY <1>1, <1>2, <1>3, <1>4, <1>5 DEF ReconNext

\* A recon report that is written has every step of the plan, or says why not,
\* and each call that failed is recorded as failed.
THEOREM ReportIsComplete == ReconSpec => []ReportTellsAll
<1>1. ReconInv => ReportTellsAll
  BY DEF ReconInv, AllTold, FailureTold, ReportTellsAll
<1> QED BY <1>1, ReconStarts, ReconStep, PTL DEF ReconSpec

\* Whatever was not asked for of what is wanted is said in the report, with the
\* reason: not in the schema, without leaves, or refused.
THEOREM AbsenceIsExplained == ReconSpec => []MissingIsSaid
<1>1. ReconInv => MissingIsSaid
  BY DEF ReconInv, MissingSaid, FieldSaid, MissingIsSaid
<1> QED BY <1>1, ReconStarts, ReconStep, PTL DEF ReconSpec

\* A leaf is left out only if the server refuses it, and the metadata of a report
\* are lost to refusals only where a third name is refused.
THEOREM RetriesEnough == ReconSpec => []RetryWorks
<1>1. ReconInv => RetryWorks
  BY DEF ReconInv, LossExplained, RetryWorks
<1> QED BY <1>1, ReconStarts, ReconStep, PTL DEF ReconSpec

(***************************************************************************)
(* The benchmarks.                                                         *)
(***************************************************************************)
\* What a server sends is finite, and can be counted.
LEMMA SentFinite ==
  ASSUME server \in Servers, NEW T, T \subseteq DOMAIN server.log
  PROVE  IsFiniteSet(T) /\ Cardinality(T) \in Nat /\ T \subseteq Nat
<1>1. Len(server.log) \in Nat /\ DOMAIN server.log = 1 .. Len(server.log)
  BY ProbesAssumption
<1>2. IsFiniteSet(1 .. Len(server.log))
  BY FS_Interval
<1>3. IsFiniteSet(T)
  BY <1>1, <1>2, FS_Subset
<1> QED BY <1>1, <1>3, FS_CardinalityType

\* A part of a finite set that is not all of it is smaller.
LEMMA PartIsSmaller ==
  ASSUME NEW S, IsFiniteSet(S), NEW T \in SUBSET S, T # S
  PROVE  Cardinality(T) \in Nat /\ Cardinality(T) < Cardinality(S)
<1>1. /\ IsFiniteSet(T) /\ Cardinality(T) <= Cardinality(S)
      /\ Cardinality(S) # Cardinality(T)
  BY FS_Subset
<1>2. Cardinality(T) \in Nat /\ Cardinality(S) \in Nat
  BY <1>1, FS_CardinalityType
<1> QED BY <1>1, <1>2

\* A set of numbers that has a bound has a greatest.
LEMMA GreatestNumber ==
  ASSUME NEW S \in SUBSET Nat, S # {}, NEW b \in Nat, \A m \in S : m <= b
  PROVE  \E n \in S : \A m \in S : m <= n
<1> DEFINE bounds == {n \in Nat : \A m \in S : m <= n}
<1>1. bounds \in SUBSET Nat /\ b \in bounds
  OBVIOUS
<1>2. PICK n \in bounds : \A k \in bounds : n <= k
  <2> HIDE DEF bounds
  <2> QED BY <1>1, LeastNumber
<1>3. n \in Nat /\ \A m \in S : m <= n
  BY <1>2
<1>4. ASSUME n \notin S PROVE FALSE
  <2>1. \A m \in S : m \in Nat /\ m < n
    BY <1>3, <1>4
  <2>2. n - 1 \in Nat /\ \A m \in S : m <= n - 1
    <3>1. PICK k \in S : TRUE
      OBVIOUS
    <3>2. k \in Nat /\ k < n
      BY <2>1
    <3>3. n - 1 \in Nat /\ \A m \in Nat : m < n => m <= n - 1
      BY <1>3, <3>2
    <3> QED BY <2>1, <3>3
  <2>3. n - 1 \in bounds
    BY <2>2
  <2> QED BY <1>2, <1>3, <2>3
<1> QED BY <1>3, <1>4

-----------------------------------------------------------------------------
\* The events of a log are positions in it, in the order of their times.
LEMMA LogInOrder ==
  ASSUME server \in Servers
  PROVE  /\ \A i \in DOMAIN server.log : i \in Nat /\ i <= Len(server.log) /\ server.log[i].ts \in Nat
         /\ \A i, j \in DOMAIN server.log : i <= j => server.log[i].ts <= server.log[j].ts
         /\ Len(server.log) \in Nat
<1>1. /\ Len(server.log) \in Nat /\ DOMAIN server.log = 1 .. Len(server.log)
      /\ \A i \in DOMAIN server.log : server.log[i].ts \in Nat
      /\ \A i, j \in DOMAIN server.log : i < j => server.log[i].ts <= server.log[j].ts
  BY ProbesAssumption
<1> QED BY <1>1

\* A page is the first of what is due, all of it or as much as the limit allows,
\* and the cursor is the time of its last event, or the one after it.
LEMMA PageRead ==
  ASSUME server \in Servers, NEW q, NEW c \in Nat
  PROVE  LET page == PageAt(q, c)
             due == Due(q, c) IN
         /\ page \subseteq due /\ due \subseteq Sent(q) /\ Sent(q) \subseteq DOMAIN server.log
         /\ \A i \in page, j \in due : j < i => j \in page
         /\ due # {} => page # {}
         /\ Cardinality(page) \in 0 .. PageLimit
         /\ page # due =>
              /\ Cardinality(page) = PageLimit
              /\ \E last \in page :
                   /\ \A j \in page : j <= last
                   /\ NextAt(q, c) = server.log[last].ts
                                       + IF server.rule = "inclusive" THEN 0 ELSE 1
<1> DEFINE page == PageAt(q, c)
           due == Due(q, c)
           Below(i) == {j \in due : j < i}
<1>1. /\ Sent(q) \subseteq DOMAIN server.log /\ due \subseteq Sent(q)
      /\ page = {i \in due : Cardinality(Below(i)) < PageLimit}
  BY DEF Sent, Due, PageAt
<1>2. PageLimit \in Nat /\ PageLimit > 0
  BY ProbesAssumption
<1>3. due \subseteq DOMAIN server.log /\ due \in SUBSET Nat /\ IsFiniteSet(due)
  <2>1. due \subseteq DOMAIN server.log
    BY <1>1
  <2> HIDE DEF due
  <2> QED BY <2>1, SentFinite
<1>4. NextAt(q, c) = server.log[CHOOSE i \in page : \A j \in page : j <= i].ts
                       + IF server.rule = "inclusive" THEN 0 ELSE 1
  BY DEF NextAt
<1>5. \A i \in due : i <= Len(server.log) /\ Len(server.log) \in Nat
  BY <1>3, LogInOrder
<1> HIDE DEF page, due
<1>6. \A i : IsFiniteSet(Below(i)) /\ Cardinality(Below(i)) \in Nat
  BY <1>3, FS_Subset, FS_CardinalityType
<1>7. ASSUME NEW i \in page, NEW j \in due, j < i
      PROVE  j \in page
  <2>1. i \in due /\ due \subseteq Nat
    BY <1>1, <1>3
  <2>2. \A k \in due : k < j => k < i
    BY <1>7, <2>1
  <2>3. Below(j) \in SUBSET Below(i)
    BY <2>2
  <2>4. Cardinality(Below(j)) <= Cardinality(Below(i))
    <3> HIDE DEF Below
    <3> QED BY <1>6, <2>3, FS_Subset
  <2>5. Cardinality(Below(i)) < PageLimit
    BY <1>1, <1>7
  <2>6. Cardinality(Below(j)) < PageLimit
    <3> HIDE DEF Below
    <3> QED BY <1>2, <1>6, <2>4, <2>5
  <2> QED BY <1>1, <2>6
<1>8. page \subseteq due /\ IsFiniteSet(page) /\ Cardinality(page) \in Nat
  <2>1. page \in SUBSET due
    BY <1>1
  <2> QED BY <1>3, <2>1, FS_Subset, FS_CardinalityType
<1>9. ASSUME NEW S \in SUBSET due, S # {}, \A i \in S, j \in due : j < i => j \in S
      PROVE  \E last \in S : /\ \A j \in S : j <= last
                             /\ S = Below(last) \cup {last}
  <2>1. PICK last \in S : \A j \in S : j <= last
    BY <1>3, <1>5, <1>9, GreatestNumber
  <2>2. \A j \in S : j = last \/ j < last
    BY <1>3, <2>1
  <2>3. S = Below(last) \cup {last}
    BY <1>9, <2>1, <2>2
  <2> QED BY <2>1, <2>3
<1>10. due # {} => page # {}
  <2> SUFFICES ASSUME due # {} PROVE page # {}
    OBVIOUS
  <2>1. PICK m \in due : \A i \in due : m <= i
    BY <1>3, LeastNumber
  <2>2. Below(m) = {}
    BY <1>3, <2>1
  <2>3. Cardinality(Below(m)) = 0
    BY <2>2, FS_EmptySet
  <2> QED BY <1>1, <1>2, <2>3
<1>11. Cardinality(page) <= PageLimit
  <2>1. CASE page = {}
    BY <1>2, <2>1, FS_EmptySet
  <2>2. CASE page # {}
    <3>1. PICK last \in page : page = Below(last) \cup {last}
      BY <1>7, <1>8, <1>9, <2>2
    <3>2. last \notin Below(last) /\ Cardinality(Below(last)) < PageLimit
      BY <1>1, <1>3
    <3>3. Cardinality(page) = Cardinality(Below(last)) + 1
      <4> HIDE DEF Below
      <4> QED BY <1>6, <3>1, <3>2, FS_AddElement
    <3> HIDE DEF Below
    <3> QED BY <1>2, <1>6, <3>2, <3>3
  <2> QED BY <2>1, <2>2
<1>12. ASSUME page # due
       PROVE  /\ Cardinality(page) >= PageLimit
              /\ \E last \in page :
                   /\ \A j \in page : j <= last
                   /\ NextAt(q, c) = server.log[last].ts
                                       + IF server.rule = "inclusive" THEN 0 ELSE 1
  <2>1. PICK m \in due \ page : \A i \in due \ page : m <= i
    <3>1. due \ page # {} /\ due \ page \in SUBSET Nat
      BY <1>3, <1>8, <1>12
    <3> QED BY <3>1, LeastNumber
  <2>2. Below(m) = page
    <3>1. ASSUME NEW i \in page PROVE i < m
      <4>1. i # m /\ ~(m < i)
        BY <1>7, <2>1
      <4> QED BY <1>3, <1>8, <2>1, <4>1
    <3>2. ASSUME NEW i \in due, i < m PROVE i \in page
      BY <1>3, <2>1, <3>2
    <3> QED BY <1>8, <3>1, <3>2
  <2>3. ~(Cardinality(page) < PageLimit)
    BY <1>1, <2>1, <2>2
  <2>4. page # {}
    BY <1>10, <2>1
  <2>5. \E last \in page : \A j \in page : j <= last
    BY <1>7, <1>8, <1>9, <2>4
  <2>6. DEFINE last == CHOOSE i \in page : \A j \in page : j <= i
  <2>7. last \in page /\ \A j \in page : j <= last
    BY <2>5
  <2>8. Cardinality(page) >= PageLimit
    BY <1>2, <1>8, <2>3
  <2> QED BY <1>4, <2>7, <2>8
<1>13. Cardinality(page) \in 0 .. PageLimit
  BY <1>2, <1>8, <1>11
<1>14. page # due => Cardinality(page) = PageLimit
  BY <1>2, <1>8, <1>11, <1>12
<1> QED BY <1>1, <1>7, <1>8, <1>10, <1>12, <1>13, <1>14 DEF page, due

\* What is older than a cursor.
EarlierThan(q, c) == {i \in Sent(q) : server.log[i].ts < c}

\* Whom the events of a part of the log name, on one side or the other.
SourcesOf(T) == {server.log[i].source : i \in T}
TargetsOf(T) == {server.log[i].target : i \in T}

\* What a measurement has.
Fields == {"cursor", "pages", "events", "exhausted", "error", "sources", "targets"}

\* What a probe of a request may have come to: it names no one whom the events
\* sent do not name, everyone whom those of the cursor's past name if none of
\* them is missed, and counts them if each is sent once.
Fits(q, p) ==
  /\ Fields \subseteq DOMAIN p
  /\ p.cursor \in Nat /\ p.pages \in Nat /\ p.events \in Nat
  /\ p.exhausted \in BOOLEAN /\ p.error \in BOOLEAN /\ ~(p.exhausted /\ p.error)
  /\ p.pages = 0 => p.cursor = 0 /\ ~p.exhausted
  /\ p.pages > 0 /\ Sent(q) # {} => p.events > 0
  /\ p.sources \subseteq SourcesOf(Sent(q)) \ {NoActor}
  /\ p.targets \subseteq TargetsOf(Sent(q)) \ {NoActor}
  /\ Whole(q) =>
       \A i \in IF p.exhausted THEN Sent(q) ELSE EarlierThan(q, p.cursor) :
          /\ server.log[i].source \in p.sources \cup {NoActor}
          /\ server.log[i].target \in p.targets \cup {NoActor}
  /\ Countable(q) =>
       /\ p.events = Cardinality(IF p.exhausted THEN Sent(q) ELSE EarlierThan(q, p.cursor))
       /\ ~p.exhausted => p.events = p.pages * PageLimit

\* What comes after a page that is not the last, under a cursor that misses
\* nothing, and under one that also repeats nothing.
LEMMA NextCursor ==
  ASSUME server \in Servers, NEW q, NEW c \in Nat, PageAt(q, c) # Due(q, c)
  PROVE  /\ NextAt(q, c) \in Nat
         /\ PageAt(q, c) \cap EarlierThan(q, c) = {}
         /\ \A n \in 1 .. MaxPages :
              Countable(q) /\ Cardinality(EarlierThan(q, c)) + PageLimit = n * PageLimit
                => EarlierThan(q, NextAt(q, c)) = EarlierThan(q, c) \cup PageAt(q, c)
         /\ server.rule = "inclusive" =>
              EarlierThan(q, NextAt(q, c)) \subseteq EarlierThan(q, c) \cup PageAt(q, c)
<1> DEFINE page == PageAt(q, c)
           due == Due(q, c)
           before == EarlierThan(q, c)
           ts(i) == server.log[i].ts
<1>1. /\ page \subseteq due /\ due \subseteq Sent(q) /\ Sent(q) \subseteq DOMAIN server.log
      /\ \A i \in page, j \in due : j < i => j \in page
      /\ Cardinality(page) = PageLimit
  BY PageRead
<1>2. PICK last \in page :
        /\ \A j \in page : j <= last
        /\ NextAt(q, c) = ts(last) + IF server.rule = "inclusive" THEN 0 ELSE 1
  BY PageRead
<1>3. /\ \A i \in Sent(q) : i \in Nat /\ ts(i) \in Nat
      /\ \A i, j \in Sent(q) : i <= j => ts(i) <= ts(j)
  BY <1>1, LogInOrder
<1>4. /\ \A i \in Sent(q) : i \in due <=> ts(i) >= c
      /\ before = {i \in Sent(q) : ts(i) < c}
      /\ EarlierThan(q, NextAt(q, c)) = {i \in Sent(q) : ts(i) < NextAt(q, c)}
  BY DEF Due, EarlierThan
<1>5. server.rule \in {"inclusive", "exclusive"} /\ PageLimit \in Nat
  BY ProbesAssumption
<1>6. IsFiniteSet(before) /\ IsFiniteSet(page) /\ IsFiniteSet(Sent(q)) /\ IsFiniteSet(due)
  <2>1. before \subseteq DOMAIN server.log
    BY <1>1, <1>4
  <2> HIDE DEF before, page, due
  <2> QED BY <1>1, <2>1, SentFinite
<1>7. Countable(q) =>
        \/ Cardinality(Sent(q)) <= PageLimit
        \/ /\ server.rule = "exclusive"
           /\ \A n \in 1 .. MaxPages, i, j \in Sent(q) :
                i < j /\ Cardinality({k \in Sent(q) : k <= i}) = n * PageLimit => ts(i) # ts(j)
  BY DEF Countable
<1>8. page # due
  OBVIOUS
<1> HIDE DEF page, due, before, ts
<1>9. page \cap before = {}
  BY <1>1, <1>3, <1>4
<1>10. NextAt(q, c) \in Nat
  BY <1>1, <1>2, <1>3
<1>11. ASSUME NEW i \in Sent(q), i \in due \/ i \in page, i \notin page
       PROVE  last < i /\ ts(last) <= ts(i)
  <2>1. i \in Nat /\ last \in Nat /\ i # last /\ ~(i < last)
    BY <1>1, <1>2, <1>3, <1>11
  <2>2. last < i
    BY <2>1
  <2> QED BY <1>1, <1>3, <2>2
<1>12. ASSUME NEW i \in before \cup page PROVE i \in Sent(q) /\ i <= last /\ ts(i) < ts(last) + 1
  <2>1. i \in Sent(q) /\ last \in Sent(q) /\ last \in due /\ ts(last) >= c
    BY <1>1, <1>4
  <2>2. CASE i \in page
    BY <1>2, <1>3, <2>1, <2>2
  <2>3. CASE i \in before
    <3>1. ts(i) < ts(last)
      BY <1>3, <1>4, <2>1, <2>3
    <3> QED BY <1>3, <2>1, <3>1
  <2> QED BY <2>2, <2>3
<1>13. ASSUME server.rule = "inclusive"
       PROVE  EarlierThan(q, NextAt(q, c)) \subseteq before \cup page
  <2> SUFFICES ASSUME NEW i \in Sent(q), ts(i) < NextAt(q, c), i \notin before, i \notin page
               PROVE  FALSE
    BY <1>4
  <2>1. i \in due /\ last \in Sent(q)
    BY <1>1, <1>3, <1>4
  <2>2. ts(last) <= ts(i) /\ NextAt(q, c) = ts(last)
    BY <1>2, <1>3, <1>11, <1>13, <2>1
  <2> QED BY <1>3, <2>1, <2>2
<1>14. ASSUME NEW n \in 1 .. MaxPages, Countable(q),
              Cardinality(before) + PageLimit = n * PageLimit
       PROVE  EarlierThan(q, NextAt(q, c)) = before \cup page
  <2>1. Cardinality(Sent(q)) > PageLimit
    <3>1. Cardinality(due) <= Cardinality(Sent(q)) /\ Cardinality(page) < Cardinality(due)
      BY <1>1, <1>6, <1>8, FS_Subset, PartIsSmaller
    <3>2. Cardinality(Sent(q)) \in Nat /\ Cardinality(due) \in Nat
      BY <1>6, FS_CardinalityType
    <3> QED BY <1>1, <1>5, <3>1, <3>2
  <2>2. ~(Cardinality(Sent(q)) <= PageLimit)
    <3>1. Cardinality(Sent(q)) \in Nat
      BY <1>6, FS_CardinalityType
    <3> QED BY <1>5, <2>1, <3>1
  <2>3. /\ server.rule = "exclusive"
        /\ \A i, j \in Sent(q) :
             i < j /\ Cardinality({k \in Sent(q) : k <= i}) = n * PageLimit => ts(i) # ts(j)
    BY <1>7, <1>14, <2>2
  <2>4. last \in Sent(q) /\ last \in due /\ NextAt(q, c) = ts(last) + 1
    BY <1>1, <1>2, <2>3
  <2>5. {k \in Sent(q) : k <= last} = before \cup page
    <3>1. ASSUME NEW k \in Sent(q), k <= last, k \notin before PROVE k \in page
      <4>1. k \in due
        BY <1>3, <1>4, <3>1
      <4> QED BY <1>3, <1>11, <2>4, <3>1, <4>1
    <3> QED BY <1>12, <3>1
  <2>6. Cardinality(before \cup page) = Cardinality(before) + Cardinality(page)
    <3>1. /\ Cardinality(before \cup page)
               = Cardinality(before) + Cardinality(page) - Cardinality(before \cap page)
          /\ Cardinality(before) \in Nat /\ Cardinality(page) \in Nat
      BY <1>6, FS_Union, FS_CardinalityType
    <3>2. Cardinality(before \cap page) = 0
      <4>1. before \cap page = {}
        BY <1>9
      <4> QED BY <4>1, FS_EmptySet
    <3> QED BY <3>1, <3>2
  <2>7. Cardinality({k \in Sent(q) : k <= last}) = n * PageLimit
    BY <1>1, <1>14, <2>5, <2>6
  <2>8. ASSUME NEW i \in Sent(q), ts(i) < NextAt(q, c), i \notin before, i \notin page
        PROVE  FALSE
    <3>1. i \in due
      BY <1>3, <1>4, <2>8
    <3>2. last < i /\ ts(last) <= ts(i)
      BY <1>11, <2>8, <3>1
    <3>3. ts(last) # ts(i)
      BY <2>3, <2>4, <2>7, <3>2
    <3>4. ts(i) < ts(last) + 1 /\ ts(i) \in Nat /\ ts(last) \in Nat
      BY <1>3, <2>4, <2>8
    <3> QED BY <3>2, <3>3, <3>4
  <2>9. \A i \in before \cup page : i \in Sent(q) /\ ts(i) < NextAt(q, c)
    BY <1>12, <2>4
  <2> QED BY <1>4, <2>8, <2>9
<1> QED BY <1>9, <1>10, <1>13, <1>14 DEF page, before

\* A probe starts with nothing counted.
LEMMA NewFits ==
  ASSUME server \in Servers, NEW q
  PROVE  Fits(q, NewProbe)
<1>1. /\ NewProbe.cursor = 0 /\ NewProbe.pages = 0 /\ NewProbe.events = 0
      /\ NewProbe.exhausted = FALSE /\ NewProbe.error = FALSE
      /\ NewProbe.sources = {} /\ NewProbe.targets = {}
  BY DEF NewProbe
<1>2. EarlierThan(q, 0) = {}
  <2>1. \A i \in Sent(q) : server.log[i].ts \in Nat
    BY LogInOrder DEF Sent
  <2> QED BY <2>1 DEF EarlierThan
<1>3. Cardinality({}) = 0 /\ PageLimit \in Nat
  BY FS_EmptySet, ProbesAssumption
<1>4. 0 = 0 * PageLimit
  BY <1>3
<1>5. Fields \subseteq DOMAIN NewProbe
  BY DEF Fields, NewProbe
<1>6. /\ NewProbe.cursor \in Nat /\ NewProbe.pages \in Nat /\ NewProbe.events \in Nat
      /\ NewProbe.exhausted \in BOOLEAN /\ NewProbe.error \in BOOLEAN
  BY DEF NewProbe
<1>7. (IF NewProbe.exhausted THEN Sent(q) ELSE EarlierThan(q, NewProbe.cursor)) = {}
  BY <1>1, <1>2
<1>8. NewProbe.events = NewProbe.pages * PageLimit
  BY <1>1, <1>4
<1> QED BY <1>1, <1>3, <1>5, <1>6, <1>7, <1>8 DEF Fits

\* One more page makes a probe come to more of the same.
LEMMA AfterPageFits ==
  ASSUME server \in Servers, NEW q, NEW p, Fits(q, p), Reading(p)
  PROVE  Fits(q, AfterPage(q, p)) /\ ~AfterPage(q, p).error
         /\ AfterPage(q, p).pages = p.pages + 1
         /\ AfterPage(q, p).events - p.events \in 0 .. PageLimit
<1> DEFINE page == PageAt(q, p.cursor)
           due == Due(q, p.cursor)
           before == EarlierThan(q, p.cursor)
           after == AfterPage(q, p)
           reached == IF after.exhausted THEN Sent(q) ELSE EarlierThan(q, after.cursor)
<1>1. /\ p.cursor \in Nat /\ p.pages \in Nat /\ p.events \in Nat
      /\ p.error = FALSE /\ p.exhausted = FALSE /\ p.pages < MaxPages
      /\ p.pages = 0 => p.cursor = 0
      /\ p.pages > 0 /\ Sent(q) # {} => p.events > 0
      /\ p.sources \subseteq SourcesOf(Sent(q)) \ {NoActor}
      /\ p.targets \subseteq TargetsOf(Sent(q)) \ {NoActor}
      /\ Whole(q) => \A i \in before : /\ server.log[i].source \in p.sources \cup {NoActor}
                                       /\ server.log[i].target \in p.targets \cup {NoActor}
      /\ Countable(q) => p.events = Cardinality(before) /\ p.events = p.pages * PageLimit
  BY DEF Fits, Reading
<1>2. /\ after.cursor = IF page # due THEN NextAt(q, p.cursor) ELSE p.cursor
      /\ after.pages = p.pages + 1 /\ after.events = p.events + Cardinality(page)
      /\ after.exhausted = (page = due) /\ after.error = FALSE
      /\ after.sources = (p.sources \cup SourcesOf(page)) \ {NoActor}
      /\ after.targets = (p.targets \cup TargetsOf(page)) \ {NoActor}
  BY <1>1 DEF AfterPage, SourcesOf, TargetsOf
<1>3. /\ page \subseteq due /\ due \subseteq Sent(q) /\ Sent(q) \subseteq DOMAIN server.log
      /\ due # {} => page # {}
      /\ Cardinality(page) \in 0 .. PageLimit
      /\ page # due => Cardinality(page) = PageLimit
  BY <1>1, PageRead
<1>4. PageLimit \in Nat /\ MaxPages \in Nat /\ PageLimit > 0
  BY ProbesAssumption
<1>5. /\ page # due => NextAt(q, p.cursor) \in Nat
      /\ page # due => page \cap before = {}
      /\ page # due => \A n \in 1 .. MaxPages :
              Countable(q) /\ Cardinality(before) + PageLimit = n * PageLimit
                => EarlierThan(q, NextAt(q, p.cursor)) = before \cup page
      /\ page # due /\ server.rule = "inclusive" =>
              EarlierThan(q, NextAt(q, p.cursor)) \subseteq before \cup page
  BY <1>1, NextCursor
<1>6. before \cup due = Sent(q) /\ before \cap due = {}
  <2>1. \A i \in Sent(q) : server.log[i].ts \in Nat
    BY LogInOrder DEF Sent
  <2> QED BY <1>1, <2>1 DEF EarlierThan, Due
<1>7. /\ IsFiniteSet(before) /\ IsFiniteSet(page)
      /\ Cardinality(before) \in Nat /\ Cardinality(page) \in Nat
  <2>1. before \subseteq DOMAIN server.log /\ page \subseteq DOMAIN server.log
    BY <1>3, <1>6
  <2> HIDE DEF before, page
  <2> QED BY <2>1, SentFinite
<1>8. \A a \in SourcesOf(page) : a \in SourcesOf(Sent(q))
  BY <1>3 DEF SourcesOf
<1>9. \A a \in TargetsOf(page) : a \in TargetsOf(Sent(q))
  BY <1>3 DEF TargetsOf
<1>10. \A i \in page : server.log[i].source \in SourcesOf(page) /\ server.log[i].target \in TargetsOf(page)
  BY DEF SourcesOf, TargetsOf
<1>11. p.pages = 0 => due = Sent(q)
  <2>1. EarlierThan(q, 0) = {}
    <3>1. \A i \in Sent(q) : server.log[i].ts \in Nat
      BY LogInOrder DEF Sent
    <3> QED BY <3>1 DEF EarlierThan
  <2> QED BY <1>1, <1>6, <2>1
<1>12. Countable(q) => \A n \in Nat : n = p.pages + 1 =>
           Cardinality(before) + PageLimit = n * PageLimit
  <2>1. \A k, l \in Nat : k * l + l = (k + 1) * l
    OBVIOUS
  <2> QED BY <1>1, <1>4, <2>1
<1>13. Whole(q) => server.rule = "inclusive" \/ Countable(q)
  BY DEF Whole
<1> HIDE DEF page, due, before, after
<1>14. /\ Countable(q) => reached = before \cup page
       /\ Whole(q) => reached \subseteq before \cup page
  <2>1. CASE page = due
    BY <1>2, <1>6, <2>1
  <2>2. CASE page # due
    <3>1. p.pages + 1 \in 1 .. MaxPages
      BY <1>1, <1>4
    <3>2. reached = EarlierThan(q, NextAt(q, p.cursor))
      BY <1>2, <2>2
    <3>3. Countable(q) => Cardinality(before) + PageLimit = (p.pages + 1) * PageLimit
      BY <1>1, <1>12
    <3>4. Countable(q) => reached = before \cup page
      BY <1>5, <2>2, <3>1, <3>2, <3>3
    <3>5. server.rule = "inclusive" => reached \subseteq before \cup page
      BY <1>5, <2>2, <3>2
    <3> QED BY <1>13, <3>4, <3>5
  <2> QED BY <2>1, <2>2
<1> HIDE DEF reached
<1>15. page \cap before = {}
  BY <1>3, <1>6
<1>16. Cardinality(before \cup page) = Cardinality(before) + Cardinality(page)
  <2>1. Cardinality(before \cup page)
             = Cardinality(before) + Cardinality(page) - Cardinality(before \cap page)
    BY <1>7, FS_Union
  <2>2. Cardinality(before \cap page) = 0
    <3>1. before \cap page = {}
      BY <1>15
    <3> QED BY <3>1, FS_EmptySet
  <2> QED BY <1>7, <2>1, <2>2
<1>17. /\ after.cursor \in Nat /\ after.pages \in Nat /\ after.events \in Nat
       /\ after.exhausted \in BOOLEAN /\ after.pages # 0 /\ after.error = FALSE
  BY <1>1, <1>2, <1>5, <1>7
<1>18. after.events > 0 \/ Sent(q) = {}
  <2>1. CASE p.pages > 0
    BY <1>1, <1>2, <1>7, <2>1
  <2>2. CASE p.pages = 0 /\ Sent(q) # {}
    <3>1. page # {}
      BY <1>3, <1>11, <2>2
    <3>2. Cardinality(page) # 0
      BY <1>7, <3>1, FS_EmptySet
    <3> QED BY <1>1, <1>2, <1>7, <3>2
  <2> QED BY <1>1, <2>1, <2>2
<1>19. /\ after.sources \subseteq SourcesOf(Sent(q)) \ {NoActor}
       /\ after.targets \subseteq TargetsOf(Sent(q)) \ {NoActor}
  BY <1>1, <1>2, <1>8, <1>9
<1>20. Whole(q) => \A i \in reached : /\ server.log[i].source \in after.sources \cup {NoActor}
                                      /\ server.log[i].target \in after.targets \cup {NoActor}
  BY <1>1, <1>2, <1>10, <1>14
<1>21. Countable(q) => after.events = Cardinality(reached)
  BY <1>1, <1>2, <1>14, <1>16
<1>22. Countable(q) /\ ~after.exhausted => after.events = after.pages * PageLimit
  <2> SUFFICES ASSUME Countable(q), ~after.exhausted
               PROVE  after.events = after.pages * PageLimit
    OBVIOUS
  <2>1. after.events = Cardinality(before) + PageLimit
    BY <1>1, <1>2, <1>3
  <2> QED BY <1>1, <1>2, <1>12, <1>17, <2>1
<1>23. Fits(q, after)
  <2>1. Fields \subseteq DOMAIN after
    BY DEF Fields, after, AfterPage
  <2> QED BY <2>1, <1>17, <1>18, <1>19, <1>20, <1>21, <1>22 DEF Fits, reached
<1>24. after.events - p.events \in 0 .. PageLimit
  BY <1>1, <1>2, <1>3, <1>4
<1> QED BY <1>2, <1>17, <1>23, <1>24 DEF after

\* An error ends a probe and changes nothing that it has come to.
LEMMA FailureFits ==
  ASSUME NEW q, NEW p, Fits(q, p), Reading(p)
  PROVE  Fits(q, [p EXCEPT !.error = TRUE])
<1> DEFINE stopped == [p EXCEPT !.error = TRUE]
<1>1. Fields \subseteq DOMAIN p /\ p.exhausted = FALSE
  BY DEF Fits, Reading
<1>2. /\ Fields \subseteq DOMAIN stopped
      /\ stopped.cursor = p.cursor /\ stopped.pages = p.pages /\ stopped.events = p.events
      /\ stopped.exhausted = p.exhausted /\ stopped.sources = p.sources
      /\ stopped.targets = p.targets /\ stopped.error = TRUE
  BY <1>1 DEF Fields
<1> HIDE DEF stopped
<1>3. /\ stopped.cursor \in Nat /\ stopped.pages \in Nat /\ stopped.events \in Nat
      /\ stopped.exhausted \in BOOLEAN /\ stopped.error \in BOOLEAN
      /\ ~(stopped.exhausted /\ stopped.error)
      /\ stopped.pages = 0 => stopped.cursor = 0 /\ ~stopped.exhausted
      /\ stopped.pages > 0 /\ Sent(q) # {} => stopped.events > 0
      /\ stopped.sources \subseteq SourcesOf(Sent(q)) \ {NoActor}
      /\ stopped.targets \subseteq TargetsOf(Sent(q)) \ {NoActor}
  BY <1>1, <1>2 DEF Fits
<1>4. Whole(q) =>
       \A i \in IF stopped.exhausted THEN Sent(q) ELSE EarlierThan(q, stopped.cursor) :
          /\ server.log[i].source \in stopped.sources \cup {NoActor}
          /\ server.log[i].target \in stopped.targets \cup {NoActor}
  BY <1>2 DEF Fits
<1>5. Countable(q) =>
       /\ stopped.events = Cardinality(IF stopped.exhausted THEN Sent(q)
                                                          ELSE EarlierThan(q, stopped.cursor))
       /\ ~stopped.exhausted => stopped.events = stopped.pages * PageLimit
  BY <1>2 DEF Fits
<1> QED BY <1>2, <1>3, <1>4, <1>5 DEF Fits, stopped

\* The pages by which a probe came to where it is.
IsTrail(q, t, p) ==
  /\ t[0] = NewProbe /\ t[p.pages] = p
  /\ \A k \in Nat : k < p.pages => Reading(t[k]) /\ t[k + 1] = AfterPage(q, t[k])

Measures(q, p) == Fits(q, p) /\ (~p.error => \E t : IsTrail(q, t, p))

\* Requests that are sent the same events are answered alike.
LEMMA SameAnswers ==
  ASSUME NEW q, NEW r, Sent(q) = Sent(r)
  PROVE  \A p : AfterPage(q, p) = AfterPage(r, p)
<1>1. \A c : Due(q, c) = Due(r, c)
  BY DEF Due
<1>2. \A c : PageAt(q, c) = PageAt(r, c)
  BY <1>1 DEF PageAt
<1>3. \A c : NextAt(q, c) = NextAt(r, c)
  <2>1. TAKE c
  <2>2. PageAt(q, c) = PageAt(r, c)
    BY <1>2
  <2> QED BY <2>2, Zenon DEF NextAt
<1> QED BY <1>1, <1>2, <1>3 DEF AfterPage

\* So two complete probes of them come to the same.
LEMMA SameMeasurement ==
  ASSUME NEW q, NEW r, Sent(q) = Sent(r), NEW p, NEW s, Measures(q, p), Measures(r, s),
         p.exhausted, s.exhausted
  PROVE  p = s
<1>1. /\ p.pages \in Nat /\ s.pages \in Nat /\ ~p.error /\ ~s.error
  BY DEF Measures, Fits
<1>2. PICK t : IsTrail(q, t, p)
  BY <1>1 DEF Measures
<1>3. PICK u : IsTrail(r, u, s)
  BY <1>1 DEF Measures
<1>4. ASSUME NEW k \in Nat, k <= p.pages, k <= s.pages PROVE t[k] = u[k]
  <2> DEFINE apart == {n \in Nat : n <= p.pages /\ n <= s.pages /\ t[n] # u[n]}
  <2>1. SUFFICES ASSUME k \in apart PROVE FALSE
    BY <1>4
  <2>2. PICK n \in apart : \A m \in apart : n <= m
    <3>1. apart \in SUBSET Nat /\ apart # {}
      BY <2>1
    <3> HIDE DEF apart
    <3> QED BY <3>1, LeastNumber
  <2>3. n # 0
    BY <1>2, <1>3, <2>2 DEF IsTrail
  <2>4. n - 1 \in Nat /\ n - 1 < p.pages /\ n - 1 < s.pages /\ (n - 1) + 1 = n
    BY <1>1, <2>2, <2>3
  <2>5. t[n - 1] = u[n - 1]
    <3>1. n - 1 \notin apart
      BY <2>2, <2>4
    <3> QED BY <1>1, <2>4, <3>1
  <2>6. t[n] = AfterPage(q, t[n - 1]) /\ u[n] = AfterPage(r, u[n - 1])
    BY <1>2, <1>3, <2>4 DEF IsTrail
  <2> QED BY <2>2, <2>5, <2>6, SameAnswers
<1>5. p.pages <= s.pages
  <2> SUFFICES ASSUME s.pages < p.pages PROVE FALSE
    BY <1>1
  <2>1. t[s.pages] = s /\ Reading(t[s.pages])
    BY <1>1, <1>2, <1>3, <1>4 DEF IsTrail
  <2> QED BY <2>1 DEF Reading
<1>6. s.pages <= p.pages
  <2> SUFFICES ASSUME p.pages < s.pages PROVE FALSE
    BY <1>1
  <2>1. u[p.pages] = p /\ Reading(u[p.pages])
    BY <1>1, <1>2, <1>3, <1>4 DEF IsTrail
  <2> QED BY <2>1 DEF Reading
<1>7. p.pages = s.pages
  BY <1>1, <1>5, <1>6
<1>8. t[p.pages] = p /\ u[s.pages] = s
  BY <1>2, <1>3 DEF IsTrail
<1> QED BY <1>1, <1>4, <1>7, <1>8

\* A probe that has asked for nothing measures nothing.
LEMMA NewMeasures ==
  ASSUME server \in Servers, NEW q
  PROVE  Measures(q, NewProbe)
<1>1. NewProbe.pages = 0
  BY DEF NewProbe
<1>2. IsTrail(q, [k \in {0} |-> NewProbe], NewProbe)
  BY <1>1 DEF IsTrail
<1> QED BY <1>2, NewFits DEF Measures

\* Every page and every error leave a probe a measurement.
LEMMA PageMeasures ==
  ASSUME server \in Servers, NEW q, NEW p, Measures(q, p), Reading(p)
  PROVE  /\ Measures(q, AfterPage(q, p))
         /\ Measures(q, [p EXCEPT !.error = TRUE])
<1>1. Fits(q, p) /\ p.pages \in Nat /\ ~p.error
  BY DEF Measures, Fits, Reading
<1>2. PICK t : IsTrail(q, t, p)
  BY <1>1 DEF Measures
<1> DEFINE after == AfterPage(q, p)
           u == [k \in 0 .. p.pages + 1 |-> IF k = p.pages + 1 THEN after ELSE t[k]]
<1>3. Fits(q, after) /\ after.pages = p.pages + 1
  BY <1>1, AfterPageFits
<1>4. IsTrail(q, u, after)
  <2> HIDE DEF after
  <2>1. u[0] = NewProbe /\ u[after.pages] = after
    BY <1>1, <1>2, <1>3 DEF IsTrail
  <2>2. ASSUME NEW k \in Nat, k < after.pages
        PROVE  Reading(u[k]) /\ u[k + 1] = AfterPage(q, u[k])
    <3>1. CASE k = p.pages
      <4>1. u[k] = t[k] /\ u[k + 1] = after /\ t[k] = p
        BY <1>1, <1>2, <3>1 DEF IsTrail
      <4> QED BY <4>1 DEF after
    <3>2. CASE k < p.pages
      <4>1. u[k] = t[k] /\ u[k + 1] = t[k + 1]
        BY <1>1, <3>2
      <4> QED BY <1>2, <3>2, <4>1 DEF IsTrail
    <3> QED BY <1>1, <1>3, <2>2, <3>1, <3>2
  <2> HIDE DEF u
  <2> QED BY <2>1, <2>2 DEF IsTrail
<1>5. Fits(q, [p EXCEPT !.error = TRUE]) /\ [p EXCEPT !.error = TRUE].error = TRUE
  <2>1. "error" \in DOMAIN p
    BY <1>1 DEF Fits, Fields
  <2> QED BY <1>1, <2>1, FailureFits
<1>6. Measures(q, after)
  <2> HIDE DEF after, u
  <2> QED BY <1>3, <1>4 DEF Measures
<1>7. Measures(q, [p EXCEPT !.error = TRUE])
  BY <1>5 DEF Measures
<1> QED BY <1>6, <1>7

\* What is sent unnarrowed, by sides.
OfSides(sides) == {i \in DOMAIN server.log : server.log[i].side \in sides}

\* A request that names no actor is answered by the sides that it or the server
\* chooses.
LEMMA SentOfSides ==
  ASSUME server \in Servers
  PROVE  /\ Sent(Unnarrowed("any")) = OfSides(server.unfiltered)
         /\ \A side \in Sides :
              Sent(Unnarrowed(side)) =
                IF server.hostility THEN OfSides({side}) ELSE OfSides(server.unfiltered)
         /\ \A side \in Sides : Cardinality(OfSides({side})) = SideOf(side)
<1>1. ASSUME NEW side
      PROVE  Sent(Unnarrowed(side)) =
               OfSides(IF side = "any" \/ ~server.hostility THEN server.unfiltered ELSE {side})
  BY DEF Sent, Passes, Unnarrowed, OfSides
<1>2. "any" \notin Sides
  BY DEF Sides
<1>3. \A side : OfSides({side}) = {i \in DOMAIN server.log : server.log[i].side = side}
  BY DEF OfSides
<1>4. \A side \in Sides : Cardinality(OfSides({side})) = SideOf(side)
  BY <1>3 DEF SideOf
<1>5. ASSUME NEW side \in Sides
      PROVE  Sent(Unnarrowed(side)) =
                IF server.hostility THEN OfSides({side}) ELSE OfSides(server.unfiltered)
  BY <1>1, <1>2
<1> QED BY <1>1, <1>4, <1>5

\* The two sides have nothing in common.
LEMMA SidesAddUp ==
  ASSUME server \in Servers
  PROVE  /\ SideOf("Enemies") \in Nat /\ SideOf("Friendlies") \in Nat
         /\ Cardinality(OfSides(Sides)) = SideOf("Enemies") + SideOf("Friendlies")
<1> DEFINE E == OfSides({"Enemies"})
           F == OfSides({"Friendlies"})
<1>1. IsFiniteSet(E) /\ IsFiniteSet(F) /\ Cardinality(E) \in Nat /\ Cardinality(F) \in Nat
  BY SentFinite DEF OfSides
<1>2. OfSides(Sides) = E \cup F /\ E \cap F = {}
  BY DEF OfSides, Sides
<1>3. Cardinality(E) = SideOf("Enemies") /\ Cardinality(F) = SideOf("Friendlies")
  BY SentOfSides DEF Sides
<1> HIDE DEF E, F
<1>4. Cardinality(OfSides(Sides)) = Cardinality(E) + Cardinality(F) - Cardinality({})
  BY <1>1, <1>2, FS_Union
<1>5. Cardinality({}) = 0
  BY FS_EmptySet
<1> QED BY <1>1, <1>3, <1>4, <1>5

\* A complete comparison of the sides, as the server applies the filter and each
\* event is counted once.
LEMMA HostilityJudged ==
  ASSUME server \in Servers, command = "benchmark", server.hostility,
         NEW runs, Len(runs) = 3, Exhausted(runs), DOMAIN runs = 1 .. 3,
         \A i \in 1 .. 3 : Measures(Requested[i], runs[i]) /\ Countable(Requested[i]),
         SideOf("Enemies") # SideOf("Friendlies"),
         SideOf("Enemies") # 0, SideOf("Friendlies") # 0
  PROVE  Verdict(runs) = Truth
<1> DEFINE E == SideOf("Enemies")
           F == SideOf("Friendlies")
           U == Cardinality(OfSides(server.unfiltered))
<1>1. E \in Nat /\ F \in Nat /\ Cardinality(OfSides(Sides)) = E + F
  BY SidesAddUp
<1>2. /\ Requested[1] = Unnarrowed("any") /\ Requested[2] = Unnarrowed("Enemies")
      /\ Requested[3] = Unnarrowed("Friendlies")
  BY DEF Requested
<1>3. \A i \in 1 .. 3 : runs[i].exhausted /\ ~runs[i].error
  BY DEF Exhausted
<1>4. /\ runs[1].events = Cardinality(Sent(Unnarrowed("any")))
      /\ runs[2].events = Cardinality(Sent(Unnarrowed("Enemies")))
      /\ runs[3].events = Cardinality(Sent(Unnarrowed("Friendlies")))
  BY <1>2, <1>3 DEF Measures, Fits
<1>5. /\ runs[1].events = U
      /\ runs[2].events = IF server.hostility THEN E ELSE U
      /\ runs[3].events = IF server.hostility THEN F ELSE U
  BY <1>4, SentOfSides DEF Sides
<1>6. server.unfiltered \in {Sides, {"Enemies"}, {"Friendlies"}}
  <2>1. server.unfiltered \subseteq Sides /\ server.unfiltered # {}
    BY ProbesAssumption
  <2>2. CASE "Enemies" \in server.unfiltered /\ "Friendlies" \in server.unfiltered
    BY <2>1, <2>2 DEF Sides
  <2>3. CASE "Enemies" \notin server.unfiltered
    <3>1. server.unfiltered = {"Friendlies"}
      BY <2>1, <2>3 DEF Sides
    <3> QED BY <3>1
  <2>4. CASE "Friendlies" \notin server.unfiltered
    <3>1. server.unfiltered = {"Enemies"}
      BY <2>1, <2>4 DEF Sides
    <3> QED BY <3>1
  <2> QED BY <2>2, <2>3, <2>4
<1>7. U = IF server.unfiltered = Sides THEN E + F
          ELSE IF server.unfiltered = {"Enemies"} THEN E ELSE F
  BY <1>1, <1>6, SentOfSides DEF Sides
<1>8. Sides # {"Enemies"} /\ Sides # {"Friendlies"} /\ {"Enemies"} # {"Friendlies"}
  BY DEF Sides
<1>9. Truth = IF ~server.hostility THEN "ignored"
               ELSE IF server.unfiltered = Sides THEN "both sides"
               ELSE IF server.unfiltered = {"Friendlies"} THEN "friendlies only"
               ELSE "enemies only"
  BY DEF Truth
<1>10. AllTheSame(runs) <=> /\ runs[1].events > 0
                            /\ runs[1].events = runs[2].events
                            /\ runs[1].events = runs[3].events
  BY DEF AllTheSame
<1>11. Verdict(runs) = IF AllTheSame(runs) THEN "ignored"
                       ELSE IF runs[1].events = runs[2].events + runs[3].events THEN "both sides"
                       ELSE IF runs[1].events = runs[3].events /\ runs[2].events > 0
                            THEN "friendlies only"
                       ELSE IF runs[1].events = runs[2].events /\ runs[3].events > 0
                            THEN "enemies only" ELSE "investigate"
  BY DEF Verdict
<1>12. E # F /\ E # 0 /\ F # 0
  OBVIOUS
<1> HIDE DEF E, F, U
<1>13. runs[2].events = E /\ runs[3].events = F /\ runs[1].events = U
  BY <1>5
<1>14. ~AllTheSame(runs)
  BY <1>10, <1>12, <1>13
<1>15. CASE server.unfiltered = Sides
  BY <1>1, <1>7, <1>9, <1>11, <1>12, <1>13, <1>14, <1>15
<1>16. CASE server.unfiltered = {"Enemies"}
  <2>1. U = E /\ Truth = "enemies only"
    BY <1>7, <1>8, <1>9, <1>16
  <2>2. U # E + F /\ E > 0 /\ F > 0
    <3>1. E \in Nat /\ F \in Nat /\ E # 0 /\ F # 0
      BY <1>1, <1>12
    <3>2. E # E + F /\ F # E + F /\ E > 0 /\ F > 0
      BY <3>1
    <3> QED BY <2>1, <3>2
  <2>3. Verdict(runs) = "enemies only"
    BY <1>11, <1>12, <1>13, <1>14, <2>1, <2>2
  <2> QED BY <2>1, <2>3
<1>17. CASE server.unfiltered = {"Friendlies"}
  <2>1. U = F /\ Truth = "friendlies only"
    BY <1>7, <1>8, <1>9, <1>17
  <2>2. U # E + F /\ E > 0 /\ F > 0
    <3>1. E \in Nat /\ F \in Nat /\ E # 0 /\ F # 0
      BY <1>1, <1>12
    <3>2. E # E + F /\ F # E + F /\ E > 0 /\ F > 0
      BY <3>1
    <3> QED BY <2>1, <3>2
  <2>3. Verdict(runs) = "friendlies only"
    BY <1>11, <1>12, <1>13, <1>14, <2>1, <2>2
  <2> QED BY <2>1, <2>3
<1> QED BY <1>6, <1>15, <1>16, <1>17

\* Where the filter is not applied, complete probes come to the same.
LEMMA IgnoringShows ==
  ASSUME server \in Servers, command = "benchmark", ~server.hostility,
         NEW runs, Len(runs) = 3, Exhausted(runs), DOMAIN runs = 1 .. 3,
         \A i \in 1 .. 3 : Measures(Requested[i], runs[i])
  PROVE  Verdict(runs) = "ignored" \/ Sent(Unnarrowed("any")) = {}
<1>1. /\ Requested[1] = Unnarrowed("any") /\ Requested[2] = Unnarrowed("Enemies")
      /\ Requested[3] = Unnarrowed("Friendlies")
  BY DEF Requested
<1>2. \A i \in 1 .. 3 : runs[i].exhausted /\ ~runs[i].error
  BY DEF Exhausted
<1>3. /\ Sent(Unnarrowed("any")) = Sent(Unnarrowed("Enemies"))
      /\ Sent(Unnarrowed("any")) = Sent(Unnarrowed("Friendlies"))
  BY SentOfSides DEF Sides
<1>4. runs[1] = runs[2] /\ runs[1] = runs[3]
  BY <1>1, <1>2, <1>3, SameMeasurement
<1>5. Sent(Unnarrowed("any")) # {} => runs[1].events > 0
  BY <1>1, <1>2 DEF Measures, Fits
<1> QED BY <1>4, <1>5 DEF Verdict, AllTheSame

-----------------------------------------------------------------------------
\* A narrowed request, of which the other side is not asked for, is answered by
\* those of the unnarrowed one that pass its filter, if the server has one.
LEMMA SentNarrowed ==
  ASSUME server \in Servers
  PROVE  LET all == Sent(Unnarrowed("any")) IN
         /\ Sent(Narrowed(Focus, NoActor)) =
              {i \in all : server.source => server.log[i].source = Focus}
         /\ Sent(Narrowed(NoActor, Focus)) =
              {i \in all : server.target => server.log[i].target = Focus}
<1>1. Focus # NoActor
  BY ProbesAssumption
<1> QED BY <1>1 DEF Sent, Passes, Unnarrowed, Narrowed

\* One name is no mixture.
LEMMA NotMixed ==
  ASSUME NEW run, NEW actors, actors \subseteq {Focus}
  PROVE  NarrowingVerdict(run, actors) # "mixed"
BY DEF NarrowingVerdict

\* The measurements of one stream, in the order of its requests.
Probed(runs) ==
  /\ \E S : runs \in Seq(S)
  /\ Len(runs) <= Len(Requested)
  /\ \A i \in 1 .. Len(runs) : Measures(Requested[i], runs[i])

\* What is concluded from them.
Judged(r) ==
  /\ Probed(r.runs) /\ Len(r.runs) = Len(Requested)
  /\ r.verdict = IF command = "benchmark" THEN Verdict(r.runs) ELSE FocusSummary(r.runs)

ProbesInv ==
  /\ server \in Servers /\ command \in {"benchmark", "focus-benchmark"}
  /\ Probed(measured)
  /\ probe = NewProbe \/ (Len(measured) < Len(Requested) /\ Measures(Request, probe))
  /\ \A r \in results : Judged(r)


\* The hostility filter is judged right.
LEMMA HostilityRightOf ==
  ASSUME server \in Servers, command = "benchmark",
         NEW runs, Probed(runs), Len(runs) = Len(Requested)
  PROVE  HostilityRight(Verdict(runs))
<1> SUFFICES ASSUME Verdict(runs) # "inconclusive"
             PROVE  HostilityRight(Verdict(runs))
  BY DEF HostilityRight
<1>1. Len(Requested) = 3 /\ DOMAIN Requested = 1 .. 3
  BY DEF Requested
<1>2. Len(runs) = 3 /\ DOMAIN runs = 1 .. 3 /\ \A i \in 1 .. 3 : Measures(Requested[i], runs[i])
  BY <1>1 DEF Probed
<1>3. Exhausted(runs)
  BY DEF Verdict
<1>4. ~server.hostility => Verdict(runs) = "ignored" \/ Sent(Unnarrowed("any")) = {}
  BY <1>2, <1>3, IgnoringShows
<1>5. ASSUME server.hostility, \A i \in DOMAIN Requested : Countable(Requested[i]),
             SideOf("Enemies") # SideOf("Friendlies"),
             SideOf("Enemies") # 0, SideOf("Friendlies") # 0
      PROVE  Verdict(runs) = Truth
  BY <1>1, <1>2, <1>3, <1>5, HostilityJudged
<1> QED BY <1>4, <1>5 DEF HostilityRight

\* The narrowing by a source, and that by a target, are judged right.
LEMMA NarrowingRightOf ==
  ASSUME server \in Servers, command # "benchmark", NEW r, Probed(r.runs),
         Len(r.runs) = Len(Requested), r.verdict = FocusSummary(r.runs)
  PROVE  NarrowingRight(r, 2, "source") /\ NarrowingRight(r, 3, "target")
<1> DEFINE runs == r.runs
           all == Sent(Unnarrowed("any"))
           some == Sent(Narrowed(Focus, NoActor))
           hit == Sent(Narrowed(NoActor, Focus))
           source == [i \in DOMAIN server.log |-> server.log[i].source]
           target == [i \in DOMAIN server.log |-> server.log[i].target]
<1>1. /\ Requested[1] = Unnarrowed("any") /\ Requested[2] = Narrowed(Focus, NoActor)
      /\ Requested[3] = Narrowed(NoActor, Focus) /\ Len(Requested) = 4
  BY DEF Requested
<1>2. /\ Measures(Unnarrowed("any"), runs[1])
      /\ Measures(Narrowed(Focus, NoActor), runs[2])
      /\ Measures(Narrowed(NoActor, Focus), runs[3])
  BY <1>1 DEF Probed
<1>3. IsFiniteSet(all) /\ all \subseteq DOMAIN server.log
  BY SentFinite DEF Sent
<1>4. /\ some = {i \in all : server.source => source[i] = Focus}
      /\ hit = {i \in all : server.target => target[i] = Focus}
  BY <1>3, SentNarrowed
<1>5. server.source \in BOOLEAN /\ server.target \in BOOLEAN
  BY ProbesAssumption
<1>6. /\ \A i \in 1 .. 3 : runs[i].exhausted => ~runs[i].error
      /\ Countable(Requested[1]) /\ runs[1].exhausted => runs[1].events = Cardinality(all)
      /\ Countable(Requested[2]) /\ runs[2].exhausted => runs[2].events = Cardinality(some)
      /\ Countable(Requested[3]) /\ runs[3].exhausted => runs[3].events = Cardinality(hit)
  BY <1>1, <1>2 DEF Measures, Fits
<1>7. /\ runs[2].sources \subseteq {source[i] : i \in some}
      /\ Whole(Requested[2]) /\ runs[2].exhausted =>
           \A i \in some : source[i] \in runs[2].sources \cup {NoActor}
  <2>1. some \subseteq DOMAIN server.log
    BY <1>3, <1>4
  <2>2. /\ runs[2].sources \subseteq SourcesOf(some)
        /\ Whole(Requested[2]) /\ runs[2].exhausted =>
             \A i \in some : server.log[i].source \in runs[2].sources \cup {NoActor}
    BY <1>1, <1>2 DEF Measures, Fits
  <2>3. SourcesOf(some) = {source[i] : i \in some} /\ \A i \in some : source[i] = server.log[i].source
    BY <2>1 DEF SourcesOf
  <2> HIDE DEF some, source, runs
  <2> QED BY <2>2, <2>3
<1>8. /\ runs[3].targets \subseteq {target[i] : i \in hit}
      /\ Whole(Requested[3]) /\ runs[3].exhausted =>
           \A i \in hit : target[i] \in runs[3].targets \cup {NoActor}
  <2>1. hit \subseteq DOMAIN server.log
    BY <1>3, <1>4
  <2>2. /\ runs[3].targets \subseteq TargetsOf(hit)
        /\ Whole(Requested[3]) /\ runs[3].exhausted =>
             \A i \in hit : server.log[i].target \in runs[3].targets \cup {NoActor}
    BY <1>1, <1>2 DEF Measures, Fits
  <2>3. TargetsOf(hit) = {target[i] : i \in hit} /\ \A i \in hit : target[i] = server.log[i].target
    BY <2>1 DEF TargetsOf
  <2> HIDE DEF hit, target, runs
  <2> QED BY <2>2, <2>3
<1>9. /\ some = all /\ runs[1].exhausted /\ runs[2].exhausted => runs[2] = runs[1]
      /\ hit = all /\ runs[1].exhausted /\ runs[3].exhausted => runs[3] = runs[1]
  BY <1>2, SameMeasurement
<1>10. /\ r.verdict.selects["source"] = NarrowingVerdict(runs[2], runs[2].sources)
       /\ r.verdict.selects["target"] = NarrowingVerdict(runs[3], runs[3].targets)
       /\ r.verdict.ignored["source"] = FilterIgnored(runs, 2)
       /\ r.verdict.ignored["target"] = FilterIgnored(runs, 3)
  BY DEF FocusSummary
<1>11. /\ server["source"] = server.source /\ server["target"] = server.target
       /\ {server.log[i]["source"] : i \in all} = {source[i] : i \in all}
       /\ {server.log[i]["target"] : i \in all} = {target[i] : i \in all}
  BY <1>3
<1> DEFINE exactly(n) == Countable(Requested[1]) /\ Countable(Requested[n])
           complete(n) == Whole(Requested[n])
<1>12. \A n : exactly(n) \in BOOLEAN /\ complete(n) \in BOOLEAN
  BY DEF Countable, Whole
<1> HIDE DEF all, some, hit, source, target, runs, exactly, complete
<1>13. NarrowingRight(r, 2, "source")
  <2> DEFINE actors == runs[2].sources
             named == {source[i] : i \in all}
  <2>1. ASSUME server.source PROVE NarrowingVerdict(runs[2], actors) # "mixed"
    <3>1. actors \subseteq {Focus}
      BY <1>4, <1>7, <2>1
    <3> QED BY <3>1, NotMixed
  <2>2. ASSUME server.source, FilterIgnored(runs, 2), exactly(2) PROVE named \subseteq {Focus}
    <3>1. runs[2].exhausted /\ runs[1].exhausted /\ runs[2].events = runs[1].events
      BY <2>2 DEF FilterIgnored
    <3>2. Cardinality(some) = Cardinality(all)
      BY <1>6, <2>2, <3>1 DEF exactly
    <3>3. some \in SUBSET all
      BY <1>4
    <3>4. some = all
      BY <1>3, <3>2, <3>3, FS_Subset
    <3> QED BY <1>4, <2>2, <3>4
  <2>3. ASSUME ~server.source, runs[2].exhausted, runs[1].exhausted, runs[1].events > 0
        PROVE  FilterIgnored(runs, 2)
    <3>1. runs[2] = runs[1] /\ ~runs[2].error
      BY <1>4, <1>6, <1>9, <2>3
    <3> QED BY <2>3, <3>1 DEF FilterIgnored
  <2>4. ASSUME ~server.source, runs[2].exhausted, complete(2),
               NarrowingVerdict(runs[2], actors) = "confirmed"
        PROVE  named \subseteq {Focus, NoActor}
    <3>1. actors \subseteq {Focus}
      BY <2>4 DEF NarrowingVerdict
    <3>2. \A i \in all : source[i] \in actors \cup {NoActor}
      BY <1>4, <1>7, <2>4 DEF complete
    <3> QED BY <3>1, <3>2
  <2> HIDE DEF actors, named
  <2> QED BY <1>5, <1>10, <1>11, <2>1, <2>2, <2>3, <2>4
         DEF NarrowingRight, exactly, complete, all, runs, actors, named
<1>14. NarrowingRight(r, 3, "target")
  <2> DEFINE actors == runs[3].targets
             named == {target[i] : i \in all}
  <2>1. ASSUME server.target PROVE NarrowingVerdict(runs[3], actors) # "mixed"
    <3>1. actors \subseteq {Focus}
      BY <1>4, <1>8, <2>1
    <3> QED BY <3>1, NotMixed
  <2>2. ASSUME server.target, FilterIgnored(runs, 3), exactly(3) PROVE named \subseteq {Focus}
    <3>1. runs[3].exhausted /\ runs[1].exhausted /\ runs[3].events = runs[1].events
      BY <2>2 DEF FilterIgnored
    <3>2. Cardinality(hit) = Cardinality(all)
      BY <1>6, <2>2, <3>1 DEF exactly
    <3>3. hit \in SUBSET all
      BY <1>4
    <3>4. hit = all
      BY <1>3, <3>2, <3>3, FS_Subset
    <3> QED BY <1>4, <2>2, <3>4
  <2>3. ASSUME ~server.target, runs[3].exhausted, runs[1].exhausted, runs[1].events > 0
        PROVE  FilterIgnored(runs, 3)
    <3>1. runs[3] = runs[1] /\ ~runs[3].error
      BY <1>4, <1>6, <1>9, <2>3
    <3> QED BY <2>3, <3>1 DEF FilterIgnored
  <2>4. ASSUME ~server.target, runs[3].exhausted, complete(3),
               NarrowingVerdict(runs[3], actors) = "confirmed"
        PROVE  named \subseteq {Focus, NoActor}
    <3>1. actors \subseteq {Focus}
      BY <2>4 DEF NarrowingVerdict
    <3>2. \A i \in all : target[i] \in actors \cup {NoActor}
      BY <1>4, <1>8, <2>4 DEF complete
    <3> QED BY <3>1, <3>2
  <2> HIDE DEF actors, named
  <2> QED BY <1>5, <1>10, <1>11, <2>1, <2>2, <2>3, <2>4
         DEF NarrowingRight, exactly, complete, all, runs, actors, named
<1> QED BY <1>13, <1>14

\* A verdict that follows from measurements is right.
LEMMA JudgedRight ==
  ASSUME ProbesInv
  PROVE  VerdictRight
BY HostilityRightOf, NarrowingRightOf DEF ProbesInv, Judged, VerdictRight

-----------------------------------------------------------------------------
\* Where server and command stay, so do the requests and what they can measure.
LEMMA ProbesStay ==
  ASSUME UNCHANGED <<server, command>>
  PROVE  /\ Requested' = Requested
         /\ \A q, p : Measures(q, p)' <=> Measures(q, p)
         /\ \A runs : Probed(runs)' <=> Probed(runs)
         /\ \A r : Judged(r)' <=> Judged(r)
<1>1. Requested' = Requested
  BY DEF Requested
<1>2. \A q : Sent(q)' = Sent(q)
  BY DEF Sent, Passes
<1>3. \A q, c : PageAt(q, c)' = PageAt(q, c) /\ Due(q, c)' = Due(q, c)
  BY <1>2 DEF PageAt, Due
<1>4. \A q, c : NextAt(q, c)' = NextAt(q, c)
  <2>1. TAKE q, c
  <2>2. PageAt(q, c)' = PageAt(q, c)
    BY <1>3
  <2> QED BY <2>2, Zenon DEF NextAt
<1>5. \A q, p : AfterPage(q, p)' = AfterPage(q, p)
  <2>1. TAKE q, p
  <2>2. /\ PageAt(q, p.cursor)' = PageAt(q, p.cursor) /\ Due(q, p.cursor)' = Due(q, p.cursor)
        /\ NextAt(q, p.cursor)' = NextAt(q, p.cursor)
    BY <1>3, <1>4
  <2> QED BY <2>2 DEF AfterPage
<1>6. \A q, t, p : IsTrail(q, t, p)' <=> IsTrail(q, t, p)
  BY <1>5 DEF IsTrail, NewProbe, Reading
<1>7. \A q, c : EarlierThan(q, c)' = EarlierThan(q, c)
  BY <1>2 DEF EarlierThan
<1>8. \A q : (Countable(q)' <=> Countable(q)) /\ (Whole(q)' <=> Whole(q))
  BY <1>2 DEF Countable, Whole
<1>9. \A q : SourcesOf(Sent(q))' = SourcesOf(Sent(q)) /\ TargetsOf(Sent(q))' = TargetsOf(Sent(q))
  BY <1>2 DEF SourcesOf, TargetsOf
<1>10. \A q, p : Fits(q, p)' <=> Fits(q, p)
  BY <1>2, <1>7, <1>8, <1>9 DEF Fits, Fields
<1>11. \A q, p : Measures(q, p)' <=> Measures(q, p)
  BY <1>6, <1>10 DEF Measures
<1>12. \A runs : Probed(runs)' <=> Probed(runs)
  BY <1>1, <1>11 DEF Probed
<1>13. \A r : Judged(r)' <=> Judged(r)
  BY <1>1, <1>12 DEF Judged
<1> QED BY <1>1, <1>11, <1>12, <1>13

\* No measurement has been made of any stream.
LEMMA NothingProbed == Probed(<<>>) /\ Len(Requested) \in 1 .. 4
<1>1. Len(Requested) \in 1 .. 4
  BY DEF Requested
<1>2. <<>> \in Seq({})
  OBVIOUS
<1> QED BY <1>1, <1>2 DEF Probed

\* A command starts without measurements.
LEMMA ProbesStart == ProbesInit => ProbesInv
<1> SUFFICES ASSUME ProbesInit PROVE ProbesInv
  OBVIOUS
<1>1. /\ measured = <<>> /\ results = {} /\ probe = NewProbe
      /\ server \in Servers /\ command \in {"benchmark", "focus-benchmark"}
  BY DEF ProbesInit
<1>2. Probed(measured)
  BY <1>1, NothingProbed
<1> QED BY <1>1, <1>2 DEF ProbesInv

\* A page is one more of the same probe, and an error ends it.
LEMMA ReadingKeeps == ProbesInv /\ (ReadPage \/ ProbeFails) => ProbesInv'
<1> SUFFICES ASSUME ProbesInv, ReadPage \/ ProbeFails PROVE ProbesInv'
  OBVIOUS
<1>1. /\ UNCHANGED <<server, command, results, measured>> /\ Len(measured) < Len(Requested)
      /\ Reading(probe) /\ server \in Servers
      /\ probe' \in {AfterPage(Request, probe), [probe EXCEPT !.error = TRUE]}
  BY DEF ReadPage, ProbeFails, Probing, ProbesInv
<1>2. Measures(Request, probe)
  BY <1>1, NewMeasures DEF ProbesInv
<1>3. Measures(Request, probe')
  BY <1>1, <1>2, PageMeasures
<1>4. Request' = Request /\ Len(measured') < Len(Requested')
  BY <1>1, ProbesStay DEF Request
<1>5. Measures(Request, probe)'
  <2> DEFINE q == Request
             p == probe'
  <2>1. Measures(q, p)
    BY <1>3
  <2> QED BY <1>1, <1>3, <1>4, ProbesStay
<1>6. Probed(measured)' /\ \A r \in results' : Judged(r)'
  BY <1>1, ProbesStay DEF ProbesInv
<1>7. server' \in Servers /\ command' \in {"benchmark", "focus-benchmark"}
  BY <1>1 DEF ProbesInv
<1> QED BY <1>4, <1>5, <1>6, <1>7 DEF ProbesInv

\* A probe that ends adds what it came to to the measurements before it.
LEMMA EndKeeps == ProbesInv /\ EndProbe => ProbesInv'
<1> SUFFICES ASSUME ProbesInv, EndProbe PROVE ProbesInv'
  OBVIOUS
<1> DEFINE k == Len(measured) + 1
<1>1. /\ UNCHANGED <<server, command, results>> /\ Len(measured) < Len(Requested)
      /\ measured' = Append(measured, probe) /\ probe' = NewProbe
  BY DEF EndProbe, Probing
<1>2. Measures(Requested[k], probe)
  BY <1>1, NewMeasures DEF ProbesInv, Request
<1>3. PICK S : measured \in Seq(S)
  BY DEF ProbesInv, Probed
<1>4. \A i \in 1 .. Len(measured) : Measures(Requested[i], measured[i])
  BY DEF ProbesInv, Probed
<1>5. Len(measured) \in Nat /\ measured \in Seq(S \cup {probe}) /\ Len(Requested) \in Nat
  BY <1>3, NothingProbed
<1>6. /\ measured' \in Seq(S \cup {probe}) /\ Len(measured') = k
      /\ \A i \in 1 .. k : measured'[i] = IF i = k THEN probe ELSE measured[i]
  BY <1>1, <1>5
<1>7. \A i \in 1 .. k : Measures(Requested[i], measured'[i])
  BY <1>2, <1>4, <1>5, <1>6
<1>8. Probed(measured')
  BY <1>1, <1>5, <1>6, <1>7 DEF Probed
<1>9. Probed(measured)' /\ \A r \in results' : Judged(r)'
  BY <1>1, <1>8, ProbesStay DEF ProbesInv
<1>10. server' \in Servers /\ command' \in {"benchmark", "focus-benchmark"}
  BY <1>1 DEF ProbesInv
<1> QED BY <1>1, <1>9, <1>10 DEF ProbesInv

\* A comparison is made of the measurements of one stream.
LEMMA CompareKeeps == ProbesInv /\ Compare => ProbesInv'
<1> SUFFICES ASSUME ProbesInv, Compare PROVE ProbesInv'
  OBVIOUS
<1> DEFINE new == [runs |-> measured,
                   verdict |-> IF command = "benchmark" THEN Verdict(measured)
                                                        ELSE FocusSummary(measured)]
<1>1. /\ UNCHANGED <<server, command, probe>> /\ Len(measured) = Len(Requested) /\ measured' = <<>>
      /\ results' = results \cup {new}
  BY DEF Compare
<1>2. Probed(measured)
  BY DEF ProbesInv
<1>3. new.runs = measured /\ new.verdict = IF command = "benchmark" THEN Verdict(measured)
                                                                  ELSE FocusSummary(measured)
  OBVIOUS
<1> HIDE DEF new
<1>4. Judged(new)
  BY <1>1, <1>2, <1>3 DEF Judged
<1>5. \A r \in results' : Judged(r)'
  BY <1>1, <1>4, ProbesStay DEF ProbesInv
<1>6. Probed(measured)'
  BY <1>1, NothingProbed, ProbesStay
<1>7. /\ probe' = NewProbe /\ server' \in Servers
      /\ command' \in {"benchmark", "focus-benchmark"}
  BY <1>1, NothingProbed DEF ProbesInv
<1> QED BY <1>1, <1>5, <1>6, <1>7 DEF ProbesInv

\* Every step of the two commands keeps the invariant.
LEMMA ProbesStep == ProbesInv /\ [ProbesNext]_probeVars => ProbesInv'
<1> SUFFICES ASSUME ProbesInv, [ProbesNext]_probeVars PROVE ProbesInv'
  OBVIOUS
<1>1. CASE FetchFights \/ NothingToProbe \/ WriteResults \/ UNCHANGED probeVars
  <2>1. UNCHANGED <<server, command, probe, measured, results>>
    BY <1>1 DEF FetchFights, NothingToProbe, WriteResults, probeVars
  <2>2. Probed(measured)' /\ \A r \in results' : Judged(r)'
    BY <2>1, ProbesStay DEF ProbesInv
  <2>3. Request' = Request /\ Len(measured') = Len(measured) /\ Requested' = Requested
    BY <2>1, ProbesStay DEF Request
  <2>4. Measures(Request, probe)' <=> Measures(Request, probe)
    BY <2>1, <2>3, ProbesStay
  <2> QED BY <2>1, <2>2, <2>3, <2>4 DEF ProbesInv
<1> QED BY <1>1, ReadingKeeps, EndKeeps, CompareKeeps DEF ProbesNext

\* For any server, under either rule of cursors, and any page size, cap and list of
\* reports: a filter that a server does not apply is called so by every comparison
\* that reaches a verdict on it, and one that it applies is judged right wherever
\* each event is counted once.
THEOREM VerdictsTrue == ProbesSpec => []VerdictRight
<1>1. ProbesInv => VerdictRight
  BY JudgedRight
<1> QED BY <1>1, ProbesStart, ProbesStep, PTL DEF ProbesSpec
=============================================================================
