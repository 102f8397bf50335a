---------------------------- MODULE CorpusProofs ----------------------------
(***************************************************************************)
(* What a reader of the corpus may rely on, for any runs, uploads, streams *)
(* and derivations: the classification of dedupe under everything that is  *)
(* written around it, and what verify says of an analysis.                 *)
(***************************************************************************)
EXTENDS Corpus, FiniteSetTheorems, SequenceTheorems, WellFoundedInduction, TLAPS

(***************************************************************************)
(* Numbers.                                                                *)
(***************************************************************************)
\* A set of run_ids that is not empty has a first.
LEMMA LeastExists ==
  ASSUME NEW S \in SUBSET Nat, S # {}
  PROVE  \E n \in S : \A m \in S : n <= m
<1>1. PICK n \in S : \A m \in S : ~(<<m, n>> \in OpToRel(<, Nat))
  BY NatLessThanWellFounded, WFMin, Zenon
<1>2. ASSUME NEW m \in S PROVE n <= m
  <2>1. ~(m < n)
    BY <1>1, Zenon DEF OpToRel
  <2> QED BY <2>1
<1> QED BY <1>2

\* First is what its name says, and nothing else is.
LEMMA FirstIs ==
  ASSUME NEW S \in SUBSET Nat, S # {}
  PROVE  /\ First(S) \in S
         /\ \A q \in S : First(S) <= q
BY LeastExists DEF First

\* The elements of a sequence, and of one that has none.
LEMMA SeqElements ==
  ASSUME NEW S, NEW s \in Seq(S)
  PROVE  (\A i \in DOMAIN s : s[i] \in S) /\ (DOMAIN s = {} => s = <<>>)
<1>1. Len(s) \in Nat /\ DOMAIN s = 1 .. Len(s)
  OBVIOUS
<1>2. ASSUME DOMAIN s = {} PROVE s = <<>>
  <2>1. ~(1 <= Len(s))
    BY <1>1, <1>2
  <2>2. Len(s) = 0
    BY <1>1, <2>1
  <2> QED BY <2>2, EmptySeq
<1> QED BY <1>1, <1>2

(***************************************************************************)
(* Matches and groups (dedupe.compare, group_duplicates).                  *)
(***************************************************************************)
\* The two measures of a match do not depend on the order of their arguments.
LEMMA MeasuresSymmetric ==
  ASSUME NEW x \in Nat, NEW y \in Nat
  PROVE  Gap(x, y) = Gap(y, x) /\ Smaller(x, y) = Smaller(y, x)
BY DEF Gap, Smaller

\* A match is one from both sides: compare is asked in one order only.
LEMMA CompareSymmetric ==
  ASSUME NEW r \in Runs, NEW q \in Runs
  PROVE  Compare(r, q) = Compare(q, r)
<1> DEFINE a == Upload[r]
           b == Upload[q]
<1>1. /\ a.start \in Nat /\ a.duration \in Nat /\ b.start \in Nat /\ b.duration \in Nat
      /\ Cardinality(a.roster) \in Nat /\ Cardinality(b.roster) \in Nat
  BY CorpusAssumption, FS_CardinalityType
<1>2. a.roster \cap b.roster = b.roster \cap a.roster
  OBVIOUS
<1>3. /\ Gap(a.start, b.start) = Gap(b.start, a.start)
      /\ Gap(a.duration, b.duration) = Gap(b.duration, a.duration)
      /\ Smaller(Cardinality(a.roster), Cardinality(b.roster))
           = Smaller(Cardinality(b.roster), Cardinality(a.roster))
  BY <1>1, MeasuresSymmetric
<1>4. (IF a.duration > b.duration THEN a.duration ELSE b.duration)
        = (IF b.duration > a.duration THEN b.duration ELSE a.duration)
  BY <1>1
<1>5. SameParty(a, b) = SameParty(b, a)
  BY <1>2, <1>3 DEF SameParty
<1>6. Confidence(a, b) = Confidence(b, a)
  <2>1. (a.affixes # None /\ a.affixes = b.affixes) = (b.affixes # None /\ b.affixes = a.affixes)
    OBVIOUS
  <2>2. (a.roster # {} /\ b.roster # {}) = (b.roster # {} /\ a.roster # {})
    OBVIOUS
  <2> HIDE DEF a, b
  <2> QED BY ONLY <1>2, <1>3, <1>4, <2>1, <2>2 DEF Confidence
<1> QED BY <1>3, <1>5, <1>6 DEF Compare

\* A run is in its own group.
LEMMA GroupSelf ==
  ASSUME NEW S, NEW r \in S PROVE r \in GroupOf(r, S)
BY DEF GroupOf

\* Two runs that match are in one group.
LEMMA GroupMatch ==
  ASSUME NEW S, NEW r \in S, NEW q \in S, Compare(r, q) PROVE q \in GroupOf(r, S)
BY DEF GroupOf, Closed

\* Whoever is in the group of a run has that run in its own: what a closed set
\* leaves over is closed as well.
LEMMA GroupSymmetric ==
  ASSUME NEW S \in SUBSET Runs, NEW r \in S, NEW q \in GroupOf(r, S)
  PROVE  r \in GroupOf(q, S)
<1> SUFFICES ASSUME NEW C \in SUBSET S, q \in C, Closed(C, S), r \notin C PROVE FALSE
  BY DEF GroupOf
<1>1. Closed(S \ C, S)
  <2> SUFFICES ASSUME NEW x \in S \ C, NEW y \in S, Compare(x, y), y \in C PROVE FALSE
    BY DEF Closed
  <2>1. Compare(y, x)
    BY CompareSymmetric
  <2> QED BY <2>1 DEF Closed
<1> QED BY <1>1 DEF GroupOf

\* The runs of a group have one and the same group.
LEMMA GroupShared ==
  ASSUME NEW S \in SUBSET Runs, NEW r \in S, NEW q \in GroupOf(r, S)
  PROVE  q \in S /\ GroupOf(q, S) = GroupOf(r, S)
<1>1. q \in S /\ r \in GroupOf(q, S)
  BY GroupSymmetric DEF GroupOf
<1>2. ASSUME NEW x \in S, NEW y \in GroupOf(x, S), NEW p \in GroupOf(y, S)
      PROVE  p \in GroupOf(x, S)
  BY <1>2 DEF GroupOf
<1> QED BY <1>1, <1>2 DEF GroupOf

\* The first of a group is in the set, in the group, and the only one that is it.
LEMMA GroupFirst ==
  ASSUME NEW S \in SUBSET Runs, NEW r \in S
  PROVE  LET q == First(GroupOf(r, S))
         IN q \in S /\ q \in GroupOf(r, S) /\ GroupOf(q, S) = GroupOf(r, S)
<1>1. GroupOf(r, S) \in SUBSET Nat /\ GroupOf(r, S) # {}
  BY CorpusAssumption, GroupSelf DEF GroupOf
<1> QED BY <1>1, FirstIs, GroupShared

\* The two fields of a classification.
LEMMA ClassifyFields ==
  ASSUME NEW S, NEW r
  PROVE  /\ Classify(r, S).canon = (r = First(GroupOf(r, S)))
         /\ Classify(r, S).group = IF GroupOf(r, S) = {r} THEN None ELSE GroupOf(r, S)
BY DEF Classify

\* A classification is one the row can hold, and none of an unexamined run.
LEMMA ClassifyType ==
  ASSUME NEW S \in SUBSET Runs, NEW r \in S
  PROVE  Classify(r, S) \in Flags /\ Classify(r, S).canon \in BOOLEAN
BY DEF Classify, Flags, GroupOf

-----------------------------------------------------------------------------
(***************************************************************************)
(* The inductive invariant.                                                *)
(***************************************************************************)
\* The runs of a pass are still there when it classifies them, and the row that
\* a collector is about to write for the first time is written unclassified.
PassInv ==
  /\ pass # None => pass \subseteq Present
  /\ visit # None /\ ~visit.stored /\ flags[visit.run] = None => visit.prior = Unclassified

\* What is classified was classified together.
ClassInv == ~lost => \A r \in Classified : flags[r] = Classify(r, Classified)

\* In a corpus never refreshed, coverage that says so is of a whole stream.
WholeInv ==
  resets = 0 =>
    /\ \A r \in Runs, s \in Streams : HasStream(r, s) => Whole(r, s)
    /\ study.pc # "none" => \A r \in study.runs, s \in study.plan.needs : Whole(r, s)
    /\ ZeroIsReal

\* The coverage row a stream would get now.
Row(r, s) ==
  [status |-> IF Whole(r, s) THEN "ok" ELSE "partial", pages |-> Len(pages[r][s])]

\* The stream is the one of the digest, grown: where no page was added, its
\* coverage is the row of the digest or the row a later visit puts there, and
\* the derivation read one of the two, the second only if it is there still.
Follows(r, s) ==
  LET old == study.digests[r][1]
      unchanged == Len(pages[r][s]) = old.pages[s]
  IN /\ old.pages[s] <= Len(pages[r][s])
     /\ unchanged => cov[r][s] \in {old.cov[s], Row(r, s)}
     /\ r \in DOMAIN study.read =>
          /\ old.pages[s] <= study.read[r].pages[s] /\ study.read[r].pages[s] <= Len(pages[r][s])
          /\ unchanged => \/ study.read[r].cov[s] = old.cov[s]
                          \/ study.read[r].cov[s] = Row(r, s) /\ cov[r][s] = Row(r, s)

\* The run was refreshed since the digest, and has pages from after that only.
Renewed(r) ==
  /\ study.since < resets
  /\ \A s \in Streams : \A i \in DOMAIN pages[r][s] : study.since < pages[r][s][i]

DigestInv ==
  /\ study.since <= resets
  /\ \A r \in Runs, s \in Streams : \A i \in DOMAIN pages[r][s] : pages[r][s][i] <= resets
  /\ study.pc \in {"begun", "complete"} => \A r \in study.runs :
       /\ Renewed(r) \/ \A s \in Streams : Follows(r, s)
       /\ study.plan.grade = "deep" =>
            /\ study.digests[r][2] \in [Streams -> Seq(0 .. MaxResets)]
            /\ \A s \in Streams : \A i \in DOMAIN study.digests[r][2][s] :
                 study.digests[r][2][s][i] <= study.since
  /\ study.pc = "complete" => DOMAIN study.read = study.runs

IInv == TypeOK /\ PassInv /\ ClassInv /\ WholeInv /\ DigestInv

-----------------------------------------------------------------------------
(***************************************************************************)
(* Type correctness.                                                       *)
(***************************************************************************)
\* None is no run, no number and no row.
LEMMA NoneIsNothing == None \notin Nat /\ None \notin BOOLEAN /\ None \notin Flags /\ None \notin Coverage
BY CorpusAssumption

\* The stream a visit is at is the first that is not whole.
LEMMA CurrentIs ==
  ASSUME NEW r \in Runs, ~Done(r)
  PROVE  /\ Current(r) \in Streams /\ ~Whole(r, Current(r))
         /\ \A t \in 1 .. Current(r) - 1 : Whole(r, t)
<1> DEFINE Missing == {s \in Streams : ~Whole(r, s)}
<1>1. Missing \in SUBSET Nat /\ Missing # {}
  BY CorpusAssumption DEF Done, Streams
<1>2. PICK s \in Missing : \A t \in Missing : s <= t
  BY <1>1, LeastExists
<1>3. \A t \in 1 .. s - 1 : Whole(r, t)
  BY <1>2, CorpusAssumption DEF Streams
<1> QED BY <1>2, <1>3 DEF Current

\* Covered writes coverage rows.
LEMMA CoveredType ==
  ASSUME TypeOK, NEW r \in Runs, NEW k \in Int
  PROVE  /\ Covered(r, k) \in [Runs -> [Streams -> Coverage \cup {None}]]
         /\ \A q \in Runs, s \in Streams :
              Covered(r, k)[q][s] = IF q = r /\ s <= k THEN Row(r, s) ELSE cov[q][s]
<1>1. \A s \in Streams : Row(r, s) \in Coverage
  BY CorpusAssumption DEF TypeOK, Row, Coverage
<1>2. cov \in [Runs -> [Streams -> Coverage \cup {None}]]
  BY DEF TypeOK
<1> QED BY <1>1, <1>2 DEF Covered, Row

\* What can be read of a run has the type of a reading, its digest that of one.
LEMMA DigestType ==
  ASSUME TypeOK, NEW r \in Runs
  PROVE  /\ Evidence(r) \in Readings
         /\ \A grade \in Grades : RunDigest(r, grade) \in Digests
<1>1. Evidence(r) \in Readings
  BY CorpusAssumption DEF TypeOK, Evidence, Readings
<1> QED BY <1>1 DEF TypeOK, RunDigest, Digests

\* No step leaves the types.
LEMMA TypeStep == TypeOK /\ [Next]_vars => TypeOK'
<1> SUFFICES ASSUME TypeOK, [Next]_vars PROVE TypeOK'
  OBVIOUS
<1> USE CorpusAssumption
<1>1. CASE UNCHANGED vars
  BY <1>1 DEF vars, TypeOK
<1>2. ASSUME NEW r \in Runs, ReadPrior(r) PROVE TypeOK'
  <2>1. Unclassified \in Flags
    BY DEF Unclassified, Flags
  <2> QED BY <1>2, <2>1 DEF ReadPrior, TypeOK
<1>3. ASSUME NEW r \in Runs, ResetRun(r) PROVE TypeOK'
  <2>1. pages' \in [Runs -> [Streams -> Seq(0 .. MaxResets)]]
    BY <1>3 DEF ResetRun, TypeOK
  <2>2. \A q \in Runs, s \in Streams : Len(pages'[q][s]) <= Pages
    BY <1>3 DEF ResetRun, TypeOK
  <2>3. resets' \in 0 .. MaxResets
    BY <1>3 DEF ResetRun, TypeOK
  <2> QED BY <1>3, <2>1, <2>2, <2>3 DEF ResetRun, TypeOK
<1>4. CASE UpsertRun
  <2>1. visit \in [run: Runs, stored: BOOLEAN, prior: Flags]
    BY <1>4 DEF UpsertRun, Collecting, TypeOK
  <2>2. flags' \in [Runs -> Flags \cup {None}] /\ lost' \in BOOLEAN
    BY <1>4, <2>1 DEF UpsertRun, TypeOK
  <2>3. visit' \in [run: Runs, stored: BOOLEAN, prior: Flags]
    BY <1>4, <2>1 DEF UpsertRun
  <2> QED BY <1>4, <2>2, <2>3 DEF UpsertRun, TypeOK
<1>5. CASE LandPage
  <2> DEFINE r == visit.run
             s == Current(visit.run)
  <2>1. visit.run \in Runs
    BY <1>5 DEF LandPage, Storing, Collecting, TypeOK
  <2>2. s \in Streams /\ ~Whole(r, s)
    BY <1>5, <2>1, CurrentIs DEF LandPage
  <2>3. pages' = [pages EXCEPT ![r][s] = Append(@, resets)] /\ cov' = Covered(r, s - 1)
    BY <1>5 DEF LandPage
  <2> HIDE DEF r, s
  <2>4. pages' \in [Runs -> [Streams -> Seq(0 .. MaxResets)]]
    BY <2>1, <2>2, <2>3 DEF r, TypeOK
  <2>5. \A q \in Runs, t \in Streams : Len(pages'[q][t]) <= Pages
    BY <2>1, <2>2, <2>3, SMTT(30) DEF r, TypeOK, Whole
  <2>6. cov' \in [Runs -> [Streams -> Coverage \cup {None}]]
    <3>1. r \in Runs /\ s - 1 \in Int
      BY <2>1, <2>2 DEF r, Streams
    <3> QED BY <2>3, <3>1, CoveredType
  <2> QED BY <1>5, <2>4, <2>5, <2>6 DEF LandPage, TypeOK
<1>6. CASE CompleteRun
  <2>1. visit.run \in Runs
    BY <1>6 DEF CompleteRun, Storing, Collecting, TypeOK
  <2>2. cov' = Covered(visit.run, NumStreams) /\ NumStreams \in Int
    BY <1>6 DEF CompleteRun
  <2>3. cov' \in [Runs -> [Streams -> Coverage \cup {None}]]
    BY <2>1, <2>2, CoveredType
  <2> QED BY <1>6, <2>3 DEF CompleteRun, TypeOK
<1>7. CASE LeaveRun
  <2>1. visit.run \in Runs
    BY <1>7 DEF LeaveRun, Storing, Collecting, TypeOK
  <2>2. Current(visit.run) \in Int
    <3>1. ~Done(visit.run)
      BY <1>7 DEF LeaveRun
    <3>2. Current(visit.run) \in Streams
      BY <2>1, <3>1, CurrentIs
    <3> QED BY <3>2 DEF Streams
  <2>3. cov' \in [Runs -> [Streams -> Coverage \cup {None}]]
    <3>1. cov' = Covered(visit.run, Current(visit.run))
      BY <1>7 DEF LeaveRun
    <3> QED BY <2>1, <2>2, <3>1, CoveredType
  <2> QED BY <1>7, <2>3 DEF LeaveRun, TypeOK
<1>8. CASE Crash
  BY <1>8 DEF Crash, TypeOK
<1>9. CASE LoadFingerprints
  BY <1>9 DEF LoadFingerprints, TypeOK, Present
<1>10. CASE GroupDuplicates
  <2>1. \A r \in Runs : flags'[r] \in Flags \cup {None}
    <3> SUFFICES ASSUME NEW r \in Runs PROVE flags'[r] \in Flags \cup {None}
      OBVIOUS
    <3>1. pass \in SUBSET Runs
      <4>1. pass # None
        BY <1>10 DEF GroupDuplicates
      <4> QED BY <4>1 DEF TypeOK
    <3>2. [canon |-> TRUE, group |-> None] \in Flags
      BY DEF Flags
    <3>3. flags'[r] = CASE r \in pass -> Classify(r, pass)
                        [] r \in Present \ pass -> [canon |-> TRUE, group |-> None]
                        [] OTHER -> None
      BY <1>10 DEF GroupDuplicates
    <3> QED BY <3>1, <3>2, <3>3, ClassifyType
  <2>2. flags' \in [Runs -> Flags \cup {None}] /\ lost' \in BOOLEAN
    BY <1>10, <2>1 DEF GroupDuplicates
  <2> QED
    <3>1. /\ pass' = None
          /\ UNCHANGED <<pages, cov, resets, visits, visit, study>>
      BY <1>10 DEF GroupDuplicates
    <3> QED BY <2>2, <3>1 DEF TypeOK
<1>11. ASSUME NEW plan \in Plans, SelectRuns(plan) PROVE TypeOK'
  <2>1. RunSet(plan.policy, plan.needs) \in SUBSET Runs
    BY DEF RunSet, Admitted, Present
  <2>2. study.pc = "none" /\ study' = [study EXCEPT !.pc = "selected", !.plan = plan,
                                          !.runs = RunSet(plan.policy, plan.needs)]
    BY <1>11 DEF SelectRuns
  <2> QED BY <1>11, <2>1, <2>2 DEF SelectRuns, TypeOK
<1>12. CASE Begin
  <2>1. study.plan.grade \in Grades /\ study.runs \subseteq Runs
    BY <1>12 DEF Begin, TypeOK
  <2>2. CorpusFingerprint(study.runs, study.plan.grade) \in [study.runs -> Digests]
    BY <2>1, DigestType DEF CorpusFingerprint
  <2> QED BY <1>12, <2>2 DEF Begin, TypeOK
<1>13. ASSUME NEW r \in Runs, ReadRun(r) PROVE TypeOK'
  <2>1. Evidence(r) \in Readings
    BY DigestType
  <2>2. study'.read \in [DOMAIN study'.read -> Readings] /\ DOMAIN study'.read \subseteq study.runs
    BY <1>13, <2>1 DEF ReadRun, TypeOK
  <2>3. /\ study'.pc = study.pc /\ study'.plan = study.plan /\ study'.runs = study.runs
        /\ study'.digests = study.digests /\ study'.since = study.since
        /\ study' = [study EXCEPT !.read = study'.read]
    BY <1>13 DEF ReadRun, TypeOK
  <2> QED BY <1>13, <2>2, <2>3 DEF ReadRun, TypeOK
<1>14. CASE Finish
  BY <1>14 DEF Finish, TypeOK
<1> QED
  BY <1>1, <1>2, <1>3, <1>4, <1>5, <1>6, <1>7, <1>8, <1>9, <1>10, <1>11, <1>12, <1>13, <1>14
  DEF Next, Collect, Dedupe, Derive

-----------------------------------------------------------------------------
(***************************************************************************)
(* The classification.                                                     *)
(***************************************************************************)
\* The visit of a collector that has to store its run.
LEMMA VisitType ==
  ASSUME TypeOK, visit # None
  PROVE  visit \in [run: Runs, stored: BOOLEAN, prior: Flags] /\ visit.run \in Runs /\ visit.prior \in Flags
BY DEF TypeOK

\* What UpsertRun leaves of the classification.
LEMMA UpsertRunFlags ==
  ASSUME TypeOK, UpsertRun
  PROVE  /\ visit # None /\ ~visit.stored /\ visit.run \in Runs /\ visit.prior \in Flags
         /\ \A r \in Runs : flags'[r] = IF r = visit.run THEN visit.prior ELSE flags[r]
         /\ Present' = Present \cup {visit.run}
         /\ visit'.stored /\ pass' = pass
         /\ lost' = (lost \/ (flags[visit.run] # None /\ flags[visit.run] # visit.prior))
<1>1. visit # None /\ ~visit.stored
  BY DEF UpsertRun, Collecting
<1>2. visit \in [run: Runs, stored: BOOLEAN, prior: Flags] /\ visit.run \in Runs /\ visit.prior \in Flags
  BY <1>1, VisitType
<1>3. flags \in [Runs -> Flags \cup {None}] /\ flags' = [flags EXCEPT ![visit.run] = visit.prior]
  BY DEF UpsertRun, TypeOK
<1>4. \A r \in Runs : flags'[r] = IF r = visit.run THEN visit.prior ELSE flags[r]
  BY <1>2, <1>3
<1>5. Present' = Present \cup {visit.run}
  BY <1>2, <1>4, NoneIsNothing DEF Present
<1>6. visit' \in [run: Runs, stored: BOOLEAN, prior: Flags] /\ visit'.stored
  BY <1>2 DEF UpsertRun
<1> QED BY <1>1, <1>2, <1>4, <1>5, <1>6 DEF UpsertRun

\* What dedupe writes.
LEMMA GroupDuplicatesFlags ==
  ASSUME TypeOK, PassInv, GroupDuplicates
  PROVE  /\ pass \subseteq Present /\ Present' = Present
         /\ \A r \in pass : flags'[r] = Classify(r, pass)
         /\ lost' = (Present # pass) /\ pass' = None /\ visit' = visit
<1>1. pass \subseteq Present
  BY DEF GroupDuplicates, PassInv
<1>2. \A r \in Runs : flags'[r] = CASE r \in pass -> Classify(r, pass)
                                   [] r \in Present \ pass -> [canon |-> TRUE, group |-> None]
                                   [] OTHER -> None
  BY DEF GroupDuplicates
<1>3. \A r \in pass : flags'[r] = Classify(r, pass) /\ flags'[r] # None
  BY <1>1, <1>2, ClassifyType, NoneIsNothing DEF Present
<1>4. \A r \in Present \ pass : flags'[r] # None
  <2>1. [canon |-> TRUE, group |-> None] \in Flags
    BY DEF Flags
  <2> QED BY <1>2, <2>1, NoneIsNothing DEF Present
<1>5. \A r \in Runs \ Present : flags'[r] = None
  BY <1>1, <1>2
<1>6. Present' = Present
  BY <1>3, <1>4, <1>5 DEF Present
<1> QED BY <1>1, <1>3, <1>6 DEF GroupDuplicates

\* All other steps leave the classification alone.
LEMMA FlagsKept ==
  ASSUME [Next]_vars, ~UpsertRun, ~GroupDuplicates
  PROVE  flags' = flags /\ lost' = lost
BY DEF Next, Collect, Dedupe, Derive, vars, ReadPrior, ResetRun, LandPage, CompleteRun, LeaveRun,
       Crash, LoadFingerprints, SelectRuns, Begin, ReadRun, Finish

\* No step disturbs the pass or the row a collector is about to write.
LEMMA PassStep == TypeOK /\ PassInv /\ [Next]_vars => PassInv'
<1> SUFFICES ASSUME TypeOK, PassInv, [Next]_vars PROVE PassInv'
  OBVIOUS
<1>1. CASE UpsertRun
  BY <1>1, UpsertRunFlags DEF PassInv
<1>2. CASE GroupDuplicates
  <2>1. pass' = None
    BY <1>2, GroupDuplicatesFlags
  <2>2. ASSUME visit' # None, ~visit'.stored, flags'[visit'.run] = None
        PROVE  visit'.prior = Unclassified
    <3>1. visit' = visit /\ Present' = Present /\ visit.run \in Runs
      BY <1>2, <2>2, GroupDuplicatesFlags, VisitType
    <3>2. flags[visit.run] = None
      BY <2>2, <3>1 DEF Present
    <3> QED BY <2>2, <3>1, <3>2 DEF PassInv
  <2> QED BY <2>1, <2>2 DEF PassInv
<1>3. ASSUME NEW r \in Runs, ReadPrior(r) PROVE PassInv'
  <2>1. /\ visit' = [run |-> r, stored |-> FALSE,
                     prior |-> IF flags[r] = None THEN Unclassified ELSE flags[r]]
        /\ flags' = flags /\ pass' = pass
    BY <1>3 DEF ReadPrior
  <2> QED BY <2>1 DEF PassInv, Present
<1>4. CASE LoadFingerprints
  BY <1>4 DEF LoadFingerprints, PassInv, Present
<1>5. CASE /\ UNCHANGED <<flags, pass>>
           /\ visit' \in {visit, None}
  BY <1>5 DEF PassInv, Present
<1> QED
  BY <1>1, <1>2, <1>3, <1>4, <1>5
  DEF Next, Collect, Dedupe, Derive, vars, ResetRun, LandPage, CompleteRun, LeaveRun, Crash,
      SelectRuns, Begin, ReadRun, Finish

\* No step that does not own up to a loss mixes two classifications.
LEMMA ClassStep == TypeOK /\ PassInv /\ ClassInv /\ [Next]_vars => ClassInv'
<1> SUFFICES ASSUME TypeOK, PassInv, ClassInv, [Next]_vars, ~lost' PROVE
               \A r \in Classified' : flags'[r] = Classify(r, Classified')
  BY DEF ClassInv, Classify, GroupOf, Closed, Compare, Confidence, SameParty
<1>1. CASE UpsertRun
  <2>1. CASE flags[visit.run] = None
    <3>1. visit.prior = Unclassified /\ flags'[visit.run] = Unclassified
      BY <1>1, <2>1, UpsertRunFlags DEF PassInv
    <3>2. Classified' = Classified
      BY <1>1, <2>1, <3>1, UpsertRunFlags DEF Classified, Present, Unclassified
    <3>3. visit.run \notin Classified /\ ~lost
      BY <1>1, <2>1, UpsertRunFlags DEF Classified, Present
    <3> QED BY <1>1, <3>2, <3>3, UpsertRunFlags DEF ClassInv, Classified, Present
  <2>2. CASE flags[visit.run] # None
    <3>1. ~lost /\ flags[visit.run] = visit.prior
      BY <1>1, <2>2, UpsertRunFlags
    <3>2. \A r \in Runs : flags'[r] = flags[r]
      BY <1>1, <3>1, UpsertRunFlags
    <3>3. Classified' = Classified
      BY <3>2 DEF Classified, Present
    <3> QED BY <3>1, <3>2, <3>3 DEF ClassInv, Classified, Present
  <2> QED BY <2>1, <2>2
<1>2. CASE GroupDuplicates
  <2>1. Present = pass /\ Present' = pass /\ \A r \in pass : flags'[r] = Classify(r, pass)
    BY <1>2, GroupDuplicatesFlags
  <2>2. pass \subseteq Runs /\ \A r \in pass : Classify(r, pass).canon # None
    BY <2>1, ClassifyType, NoneIsNothing DEF Present
  <2>3. Classified' = pass
    BY <2>1, <2>2 DEF Classified
  <2> QED BY <2>1, <2>3
<1>3. CASE ~UpsertRun /\ ~GroupDuplicates
  <2>1. flags' = flags /\ lost' = lost
    BY <1>3, FlagsKept
  <2> QED BY <2>1 DEF ClassInv, Classified, Present
<1> QED BY <1>1, <1>2, <1>3

-----------------------------------------------------------------------------
(***************************************************************************)
(* Coverage and page_ids.                                                  *)
(***************************************************************************)
\* What the steps of a visit do to the pages and the coverage of a stream: the
\* pages stay or, in a stream that is not whole, one of the number of the last
\* reset is appended; a coverage row stays or is what it should be, and stays
\* where the page goes.
StreamStep(r, s) ==
  \/ /\ pages'[r][s] = pages[r][s]
     /\ cov'[r][s] \in {cov[r][s], Row(r, s)}
  \/ /\ ~Whole(r, s)
     /\ pages'[r][s] = Append(pages[r][s], resets)
     /\ cov'[r][s] = cov[r][s]

\* Every step but ResetRun takes each stream by such a step.
LEMMA StreamSteps ==
  ASSUME TypeOK, [Next]_vars, \A r \in Runs : ~ResetRun(r)
  PROVE  resets' = resets /\ \A r \in Runs, s \in Streams : StreamStep(r, s)
<1>1. CASE UNCHANGED <<pages, cov, resets>>
  BY <1>1 DEF StreamStep
<1>2. CASE LandPage
  <2> DEFINE q == visit.run
             k == Current(visit.run)
  <2>1. q \in Runs
    BY <1>2, VisitType DEF LandPage, Storing, Collecting
  <2>2. k \in Streams /\ ~Whole(q, k)
    BY <1>2, <2>1, CurrentIs DEF LandPage
  <2>3. pages' = [pages EXCEPT ![q][k] = Append(@, resets)] /\ cov' = Covered(q, k - 1)
        /\ resets' = resets
    BY <1>2 DEF LandPage
  <2> HIDE DEF q, k
  <2>4. k - 1 \in Int /\ ~(k <= k - 1)
    BY <2>2 DEF Streams
  <2>5. \A r \in Runs, s \in Streams : cov'[r][s] = IF r = q /\ s <= k - 1 THEN Row(r, s) ELSE cov[r][s]
    BY <2>1, <2>3, <2>4, CoveredType
  <2>6. \A r \in Runs, s \in Streams :
          pages'[r][s] = IF r = q /\ s = k THEN Append(pages[r][s], resets) ELSE pages[r][s]
    BY <2>1, <2>2, <2>3 DEF TypeOK
  <2> QED BY <2>2, <2>3, <2>4, <2>5, <2>6 DEF StreamStep
<1>3. CASE CompleteRun \/ LeaveRun
  <2>1. visit.run \in Runs
    BY <1>3, VisitType DEF CompleteRun, LeaveRun, Storing, Collecting
  <2>2. PICK k \in Int : cov' = Covered(visit.run, k)
    <3>1. CASE CompleteRun
      BY <3>1, CorpusAssumption DEF CompleteRun
    <3>2. CASE LeaveRun
      <4>1. Current(visit.run) \in Int
        BY <2>1, <3>2, CurrentIs DEF LeaveRun, Streams
      <4> QED BY <3>2, <4>1 DEF LeaveRun
    <3> QED BY <1>3, <3>1, <3>2
  <2>3. \A r \in Runs, s \in Streams : cov'[r][s] \in {cov[r][s], Row(r, s)}
    BY <2>1, <2>2, CoveredType
  <2> QED BY <1>3, <2>3 DEF CompleteRun, LeaveRun, StreamStep
<1> QED
  BY <1>1, <1>2, <1>3
  DEF Next, Collect, Dedupe, Derive, vars, ReadPrior, UpsertRun, Crash, LoadFingerprints,
      GroupDuplicates, SelectRuns, Begin, ReadRun, Finish

\* What no derivation's step changes.
LEMMA StudyKept ==
  ASSUME [Next]_vars
  PROVE  \/ study' = study
         \/ /\ UNCHANGED <<pages, cov, resets, flags>>
            /\ \/ \E plan \in Plans : SelectRuns(plan)
               \/ Begin \/ Finish \/ \E r \in Runs : ReadRun(r)
BY DEF Next, Collect, Dedupe, Derive, vars, ReadPrior, ResetRun, UpsertRun, LandPage, CompleteRun,
       LeaveRun, Crash, LoadFingerprints, GroupDuplicates, SelectRuns, Begin, ReadRun, Finish

\* How the record of the derivation changes.
LEMMA StudySteps ==
  ASSUME TypeOK
  PROVE  /\ \A plan \in Plans : SelectRuns(plan) =>
              /\ study.pc = "none" /\ DOMAIN study.read = {}
              /\ study'.pc = "selected" /\ study'.plan = plan
              /\ study'.runs = RunSet(plan.policy, plan.needs) /\ study'.read = study.read
              /\ study'.since = study.since
         /\ Begin =>
              /\ study.pc = "selected" /\ DOMAIN study.read = {}
              /\ study'.pc = "begun" /\ study'.plan = study.plan /\ study'.runs = study.runs
              /\ study'.since = resets /\ study'.read = study.read
              /\ study'.digests = CorpusFingerprint(study.runs, study.plan.grade)
         /\ \A r \in Runs : ReadRun(r) =>
              /\ study.pc = "begun" /\ r \in study.runs \ DOMAIN study.read
              /\ study'.pc = "begun" /\ study'.plan = study.plan /\ study'.runs = study.runs
              /\ study'.since = study.since /\ study'.digests = study.digests
              /\ DOMAIN study'.read = DOMAIN study.read \cup {r}
              /\ study'.read[r] = Evidence(r)
              /\ \A q \in DOMAIN study.read : study'.read[q] = study.read[q]
         /\ Finish =>
              /\ study.pc = "begun" /\ DOMAIN study.read = study.runs
              /\ study'.pc = "complete" /\ study'.plan = study.plan /\ study'.runs = study.runs
              /\ study'.since = study.since /\ study'.digests = study.digests
              /\ study'.read = study.read
<1>1. study \in [pc: {"none", "selected", "begun", "complete"}, plan: Plans \cup {None},
                runs: SUBSET Runs, digests: {study.digests}, read: {study.read},
                since: 0 .. MaxResets]
  BY DEF TypeOK
<1>2. study.pc \in {"none", "selected"} => DOMAIN study.read = {}
  BY DEF TypeOK
<1>3. ASSUME NEW r \in Runs, ReadRun(r)
      PROVE  /\ study.pc = "begun" /\ r \in study.runs \ DOMAIN study.read
             /\ study' = [study EXCEPT !.read = [q \in DOMAIN study.read \cup {r} |->
                                        IF q = r THEN Evidence(r) ELSE study.read[q]]]
  BY <1>1, <1>3 DEF ReadRun
<1>4. ASSUME NEW r \in Runs, ReadRun(r)
      PROVE  /\ study.pc = "begun" /\ r \in study.runs \ DOMAIN study.read
             /\ study'.pc = "begun" /\ study'.plan = study.plan /\ study'.runs = study.runs
             /\ study'.since = study.since /\ study'.digests = study.digests
             /\ DOMAIN study'.read = DOMAIN study.read \cup {r}
             /\ study'.read[r] = Evidence(r)
             /\ \A q \in DOMAIN study.read : study'.read[q] = study.read[q]
  <2> DEFINE reading == [q \in DOMAIN study.read \cup {r} |->
                           IF q = r THEN Evidence(r) ELSE study.read[q]]
  <2>1. /\ study.pc = "begun" /\ r \in study.runs \ DOMAIN study.read
        /\ study' = [study EXCEPT !.read = reading]
    BY <1>3, <1>4
  <2>2. /\ DOMAIN reading = DOMAIN study.read \cup {r} /\ reading[r] = Evidence(r)
        /\ \A q \in DOMAIN study.read : q # r => reading[q] = study.read[q]
    OBVIOUS
  <2> HIDE DEF reading
  <2>3. /\ study'.pc = study.pc /\ study'.plan = study.plan /\ study'.runs = study.runs
        /\ study'.since = study.since /\ study'.digests = study.digests /\ study'.read = reading
    BY <1>1, <2>1
  <2> QED BY <2>1, <2>2, <2>3
<1>5. Begin =>
              /\ study.pc = "selected" /\ DOMAIN study.read = {}
              /\ study'.pc = "begun" /\ study'.plan = study.plan /\ study'.runs = study.runs
              /\ study'.since = resets /\ study'.read = study.read
              /\ study'.digests = CorpusFingerprint(study.runs, study.plan.grade)
  BY <1>1, <1>2 DEF Begin
<1>6. \A plan \in Plans : SelectRuns(plan) =>
              /\ study.pc = "none" /\ DOMAIN study.read = {}
              /\ study'.pc = "selected" /\ study'.plan = plan
              /\ study'.runs = RunSet(plan.policy, plan.needs) /\ study'.read = study.read
              /\ study'.since = study.since
  BY <1>1, <1>2 DEF SelectRuns
<1>7. Finish =>
              /\ study.pc = "begun" /\ DOMAIN study.read = study.runs
              /\ study'.pc = "complete" /\ study'.plan = study.plan /\ study'.runs = study.runs
              /\ study'.since = study.since /\ study'.digests = study.digests
              /\ study'.read = study.read
  BY <1>1 DEF Finish
<1> QED BY <1>4, <1>5, <1>6, <1>7

\* Until the first reset, coverage does not run ahead of the pages.
LEMMA WholeStep == TypeOK /\ WholeInv /\ [Next]_vars => WholeInv'
<1> SUFFICES ASSUME TypeOK, WholeInv, [Next]_vars, resets' = 0
             PROVE  /\ \A r \in Runs, s \in Streams : HasStream(r, s)' => Whole(r, s)'
                    /\ study'.pc # "none" => \A r \in study'.runs, s \in study'.plan.needs : Whole(r, s)'
                    /\ \A r \in DOMAIN study'.read : \A s \in study'.plan.needs :
                         study'.read[r].pages[s] = Pages
  BY DEF WholeInv, ZeroIsReal
<1>1. \A r \in Runs : ~ResetRun(r)
  BY DEF ResetRun, TypeOK
<1>2. resets = 0 /\ \A r \in Runs, s \in Streams : StreamStep(r, s)
  BY <1>1, StreamSteps
<1>3. \A r \in Runs, s \in Streams : Whole(r, s) => Whole(r, s)'
  BY <1>2 DEF StreamStep, Whole
<1>4. \A r \in Runs, s \in Streams : HasStream(r, s)' => Whole(r, s)'
  <2> SUFFICES ASSUME NEW r \in Runs, NEW s \in Streams, HasStream(r, s)' PROVE Whole(r, s)'
    OBVIOUS
  <2>1. CASE pages'[r][s] = pages[r][s] /\ cov'[r][s] = Row(r, s)
    BY <2>1 DEF HasStream, Whole, Row
  <2>2. CASE cov'[r][s] = cov[r][s]
    BY <1>2, <1>3, <2>2 DEF HasStream, WholeInv
  <2> QED BY <1>2, <2>1, <2>2 DEF StreamStep
<1>5. /\ study.runs \subseteq Runs /\ study.pc \in {"none", "selected", "begun", "complete"}
      /\ study.pc # "none" => study.plan.needs \subseteq Streams
      /\ study.pc = "none" => DOMAIN study.read = {}
      /\ DOMAIN study.read \subseteq study.runs
  BY CorpusAssumption DEF TypeOK
<1>6. CASE study' = study
  BY <1>2, <1>3, <1>4, <1>5, <1>6 DEF WholeInv, ZeroIsReal
<1>7. ASSUME NEW plan \in Plans, SelectRuns(plan), UNCHANGED <<pages, cov, resets>>
      PROVE  /\ \A r \in study'.runs, s \in study'.plan.needs : Whole(r, s)'
             /\ DOMAIN study'.read = {}
  <2>1. /\ study'.plan = plan /\ study'.runs = RunSet(plan.policy, plan.needs)
        /\ DOMAIN study'.read = {}
    BY <1>7, StudySteps
  <2>2. plan.needs \subseteq Streams
    BY CorpusAssumption
  <2>3. \A r \in RunSet(plan.policy, plan.needs), s \in plan.needs : r \in Runs /\ HasStream(r, s)
    BY DEF RunSet, Admitted, Present
  <2>4. \A r \in RunSet(plan.policy, plan.needs), s \in plan.needs : Whole(r, s)
    BY <1>2, <2>2, <2>3 DEF WholeInv
  <2> QED BY <1>3, <2>1, <2>2, <2>3, <2>4
<1>8. CASE Begin \/ Finish
  <2>1. /\ study'.plan = study.plan /\ study'.runs = study.runs /\ study'.read = study.read
        /\ study.pc # "none"
    BY <1>8, StudySteps
  <2> QED BY <1>2, <1>3, <1>4, <1>5, <2>1 DEF WholeInv, ZeroIsReal
<1>9. ASSUME NEW r \in Runs, ReadRun(r)
      PROVE  /\ \A q \in study'.runs, s \in study'.plan.needs : Whole(q, s)'
             /\ \A q \in DOMAIN study'.read : \A s \in study'.plan.needs :
                  study'.read[q].pages[s] = Pages
  <2>1. /\ study.pc = "begun" /\ r \in study.runs
        /\ study'.plan = study.plan /\ study'.runs = study.runs
        /\ DOMAIN study'.read = DOMAIN study.read \cup {r} /\ study'.read[r] = Evidence(r)
        /\ \A q \in DOMAIN study.read : study'.read[q] = study.read[q]
        /\ r \notin DOMAIN study.read
    BY <1>9, StudySteps
  <2>2. \A q \in study.runs, s \in study.plan.needs : s \in Streams /\ Whole(q, s) /\ Whole(q, s)'
    BY <1>2, <1>3, <1>5, <2>1 DEF WholeInv
  <2>3. \A s \in study.plan.needs : Evidence(r).pages[s] = Pages
    BY <2>1, <2>2 DEF Evidence, Whole
  <2> QED BY <1>2, <2>1, <2>2, <2>3 DEF WholeInv, ZeroIsReal
<1>10. CASE \E plan \in Plans : SelectRuns(plan) /\ UNCHANGED <<pages, cov, resets>>
  BY <1>4, <1>7, <1>10
<1>11. CASE \E r \in Runs : ReadRun(r)
  BY <1>4, <1>9, <1>11
<1> QED BY <1>4, <1>6, <1>8, <1>10, <1>11, StudyKept

-----------------------------------------------------------------------------
(***************************************************************************)
(* The digests.                                                            *)
(***************************************************************************)
\* The numbers that Follows compares.
LEMMA FollowsType ==
  ASSUME TypeOK, study.pc \in {"begun", "complete"}, NEW r \in study.runs, NEW s \in Streams
  PROVE  /\ r \in Runs /\ study.digests[r][1] \in Readings /\ study.digests[r][1].pages[s] \in Nat
         /\ pages[r][s] \in Seq(0 .. MaxResets) /\ Len(pages[r][s]) \in Nat
         /\ r \in DOMAIN study.read => study.read[r].pages[s] \in Nat
<1>1. r \in Runs /\ study.digests \in [study.runs -> Digests]
      /\ study.read \in [DOMAIN study.read -> Readings]
  BY DEF TypeOK
<1>2. study.digests[r][1] \in Readings
  BY <1>1 DEF Digests
<1>3. \A x \in Readings : x.pages[s] \in Nat
  BY CorpusAssumption DEF Readings
<1>4. pages[r][s] \in Seq(0 .. MaxResets)
  BY <1>1 DEF TypeOK
<1> QED BY <1>1, <1>2, <1>3, <1>4

\* A stream step takes a stream that follows its digest to one that does.
LEMMA FollowsKept ==
  ASSUME TypeOK, study.pc \in {"begun", "complete"}, NEW r \in study.runs, NEW s \in Streams,
         Follows(r, s), StreamStep(r, s), study'.digests = study.digests, study'.read = study.read
  PROVE  Follows(r, s)'
<1> DEFINE old == study.digests[r][1]
<1>1. /\ old.pages[s] \in Nat /\ Len(pages[r][s]) \in Nat
      /\ r \in DOMAIN study.read => study.read[r].pages[s] \in Nat
      /\ pages[r][s] \in Seq(0 .. MaxResets)
  BY FollowsType
<1>2. CASE pages'[r][s] = pages[r][s] /\ cov'[r][s] \in {cov[r][s], Row(r, s)}
  <2>1. Row(r, s)' = Row(r, s)
    BY <1>2 DEF Row, Whole
  <2> QED BY <1>2, <2>1 DEF Follows
<1>3. CASE pages'[r][s] = Append(pages[r][s], resets)
  <2>1. Len(pages'[r][s]) = Len(pages[r][s]) + 1
    BY <1>1, <1>3
  <2> QED BY <1>1, <2>1 DEF Follows
<1> QED BY <1>2, <1>3 DEF StreamStep

\* And a run refreshed since the digest stays one.
LEMMA RenewedKept ==
  ASSUME TypeOK, NEW r \in Runs, Renewed(r), \A s \in Streams : StreamStep(r, s),
         resets <= resets', resets' \in Nat, study'.since = study.since
  PROVE  Renewed(r)'
<1>1. study.since < resets /\ study.since \in Nat /\ resets \in Nat
  BY CorpusAssumption DEF Renewed, TypeOK
<1>2. ASSUME NEW s \in Streams, NEW i \in DOMAIN pages'[r][s] PROVE study.since < pages'[r][s][i]
  <2>1. pages[r][s] \in Seq(0 .. MaxResets)
    BY DEF TypeOK
  <2>2. CASE pages'[r][s] = pages[r][s]
    BY <1>2, <2>2 DEF Renewed
  <2>3. CASE pages'[r][s] = Append(pages[r][s], resets)
    BY <1>1, <1>2, <2>1, <2>3 DEF Renewed
  <2> QED BY <2>2, <2>3 DEF StreamStep
<1>3. study'.since < resets'
  BY <1>1
<1> QED BY <1>2, <1>3 DEF Renewed

\* The digest of a run is still one of what the run is or was before a refresh.
DigestOf(r) ==
  /\ Renewed(r) \/ \A s \in Streams : Follows(r, s)
  /\ study.plan.grade = "deep" =>
       /\ study.digests[r][2] \in [Streams -> Seq(0 .. MaxResets)]
       /\ \A s \in Streams : \A i \in DOMAIN study.digests[r][2][s] :
            study.digests[r][2][s][i] <= study.since

\* A digest holds under any step that leaves the derivation as it is but for its end.
LEMMA DigestKept ==
  ASSUME TypeOK, study.pc \in {"begun", "complete"}, NEW r \in study.runs, DigestOf(r),
         Renewed(r)' \/ (resets <= resets' /\ \A s \in Streams : StreamStep(r, s)),
         resets' \in Nat, study'.digests = study.digests, study'.read = study.read,
         study'.since = study.since, study'.plan = study.plan
  PROVE  DigestOf(r)'
<1>1. r \in Runs
  BY DEF TypeOK
<1>2. Renewed(r)' \/ \A s \in Streams : Follows(r, s)'
  <2>1. CASE Renewed(r)'
    BY <2>1
  <2>2. CASE Renewed(r) /\ ~Renewed(r)'
    BY <1>1, <2>2, RenewedKept
  <2>3. CASE ~Renewed(r)' /\ \A s \in Streams : Follows(r, s)
    BY <2>3, FollowsKept
  <2> QED BY <2>1, <2>2, <2>3 DEF DigestOf
<1> QED BY <1>2 DEF DigestOf

\* No step hides from a digest what it does to the corpus.
LEMMA DigestStep == TypeOK /\ TypeOK' /\ DigestInv /\ [Next]_vars => DigestInv'
<1> SUFFICES ASSUME TypeOK, TypeOK', DigestInv, [Next]_vars PROVE DigestInv'
  OBVIOUS
<1>0. /\ resets \in Nat /\ resets' \in Nat /\ study.since \in Nat /\ study.since <= resets
      /\ study.runs \subseteq Runs
      /\ \A r \in Runs, s \in Streams : pages[r][s] \in Seq(0 .. MaxResets)
  BY CorpusAssumption DEF TypeOK, DigestInv
<1>1. ASSUME NEW q \in Runs, ResetRun(q)
      PROVE  /\ resets' = resets + 1 /\ study' = study
             /\ \A s \in Streams : pages'[q][s] = <<>>
             /\ \A r \in Runs \ {q}, s \in Streams :
                  pages'[r][s] = pages[r][s] /\ StreamStep(r, s)
  BY <1>1 DEF ResetRun, TypeOK, StreamStep
<1>2. resets <= resets'
  BY <1>0, <1>1, StreamSteps
<1>3. \A r \in Runs, s \in Streams : \A i \in DOMAIN pages'[r][s] : pages'[r][s][i] <= resets'
  <2>1. CASE \E q \in Runs : ResetRun(q)
    <3>1. PICK q \in Runs : ResetRun(q)
      BY <2>1
    <3>2. \A s \in Streams : pages'[q][s] = <<>>
      BY <1>1, <3>1
    <3>3. \A r \in Runs \ {q}, s \in Streams : pages'[r][s] = pages[r][s] /\ resets' = resets + 1
      BY <1>1, <3>1
    <3>4. \A r \in Runs, s \in Streams : \A i \in DOMAIN pages[r][s] :
            pages[r][s][i] <= resets /\ pages[r][s][i] \in Nat
      <4>1. \A r \in Runs, s \in Streams : \A i \in DOMAIN pages[r][s] : pages[r][s][i] \in 0 .. MaxResets
        <5> SUFFICES ASSUME NEW r \in Runs, NEW s \in Streams
                     PROVE  \A i \in DOMAIN pages[r][s] : pages[r][s][i] \in 0 .. MaxResets
          OBVIOUS
        <5> QED BY <1>0, SeqElements
      <4> QED BY <4>1 DEF DigestInv
    <3> QED BY <1>0, <3>2, <3>3, <3>4, SMTT(30)
  <2>2. CASE \A q \in Runs : ~ResetRun(q)
    <3> SUFFICES ASSUME NEW r \in Runs, NEW s \in Streams, NEW i \in DOMAIN pages'[r][s]
                 PROVE  pages'[r][s][i] <= resets'
      OBVIOUS
    <3>1. resets' = resets /\ StreamStep(r, s)
      BY <2>2, StreamSteps
    <3>2. CASE pages'[r][s] = pages[r][s]
      BY <3>1, <3>2 DEF DigestInv
    <3>3. CASE pages'[r][s] = Append(pages[r][s], resets)
      BY <1>0, <3>1, <3>3 DEF DigestInv
    <3> QED BY <3>1, <3>2, <3>3 DEF StreamStep
  <2> QED BY <2>1, <2>2
<1>4. study'.since <= resets' /\ (study'.pc = "complete" => DOMAIN study'.read = study'.runs)
  BY <1>0, <1>2, StudyKept, StudySteps DEF DigestInv
<1>5. ASSUME study'.pc \in {"begun", "complete"}, NEW r \in study'.runs PROVE DigestOf(r)'
  <2>1. CASE study' = study \/ Finish
    <3>1. /\ study.pc \in {"begun", "complete"} /\ r \in study.runs /\ r \in Runs
          /\ study'.digests = study.digests /\ study'.read = study.read
          /\ study'.since = study.since /\ study'.plan = study.plan
      BY <1>0, <1>5, <2>1, StudySteps
    <3>2. DigestOf(r)
      BY <3>1 DEF DigestInv, DigestOf
    <3>3. CASE \A q \in Runs : ~ResetRun(q)
      BY <1>0, <1>2, <3>1, <3>2, <3>3, StreamSteps, DigestKept
    <3>4. ASSUME NEW q \in Runs, ResetRun(q) PROVE DigestOf(r)'
      <4>1. CASE r # q
        BY <1>0, <1>1, <1>2, <3>1, <3>2, <3>4, <4>1, DigestKept
      <4>2. CASE r = q
        <5>1. Renewed(r)'
          BY <1>0, <1>1, <3>4, <4>2 DEF Renewed
        <5> QED BY <1>0, <3>1, <3>2, <5>1, DigestKept
      <4> QED BY <4>1, <4>2
    <3> QED BY <3>3, <3>4
  <2>2. CASE Begin /\ UNCHANGED <<pages, cov, resets>>
    <3>1. /\ r \in study.runs /\ r \in Runs /\ study'.since = resets /\ study'.plan = study.plan
          /\ DOMAIN study'.read = {}
          /\ study'.digests = [q \in study.runs |-> RunDigest(q, study.plan.grade)]
      BY <1>0, <1>5, <2>2, StudySteps DEF CorpusFingerprint
    <3>2. study'.digests[r] = <<Evidence(r), IF study.plan.grade = "deep" THEN pages[r] ELSE None>>
      BY <3>1 DEF RunDigest
    <3>3. \A s \in Streams : Evidence(r).pages[s] = Len(pages[r][s]) /\ Evidence(r).cov[s] = cov[r][s]
      BY DEF Evidence
    <3>4. \A s \in Streams : Follows(r, s)'
      BY <1>0, <2>2, <3>1, <3>2, <3>3 DEF Follows
    <3>5. study.plan.grade = "deep" => study'.digests[r][2] = pages[r]
      BY <3>2
    <3>6. pages[r] \in [Streams -> Seq(0 .. MaxResets)]
      BY <3>1 DEF TypeOK
    <3>7. \A s \in Streams : \A i \in DOMAIN pages[r][s] : pages[r][s][i] <= resets
      BY <3>1 DEF DigestInv
    <3> QED BY <3>1, <3>4, <3>5, <3>6, <3>7 DEF DigestOf
  <2>3. ASSUME NEW q \in Runs, ReadRun(q), UNCHANGED <<pages, cov, resets>> PROVE DigestOf(r)'
    <3>1. /\ study.pc = "begun" /\ r \in study.runs /\ r \in Runs
          /\ study'.digests = study.digests /\ study'.since = study.since /\ study'.plan = study.plan
          /\ DOMAIN study'.read = DOMAIN study.read \cup {q} /\ study'.read[q] = Evidence(q)
          /\ \A p \in DOMAIN study.read : study'.read[p] = study.read[p]
          /\ q \notin DOMAIN study.read
      BY <1>0, <1>5, <2>3, StudySteps
    <3>2. DigestOf(r)
      BY <3>1 DEF DigestInv, DigestOf
    <3>3. ASSUME Renewed(r) PROVE Renewed(r)'
      BY <2>3, <3>1, <3>3 DEF Renewed
    <3>4. ASSUME NEW s \in Streams, Follows(r, s) PROVE Follows(r, s)'
      <4>1. Row(r, s)' = Row(r, s)
        BY <2>3 DEF Row, Whole
      <4>2. CASE r # q
        BY <2>3, <3>1, <3>4, <4>1, <4>2 DEF Follows
      <4>3. CASE r = q
        <5>1. study'.read[r].pages[s] = Len(pages[r][s]) /\ study'.read[r].cov[s] = cov[r][s]
          BY <3>1, <4>3 DEF Evidence
        <5>2. Len(pages[r][s]) \in Nat
          BY <1>0, <3>1
        <5> QED BY <2>3, <3>1, <3>4, <4>1, <5>1, <5>2 DEF Follows
      <4> QED BY <4>2, <4>3
    <3> QED BY <3>1, <3>2, <3>3, <3>4 DEF DigestOf
  <2> QED BY <1>5, <2>1, <2>2, <2>3, StudyKept, StudySteps
<1>6. study'.pc \in {"begun", "complete"} => \A r \in study'.runs : DigestOf(r)'
  BY <1>5
<1> QED BY <1>3, <1>4, <1>6 DEF DigestInv, DigestOf

-----------------------------------------------------------------------------
(***************************************************************************)
(* The theorems.                                                           *)
(***************************************************************************)
\* An empty corpus and no derivation satisfy the invariant.
LEMMA InitInvariant == Init => IInv
<1> SUFFICES ASSUME Init PROVE IInv
  OBVIOUS
<1> USE CorpusAssumption
<1>1. TypeOK
  <2>1. study = [pc |-> "none", plan |-> None, runs |-> {}, digests |-> <<>>, read |-> <<>>, since |-> 0]
    BY DEF Init, NoStudy
  <2>2. <<>> \in [{} -> Digests] /\ <<>> \in [{} -> Readings] /\ DOMAIN <<>> = {}
    OBVIOUS
  <2>3. study \in [pc: {"none", "selected", "begun", "complete"}, plan: Plans \cup {None},
                  runs: SUBSET Runs, digests: {study.digests}, read: {study.read},
                  since: 0 .. MaxResets]
    BY <2>1
  <2>4. /\ study.digests \in [{} -> Digests] /\ study.read \in [DOMAIN study.read -> Readings]
        /\ DOMAIN study.read = {} /\ study.pc = "none"
    BY <2>1, <2>2
  <2>5. pages \in [Runs -> [Streams -> Seq(0 .. MaxResets)]]
        /\ \A r \in Runs, s \in Streams : Len(pages[r][s]) <= Pages
    BY DEF Init
  <2>6. /\ flags \in [Runs -> Flags \cup {None}] /\ cov \in [Runs -> [Streams -> Coverage \cup {None}]]
        /\ resets = 0 /\ visits = 0 /\ lost = FALSE /\ visit = None /\ pass = None
    BY DEF Init
  <2>7. 0 \in 0 .. MaxResets /\ 0 \in 0 .. MaxVisits
    OBVIOUS
  <2> QED BY ONLY <2>3, <2>4, <2>5, <2>6, <2>7 DEF TypeOK
<1>2. Present = {}
  BY DEF Init, Present
<1> QED
  BY <1>1, <1>2
  DEF Init, NoStudy, IInv, PassInv, ClassInv, Classified, WholeInv, HasStream, ZeroIsReal, DigestInv

\* No step leaves the invariant.
LEMMA NextInvariant == IInv /\ [Next]_vars => IInv'
BY TypeStep, PassStep, ClassStep, WholeStep, DigestStep DEF IInv

\* Every state that the corpus, dedupe and a derivation can come to satisfies the invariant.
THEOREM InvariantHolds == Spec => []IInv
<1>1. Init => IInv
  BY InitInvariant
<1>2. IInv /\ [Next]_vars => IInv'
  BY NextInvariant
<1> QED BY <1>1, <1>2, PTL DEF Spec

\* Every variable holds a value of its type, and a derivation has digests of the
\* runs it has selected and has read no others (begin, iter_events).
THEOREM TypeCorrect == Spec => []TypeOK
<1>1. IInv => TypeOK
  BY DEF IInv
<1> QED BY <1>1, InvariantHolds, PTL

\* An admitted run of a strict selection is the first of its group.
LEMMA AdmittedFirst ==
  ASSUME IInv, ~lost, NEW r \in Admitted("strict")
  PROVE  r \in Classified /\ r = First(GroupOf(r, Classified))
<1>1. r \in Present /\ flags[r] \in Flags /\ flags[r].canon # None /\ flags[r].canon
  BY NoneIsNothing DEF Admitted, Present, IInv, TypeOK, Flags
<1>2. flags[r] = Classify(r, Classified)
  BY <1>1 DEF IInv, ClassInv, Classified
<1>3. flags[r].canon = (r = First(GroupOf(r, Classified)))
  BY <1>2, ClassifyFields
<1> QED BY <1>1, <1>3 DEF Classified

\* dedupe and the strict selection of Repository.runs: no statistic counts two
\* uploads of one run, as long as no classification was overwritten.
THEOREM RunsCountedOnce == Spec => []CountedOnce
<1>1. IInv => CountedOnce
  <2> SUFFICES ASSUME IInv, ~lost, NEW r \in Admitted("strict"), NEW q \in Admitted("strict"),
                      Compare(r, q)
               PROVE  FALSE
    BY DEF CountedOnce
  <2>1. /\ r \in Classified /\ r = First(GroupOf(r, Classified))
        /\ q \in Classified /\ q = First(GroupOf(q, Classified))
    BY AdmittedFirst
  <2>2. GroupOf(q, Classified) = GroupOf(r, Classified)
    BY <2>1, GroupMatch, GroupShared DEF Classified, Present
  <2> QED BY <2>1, <2>2 DEF Compare
<1> QED BY <1>1, InvariantHolds, PTL

\* And none leaves a run out that no run admitted stands for: the first of its
\* group is admitted, and bears the group the run bears (group_duplicates).
THEOREM RunsRepresented == Spec => []Represented
<1>1. IInv => Represented
  <2> SUFFICES ASSUME IInv, ~lost, NEW r \in Classified \ Admitted("strict")
               PROVE  \E q \in Admitted("strict") : flags[q].group = flags[r].group
    BY DEF Represented
  <2> DEFINE group == GroupOf(r, Classified)
             q == First(group)
  <2>1. Classified \in SUBSET Runs /\ Classified \subseteq Present
    BY DEF Classified, Present
  <2>2. \A p \in Classified : flags[p] = Classify(p, Classified)
    BY DEF IInv, ClassInv
  <2>3. r \in Classified /\ flags[r].canon # TRUE
    BY NoneIsNothing DEF Admitted, Classified
  <2>4. q \in Classified /\ q \in group /\ GroupOf(q, Classified) = group
    BY <2>1, GroupFirst
  <2>5. r \in group /\ q # r
    <3>1. flags[r].canon = (r = First(GroupOf(r, Classified)))
      BY <2>2, <2>3, ClassifyFields
    <3>2. flags[r].canon # TRUE => ~(r = q)
      BY <3>1
    <3> QED BY <2>3, <3>2, GroupSelf
  <2>6. flags[r] = [canon |-> FALSE, group |-> group]
    <3>1. group # {r}
      BY <2>4, <2>5
    <3> QED BY <2>2, <2>5, <3>1 DEF Classify
  <2>7. flags[q] = [canon |-> TRUE, group |-> group]
    <3>1. group # {q}
      BY <2>5
    <3> HIDE DEF q, group
    <3>2. q = First(group)
      BY DEF q
    <3> QED BY <2>2, <2>4, <3>1, <3>2 DEF Classify
  <2>8. q \in Admitted("strict")
    <3> HIDE DEF q
    <3>1. q \in Present
      BY <2>1, <2>4
    <3>2. flags[q].canon = TRUE
      BY <2>7
    <3>3. TRUE # None
      BY NoneIsNothing
    <3> QED BY <3>1, <3>2, <3>3 DEF Admitted
  <2> QED BY <2>6, <2>7, <2>8
<1> QED BY <1>1, InvariantHolds, PTL

\* What validate prints as "current" is: where no row is NULL, matching runs are together.
THEOREM CurrentIsExamined == Spec => []CurrentMeansExamined
<1>1. IInv => CurrentMeansExamined
  <2> SUFFICES ASSUME IInv, ~lost, Classified = Present, NEW r \in Present, NEW q \in Present,
                      Compare(r, q)
               PROVE  flags[r].group = flags[q].group
    BY DEF CurrentMeansExamined
  <2>1. /\ Present \in SUBSET Runs /\ r # q
        /\ flags[r] = Classify(r, Present) /\ flags[q] = Classify(q, Present)
    BY DEF IInv, ClassInv, Present, Compare
  <2>2. q \in GroupOf(r, Present) /\ GroupOf(q, Present) = GroupOf(r, Present)
    BY <2>1, GroupMatch, GroupShared
  <2>3. r \in GroupOf(r, Present)
    BY GroupSelf
  <2> QED BY <2>1, <2>2, <2>3 DEF Classify
<1> QED BY <1>1, InvariantHolds, PTL

\* require_streams: what a derivation reads of a stream it requires is all of it.
THEOREM ZerosAreReal == Spec => []ZeroIsReal
<1>1. IInv => ZeroIsReal
  BY DEF IInv, WholeInv, ZeroIsReal
<1> QED BY <1>1, InvariantHolds, PTL

\* AnalyticsStore.verify: an analysis that passes has read what is there, or the
\* corpus was refreshed, and at the deep grade the run is empty since.
THEOREM VerifyIsSound == Spec => []VerifySound
<1>1. IInv => VerifySound
  <2> SUFFICES ASSUME IInv, Intact, NEW r \in study.runs, study.read[r] # Evidence(r)
               PROVE  /\ study.since # resets
                      /\ study.plan.grade # "page" => \A s \in Streams : pages[r][s] = <<>>
    BY DEF VerifySound
  <2>1. /\ TypeOK /\ DigestOf(r) /\ study.pc = "complete" /\ r \in Runs /\ r \in DOMAIN study.read
        /\ study.plan.grade \in Grades
        /\ study.digests[r] = <<Evidence(r), IF study.plan.grade = "deep" THEN pages[r] ELSE None>>
    BY CorpusAssumption
    DEF IInv, TypeOK, DigestInv, DigestOf, Intact, CorpusFingerprint, RunDigest
  <2>2. \E s \in Streams : ~Follows(r, s)
    <3> SUFFICES ASSUME \A s \in Streams : Follows(r, s) PROVE study.read[r] = Evidence(r)
      OBVIOUS
    <3>1. study.digests[r][1] = Evidence(r)
      BY <2>1
    <3>2. \A s \in Streams : /\ Evidence(r).pages[s] = Len(pages[r][s]) /\ Evidence(r).cov[s] = cov[r][s]
                            /\ Len(pages[r][s]) \in Nat
      BY <2>1, FollowsType DEF Evidence
    <3>3. \A s \in Streams : /\ study.read[r].pages[s] = Evidence(r).pages[s]
                            /\ study.read[r].cov[s] = Evidence(r).cov[s]
      BY <2>1, <3>1, <3>2, FollowsType DEF Follows
    <3>4. study.read[r] \in Readings /\ Evidence(r) \in Readings
      BY <2>1, DigestType DEF TypeOK
    <3>5. \A x, y \in Readings :
            (\A s \in Streams : x.pages[s] = y.pages[s] /\ x.cov[s] = y.cov[s]) => x = y
      <4> SUFFICES ASSUME NEW x \in Readings, NEW y \in Readings,
                          \A s \in Streams : x.pages[s] = y.pages[s] /\ x.cov[s] = y.cov[s]
                   PROVE  x = y
        OBVIOUS
      <4>1. x.pages = y.pages /\ x.cov = y.cov
        BY DEF Readings
      <4> QED BY <4>1 DEF Readings
    <3> QED BY <3>3, <3>4, <3>5
  <2>3. Renewed(r) /\ study.since < resets /\ study.since \in Nat /\ resets \in Nat
    BY <2>1, <2>2, CorpusAssumption DEF DigestOf, Renewed, TypeOK
  <2>4. ASSUME study.plan.grade = "deep", NEW s \in Streams PROVE pages[r][s] = <<>>
    <3>1. study.digests[r][2] = pages[r]
      BY <2>1, <2>4
    <3>2. pages[r][s] \in Seq(0 .. MaxResets)
      BY <2>1 DEF TypeOK
    <3>3. \A i \in DOMAIN pages[r][s] : pages[r][s][i] <= study.since /\ study.since < pages[r][s][i]
      BY <2>1, <2>3, <2>4, <3>1 DEF DigestOf, Renewed
    <3>4. \A i \in DOMAIN pages[r][s] : pages[r][s][i] \in Nat
      BY <3>2, CorpusAssumption
    <3>5. DOMAIN pages[r][s] = {}
      BY <2>3, <3>3, <3>4
    <3> QED BY <3>2, <3>5, SeqElements
  <2> QED BY <2>1, <2>3, <2>4 DEF Grades
<1> QED BY <1>1, InvariantHolds, PTL
=============================================================================
