------------------------------- MODULE Corpus -------------------------------
(***************************************************************************)
(* The collected corpus under its readers: wclmplus dedupe (dedupe.py)     *)
(* classifies the runs, Repository (repository.py) selects those that may  *)
(* enter a statistic, and AnalyticsStore (analytics.py) records with the   *)
(* fingerprints (fingerprint.py) of a derivation what it was derived from, *)
(* while a collector goes on writing: WAL lets everybody read and write    *)
(* between the commits of everybody else.                                  *)
(*                                                                         *)
(* Of the collector there is here what others see of it, commit by commit; *)
(* Collector has the rest.                                                 *)
(***************************************************************************)
EXTENDS Integers, Sequences, FiniteSets

CONSTANTS
  Runs,        \* run_ids, in their order
  Upload,      \* Upload[r]: the fields of a run that dedupe compares
  NumStreams,  \* streams of the profile
  Pages,       \* pages of a stream
  Tolerance,   \* DEFAULT_START_TOLERANCE_MS
  MaxVisits,   \* bound: runs collected, over and over
  MaxResets,   \* bound: runs reset by --refresh
  Plans,       \* the derivations: policy, required streams, grade
  None

Streams == 1 .. NumStreams
Grades == {"page", "deep"}
Policies == {"permissive", "strict"}

\* The classification of a row, and a coverage row.
Flags == [canon: BOOLEAN \cup {None}, group: {None} \cup SUBSET Runs]
Coverage == [status: {"ok", "partial"}, pages: 0 .. Pages]

ASSUME CorpusAssumption ==
  /\ Runs \subseteq Nat
  /\ {NumStreams, Pages, Tolerance} \subseteq Nat \ {0} /\ {MaxVisits, MaxResets} \subseteq Nat
  /\ None \notin Nat \cup BOOLEAN \cup Flags \cup Coverage
  /\ \A r \in Runs :
       /\ {Upload[r].start, Upload[r].duration} \subseteq Nat
       /\ IsFiniteSet(Upload[r].roster)
  /\ Plans \subseteq [policy: Policies, needs: SUBSET Streams, grade: Grades]

VARIABLES
  flags,   \* flags[r]: is_canonical and duplicate_group_id of the row, or None
  pages,   \* pages[r][s]: its pages, each by the page_ids it was handed out from
  cov,     \* cov[r][s]: its coverage row, or None
  resets,  \* runs reset so far; page_ids are never handed out again
  visits,  \* runs the collector has been at
  visit,   \* the run the collector is at, or None
  pass,    \* the runs dedupe has loaded and not yet classified, or None
  lost,    \* dedupe and a collector overwrote each other's classification
  study    \* the derivation at hand

vars == <<flags, pages, cov, resets, visits, visit, pass, lost, study>>

Present == {r \in Runs : flags[r] # None}

-----------------------------------------------------------------------------
(***************************************************************************)
(* compare, but for the rounding of the confidence, which is kept as a     *)
(* multiple of 1 / (10 * Tolerance * n), n the size of the smaller roster. *)
(***************************************************************************)
Gap(x, y) == IF x > y THEN x - y ELSE y - x
Smaller(x, y) == IF x < y THEN x ELSE y

Confidence(a, b) ==
  LET known == a.roster # {} /\ b.roster # {}
      n == IF known THEN Smaller(Cardinality(a.roster), Cardinality(b.roster)) ELSE 1
      If(condition, points) == IF condition THEN points * Tolerance * n ELSE 0
      longest == IF a.duration > b.duration THEN a.duration ELSE b.duration
  IN [points |-> If(TRUE, 2) + 3 * (Tolerance - Gap(a.start, b.start)) * n
                 + If(10 * Gap(a.duration, b.duration) <= longest, 2)
                 + (IF known THEN 3 * Cardinality(a.roster \cap b.roster) * Tolerance ELSE 0)
                 + If(a.affixes # None /\ a.affixes = b.affixes, 1),
      needed |-> If(TRUE, 5)]

SameParty(a, b) ==
  a.roster = {} \/ b.roster = {} \/
    10 * Cardinality(a.roster \cap b.roster) >=
      6 * Smaller(Cardinality(a.roster), Cardinality(b.roster))

Compare(r, q) ==
  LET a == Upload[r]
      b == Upload[q]
      c == Confidence(a, b)
  IN /\ r # q /\ a.report # b.report
     /\ a.dungeon = b.dungeon /\ a.dungeon # None /\ a.level = b.level
     /\ Gap(a.start, b.start) <= Tolerance
     /\ SameParty(a, b)
     /\ c.points >= c.needed

(***************************************************************************)
(* The groups of union-find over the matches in a set of runs: the runs    *)
(* that no set closed under matching separates.                            *)
(***************************************************************************)
Closed(C, S) == \A r \in C, q \in S : Compare(r, q) => q \in C

GroupOf(r, S) == {q \in S : \A C \in SUBSET S : r \in C /\ Closed(C, S) => q \in C}

First(S) == CHOOSE r \in S : \A q \in S : r <= q

\* Not the code: every match by itself, without union-find.
ClassifyByMatch(r, S) ==
  LET matches == {q \in S : Compare(r, q)} IN
  [canon |-> \A q \in matches : r < q, group |-> {r} \cup matches]

\* A run in no group is its own canonical observation.
Classify(r, S) ==
  [canon |-> r = First(GroupOf(r, S)),
   group |-> IF GroupOf(r, S) = {r} THEN None ELSE GroupOf(r, S)]

Unclassified == [canon |-> None, group |-> None]

-----------------------------------------------------------------------------
NoStudy == [pc |-> "none", plan |-> None, runs |-> {},
            digests |-> <<>>, read |-> <<>>, since |-> 0]

Init ==
  /\ flags = [r \in Runs |-> None]
  /\ pages = [r \in Runs |-> [s \in Streams |-> <<>>]]
  /\ cov = [r \in Runs |-> [s \in Streams |-> None]]
  /\ resets = 0 /\ visits = 0 /\ visit = None /\ pass = None /\ lost = FALSE
  /\ study = NoStudy

(***************************************************************************)
(* The collector.  _collect_run reads the old classification before the    *)
(* transaction that replaces the row, and then goes through the streams in *)
(* order, each until it is whole: the first that is not is where it is.    *)
(***************************************************************************)
Collecting == visit # None
Storing == Collecting /\ visit.stored

ReadPrior(r) ==
  /\ ~Collecting /\ visits < MaxVisits
  /\ visits' = visits + 1
  /\ visit' = [run |-> r, stored |-> FALSE,
               prior |-> IF flags[r] = None THEN Unclassified ELSE flags[r]]
  /\ UNCHANGED <<flags, pages, cov, resets, pass, lost, study>>

\* Not the code: the row is replaced as the normalizer makes it.
UpsertRunUnclassified ==
  /\ Collecting /\ ~visit.stored
  /\ flags' = [flags EXCEPT ![visit.run] = Unclassified]
  /\ visit' = [visit EXCEPT !.stored = TRUE]
  /\ UNCHANGED <<pages, cov, resets, visits, pass, lost, study>>

\* Not the code: a run nobody examined passes for canonical.
UpsertRunCanonical ==
  /\ Collecting /\ ~visit.stored
  /\ flags' = [flags EXCEPT ![visit.run] =
                 IF visit.prior.canon = None THEN [visit.prior EXCEPT !.canon = TRUE] ELSE visit.prior]
  /\ visit' = [visit EXCEPT !.stored = TRUE]
  /\ UNCHANGED <<pages, cov, resets, visits, pass, lost, study>>

UpsertRun ==
  /\ Collecting /\ ~visit.stored
  /\ flags' = [flags EXCEPT ![visit.run] = visit.prior]
  /\ lost' = (lost \/ (flags[visit.run] # None /\ flags[visit.run] # visit.prior))
  /\ visit' = [visit EXCEPT !.stored = TRUE]
  /\ UNCHANGED <<pages, cov, resets, visits, pass, study>>

\* Not the code: one more page is asked for than there is.
WholeWhenPast(r, s) == Len(pages[r][s]) > Pages

\* A stream whose last page is stored is exhausted.
Whole(r, s) == Len(pages[r][s]) = Pages

Done(r) == \A s \in Streams : Whole(r, s)
Current(r) == CHOOSE s \in Streams : ~Whole(r, s) /\ \A t \in 1 .. s - 1 : Whole(r, t)

\* The coverage rows of the visit, as they are once `s` is the last of them.
Covered(r, s) ==
  [cov EXCEPT ![r] = [t \in Streams |->
     IF t <= s
       THEN [status |-> IF Whole(r, t) THEN "ok" ELSE "partial", pages |-> Len(pages[r][t])]
       ELSE @[t]]]

\* A page, its events and the coverage that was waiting for a commit.
LandPage ==
  /\ Storing /\ ~Done(visit.run)
  /\ LET s == Current(visit.run)
     IN /\ pages' = [pages EXCEPT ![visit.run][s] = Append(@, resets)]
        /\ cov' = Covered(visit.run, s - 1)
  /\ UNCHANGED <<flags, resets, visits, visit, pass, lost, study>>

\* The run's status commits the coverage of its last stream.
CompleteRun ==
  /\ Storing /\ Done(visit.run)
  /\ cov' = Covered(visit.run, NumStreams)
  /\ visit' = None
  /\ UNCHANGED <<flags, pages, resets, visits, pass, lost, study>>

\* A refusal or an interrupt: the stream it was at is on record as partial.
LeaveRun ==
  /\ Storing /\ ~Done(visit.run)
  /\ cov' = Covered(visit.run, Current(visit.run))
  /\ visit' = None
  /\ UNCHANGED <<flags, pages, resets, visits, pass, lost, study>>

Crash ==
  /\ Collecting
  /\ visit' = None
  /\ UNCHANGED <<flags, pages, cov, resets, visits, pass, lost, study>>

\* --refresh: pages and events go, coverage and classification stay.
ResetRun(r) ==
  /\ ~Collecting /\ r \in Present /\ resets < MaxResets
  /\ pages' = [pages EXCEPT ![r] = [s \in Streams |-> <<>>]]
  /\ resets' = resets + 1
  /\ UNCHANGED <<flags, cov, visits, visit, pass, lost, study>>

(***************************************************************************)
(* dedupe: load_fingerprints reads every run; the transaction that writes  *)
(* the classification clears every row there is by then, and calls every   *)
(* row that is in no group canonical.                                      *)
(***************************************************************************)
LoadFingerprints ==
  /\ pass = None
  /\ pass' = Present
  /\ UNCHANGED <<flags, pages, cov, resets, visits, visit, lost, study>>

GroupDuplicates ==
  /\ pass # None
  /\ flags' = [r \in Runs |->
       CASE r \in pass -> Classify(r, pass)
         [] r \in Present \ pass -> [canon |-> TRUE, group |-> None]
         [] OTHER -> None]
  /\ lost' = (Present # pass)
  /\ pass' = None
  /\ UNCHANGED <<pages, cov, resets, visits, visit, study>>

-----------------------------------------------------------------------------
(***************************************************************************)
(* Repository.runs.                                                        *)
(***************************************************************************)
\* Not the code: any coverage row will do.
HasStreamAsked(r, s) == cov[r][s] # None

HasStream(r, s) == cov[r][s] # None /\ cov[r][s].status = "ok"

Admitted(policy) ==
  {r \in Present : IF flags[r].canon = None THEN policy = "permissive" ELSE flags[r].canon}

RunSet(policy, needs) ==
  {r \in Admitted(policy) : \A s \in needs : HasStream(r, s)}

SelectRuns(plan) ==
  /\ study.pc = "none"
  /\ study' = [study EXCEPT !.pc = "selected", !.plan = plan,
                            !.runs = RunSet(plan.policy, plan.needs)]
  /\ UNCHANGED <<flags, pages, cov, resets, visits, visit, pass, lost>>

(***************************************************************************)
(* What a derivation can read of a run, and its fingerprint: as many pages *)
(* and the same coverage at the page grade, their page_ids too, which      *)
(* every event row holds, at the deep grade.                               *)
(***************************************************************************)
Evidence(r) == [pages |-> [s \in Streams |-> Len(pages[r][s])], cov |-> cov[r]]

RunDigest(r, grade) == <<Evidence(r), IF grade = "deep" THEN pages[r] ELSE None>>

CorpusFingerprint(runs, grade) == [r \in runs |-> RunDigest(r, grade)]

\* AnalyticsStore.begin, before any work.
Begin ==
  /\ study.pc = "selected"
  /\ study' = [study EXCEPT !.pc = "begun", !.since = resets,
                            !.digests = CorpusFingerprint(study.runs, study.plan.grade)]
  /\ UNCHANGED <<flags, pages, cov, resets, visits, visit, pass, lost>>

\* Repository.iter_events, a query for each chunk of runs: here, of one run.
ReadRun(r) ==
  /\ study.pc = "begun" /\ r \in study.runs \ DOMAIN study.read
  /\ r = First(study.runs \ DOMAIN study.read)
  /\ study' = [study EXCEPT !.read = [q \in DOMAIN @ \cup {r} |->
                                        IF q = r THEN Evidence(r) ELSE @[q]]]
  /\ UNCHANGED <<flags, pages, cov, resets, visits, visit, pass, lost>>

\* Not the code: the fingerprint is taken when the work is done.
FinishWithFingerprint ==
  /\ study.pc = "begun" /\ DOMAIN study.read = study.runs
  /\ study' = [study EXCEPT !.pc = "complete",
                            !.digests = CorpusFingerprint(study.runs, study.plan.grade)]
  /\ UNCHANGED <<flags, pages, cov, resets, visits, visit, pass, lost>>

Finish ==
  /\ study.pc = "begun" /\ DOMAIN study.read = study.runs
  /\ study' = [study EXCEPT !.pc = "complete"]
  /\ UNCHANGED <<flags, pages, cov, resets, visits, visit, pass, lost>>

\* AnalyticsStore.verify.
Intact ==
  /\ study.pc = "complete" /\ study.runs \subseteq Present
  /\ CorpusFingerprint(study.runs, study.plan.grade) = study.digests

-----------------------------------------------------------------------------
Collect ==
  \/ \E r \in Runs : ReadPrior(r) \/ ResetRun(r)
  \/ UpsertRun \/ LandPage \/ CompleteRun \/ LeaveRun \/ Crash

Dedupe == LoadFingerprints \/ GroupDuplicates

Derive ==
  \/ \E plan \in Plans : SelectRuns(plan)
  \/ \E r \in Runs : ReadRun(r)
  \/ Begin \/ Finish

Next == Collect \/ Dedupe \/ Derive

Spec == Init /\ [][Next]_vars

-----------------------------------------------------------------------------
(***************************************************************************)
(* Properties.                                                             *)
(***************************************************************************)
\* What a derivation may have read of a run, and what it may hold of it as its digest.
Readings == [pages: [Streams -> 0 .. Pages], cov: [Streams -> Coverage \cup {None}]]
Digests == Readings \X ([Streams -> Seq(0 .. MaxResets)] \cup {None})

\* Every variable holds a value the code could store in it.
TypeOK ==
  /\ flags \in [Runs -> Flags \cup {None}]
  /\ pages \in [Runs -> [Streams -> Seq(0 .. MaxResets)]]
  /\ \A r \in Runs, s \in Streams : Len(pages[r][s]) <= Pages
  /\ cov \in [Runs -> [Streams -> Coverage \cup {None}]]
  /\ resets \in 0 .. MaxResets /\ visits \in 0 .. MaxVisits /\ lost \in BOOLEAN
  /\ visit \in [run: Runs, stored: BOOLEAN, prior: Flags] \cup {None}
  /\ pass \in (SUBSET Runs) \cup {None}
  /\ study \in [pc: {"none", "selected", "begun", "complete"},
                plan: Plans \cup {None}, runs: SUBSET Runs,
                digests: {study.digests}, read: {study.read}, since: 0 .. MaxResets]
  /\ study.pc # "none" => study.plan \in Plans
  /\ LET covered == IF study.pc \in {"begun", "complete"} THEN study.runs ELSE {} IN
       /\ study.digests \in [covered -> Digests]
       /\ study.read \in [DOMAIN study.read -> Readings] /\ DOMAIN study.read \subseteq covered

Classified == {r \in Present : flags[r].canon # None}

(***************************************************************************)
(* A statistic counts a real run once: the runs of a strict selection are  *)
(* no two uploads of one run, even of runs collected again since, unless a *)
(* collector wrote between the two halves of dedupe, or dedupe between     *)
(* those of a collector.                                                   *)
(***************************************************************************)
CountedOnce ==
  ~lost => \A r, q \in Admitted("strict") : ~Compare(r, q)

(***************************************************************************)
(* And it counts it: a run left out as a duplicate has one in its place,   *)
(* of its group and admitted.                                              *)
(***************************************************************************)
Represented ==
  ~lost => \A r \in Classified \ Admitted("strict") :
             \E q \in Admitted("strict") : flags[q].group = flags[r].group

(***************************************************************************)
(* validate's "current": a NULL means that no pass has looked at the run,  *)
(* so where there is none, no two uploads of one run are apart.            *)
(***************************************************************************)
CurrentMeansExamined ==
  ~lost /\ Classified = Present =>
    \A r, q \in Present : Compare(r, q) => flags[r].group = flags[q].group

(***************************************************************************)
(* verify tells whether an analysis still describes the corpus: a complete *)
(* derivation that is intact read of every run what is there now, whatever *)
(* was collected while it ran or since.  A run refreshed in the meantime   *)
(* may have come back to what it was, but at the deep grade only to being  *)
(* empty: page_ids do not come back.                                       *)
(***************************************************************************)
VerifySound ==
  Intact => \A r \in study.runs :
    \/ study.read[r] = Evidence(r)
    \/ study.since # resets /\ study.plan.grade = "page"
    \/ study.since # resets /\ \A s \in Streams : pages[r][s] = <<>>

(***************************************************************************)
(* require_streams: a zero is a real zero.  What a derivation reads of a   *)
(* stream it requires is the whole stream, in a corpus never refreshed.    *)
(***************************************************************************)
ZeroIsReal ==
  resets = 0 => \A r \in DOMAIN study.read : \A s \in study.plan.needs :
                  study.read[r].pages[s] = Pages

(***************************************************************************)
(* What dedupe.py says and the code does not do: two fights in one report  *)
(* are two runs, never two uploads of one.                                 *)
(***************************************************************************)
FightsKeptApart ==
  \A r, q \in Classified :
    r # q /\ Upload[r].report = Upload[q].report /\ flags[r].group # None
      => flags[r].group # flags[q].group
=============================================================================
