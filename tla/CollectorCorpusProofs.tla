------------------------ MODULE CollectorCorpusProofs ------------------------
(***************************************************************************)
(* What the corpus says about itself: the identity scheme it was written   *)
(* under, the coverage of its streams, the status of its runs and the      *)
(* counters of its jobs.                                                   *)
(***************************************************************************)
EXTENDS CollectorProofs

\* _record_coverage writes one coverage row and nothing else.
LEMMA RecordCoverageKeeps ==
  ASSUME NEW db \in Database, NEW k \in Keys
  PROVE  /\ RecordCoverage(db, k).identity = db.identity
         /\ RecordCoverage(db, k).roster = db.roster
         /\ RecordCoverage(db, k).status = db.status
         /\ RecordCoverage(db, k).cov = [db.cov EXCEPT ![k] = CoverageOf(db, k, StreamError)]
BY DEF Database, RecordCoverage

\* The stream the loop is at is one of the run's streams.
LEMMA StreamKey ==
  ASSUME IInv, AtStream PROVE Run \in Runs /\ Key \in Keys /\ at.stream \in 1 .. Len(Requests(Run))
<1>1. Run \in Runs
  BY PositionsInside DEF IInv, AtStream, InReport
<1>2. at.stream \in 1 .. Len(Requests(Run))
  BY <1>1, RequestsType DEF IInv, AtStream, TypeOK, Position
<1> QED BY <1>1, <1>2, RequestsType DEF Key, Keys, Stream

(***************************************************************************)
(* One identity scheme.                                                    *)
(***************************************************************************)
Claimed(db) == /\ db.identity = disk.identity
               /\ \A r \in Runs : db.roster[r] \in {None, disk.identity}

IdentityInv ==
  /\ Claimed(disk) /\ Claimed(conn)
  /\ pc \notin {"idle", "refresh"} => scheme = disk.identity

\* A step that leaves the claim and the rosters of both views as they were in
\* one of the two, and starts no process past the check.
ClaimOf(db) ==
  \/ db.identity = disk.identity /\ db.roster = disk.roster
  \/ db.identity = conn.identity /\ db.roster = conn.roster

\* A step that takes claim and rosters from one of the two views keeps the claim.
LEMMA IdentityKept ==
  ASSUME IdentityInv, ClaimOf(disk'), ClaimOf(conn'),
         pc' \in {"idle", "refresh"} \/ (scheme' = scheme /\ pc \notin {"idle", "refresh"})
  PROVE  IdentityInv'
BY DEF IdentityInv, Claimed, ClaimOf

\* No step writes a roster under a scheme that did not claim the corpus.
LEMMA IdentityStep == IInv /\ IdentityInv /\ [Next]_vars => IdentityInv'
<1> SUFFICES ASSUME IInv, IdentityInv, [Next]_vars PROVE IdentityInv'
  OBVIOUS
<1>0. disk \in Database /\ conn \in Database
  BY DEF IInv, TypeOK
<1>1. CASE UNCHANGED vars
  BY <1>1 DEF vars, IdentityInv, Claimed
<1>2. CASE AssertIdentityScheme
  BY <1>0, <1>2 DEF AssertIdentityScheme, Commit, EndProcess, IdentityInv, Claimed, Database
<1>3. CASE UpsertRun
  BY <1>0, <1>3 DEF UpsertRun, Commit, IdentityInv, Claimed, Database
<1>4. ASSUME NEW r \in Runs, ResetRunEvents(r) PROVE IdentityInv'
  <2>1. /\ disk'.identity = conn.identity /\ disk'.roster = conn.roster
        /\ conn' = disk' /\ pc' = "refresh"
    BY <1>0, <1>4 DEF ResetRunEvents, Commit, Database
  <2> QED BY <2>1, IdentityKept DEF ClaimOf
<1>5. CASE StartJob \/ FinishJob
  BY <1>0, <1>5, IdentityKept DEF ClaimOf, StartJob, FinishJob, Commit, EndProcess, Database
<1>6. CASE ReadBudget \/ OpenReport \/ NoMatchingRuns \/ EndReport \/ EndOfReports
  BY <1>6, IdentityKept DEF ClaimOf, ReadBudget, OpenReport, AtReport, NoMatchingRuns, SkipReport,
                            EndReport, EndOfReports, Commit
<1>7. CASE CollectPulls \/ CompleteRun \/ ResumeStream
  BY <1>0, <1>7, IdentityKept DEF ClaimOf, CollectPulls, CompleteRun, ResumeStream, AtStream, Commit,
                                  Database
<1>8. CASE SkipStream
  <2>1. /\ RecordCoverage(conn, Key).identity = conn.identity
        /\ RecordCoverage(conn, Key).roster = conn.roster
    BY <1>0, <1>8, StreamKey, RecordCoverageKeeps DEF SkipStream
  <2> QED BY <1>8, <2>1, IdentityKept DEF ClaimOf, SkipStream, AtStream, Pending
<1>9. CASE InsertPage \/ InsertEvents
  BY <1>0, <1>9, IdentityKept DEF ClaimOf, InsertPage, InsertEvents, Pending, Database
<1>10. ASSUME InStream, Key \in Keys PROVE
         \A db \in {disk, conn} :
           /\ RecordCoverage(db, Key).identity = db.identity
           /\ RecordCoverage(db, Key).roster = db.roster
  BY <1>0, <1>10, RecordCoverageKeeps
<1>11. ASSUME InStream PROVE Key \in Keys
  BY <1>11, PositionsInside DEF IInv, InReport
<1>12. CASE CommitPage
  BY <1>10, <1>11, <1>12, IdentityKept DEF ClaimOf, CommitPage, Unwind, InStream
<1>13. CASE PageCeiling \/ PageRejected \/ FatalError \/ DatabaseFails \/ Interrupt
  <2>1. ClaimOf(conn')
    BY <1>10, <1>11, <1>13
       DEF ClaimOf, PageCeiling, PageRejected, FatalError, DatabaseFails, Interrupt, Unwind
  <2>2. /\ disk' = disk /\ scheme' = scheme /\ pc' = "closing"
        /\ pc \notin {"idle", "refresh"}
    BY <1>13 DEF PageCeiling, PageRejected, FatalError, DatabaseFails, Interrupt, Unwind,
                 Requesting, AtReport, InStream, InTransaction
  <2> QED BY <2>1, <2>2, IdentityKept DEF ClaimOf
<1>14. CASE RecordApiCost
  BY <1>14, IdentityKept DEF ClaimOf, RecordApiCost, Commit
<1>15. ASSUME NEW refresh \in BOOLEAN, NEW id \in Schemes, OpenDatabase(refresh, id)
       PROVE IdentityInv'
  <2>1. disk' = disk /\ conn' = disk /\ pc' = "refresh"
    BY <1>15 DEF OpenDatabase
  <2> QED BY <2>1, IdentityKept DEF ClaimOf
<1>16. CASE ReportUnavailable \/ ReportRefused
  BY <1>16, IdentityKept DEF ClaimOf, ReportUnavailable, ReportRefused, SkipReport, AtReport, Commit
<1>17. CASE StreamRefused
  <2> DEFINE covered == RecordCoverage(conn, Key)
  <2>1. /\ covered.identity = conn.identity /\ covered.roster = conn.roster
        /\ covered \in Database
    BY <1>0, <1>10, <1>11, <1>17, RecordCoverageType DEF StreamRefused, InStream
  <2>2. disk' = [covered EXCEPT !.status[Run] = "collection-failed"] /\ conn' = disk'
    BY <1>17 DEF StreamRefused, Commit
  <2>3. disk'.identity = covered.identity /\ disk'.roster = covered.roster
    <3> HIDE DEF covered
    <3> QED BY <2>1, <2>2 DEF Database
  <2>4. ClaimOf(disk') /\ ClaimOf(conn')
    BY <2>1, <2>2, <2>3 DEF ClaimOf
  <2>5. pc' = "run" /\ scheme' = scheme /\ pc = "fetch"
    BY <1>17 DEF StreamRefused
  <2> QED BY <2>4, <2>5, IdentityKept
<1>18. CASE QuotaExhausted \/ Crash
  <2>1. disk' \in {disk, conn} /\ conn' \in {disk, conn} /\ pc' = "idle"
    BY <1>18 DEF QuotaExhausted, Crash, Commit, EndProcess
  <2> QED BY <2>1, IdentityKept DEF ClaimOf
<1>19. CASE Dedupe
  <2>1. /\ disk'.identity = disk.identity /\ disk'.roster = disk.roster
        /\ conn' = disk' /\ pc' = "idle"
    BY <1>0, <1>19 DEF Dedupe, Commit, Database
  <2> QED BY <2>1, IdentityKept DEF ClaimOf
<1> QED BY <1>1, <1>2, <1>3, <1>4, <1>5, <1>6, <1>7, <1>8, <1>9, <1>12, <1>13, <1>14,
           <1>15, <1>16, <1>17, <1>18, <1>19 DEF Next, Work, Environment

\* Every roster on disk was written under the scheme that claimed the corpus.
THEOREM OneIdentity == Spec => []OneIdentityScheme
<1>1. Init => IdentityInv
  <2> SUFFICES ASSUME Init PROVE IdentityInv
    OBVIOUS
  <2>1. conn = disk /\ disk.roster = [r \in Runs |-> None] /\ pc = "idle"
    BY DEF Init
  <2> QED BY <2>1 DEF IdentityInv, Claimed
<1>2. IdentityInv => OneIdentityScheme
  BY DEF IdentityInv, Claimed, OneIdentityScheme
<1> QED BY <1>1, <1>2, IdentityStep, Invariance, PTL DEF Spec

(***************************************************************************)
(* Coverage and status, without --refresh (the reset leaves both behind,   *)
(* see OkMeansExhaustedAtRest).  A coverage row that says "ok" speaks of   *)
(* rows on disk, whether it is committed or still pending; so does the     *)
(* status of a run that is complete.                                       *)
(***************************************************************************)
AtEnd(rows) == rows # {} /\ LastPage(rows).next = None

Truthful(db, pages) == \A k \in Keys : db.cov[k] = "ok" => AtEnd(pages[k])

Covered(db, r, n) == \A i \in 1 .. n : db.cov[<<r, Requests(r)[i]>>] = "ok"

Accounted(db) ==
  \A r \in Runs : db.status[r] = "complete" => Covered(db, r, Len(Requests(r)))

\* The streams of the open run that the loop has passed are covered.
Passed ==
  pc = "stream" \/ InStream =>
    /\ at.stream - 1 <= Len(Requests(Run))
    /\ Covered(conn, Run, at.stream - 1)

CoverageInv ==
  /\ todo = {}
  /\ Truthful(disk, disk.pages) /\ Truthful(conn, disk.pages)
  /\ Accounted(disk) /\ Accounted(conn)
  /\ Passed

\* Every stream of the profile is a stream of every run.
LEMMA RequestKey ==
  ASSUME NEW r \in Runs, NEW i \in 1 .. Len(Requests(r))
  PROVE  <<r, Requests(r)[i]>> \in Keys
BY RequestsType DEF Keys

\* Recording coverage over the rows on disk tells the truth and takes no "ok" back.
LEMMA CoverageRecorded ==
  ASSUME NEW db \in Database, NEW k \in Keys, Truthful(db, db.pages)
  PROVE  LET after == RecordCoverage(db, k)
         IN  /\ Truthful(after, db.pages)
             /\ \A j \in Keys : db.cov[j] = "ok" => after.cov[j] = "ok"
             /\ AtEnd(db.pages[k]) => after.cov[k] = "ok"
             /\ Accounted(db) => Accounted(after)
<1> DEFINE after == RecordCoverage(db, k)
<1>1. /\ after.cov[k] = "ok" <=> AtEnd(db.pages[k])
      /\ \A j \in Keys : j # k => after.cov[j] = db.cov[j]
      /\ after.status = db.status
  <2>1. /\ after.cov = [db.cov EXCEPT ![k] = CoverageOf(db, k, StreamError)]
        /\ after.status = db.status
    BY RecordCoverageKeeps
  <2>2. db.cov \in [Keys -> CoverageStatus]
    BY DEF Database
  <2>3. CoverageOf(db, k, StreamError) = "ok" <=> AtEnd(db.pages[k])
    BY DEF CoverageOf, StreamError, Exhausted, AtEnd
  <2> HIDE DEF after
  <2> QED BY <2>1, <2>2, <2>3
<1> HIDE DEF after
<1>2. Truthful(after, db.pages)
  BY <1>1 DEF Truthful
<1>3. \A j \in Keys : db.cov[j] = "ok" => after.cov[j] = "ok"
  BY <1>1 DEF Truthful
<1>4. Accounted(db) => Accounted(after)
  BY <1>1, <1>3, RequestKey DEF Accounted, Covered
<1> QED BY <1>1, <1>2, <1>3, <1>4 DEF after

\* A step that changes no stored row and lets each view take its coverage and
\* its statuses from one of the two, outside the stream loop.
ReportOf(db) ==
  \/ db.cov = disk.cov /\ db.status = disk.status
  \/ db.cov = conn.cov /\ db.status = conn.status

\* Such a step keeps coverage and status truthful.
LEMMA CoverageMoved ==
  ASSUME CoverageInv, ReportOf(disk'), ReportOf(conn'), disk'.pages = disk.pages,
         todo' = {}, pc' # "stream", ~InStream'
  PROVE  CoverageInv'
BY DEF CoverageInv, ReportOf, Truthful, Accounted, Covered, Passed

\* Unwinding from an exception records the coverage of the open stream.
LEMMA CoverageUnwound ==
  ASSUME IInv, CoverageInv, NEW db \in {disk, conn}, db.pages = disk.pages,
         NEW why, Unwind(db, why), disk' = disk
  PROVE  CoverageInv'
<1>1. db \in Database /\ Truthful(db, db.pages) /\ Accounted(db)
  BY DEF IInv, TypeOK, CoverageInv
<1>2. Truthful(conn', disk.pages) /\ Accounted(conn')
  <2>1. CASE InStream
    <3>1. Key \in Keys
      BY <2>1, PositionsInside DEF IInv, InReport
    <3>2. conn' = RecordCoverage(db, Key)
      BY <2>1 DEF Unwind
    <3> QED BY <1>1, <3>1, <3>2, CoverageRecorded
  <2>2. CASE ~InStream
    BY <1>1, <2>2 DEF Unwind
  <2> QED BY <2>1, <2>2
<1>3. todo' = {} /\ pc' = "closing"
  BY DEF Unwind, CoverageInv
<1> QED BY <1>2, <1>3 DEF CoverageInv, Passed, InStream

\* The page that lands belongs to a stream no coverage row calls "ok".
LEMMA CoverageLanded ==
  ASSUME IInv, CoverageInv, CommitPage
  PROVE  CoverageInv'
<1> DEFINE new == RowAt(Key, cur.idx, cur.cursor)
<1>1. /\ Key \in Keys
      /\ Follows(disk.pages[Key], cur.idx, cur.cursor)
      /\ disk'.pages = [disk.pages EXCEPT ![Key] = @ \cup {new}]
      /\ LastPage(disk'.pages[Key]) = new
  BY CommitLands DEF Extends, IInv, TypeOK, Database
<1>2. disk' = conn /\ conn.pages = disk'.pages /\ disk \in Database /\ conn \in Database
  BY DEF CommitPage, IInv, TypeOK
<1>3. ~AtEnd(disk.pages[Key])
  <2>1. disk.pages[Key] \in SUBSET PageRow /\ Chain(disk.pages[Key], Key)
    BY <1>1 DEF IInv, TypeOK, Database, DiskIsSound
  <2> QED BY <1>1, <2>1, LastOfChain DEF Follows, AtEnd, IsLast
<1>4. Truthful(conn, conn.pages)
  <2>1. \A k \in Keys : k # Key => conn.pages[k] = disk.pages[k]
    BY <1>1, <1>2 DEF Database
  <2> QED BY <1>3, <2>1 DEF CoverageInv, Truthful
<1>5. Accounted(conn) /\ todo = {}
  BY DEF CoverageInv
<1> DEFINE after == RecordCoverage(conn, Key)
<1>6. /\ Truthful(after, conn.pages) /\ Accounted(after)
      /\ \A j \in Keys : conn.cov[j] = "ok" => after.cov[j] = "ok"
      /\ AtEnd(conn.pages[Key]) => after.cov[Key] = "ok"
  BY <1>1, <1>2, <1>4, <1>5, CoverageRecorded
<1>7. pc = "commit" /\ InStream
  BY DEF CommitPage, InStream
<1>8. CASE Stalled /\ Unwind(conn, "error")
  <2>1. conn' = after /\ pc' = "closing" /\ todo' = {}
    BY <1>5, <1>7, <1>8 DEF Unwind
  <2> QED BY <1>2, <1>4, <1>5, <1>6, <2>1 DEF CoverageInv, Passed, InStream
<1>9. CASE /\ NextCursor = None /\ conn' = after
           /\ pc' = "stream" /\ at' = NextStream /\ UNCHANGED todo
  <2>1. after.cov[Key] = "ok"
    <3>1. new.next = None /\ new \in conn.pages[Key]
      BY <1>1, <1>2, <1>9 DEF RowAt, NextCursor, IInv, TypeOK, Database
    <3> QED BY <1>1, <1>2, <1>6, <3>1 DEF AtEnd
  <2>2. /\ Run' = Run /\ at'.stream = at.stream + 1
        /\ Run \in Runs /\ at.stream \in 1 .. Len(Requests(Run))
    <3>1. Run \in Runs
      BY <1>7, PositionsInside DEF IInv, InReport, InStream
    <3>2. at \in Position
      BY DEF IInv, TypeOK
    <3>3. at.stream \in 1 .. Len(Requests(Run))
      BY <1>7, <3>1, <3>2, RequestsType DEF IInv, Located, Position
    <3>4. at'.report = at.report /\ at'.fight = at.fight /\ at'.stream = at.stream + 1
      BY <1>9, <3>2 DEF NextStream, Position
    <3> QED BY <3>1, <3>3, <3>4 DEF Run, Report
  <2>3. Covered(after, Run, at.stream)
    <3> SUFFICES ASSUME NEW i \in 1 .. at.stream
                 PROVE  after.cov[<<Run, Requests(Run)[i]>>] = "ok"
      BY DEF Covered
    <3>1. CASE i = at.stream
      BY <2>1, <3>1 DEF Key, Stream
    <3>2. CASE i # at.stream
      <4>1. i \in 1 .. at.stream - 1 /\ i \in 1 .. Len(Requests(Run))
        BY <2>2, <3>2, RequestsType
      <4>2. conn.cov[<<Run, Requests(Run)[i]>>] = "ok"
        BY <1>7, <4>1 DEF CoverageInv, Passed, Covered
      <4> QED BY <1>6, <2>2, <4>1, <4>2, RequestKey
    <3> QED BY <3>1, <3>2
  <2>4. Passed'
    BY <1>9, <2>2, <2>3, RequestsType DEF Passed, Covered
  <2> QED BY <1>2, <1>4, <1>5, <1>6, <1>9, <2>4 DEF CoverageInv
<1>10. CASE conn' = conn /\ pc' = "fetch" /\ UNCHANGED <<todo, at>>
  <2>1. Passed'
    BY <1>7, <1>10 DEF CoverageInv, Passed, Covered, Run, Report, InStream
  <2> QED BY <1>2, <1>4, <1>5, <1>10, <2>1 DEF CoverageInv
<1> QED BY <1>8, <1>9, <1>10 DEF CommitPage

\* Without --refresh every step keeps coverage and status truthful.
LEMMA CoverageStep ==
  ASSUME MayRefresh = FALSE
  PROVE  IInv /\ CoverageInv /\ [Next]_vars => CoverageInv'
<1> SUFFICES ASSUME IInv, CoverageInv, [Next]_vars PROVE CoverageInv'
  OBVIOUS
<1>0. /\ disk \in Database /\ conn \in Database /\ at \in Position
      /\ todo = {}
      /\ ~InTransaction => conn.pages = disk.pages
  BY DEF IInv, TypeOK, ConnIsSound, SameRows, CoverageInv
<1>1. CASE UNCHANGED vars
  BY <1>1 DEF vars, position, CoverageInv, Passed, Covered, Accounted, Truthful, InStream, Run,
              Report
<1>2. CASE AssertIdentityScheme \/ StartJob \/ ReadBudget
  <2>1. /\ ReportOf(disk') /\ ReportOf(conn')
        /\ disk'.pages \in {disk.pages, conn.pages}
    BY <1>0, <1>2 DEF AssertIdentityScheme, StartJob, ReadBudget, Commit, ReportOf, Database
  <2>2. pc' \in {"idle", "start", "budget", "report"} /\ todo' = {} /\ ~InTransaction
    BY <1>0, <1>2 DEF AssertIdentityScheme, StartJob, ReadBudget, EndProcess, InTransaction
  <2> QED BY <1>0, <2>1, <2>2, CoverageMoved DEF InStream
<1>3. CASE \/ OpenReport \/ NoMatchingRuns \/ EndReport \/ EndOfReports
           \/ ReportUnavailable \/ ReportRefused \/ RecordApiCost
  <2>1. disk' \in {disk, conn} /\ conn' = conn /\ todo' = todo
    BY <1>3 DEF OpenReport, NoMatchingRuns, SkipReport, EndReport, EndOfReports,
                ReportUnavailable, ReportRefused, RecordApiCost, Commit
  <2>2. pc' \in {"run", "report", "closing", "finish"} /\ ~InTransaction
    BY <1>3 DEF OpenReport, AtReport, NoMatchingRuns, SkipReport, EndReport, EndOfReports,
                ReportUnavailable, ReportRefused, RecordApiCost, InTransaction
  <2> QED BY <1>0, <2>1, <2>2, CoverageMoved DEF ReportOf, InStream
<1>4. CASE UpsertRun
  <2>1. /\ conn' = disk' /\ disk'.cov = conn.cov /\ disk'.pages = conn.pages
        /\ disk'.status = [conn.status EXCEPT ![Run] = "metadata-only"]
    BY <1>0, <1>4 DEF UpsertRun, Commit, Database
  <2>2. Accounted(disk')
    BY <1>0, <2>1 DEF CoverageInv, Accounted, Covered, Database
  <2>3. pc = "run" /\ pc' = "pulls" /\ todo' = {}
    BY <1>0, <1>4 DEF UpsertRun
  <2> QED BY <1>0, <2>1, <2>2, <2>3
          DEF CoverageInv, Truthful, Passed, InStream, InTransaction
<1>5. CASE CollectPulls
  <2>1. /\ disk' = conn /\ conn'.cov = conn.cov
        /\ \/ conn'.status = conn.status
           \/ conn'.status = [conn.status EXCEPT ![Run] = "archived-events-unavailable"]
    BY <1>0, <1>5 DEF CollectPulls, Database
  <2>2. Accounted(disk') /\ Accounted(conn')
    BY <1>0, <2>1 DEF CoverageInv, Accounted, Covered, Database
  <2>3. /\ pc = "pulls" /\ todo' = {} /\ ~InStream'
        /\ pc' = "stream" => at'.stream = 1 /\ at'.report = at.report /\ at'.fight = at.fight
    BY <1>0, <1>5 DEF CollectPulls, Position, InStream
  <2>4. Passed'
    <3> SUFFICES ASSUME pc' = "stream" PROVE Passed'
      BY <2>3 DEF Passed
    <3>1. Run' = Run /\ Run \in Runs
      BY <2>3, PositionsInside DEF Run, Report, IInv, InReport
    <3> QED BY <2>3, <3>1, RequestsType DEF Passed, Covered
  <2> QED BY <1>0, <2>1, <2>2, <2>3, <2>4 DEF CoverageInv, Truthful, InTransaction
<1>6. CASE SkipStream
  <2>1. /\ Run \in Runs /\ Key \in Keys /\ at.stream \in 1 .. Len(Requests(Run))
    BY <1>6, StreamKey DEF SkipStream
  <2> DEFINE after == RecordCoverage(conn, Key)
  <2>2. /\ disk' = disk /\ conn' = after /\ pc = "stream" /\ pc' = "stream" /\ todo' = {}
        /\ conn.pages = disk.pages /\ AtEnd(conn.pages[Key])
    BY <1>0, <1>6 DEF SkipStream, AtStream, Pending, InTransaction, Exhausted, AtEnd
  <2>3. /\ Truthful(after, disk.pages) /\ Accounted(after) /\ after.cov[Key] = "ok"
        /\ \A j \in Keys : conn.cov[j] = "ok" => after.cov[j] = "ok"
    BY <1>0, <2>1, <2>2, CoverageRecorded DEF CoverageInv
  <2>4. Run' = Run /\ at'.stream = at.stream + 1
    BY <1>0, <1>6, PositionType DEF SkipStream, NextStream, Position, Run, Report
  <2>5. Covered(after, Run, at.stream)
    <3> SUFFICES ASSUME NEW i \in 1 .. at.stream
                 PROVE  after.cov[<<Run, Requests(Run)[i]>>] = "ok"
      BY DEF Covered
    <3>1. CASE i = at.stream
      BY <2>3, <3>1 DEF Key, Stream
    <3>2. CASE i # at.stream
      <4>1. i \in 1 .. at.stream - 1 /\ i \in 1 .. Len(Requests(Run))
        BY <2>1, <3>2, RequestsType
      <4>2. conn.cov[<<Run, Requests(Run)[i]>>] = "ok"
        BY <2>2, <4>1 DEF CoverageInv, Passed, Covered
      <4> QED BY <2>1, <2>3, <4>1, <4>2, RequestKey
    <3> QED BY <3>1, <3>2
  <2>6. Passed'
    BY <2>1, <2>2, <2>4, <2>5, RequestsType DEF Passed, Covered
  <2> QED BY <2>2, <2>3, <2>6 DEF CoverageInv
<1>7. CASE ResumeStream
  <2>1. Passed'
    BY <1>7 DEF ResumeStream, AtStream, CoverageInv, Passed, Covered, Run, Report
  <2> QED BY <1>0, <1>7, <2>1 DEF ResumeStream, CoverageInv, Truthful, Accounted, Covered
<1>8. CASE CompleteRun
  <2>1. /\ conn' = disk' /\ disk'.cov = conn.cov /\ disk'.pages = conn.pages
        /\ disk'.status = [conn.status EXCEPT ![Run] = "complete"]
    BY <1>0, <1>8 DEF CompleteRun, Commit, Database
  <2>2. Run \in Runs /\ Len(Requests(Run)) \in Nat
    BY <1>8, PositionsInside, RequestsType DEF CompleteRun, IInv, InReport
  <2>3. Covered(conn, Run, Len(Requests(Run)))
    <3>1. at.stream - 1 = Len(Requests(Run))
      BY <1>0, <1>8, <2>2 DEF CompleteRun, CoverageInv, Passed, Position
    <3> QED BY <1>8, <3>1 DEF CompleteRun, CoverageInv, Passed
  <2>4. Accounted(disk')
    BY <1>0, <2>1, <2>2, <2>3 DEF CoverageInv, Accounted, Covered, Database
  <2>5. pc = "stream" /\ pc' = "run" /\ todo' = {}
    BY <1>0, <1>8 DEF CompleteRun
  <2> QED BY <1>0, <2>1, <2>4, <2>5
          DEF CoverageInv, Truthful, Passed, InStream, InTransaction
<1>9. CASE InsertPage \/ InsertEvents
  <2>1. /\ disk' = disk /\ conn'.cov = conn.cov /\ conn'.status = conn.status
        /\ InStream /\ at' = at /\ todo' = {}
    BY <1>0, <1>9 DEF InsertPage, InsertEvents, Pending, position, InStream, Database
  <2> QED BY <2>1 DEF CoverageInv, Truthful, Accounted, Covered, Passed, Run, Report
<1>10. CASE CommitPage
  BY <1>10, CoverageLanded
<1>11. CASE PageCeiling \/ PageRejected \/ FatalError \/ DatabaseFails \/ Interrupt
  <2>1. disk' = disk /\ \E db \in {disk, conn}, why \in Exit :
          db.pages = disk.pages /\ Unwind(db, why)
    BY <1>0, <1>11
       DEF PageCeiling, PageRejected, FatalError, DatabaseFails, Interrupt, Requesting,
           AtReport, InTransaction, Exit
  <2> QED BY <2>1, CoverageUnwound
<1>12. CASE FinishJob
  <2>1. ReportOf(disk') /\ conn' = disk' /\ disk'.pages = conn.pages
    BY <1>0, <1>12 DEF FinishJob, Commit, ReportOf, Database
  <2>2. pc = "finish" /\ pc' = "idle" /\ todo' = {}
    BY <1>12 DEF FinishJob, EndProcess
  <2> QED BY <1>0, <2>1, <2>2, CoverageMoved DEF InStream, InTransaction
<1>13. ASSUME NEW refresh \in BOOLEAN, NEW id \in Schemes, OpenDatabase(refresh, id)
       PROVE CoverageInv'
  <2>1. disk' = disk /\ conn' = disk /\ pc' = "refresh" /\ todo' = {}
    BY <1>13 DEF OpenDatabase
  <2> QED BY <2>1, CoverageMoved DEF ReportOf, InStream
<1>14. CASE StreamRefused
  <2>1. Key \in Keys
    BY <1>14, PositionsInside DEF StreamRefused, IInv, InReport, InStream
  <2> DEFINE after == RecordCoverage(conn, Key)
  <2>2. after \in Database /\ Truthful(after, conn.pages) /\ Accounted(after)
        /\ after.pages = conn.pages
    BY <1>0, <1>14, <2>1, CoverageRecorded, RecordCoverageType
       DEF CoverageInv, StreamRefused, InTransaction
  <2> HIDE DEF after
  <2>3. /\ conn' = disk' /\ disk'.cov = after.cov /\ disk'.pages = after.pages
        /\ disk'.status = [after.status EXCEPT ![Run] = "collection-failed"]
    BY <1>14, <2>2 DEF StreamRefused, Commit, Database, after
  <2>4. Accounted(disk')
    BY <2>2, <2>3 DEF Accounted, Covered, Database
  <2>5. pc' = "run" /\ todo' = {}
    BY <1>0, <1>14 DEF StreamRefused
  <2> QED BY <2>2, <2>3, <2>4, <2>5 DEF CoverageInv, Truthful, Passed, InStream
<1>15. CASE QuotaExhausted \/ Crash
  <2>1. /\ disk' \in {disk, conn} /\ conn' = disk' /\ pc' = "idle" /\ todo' = {}
        /\ disk'.pages = disk.pages
    BY <1>0, <1>15 DEF QuotaExhausted, Crash, Commit, EndProcess, InTransaction
  <2> QED BY <2>1, CoverageMoved DEF ReportOf, InStream
<1>16. CASE Dedupe
  <2>1. ReportOf(disk') /\ conn' = disk' /\ disk'.pages = disk.pages
    BY <1>0, <1>16 DEF Dedupe, Commit, ReportOf, Database
  <2>2. pc' = "idle" /\ todo' = {}
    BY <1>0, <1>16 DEF Dedupe
  <2> QED BY <2>1, <2>2, CoverageMoved DEF InStream
<1>17. ~ \E r \in Runs : ResetRunEvents(r)
  BY <1>0 DEF ResetRunEvents
<1> QED BY <1>1, <1>2, <1>3, <1>4, <1>5, <1>6, <1>7, <1>8, <1>9, <1>10, <1>11, <1>12,
           <1>13, <1>14, <1>15, <1>16, <1>17 DEF Next, Work, Environment

\* Coverage and status are truthful at all times.
LEMMA CoverageInvariance ==
  ASSUME MayRefresh = FALSE PROVE Spec => []CoverageInv
<1>1. Init => CoverageInv
  <2> SUFFICES ASSUME Init PROVE CoverageInv
    OBVIOUS
  <2>1. /\ conn = disk /\ todo = {} /\ pc = "idle"
        /\ disk.cov = [k \in Keys |-> "never asked"]
        /\ disk.status = [r \in Runs |-> "absent"]
    BY DEF Init
  <2> QED BY <2>1 DEF CoverageInv, Truthful, Accounted, Passed, InStream
<1>2. IInv /\ CoverageInv /\ [Next]_vars => CoverageInv'
  BY CoverageStep
<1> QED BY <1>1, <1>2, Invariance, PTL DEF Spec

\* Without --refresh, a committed coverage row that says "ok" is the truth: the
\* stream is stored to its end (migrations/002).
THEOREM OkIsTrue ==
  ASSUME MayRefresh = FALSE PROVE Spec => []OkMeansExhausted
<1>1. CoverageInv => OkMeansExhausted
  BY DEF CoverageInv, Truthful, AtEnd, OkMeansExhausted, Exhausted
<1> QED BY <1>1, CoverageInvariance, PTL

\* Without --refresh, a run on record as complete has every stream of the profile
\* stored to its end and covered.
THEOREM CompleteIsTrue ==
  ASSUME MayRefresh = FALSE PROVE Spec => []CompleteMeansExhausted
<1>1. CoverageInv => CompleteMeansExhausted
  <2> SUFFICES ASSUME CoverageInv, NEW r \in Runs, disk.status[r] = "complete",
                      NEW i \in DOMAIN Requests(r)
               PROVE  /\ Exhausted(disk, <<r, Requests(r)[i]>>)
                      /\ disk.cov[<<r, Requests(r)[i]>>] = "ok"
    BY DEF CompleteMeansExhausted
  <2>1. i \in 1 .. Len(Requests(r))
    BY RequestsType
  <2> QED BY <2>1, RequestKey
          DEF CoverageInv, Accounted, Covered, Truthful, AtEnd, Exhausted
<1> QED BY <1>1, CoverageInvariance, PTL

(***************************************************************************)
(* The row of a job.                                                       *)
(***************************************************************************)
\* The reports attempted that are neither completed nor failed.
Uncounted == tally.attempted - (tally.completed + tally.failed)

\* One report is uncounted while it is open, and none between two; where the
\* finally clause is reached, why the loop ended says which it was.
AccountInv ==
  /\ pc \in {"idle", "refresh", "start", "budget"} => at.report = 1 /\ tally = NoTally
  /\ pc = "report" => /\ Uncounted = 0 /\ tally.attempted = at.report - 1
                      /\ at.report <= Len(Candidates) + 1
  /\ InReport => Uncounted = 1 /\ tally.attempted = at.report
  /\ pc \notin {"idle", "closing", "finish"} => exit = "running"
  /\ pc \in {"closing", "finish"} =>
       /\ Uncounted \in {0, 1} /\ exit \in {"complete", "interrupted", "error"}
       /\ exit = "complete" => Uncounted = 0 /\ tally.attempted = Len(Candidates)
  /\ JobRowAddsUp

\* A step within a report, or before the first, that does not touch the counters.
LEMMA AccountKept ==
  ASSUME AccountInv, tally'.attempted = tally.attempted, tally'.completed = tally.completed,
         tally'.failed = tally.failed, at'.report = at.report, exit' = exit,
         InReport, InReport'
  PROVE  AccountInv'
<1>1. pc' \notin {"idle", "refresh", "start", "budget", "report", "closing", "finish"}
      /\ pc \notin {"idle", "closing", "finish"}
  BY DEF InReport, InStream
<1>2. Uncounted' = 1 /\ tally'.attempted = at'.report /\ exit' = "running"
  BY <1>1 DEF AccountInv, Uncounted
<1> QED BY <1>1, <1>2 DEF AccountInv, JobRowAddsUp

\* An exception on its way to the finally clause, or the end of the loop.
LEMMA AccountUnwound ==
  ASSUME pc' = "closing", exit' \in {"complete", "interrupted", "error"}, Uncounted' \in {0, 1},
         exit' = "complete" => Uncounted' = 0 /\ tally'.attempted = Len(Candidates)
  PROVE  AccountInv'
BY DEF AccountInv, InReport, InStream, JobRowAddsUp

\* A process that ends before it writes its row, or starts.
LEMMA AccountEnded ==
  ASSUME pc' \in {"idle", "refresh"}, at' = AtStart, tally' = NoTally,
         pc' = "idle" => exit' \in {"quota", "crash", "identity"},
         pc' = "refresh" => exit' = "running"
  PROVE  AccountInv'
BY DEF AccountInv, InReport, InStream, JobRowAddsUp, AtStart

\* Every attempted report is counted when it is left, but for an exception's.
LEMMA AccountStep == IInv /\ AccountInv /\ [Next]_vars => AccountInv'
<1> SUFFICES ASSUME IInv, AccountInv, [Next]_vars PROVE AccountInv'
  OBVIOUS
<1>0. /\ disk \in Database /\ conn \in Database /\ tally \in Tally /\ at \in Position
      /\ Len(Candidates) \in Nat
      /\ InReport => at.report <= Len(Candidates)
  BY CollectorAssumption DEF IInv, TypeOK, Located
<1>1. tally.attempted \in Nat /\ tally.completed \in Nat /\ tally.failed \in Nat /\ at.report \in Nat \ {0}
  BY <1>0 DEF Tally, Position
<1>2. /\ pc \in {"idle", "refresh", "start", "budget"} => at.report = 1 /\ tally = NoTally
      /\ pc = "report" => /\ Uncounted = 0 /\ tally.attempted = at.report - 1
                          /\ at.report <= Len(Candidates) + 1
      /\ InReport => Uncounted = 1 /\ tally.attempted = at.report
      /\ pc \notin {"idle", "closing", "finish"} => exit = "running"
      /\ pc \in {"closing", "finish"} =>
           /\ Uncounted \in {0, 1} /\ exit \in {"complete", "interrupted", "error"}
           /\ exit = "complete" => Uncounted = 0 /\ tally.attempted = Len(Candidates)
  BY DEF AccountInv
<1>3. NoTally.attempted = 0 /\ NoTally.completed = 0 /\ NoTally.failed = 0
  BY DEF NoTally
<1> DEFINE Even == tally.attempted = tally.completed + tally.failed /\ at.report = tally.attempted + 1
<1>24. pc = "report" => Even
  BY <1>1, <1>2 DEF Uncounted
<1>4. CASE UNCHANGED vars
  BY <1>4 DEF vars, AccountInv, Uncounted, InReport, InStream, JobRowAddsUp
<1>5. CASE \E r \in Runs : ResetRunEvents(r)
  BY <1>2, <1>5 DEF ResetRunEvents, position, AccountInv, Uncounted, InReport, InStream, JobRowAddsUp
<1>6. CASE AssertIdentityScheme
  <2>1. CASE pc' = "start" /\ UNCHANGED <<position, exit>>
    BY <1>2, <1>6, <2>1
       DEF AssertIdentityScheme, position, AccountInv, Uncounted, InReport, InStream, JobRowAddsUp
  <2>2. CASE EndProcess("identity")
    BY <2>2, AccountEnded DEF EndProcess
  <2> QED BY <1>6, <2>1, <2>2 DEF AssertIdentityScheme
<1>7. CASE StartJob
  BY <1>2, <1>7 DEF StartJob, position, AccountInv, Uncounted, InReport, InStream, JobRowAddsUp
<1>8. CASE ReadBudget
  <2>1. pc' = "report" /\ at'.report = 1 /\ tally' = NoTally /\ exit' = "running"
    BY <1>2, <1>8 DEF ReadBudget, position
  <2>2. Uncounted' = 0
    BY <1>3, <2>1 DEF Uncounted
  <2> QED BY <1>0, <1>3, <2>1, <2>2 DEF AccountInv, InReport, InStream, JobRowAddsUp
<1>9. CASE OpenReport
  <2>1. /\ pc = "report" /\ pc' = "run" /\ at' = at /\ exit' = exit
        /\ tally'.attempted = tally.attempted + 1 /\ tally'.completed = tally.completed
        /\ tally'.failed = tally.failed
    BY <1>0, <1>9 DEF OpenReport, AtReport, Tally
  <2>2. Uncounted' = 1 /\ tally'.attempted = at'.report
    BY <1>1, <1>2, <2>1 DEF Uncounted
  <2> QED BY <1>2, <2>1, <2>2 DEF AccountInv, InReport, InStream, JobRowAddsUp
<1>10. ASSUME AtReport, SkipReport PROVE AccountInv'
  <2>1. /\ pc = "report" /\ pc' = "report" /\ at.report <= Len(Candidates)
        /\ at'.report = at.report + 1 /\ exit' = exit
        /\ tally'.attempted = tally.attempted + 1 /\ tally'.completed = tally.completed + 1
        /\ tally'.failed = tally.failed
    BY <1>0, <1>10 DEF SkipReport, AtReport, NextReport, Tally, Position
  <2>2. Even
    BY <1>24, <2>1
  <2>3. Uncounted' = 0 /\ tally'.attempted = at'.report - 1 /\ at'.report <= Len(Candidates) + 1
    <3>1. /\ tally'.attempted \in Nat /\ tally'.completed + tally'.failed = tally'.attempted
          /\ at'.report = tally'.attempted + 1
      BY <1>1, <2>1, <2>2
    <3> QED BY <1>0, <1>1, <2>1, <3>1 DEF Uncounted
  <2> QED BY <1>2, <2>1, <2>3 DEF AccountInv, InReport, InStream, JobRowAddsUp
<1>11. CASE NoMatchingRuns \/ ReportUnavailable
  BY <1>10, <1>11 DEF NoMatchingRuns, ReportUnavailable
<1>12. CASE EndReport
  <2>1. /\ pc = "run" /\ pc' = "report" /\ at'.report = at.report + 1 /\ exit' = exit
        /\ tally'.attempted = tally.attempted
        /\ tally'.completed + tally'.failed = tally.completed + tally.failed + 1
        /\ tally'.completed \in Nat /\ tally'.failed \in Nat
    <3>1. CASE tally.clean
      BY <1>0, <1>1, <1>12, <3>1 DEF EndReport, NextReport, Tally, Position
    <3>2. CASE ~tally.clean
      BY <1>0, <1>1, <1>12, <3>2 DEF EndReport, NextReport, Tally, Position
    <3> QED BY <3>1, <3>2
  <2>2. InReport /\ at.report <= Len(Candidates)
    BY <1>0, <2>1 DEF InReport
  <2>3. Uncounted' = 0 /\ tally'.attempted = at'.report - 1 /\ at'.report <= Len(Candidates) + 1
    BY <1>0, <1>1, <1>2, <2>1, <2>2, SMTT(30) DEF Uncounted
  <2> QED BY <1>2, <2>1, <2>3 DEF AccountInv, InReport, InStream, JobRowAddsUp
<1>13. CASE EndOfReports
  <2>1. /\ pc = "report" /\ pc' = "closing" /\ exit' = "complete" /\ tally' = tally
        /\ at.report > Len(Candidates)
    BY <1>13 DEF EndOfReports, position
  <2>2. Uncounted' = 0 /\ tally'.attempted = Len(Candidates)
    BY <1>0, <1>1, <1>2, <2>1 DEF Uncounted
  <2> QED BY <2>1, <2>2, AccountUnwound
<1>14. CASE UpsertRun \/ CollectPulls \/ SkipStream \/ ResumeStream \/ CompleteRun
            \/ InsertPage \/ InsertEvents \/ StreamRefused
  <2>1. /\ tally'.attempted = tally.attempted /\ tally'.completed = tally.completed
        /\ tally'.failed = tally.failed /\ at'.report = at.report /\ exit' = exit
    BY <1>0, <1>14 DEF UpsertRun, CollectPulls, SkipStream, ResumeStream, CompleteRun, InsertPage,
         InsertEvents, StreamRefused, position, NotClean, NextFight, NextStream, Tally, Position
  <2>2. InReport /\ InReport'
    BY <1>14 DEF UpsertRun, CollectPulls, SkipStream, ResumeStream, CompleteRun, InsertPage,
         InsertEvents, StreamRefused, AtStream, InReport, InStream
  <2> QED BY <2>1, <2>2, AccountKept
<1>15. CASE CommitPage
  <2>1. InReport /\ tally' = tally /\ at \in Position
    BY <1>0, <1>15 DEF CommitPage, InReport, InStream
  <2>2. CASE Unwind(conn, "error")
    BY <1>2, <2>1, <2>2, AccountUnwound DEF Unwind, Uncounted
  <2>3. CASE pc' \in {"stream", "fetch"} /\ at' \in {at, NextStream} /\ exit' = exit
    <3>1. at'.report = at.report
      BY <2>1, <2>3 DEF NextStream, Position
    <3>2. InReport'
      BY <2>3 DEF InReport, InStream
    <3> QED BY <2>1, <2>3, <3>1, <3>2, AccountKept
  <2> QED BY <1>15, <2>2, <2>3 DEF CommitPage
<1>16. CASE PageCeiling \/ PageRejected
  <2>1. InReport /\ tally' = tally /\ pc' = "closing" /\ exit' = "error"
    BY <1>16 DEF PageCeiling, PageRejected, Unwind, InReport, InStream
  <2> QED BY <1>2, <2>1, AccountUnwound DEF Uncounted
<1>17. CASE ReportRefused
  <2>1. /\ pc \in {"report", "pulls"} /\ pc' = "report" /\ at'.report = at.report + 1 /\ exit' = exit
        /\ at.report <= Len(Candidates)
        /\ tally'.completed = tally.completed /\ tally'.failed = tally.failed + 1
        /\ tally'.attempted = IF pc = "report" THEN tally.attempted + 1 ELSE tally.attempted
    <3>1. pc \in {"report", "pulls"} /\ at.report <= Len(Candidates)
      BY <1>0, <1>17 DEF ReportRefused, AtReport, InReport
    <3>2. at'.report = at.report + 1 /\ pc' = "report" /\ exit' = exit
      BY <1>0, <1>17 DEF ReportRefused, NextReport, Position
    <3>3. tally' = [Attempted EXCEPT !.failed = @ + 1]
      BY <1>17 DEF ReportRefused
    <3> QED BY <1>0, <3>1, <3>2, <3>3 DEF Attempted, Tally
  <2>2. Uncounted' = 0 /\ tally'.attempted = at'.report - 1 /\ at'.report <= Len(Candidates) + 1
    <3>1. CASE pc = "report"
      <4>1. Even
        BY <1>24, <3>1
      <4>2. /\ tally'.attempted \in Nat /\ tally'.completed + tally'.failed = tally'.attempted
            /\ at'.report = tally'.attempted + 1
        BY <1>1, <2>1, <3>1, <4>1
      <4> QED BY <1>0, <1>1, <2>1, <4>2, SMTT(30) DEF Uncounted
    <3>2. CASE pc = "pulls"
      <4>1. Uncounted = 1 /\ tally.attempted = at.report
        BY <1>2, <3>2 DEF InReport
      <4> QED BY <1>0, <1>1, <2>1, <3>2, <4>1, SMTT(30) DEF Uncounted
    <3> QED BY <2>1, <3>1, <3>2
  <2> QED BY <1>2, <2>1, <2>2 DEF AccountInv, InReport, InStream, JobRowAddsUp
<1>18. CASE FatalError \/ DatabaseFails \/ Interrupt
  <2>1. /\ AtReport \/ InReport
        /\ tally' = Attempted /\ pc' = "closing" /\ exit' \in {"error", "interrupted"}
    BY <1>18 DEF FatalError, DatabaseFails, Interrupt, Requesting, Unwind, InReport, InStream, InTransaction
  <2>2. Uncounted' = 1
    <3>1. CASE AtReport
      <4>1. /\ tally'.attempted = tally.attempted + 1 /\ tally'.completed = tally.completed
            /\ tally'.failed = tally.failed
        BY <1>0, <2>1, <3>1 DEF Attempted, AtReport, Tally
      <4>2. Even
        BY <1>24, <3>1 DEF AtReport
      <4>3. tally'.attempted - (tally'.completed + tally'.failed) = 1
        BY <1>1, <4>1, <4>2
      <4> QED BY <4>3 DEF Uncounted
    <3>2. CASE InReport
      <4>1. tally' = tally
        BY <2>1, <3>2 DEF Attempted, InReport, InStream
      <4> QED BY <1>2, <3>2, <4>1 DEF Uncounted
    <3> QED BY <2>1, <3>1, <3>2
  <2> QED BY <2>1, <2>2, AccountUnwound
<1>19. CASE \E refresh \in BOOLEAN, id \in Schemes : OpenDatabase(refresh, id)
  BY <1>2, <1>19 DEF OpenDatabase, position, AccountInv, Uncounted, InReport, InStream, JobRowAddsUp
<1>20. CASE QuotaExhausted \/ Crash
  BY <1>20, AccountEnded DEF QuotaExhausted, Crash, EndProcess
<1>21. CASE RecordApiCost
  BY <1>2, <1>21 DEF RecordApiCost, position, AccountInv, Uncounted, InReport, InStream, JobRowAddsUp
<1>22. CASE FinishJob
  <2>1. /\ pc' = "idle" /\ exit' = exit /\ at' = AtStart /\ tally' = NoTally /\ pc = "finish"
        /\ disk'.job = [status |-> IF exit = "interrupted" THEN "interrupted" ELSE "complete",
                        attempted |-> tally.attempted, completed |-> tally.completed,
                        failed |-> tally.failed]
    BY <1>0, <1>22 DEF FinishJob, Commit, EndProcess, Database
  <2>2. JobRowAddsUp'
    BY <1>2, <2>1 DEF JobRowAddsUp, Uncounted
  <2> QED BY <2>1, <2>2 DEF AccountInv, InReport, InStream, AtStart
<1>23. CASE Dedupe
  <2>1. /\ pc = "idle" /\ pc' = "idle" /\ exit' = exit /\ at' = at /\ tally' = tally
        /\ disk'.job = disk.job
    BY <1>0, <1>23 DEF Dedupe, Commit, position, Database
  <2>2. JobRowAddsUp'
    BY <2>1 DEF JobRowAddsUp, AccountInv
  <2> QED BY <1>2, <2>1, <2>2 DEF AccountInv, InReport, InStream
<1> QED BY <1>4, <1>5, <1>6, <1>7, <1>8, <1>9, <1>11, <1>12, <1>13, <1>14, <1>15, <1>16, <1>17,
           <1>18, <1>19, <1>20, <1>21, <1>22, <1>23 DEF Next, Work, Environment

\* finish_job: the row of a job accounts for every report it attempted, but for
\* the one an exception left, and a job that came to its end for every candidate.
THEOREM JobsAddUp == Spec => []JobRowAddsUp
<1>1. Init => AccountInv
  <2> SUFFICES ASSUME Init PROVE AccountInv
    OBVIOUS
  <2>1. pc = "idle" /\ at.report = 1 /\ tally = NoTally /\ exit = "never started"
    BY DEF Init, AtStart
  <2> QED BY <2>1 DEF AccountInv, InReport, InStream, JobRowAddsUp
<1>2. IInv /\ AccountInv /\ [Next]_vars => AccountInv'
  BY AccountStep
<1>3. AccountInv => JobRowAddsUp
  BY DEF AccountInv
<1> QED BY <1>1, <1>2, <1>3, Invariance, PTL DEF Spec

==============================================================================
