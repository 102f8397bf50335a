--------------------------- MODULE CollectorProofs ---------------------------
(***************************************************************************)
(* What the collector keeps on disk, proved for every set of reports, runs *)
(* and streams, every server, every fault and every number of processes.   *)
(* The inductive invariant IInv says three things beyond the types: the    *)
(* loop positions exist (Located), what is on disk is a chain per stream   *)
(* with the events of exactly its rows (DiskIsSound), and the connection   *)
(* differs from the disk by at most the one page of the open transaction,  *)
(* which is the page that follows the chain (ConnIsSound).                 *)
(***************************************************************************)
EXTENDS Collector, TLAPS

(***************************************************************************)
(* The loop positions are inside their sequences wherever the code indexes *)
(* them.                                                                   *)
(***************************************************************************)
InReport == pc \in {"run", "pulls", "stream"} \/ InStream

Located ==
  /\ InReport => at.report <= Len(Candidates)
  /\ InReport /\ pc # "run" => at.fight <= Len(FightsIn[Report])
  /\ InStream => at.stream <= Len(Requests(Run))

\* The streams asked for of a run are streams of the profile.
LEMMA RequestsType ==
  ASSUME NEW r \in Runs PROVE Requests(r) \in Seq(Streams)
BY CollectorAssumption DEF Requests

\* A process inside a report is at a report, a run and a stream that exist.
LEMMA PositionsInside ==
  ASSUME TypeOK, Located, InReport
  PROVE  /\ Report \in Reports
         /\ FightsIn[Report] \in Seq(Runs)
         /\ pc # "run" => Run \in Runs
         /\ InStream => Stream \in Streams /\ Key \in Keys
<1>0. /\ at.report \in Nat \ {0}
      /\ at.fight \in Nat \ {0}
      /\ at.stream \in Nat \ {0}
  BY DEF TypeOK, Position
<1>1. at.report \in 1 .. Len(Candidates)
  <2>1. Len(Candidates) \in Nat
    BY CollectorAssumption
  <2>2. at.report <= Len(Candidates)
    BY DEF Located
  <2> QED BY <1>0, <2>1, <2>2
<1>2. Report \in Reports
  <2>1. Candidates \in Seq(Reports)
    BY CollectorAssumption
  <2> QED BY <1>1, <2>1 DEF Report
<1>3. FightsIn[Report] \in Seq(Runs)
  BY <1>2, CollectorAssumption
<1>4. ASSUME pc # "run" PROVE Run \in Runs
  <2>1. at.fight \in 1 .. Len(FightsIn[Report])
    BY <1>0, <1>3, <1>4 DEF Located
  <2> QED BY <2>1, <1>3 DEF Run
<1>5. ASSUME InStream PROVE Stream \in Streams /\ Key \in Keys
  <2>1. Run \in Runs
    BY <1>4, <1>5 DEF InStream
  <2>2. at.stream \in 1 .. Len(Requests(Run))
    BY <1>0, <1>5, <2>1, RequestsType DEF Located
  <2>3. Stream \in Streams
    BY <2>1, <2>2, RequestsType DEF Stream
  <2> QED BY <2>1, <2>3 DEF Key, Keys
<1> QED BY <1>2, <1>3, <1>4, <1>5

\* Recording coverage touches neither pages nor events.
LEMMA RecordCoverageType ==
  ASSUME NEW db \in Database, NEW k \in Keys
  PROVE  /\ RecordCoverage(db, k) \in Database
         /\ RecordCoverage(db, k).pages = db.pages
         /\ RecordCoverage(db, k).events = db.events
BY DEF Database, RecordCoverage, CoverageOf, CoverageStatus, StreamError, Exhausted

\* Unwinding from an exception touches neither pages nor events.
LEMMA UnwindType ==
  ASSUME TypeOK, Located, NEW db \in Database, NEW why, Unwind(db, why)
  PROVE  /\ conn' \in Database
         /\ conn'.pages = db.pages /\ conn'.events = db.events
<1>1. CASE InStream
  BY <1>1, PositionsInside, RecordCoverageType DEF Unwind, InReport
<1>2. CASE ~InStream
  BY <1>2 DEF Unwind
<1> QED BY <1>1, <1>2

\* Every way the loops move on gives a loop position.
LEMMA PositionType ==
  ASSUME at \in Position
  PROVE  /\ NextReport \in Position /\ NextReport.report = at.report + 1
         /\ NextFight \in Position /\ NextFight.report = at.report
         /\ NextStream \in Position
         /\ NextStream.report = at.report /\ NextStream.fight = at.fight
         /\ [at EXCEPT !.stream = 1] \in Position
         /\ AtStart \in Position
<1>1. /\ at.report + 1 \in Nat \ {0}
      /\ at.fight + 1 \in Nat \ {0}
      /\ at.stream + 1 \in Nat \ {0}
      /\ 1 \in Nat \ {0}
  BY DEF Position
<1>2. [at EXCEPT !.report = @ + 1] \in Position
  BY <1>1 DEF Position
<1>3. [at EXCEPT !.fight = @ + 1] \in Position
  BY <1>1 DEF Position
<1>4. \A a \in Position : [a EXCEPT !.stream = 1] \in Position
  BY <1>1 DEF Position
<1>5. \A a \in Position : [a EXCEPT !.fight = 1] \in Position
  BY <1>1 DEF Position
<1>6. NextReport = [[[at EXCEPT !.report = @ + 1] EXCEPT !.fight = 1] EXCEPT !.stream = 1]
  BY DEF NextReport, Position
<1>7. NextFight = [[at EXCEPT !.fight = @ + 1] EXCEPT !.stream = 1]
  BY DEF NextFight, Position
<1>8. NextReport \in Position /\ NextFight \in Position
  BY <1>2, <1>3, <1>4, <1>5, <1>6, <1>7
<1>9. NextStream \in Position
  BY <1>1 DEF NextStream, Position
<1>10. AtStart \in Position
  BY <1>1 DEF AtStart, Position
<1> QED BY <1>4, <1>8, <1>9, <1>10 DEF NextReport, NextFight, NextStream, Position

\* Every way the counters move on gives a tally.
LEMMA TallyType ==
  ASSUME tally \in Tally
  PROVE  /\ NotClean \in Tally /\ NoTally \in Tally /\ Attempted \in Tally
         /\ [tally EXCEPT !.completed = @ + 1] \in Tally
         /\ [tally EXCEPT !.failed = @ + 1] \in Tally
         /\ [tally EXCEPT !.attempted = @ + 1, !.clean = TRUE] \in Tally
         /\ [tally EXCEPT !.attempted = @ + 1, !.completed = @ + 1] \in Tally
         /\ [Attempted EXCEPT !.failed = @ + 1] \in Tally
<1>1. \A t \in Tally : [t EXCEPT !.attempted = @ + 1] \in Tally
  BY DEF Tally
<1>2. \A t \in Tally : [t EXCEPT !.completed = @ + 1] \in Tally
  BY DEF Tally
<1>3. \A t \in Tally : [t EXCEPT !.failed = @ + 1] \in Tally
  BY DEF Tally
<1>4. \A t \in Tally : [t EXCEPT !.clean = TRUE] \in Tally
  BY DEF Tally
<1>5. Attempted \in Tally
  BY <1>1 DEF Attempted
<1>6. [tally EXCEPT !.attempted = @ + 1, !.clean = TRUE] \in Tally
  BY <1>1, <1>4 DEF Tally
<1>7. [tally EXCEPT !.attempted = @ + 1, !.completed = @ + 1] \in Tally
  <2>1. [tally EXCEPT !.attempted = @ + 1, !.completed = @ + 1]
          = [[tally EXCEPT !.attempted = @ + 1] EXCEPT !.completed = @ + 1]
    BY DEF Tally
  <2> QED BY <1>1, <1>2, <2>1
<1>8. NotClean \in Tally /\ NoTally \in Tally
  BY DEF NotClean, NoTally, Tally
<1> QED BY <1>2, <1>3, <1>5, <1>6, <1>7, <1>8

(***************************************************************************)
(* Type correctness.                                                       *)
(***************************************************************************)
\* The initial state is well typed.
LEMMA TypeInit == Init => TypeOK /\ Located
<1> SUFFICES ASSUME Init PROVE TypeOK /\ Located
  OBVIOUS
<1>1. disk \in Database
  BY DEF Init, Database, Job, JobStatus, CoverageStatus, RunStatus
<1>2. at \in Position
  <2>1. 1 \in Nat \ {0}
    OBVIOUS
  <2> QED BY <2>1 DEF Init, AtStart, Position
<1>4. tally \in Tally
  BY DEF Init, NoTally, Tally
<1>3. cur \in OpenStream
  BY CollectorAssumption DEF Init, NoStream, OpenStream
<1> QED BY <1>1, <1>2, <1>3, <1>4 DEF Init, TypeOK, Place, Exit, Located, InReport, InStream

\* The row _resume_point reads is one of the stream's rows.
HasLast ==
  \A k \in Keys : conn.pages[k] # {} => LastPage(conn.pages[k]) \in conn.pages[k]

\* What _resume_point returns is an index and a cursor, or none.
LEMMA ResumePointType ==
  ASSUME TypeOK, HasLast, NEW k \in Keys
  PROVE  /\ ResumePoint(conn, k).idx \in Nat
         /\ ResumePoint(conn, k).cursor \in Cursors \cup {None}
<1>1. CASE conn.pages[k] = {}
  BY <1>1 DEF ResumePoint
<1>2. CASE conn.pages[k] # {}
  <2>1. LastPage(conn.pages[k]) \in PageRow
    BY <1>2 DEF HasLast, TypeOK, Database
  <2> QED BY <1>2, <2>1 DEF ResumePoint, PageRow
<1> QED BY <1>1, <1>2

\* The page asked for names a cursor, or none.
LEMMA NextCursorType ==
  ASSUME TypeOK, Key \in Keys
  PROVE  NextCursor \in Cursors \cup {None}
<1>1. NextOf \in [Keys -> [Cursors -> Cursors \cup {None}]]
  BY CollectorAssumption
<1>2. cur.cursor \in Cursors
  BY DEF TypeOK, OpenStream
<1> QED BY <1>1, <1>2 DEF NextCursor

\* Every step keeps the types and the loop positions.
LEMMA TypeStep ==
  ASSUME TypeOK, Located, HasLast, [Next]_vars
  PROVE  TypeOK' /\ Located'
<1>0. /\ disk \in Database /\ conn \in Database /\ at \in Position
      /\ tally \in Tally /\ cur \in OpenStream
  BY DEF TypeOK
<1> DEFINE SameLocals == cur' = cur /\ tally' = tally /\ at' = at
           Types == /\ disk' \in Database /\ conn' \in Database
                    /\ at' \in Position /\ tally' \in Tally /\ cur' \in OpenStream
<1>1. CASE UNCHANGED vars
  BY <1>1 DEF vars, position, TypeOK, Located, InReport, InStream, Report, Run
<1>2. ASSUME NEW r \in Runs, ResetRunEvents(r) PROVE TypeOK' /\ Located'
  <2>1. Types
    BY <1>0, <1>2 DEF ResetRunEvents, Commit, position, Database
  <2> QED BY <1>2, <2>1 DEF ResetRunEvents, TypeOK, Located, InReport, InStream
<1>3. CASE AssertIdentityScheme
  <2>1. disk' \in Database /\ conn' \in Database
    BY <1>0, <1>3 DEF AssertIdentityScheme, Commit, Database, TypeOK
  <2>2. at' \in Position /\ tally' \in Tally /\ cur' \in OpenStream
    BY <1>0, <1>3, PositionType, TallyType, CollectorAssumption
       DEF AssertIdentityScheme, EndProcess, position, NoStream, OpenStream
  <2> QED BY <1>3, <2>1, <2>2
          DEF AssertIdentityScheme, EndProcess, TypeOK, Place, Exit, Located, InReport, InStream
<1>4. CASE StartJob
  <2>1. Types
    BY <1>0, <1>4 DEF StartJob, Commit, position, Database, Job, JobStatus
  <2> QED BY <1>4, <2>1 DEF StartJob, TypeOK, Place, Located, InReport, InStream
<1>5. CASE ReadBudget
  BY <1>5 DEF ReadBudget, position, TypeOK, Place, Located, InReport, InStream
<1>6. CASE OpenReport
  <2>1. Types
    BY <1>0, <1>6, TallyType DEF OpenReport, Commit
  <2> QED BY <1>6, <2>1
          DEF OpenReport, AtReport, TypeOK, Place, Located, InReport, InStream
<1>7. CASE NoMatchingRuns \/ ReportUnavailable
  <2>1. Types
    BY <1>0, <1>7, TallyType, PositionType
       DEF NoMatchingRuns, ReportUnavailable, SkipReport, Commit
  <2> QED BY <1>7, <2>1
          DEF NoMatchingRuns, ReportUnavailable, Fault, SkipReport, AtReport,
              TypeOK, Located, InReport, InStream
<1>8. CASE EndReport
  <2>1. Types
    BY <1>0, <1>8, TallyType, PositionType DEF EndReport
  <2> QED BY <1>8, <2>1 DEF EndReport, TypeOK, Place, Located, InReport, InStream
<1>9. CASE EndOfReports
  BY <1>9 DEF EndOfReports, position, TypeOK, Place, Exit, Located, InReport, InStream
<1>10. CASE UpsertRun
  <2>1. Types
    BY <1>0, <1>10 DEF UpsertRun, Commit, position, Database, RunStatus, TypeOK
  <2>2. Located'
    BY <1>10 DEF UpsertRun, position, Located, InReport, InStream, Report
  <2> QED BY <1>10, <2>1, <2>2 DEF UpsertRun, TypeOK, Place
<1>11. CASE CollectPulls
  <2>1. disk' \in Database /\ conn' \in Database
    BY <1>0, <1>11 DEF CollectPulls, Database, RunStatus
  <2>2. at' \in Position /\ cur' \in OpenStream
    BY <1>0, <1>11, PositionType DEF CollectPulls
  <2>3. tally' \in Tally
    <3>1. \A t \in Tally, a, b \in BOOLEAN : [t EXCEPT !.seen = @ \/ a, !.resolved = @ \/ b] \in Tally
      BY DEF Tally
    <3>2. \/ tally' = NotClean
          \/ tally' = [tally EXCEPT !.seen = @ \/ FocusAsked,
                                    !.resolved = @ \/ (FocusAsked /\ Run \in FocusRuns)]
      BY <1>11 DEF CollectPulls
    <3>3. FocusAsked \in BOOLEAN /\ (FocusAsked /\ Run \in FocusRuns) \in BOOLEAN
      BY CollectorAssumption
    <3> QED BY <1>0, <3>1, <3>2, <3>3, TallyType
  <2>4. /\ at'.report = at.report
        /\ pc' \in {"run", "stream"}
        /\ pc' = "stream" => at'.fight = at.fight
    BY <1>0, <1>11, PositionType DEF CollectPulls, Position
  <2>5. Located'
    BY <1>11, <2>4 DEF CollectPulls, Located, InReport, InStream, Report
  <2> QED BY <1>11, <2>1, <2>2, <2>3, <2>4, <2>5 DEF CollectPulls, TypeOK, Place
<1>12. CASE SkipStream
  <2>1. Key \in Keys
    <3>1. Run \in Runs
      BY <1>12, PositionsInside DEF SkipStream, AtStream, InReport
    <3>2. at.stream \in 1 .. Len(Requests(Run))
      BY <1>0, <1>12, <3>1, RequestsType DEF SkipStream, AtStream, Position
    <3> QED BY <3>1, <3>2, RequestsType DEF Key, Keys, Stream
  <2>2. Types
    BY <1>0, <1>12, <2>1, RecordCoverageType, PositionType DEF SkipStream, Pending
  <2>3. Located'
    BY <1>12, PositionType, <1>0 DEF SkipStream, Located, InReport, InStream, AtStream, Report
  <2> QED BY <1>12, <2>2, <2>3 DEF SkipStream, Pending, TypeOK
<1>13. CASE ResumeStream
  <2>1. Key \in Keys
    <3>1. Run \in Runs
      BY <1>13, PositionsInside DEF ResumeStream, AtStream, InReport
    <3>2. at.stream \in 1 .. Len(Requests(Run))
      BY <1>0, <1>13, <3>1, RequestsType DEF ResumeStream, AtStream, Position
    <3> QED BY <3>1, <3>2, RequestsType DEF Key, Keys, Stream
  <2>2. cur' \in OpenStream
    <3> DEFINE point == ResumePoint(conn, Key)
    <3>1. point.idx \in Nat /\ point.cursor \in Cursors \cup {None}
      BY <2>1, ResumePointType
    <3>2. (IF point.cursor = None THEN Start ELSE point.cursor) \in Cursors
      BY <3>1, CollectorAssumption
    <3> HIDE DEF point
    <3>3. cur' = [idx |-> point.idx,
                  cursor |-> IF point.cursor = None THEN Start ELSE point.cursor,
                  fetched |-> 0]
      BY <1>13 DEF ResumeStream, point
    <3> QED BY <3>1, <3>2, <3>3 DEF OpenStream
  <2>3. Located'
    BY <1>13 DEF ResumeStream, AtStream, Located, InReport, InStream, Report, Run
  <2> QED BY <1>13, <2>2, <2>3 DEF ResumeStream, TypeOK, Place
<1>14. CASE CompleteRun
  <2>1. Types
    BY <1>0, <1>14, PositionType DEF CompleteRun, Commit, Database, RunStatus
  <2>2. Located'
    BY <1>0, <1>14, PositionType DEF CompleteRun, Located, InReport, InStream, Report
  <2> QED BY <1>14, <2>1, <2>2 DEF CompleteRun, TypeOK, Place
<1>15. CASE InsertPage
  <2>1. Key \in Keys
    BY <1>15, PositionsInside DEF InsertPage, InReport, InStream
  <2>2. [idx |-> cur.idx, cursor |-> cur.cursor, next |-> NextCursor] \in PageRow
    BY <1>0, <2>1, NextCursorType DEF OpenStream, PageRow
  <2>3. Types
    BY <1>0, <1>15, <2>1, <2>2 DEF InsertPage, Pending, position, Database
  <2>4. Located'
    BY <1>15 DEF InsertPage, position, Located, InReport, InStream, Report, Run
  <2> QED BY <1>15, <2>3, <2>4 DEF InsertPage, Pending, TypeOK, Place
<1>16. CASE InsertEvents
  <2>1. Key \in Keys
    BY <1>16, PositionsInside DEF InsertEvents, InReport, InStream
  <2>2. [idx |-> cur.idx, cursor |-> cur.cursor] \in EventRow
    BY <1>0 DEF OpenStream, EventRow
  <2>3. Types
    BY <1>0, <1>16, <2>1, <2>2 DEF InsertEvents, Pending, position, Database
  <2>4. Located'
    BY <1>16 DEF InsertEvents, position, Located, InReport, InStream, Report, Run
  <2> QED BY <1>16, <2>3, <2>4 DEF InsertEvents, Pending, TypeOK, Place
<1>17. CASE CommitPage
  <2>1. Key \in Keys
    BY <1>17, PositionsInside DEF CommitPage, InReport, InStream
  <2>2. disk' \in Database /\ conn' \in Database
    BY <1>0, <1>17, <2>1, RecordCoverageType DEF CommitPage, Unwind, InStream
  <2>3. at' \in Position /\ tally' \in Tally
    BY <1>0, <1>17, PositionType DEF CommitPage, Unwind
  <2>4. cur' \in OpenStream
    <3>1. NextCursor \in Cursors \cup {None}
      BY <2>1, NextCursorType
    <3> QED BY <1>0, <1>17, <3>1, CollectorAssumption
            DEF CommitPage, Unwind, OpenStream, NoStream
  <2>5. Located'
    BY <1>0, <1>17, PositionType
       DEF CommitPage, Unwind, Located, InReport, InStream, Report, Run
  <2> QED BY <1>17, <2>2, <2>3, <2>4, <2>5 DEF CommitPage, Unwind, TypeOK, Place, Exit
<1>18. CASE PageCeiling \/ PageRejected
  <2>1. Types
    BY <1>0, <1>18, UnwindType DEF PageCeiling, PageRejected, Unwind
  <2> QED BY <1>18, <2>1
          DEF PageCeiling, PageRejected, Unwind, TypeOK, Place, Exit,
              Located, InReport, InStream
<1>19. CASE RecordApiCost
  BY <1>19 DEF RecordApiCost, Commit, position, TypeOK, Place, Located, InReport, InStream
<1>20. CASE FinishJob
  <2>1. disk' \in Database /\ conn' \in Database
    BY <1>0, <1>20 DEF FinishJob, Commit, Database, Job, JobStatus, Tally
  <2>2. at' \in Position /\ tally' \in Tally /\ cur' \in OpenStream
    BY <1>0, <1>20, PositionType, TallyType, CollectorAssumption
       DEF FinishJob, EndProcess, NoStream, OpenStream
  <2> QED BY <1>20, <2>1, <2>2
          DEF FinishJob, EndProcess, TypeOK, Place, Located, InReport, InStream
<1>21. ASSUME NEW refresh \in BOOLEAN, NEW id \in Schemes, OpenDatabase(refresh, id)
       PROVE TypeOK' /\ Located'
  <2>1. Types
    BY <1>0, <1>21 DEF OpenDatabase, position
  <2>2. todo' \in SUBSET Runs /\ jobs' \in Nat
    BY <1>21 DEF OpenDatabase, TypeOK
  <2> QED BY <1>21, <2>1, <2>2
          DEF OpenDatabase, TypeOK, Place, Exit, Located, InReport, InStream
<1>22. CASE ReportRefused
  <2>1. Types
    BY <1>0, <1>22, TallyType, PositionType DEF ReportRefused, Commit
  <2> QED BY <1>22, <2>1
          DEF ReportRefused, Fault, TypeOK, Place, Located, InReport, InStream
<1>23. CASE StreamRefused
  <2>1. Key \in Keys
    BY <1>23, PositionsInside DEF StreamRefused, InReport, InStream
  <2>2. disk' \in Database /\ conn' \in Database
    <3>1. RecordCoverage(conn, Key) \in Database
      BY <1>0, <2>1, RecordCoverageType
    <3> QED BY <1>23, <3>1 DEF StreamRefused, Commit, Database, RunStatus
  <2>3. at' \in Position /\ tally' \in Tally /\ cur' \in OpenStream
    BY <1>0, <1>23, PositionType, TallyType, CollectorAssumption
       DEF StreamRefused, NoStream, OpenStream
  <2>4. Located'
    BY <1>0, <1>23, PositionType DEF StreamRefused, Located, InReport, InStream, Report
  <2> QED BY <1>23, <2>2, <2>3, <2>4 DEF StreamRefused, Fault, TypeOK, Place
<1>24. CASE FatalError \/ DatabaseFails \/ Interrupt
  <2>1. conn' \in Database
    BY <1>0, <1>24, UnwindType DEF FatalError, DatabaseFails, Interrupt
  <2>2. Types
    BY <1>0, <1>24, <2>1, TallyType DEF FatalError, DatabaseFails, Interrupt, Unwind
  <2>3. /\ pc' = "closing" /\ exit' \in Exit /\ faults' \in Nat
        /\ UNCHANGED <<scheme, todo, jobs>>
    <3>1. faults' \in Nat
      BY <1>24 DEF FatalError, DatabaseFails, Interrupt, Fault, TypeOK
    <3> QED BY <1>24, <3>1 DEF FatalError, DatabaseFails, Interrupt, Unwind, Exit
  <2> QED BY <2>2, <2>3 DEF TypeOK, Place, Located, InReport, InStream
<1>25. CASE QuotaExhausted \/ Crash
  <2>1. disk' \in Database /\ conn' \in Database
    BY <1>0, <1>25 DEF QuotaExhausted, Crash, Commit
  <2>2. at' \in Position /\ tally' \in Tally /\ cur' \in OpenStream
    BY <1>0, <1>25, PositionType, TallyType, CollectorAssumption
       DEF QuotaExhausted, Crash, EndProcess, NoStream, OpenStream
  <2>3. /\ pc' = "idle" /\ exit' \in Exit /\ faults' \in Nat /\ jobs' = jobs
        /\ scheme' = None /\ todo' = {}
    <3>1. faults' \in Nat
      BY <1>25 DEF QuotaExhausted, Crash, Fault, TypeOK
    <3> QED BY <1>25, <3>1 DEF QuotaExhausted, Crash, EndProcess, Exit
  <2> QED BY <2>1, <2>2, <2>3 DEF TypeOK, Place, Located, InReport, InStream
<1>26. CASE Dedupe
  <2>1. Types
    BY <1>0, <1>26, SMTT(30) DEF Dedupe, Commit, position, Database
  <2> QED BY <1>26, <2>1 DEF Dedupe, TypeOK, Located, InReport, InStream
<1> QED BY <1>1, <1>2, <1>3, <1>4, <1>5, <1>6, <1>7, <1>8, <1>9, <1>10, <1>11, <1>12,
           <1>13, <1>14, <1>15, <1>16, <1>17, <1>18, <1>19, <1>20, <1>21, <1>22, <1>23,
           <1>24, <1>25, <1>26 DEF Next, Work, Environment

(***************************************************************************)
(* Chains of pages.  A chain has a last row, and the page that Follows it  *)
(* is the one the checkpoint asks for.                                     *)
(***************************************************************************)
IsLast(l, rows) == l \in rows /\ \A q \in rows : q.idx <= l.idx

Chain(rows, k) ==
  /\ IsPrefix(rows, k)
  /\ rows # {} => \E l \in rows : IsLast(l, rows)

Follows(rows, i, c) ==
  \/ rows = {} /\ i = 0 /\ c = Start
  \/ \E l \in rows : IsLast(l, rows) /\ l.next # None /\ i = l.idx + 1 /\ c = l.next

RowAt(k, i, c) == [idx |-> i, cursor |-> c, next |-> NextOf[k][c]]

EventsOf(rows) == {[idx |-> p.idx, cursor |-> p.cursor] : p \in rows}

\* The row with the highest index of a chain is the one _resume_point reads.
LEMMA LastOfChain ==
  ASSUME NEW k, NEW rows \in SUBSET PageRow, Chain(rows, k), rows # {}
  PROVE  /\ IsLast(LastPage(rows), rows)
         /\ \A l \in rows : IsLast(l, rows) => l = LastPage(rows)
<1>1. IsLast(LastPage(rows), rows)
  BY DEF Chain, LastPage, IsLast
<1>2. ASSUME NEW l \in rows, IsLast(l, rows) PROVE l = LastPage(rows)
  <2>1. l.idx \in Nat /\ LastPage(rows).idx \in Nat
    BY <1>1 DEF PageRow, IsLast
  <2>2. l.idx = LastPage(rows).idx
    BY <1>1, <1>2, <2>1 DEF IsLast
  <2> QED BY <1>1, <2>2 DEF Chain, IsPrefix, IsLast
<1> QED BY <1>1, <1>2

\* Storing the page that follows a chain makes a chain that ends with it, and
\* takes no row or event away.
Extends(k, rows, i, c) ==
  LET new    == RowAt(k, i, c)
      longer == rows \cup {new}
  IN  /\ rows \in SUBSET PageRow /\ new \in PageRow
      /\ \A q \in rows : q.idx < i
      /\ Chain(longer, k)
      /\ IsLast(new, longer)
      /\ LastPage(longer) = new
      /\ EventsOf(longer) = EventsOf(rows) \cup {[idx |-> i, cursor |-> c]}

\* Storing the page that follows a chain makes a chain.
LEMMA ExtendChain ==
  ASSUME NEW k \in Keys, NEW rows \in SUBSET PageRow, Chain(rows, k),
         NEW i \in Nat, NEW c \in Cursors, Follows(rows, i, c)
  PROVE  Extends(k, rows, i, c)
<1> DEFINE new == RowAt(k, i, c)
           longer == rows \cup {new}
<1>1. new \in PageRow
  <2>1. NextOf[k][c] \in Cursors \cup {None}
    BY CollectorAssumption
  <2> QED BY <2>1 DEF RowAt, PageRow
<1>2. \A q \in rows : q.idx < i
  BY DEF Follows, IsLast, PageRow
<1>3. IsLast(new, longer)
  BY <1>2 DEF IsLast, RowAt, PageRow
<1>4. IsPrefix(longer, k)
  <2>1. \A p \in longer : p.next = NextOf[k][p.cursor]
    BY DEF Chain, IsPrefix, RowAt
  <2>2. \A p, q \in longer : p.idx = q.idx => p = q
    BY <1>2 DEF Chain, IsPrefix, RowAt, PageRow
  <2>3. \A p \in longer :
          \/ p.idx = 0 /\ p.cursor = Start
          \/ \E q \in longer : p.idx = q.idx + 1 /\ p.cursor = q.next
    BY DEF Chain, IsPrefix, RowAt, Follows
  <2> QED BY <2>1, <2>2, <2>3 DEF IsPrefix
<1>5. Chain(longer, k)
  BY <1>3, <1>4 DEF Chain, IsLast
<1>6. LastPage(longer) = new
  BY <1>1, <1>3, <1>5, LastOfChain DEF IsLast
<1>7. EventsOf(longer) = EventsOf(rows) \cup {[idx |-> i, cursor |-> c]}
  <2>1. new.idx = i /\ new.cursor = c
    BY DEF RowAt
  <2> HIDE DEF new
  <2> QED BY <2>1 DEF EventsOf
<1> QED BY <1>1, <1>2, <1>3, <1>5, <1>6, <1>7 DEF Extends

(***************************************************************************)
(* The inductive invariant.  StoredIsPrefix and CheckpointMatchesEvents    *)
(* speak of the disk; what keeps them is what the process holds: outside   *)
(* the transaction of a page the connection sees the pages and events of   *)
(* the disk, inside it the same plus one row, and that row Follows the     *)
(* chain on the disk.                                                      *)
(***************************************************************************)
DiskIsSound ==
  \A k \in Keys : /\ Chain(disk.pages[k], k)
                  /\ disk.events[k] = EventsOf(disk.pages[k])

SameRows == conn.pages = disk.pages /\ conn.events = disk.events

ConnIsSound ==
  /\ ~InTransaction => SameRows
  /\ InStream => Follows(disk.pages[Key], cur.idx, cur.cursor)
  /\ InTransaction =>
       conn.pages = [disk.pages EXCEPT ![Key] =
                       @ \cup {RowAt(Key, cur.idx, cur.cursor)}]
  /\ pc = "events" => conn.events = disk.events
  /\ pc = "commit" =>
       conn.events = [disk.events EXCEPT ![Key] =
                        @ \cup {[idx |-> cur.idx, cursor |-> cur.cursor]}]

IInv == TypeOK /\ Located /\ DiskIsSound /\ ConnIsSound

\* The open page, inside a transaction or before it, extends the stored chain.
LEMMA OpenPage ==
  ASSUME IInv, InStream
  PROVE  Key \in Keys /\ Extends(Key, disk.pages[Key], cur.idx, cur.cursor)
<1>1. Key \in Keys
  BY PositionsInside DEF IInv, InReport
<1>2. disk.pages[Key] \in SUBSET PageRow
  BY <1>1 DEF IInv, TypeOK, Database
<1>3. cur.idx \in Nat /\ cur.cursor \in Cursors
  BY DEF IInv, TypeOK, OpenStream
<1>4. Chain(disk.pages[Key], Key) /\ Follows(disk.pages[Key], cur.idx, cur.cursor)
  BY <1>1 DEF IInv, DiskIsSound, ConnIsSound
<1> QED BY <1>1, <1>2, <1>3, <1>4, ExtendChain

\* Under the invariant _resume_point reads a row of the stream.
LEMMA IInvHasLast == IInv => HasLast
<1> SUFFICES ASSUME IInv, NEW k \in Keys, conn.pages[k] # {}
             PROVE  LastPage(conn.pages[k]) \in conn.pages[k]
  BY DEF HasLast
<1>1. disk.pages[k] \in SUBSET PageRow /\ Chain(disk.pages[k], k)
  BY DEF IInv, TypeOK, Database, DiskIsSound
<1>2. CASE InTransaction /\ k = Key
  <2>1. conn.pages[k] = disk.pages[k] \cup {RowAt(Key, cur.idx, cur.cursor)}
    BY <1>2 DEF IInv, ConnIsSound, TypeOK, Database
  <2> QED BY <1>2, <2>1, OpenPage DEF Extends, InStream, InTransaction
<1>3. CASE ~(InTransaction /\ k = Key)
  <2>1. conn.pages[k] = disk.pages[k]
    BY <1>3 DEF IInv, ConnIsSound, SameRows, TypeOK, Database
  <2> QED BY <1>1, <2>1, LastOfChain DEF IsLast
<1> QED BY <1>2, <1>3

\* The empty database satisfies the invariant.
LEMMA IInvInit == Init => IInv
<1> SUFFICES ASSUME Init PROVE IInv
  OBVIOUS
<1>1. TypeOK /\ Located
  BY TypeInit
<1>2. DiskIsSound
  BY DEF Init, DiskIsSound, Chain, IsPrefix, EventsOf
<1>3. ConnIsSound
  BY DEF Init, ConnIsSound, SameRows, InTransaction, InStream
<1> QED BY <1>1, <1>2, <1>3 DEF IInv

(***************************************************************************)
(* Most steps are quiet: no row on disk changes, the connection agrees     *)
(* with the disk afterwards, and no page is open.                          *)
(***************************************************************************)
Quiet ==
  /\ disk'.pages = disk.pages /\ disk'.events = disk.events
  /\ conn'.pages = disk.pages /\ conn'.events = disk.events
  /\ pc' \notin {"fetch", "events", "commit"}

Loud ==
  \/ \E r \in Runs : ResetRunEvents(r)
  \/ ResumeStream \/ InsertPage \/ InsertEvents \/ CommitPage

\* Every step but five is quiet.
LEMMA QuietSteps ==
  ASSUME IInv, Next, ~Loud
  PROVE  Quiet
<1>0. /\ disk \in Database /\ conn \in Database
      /\ ~InTransaction => SameRows
      /\ TypeOK /\ Located
  BY DEF IInv, TypeOK, ConnIsSound
<1>1. CASE AssertIdentityScheme
  BY <1>0, <1>1 DEF AssertIdentityScheme, Commit, EndProcess, Quiet, SameRows,
                    InTransaction, Database
<1>2. CASE StartJob
  BY <1>0, <1>2 DEF StartJob, Commit, Quiet, SameRows, InTransaction, Database
<1>3. CASE ReadBudget
  BY <1>0, <1>3 DEF ReadBudget, Quiet, SameRows, InTransaction
<1>4. CASE OpenReport
  BY <1>0, <1>4 DEF OpenReport, AtReport, Commit, Quiet, SameRows, InTransaction
<1>5. CASE NoMatchingRuns \/ ReportUnavailable
  BY <1>0, <1>5 DEF NoMatchingRuns, ReportUnavailable, SkipReport, AtReport, Commit, Quiet,
                    SameRows, InTransaction
<1>6. CASE EndReport
  BY <1>0, <1>6 DEF EndReport, Quiet, SameRows, InTransaction
<1>7. CASE EndOfReports
  BY <1>0, <1>7 DEF EndOfReports, Quiet, SameRows, InTransaction
<1>8. CASE UpsertRun
  BY <1>0, <1>8 DEF UpsertRun, Commit, Quiet, SameRows, InTransaction, Database
<1>9. CASE CollectPulls
  BY <1>0, <1>9 DEF CollectPulls, Quiet, SameRows, InTransaction, Database
<1>10. CASE SkipStream
  <2>1. Key \in Keys
    <3>1. Run \in Runs
      BY <1>0, <1>10, PositionsInside DEF SkipStream, AtStream, InReport
    <3>2. at.stream \in 1 .. Len(Requests(Run))
      BY <1>0, <1>10, <3>1, RequestsType DEF SkipStream, AtStream, TypeOK, Position
    <3> QED BY <3>1, <3>2, RequestsType DEF Key, Keys, Stream
  <2> QED BY <1>0, <1>10, <2>1, RecordCoverageType
          DEF SkipStream, AtStream, Pending, Quiet, SameRows, InTransaction
<1>11. CASE CompleteRun
  BY <1>0, <1>11 DEF CompleteRun, Commit, Quiet, SameRows, InTransaction, Database
<1>12. CASE PageCeiling \/ PageRejected
  <2>1. conn'.pages = disk.pages /\ conn'.events = disk.events
    BY <1>0, <1>12, UnwindType DEF PageCeiling, PageRejected, SameRows, InTransaction
  <2> QED BY <1>12, <2>1 DEF PageCeiling, PageRejected, Unwind, Quiet
<1>13. CASE RecordApiCost
  BY <1>0, <1>13 DEF RecordApiCost, Commit, Quiet, SameRows, InTransaction
<1>14. CASE FinishJob
  BY <1>0, <1>14 DEF FinishJob, Commit, EndProcess, Quiet, SameRows, InTransaction, Database
<1>15. ASSUME NEW refresh \in BOOLEAN, NEW id \in Schemes, OpenDatabase(refresh, id)
       PROVE Quiet
  BY <1>0, <1>15 DEF OpenDatabase, Quiet, SameRows, InTransaction
<1>16. CASE ReportRefused
  BY <1>0, <1>16 DEF ReportRefused, AtReport, Commit, Quiet, SameRows, InTransaction
<1>17. CASE StreamRefused
  <2>1. Key \in Keys
    BY <1>0, <1>17, PositionsInside DEF StreamRefused, InReport, InStream
  <2>2. /\ RecordCoverage(conn, Key) \in Database
        /\ RecordCoverage(conn, Key).pages = conn.pages
        /\ RecordCoverage(conn, Key).events = conn.events
    BY <1>0, <2>1, RecordCoverageType
  <2>3. disk'.pages = conn.pages /\ disk'.events = conn.events
    BY <1>17, <2>2 DEF StreamRefused, Commit, Database
  <2> QED BY <1>0, <1>17, <2>3 DEF StreamRefused, Commit, Quiet, SameRows, InTransaction
<1>18. CASE FatalError \/ DatabaseFails \/ Interrupt
  <2>1. conn'.pages = disk.pages /\ conn'.events = disk.events
    BY <1>0, <1>18, UnwindType
       DEF FatalError, DatabaseFails, Interrupt, Requesting, AtReport, SameRows, InTransaction
  <2> QED BY <1>18, <2>1 DEF FatalError, DatabaseFails, Interrupt, Unwind, Quiet
<1>19. CASE QuotaExhausted \/ Crash
  BY <1>0, <1>19 DEF QuotaExhausted, Crash, Commit, EndProcess, Quiet, SameRows, InTransaction
<1>20. CASE Dedupe
  BY <1>0, <1>20 DEF Dedupe, Commit, Quiet, SameRows, InTransaction, Database
<1> QED BY <1>1, <1>2, <1>3, <1>4, <1>5, <1>6, <1>7, <1>8, <1>9, <1>10, <1>11, <1>12,
           <1>13, <1>14, <1>15, <1>16, <1>17, <1>18, <1>19, <1>20
        DEF Next, Work, Environment, Loud

\* A quiet step keeps the invariant.
LEMMA QuietKeeps ==
  ASSUME IInv, Quiet, TypeOK', Located'
  PROVE  IInv'
<1>1. DiskIsSound'
  BY DEF IInv, DiskIsSound, Quiet
<1>2. ConnIsSound'
  BY DEF Quiet, ConnIsSound, SameRows, InStream, InTransaction
<1> QED BY <1>1, <1>2 DEF IInv

\* Clearing a run leaves chains: the empty ones.
LEMMA ResetKeeps ==
  ASSUME IInv, NEW r \in Runs, ResetRunEvents(r), TypeOK', Located'
  PROVE  IInv'
<1>1. \A k \in Keys :
        /\ disk'.pages[k] = IF k[1] = r THEN {} ELSE disk.pages[k]
        /\ disk'.events[k] = IF k[1] = r THEN {} ELSE disk.events[k]
  BY DEF IInv, TypeOK, Database, ConnIsSound, SameRows, InTransaction, ResetRunEvents, Commit
<1>2. DiskIsSound'
  BY <1>1 DEF IInv, DiskIsSound, Chain, IsPrefix, EventsOf
<1>3. ConnIsSound'
  BY DEF ResetRunEvents, Commit, ConnIsSound, SameRows, InStream, InTransaction
<1> QED BY <1>2, <1>3 DEF IInv

\* _collect_events asks for the page that follows the stored chain.
LEMMA ResumeKeeps ==
  ASSUME IInv, ResumeStream, TypeOK', Located'
  PROVE  IInv'
<1>1. SameRows
  BY DEF IInv, ConnIsSound, ResumeStream, AtStream, InTransaction
<1>2. Key' = Key /\ Key' \in Keys
  <2>1. Key' = Key
    BY DEF ResumeStream, Key, Run, Stream, Report
  <2>2. InStream'
    BY DEF ResumeStream, InStream
  <2>3. Key' \in Keys
    <3>1. Run \in Runs
      BY PositionsInside DEF IInv, ResumeStream, AtStream, InReport
    <3>2. at.stream \in 1 .. Len(Requests(Run))
      BY <3>1, RequestsType DEF IInv, ResumeStream, AtStream, TypeOK, Position
    <3> QED BY <2>1, <3>1, <3>2, RequestsType DEF Key, Keys, Stream
  <2> QED BY <2>1, <2>3
<1>3. Follows(disk.pages[Key], cur'.idx, cur'.cursor)
  <2> DEFINE rows == disk.pages[Key]
  <2>1. conn.pages[Key] = rows /\ rows \in SUBSET PageRow /\ Chain(rows, Key)
    BY <1>1, <1>2 DEF IInv, DiskIsSound, TypeOK, Database, SameRows
  <2>2. CASE rows = {}
    BY <2>1, <2>2 DEF ResumeStream, ResumePoint, Follows
  <2>3. CASE rows # {}
    <3>1. IsLast(LastPage(rows), rows) /\ LastPage(rows).next # None
      BY <2>1, <2>3, LastOfChain DEF ResumeStream, Exhausted
    <3>2. cur'.idx = LastPage(rows).idx + 1 /\ cur'.cursor = LastPage(rows).next
      BY <2>1, <2>3, <3>1 DEF ResumeStream, ResumePoint
    <3> QED BY <3>1, <3>2 DEF Follows, IsLast
  <2> QED BY <2>2, <2>3
<1>4. DiskIsSound'
  BY DEF IInv, DiskIsSound, ResumeStream
<1>5. ConnIsSound'
  BY <1>1, <1>2, <1>3 DEF ResumeStream, ConnIsSound, SameRows, InStream, InTransaction
<1> QED BY <1>4, <1>5 DEF IInv

\* The row is inserted in the transaction; nothing is deleted before it.
LEMMA InsertPageKeeps ==
  ASSUME IInv, InsertPage, TypeOK', Located'
  PROVE  IInv'
<1>1. SameRows /\ InStream /\ Follows(disk.pages[Key], cur.idx, cur.cursor)
  BY DEF IInv, ConnIsSound, InsertPage, InTransaction, InStream
<1>2. Key \in Keys /\ Extends(Key, disk.pages[Key], cur.idx, cur.cursor)
  BY <1>1, OpenPage
<1>3. Key' = Key /\ cur' = cur /\ disk' = disk
  BY DEF InsertPage, Pending, position, Key, Run, Stream, Report
<1>4. {p \in disk.pages[Key] : p.idx # cur.idx} = disk.pages[Key]
  BY <1>2 DEF Extends, PageRow
<1>5. {e \in disk.events[Key] : e.idx # cur.idx} = disk.events[Key]
  <2>1. disk.events[Key] = EventsOf(disk.pages[Key])
    BY <1>2 DEF IInv, DiskIsSound
  <2> QED BY <1>2, <2>1 DEF Extends, EventsOf, PageRow
<1>6. conn'.pages = [disk.pages EXCEPT ![Key] =
                       @ \cup {RowAt(Key, cur.idx, cur.cursor)}]
  BY <1>1, <1>2, <1>4
     DEF InsertPage, Pending, SameRows, RowAt, NextCursor, IInv, TypeOK, Database
<1>7. conn'.events = disk.events
  <2>1. conn'.events = [disk.events EXCEPT ![Key] = {e \in @ : e.idx # cur.idx}]
    BY <1>1 DEF InsertPage, Pending, SameRows, IInv, TypeOK, Database
  <2>2. disk.events \in [Keys -> SUBSET EventRow]
    BY DEF IInv, TypeOK, Database
  <2> QED BY <1>2, <1>5, <2>1, <2>2
<1>8. DiskIsSound'
  BY <1>3 DEF IInv, DiskIsSound
<1>9. ConnIsSound'
  BY <1>1, <1>3, <1>6, <1>7
     DEF InsertPage, ConnIsSound, InStream, InTransaction
<1> QED BY <1>8, <1>9 DEF IInv

\* The events are inserted in the transaction of their page.
LEMMA InsertEventsKeeps ==
  ASSUME IInv, InsertEvents, TypeOK', Located'
  PROVE  IInv'
<1>1. Key' = Key /\ cur' = cur /\ disk' = disk
  BY DEF InsertEvents, Pending, position, Key, Run, Stream, Report
<1>2. Key \in Keys
  BY PositionsInside DEF IInv, InReport, InStream, InsertEvents
<1>3. conn'.pages = conn.pages
  BY DEF InsertEvents, Pending, IInv, TypeOK, Database
<1>4. conn'.events = [disk.events EXCEPT ![Key] =
                        @ \cup {[idx |-> cur.idx, cursor |-> cur.cursor]}]
  BY <1>2 DEF InsertEvents, Pending, IInv, ConnIsSound, TypeOK, Database
<1>5. DiskIsSound'
  BY <1>1 DEF IInv, DiskIsSound
<1>6. ConnIsSound'
  BY <1>1, <1>3, <1>4 DEF InsertEvents, IInv, ConnIsSound, InStream, InTransaction
<1> QED BY <1>5, <1>6 DEF IInv

\* The transaction of a page ends: its row and its events land together, and
\* nothing else changes.
LEMMA CommitLands ==
  ASSUME IInv, CommitPage
  PROVE  /\ Key \in Keys
         /\ Extends(Key, disk.pages[Key], cur.idx, cur.cursor)
         /\ Follows(disk.pages[Key], cur.idx, cur.cursor)
         /\ disk'.pages = [disk.pages EXCEPT ![Key] =
                             @ \cup {RowAt(Key, cur.idx, cur.cursor)}]
         /\ disk'.events = [disk.events EXCEPT ![Key] =
                             @ \cup {[idx |-> cur.idx, cursor |-> cur.cursor]}]
         /\ conn'.pages = disk'.pages /\ conn'.events = disk'.events
<1>1. InStream /\ InTransaction /\ pc = "commit"
  BY DEF CommitPage, InStream, InTransaction
<1>2. Key \in Keys /\ Extends(Key, disk.pages[Key], cur.idx, cur.cursor)
  BY <1>1, OpenPage
<1>3. conn'.pages = conn.pages /\ conn'.events = conn.events /\ disk' = conn
  <2>1. /\ RecordCoverage(conn, Key).pages = conn.pages
        /\ RecordCoverage(conn, Key).events = conn.events
    BY <1>2, RecordCoverageType DEF IInv, TypeOK
  <2> QED BY <1>1, <2>1 DEF CommitPage, Unwind
<1> QED BY <1>1, <1>2, <1>3 DEF IInv, ConnIsSound

\* The page and its events become durable together.
LEMMA CommitPageKeeps ==
  ASSUME IInv, CommitPage, TypeOK', Located'
  PROVE  IInv'
<1> DEFINE new == RowAt(Key, cur.idx, cur.cursor)
           longer == disk.pages[Key] \cup {new}
<1>1. /\ Key \in Keys
      /\ Chain(longer, Key) /\ IsLast(new, longer)
      /\ EventsOf(longer) = EventsOf(disk.pages[Key])
                              \cup {[idx |-> cur.idx, cursor |-> cur.cursor]}
  BY CommitLands DEF Extends
<1>2. disk.pages \in [Keys -> SUBSET PageRow] /\ disk.events \in [Keys -> SUBSET EventRow]
  BY DEF IInv, TypeOK, Database
<1>3. /\ disk'.pages = [disk.pages EXCEPT ![Key] = longer]
      /\ disk'.events = [disk.events EXCEPT ![Key] =
                          @ \cup {[idx |-> cur.idx, cursor |-> cur.cursor]}]
      /\ conn'.pages = disk'.pages /\ conn'.events = disk'.events
  BY CommitLands
<1>4. DiskIsSound'
  BY <1>1, <1>2, <1>3 DEF IInv, DiskIsSound
<1>5. pc' = "fetch" => Follows(disk'.pages[Key'], cur'.idx, cur'.cursor)
  <2> SUFFICES ASSUME pc' = "fetch"
               PROVE  Follows(disk'.pages[Key'], cur'.idx, cur'.cursor)
    OBVIOUS
  <2>1. /\ NextCursor # None /\ Key' = Key
        /\ cur'.idx = cur.idx + 1 /\ cur'.cursor = NextCursor
    BY DEF CommitPage, Unwind, Key, Run, Stream, Report
  <2>2. disk'.pages[Key'] = longer
    BY <1>1, <1>2, <1>3, <2>1
  <2>3. new.idx = cur.idx /\ new.next = NextCursor
    BY DEF RowAt, NextCursor
  <2> QED BY <1>1, <2>1, <2>2, <2>3 DEF Follows, IsLast
<1>6. ConnIsSound'
  BY <1>3, <1>5 DEF CommitPage, Unwind, ConnIsSound, SameRows, InStream, InTransaction
<1> QED BY <1>4, <1>6 DEF IInv

\* Every step keeps the invariant.
LEMMA IInvStep == IInv /\ [Next]_vars => IInv'
<1> SUFFICES ASSUME IInv, [Next]_vars PROVE IInv'
  OBVIOUS
<1>1. TypeOK' /\ Located'
  BY IInvHasLast, TypeStep DEF IInv
<1>2. CASE UNCHANGED vars
  BY <1>1, <1>2 DEF vars, IInv, DiskIsSound, ConnIsSound, SameRows, InStream,
                    InTransaction, Key, Run, Stream, Report
<1>3. CASE Next /\ Loud
  BY <1>1, <1>3, ResetKeeps, ResumeKeeps, InsertPageKeeps, InsertEventsKeeps,
     CommitPageKeeps DEF Loud
<1>4. CASE Next /\ ~Loud
  BY <1>1, <1>4, QuietSteps, QuietKeeps
<1> QED BY <1>2, <1>3, <1>4

(***************************************************************************)
(* The theorems.                                                           *)
(***************************************************************************)
LEMMA Invariance == Spec => []IInv
BY IInvInit, IInvStep, PTL DEF Spec

\* Every variable keeps its type, in every instance.
THEOREM TypeCorrect == Spec => []TypeOK
<1>1. IInv => TypeOK
  BY DEF IInv
<1> QED BY <1>1, Invariance, PTL

\* The checkpoint on disk never claims a page whose events did not land, and no
\* events are on disk without their page (collect.py, _resume_point).
THEOREM CheckpointTrue == Spec => []CheckpointMatchesEvents
<1>1. IInv => CheckpointMatchesEvents
  BY DEF IInv, DiskIsSound, EventsOf, CheckpointMatchesEvents
<1> QED BY <1>1, Invariance, PTL

\* Whatever interrupts a collection and whenever it is resumed, what is stored of
\* a stream is a gapless prefix of its chain of pages.
THEOREM PrefixStored == Spec => []StoredIsPrefix
<1>1. IInv => StoredIsPrefix
  BY DEF IInv, DiskIsSound, Chain, StoredIsPrefix
<1> QED BY <1>1, Invariance, PTL

\* No step but a reset removes or replaces a page or an event that landed.
THEOREM NothingLost == Spec => PagesNeverLost
<1>1. IInv /\ [Next]_vars =>
        [pc # "refresh" => \A k \in Keys : /\ disk.pages[k] \subseteq disk'.pages[k]
                                           /\ disk.events[k] \subseteq disk'.events[k]]_vars
  <2> SUFFICES ASSUME IInv, Next, pc # "refresh", NEW k \in Keys
               PROVE  /\ disk.pages[k] \subseteq disk'.pages[k]
                      /\ disk.events[k] \subseteq disk'.events[k]
    BY DEF vars
  <2>1. CASE ~Loud
    BY <2>1, QuietSteps DEF Quiet
  <2>2. CASE CommitPage
    BY <2>2, CommitLands DEF IInv, TypeOK, Database
  <2>3. CASE ResumeStream \/ InsertPage \/ InsertEvents
    BY <2>3 DEF ResumeStream, InsertPage, InsertEvents, Pending
  <2> QED BY <2>1, <2>2, <2>3 DEF Loud, ResetRunEvents
<1> QED BY <1>1, Invariance, PTL DEF Spec, PagesNeverLost

(***************************************************************************)
(* The refinement: the collector implements the abstract store.            *)
(***************************************************************************)
Pairs(rows) == {<<p.idx, p.cursor>> : p \in rows}

\* What the abstract store sees of one stream.
LEMMA LandedAt ==
  ASSUME NEW k \in Keys PROVE landed[k] = Pairs(disk.pages[k])
BY DEF landed, Pairs

\* The page that follows the stored chain is one the abstract store accepts.
LEMMA FollowsIsFollowing ==
  ASSUME IInv, NEW k \in Keys, NEW i, NEW c, Follows(disk.pages[k], i, c)
  PROVE  <<i, c>> \in Store!Following(k)
<1> DEFINE rows == disk.pages[k]
<1>1. rows \in SUBSET PageRow /\ IsPrefix(rows, k) /\ landed[k] = Pairs(rows)
  BY LandedAt DEF IInv, TypeOK, Database, DiskIsSound, Chain
<1>2. CASE rows = {}
  BY <1>1, <1>2 DEF Follows, Store!Following, Pairs
<1>3. ASSUME NEW l \in rows, IsLast(l, rows), l.next # None, i = l.idx + 1, c = l.next
      PROVE  <<i, c>> \in Store!Following(k)
  <2> DEFINE n == <<l.idx, l.cursor>>
  <2>1. n \in landed[k] /\ landed[k] # {}
    BY <1>1, <1>3 DEF Pairs
  <2>2. \A o \in landed[k] : o[1] <= n[1]
    BY <1>1, <1>3 DEF Pairs, IsLast
  <2>3. n \in Store!Newest(k)
    BY <2>1, <2>2 DEF Store!Newest
  <2>4. NextOf[k][n[2]] = l.next
    BY <1>1, <1>3 DEF IsPrefix
  <2> QED BY <1>3, <2>1, <2>3, <2>4 DEF Store!Following
<1> QED BY <1>2, <1>3 DEF Follows

\* The empty database is the empty store.
LEMMA StoreInit == Init => Store!Init
<1> SUFFICES ASSUME Init PROVE landed = [k \in Runs \X Streams |-> {}]
  BY DEF Store!Init
<1>1. \A k \in Keys : disk.pages[k] = {}
  BY DEF Init
<1> QED BY <1>1 DEF landed, Keys

\* Every step lands a page, discards a run, or is invisible.
LEMMA StoreStep == IInv /\ [Next]_vars => [Store!Next]_landed
<1> SUFFICES ASSUME IInv, [Next]_vars PROVE [Store!Next]_landed
  OBVIOUS
<1>1. CASE UNCHANGED vars
  BY <1>1 DEF vars, landed
<1>2. CASE Next /\ ~Loud
  BY <1>2, QuietSteps DEF Quiet, landed
<1>3. CASE ResumeStream \/ InsertPage \/ InsertEvents
  BY <1>3 DEF ResumeStream, InsertPage, InsertEvents, Pending, landed
<1>4. ASSUME NEW r \in Runs, ResetRunEvents(r) PROVE Store!Discard(r)
  <2>1. disk'.pages = [k \in Keys |-> IF k[1] = r THEN {} ELSE disk.pages[k]]
    BY <1>4 DEF IInv, ConnIsSound, SameRows, InTransaction, ResetRunEvents, Commit,
                TypeOK, Database
  <2>2. landed' = [k \in Keys |-> IF k[1] = r THEN {} ELSE landed[k]]
    BY <2>1 DEF landed
  <2> QED BY <2>2 DEF Store!Discard, Keys
<1>5. CASE CommitPage
  <2> DEFINE q == <<cur.idx, cur.cursor>>
  <2>1. Key \in Keys /\ q \in Store!Following(Key)
    BY <1>5, CommitLands, FollowsIsFollowing
  <2>2. landed' = [landed EXCEPT ![Key] = @ \cup {q}]
    <3>1. \A k \in Keys : disk'.pages[k] =
            IF k = Key THEN disk.pages[k] \cup {RowAt(Key, cur.idx, cur.cursor)}
                       ELSE disk.pages[k]
      BY <1>5, CommitLands DEF IInv, TypeOK, Database
    <3>2. RowAt(Key, cur.idx, cur.cursor).idx = cur.idx
          /\ RowAt(Key, cur.idx, cur.cursor).cursor = cur.cursor
      BY DEF RowAt
    <3>3. landed' = [k \in Keys |-> landed'[k]] /\ landed = [k \in Keys |-> landed[k]]
      BY DEF landed
    <3>4. ASSUME NEW k \in Keys
          PROVE  landed'[k] = IF k = Key THEN landed[k] \cup {q} ELSE landed[k]
      <4>1. /\ landed'[k] = {<<p.idx, p.cursor>> : p \in disk'.pages[k]}
            /\ landed[k] = {<<p.idx, p.cursor>> : p \in disk.pages[k]}
        BY DEF landed
      <4>2. CASE k = Key
        <5>1. disk'.pages[k] = disk.pages[k] \cup {RowAt(Key, cur.idx, cur.cursor)}
          BY <3>1, <4>2
        <5> QED BY <3>2, <4>1, <4>2, <5>1
      <4>3. CASE k # Key
        BY <3>1, <4>1, <4>3
      <4> QED BY <4>2, <4>3
    <3> QED BY <2>1, <3>3, <3>4
  <2> QED BY <2>1, <2>2 DEF Store!Next, Store!Land, Keys
<1> QED BY <1>1, <1>2, <1>3, <1>4, <1>5 DEF Loud, Store!Next

\* Seen through the rows on disk, every behaviour of the collector, its faults
\* included, is a behaviour of the abstract store.
THEOREM ImplementsStore == Spec => Ingested
BY StoreInit, StoreStep, Invariance, PTL DEF Spec, Ingested, Store!Spec


-----------------------------------------------------------------------------
(***************************************************************************)
(* How far the end of a process is.  A job has reports left, a report has  *)
(* runs, a run has streams and a stream has pages; each counts from the    *)
(* most there can be, so that what is opened comes out of what opened it.  *)
(***************************************************************************)
ReportsLeft ==
  CASE pc = "refresh" -> Len(Candidates) + 6
    [] pc = "start" -> Len(Candidates) + 5
    [] pc = "budget" -> Len(Candidates) + 4
    [] pc = "report" \/ InReport -> Len(Candidates) + 4 - at.report
    [] pc = "closing" -> 2
    [] pc = "finish" -> 1
    [] OTHER -> 0

RunsLeft ==
  CASE pc = "report" /\ at.report <= Len(Candidates) -> 3 * (Len(FightsIn[Report]) + 1)
    [] pc = "run" -> 3 * (Len(FightsIn[Report]) + 1 - at.fight) + 2
    [] pc = "pulls" -> 3 * (Len(FightsIn[Report]) + 1 - at.fight) + 1
    [] pc = "stream" \/ InStream -> 3 * (Len(FightsIn[Report]) + 1 - at.fight)
    [] OTHER -> 0

StreamsLeft == IF pc = "stream" \/ InStream THEN Len(Requests(Run)) + 1 - at.stream ELSE 0

PagesLeft ==
  CASE pc = "stream" -> 3 * MaxPages + 4
    [] pc = "fetch" -> 3 * (MaxPages - cur.fetched) + 3
    [] pc = "events" -> 3 * (MaxPages - cur.fetched) + 2
    [] pc = "commit" -> 3 * (MaxPages - cur.fetched) + 1
    [] OTHER -> 0

FarFromEnd ==
  ReportsLeft \in Nat /\ RunsLeft \in Nat /\ StreamsLeft \in Nat /\ PagesLeft \in Nat

Nearer ==
  \/ ReportsLeft' < ReportsLeft
  \/ /\ ReportsLeft' = ReportsLeft
     /\ \/ RunsLeft' < RunsLeft
        \/ /\ RunsLeft' = RunsLeft
           /\ \/ StreamsLeft' < StreamsLeft
              \/ StreamsLeft' = StreamsLeft /\ PagesLeft' < PagesLeft

Resets == pc = "refresh" /\ pc' = "refresh" /\ todo' \subseteq todo /\ todo' # todo

\* Every step of a process, and every fault that hits it, brings its end nearer,
\* or is one of the resets that --refresh asked for.
StepsRunOut == [][pc # "idle" => Nearer \/ Resets]_vars

\* The loops stop at the end of what they go through.
LoopsInside ==
  /\ pc \in {"idle", "refresh", "start", "budget"} => at = AtStart
  /\ pc = "report" => at.report <= Len(Candidates) + 1 /\ at.fight = 1
  /\ pc = "run" => at.fight <= Len(FightsIn[Report]) + 1
  /\ pc = "stream" => at.stream <= Len(Requests(Run)) + 1
  /\ pc = "fetch" => cur.fetched <= MaxPages
  /\ pc \in {"events", "commit"} => cur.fetched < MaxPages

\* Where a step may take a process.
Goes(from, to) == pc \in from /\ pc' \in to /\ at' = at

Moves ==
  \/ pc' = "idle" /\ at' = AtStart
  \/ Resets /\ at' = at
  \/ Goes({"refresh"}, {"start"}) \/ Goes({"start"}, {"budget"}) \/ Goes({"budget"}, {"report"})
  \/ (pc = "report" \/ InReport) /\ pc' = "closing"
  \/ pc = "closing" /\ pc' = "finish"
  \/ (AtReport \/ InReport) /\ pc' = "report" /\ at' = NextReport
  \/ AtReport /\ pc' = "run" /\ at' = at
  \/ Goes({"run"}, {"pulls"}) /\ at.fight <= Len(FightsIn[Report])
  \/ pc = "pulls" /\ pc' = "stream" /\ at' = [at EXCEPT !.stream = 1]
  \/ pc \in {"pulls", "stream", "fetch"} /\ pc' = "run" /\ at' = NextFight
  \/ /\ pc \in {"stream", "commit"} /\ pc' = "stream" /\ at' = NextStream
     /\ at.stream <= Len(Requests(Run))
  \/ Goes({"stream"}, {"fetch"}) /\ cur'.fetched = 0
  \/ Goes({"fetch"}, {"events"}) /\ cur' = cur /\ cur.fetched < MaxPages
  \/ Goes({"events"}, {"commit"}) /\ cur' = cur
  \/ Goes({"commit"}, {"fetch"}) /\ cur'.fetched = cur.fetched + 1

\* Every step is a move.
LEMMA StepsMove == ASSUME IInv, Next, pc # "idle" PROVE Moves
<1>0. pc \in Place /\ TypeOK /\ Located
  BY DEF IInv, TypeOK
<1>1. CASE \E r \in Runs : ResetRunEvents(r)
  <2>1. Resets /\ at' = at
    BY <1>1 DEF ResetRunEvents, Resets, position
  <2> QED BY <2>1 DEF Moves
<1>2. CASE AssertIdentityScheme \/ StartJob \/ ReadBudget
  <2>1. \/ pc' = "idle" /\ at' = AtStart
        \/ Goes({"refresh"}, {"start"}) \/ Goes({"start"}, {"budget"}) \/ Goes({"budget"}, {"report"})
    BY <1>2 DEF AssertIdentityScheme, StartJob, ReadBudget, EndProcess, Goes, position
  <2> QED BY <2>1 DEF Moves
<1>3. CASE OpenReport \/ NoMatchingRuns \/ ReportUnavailable \/ ReportRefused \/ EndReport
  <2>1. \/ AtReport /\ pc' = "run" /\ at' = at
        \/ (AtReport \/ InReport) /\ pc' = "report" /\ at' = NextReport
    BY <1>3 DEF OpenReport, NoMatchingRuns, SkipReport, ReportUnavailable, ReportRefused,
                EndReport, AtReport, InReport
  <2> QED BY <2>1 DEF Moves
<1>4. CASE EndOfReports \/ RecordApiCost
  <2>1. ((pc = "report" \/ InReport) /\ pc' = "closing") \/ (pc = "closing" /\ pc' = "finish")
    BY <1>4 DEF EndOfReports, RecordApiCost
  <2> QED BY <2>1 DEF Moves
<1>5. CASE UpsertRun \/ CollectPulls \/ CompleteRun \/ StreamRefused
  <2>1. \/ Goes({"run"}, {"pulls"}) /\ at.fight <= Len(FightsIn[Report])
        \/ pc = "pulls" /\ pc' = "stream" /\ at' = [at EXCEPT !.stream = 1]
        \/ pc \in {"pulls", "stream", "fetch"} /\ pc' = "run" /\ at' = NextFight
    BY <1>5 DEF UpsertRun, CollectPulls, CompleteRun, StreamRefused, Goes, position
  <2> QED BY <2>1 DEF Moves
<1>6. CASE SkipStream \/ ResumeStream
  <2>1. \/ /\ pc \in {"stream", "commit"} /\ pc' = "stream" /\ at' = NextStream
           /\ at.stream <= Len(Requests(Run))
        \/ Goes({"stream"}, {"fetch"}) /\ cur'.fetched = 0
    BY <1>6 DEF SkipStream, ResumeStream, AtStream, Goes
  <2> QED BY <2>1 DEF Moves
<1>7. CASE InsertPage \/ InsertEvents
  <2>1. \/ Goes({"fetch"}, {"events"}) /\ cur' = cur /\ cur.fetched < MaxPages
        \/ Goes({"events"}, {"commit"}) /\ cur' = cur
    BY <1>7 DEF InsertPage, InsertEvents, Goes, position
  <2> QED BY <2>1 DEF Moves
<1>8. CASE CommitPage
  <2>1. InStream /\ InReport
    BY <1>8 DEF CommitPage, InStream, InReport
  <2>2. at.stream <= Len(Requests(Run))
    BY <1>0, <2>1 DEF Located
  <2>3. \/ pc' = "closing"
        \/ pc = "commit" /\ pc' = "stream" /\ at' = NextStream
        \/ Goes({"commit"}, {"fetch"}) /\ cur'.fetched = cur.fetched + 1
    BY <1>8 DEF CommitPage, Unwind, Goes
  <2> QED BY <2>1, <2>2, <2>3 DEF Moves
<1>9. CASE PageCeiling \/ PageRejected \/ FatalError \/ DatabaseFails \/ Interrupt
  <2>1. (pc = "report" \/ InReport) /\ pc' = "closing"
    BY <1>9 DEF PageCeiling, PageRejected, FatalError, DatabaseFails, Interrupt, Unwind,
                Requesting, AtReport, InTransaction, InStream, InReport
  <2> QED BY <2>1 DEF Moves
<1>10. CASE FinishJob \/ QuotaExhausted \/ Crash
  BY <1>10 DEF FinishJob, QuotaExhausted, Crash, EndProcess, Moves
<1>11. ~(\E refresh \in BOOLEAN, id \in Schemes : OpenDatabase(refresh, id)) /\ ~Dedupe
  BY DEF OpenDatabase, Dedupe
<1> QED BY <1>1, <1>2, <1>3, <1>4, <1>5, <1>6, <1>7, <1>8, <1>9, <1>10, <1>11
        DEF Next, Work, Environment

\* What the counts are made of.
LEMMA LengthsAre ==
  ASSUME IInv
  PROVE  /\ Len(Candidates) \in Nat /\ MaxPages \in Nat
         /\ at.report \in Nat \ {0} /\ at.fight \in Nat \ {0} /\ at.stream \in Nat \ {0}
         /\ cur.fetched \in Nat
         /\ AtReport \/ InReport => Len(FightsIn[Report]) \in Nat /\ at.report <= Len(Candidates)
         /\ InReport /\ pc # "run" => Len(Requests(Run)) \in Nat /\ at.fight <= Len(FightsIn[Report])
<1>1. TypeOK /\ Located
  BY DEF IInv
<1>2. /\ Len(Candidates) \in Nat /\ MaxPages \in Nat
      /\ at.report \in Nat \ {0} /\ at.fight \in Nat \ {0} /\ at.stream \in Nat \ {0}
      /\ cur.fetched \in Nat
  BY <1>1, CollectorAssumption DEF TypeOK, Position, OpenStream
<1>3. AtReport => Len(FightsIn[Report]) \in Nat /\ at.report <= Len(Candidates)
  <2> SUFFICES ASSUME AtReport PROVE Len(FightsIn[Report]) \in Nat /\ at.report <= Len(Candidates)
    OBVIOUS
  <2>1. at.report \in 1 .. Len(Candidates)
    BY <1>2 DEF AtReport
  <2>2. Report \in Reports
    BY <2>1, CollectorAssumption DEF Report
  <2>3. FightsIn[Report] \in Seq(Runs)
    BY <2>2, CollectorAssumption
  <2> QED BY <1>2, <2>1, <2>3
<1>4. InReport => Len(FightsIn[Report]) \in Nat /\ at.report <= Len(Candidates)
  BY <1>1, PositionsInside DEF Located
<1>5. InReport /\ pc # "run" => Len(Requests(Run)) \in Nat /\ at.fight <= Len(FightsIn[Report])
  BY <1>1, PositionsInside, RequestsType DEF Located
<1> QED BY <1>2, <1>3, <1>4, <1>5

\* Each count by itself.
LEMMA ReportsLeftIs ==
  /\ pc = "refresh" => ReportsLeft = Len(Candidates) + 6
  /\ pc = "start" => ReportsLeft = Len(Candidates) + 5
  /\ pc = "budget" => ReportsLeft = Len(Candidates) + 4
  /\ pc = "report" \/ InReport => ReportsLeft = Len(Candidates) + 4 - at.report
  /\ pc = "closing" => ReportsLeft = 2
  /\ pc = "finish" => ReportsLeft = 1
  /\ pc = "idle" => ReportsLeft = 0
<1> QED BY DEF ReportsLeft, InReport, InStream

\* The runs of a report are counted from when it is opened.
LEMMA RunsLeftIs ==
  /\ AtReport => RunsLeft = 3 * (Len(FightsIn[Report]) + 1)
  /\ pc = "report" /\ ~AtReport => RunsLeft = 0
  /\ pc = "run" => RunsLeft = 3 * (Len(FightsIn[Report]) + 1 - at.fight) + 2
  /\ pc = "pulls" => RunsLeft = 3 * (Len(FightsIn[Report]) + 1 - at.fight) + 1
  /\ pc = "stream" \/ InStream => RunsLeft = 3 * (Len(FightsIn[Report]) + 1 - at.fight)
  /\ pc \in {"idle", "refresh", "start", "budget", "closing", "finish"} => RunsLeft = 0
<1> QED BY DEF RunsLeft, AtReport, InStream

\* The streams are those of a run.
LEMMA StreamsLeftIs ==
  /\ pc = "stream" \/ InStream => StreamsLeft = Len(Requests(Run)) + 1 - at.stream
  /\ ~(pc = "stream" \/ InStream) => StreamsLeft = 0
<1> QED BY DEF StreamsLeft

\* The pages are those of a stream, with three steps to each.
LEMMA PagesLeftIs ==
  /\ pc = "stream" => PagesLeft = 3 * MaxPages + 4
  /\ pc = "fetch" => PagesLeft = 3 * (MaxPages - cur.fetched) + 3
  /\ pc = "events" => PagesLeft = 3 * (MaxPages - cur.fetched) + 2
  /\ pc = "commit" => PagesLeft = 3 * (MaxPages - cur.fetched) + 1
  /\ ~(pc = "stream" \/ InStream) => PagesLeft = 0
<1> QED BY DEF PagesLeft, InStream

\* Where the loops go.
LEMMA LoopsGo ==
  ASSUME IInv
  PROVE  /\ NextReport.report = at.report + 1 /\ NextReport.fight = 1
         /\ NextFight.report = at.report /\ NextFight.fight = at.fight + 1
         /\ NextStream.report = at.report /\ NextStream.fight = at.fight
         /\ NextStream.stream = at.stream + 1
         /\ [at EXCEPT !.stream = 1].report = at.report
         /\ [at EXCEPT !.stream = 1].fight = at.fight
         /\ [at EXCEPT !.stream = 1].stream = 1
         /\ AtStart.report = 1 /\ AtStart.fight = 1
<1>1. at \in Position
  BY DEF IInv, TypeOK
<1> QED BY <1>1 DEF Position, NextReport, NextFight, NextStream, AtStart

\* A process that stays in a report, or in a run, is in the same one.
LEMMA SamePlace ==
  /\ at'.report = at.report => Report' = Report
  /\ at'.report = at.report /\ at'.fight = at.fight => Run' = Run
<1> QED BY DEF Report, Run

\* The loops are never left behind.
LEMMA LoopsStep == IInv /\ LoopsInside /\ [Next]_vars => LoopsInside'
<1> SUFFICES ASSUME IInv, LoopsInside, [Next]_vars PROVE LoopsInside'
  OBVIOUS
<1>0. /\ Len(Candidates) \in Nat /\ MaxPages \in Nat
      /\ at.report \in Nat \ {0} /\ at.fight \in Nat \ {0} /\ at.stream \in Nat \ {0}
      /\ cur.fetched \in Nat
  BY LengthsAre
<1>1. CASE pc = "idle" \/ UNCHANGED vars
  <2>1. CASE UNCHANGED vars
    <3>1. UNCHANGED <<pc, at, cur>> /\ Report' = Report /\ Run' = Run
      BY <2>1 DEF vars, Report, Run
    <3> QED BY <3>1 DEF LoopsInside
  <2>2. CASE pc = "idle" /\ Next
    <3>1. pc' \in {"idle", "refresh"} /\ at' = at
      BY <2>2 DEF Next, Work, ResetRunEvents, AssertIdentityScheme, StartJob, ReadBudget,
         OpenReport, NoMatchingRuns, AtReport, EndReport, EndOfReports, UpsertRun, CollectPulls,
         SkipStream, ResumeStream, AtStream, CompleteRun, InsertPage, InsertEvents, CommitPage,
         PageCeiling, PageRejected, RecordApiCost, FinishJob, Environment, OpenDatabase,
         ReportUnavailable, ReportRefused, StreamRefused, FatalError, DatabaseFails, Requesting,
         InTransaction, InStream, Interrupt, QuotaExhausted, Crash, Dedupe, position
    <3> QED BY <2>2, <3>1 DEF LoopsInside
  <2> QED BY <1>1, <2>1, <2>2
<1>2. CASE pc # "idle" /\ Next
  <2>0. Moves
    BY <1>2, StepsMove
  <2>1. CASE pc' = "idle" /\ at' = AtStart
    BY <2>1 DEF LoopsInside
  <2>2. CASE \/ Resets /\ at' = at
             \/ Goes({"refresh"}, {"start"}) \/ Goes({"start"}, {"budget"})
    BY <2>2 DEF Resets, Goes, LoopsInside
  <2>3. CASE Goes({"budget"}, {"report"})
    <3>1. at' = AtStart /\ pc' = "report"
      BY <2>3 DEF Goes, LoopsInside
    <3>2. at'.report = 1 /\ at'.fight = 1
      BY <3>1, LoopsGo
    <3> QED BY <1>0, <3>1, <3>2 DEF LoopsInside
  <2>4. CASE pc' \in {"closing", "finish", "pulls"}
    BY <2>4 DEF LoopsInside
  <2>5. CASE (AtReport \/ InReport) /\ pc' = "report" /\ at' = NextReport
    <3>1. at.report <= Len(Candidates)
      BY <2>5, LengthsAre
    <3>2. at'.report = at.report + 1 /\ at'.fight = 1
      BY <2>5, LoopsGo
    <3> QED BY <1>0, <2>5, <3>1, <3>2 DEF LoopsInside
  <2>6. CASE AtReport /\ pc' = "run" /\ at' = at
    <3>1. Len(FightsIn[Report]) \in Nat /\ at.fight = 1
      BY <2>6, LengthsAre DEF AtReport, LoopsInside
    <3>2. Report' = Report
      BY <2>6, SamePlace
    <3> QED BY <2>6, <3>1, <3>2 DEF LoopsInside
  <2>7. CASE pc = "pulls" /\ pc' = "stream" /\ at' = [at EXCEPT !.stream = 1]
    <3>1. Len(Requests(Run)) \in Nat
      BY <2>7, LengthsAre DEF InReport
    <3>2. Run' = Run /\ at'.stream = 1
      BY <2>7, LoopsGo, SamePlace
    <3> QED BY <2>7, <3>1, <3>2 DEF LoopsInside
  <2>8. CASE pc \in {"pulls", "stream", "fetch"} /\ pc' = "run" /\ at' = NextFight
    <3>1. Len(FightsIn[Report]) \in Nat /\ at.fight <= Len(FightsIn[Report])
      BY <2>8, LengthsAre DEF InReport, InStream
    <3>2. Report' = Report /\ at'.fight = at.fight + 1
      BY <2>8, LoopsGo, SamePlace
    <3> QED BY <1>0, <2>8, <3>1, <3>2 DEF LoopsInside
  <2>9. CASE /\ pc \in {"stream", "commit"} /\ pc' = "stream" /\ at' = NextStream
             /\ at.stream <= Len(Requests(Run))
    <3>1. Len(Requests(Run)) \in Nat
      BY <2>9, LengthsAre DEF InReport, InStream
    <3>2. Run' = Run /\ at'.stream = at.stream + 1
      BY <2>9, LoopsGo, SamePlace
    <3> QED BY <1>0, <2>9, <3>1, <3>2 DEF LoopsInside
  <2>10. CASE Goes({"stream"}, {"fetch"}) /\ cur'.fetched = 0
    BY <1>0, <2>10 DEF Goes, LoopsInside
  <2>11. CASE \/ Goes({"fetch"}, {"events"}) /\ cur' = cur /\ cur.fetched < MaxPages
              \/ Goes({"events"}, {"commit"}) /\ cur' = cur
    BY <2>11 DEF Goes, LoopsInside
  <2>12. CASE Goes({"commit"}, {"fetch"}) /\ cur'.fetched = cur.fetched + 1
    <3>1. cur.fetched < MaxPages /\ pc' = "fetch"
      BY <2>12 DEF Goes, LoopsInside
    <3>2. cur'.fetched <= MaxPages
      BY <1>0, <2>12, <3>1
    <3> QED BY <3>1, <3>2 DEF LoopsInside
  <2>13. Goes({"run"}, {"pulls"}) => pc' = "pulls"
    BY DEF Goes
  <2> QED BY <2>0, <2>1, <2>2, <2>3, <2>4, <2>5, <2>6, <2>7, <2>8, <2>9, <2>10, <2>11, <2>12, <2>13
          DEF Moves
<1> QED BY <1>1, <1>2

\* No count is ever below nothing.
LEMMA CountsAre == ASSUME IInv, LoopsInside PROVE FarFromEnd
<1>0. /\ Len(Candidates) \in Nat /\ MaxPages \in Nat
      /\ at.report \in Nat \ {0} /\ at.fight \in Nat \ {0} /\ at.stream \in Nat \ {0}
      /\ cur.fetched \in Nat
      /\ AtReport \/ InReport => Len(FightsIn[Report]) \in Nat /\ at.report <= Len(Candidates)
      /\ InReport /\ pc # "run" => Len(Requests(Run)) \in Nat /\ at.fight <= Len(FightsIn[Report])
  BY LengthsAre
<1>1. pc \in Place
  BY DEF IInv, TypeOK
<1>2. CASE pc = "report"
  <2>1. at.report <= Len(Candidates) + 1
    BY <1>2 DEF LoopsInside
  <2>2. ReportsLeft \in Nat
    BY <1>0, <1>2, <2>1, ReportsLeftIs
  <2>3. RunsLeft \in Nat
    BY <1>0, <1>2, RunsLeftIs
  <2>4. StreamsLeft = 0 /\ PagesLeft = 0
    BY <1>2, StreamsLeftIs, PagesLeftIs DEF InStream
  <2> QED BY <2>2, <2>3, <2>4 DEF FarFromEnd
<1>3. CASE pc \in {"run", "pulls"}
  <2>1. InReport /\ (pc = "run" => at.fight <= Len(FightsIn[Report]) + 1)
    BY <1>3 DEF LoopsInside, InReport
  <2>2. ReportsLeft \in Nat
    BY <1>0, <2>1, ReportsLeftIs
  <2>3. at.fight <= Len(FightsIn[Report]) + 1 /\ Len(FightsIn[Report]) \in Nat
    BY <1>0, <1>3, <2>1
  <2>4. RunsLeft \in Nat
    <3>1. \A n, f \in Nat : f <= n + 1 => 3 * (n + 1 - f) + 2 \in Nat /\ 3 * (n + 1 - f) + 1 \in Nat
      OBVIOUS
    <3>2. /\ 3 * (Len(FightsIn[Report]) + 1 - at.fight) + 2 \in Nat
          /\ 3 * (Len(FightsIn[Report]) + 1 - at.fight) + 1 \in Nat
      BY <1>0, <2>3, <3>1
    <3> QED BY <1>3, <3>2, RunsLeftIs
  <2>5. StreamsLeft = 0 /\ PagesLeft = 0
    BY <1>3, StreamsLeftIs, PagesLeftIs DEF InStream
  <2> QED BY <2>2, <2>4, <2>5 DEF FarFromEnd
<1>4. CASE pc = "stream" \/ InStream
  <2>1. InReport /\ pc # "run"
    BY <1>4 DEF InReport, InStream
  <2>2. at.stream <= Len(Requests(Run)) + 1
    <3>1. InStream => at.stream <= Len(Requests(Run))
      BY DEF IInv, Located
    <3>2. pc = "stream" => at.stream <= Len(Requests(Run)) + 1
      BY DEF LoopsInside
    <3>3. Len(Requests(Run)) \in Nat
      BY <1>0, <2>1
    <3> QED BY <1>0, <1>4, <3>1, <3>2, <3>3
  <2>3. ReportsLeft \in Nat
    BY <1>0, <2>1, ReportsLeftIs
  <2>4. RunsLeft \in Nat
    BY <1>0, <1>4, <2>1, RunsLeftIs
  <2>5. StreamsLeft \in Nat
    BY <1>0, <1>4, <2>1, <2>2, StreamsLeftIs
  <2>6. PagesLeft \in Nat
    <3>1. InStream => cur.fetched <= MaxPages
      BY <1>0 DEF LoopsInside, InStream
    <3> QED BY <1>0, <1>4, <3>1, PagesLeftIs DEF InStream
  <2> QED BY <2>3, <2>4, <2>5, <2>6 DEF FarFromEnd
<1>5. CASE pc \in {"idle", "refresh", "start", "budget", "closing", "finish"}
  <2>1. ReportsLeft \in Nat
    BY <1>0, <1>5, ReportsLeftIs
  <2>2. RunsLeft = 0 /\ StreamsLeft = 0 /\ PagesLeft = 0
    BY <1>5, RunsLeftIs, StreamsLeftIs, PagesLeftIs DEF InStream
  <2> QED BY <2>1, <2>2 DEF FarFromEnd
<1> QED BY <1>1, <1>2, <1>3, <1>4, <1>5 DEF Place, InStream

\* A step that leaves the report, or ends the job, leaves fewer reports.
LEMMA FewerReports ==
  ASSUME IInv, LoopsInside, pc # "idle",
         \/ pc' = "idle"
         \/ Goes({"refresh"}, {"start"}) \/ Goes({"start"}, {"budget"}) \/ Goes({"budget"}, {"report"})
         \/ (pc = "report" \/ InReport) /\ pc' = "closing"
         \/ pc = "closing" /\ pc' = "finish"
         \/ (AtReport \/ InReport) /\ pc' = "report" /\ at' = NextReport
  PROVE  ReportsLeft' < ReportsLeft
<1>0. Len(Candidates) \in Nat /\ at.report \in Nat \ {0}
  BY LengthsAre
<1>1. CASE pc' = "idle"
  <2>1. ReportsLeft' = 0
    BY <1>1 DEF ReportsLeft, InReport, InStream
  <2>2. pc \in Place /\ ReportsLeft \in Nat
    BY CountsAre DEF IInv, TypeOK, FarFromEnd
  <2>3. ReportsLeft # 0
    <3>1. CASE pc = "report" \/ InReport
      <4>1. at.report <= Len(Candidates) + 1
        BY <1>0, <3>1, LengthsAre DEF LoopsInside
      <4> QED BY <1>0, <3>1, <4>1, ReportsLeftIs
    <3>2. CASE ~(pc = "report" \/ InReport)
      BY <1>0, <2>2, <3>2, ReportsLeftIs DEF Place, InReport, InStream
    <3> QED BY <3>1, <3>2
  <2> QED BY <2>1, <2>2, <2>3
<1>2. CASE Goes({"refresh"}, {"start"}) \/ Goes({"start"}, {"budget"})
  <2>1. (pc = "refresh" /\ pc' = "start") \/ (pc = "start" /\ pc' = "budget")
    BY <1>2 DEF Goes
  <2>2. /\ pc' = "start" => ReportsLeft' = Len(Candidates) + 5
        /\ pc' = "budget" => ReportsLeft' = Len(Candidates) + 4
    BY DEF ReportsLeft, InReport, InStream
  <2> QED BY <1>0, <2>1, <2>2, ReportsLeftIs
<1>3. CASE Goes({"budget"}, {"report"})
  <2>1. pc = "budget" /\ pc' = "report" /\ at'.report = at.report
    BY <1>3 DEF Goes
  <2>2. ReportsLeft' = Len(Candidates) + 4 - at'.report
    BY <2>1 DEF ReportsLeft
  <2> QED BY <1>0, <2>1, <2>2, ReportsLeftIs
<1>4. CASE (pc = "report" \/ InReport) /\ pc' = "closing"
  <2>1. ReportsLeft' = 2
    BY <1>4 DEF ReportsLeft, InReport, InStream
  <2>2. at.report <= Len(Candidates) + 1
    BY <1>0, <1>4, LengthsAre DEF LoopsInside
  <2>3. ReportsLeft = Len(Candidates) + 4 - at.report
    BY <1>4, ReportsLeftIs
  <2> QED BY <1>0, <2>1, <2>2, <2>3
<1>5. CASE pc = "closing" /\ pc' = "finish"
  <2>1. ReportsLeft' = 1
    BY <1>5 DEF ReportsLeft, InReport, InStream
  <2> QED BY <1>5, <2>1, ReportsLeftIs
<1>6. CASE (AtReport \/ InReport) /\ pc' = "report" /\ at' = NextReport
  <2>1. ReportsLeft' = Len(Candidates) + 4 - at'.report
    BY <1>6 DEF ReportsLeft
  <2>2. at'.report = at.report + 1
    BY <1>6, LoopsGo
  <2>3. ReportsLeft = Len(Candidates) + 4 - at.report
    BY <1>6, ReportsLeftIs DEF AtReport
  <2> QED BY <1>0, <2>1, <2>2, <2>3
<1> QED BY <1>1, <1>2, <1>3, <1>4, <1>5, <1>6

\* A step that goes from one run to the next, or further into one, leaves fewer
\* runs of the report.
LEMMA FewerRuns ==
  ASSUME IInv, LoopsInside,
         \/ AtReport /\ pc' = "run" /\ at' = at
         \/ Goes({"run"}, {"pulls"}) /\ at.fight <= Len(FightsIn[Report])
         \/ pc = "pulls" /\ pc' = "stream" /\ at' = [at EXCEPT !.stream = 1]
         \/ pc \in {"pulls", "stream", "fetch"} /\ pc' = "run" /\ at' = NextFight
  PROVE  ReportsLeft' = ReportsLeft /\ RunsLeft' < RunsLeft
<1>0. /\ Len(Candidates) \in Nat /\ at.report \in Nat \ {0} /\ at.fight \in Nat \ {0}
      /\ AtReport \/ InReport
  <2>1. AtReport \/ InReport
    BY DEF Goes, InReport, InStream
  <2> QED BY <2>1, LengthsAre
<1>1. Len(FightsIn[Report]) \in Nat
  BY <1>0, LengthsAre
<1>2. at'.report = at.report /\ Report' = Report
  <2>1. at'.report = at.report
    BY LoopsGo DEF Goes
  <2> QED BY <2>1, SamePlace
<1>3. ReportsLeft' = ReportsLeft
  <2>1. ReportsLeft' = Len(Candidates) + 4 - at'.report
    BY DEF ReportsLeft, InReport, Goes
  <2>2. ReportsLeft = Len(Candidates) + 4 - at.report
    BY <1>0, ReportsLeftIs DEF AtReport
  <2> QED BY <1>2, <2>1, <2>2
<1>4. /\ pc' = "run" => RunsLeft' = 3 * (Len(FightsIn[Report]) + 1 - at'.fight) + 2
      /\ pc' = "pulls" => RunsLeft' = 3 * (Len(FightsIn[Report]) + 1 - at'.fight) + 1
      /\ pc' = "stream" => RunsLeft' = 3 * (Len(FightsIn[Report]) + 1 - at'.fight)
  BY <1>2 DEF RunsLeft, InStream
<1>5. CASE AtReport /\ pc' = "run" /\ at' = at
  <2>1. RunsLeft = 3 * (Len(FightsIn[Report]) + 1)
    BY <1>5, RunsLeftIs
  <2>2. RunsLeft' = 3 * (Len(FightsIn[Report]) + 1 - at.fight) + 2
    BY <1>4, <1>5
  <2> QED BY <1>0, <1>1, <1>3, <2>1, <2>2
<1>6. CASE Goes({"run"}, {"pulls"})
  <2>1. pc = "run" /\ pc' = "pulls" /\ at'.fight = at.fight
    BY <1>6 DEF Goes
  <2> QED BY <1>0, <1>1, <1>3, <1>4, <2>1, RunsLeftIs
<1>7. CASE pc = "pulls" /\ pc' = "stream" /\ at' = [at EXCEPT !.stream = 1]
  <2>1. at'.fight = at.fight
    BY <1>7, LoopsGo
  <2> QED BY <1>0, <1>1, <1>3, <1>4, <1>7, <2>1, RunsLeftIs
<1>8. CASE pc \in {"pulls", "stream", "fetch"} /\ pc' = "run" /\ at' = NextFight
  <2>1. at'.fight = at.fight + 1
    BY <1>8, LoopsGo
  <2>2. RunsLeft' = 3 * (Len(FightsIn[Report]) + 1 - (at.fight + 1)) + 2
    BY <1>4, <1>8, <2>1
  <2>3. \/ RunsLeft = 3 * (Len(FightsIn[Report]) + 1 - at.fight) + 1
        \/ RunsLeft = 3 * (Len(FightsIn[Report]) + 1 - at.fight)
    BY <1>8, RunsLeftIs DEF InStream
  <2>4. RunsLeft' = 3 * (Len(FightsIn[Report]) + 1 - at.fight) - 1
    <3>1. \A n, f \in Nat : 3 * (n + 1 - (f + 1)) + 2 = 3 * (n + 1 - f) - 1
      OBVIOUS
    <3>2. at.fight \in Nat
      BY <1>0
    <3> QED BY <1>1, <2>2, <3>1, <3>2
  <2> QED BY <1>0, <1>1, <1>3, <2>3, <2>4
<1> QED BY <1>5, <1>6, <1>7, <1>8

\* Within a run: what is left of the report stays, and fewer streams are left,
\* or as many and fewer pages of this one.
LEMMA FewerPages ==
  ASSUME IInv, LoopsInside,
         \/ /\ pc \in {"stream", "commit"} /\ pc' = "stream" /\ at' = NextStream
            /\ at.stream <= Len(Requests(Run))
         \/ Goes({"stream"}, {"fetch"}) /\ cur'.fetched = 0
         \/ Goes({"fetch"}, {"events"}) /\ cur' = cur /\ cur.fetched < MaxPages
         \/ Goes({"events"}, {"commit"}) /\ cur' = cur
         \/ Goes({"commit"}, {"fetch"}) /\ cur'.fetched = cur.fetched + 1
  PROVE  /\ ReportsLeft' = ReportsLeft /\ RunsLeft' = RunsLeft
         /\ \/ StreamsLeft' < StreamsLeft
            \/ StreamsLeft' = StreamsLeft /\ PagesLeft' < PagesLeft
<1>0. /\ MaxPages \in Nat /\ cur.fetched \in Nat /\ at.stream \in Nat \ {0}
      /\ InReport /\ pc # "run" /\ (pc = "stream" \/ InStream)
  <2>1. pc = "stream" \/ InStream
    BY DEF Goes, InStream
  <2> QED BY <2>1, LengthsAre DEF InReport, InStream
<1>1. Len(Requests(Run)) \in Nat
  BY <1>0, LengthsAre
<1>2. at'.report = at.report /\ at'.fight = at.fight /\ Report' = Report /\ Run' = Run
  <2>1. at'.report = at.report /\ at'.fight = at.fight
    BY LoopsGo DEF Goes
  <2> QED BY <2>1, SamePlace
<1>3. pc' \in {"stream", "fetch", "events", "commit"}
  BY DEF Goes
<1>4. ReportsLeft' = ReportsLeft /\ RunsLeft' = RunsLeft
  <2>1. ReportsLeft' = Len(Candidates) + 4 - at'.report
    BY <1>3 DEF ReportsLeft, InReport, InStream
  <2>2. RunsLeft' = 3 * (Len(FightsIn[Report]) + 1 - at'.fight)
    BY <1>2, <1>3 DEF RunsLeft, InStream
  <2> QED BY <1>0, <1>2, <2>1, <2>2, ReportsLeftIs, RunsLeftIs
<1>5. StreamsLeft' = Len(Requests(Run)) + 1 - at'.stream
  BY <1>2, <1>3 DEF StreamsLeft, InStream, Requests
<1>6. StreamsLeft = Len(Requests(Run)) + 1 - at.stream
  BY <1>0, StreamsLeftIs
<1>7. CASE pc' = "stream" /\ at' = NextStream
  <2>1. at'.stream = at.stream + 1
    BY <1>7, LoopsGo
  <2>2. StreamsLeft' < StreamsLeft
    BY <1>0, <1>1, <1>5, <1>6, <2>1
  <2> QED BY <1>4, <2>2
<1>8. CASE at' = at /\ pc' # "stream"
  <2>1. StreamsLeft' = StreamsLeft
    BY <1>5, <1>6, <1>8
  <2>2. /\ pc' = "fetch" => PagesLeft' = 3 * (MaxPages - cur'.fetched) + 3
        /\ pc' = "events" => PagesLeft' = 3 * (MaxPages - cur'.fetched) + 2
        /\ pc' = "commit" => PagesLeft' = 3 * (MaxPages - cur'.fetched) + 1
    BY DEF PagesLeft
  <2>3. CASE Goes({"stream"}, {"fetch"}) /\ cur'.fetched = 0
    <3>1. pc = "stream" /\ pc' = "fetch"
      BY <2>3 DEF Goes
    <3> QED BY <1>0, <1>4, <2>1, <2>2, <2>3, <3>1, PagesLeftIs
  <2>4. CASE Goes({"fetch"}, {"events"}) /\ cur' = cur
    <3>1. pc = "fetch" /\ pc' = "events" /\ cur'.fetched = cur.fetched
      BY <2>4 DEF Goes
    <3> QED BY <1>0, <1>4, <2>1, <2>2, <3>1, PagesLeftIs
  <2>5. CASE Goes({"events"}, {"commit"}) /\ cur' = cur
    <3>1. pc = "events" /\ pc' = "commit" /\ cur'.fetched = cur.fetched
      BY <2>5 DEF Goes
    <3> QED BY <1>0, <1>4, <2>1, <2>2, <3>1, PagesLeftIs
  <2>6. CASE Goes({"commit"}, {"fetch"}) /\ cur'.fetched = cur.fetched + 1
    <3>1. pc = "commit" /\ pc' = "fetch"
      BY <2>6 DEF Goes
    <3>2. /\ PagesLeft = 3 * (MaxPages - cur.fetched) + 1
          /\ PagesLeft' = 3 * (MaxPages - (cur.fetched + 1)) + 3
      BY <2>2, <2>6, <3>1, PagesLeftIs
    <3> QED BY <1>0, <1>4, <2>1, <3>2
  <2> QED BY <1>8, <2>3, <2>4, <2>5, <2>6
<1> QED BY <1>7, <1>8 DEF Goes

(***************************************************************************)
(* Whatever the server sends, whatever fails and however pages chain, no   *)
(* process runs for ever: each step leaves fewer reports, or as many and   *)
(* fewer runs of this one, or as many and fewer streams, or fewer pages of *)
(* the stream, all of them numbers; or it is a reset, of which there are   *)
(* as many as the file has runs.                                           *)
(***************************************************************************)
THEOREM ProcessesRunOut == Spec => []FarFromEnd /\ StepsRunOut
<1> DEFINE P == pc # "idle" => Nearer \/ Resets
<1>1. Init => LoopsInside
  BY DEF Init, LoopsInside
<1>2. IInv /\ LoopsInside => FarFromEnd
  BY CountsAre
<1>3. IInv /\ LoopsInside /\ [Next]_vars => [P]_vars
  <2> SUFFICES ASSUME IInv, LoopsInside, Next, pc # "idle" PROVE Nearer \/ Resets
    OBVIOUS
  <2>1. Moves
    BY StepsMove
  <2> QED BY <2>1, FewerReports, FewerRuns, FewerPages DEF Moves, Nearer
<1> QED BY <1>1, <1>2, <1>3, LoopsStep, Invariance, PTL DEF Spec, StepsRunOut
==============================================================================
