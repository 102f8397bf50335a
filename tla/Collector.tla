----------------------------- MODULE Collector -----------------------------
(***************************************************************************)
(* Collector (collect.py) over its SQLite database (db.py): a job walks a  *)
(* list of reports, every report a list of Mythic+ runs, every run a list  *)
(* of event streams, every stream a chain of pages.  It may be refused by  *)
(* the API, interrupted from the keyboard, killed, or started again, with  *)
(* or without --refresh; what it finds in the database is all it knows.    *)
(*                                                                         *)
(* The database is kept twice.  `disk` is what has been committed; `conn`  *)
(* is what the process's connection sees: the same plus the writes of the  *)
(* open transaction.  Python's sqlite3 opens a transaction at the first    *)
(* write and leaves it open until a commit, so a write made outside        *)
(* Database.transaction() stays pending until the next commit, whoever     *)
(* makes it, and is lost by the next rollback or crash.                    *)
(***************************************************************************)
EXTENDS Integers, Sequences, FiniteSets

CONSTANTS
  Reports,          \* every report
  Candidates,       \* the reports to collect, in order (a sequence)
  FightsIn,         \* FightsIn[report]: its Mythic+ runs, in order
  ArchivedReports,  \* reports whose events the API no longer serves
  Runs,             \* every run of every report
  PartyStreams,     \* the profile's event_types, as streams, in order
  FocusStreams,     \* the profile's focus_event_types, narrowed to one actor
  FocusAsked,       \* was --focus-player given?
  FocusRuns,        \* the runs whose roster holds the focus player
  Streams,          \* every stream of the profile
  TypeOf,           \* TypeOf[s]: the stream's (data_type, hostility)
  Cursors,          \* the timestamps a request can start at
  NextOf,           \* NextOf[k][c]: for the stream k = <<run, stream>>, the
                    \*   nextPageTimestamp of the page at cursor c
  EmptyAt,          \* EmptyAt[k]: the cursors whose page holds no event
  RepeatAt,         \* RepeatAt[k]: the cursors whose page only repeats events
                    \*   of the page before it
  Start,            \* the cursor of a stream's first page (rel_start_ms)
  Schemes,          \* identity schemes (version and salt) a process may run with
  MayRefresh,       \* may the operator pass --refresh?
  MayFail,          \* the kinds of fault this instance considers
  MaxPages,         \* paginate.DEFAULT_MAX_PAGES
  MaxJobs,          \* bound: processes started
  MaxFaults,        \* bound: faults over all processes
  None              \* SQL NULL

Keys == Runs \X Streams

Requests(r) ==
  PartyStreams \o
    (IF FocusAsked /\ r \in FocusRuns THEN FocusStreams ELSE <<>>)

\* A row of event_pages; an event row, with the page it hangs on.
PageRow  == [idx: Nat, cursor: Cursors, next: Cursors \cup {None}]
EventRow == [idx: Nat, cursor: Cursors]

CoverageStatus == {"never asked", "ok", "partial", "failed"}
RunStatus == {"absent", "metadata-only", "complete", "collection-failed",
              "archived-events-unavailable"}
JobStatus == {"no job", "running", "complete", "interrupted"}

Faults == {"unavailable", "refused", "fatal", "database", "interrupt", "quota",
           "crash"}

ASSUME CollectorAssumption ==
  /\ Candidates \in Seq(Reports)
  /\ FightsIn \in [Reports -> Seq(Runs)]
  /\ PartyStreams \in Seq(Streams) /\ FocusStreams \in Seq(Streams)
  /\ Cursors \subseteq Nat /\ Start \in Cursors
  /\ FocusRuns \subseteq Runs
  /\ NextOf \in [Keys -> [Cursors -> Cursors \cup {None}]]
  /\ EmptyAt \in [Keys -> SUBSET Cursors]
  /\ RepeatAt \in [Keys -> SUBSET Cursors]
  /\ None \notin Nat /\ None \notin Schemes
  /\ MaxPages \in Nat /\ MaxJobs \in Nat /\ MaxFaults \in Nat
  /\ MayRefresh \in BOOLEAN /\ FocusAsked \in BOOLEAN
  /\ MayFail \subseteq Faults

VARIABLES
  disk,     \* the committed database
  conn,     \* the database as the process's connection sees it
  pc,       \* where the process is; "idle" when there is none
  scheme,   \* the identity scheme of the process
  todo,     \* --refresh: the runs still to be reset
  at,       \* loop positions: report, fight and stream
  cur,      \* the open stream: page index, cursor, pages fetched by this process
  tally,    \* result.reports_attempted, _completed, _failed; clean: every
            \*   outcome of the current report is "complete" so far; seen and
            \*   resolved: FocusResolution's two counters are above 0
  exit,     \* why the last process ended, or how the current one is ending
  jobs,     \* processes started so far
  faults    \* faults so far

vars == <<disk, conn, pc, scheme, todo, at, cur, tally, exit, jobs, faults>>
position == <<at, cur, tally>>

(***************************************************************************)
(* The connection.                                                         *)
(***************************************************************************)

\* conn.commit(), and the end of Database.transaction(), with these contents.
Commit(db) == conn' = db /\ disk' = db

\* A write outside a transaction: it waits for somebody's commit.
Pending(db) == conn' = db /\ UNCHANGED disk

(***************************************************************************)
(* Reading the checkpoint back.                                            *)
(***************************************************************************)

\* ORDER BY page_index DESC LIMIT 1
LastPage(rows) == CHOOSE p \in rows : \A q \in rows : q.idx <= p.idx

\* Not the code: the last page is fetched again under its own index.
ResumePointSameIndex(db, k) ==
  IF db.pages[k] = {}
    THEN [cursor |-> None, idx |-> 0]
    ELSE [cursor |-> LastPage(db.pages[k]).next, idx |-> LastPage(db.pages[k]).idx]

\* Not the code: the resumption asks for the cursor of the last page again.
ResumePointSameCursor(db, k) ==
  IF db.pages[k] = {}
    THEN [cursor |-> None, idx |-> 0]
    ELSE [cursor |-> LastPage(db.pages[k]).cursor,
          idx    |-> LastPage(db.pages[k]).idx + 1]

\* _resume_point: the cursor to ask for and the index of the page to come.  A
\* cursor of None with an index above 0 means the stream is finished.
ResumePoint(db, k) ==
  IF db.pages[k] = {}
    THEN [cursor |-> None, idx |-> 0]
    ELSE [cursor |-> LastPage(db.pages[k]).next,
          idx    |-> LastPage(db.pages[k]).idx + 1]

\* The stored chain of the stream reaches its end.
Exhausted(db, k) ==
  db.pages[k] # {} /\ LastPage(db.pages[k]).next = None

\* Not the code: any stored page makes the stream "ok".
CoverageOfAnyPage(db, k, error) ==
  CASE error -> "failed"
    [] ~error /\ db.pages[k] # {} -> "ok"
    [] OTHER -> "partial"

\* Not the code: the coverage row takes a word of dungeon_runs.
CoverageOfMixed(db, k, error) ==
  IF Exhausted(db, k) THEN "complete" ELSE "partial"

(***************************************************************************)
(* _record_coverage: a stream is "ok" when its LAST page names no page     *)
(* after it.  `error` is what the caller hands over.  The upsert is not    *)
(* committed here.                                                         *)
(***************************************************************************)
CoverageOf(db, k, error) ==
  CASE error -> "failed"
    [] ~error /\ Exhausted(db, k) -> "ok"
    [] OTHER -> "partial"

\* _collect_run declares stream_error and never assigns it: the finally clause
\* always passes None.
StreamError == FALSE

RecordCoverage(db, k) ==
  [db EXCEPT !.cov[k] = CoverageOf(db, k, StreamError)]

\* The report, run and stream the process is at.
Report == Candidates[at.report]
Run    == FightsIn[Report][at.fight]
Stream == Requests(Run)[at.stream]
Key    == <<Run, Stream>>

\* The process is between the request for a page and the end of its
\* transaction: the finally clause around _collect_events is on the stack.
InStream == pc \in {"fetch", "events", "commit"}

\* The transaction of fetch_page is open.
InTransaction == pc \in {"events", "commit"}

AtStart == [report |-> 1, fight |-> 1, stream |-> 1]
NoStream == [idx |-> 0, cursor |-> Start, fetched |-> 0]
NoTally == [attempted |-> 0, completed |-> 0, failed |-> 0, clean |-> TRUE,
            seen |-> FALSE, resolved |-> FALSE]

Init ==
  /\ disk = [pages    |-> [k \in Keys |-> {}],
             events   |-> [k \in Keys |-> {}],
             cov      |-> [k \in Keys |-> "never asked"],
             status   |-> [r \in Runs |-> "absent"],
             canon    |-> [r \in Runs |-> None],
             roster   |-> [r \in Runs |-> None],
             identity |-> None,
             job      |-> [status |-> "no job", attempted |-> 0,
                           completed |-> 0, failed |-> 0]]
  /\ conn = disk
  /\ pc = "idle"
  /\ scheme = None
  /\ todo = {}
  /\ at = AtStart /\ cur = NoStream /\ tally = NoTally
  /\ exit = "never started"
  /\ jobs = 0 /\ faults = 0

(***************************************************************************)
(* Starting a process.                                                     *)
(***************************************************************************)

\* wclmplus collect opens the database; with --refresh it will reset every run
\* the database holds, whether or not this job is going to collect it.
OpenDatabase(refresh, id) ==
  /\ pc = "idle" /\ jobs < MaxJobs
  /\ refresh => MayRefresh
  /\ jobs' = jobs + 1
  /\ scheme' = id
  /\ conn' = disk
  /\ todo' = IF refresh THEN {r \in Runs : disk.status[r] # "absent"} ELSE {}
  /\ pc' = "refresh"
  /\ exit' = "running"
  /\ UNCHANGED <<disk, position, faults>>

\* reset_run_events: one transaction.  Coverage and status are left as they are.
ResetRunEvents(r) ==
  /\ pc = "refresh" /\ r \in todo
  /\ todo' = todo \ {r}
  /\ Commit([conn EXCEPT
       !.pages  = [k \in Keys |-> IF k[1] = r THEN {} ELSE conn.pages[k]],
       !.events = [k \in Keys |-> IF k[1] = r THEN {} ELSE conn.events[k]]])
  /\ UNCHANGED <<pc, scheme, position, exit, jobs, faults>>

EndProcess(why) ==
  /\ pc' = "idle" /\ exit' = why
  /\ at' = AtStart /\ cur' = NoStream /\ tally' = NoTally
  /\ todo' = {} /\ scheme' = None

\* Not the code: a job under another scheme takes the corpus over.
AssertIdentitySchemeOverwrites ==
  /\ pc = "refresh" /\ todo = {}
  /\ Commit([conn EXCEPT !.identity = scheme])
  /\ pc' = "start"
  /\ UNCHANGED <<scheme, todo, position, exit, jobs, faults>>

\* assert_identity_scheme: the first job claims the corpus, a later one under
\* another scheme is turned away before it writes anything of its own.
AssertIdentityScheme ==
  /\ pc = "refresh" /\ todo = {}
  /\ \/ /\ conn.identity = None
        /\ Commit([conn EXCEPT !.identity = scheme])
        /\ pc' = "start"
        /\ UNCHANGED <<scheme, todo, position, exit>>
     \/ /\ conn.identity = scheme
        /\ pc' = "start"
        /\ UNCHANGED <<disk, conn, scheme, todo, position, exit>>
     \/ /\ conn.identity \notin {None, scheme}
        /\ EndProcess("identity")
        /\ UNCHANGED <<disk, conn>>
  /\ UNCHANGED <<jobs, faults>>

\* start_job, once the scheme is accepted.
StartJob ==
  /\ pc = "start"
  /\ Commit([conn EXCEPT !.job = [status |-> "running", attempted |-> 0,
                                  completed |-> 0, failed |-> 0]])
  /\ pc' = "budget"
  /\ UNCHANGED <<scheme, todo, position, exit, jobs, faults>>

\* The budget before any work; an API error here is swallowed.
ReadBudget ==
  /\ pc = "budget"
  /\ pc' = "report"
  /\ UNCHANGED <<disk, conn, scheme, todo, position, exit, jobs, faults>>

(***************************************************************************)
(* Reports: collect's loop and the part of collect_report before its runs. *)
(***************************************************************************)

AtReport == pc = "report" /\ at.report <= Len(Candidates)

NextReport == [at EXCEPT !.report = @ + 1, !.fight = 1, !.stream = 1]

\* The report, its fights and its master data were fetched; it has runs.
OpenReport ==
  /\ AtReport /\ FightsIn[Report] # <<>>
  /\ Commit(conn)
  /\ tally' = [tally EXCEPT !.attempted = @ + 1, !.clean = TRUE]
  /\ pc' = "run"
  /\ UNCHANGED <<scheme, todo, at, cur, exit, jobs, faults>>

\* collect_report found nothing to collect and returns an empty list, which
\* counts as a completed report.
SkipReport ==
  /\ Commit(conn)
  /\ tally' = [tally EXCEPT !.attempted = @ + 1, !.completed = @ + 1]
  /\ at' = NextReport
  /\ UNCHANGED <<pc, scheme, todo, cur, exit, jobs>>

\* Not the code: a report whose runs all have a row counts as collected.
NoMatchingRunsOrAllKnown ==
  /\ AtReport
  /\ \A i \in DOMAIN FightsIn[Report] : conn.status[FightsIn[Report][i]] # "absent"
  /\ SkipReport
  /\ UNCHANGED faults

\* No fight of the report is a Mythic+ run that was asked for.
NoMatchingRuns ==
  /\ AtReport /\ FightsIn[Report] = <<>>
  /\ SkipReport
  /\ UNCHANGED faults

\* Every run of the report was visited.
EndReport ==
  /\ pc = "run" /\ at.fight > Len(FightsIn[Report])
  /\ tally' = IF tally.clean THEN [tally EXCEPT !.completed = @ + 1]
                             ELSE [tally EXCEPT !.failed = @ + 1]
  /\ at' = NextReport
  /\ pc' = "report"
  /\ UNCHANGED <<disk, conn, scheme, todo, cur, exit, jobs, faults>>

\* Every candidate was visited: collect's finally clause is next.
EndOfReports ==
  /\ pc = "report" /\ at.report > Len(Candidates)
  /\ pc' = "closing" /\ exit' = "complete"
  /\ UNCHANGED <<disk, conn, scheme, todo, position, jobs, faults>>

(***************************************************************************)
(* Runs: _collect_run.                                                     *)
(***************************************************************************)

\* Not the code: a cascade from dungeon_runs takes the run's pages with the row
\* that is replaced.
UpsertRunCascading ==
  /\ pc = "run" /\ at.fight <= Len(FightsIn[Report])
  /\ Commit([conn EXCEPT !.status[Run] = "metadata-only",
                         !.roster[Run] = scheme,
                         !.pages  = [k \in Keys |-> IF k[1] = Run THEN {} ELSE @[k]],
                         !.events = [k \in Keys |-> IF k[1] = Run THEN {} ELSE @[k]]])
  /\ pc' = "pulls"
  /\ UNCHANGED <<scheme, todo, position, exit, jobs, faults>>

\* The run's row is replaced wholesale; only the duplicate classification is
\* carried over from the row it replaces.
UpsertRun ==
  /\ pc = "run" /\ at.fight <= Len(FightsIn[Report])
  /\ Commit([conn EXCEPT !.status[Run] = "metadata-only",
                         !.canon[Run]  = conn.canon[Run],
                         !.roster[Run] = scheme])
  /\ pc' = "pulls"
  /\ UNCHANGED <<scheme, todo, position, exit, jobs, faults>>

\* The outcome of a run that is not "complete".
NotClean == [tally EXCEPT !.clean = FALSE]

\* Not the code: the same fight again.
NextFightStuck == [at EXCEPT !.stream = 1]

NextFight == [at EXCEPT !.fight = @ + 1, !.stream = 1]

\* _collect_pulls and the branch after it.  The status of an archived run is
\* set with no commit.
CollectPulls ==
  /\ pc = "pulls"
  /\ disk' = conn
  /\ \/ /\ Report \in ArchivedReports
        /\ conn' = [conn EXCEPT !.status[Run] = "archived-events-unavailable"]
        /\ pc' = "run" /\ at' = NextFight /\ tally' = NotClean
     \/ /\ Report \notin ArchivedReports
        /\ conn' = conn
        /\ pc' = "stream" /\ at' = [at EXCEPT !.stream = 1]
        /\ tally' = [tally EXCEPT
              !.seen = @ \/ FocusAsked,
              !.resolved = @ \/ (FocusAsked /\ Run \in FocusRuns)]
  /\ UNCHANGED <<scheme, todo, cur, exit, jobs, faults>>

AtStream == pc = "stream" /\ at.stream <= Len(Requests(Run))

NextStream == [at EXCEPT !.stream = @ + 1]

\* _collect_events returns at once: the checkpoint says the stream is finished.
SkipStream ==
  /\ AtStream
  /\ Exhausted(conn, Key)
  /\ Pending(RecordCoverage(conn, Key))
  /\ at' = NextStream
  /\ UNCHANGED <<pc, scheme, todo, cur, tally, exit, jobs, faults>>

\* _collect_events takes the stream up where the checkpoint left it.
ResumeStream ==
  /\ AtStream
  /\ ~Exhausted(conn, Key)
  /\ LET point == ResumePoint(conn, Key) IN
        cur' = [idx     |-> point.idx,
                cursor  |-> IF point.cursor = None THEN Start ELSE point.cursor,
                fetched |-> 0]
  /\ pc' = "fetch"
  /\ UNCHANGED <<disk, conn, scheme, todo, at, tally, exit, jobs, faults>>

\* No stream is left: the run is complete, and everything pending with it.
CompleteRun ==
  /\ pc = "stream" /\ at.stream > Len(Requests(Run))
  /\ Commit([conn EXCEPT !.status[Run] = "complete"])
  /\ pc' = "run" /\ at' = NextFight
  /\ UNCHANGED <<scheme, todo, cur, tally, exit, jobs, faults>>

(***************************************************************************)
(* Pages: fetch_page, driven by EventPaginator.iter_events.                *)
(***************************************************************************)

NextCursor == NextOf[Key][cur.cursor]

\* Only the narrowing tells the two streams apart, and the unique index of
\* event_pages does not look at the narrowing.
Twin(s) == s # Stream /\ TypeOf[s] = TypeOf[Stream]

\* idx_event_pages_unique already holds a row for this index.
IndexTaken ==
  \E s \in Streams : Twin(s) /\ \E p \in conn.pages[<<Run, s>>] : p.idx = cur.idx

\* Not the code: the page row is committed before its events are inserted.
InsertPageAtOnce ==
  /\ pc = "fetch" /\ cur.fetched < MaxPages
  /\ ~IndexTaken
  /\ Commit([conn EXCEPT
       !.pages[Key]  = {p \in @ : p.idx # cur.idx} \cup
                       {[idx |-> cur.idx, cursor |-> cur.cursor, next |-> NextCursor]},
       !.events[Key] = {e \in @ : e.idx # cur.idx}])
  /\ pc' = "events"
  /\ UNCHANGED <<scheme, todo, position, exit, jobs, faults>>

\* The page arrived and its row is inserted.  Whatever the stream had stored
\* under the same index is deleted first, the events before the row.
InsertPage ==
  /\ pc = "fetch" /\ cur.fetched < MaxPages
  /\ ~IndexTaken
  /\ Pending([conn EXCEPT
       !.pages[Key]  = {p \in @ : p.idx # cur.idx} \cup
                       {[idx |-> cur.idx, cursor |-> cur.cursor, next |-> NextCursor]},
       !.events[Key] = {e \in @ : e.idx # cur.idx}])
  /\ pc' = "events"
  /\ UNCHANGED <<scheme, todo, position, exit, jobs, faults>>

\* The page's events, every one the API returned.
InsertEvents ==
  /\ pc = "events"
  /\ Pending([conn EXCEPT
       !.events[Key] = @ \cup {[idx |-> cur.idx, cursor |-> cur.cursor]}])
  /\ pc' = "commit"
  /\ UNCHANGED <<scheme, todo, position, exit, jobs, faults>>

(***************************************************************************)
(* The paginator's verdict on the page, reached after fetch_page returned: *)
(* a cursor that goes backwards, an empty page that stays where it is, a   *)
(* page that only repeats the page before it.  The last is only seen when  *)
(* this process also fetched the page before.                              *)
(***************************************************************************)
Stalled ==
  /\ NextCursor # None
  /\ \/ NextCursor < cur.cursor
     \/ cur.cursor \in EmptyAt[Key] /\ NextCursor = cur.cursor
     \/ cur.cursor \in RepeatAt[Key] /\ cur.fetched > 0

\* An exception that is not an ApiError unwinds to collect's finally clause.
\* The finally clause around _collect_events runs on its way; db is what the
\* connection sees when the exception is raised.
Unwind(db, why) ==
  /\ conn' = IF InStream THEN RecordCoverage(db, Key) ELSE db
  /\ pc' = "closing" /\ exit' = why
  /\ UNCHANGED <<scheme, todo, at, cur>>

\* The transaction of fetch_page ends.
CommitPage ==
  /\ pc = "commit"
  /\ disk' = conn
  /\ \/ /\ Stalled
        /\ Unwind(conn, "error")
     \/ /\ NextCursor = None
        /\ conn' = RecordCoverage(conn, Key)
        /\ pc' = "stream" /\ at' = NextStream /\ cur' = NoStream
        /\ UNCHANGED <<scheme, todo, exit>>
     \/ /\ ~Stalled /\ NextCursor # None
        /\ cur' = [idx |-> cur.idx + 1, cursor |-> NextCursor,
                   fetched |-> cur.fetched + 1]
        /\ pc' = "fetch"
        /\ UNCHANGED <<conn, scheme, todo, at, exit>>
  /\ UNCHANGED <<tally, jobs, faults>>

\* PaginationError: the page ceiling.
PageCeiling ==
  /\ pc = "fetch" /\ cur.fetched >= MaxPages
  /\ Unwind(conn, "error")
  /\ UNCHANGED <<disk, tally, jobs, faults>>

\* The insert of the page row violates the unique index: DatabaseError, and
\* the transaction rolls back with everything pending in it.
PageRejected ==
  /\ pc = "fetch" /\ cur.fetched < MaxPages
  /\ IndexTaken
  /\ Unwind(disk, "error")
  /\ UNCHANGED <<disk, tally, jobs, faults>>

(***************************************************************************)
(* Faults.                                                                 *)
(***************************************************************************)

Fault(kind) ==
  /\ kind \in MayFail /\ faults < MaxFaults
  /\ faults' = faults + 1

\* A request that may be on its way to the API.
Requesting ==
  \/ AtReport
  \/ pc = "pulls"
  \/ pc = "fetch" /\ cur.fetched < MaxPages

\* An exception between reports is raised inside collect_report: the report
\* was counted as attempted.
Attempted == IF pc = "report" THEN [tally EXCEPT !.attempted = @ + 1] ELSE tally

\* The report is private, deleted or mistyped: the API answers null.
ReportUnavailable ==
  /\ Fault("unavailable")
  /\ AtReport
  /\ SkipReport

\* Not the code: the refused report is not counted.
ReportRefusedUncounted ==
  /\ Fault("refused")
  /\ AtReport \/ pc = "pulls"
  /\ Commit(conn)
  /\ tally' = Attempted
  /\ at' = NextReport
  /\ pc' = "report"
  /\ UNCHANGED <<scheme, todo, cur, exit, jobs>>

\* ApiError while a report or a run's pulls are fetched: the report fails, its
\* other runs are not visited, and the job goes on with the next one.
ReportRefused ==
  /\ Fault("refused")
  /\ AtReport \/ pc = "pulls"
  /\ Commit(conn)
  /\ tally' = [Attempted EXCEPT !.failed = @ + 1]
  /\ at' = NextReport
  /\ pc' = "report"
  /\ UNCHANGED <<scheme, todo, cur, exit, jobs>>

\* Not the code: the refused stream is passed over, the run goes on.
StreamRefusedPassedOver ==
  /\ Fault("refused")
  /\ pc = "fetch" /\ cur.fetched < MaxPages
  /\ Commit(RecordCoverage(conn, Key))
  /\ pc' = "stream" /\ at' = NextStream /\ cur' = NoStream
  /\ UNCHANGED <<scheme, todo, tally, exit, jobs>>

\* ApiError while a page is fetched: the run fails, the next run is visited.
StreamRefused ==
  /\ Fault("refused")
  /\ pc = "fetch" /\ cur.fetched < MaxPages
  /\ Commit([RecordCoverage(conn, Key) EXCEPT !.status[Run] = "collection-failed"])
  /\ pc' = "run" /\ at' = NextFight /\ cur' = NoStream /\ tally' = NotClean
  /\ UNCHANGED <<scheme, todo, exit, jobs>>

\* AuthError and the other errors that are not an ApiError.
FatalError ==
  /\ Fault("fatal")
  /\ Requesting
  /\ Unwind(conn, "error")
  /\ tally' = Attempted
  /\ UNCHANGED <<disk, jobs>>

\* A transaction fails (disk full, database locked): rolled back, then fatal.
DatabaseFails ==
  /\ Fault("database")
  /\ \/ AtReport
     \/ pc = "run" /\ at.fight <= Len(FightsIn[Report])
     \/ pc = "pulls"
     \/ InTransaction
  /\ Unwind(disk, "error")
  /\ tally' = Attempted
  /\ UNCHANGED <<disk, jobs>>

\* Ctrl+C inside collect's try block.
Interrupt ==
  /\ Fault("interrupt")
  /\ pc \in {"run", "pulls", "stream"} \/ AtReport \/ InStream
  /\ Unwind(IF InTransaction THEN disk ELSE conn, "interrupted")
  /\ tally' = Attempted
  /\ UNCHANGED <<disk, jobs>>

\* The process is killed; what was pending is gone.
Crash ==
  /\ Fault("crash")
  /\ pc # "idle"
  /\ conn' = disk
  /\ EndProcess("crash")
  /\ UNCHANGED <<disk, jobs>>

(***************************************************************************)
(* Ending a job: collect's finally clause.                                 *)
(***************************************************************************)

\* A focus player was asked for and found in no run: _record_focus_resolution
\* writes a diagnostic and commits.
FocusUnresolved == tally.seen /\ ~tally.resolved

\* The budget is read once more and the job's cost recorded.
RecordApiCost ==
  /\ pc = "closing"
  /\ Commit(conn)
  /\ pc' = "finish"
  /\ UNCHANGED <<scheme, todo, position, exit, jobs, faults>>

\* fetch_rate_limit does not wait for quota: QuotaExhausted, a RuntimeError
\* that neither call site catches, ends the process where it stands.
QuotaExhausted ==
  /\ Fault("quota")
  /\ pc \in {"budget", "closing"}
  /\ LET kept == IF pc = "closing" /\ FocusUnresolved THEN conn ELSE disk
     IN Commit(kept)
  /\ EndProcess("quota")
  /\ UNCHANGED jobs

\* finish_job.  Only a KeyboardInterrupt changes the status it is given.
FinishJob ==
  /\ pc = "finish"
  /\ Commit([conn EXCEPT !.job =
       [status    |-> IF exit = "interrupted" THEN "interrupted" ELSE "complete",
        attempted |-> tally.attempted,
        completed |-> tally.completed,
        failed    |-> tally.failed]])
  /\ EndProcess(exit)
  /\ UNCHANGED <<jobs, faults>>

\* wclmplus dedupe between two jobs: every run is classified anew.
Dedupe ==
  /\ pc = "idle"
  /\ \E canon \in [Runs -> {None, "yes", "no"}] :
       /\ \A r \in Runs : canon[r] = None <=> disk.status[r] = "absent"
       /\ Commit([disk EXCEPT !.canon = canon])
  /\ UNCHANGED <<pc, scheme, todo, position, exit, jobs, faults>>

\* What the process does of itself.
Work ==
  \/ \E r \in Runs : ResetRunEvents(r)
  \/ AssertIdentityScheme \/ StartJob \/ ReadBudget
  \/ OpenReport \/ NoMatchingRuns \/ EndReport \/ EndOfReports
  \/ UpsertRun \/ CollectPulls
  \/ SkipStream \/ ResumeStream \/ CompleteRun
  \/ InsertPage \/ InsertEvents \/ CommitPage \/ PageCeiling \/ PageRejected
  \/ RecordApiCost \/ FinishJob

\* What is done to it.
Environment ==
  \/ \E refresh \in BOOLEAN, id \in Schemes : OpenDatabase(refresh, id)
  \/ ReportUnavailable \/ ReportRefused \/ StreamRefused \/ FatalError \/ DatabaseFails
  \/ Interrupt \/ QuotaExhausted \/ Crash
  \/ Dedupe

Next == Work \/ Environment

Spec == Init /\ [][Next]_vars

\* The operator runs the command again whenever it ended.
Rerun == \E id \in Schemes : OpenDatabase(FALSE, id)

(***************************************************************************)
(* A process that can take a step takes one: collection is sequential code *)
(* whose requests time out.  Faults are not fair, and neither is --refresh *)
(* or dedupe.                                                              *)
(***************************************************************************)
FairSpec == Spec /\ WF_vars(Work) /\ WF_vars(Rerun)

-----------------------------------------------------------------------------
(***************************************************************************)
(* Properties.                                                             *)
(***************************************************************************)

Job == [status: JobStatus, attempted: Nat, completed: Nat, failed: Nat]

Database ==
  [pages: [Keys -> SUBSET PageRow], events: [Keys -> SUBSET EventRow],
   cov: [Keys -> CoverageStatus], status: [Runs -> RunStatus],
   canon: [Runs -> {"yes", "no", None}],
   roster: [Runs -> Schemes \cup {None}], identity: Schemes \cup {None},
   job: Job]

Place == {"idle", "refresh", "start", "budget", "report", "run", "pulls",
          "stream", "fetch", "events", "commit", "closing", "finish"}

Position == [report: Nat \ {0}, fight: Nat \ {0}, stream: Nat \ {0}]

OpenStream == [idx: Nat, cursor: Cursors, fetched: Nat]

Tally == [attempted: Nat, completed: Nat, failed: Nat,
          clean: BOOLEAN, seen: BOOLEAN, resolved: BOOLEAN]

Exit == {"never started", "running", "complete", "interrupted", "error",
         "quota", "crash", "identity"}

\* Every variable holds a value the code could store in it.
TypeOK ==
  /\ disk \in Database /\ conn \in Database
  /\ pc \in Place
  /\ scheme \in Schemes \cup {None}
  /\ todo \in SUBSET Runs
  /\ at \in Position
  /\ cur \in OpenStream
  /\ tally \in Tally
  /\ exit \in Exit
  /\ jobs \in Nat /\ faults \in Nat

(***************************************************************************)
(* The promise of fetch_page and _resume_point, at every instant at which  *)
(* the process may die: the pages on disk are exactly the pages whose      *)
(* events are on disk, so the checkpoint never claims a page whose events  *)
(* did not land and no event survives without its page.                    *)
(***************************************************************************)
CheckpointMatchesEvents ==
  \A k \in Keys :
    disk.events[k] = {[idx |-> p.idx, cursor |-> p.cursor] : p \in disk.pages[k]}

(***************************************************************************)
(* However often a stream was interrupted and resumed, what is stored of   *)
(* it is a gapless prefix of its chain: one row per index, the first row   *)
(* at the stream's start, every other row at the cursor the row before it  *)
(* names.                                                                  *)
(***************************************************************************)
IsPrefix(rows, k) ==
  /\ \A p \in rows : p.next = NextOf[k][p.cursor]
  /\ \A p, q \in rows : p.idx = q.idx => p = q
  /\ \A p \in rows :
       \/ p.idx = 0 /\ p.cursor = Start
       \/ \E q \in rows : p.idx = q.idx + 1 /\ p.cursor = q.next

StoredIsPrefix == \A k \in Keys : IsPrefix(disk.pages[k], k)

(***************************************************************************)
(* migrations/002: only "ok" means that a zero can be trusted.  A stream   *)
(* whose committed coverage row says "ok" is stored to its end.            *)
(***************************************************************************)
OkMeansExhausted ==
  \A k \in Keys : disk.cov[k] = "ok" => Exhausted(disk, k)

\* The same between two processes, when nobody is about to fetch the stream.
OkMeansExhaustedAtRest == pc = "idle" => OkMeansExhausted

(***************************************************************************)
(* A run marked complete has every stream the profile asks for stored to   *)
(* its end, and a coverage row that says so, whatever was refused,         *)
(* interrupted, rolled back or killed on the way there.                    *)
(***************************************************************************)
CompleteMeansExhausted ==
  \A r \in Runs : disk.status[r] = "complete" =>
    \A i \in DOMAIN Requests(r) :
      /\ Exhausted(disk, <<r, Requests(r)[i]>>)
      /\ disk.cov[<<r, Requests(r)[i]>>] = "ok"

(***************************************************************************)
(* assert_identity_scheme: no two pseudonym schemes in one corpus.  Every  *)
(* roster on disk was written under the scheme that claimed the corpus.    *)
(***************************************************************************)
OneIdentityScheme ==
  \A r \in Runs : disk.roster[r] \in {None, disk.identity}

(***************************************************************************)
(* The row of a job whose finally clause ran to its end accounts for every *)
(* report it attempted, but for the one it was thrown out of; a job that   *)
(* visited every candidate accounts for them all.                          *)
(***************************************************************************)
JobRowAddsUp ==
  LET open == disk.job.attempted - (disk.job.completed + disk.job.failed) IN
  pc = "idle" /\ exit \in {"complete", "interrupted", "error"} =>
    /\ open \in {0, 1}
    /\ exit = "complete" => open = 0 /\ disk.job.attempted = Len(Candidates)
    /\ disk.job.status = "interrupted" <=> exit = "interrupted"

(***************************************************************************)
(* Nothing that landed is lost or fetched again: but for the reset that    *)
(* --refresh asks for, no step removes or replaces a committed page.       *)
(***************************************************************************)
PagesNeverLost ==
  [][pc # "refresh" => \A k \in Keys : /\ disk.pages[k] \subseteq disk'.pages[k]
                                       /\ disk.events[k] \subseteq disk'.events[k]]_vars

(***************************************************************************)
(* The collector implements the abstract store: seen through the page      *)
(* index and cursor of its committed rows, every step lands the next page  *)
(* of one stream, discards one run, or does nothing.                       *)
(***************************************************************************)
landed == [k \in Keys |-> {<<p.idx, p.cursor>> : p \in disk.pages[k]}]

Store == INSTANCE Ingest WITH landed <- landed

Ingested == Store!Spec

\* No chain of pages, wedged server or fault keeps a process running for ever.
ProcessEnds == pc # "idle" ~> pc = "idle"

(***************************************************************************)
(* Safe to interrupt, safe to re-run (cli.py): when faults stop and the    *)
(* command is run again, every run whose events the API serves is          *)
(* collected to the end.                                                   *)
(***************************************************************************)
EventuallyCollected ==
  <>(\A i \in DOMAIN Candidates :
       Candidates[i] \notin ArchivedReports =>
         \A j \in DOMAIN FightsIn[Candidates[i]] :
           disk.status[FightsIn[Candidates[i]][j]] = "complete")
=============================================================================
