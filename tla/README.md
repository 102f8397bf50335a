# Verification of wcl_mplus

`wcl_mplus` collects Mythic+ combat logs from the Warcraft Logs v2 API into a local SQLite
database, marks uploads of one run as duplicates, and lets analyses read what is left. This
directory holds TLA+ models of the parts whose correctness depends on order, failure, and
what an earlier process left behind; TLC configurations that check them; and TLAPS proofs
of what matters most.

    tlc -workers 2 -config collector.cfg MCCollector.tla      # any run of the table below
    tlapm CollectorProofs.tla

## 1. The system

| Component | Source (`src/wcl_mplus/`) | State | Operations | Model |
| --- | --- | --- | --- | --- |
| Collector | `collect.py`, `cli.py` (collect) | loop positions, job counters | start and finish a job; collect report, run, pulls, stream, page; reset; record coverage | `Collector` |
| Store | `db.py`, `migrations/` | tables, the open transaction, the ledger | transaction, upsert, execute, commit; migrate, check the version | `Collector`, `Migrations` |
| Paginator | `paginate.py` | cursor, counts at the boundary | iterate, suppress repeats, checkpoint, detect stalls | `Paginator` |
| Client | `client.py` | attempt, statistics | execute with retries, classify answers, read the budget | `Client` |
| Rate limiter | `ratelimit.py` | last reading, time of the next request | observe, acquire, note a Retry-After, back off | `Client` |
| Authentication | `auth.py` | token | fetch, expire, refresh | `Client` |
| Raw cache | `rawcache.py` | files by key | put, get | `Client` |
| Deduplication | `dedupe.py` | `duplicate_group_id`, `is_canonical` | compare, group, mark | `Corpus` |
| Repository | `repository.py` | none | select runs, require streams, read events | `Corpus` |
| Fingerprints, analytics | `fingerprint.py`, `analytics.py` | derivations with digests | begin, finish, verify | `Corpus` |
| Pull assignment, normalization | `pullassign.py`, `normalize.py` | pulls of a run, pull of an event | order and link, find overlaps, assign | `Intake` |
| Discovery | `discover.py`, `configs.py` (registry) | the overlay file | match zones, infer the season, write, merge | `Zones`, `Catalog` |
| Report sources | `reportsource.py` | position in a list | read pages, stop at a limit | `Sources` |
| Schema and queries | `schema.py`, `querybuild.py` | types already asked for | introspect, select, render | `Schema`, `Recon` |
| Reconnaissance | `recon.py` | findings | its steps, the retry without refused leaves, the report | `Recon` |
| Benchmarks | `benchmark.py`, `cli.py` | measurements | probe under a cap, compare, conclude, write | `Probes` |
| Validation | `validate.py` | none | what is analysable, shapes, limitations, overlaps | `Validation`, `Intake` |
| Others | `settings.py`, `versions.py`, `redaction.py`, `sanitize.py`, `scl/` | none | conversion, offline measurements | - |

How they interact. `collect` calls the collector, which asks the client for a report, its
runs and, page by page through the paginator, its events. The client asks the limiter
before each request, the token provider before each attempt, and the raw cache before
either. The collector's connection is the only writer of events; `dedupe` and the
analyses are processes of their own on the same database file (WAL, `db.py:101`), so that
each sees the others between their commits. Nothing else is shared: a process that dies
leaves the database and the cache, and the next goes by these alone.

What is hard, and what makes each part right:

* **Collector and store** - interruption at any instruction, refusals, database errors and
  re-runs. A write outside `Database.transaction()` waits for whoever commits next and
  disappears with a rollback. Right: pages and events agree at every instant, a stream is
  a gapless prefix of what the server has, `ok` and `complete` are never claims too many,
  one identity scheme, a job row that adds up, and a re-run that ends with everything.
* **Paginator** - nobody knows whether the server's cursor is inclusive or exclusive, and
  events may look alike. Right: every event once, in order, through interruptions; an end
  that is the end; no stall that is none, no loop that is not one.
* **Client, limiter, token, cache** - time passes in every step, and the server may answer
  anything. Right: holds and reserve respected, no token that runs out on its way, no
  answer to another question, every call ends.
* **Migrations** - a script is not in a transaction, whatever its caller wrote, and its
  ledger row is a commit of its own. Right: the ledger can be believed after any deaths
  and any meeting of processes and releases, and a file is refused only for a cause.
* **Discovery** - dungeons return, names repeat, an overlay and a cached answer remain from
  the season before. Right: a fight is never taken for another dungeon.
* **Recon** - a report whose *absences* are believed by everything built on it. Right:
  what failed says so, what is not there was asked for, what was left out is named.
* **Benchmarks** - what a filter does is read off counts that a cap or an error cut short.
  Right: a wrong conclusion is withheld.
* **Intake** - pulls overlap, touch, nest, and are replaced under the events. Right: an
  event is in the pull that holds it, and an overlap that matters is reported.
* **Sources** - a list that moves while it is read. Right: nothing is skipped.
* **Validation** - a number pooled over runs that were not asked the same. Right: the
  report says so.
* **Corpus** - three kinds of process read and write between each other's commits. Right: a
  statistic counts each run once, and counts it; a zero is a zero; a digest that still
  fits vouches for what was read.

## 2. Modules

| Module | What it is |
| --- | --- |
| `Ingest` | abstract specification: a store that grows by the next page of a stream or discards a run |
| `Collector` | the collector over its database; implements `Ingest` (`Ingested`) |
| `CollectorProofs`, `CollectorCorpusProofs` | types, checkpoints, prefixes, refinement; identity, coverage, status, the job row |
| `Delivery` | abstract specification: a consumer that gets the next event of a log each time, and an end |
| `Paginator`, `PaginatorProofs` | `EventPaginator` against a server under four cursor rules, implements `Delivery` (`Delivered`); its proofs |
| `Client`, `ClientProofs` | client, limiter, token and cache; their proofs |
| `Corpus`, `CorpusProofs` | dedupe, selection and derivations next to a collector seen commit by commit; its proofs |
| `Upgrade` | abstract specification: a file on which numbered scripts run one after the other |
| `Migrations` | opening a database file by several processes of several releases; implements `Upgrade` (`ScriptsInOrder`) |
| `Schema`, `Zones` | operators: what can be selected of a type; where a dungeon is found in a zone list |
| `Recon` | the recon command, step by step |
| `Catalog` | registry, overlay, zone cache and seasons around `Zones` |
| `Probes` | the two benchmark commands |
| `Intake` | pulls and events of one run, with the overlap section of the validation report |
| `Sources` | reading a list of reports |
| `Validation` | the validation report over a corpus |
| `DiscoveryProofs` | about `Sources` and `Catalog`: what is read of a list, where a dungeon is placed |
| `ReportProofs` | about `Validation`, `Intake`, `Recon` and `Probes`: what the reports say is so |
| `Commands`, `CommandProofs` | the commands side by side, one scenario each; about `Migrations`, and about all of them together |
| `MC...` | the instances TLC checks; `MCCommands` is that of `Commands` |

**Collector.** `disk` is the committed database, `conn` what the connection sees. Python's
sqlite3 opens a transaction at the first write, so `Pending` changes `conn` alone and
`Commit` makes both equal; a rollback or a death sets `conn` back. Actions follow the code:
`OpenDatabase`, `ResetRunEvents` (`--refresh`), `AssertIdentityScheme`, `StartJob`,
`ReadBudget`, `OpenReport`, `UpsertRun`, `CollectPulls`, `SkipStream`/`ResumeStream`,
`InsertPage`, `InsertEvents`, `CommitPage`, `CompleteRun`, `EndReport`, `RecordApiCost`,
`FinishJob`. A page is three steps, so that a process may die between the page row and its
events. The verdict of the paginator on a page is `Stalled` and `PageCeiling`. Every way
out has an action: `ReportUnavailable`, `ReportRefused`, `StreamRefused`, `FatalError`
(AuthError), `DatabaseFails`, `PageRejected` (unique index), `Interrupt`,
`QuotaExhausted`, `Crash`. `dedupe` appears as a commit by another connection.

**Paginator.** One action per step of the loop: `FetchPage`, `SuppressRepeat`, `EmitEvent`,
`RaiseStall`, `FinishPage`, `PageCeiling`, and `Interrupt`/`Resume` from a checkpoint. The
server follows the simulator of the tests; `backwards` and `wedged` are broken ones.

**Client.** There is no clock. Every interval is what is left of it (the server's window,
its demanded hold, the limiter's hold, the token) and `ServerAfter`, `LimiterAfter`,
`TokenAfter` run them down together in each step that takes time. `Respond` lets the server
give any answer at any request.

**Corpus.** A collector is what others see of it: `ReadPrior` and `UpsertRun` (the
classification is read before the transaction that replaces the row), `LandPage` (with the
coverage rows that waited for that commit), `CompleteRun`, `LeaveRun`, `Crash`, `ResetRun`.
`dedupe` is two steps, load and write. A derivation selects, takes its fingerprint, reads
run by run, finishes; `verify` is `Intact`. `GroupOf` states union-find as the smallest
sets closed under matching. Confidence is an integer multiple, not a rounded float. A
digest is what it distinguishes. What dedupe compares of a run does not change.

**Migrations.** `LookAtLedger` computes what is pending once, as `migrate` does;
`RunStatement` is one statement of a script (Python's `executescript` commits first and
runs outside any transaction), which fails if it ran before, since every statement of the
five scripts creates or adds something; `RecordVersion` is the ledger row. `CheckVersion`
is the comparison in `Database.__init__`. A process `Dies` anywhere.

**Recon.** One action per step of `Recon.run`, in its order, each with all the ways it can
be recorded. A world is a schema, the leaves that the server refuses, its zones and one
report; a call may also fail for a reason of its own. `MetadataAnswered`,
`MetadataRejected` and `MetadataUnanswered` are the rounds of
`_execute_with_leaf_retry`. What no step catches ends the command: `IntrospectionFails`,
`SecondPageFails`. `Schema` is the introspector: types, leaves, selections, and the
substring search that decides which leaf an error message blames.

**Catalog.** The user changes seasons and files; `DiscoverDungeons` is the command with
its cache, `Zones!MatchZones` and the overlay it writes; `Registry` is the merge at load
time; `Selected` and `ResolveDungeon` are what `collect` makes of a fight.

**Probes.** What passes a request's filters is a set of positions in the server's log
(`Sent`). A probe reads it page by page (`ReadPage`): the page is the first of what is not
older than the cursor (`PageAt`), its events are all counted, and the next cursor is the time
of its last event or the one after it (`NextAt`), by the server's rule, as for the paginator.
`measure` drops no repeat. `EndProbe` is the end, the cap or an error (`ProbeFails`);
`Compare` draws the verdict and `WriteResults` writes at the very end.

**Intake.** `CollectPulls` normalizes, orders and replaces the pulls from the server or
the cache, each by its rank (`Place`); `StoreEvent` assigns. `Find` has the shortcut of the code: without overlaps of
neighbours, one candidate is looked at.

**Sources.** `Upload` moves the list, a page is fetched or found in the cache, and its rows
are looked at one by one, as `discover` is a generator that is stopped between two rows.
`ManualReportSource`, the only one the command line uses, is the list of one page.

**Validation.** `StoreRun` puts a run into the corpus, `CollectValidation` is the report.

## 3. What is checked

Properties are stated, each with the behaviour it is about, at the end of the modules.

| Run | Expect | What it shows |
| --- | --- | --- |
| `collector` | pass | `TypeOK`, `CheckpointMatchesEvents`, `StoredIsPrefix`, `OkMeansExhausted`, `CompleteMeansExhausted`, `OneIdentityScheme`, `JobRowAddsUp`, `PagesNeverLost`, over up to four processes, two schemes, an archived report, a wedged stream, a page ceiling of two, a focus stream that shares its type with a party stream, two faults of any kind |
| `collector_live` | pass | `Ingested` (refinement), `ProcessEnds`, `EventuallyCollected`, with a healthy server, `--refresh`, two faults, three processes |
| `collector_refresh` | violation | `OkMeansExhaustedAtRest`: `--refresh` leaves coverage rows `ok` for streams it has emptied |
| `collector_twins` | violation | `EventuallyCollected`: two streams of one type never fit the unique index; no re-run helps |
| `paginator` | pass | `Delivered` (refinement), `DoneIsWhole`, `CheckpointRemembers`, `EventuallyDone`, `AlwaysEnds`, for every log of up to five events that the page limit can carry |
| `paginator_crowded` | violation | `EmittedOnce`: as many events at one time as a page holds |
| `client` | pass | `AnswersTheQuestion`, `RetryAfterHonoured`, `BudgetWaitHonoured`, `NoTokenRunsOut`, `EveryCallEnds`, over any number of calls and processes |
| `client_reserve` | violation | `ReserveKept`: the budget is read once and then spent below the reserve |
| `corpus` | pass | `CountedOnce`, `Represented`, `CurrentMeansExamined`, `VerifySound`, `ZeroIsReal` |
| `corpus_transitive` | violation | `FightsKeptApart`: two fights of one report in one duplicate group |
| `commands` | pass | recon: `ReportTellsAll`, `MissingIsSaid`, `RetryWorks`; discovery: `SeasonInferredRight`; opening a file: `ScriptsInOrder` (refinement), `RefusedForCause`; benchmarks: `VerdictRight`; pulls: `EventsInTheirPulls`, `OverlapVerdictRight`; sources: `NothingSkipped`; validation: `ReportConfesses`; and `TypesOK` of all |
| `catalog_season` | violation | `RediscoveryRight`: the zone that one discovery inferred is the configured one of the next |

Two invariants that have a theorem are in no passing run, because a refinement says them
and more: `EmittedOnce` is what `Delivered` has for an honest server at any one moment, and
`LedgerMeansSchema` is what holds in every state of `Upgrade`.

The violations are disagreements of the code with its own documents; `PROJECT.json` quotes
both sides under `findings`. Five more were met that no run repeats:

* A job thrown out by an exception that is not an `ApiError` (an `AuthError`, say) is
  recorded `complete` by the finally clause (`collect.py:1166`); `failed`, among the
  statuses of `migrations/001_initial.sql:37`, is written by nothing. `Collector`'s
  `FinishJob` has it so.
* Under an exclusive cursor, a timestamp that spans the end of a page loses the rest of
  its events, and nothing can tell; `API_NOTES.md:256-258` says the paginator would.
  `Paginator` shows it for 1, 2, 2, 3 at two to a page, and the passing run leaves it out.
* `recon.py:19` says that the report is written even when steps fail. Introspection of a
  type (`schema.py:236`) and the fetch of the second page (`recon.py:826`) are guarded by
  no step: an error there ends the command without a report (`Recon!ReportWritten`).
* A probe adds up the events of its pages (`benchmark.py:234`) and drops none that comes
  twice. Under an inclusive cursor a stream of several pages is counted too high, and under
  an exclusive one a page that ends within a time loses the rest of it; either way the probe
  is `exhausted`. A hostility filter that works may then be called one to investigate, or the
  unfiltered stream one-sided; a narrowing that works may be called ignored; and one that
  does not, confirmed, if what was lost named another actor. Nor is a capped count the lower
  bound that `benchmark.py:37-38` and the options of `cli.py` call it. `VerdictRight` is false
  of such streams (take away `Countable` or `Whole` and TLC shows one), and is stated with
  both; what holds of them all the same is in it too.
* `cli.py:875` and `:991` say that partial results are still written; `_fail` exits before
  they are (`Probes!PartialResultsWritten`).

The last two definitions stand beside the models they are false of; no run checks them.

Bounds, and why they are enough.

* *Collector.* Streams of one and three pages: a stream has a first, a middle and a last
  page. Two runs of one report and a second report reach every loop exit. Two faults are
  the fewest with which a resumed process can fail again, and with `MaxJobs` one larger
  than the faults a healthy process follows. `Cursors` is what the chains use. `MaxPages`
  is 2 where the ceiling is to be met and 3 where not (in the code, 2000).
  No process can start beyond `MaxJobs`: deadlock is off for that reason alone.
* *Paginator.* Five events over three times, two bodies, limits 2 and 3: a page may end
  before, in and after a time, and equal events meet at a boundary. `MaxPages` 4 is met.
  The passing run leaves out what the two violations show, by `Readable`: a server with
  the inclusive rule is `Roomy`, one with the exclusive rule `Unsplit`.
* *Client.* A window of three ticks and three points, a reserve of two, two attempts, a
  hold shorter and one longer than a backoff waits (`HoldCap`, in the code an hour), a
  token life of three with a margin of two ways. `Transit` bounds a message. Nothing bounds
  calls, processes or time.
* *Corpus.* Two fights of one report and an upload that matches both, a stream of one page,
  four visits of the collector, one refresh, one derivation of either kind. `Bounded` in
  `MCCorpus` lets a third run appear only without pages and derivations, which dedupe does
  not read, and stops passes and visits after the third while a derivation goes on.
  `CountedOnce`, `Represented` and `CurrentMeansExamined` do not speak of a pass and a
  collector that overwrote each other (`lost`): the code has no answer to that overlap, and
  two hazards record it. `ZeroIsReal` speaks of a corpus never refreshed: the finding
  of `collector_refresh` is the reason. `VerifySound` excepts the return of a refreshed run
  to what it was: at the page grade always, at the deep grade only if it came back empty.
* *Commands.* Each behaviour is of one scenario, since the commands share nothing but the
  client. Recon: 19 servers, among them each kind of absence (a field, a type, a leafless
  composite, an argument), one, two and three refused leaves, reports of each shape; two
  calls fail on top. Catalog: three seasons with a dungeon in all, one that is in the
  line-up and not in the zone, one season told by a single name; two values of
  `--expansion` are two cache entries. Migrations: three processes, two releases, scripts
  of one and two statements, any number of openings and deaths. Probes: three events to a
  page and a cap of two pages, logs of none, three, four and seven events under either rule of
  cursors, so that a stream is one page, two, or longer than the cap, a page ends between
  times and within one, and an inclusive cursor stands still. Intake: pulls apart,
  touching, nested, overlapping, starting together and one without an id, two events held
  at a time, any number of jobs. Sources: three codes and two uploads at two to a page.
  Validation: two runs and one report, as a second is made like the first.
  A command ends, so deadlock is off.
* What the properties of this run leave out, and why: `VerdictRight` says what a
  working hostility filter is judged to be for logs whose two sides differ in number, as counts
  are all the verdict has, and for requests each of whose events is counted once (`Countable`:
  one page, or an exclusive cursor and no page that ends within a time), and
  what a stream confirms where each is seen (`Whole`); that a hostility filter which does
  nothing is found out is said of all; `EventsInTheirPulls` of
  events whose pulls were not replaced by others (`moved`); `NothingSkipped` of lists that
  only grow; `SeasonInferredRight` of zone lists in which every name that occurs once is
  of the season; `ReportConfesses` of corpora the manifest knows: a run collected before
  the manifest is passed over once another has one, and the widest shape's own gaps are
  not named. `RefusedForCause` counts a death and a meeting as causes, because the code
  has no repair for a script that is half run.

Fairness. `Collector`: `WF(Work)`, since every call of a running process returns or raises,
and `WF(Rerun)`, the operator who runs the command again, which the command asks for
(cli.py: safe to re-run). No fault is fair. `Paginator`: `WF(Iterate)`, the consumer
drains the iterator, and `WF(Resume)`. `Client`: `WF(Work)`, since httpx times out whatever
does not answer and a sleep ends. No strong fairness is used. The commands are checked
for safety alone: each is a straight line of calls that end.

## 4. What is proved

For every value of the constants that satisfies the module's assumption. Each module that
is proved about states one (`CollectorAssumption`, ..., `ProbesAssumption`), and TLC
evaluates it in the runs. They say that bounds are numbers, that names for "nothing" are
none of the things they stand beside, and what the data are: a log is in the order of its
times, a pull does not end before it starts, a dungeon bears no other's name, two type
names that lie within one another are one, event categories are finitely many, and a
release has the statements of the scripts it numbers.

| Theorem | Establishes |
| --- | --- |
| `CollectorProofs!TypeCorrect` | `[]TypeOK` |
| `CollectorProofs!CheckpointTrue` | `[]CheckpointMatchesEvents` |
| `CollectorProofs!PrefixStored` | `[]StoredIsPrefix` |
| `CollectorProofs!NothingLost` | `PagesNeverLost` |
| `CollectorProofs!ImplementsStore` | `Spec => Store!Spec`, the collector implements `Ingest` |
| `CollectorCorpusProofs!OneIdentity` | `[]OneIdentityScheme` |
| `CollectorCorpusProofs!OkIsTrue`, `CompleteIsTrue` | `[]OkMeansExhausted`, `[]CompleteMeansExhausted`, without `--refresh` |
| `CollectorCorpusProofs!JobsAddUp` | `[]JobRowAddsUp` |
| `CollectorProofs!ProcessesRunOut` | every step of a process, faults and refusals too, brings its end nearer, but a reset, of which there are as many as runs on file |
| `PaginatorProofs!KeepsThePromise` | `Spec => Promise!Spec` (`Delivered`): the paginator implements `Delivery`, for servers that are `Readable` |
| `PaginatorProofs!IterationsEnd` | every step of an iteration brings its end nearer, whatever the server |
| `PaginatorProofs!EmitsOnce`, `CompleteIsWhole`, `CheckpointsRemember` | `[]EmittedOnce`, `[]DoneIsWhole`, `[]CheckpointRemembers`, for servers that are `Readable` |
| `ClientProofs!TypeCorrect`, `AnswersRight` | `[]TypeOK`, `[]AnswersTheQuestion` |
| `ClientProofs!HoldsHonoured`, `BudgetHonoured`, `TokensLast` | `RetryAfterHonoured`, `BudgetWaitHonoured`, `NoTokenRunsOut` |
| `ClientProofs!CallsEnd` | every step of a call leaves fewer to come, of at most 6 for each attempt, whatever the server |
| `CorpusProofs!TypeCorrect` | `[]TypeOK` |
| `CorpusProofs!RunsCountedOnce`, `RunsRepresented`, `CurrentIsExamined` | `[]CountedOnce`, `[]Represented`, `[]CurrentMeansExamined` |
| `CorpusProofs!ZerosAreReal`, `VerifyIsSound` | `[]ZeroIsReal`, `[]VerifySound` |
| `CommandProofs!LedgerBelieved`, `RefusedWithReason` | `[]LedgerMeansSchema`, `[]RefusedForCause`, for `MigrationsSpec` |
| `CommandProofs!OneAfterTheOther` | `MigrationsSpec => ScriptsInOrder`: opening a file implements `Upgrade` |
| `DiscoveryProofs!NoReportSkipped` | `[]NothingSkipped`, for `SourcesSpec` |
| `DiscoveryProofs!SeasonPlaced` | `[]SeasonInferredRight`, for `CatalogSpec` |
| `ReportProofs!GapsConfessed` | `[]ReportConfesses`, for `ValidationSpec` |
| `ReportProofs!EventsAssigned`, `OverlapsTold` | `[]EventsInTheirPulls`, `[]OverlapVerdictRight`, for `IntakeSpec` |
| `ReportProofs!ReportIsComplete`, `AbsenceIsExplained`, `RetriesEnough` | `[]ReportTellsAll`, `[]MissingIsSaid`, `[]RetryWorks`, for `ReconSpec` |
| `ReportProofs!VerdictsTrue` | `[]VerdictRight`, for `ProbesSpec`: any server under either rule of cursors, any page size and cap |
| `CommandProofs!CommandsTyped` | `[]TypesOK`: the types of all commands |

Two hypotheses go beyond an assumption. The theorems about the paginator, but for
`IterationsEnd`, assume `ServersReadable`, because the run `paginator_crowded` and the
exclusive cursor above show that no others can be read. The two about coverage assume
`MayRefresh = FALSE`, because `collector_refresh` shows what a refresh does to it.

*Collector.* That pages and events agree on disk is not inductive: a page in the making is
on the connection alone. `IInv` therefore has, besides the types, `Located` (a process
inside a loop is inside its sequence), `DiskIsSound` (every stream on disk is a chain, with
the events of exactly its rows) and `ConnIsSound` (the connection differs from the disk by
at most the page being inserted, which is the one that follows the chain). The refinement
comes from it: `CommitPage` is `Land`, `ResetRunEvents` is `Discard`, and every other step
leaves the committed pages alone. `IdentityInv` adds that both views carry one claim and
that a process past the check runs under it. `CoverageInv` adds that an `ok`, pending or
committed, is true of the same view; `--refresh` breaks it. `AccountInv` counts a job: one
report is neither completed nor failed while it is open and none between two, and where
the finally clause is reached the exit says which it was. That a process ends is a
lexicographic count: reports left, runs of this one (`RunsLeft`), streams of this run,
pages of this stream. A fault leaves what it was in and lowers the count of what is around
it. Only `--refresh` is not counted so: each reset takes a run from its list.

*Paginator.* The invariant gives the process positions in the log (`PositionInv`). Between
pages the cursor is at or before the first event not delivered, and the events between the
two are all at the boundary's time, counted there (`Ready`); a checkpoint is such a state.
While a page is read, the counts left are those of the delivered events still to come, and
the output is what was delivered or the position read up to, whichever is later
(`Reading`). `Roomy` is needed in one step only, that the cursor moves on: a full page
ends later than its boundary. Under an exclusive cursor the position is a multiple of the
page limit (`Unsplit`). A wedged server is never done with (`WedgedInv`).
For `Delivery`, `CountsInv` says that what was kept is what a process that goes on has, and
`PagesPay` that each page of an honest server but the last brings at least one event that
is new. Hence no honest server is taken for stalled, and none is given up whose log is no
longer than the page ceiling (`Patience`). That an iteration ends needs nothing of the
server: pages left to the ceiling, and within a page steps left.

*Client.* `IInv` consists of `TimeInv` (the hold covers what the server demands; the age of
a reading and what is left of its window add up; a token's remaining life is at least what
`expires_at` says, less a transit), `ControlType`, `Released` (who may be past the limiter,
and why) and `AnswersFit` (an entry answers the document in its key).
`NoTokenRunsOut` rests on `2 * Transit <= Margin`: the margin of the code (120 s) must cover
the way of the token here and of the request there. That calls end (`Effort`): an attempt
takes six steps at most, a 401 and a retry start the next one, and `MaxRetries` bounds
attempts.

*Corpus.* That `GroupOf` divides the runs into groups (its least set closed under matching
is the same for every member) is a lemma of its own. `ClassInv` then says that what is
classified was classified together, unless a pass and a visit overwrote each other; the
three properties of a selection follow from it and from the first of a group being one of
it. `WholeInv` carries `ZeroIsReal`: coverage that says so is of a whole stream, and so are
the streams a derivation chose its runs by. For `VerifySound` each run of a derivation
either is the one of the digest, grown (`Follows`: where no page was added, the coverage
row is the digest's or the one a later visit writes), or was refreshed since and has only
pages from after that (`Renewed`).

*Migrations.* That a recorded version was run to its end is not inductive: two processes
work on one script at a time, and either may write the row. `LInv` therefore has an owner:
the process that ran the first statement of an unrecorded script, since that statement
fails for everybody else (`OneOwner`). An owner works on the version after the highest on
record and has run all statements before its position (`OwnerInv`); pending versions are
the interval from there (`PendingInv`); nothing beyond the next version has run
(`RanInv`). Hence the row can only be written by the owner, and only after the last
statement. `CauseInv` adds why anybody is refused: while nobody died or met another, what
ran without being on record was run by the one process that is migrating (`AloneInv`), so
that no statement fails; and a process that comes to the check has all its scripts on
record (`CheckedInv`), so that a different highest version is a higher one. The assumption
is that versions and script lengths are positive and files finite. The refinement rests on
the owner too: a statement of a pending version takes effect only for its owner, who has
run the ones before it, and a statement that fails leaves the file as it is.

*The commands together.* A step of `Commands` is one of the command in its scenario, or
leaves that command's variables alone; so each command's specification holds (the lemma
`CommandsApart`, which follows from the way they are composed) and with it what is proved of
the command. The type invariants of `Recon` and `Intake` are
not inductive: `Recon`'s needs the bound on calls that failed and that a selection is asked of
types that something is wanted of, `Intake`'s that an event without a pull has no time.

*Sources, Catalog.* A report that was listed when page 1 was fetched is in a cached page or
further down the list than the cached pages reach (`PagesInv`), since an upload only pushes
it down; a reader has yielded what is in the pages behind it (`ReaderInv`). What an overlay
holds is of its dungeons, and of the season if its zone list told it (`OverlayInv`); the
work is in the lemmas about `MatchZones`: a name that occurs once is matched where it is,
and the zone with most of those is the season's.

*Intake, Validation.* A sorted sequence is given by the rank of each pull, so that orders
are proved without induction. That neighbours tell (`NeighboursTell`) is the fact behind
both shortcuts: where none of them overlap, each pull ends before every later one starts,
so that no two overlap and only the pull that started last can hold an event. In `Validation`
the widest shape is the witness: among shapes that differ, one lacks something the widest
has (`ThinOneNamed`).

*Recon.* Each step of the plan has a turn, and findings only grow (`Grown`). While a run is
on (`Underway`), every step behind the current one is in the findings, every call that
failed is told under its own step, the wanted fields that are missing are named once
`field_verification` is behind, and the retry has excluded one refused leaf per attempt.
`MissingSaid` relates what was asked for to what was wanted; a selection keeps it because
what it skips is added to the limitations in the same step. An error message blames a leaf
only if the server refused it, because no name lies within another.

*Probes.* A page is the first of what is due, down to its last event, and full if anything is
left (`PageRead`); so an exclusive cursor passes exactly the page where no page ends within a
time, and an inclusive one passes no event that was not sent (`NextCursor`). What a probe has
come to (`Fits`) follows page by page: it names nobody whom the events sent do not name,
everybody of the events behind its cursor if none can be missed, and its count is their
number if each is counted once. Where cursors repeat or miss, a second fact carries: two
requests that are sent the same events are answered alike, so two complete probes of them are
equal, page for page (`SameMeasurement`). For that the invariant keeps that every probe came
by a trail of such pages (`IsTrail`). Verdicts are then sums: the two sides have nothing in
common, so both together are as many as the sum, and two numbers that differ and are not
zero tell the four answers apart.

Only model-checked: liveness under fairness (`ProcessEnds`, `EventuallyCollected`,
`EventuallyDone`, `AlwaysEnds`, `EveryCallEnds`), since the prover knows neither ENABLED nor
induction over a count; and the violations. What liveness rests on besides fairness is
proved: `ProcessesRunOut`, `IterationsEnd` and `CallsEnd` give counts that no step raises.
TLC adds that a process that has not ended can take a step. No type invariant and no safety
property of a passing run is only model-checked.

## 5. What is not modelled

* Two `collect` processes at the same time on one database; failure of the disk during a
  write outside transactions; different profiles from job to job.
* In `Collector`, the events inside a page: repeated boundary events are stored twice.
  In `Paginator`, events without a timestamp. In `Client`, `Retry-After` as an HTTP date
  (the code reads it as none), the jitter's distribution, statistics. In `Corpus`,
  selection and digests are one step each, streams that share a type but differ in
  narrowing, failed transactions, and the tables `verify` prints from.
* In `Recon` and `Validation`, the rendering as Markdown, and the queries of the
  validation report that conclude nothing (ability pairs, instance evidence, cost, dates).
  In `Probes`, points, bytes and seconds. In `Intake`, the conversion of reports, actors
  and abilities field by field, and a pull that ends before it starts or has no end.
* Hotfix epochs, sampling profiles, settings, redaction, sanitizing, versions and the
  encodings of `scl/`: pure functions of their arguments, for which the tests have tables
  and round trips, and a model would be the program again. `PROJECT.json` gives a reason
  for each part.

## 6. Plan

Done: `Ingest` and `Collector`, what everything else reads; `Paginator` and `Delivery`;
`Client`; `Corpus`; the commands (`Migrations` and `Upgrade`, `Zones` and `Catalog`, `Schema`
and `Recon`, `Probes`, `Intake`, `Sources`, `Validation`) and their composition; and the
proofs of every type invariant, safety property and refinement that a passing run checks.
Left, in this order:

1. `Boundary`: `Paginator` as the reader of a stream of `Collector`, for what the events
   table holds at a boundary; `LiveReports`: the cache and a report still uploading;
   `JobCost`: two budget readings around a job.
2. `Epochs`: half-open epochs, one at a time.
