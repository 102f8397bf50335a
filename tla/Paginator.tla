----------------------------- MODULE Paginator -----------------------------
(***************************************************************************)
(* EventPaginator (paginate.py): every event of a stream exactly once,     *)
(* although nobody knows whether the cursor of the server points at the    *)
(* last event of a page, which is then sent again, or past it.  Events at  *)
(* the last timestamp of a page are counted, and as many copies are        *)
(* dropped when they come back.  The consumer may stop at any event and a  *)
(* later process takes up the checkpoint of the last finished page.        *)
(***************************************************************************)
EXTENDS Integers, Sequences, FiniteSets

CONSTANTS
  Times,       \* timestamps
  Bodies,      \* what an event is besides its timestamp
  Servers,     \* the servers considered: a log, a page limit, a cursor rule
  Start,       \* start_time
  MaxPages,    \* max_pages
  MaxStops,    \* bound: interruptions
  None

Event == [ts: Times, body: Bodies]

\* A server's log is sorted by time, and may hold equal events.
Rules == {"inclusive", "exclusive", "backwards", "wedged"}

Cursors == {Start} \cup Times \cup {t + 1 : t \in Times}

ASSUME PaginatorAssumption ==
  /\ Times \subseteq Nat \ {0} /\ Start = 0
  /\ MaxPages \in Nat \ {0} /\ MaxStops \in Nat
  /\ None \notin Nat
  /\ \A s \in Servers :
       /\ s.log \in Seq(Event) /\ s.limit \in Nat \ {0} /\ s.rule \in Rules
       /\ \A i, j \in DOMAIN s.log : i < j => s.log[i].ts <= s.log[j].ts

VARIABLES
  server,    \* the server of this behaviour
  pc,        \* "fetch", "read", or how the iteration ended
  cursor,    \* the cursor of the next request
  boundary,  \* _boundary_ts and _boundary_counts
  page,      \* page.events, from the first event not yet looked at
  next,      \* page.next_page_timestamp
  reading,   \* of the current page: its events, how many were emitted, its
             \*   highest timestamp, and the counts newly emitted there
  out,       \* the events the consumer has
  saved,     \* the checkpoint of the last finished page, with the consumer's
             \*   events at that point
  fetched,   \* pages_this_run
  stops      \* interruptions so far

vars == <<server, pc, cursor, boundary, page, next, reading, out, saved, fetched, stops>>

(***************************************************************************)
(* The server, as the simulators of the tests have it: a page is what the  *)
(* limit leaves of the events not older than the cursor.                   *)
(***************************************************************************)
Older(s, c) ==
  CHOOSE k \in 0 .. Len(s.log) : \A i \in DOMAIN s.log : s.log[i].ts < c <=> i <= k

PageEnd(s, c) ==
  IF Older(s, c) + s.limit < Len(s.log) THEN Older(s, c) + s.limit ELSE Len(s.log)

PageAt(s, c) == SubSeq(s.log, Older(s, c) + 1, PageEnd(s, c))

\* nextPageTimestamp.  The two faulty servers go back to the start after the
\* first page, or never move.
NextAt(s, c) ==
  LET last == s.log[PageEnd(s, c)].ts IN
  IF s.rule = "wedged" THEN c
  ELSE IF PageEnd(s, c) = Len(s.log) THEN None
  ELSE CASE s.rule = "inclusive" -> last
         [] s.rule = "exclusive" -> last + 1
         [] s.rule = "backwards" -> IF c = Start THEN last ELSE Start

(***************************************************************************)
(* What either rule can serve.                                             *)
(***************************************************************************)
\* No time fills a page: there is room for the event after it.
Roomy(s) ==
  \A i, j \in DOMAIN s.log : j = i + s.limit - 1 => s.log[i].ts # s.log[j].ts

\* No page ends between two events of one time.
Unsplit(s) ==
  \A i \in DOMAIN s.log : i * s.limit < Len(s.log) =>
    s.log[i * s.limit].ts # s.log[i * s.limit + 1].ts

Readable(s) ==
  /\ s.rule = "inclusive" => Roomy(s)
  /\ s.rule = "exclusive" => Unsplit(s)

(***************************************************************************)
(* Reading a page.                                                         *)
(***************************************************************************)
NoCounts == [e \in Event |-> 0]
NoBoundary == [ts |-> None, counts |-> NoCounts]
NoReading == [size |-> 0, emitted |-> 0, top |-> None, fresh |-> NoCounts]

Checkpoint(c, b, o) == [cursor |-> c, boundary |-> b, out |-> o]

Init ==
  /\ server \in Servers
  /\ pc = "fetch" /\ cursor = Start /\ boundary = NoBoundary
  /\ page = <<>> /\ next = None /\ reading = NoReading
  /\ out = <<>> /\ saved = Checkpoint(Start, NoBoundary, <<>>)
  /\ fetched = 0 /\ stops = 0

FetchPage ==
  /\ pc = "fetch" /\ fetched < MaxPages
  /\ page' = PageAt(server, cursor) /\ next' = NextAt(server, cursor)
  /\ reading' = [NoReading EXCEPT !.size = Len(page')]
  /\ fetched' = fetched + 1
  /\ pc' = "read"
  /\ UNCHANGED <<server, cursor, boundary, out, saved, stops>>

\* Not the code: the ceiling is a warning.
PageCeilingWarns ==
  /\ pc = "fetch" /\ fetched >= MaxPages
  /\ UNCHANGED vars

\* PaginationError: the cursor is probably looping.
PageCeiling ==
  /\ pc = "fetch" /\ fetched >= MaxPages
  /\ pc' = "ceiling"
  /\ UNCHANGED <<server, cursor, boundary, page, next, reading, out, saved, fetched, stops>>

AtEvent == pc = "read" /\ page # <<>>

\* page_max_ts, the event at hand included.
Top(e) == IF reading.top = None \/ reading.top < e.ts THEN e.ts ELSE reading.top

\* The event was emitted before, at the boundary, and the copy is not yet
\* accounted for.
Repeat(e) == e.ts = boundary.ts /\ boundary.counts[e] > 0

\* Not the code: a set of what was emitted, instead of counts.
SuppressRepeatOfSet ==
  /\ AtEvent /\ Repeat(Head(page))
  /\ reading' = [reading EXCEPT !.top = Top(Head(page))]
  /\ page' = Tail(page)
  /\ UNCHANGED <<server, pc, cursor, boundary, next, out, saved, fetched, stops>>

SuppressRepeat ==
  /\ AtEvent /\ Repeat(Head(page))
  /\ boundary' = [boundary EXCEPT !.counts[Head(page)] = @ - 1]
  /\ reading' = [reading EXCEPT !.top = Top(Head(page))]
  /\ page' = Tail(page)
  /\ UNCHANGED <<server, pc, cursor, next, out, saved, fetched, stops>>

\* Not the code: only the event that raises the maximum is counted.
EmitEventCountsFirst ==
  /\ AtEvent /\ ~Repeat(Head(page))
  /\ LET e == Head(page) IN
       /\ reading' = [reading EXCEPT
            !.top = Top(e),
            !.emitted = @ + 1,
            !.fresh[e] = IF Top(e) # reading.top THEN @ + 1 ELSE @]
       /\ out' = Append(out, e)
  /\ page' = Tail(page)
  /\ UNCHANGED <<server, pc, cursor, boundary, next, saved, fetched, stops>>

EmitEvent ==
  /\ AtEvent /\ ~Repeat(Head(page))
  /\ LET e == Head(page) IN
       /\ reading' = [reading EXCEPT
            !.top = Top(e),
            !.emitted = @ + 1,
            !.fresh[e] = IF e.ts = Top(e) THEN @ + 1 ELSE @]
       /\ out' = Append(out, e)
  /\ page' = Tail(page)
  /\ UNCHANGED <<server, pc, cursor, boundary, next, saved, fetched, stops>>

PageRead == pc = "read" /\ page = <<>>

\* PaginationStall: an empty page that stays where it is, a page of nothing but
\* repeats, a cursor that goes backwards.
Stall ==
  /\ next # None
  /\ \/ reading.size = 0 /\ next = cursor
     \/ reading.size > 0 /\ reading.emitted = 0
     \/ next < cursor

RaiseStall ==
  /\ PageRead /\ Stall
  /\ pc' = "stalled"
  /\ UNCHANGED <<server, cursor, boundary, page, next, reading, out, saved, fetched, stops>>

\* The bookkeeping after a page: counts add up while the boundary stays where
\* it is, and start afresh where it moves.  An empty page changes nothing.
BoundaryAfter ==
  CASE reading.top = None -> boundary
    [] reading.top # None /\ reading.top = boundary.ts ->
         [boundary EXCEPT !.counts = [e \in Event |-> @[e] + reading.fresh[e]]]
    [] OTHER -> [ts |-> reading.top, counts |-> reading.fresh]

\* The page is accounted for and its checkpoint is saved.
FinishPage ==
  /\ PageRead /\ ~Stall
  /\ boundary' = BoundaryAfter
  /\ cursor' = next
  /\ saved' = Checkpoint(next, BoundaryAfter, out)
  /\ pc' = IF next = None THEN "done" ELSE "fetch"
  /\ UNCHANGED <<server, page, next, reading, out, fetched, stops>>

(***************************************************************************)
(* The request fails, the consumer stops or the process is killed; a later *)
(* process takes up the last checkpoint.  What the consumer got after it   *)
(* is delivered again, under the same keys.                                *)
(***************************************************************************)
Interrupt ==
  /\ pc \in {"fetch", "read"} /\ stops < MaxStops
  /\ stops' = stops + 1
  /\ pc' = "stopped"
  /\ UNCHANGED <<server, cursor, boundary, page, next, reading, out, saved, fetched>>

\* Not the code of EventPaginator: the cursor alone survives.
ResumeFromCursor ==
  /\ pc = "stopped"
  /\ cursor' = saved.cursor /\ boundary' = NoBoundary /\ out' = saved.out
  /\ page' = <<>> /\ next' = None /\ reading' = NoReading /\ fetched' = 0
  /\ pc' = "fetch"
  /\ UNCHANGED <<server, saved, stops>>

\* Not the code: the ceiling counts the pages of all processes.
ResumeKeepsCount ==
  /\ pc = "stopped"
  /\ cursor' = saved.cursor /\ boundary' = saved.boundary /\ out' = saved.out
  /\ page' = <<>> /\ next' = None /\ reading' = NoReading
  /\ pc' = "fetch"
  /\ UNCHANGED <<server, saved, fetched, stops>>

Resume ==
  /\ pc = "stopped"
  /\ cursor' = saved.cursor /\ boundary' = saved.boundary /\ out' = saved.out
  /\ page' = <<>> /\ next' = None /\ reading' = NoReading /\ fetched' = 0
  /\ pc' = "fetch"
  /\ UNCHANGED <<server, saved, stops>>

Iterate ==
  FetchPage \/ PageCeiling \/ SuppressRepeat \/ EmitEvent \/ RaiseStall \/ FinishPage

Next == Iterate \/ Interrupt \/ Resume

Spec == Init /\ [][Next]_vars

\* The consumer drains the iterator, and starts again after an interruption.
FairSpec == Spec /\ WF_vars(Iterate) /\ WF_vars(Resume)

-----------------------------------------------------------------------------
(***************************************************************************)
(* Properties.                                                             *)
(***************************************************************************)
\* A server that sends what it has, under either rule.
Honest == server.rule \in {"inclusive", "exclusive"}

(***************************************************************************)
(* Exactly once each, in order: at every instant, under either rule and    *)
(* however often the iteration was interrupted, what the consumer has is a *)
(* prefix of the log.                                                      *)
(***************************************************************************)
EmittedOnce == Honest => out = SubSeq(server.log, 1, Len(out))

(***************************************************************************)
(* A stream that is reported complete is complete, whatever the server did *)
(* on the way there: what cannot be read raises.                           *)
(***************************************************************************)
DoneIsWhole == pc = "done" => out = server.log

(***************************************************************************)
(* Why the next page can be cut right: whenever a page is asked for at the *)
(* boundary, in this process or in the one that takes up the checkpoint,   *)
(* the counts are those of the events delivered at the boundary.           *)
(***************************************************************************)
Remembers(c, b, o) ==
  c # None /\ c = b.ts =>
    \A e \in Event : e.ts = c =>
      b.counts[e] = Cardinality({i \in DOMAIN o : o[i] = e})

CheckpointRemembers ==
  Honest => /\ Remembers(saved.cursor, saved.boundary, saved.out)
            /\ pc = "fetch" => Remembers(cursor, boundary, out)

(***************************************************************************)
(* All of that together, as the consumer sees it: every step delivers the  *)
(* next event of the log, keeps what was delivered, or ends or resumes as  *)
(* Delivery allows.  In particular no server that can be read is taken for *)
(* one that stalls, nor for one that loops unless its log has more events  *)
(* than max_pages allows pages.                                            *)
(***************************************************************************)
Outcome ==
  CASE pc \in {"fetch", "read"} -> "running"
    [] pc = "done" -> "complete"
    [] pc = "stalled" -> "refused"
    [] pc = "ceiling" -> "given up"
    [] OTHER -> "stopped"

Promise ==
  INSTANCE Delivery WITH Events <- Event, Patience <- MaxPages, log <- server.log,
                         honest <- Honest, got <- out, kept <- saved.out, state <- Outcome

Delivered == Promise!Spec

\* A server that can be read is read to its end: no interruption keeps the
\* iteration from it, and no page is taken for a stall.
EventuallyDone == Honest => <>(pc = "done")

\* No server keeps the iteration running for ever.
AlwaysEnds == <>(pc \in {"done", "stalled", "ceiling"})
=============================================================================
