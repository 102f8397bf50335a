-------------------------------- MODULE Intake --------------------------------
(***************************************************************************)
(* What becomes of the pulls of one run and of the events inside them:     *)
(* normalize_pulls orders and links the pulls (normalize.py), PullAssigner *)
(* gives each event of a page to one of them as the page is stored         *)
(* (pullassign.py), and the validation report says which intervals overlap *)
(* and what that costs (validate.py).                                      *)
(*                                                                         *)
(* The pulls of a run are fetched anew by every job that visits it, and    *)
(* replaced wholesale; the events stored before keep the pull they were    *)
(* given.  The server may have cut the run into other pulls by then.       *)
(***************************************************************************)
EXTENDS Integers, Sequences, FiniteSets, FiniteSetsExt, SequencesExt

CONSTANTS
  PullSets,   \* what the server may answer: sets of [id, start, stop]
  Moments,    \* the timestamps of events
  MaxEvents,  \* bound: events held at a time
  NoId,       \* a pull without an id: its place is counted, no row is made
  NoPull,     \* the event lies outside every pull
  NoTime,     \* an event without a timestamp, or no pull to count from
  NotFetched  \* the raw cache has no answer

\* A pull ends no sooner than it starts, and of two of a run with ids each has
\* its own.
ASSUME IntakeAssumption ==
  /\ Moments \subseteq Int /\ NoTime \notin Moments
  /\ \A raw \in PullSets :
       /\ IsFiniteSet(raw)
       /\ \A p \in raw : /\ p.start \in Int /\ p.stop \in Int /\ p.start <= p.stop
                         /\ p.id = NoId \/ p.id \in Nat \ {0}
                         /\ \A q \in raw : p.id = q.id /\ p.id # NoId => p = q
  /\ NoId \notin Nat /\ NoPull \notin Nat /\ NoTime \notin Int

VARIABLES
  served,     \* the run's pulls as the server has them now
  cached,     \* the answer in the raw cache
  pulls,      \* rows of pulls: a sequence of [id, start, stop, index, prev, next]
  events,     \* rows of events: a set of [at, pull, sincePull]
  moved       \* the pulls were replaced by others while events were held

intakeVars == <<served, cached, pulls, events, moved>>

IntakeInit ==
  /\ served \in PullSets
  /\ cached = NotFetched
  /\ pulls = <<>>
  /\ events = {}
  /\ moved = FALSE

-----------------------------------------------------------------------------
\* normalize_pulls: in the order of their start, then of their id.
IdOrZero(p) == IF p.id = NoId THEN 0 ELSE p.id
Earlier(p, q) ==
  p.start < q.start \/ (p.start = q.start /\ IdOrZero(p) < IdOrZero(q))

Place(raw, p) == Cardinality({q \in raw : Earlier(q, p)})

NormalizePulls(raw) ==
  LET kept == {p \in raw : p.id # NoId}
      Nth(n) == CHOOSE p \in kept : Place(kept, p) = n - 1
      IdAt(n) == IF n \in 1..Cardinality(kept) THEN Nth(n).id ELSE NoId
  IN [n \in 1..Cardinality(kept) |->
        [id |-> Nth(n).id, start |-> Nth(n).start, stop |-> Nth(n).stop,
         index |-> Place(raw, Nth(n)), prev |-> IdAt(n - 1), next |-> IdAt(n + 1)]]

\* PullAssigner: the intervals by start, then by end, then as they were.  An
\* overlap is looked for between neighbours, and the search goes back from the
\* last pull that has started only if there is one.
Before(rows, i, j) ==
  \/ rows[i].start < rows[j].start
  \/ /\ rows[i].start = rows[j].start
     /\ rows[i].stop < rows[j].stop \/ (rows[i].stop = rows[j].stop /\ i < j)

Intervals(rows) ==
  [n \in DOMAIN rows |->
     rows[CHOOSE j \in DOMAIN rows :
            Cardinality({i \in DOMAIN rows : Before(rows, i, j)}) = n - 1]]

Overlaps(intervals) ==
  {i \in 1..Len(intervals) - 1 : intervals[i + 1].start <= intervals[i].stop}

\* Not the code: only the pull that started last is looked at.
FindNearest(intervals, at) ==
  LET started == {i \in DOMAIN intervals : intervals[i].start <= at}
  IN IF started = {} \/ at > intervals[Max(started)].stop THEN NoPull
     ELSE intervals[Max(started)].id

Find(intervals, at) ==
  LET started == {i \in DOMAIN intervals : intervals[i].start <= at}
      looked == IF Overlaps(intervals) = {} /\ started # {} THEN {Max(started)} ELSE started
      holding == {i \in looked : at <= intervals[i].stop}
  IN IF holding = {} THEN NoPull ELSE intervals[Max(holding)].id

StartOf(rows, id) == rows[CHOOSE i \in DOMAIN rows : rows[i].id = id].start

\* A row of events.  Without a timestamp no pull is looked for, and rel_ms is 0.
NormalizeEvent(rows, at) ==
  LET hit == IF at = NoTime THEN NoPull ELSE Find(Intervals(rows), at)
      rel == IF at = NoTime THEN 0 ELSE at
  IN [at |-> rel, pull |-> hit, timed |-> at # NoTime,
      sincePull |-> IF hit = NoPull THEN NoTime ELSE rel - StartOf(rows, hit)]

-----------------------------------------------------------------------------
\* The server cuts the run anew; the raw cache is emptied; --refresh.
ServerMoves ==
  /\ served' \in PullSets
  /\ UNCHANGED <<cached, pulls, events, moved>>

EmptyRawCache ==
  /\ cached # NotFetched
  /\ cached' = NotFetched
  /\ UNCHANGED <<served, pulls, events, moved>>

ResetRunEvents ==
  /\ events # {}
  /\ events' = {}
  /\ moved' = FALSE
  /\ UNCHANGED <<served, cached, pulls>>

CollectPulls ==
  /\ cached' = IF cached = NotFetched THEN served ELSE cached
  /\ pulls' = NormalizePulls(cached')
  /\ moved' = (moved \/ (events # {} /\ pulls' # pulls))
  /\ UNCHANGED <<served, events>>

\* A page is stored with the pulls that the job has just collected.
StoreEvent(at) ==
  /\ cached # NotFetched
  /\ pulls = NormalizePulls(cached)
  /\ Cardinality(events) < MaxEvents
  /\ events' = events \cup {NormalizeEvent(pulls, at)}
  /\ UNCHANGED <<served, cached, pulls, moved>>

IntakeNext ==
  \/ ServerMoves \/ EmptyRawCache \/ ResetRunEvents \/ CollectPulls
  \/ \E at \in Moments \cup {NoTime} : StoreEvent(at)

IntakeSpec == IntakeInit /\ [][IntakeNext]_intakeVars

-----------------------------------------------------------------------------
\* overlapping_pulls: every pair of rows, the later one starting within the
\* earlier one, with the events of the window that both claim.
\* Not the code: a pull is compared with the next one only.
OverlappingPairsOfNeighbours(rows) ==
  {<<rows[i], rows[i + 1]>> : i \in {j \in 1..Len(rows) - 1 : rows[j + 1].start <= rows[j].stop}}

OverlappingPairs(rows) ==
  {pair \in ToSet(rows) \X ToSet(rows) :
     /\ pair[1].id # pair[2].id
     /\ pair[2].start >= pair[1].start /\ pair[2].start <= pair[1].stop}

KindOf(pair) ==
  IF pair[2].start = pair[1].stop THEN "touching"
  ELSE IF pair[2].stop <= pair[1].stop THEN "nested" ELSE "partial"

Shorter(a, b) == IF a < b THEN a ELSE b

InWindow(pair) ==
  {e \in events : e.at \in pair[2].start .. Shorter(pair[1].stop, pair[2].stop)}

OverlapVerdict ==
  LET pairs == OverlappingPairs(pulls)
      contested == {p \in pairs : KindOf(p) # "touching" /\ InWindow(p) # {}}
  IN IF pairs = {} THEN "none"
     ELSE IF \A p \in pairs : KindOf(p) = "touching" THEN "boundaries"
     ELSE IF contested = {} THEN "unaffected" ELSE "contested"

IntakeTypeOK ==
  /\ served \in PullSets
  /\ cached \in PullSets \cup {NotFetched}
  /\ moved \in BOOLEAN
  /\ \A e \in events : (e.pull = NoPull) = (e.sincePull = NoTime)

Holding(at) == {p \in ToSet(pulls) : p.start <= at /\ at <= p.stop}

\* As long as the pulls are those the events were given to, an event is in a
\* pull whenever there is one that holds it, in one that holds it, and, of
\* several, in the one that started last: the shortcut that looks at a single
\* pull where no two neighbours overlap misses none.
EventsInTheirPulls ==
  ~moved =>
    \A e \in events :
      e.timed =>
        IF Holding(e.at) = {} THEN e.pull = NoPull
        ELSE \E p \in Holding(e.at) :
               /\ e.pull = p.id
               /\ e.sincePull = e.at - p.start
               /\ \A q \in Holding(e.at) : q.start <= p.start

\* The verdict on overlaps can be relied on, by readers of either number: if it
\* denies a contest, no event lies in two pulls but on their common boundary;
\* and the collector's warning, which compares neighbours, is there if any two
\* pulls share a moment.
OverlapVerdictRight ==
  /\ OverlapVerdict # "contested" =>
       \A e \in events : \A p, q \in Holding(e.at) :
         \/ p = q
         \/ e.at = p.stop /\ e.at = q.start
         \/ e.at = q.stop /\ e.at = p.start
  /\ (OverlapVerdict = "none") = (Overlaps(Intervals(pulls)) = {})
=============================================================================
