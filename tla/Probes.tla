-------------------------------- MODULE Probes --------------------------------
(***************************************************************************)
(* The benchmark and focus-benchmark commands (benchmark.py, cli.py): a    *)
(* stream is paged under a cap on pages, by hostility or narrowed to one   *)
(* actor, and what the server does with each filter is read off the        *)
(* answers.  A probe follows nextPageTimestamp and counts every event of   *)
(* every page; unlike the paginator it drops no event that comes twice.    *)
(* Reports are probed one after the other, and the measurements written at *)
(* the end.                                                                *)
(***************************************************************************)
EXTENDS Naturals, Sequences, FiniteSets

CONSTANTS
  Servers,     \* [log, rule, unfiltered, hostility, source, target, both]: see below
  Focus,       \* the focus actor
  NoActor,     \* an event that names no actor on a side; an unset filter
  PageLimit,   \* events per page
  MaxPages,    \* cap on pages
  Reports,     \* bound: how many reports the list has
  NotMeasured

(***************************************************************************)
(* A server's log is the events of a stream, each with its time, its side  *)
(* ("Enemies" or "Friendlies"), source and target.  rule is what its       *)
(* cursors mean, as for the paginator.  unfiltered is the sides it sends   *)
(* if no hostility is asked for; hostility, source and target say whether  *)
(* it applies that filter, both whether it takes the last two together.    *)
(***************************************************************************)
Sides == {"Enemies", "Friendlies"}

\* A log is in the order of its times, each event is of one side, and something
\* is sent unasked.
ASSUME ProbesAssumption ==
  /\ Focus # NoActor
  /\ \A s \in Servers :
       /\ Len(s.log) \in Nat /\ DOMAIN s.log = 1 .. Len(s.log)
       /\ \A i \in DOMAIN s.log : s.log[i].side \in Sides /\ s.log[i].ts \in Nat
       /\ \A i, j \in DOMAIN s.log : i < j => s.log[i].ts <= s.log[j].ts
       /\ s.rule \in {"inclusive", "exclusive"}
       /\ s.unfiltered \subseteq Sides /\ s.unfiltered # {}
       /\ {s.hostility, s.source, s.target, s.both} \subseteq BOOLEAN
  /\ {PageLimit, MaxPages, Reports} \subseteq Nat /\ PageLimit # 0

VARIABLES
  server,
  command,       \* "benchmark" or "focus-benchmark"
  phase,         \* "fights", "probing", "written" or "stopped"
  left,          \* reports still to come
  probe,         \* the measurement under way
  measured,      \* the finished measurements of the stream being probed
  results,       \* verdicts reached: comparisons
  output         \* what was written

probeVars == <<server, command, phase, left, probe, measured, results, output>>

\* StreamMeasurement, with the cursor of measure; times count from the start of
\* the fight.
NewProbe == [cursor |-> 0, pages |-> 0, events |-> 0, exhausted |-> FALSE, error |-> FALSE,
             sources |-> {}, targets |-> {}]

ProbesInit ==
  /\ server \in Servers
  /\ command \in {"benchmark", "focus-benchmark"}
  /\ phase = "fights"
  /\ left = IF command = "benchmark" THEN Reports ELSE 1
  /\ probe = NewProbe /\ measured = <<>>
  /\ results = {}
  /\ output = NotMeasured

-----------------------------------------------------------------------------
\* What the server sends for a request [hostility, source, target], by the
\* positions in its log.
Passes(e, request) ==
  /\ e.side \in IF request.hostility = "any" \/ ~server.hostility
                THEN server.unfiltered ELSE {request.hostility}
  /\ request.source # NoActor /\ server.source => e.source = request.source
  /\ request.target # NoActor /\ server.target => e.target = request.target

Sent(request) == {i \in DOMAIN server.log : Passes(server.log[i], request)}

\* Filtering happens before paging: a page is what the limit leaves of the events
\* that pass and are not older than the cursor.
Due(request, cursor) == {i \in Sent(request) : server.log[i].ts >= cursor}

PageAt(request, cursor) ==
  {i \in Due(request, cursor) :
     Cardinality({j \in Due(request, cursor) : j < i}) < PageLimit}

\* nextPageTimestamp, where more is due than the page holds.
NextAt(request, cursor) ==
  LET last == CHOOSE i \in PageAt(request, cursor) :
                \A j \in PageAt(request, cursor) : j <= i
  IN server.log[last].ts + IF server.rule = "inclusive" THEN 0 ELSE 1

AfterPage(request, p) ==
  LET page == PageAt(request, p.cursor)
      more == page # Due(request, p.cursor)
  IN [cursor |-> IF more THEN NextAt(request, p.cursor) ELSE p.cursor,
      pages |-> p.pages + 1, events |-> p.events + Cardinality(page),
      exhausted |-> ~more, error |-> p.error,
      sources |-> (p.sources \cup {server.log[i].source : i \in page}) \ {NoActor},
      targets |-> (p.targets \cup {server.log[i].target : i \in page}) \ {NoActor}]

Refuses(request) == request.source # NoActor /\ request.target # NoActor /\ ~server.both

\* Pages are read up to the cap, the end, or an error, which is a result too.
Reading(p) == p.pages < MaxPages /\ ~p.exhausted /\ ~p.error

\* Not the code: a probe that the cap cut short is as good as any.
ExhaustedOrCapped(runs) == \A i \in DOMAIN runs : ~runs[i].error

\* HostilityComparison.
Exhausted(runs) == \A i \in DOMAIN runs : runs[i].exhausted /\ ~runs[i].error

AllTheSame(runs) ==
  /\ Exhausted(runs)
  /\ runs[1].events > 0
  /\ runs[1].events = runs[2].events /\ runs[1].events = runs[3].events

Verdict(runs) ==
  LET total == runs[2].events + runs[3].events IN
  IF ~Exhausted(runs) THEN "inconclusive"
  ELSE IF AllTheSame(runs) THEN "ignored"
  ELSE IF runs[1].events = total THEN "both sides"
  ELSE IF runs[1].events = runs[3].events /\ runs[2].events > 0 THEN "friendlies only"
  ELSE IF runs[1].events = runs[2].events /\ runs[3].events > 0 THEN "enemies only"
  ELSE "investigate"

\* FocusComparison, over the runs unnarrowed, by source, by target and by both.
FilterIgnored(runs, i) ==
  /\ ~runs[i].error
  /\ runs[i].events = runs[1].events
  /\ runs[i].exhausted /\ runs[1].exhausted
  /\ runs[1].events > 0

NarrowingVerdict(run, actors) ==
  IF run.error THEN "refused"
  ELSE IF run.events = 0 THEN IF run.exhausted THEN "empty" ELSE "empty so far"
  ELSE IF actors = {} THEN "unknown"
  ELSE IF actors \subseteq {Focus} THEN "confirmed" ELSE "mixed"

FocusSummary(runs) ==
  [accepted |-> ~runs[4].error, capped |-> ~runs[1].exhausted,
   selects |-> [source |-> NarrowingVerdict(runs[2], runs[2].sources),
                target |-> NarrowingVerdict(runs[3], runs[3].targets)],
   ignored |-> [source |-> FilterIgnored(runs, 2), target |-> FilterIgnored(runs, 3)]]

-----------------------------------------------------------------------------
\* Not the code: the command does not notice that no report is left.
FetchFightsPastTheEnd ==
  /\ phase = "fights"
  /\ left' = left - 1
  /\ phase' \in {"probing", "stopped"}
  /\ UNCHANGED <<server, command, probe, measured, results, output>>

\* The fights of the next report are fetched.  An error ends the command.
FetchFights ==
  /\ phase = "fights" /\ left > 0
  /\ left' = left - 1
  /\ phase' \in {"probing", "stopped"}
  /\ UNCHANGED <<server, command, probe, measured, results, output>>

\* focus-benchmark finds no Mythic+ fight, or no such player in the roster.
NothingToProbe ==
  /\ command = "focus-benchmark" /\ phase = "probing"
  /\ measured = <<>> /\ probe = NewProbe
  /\ phase' = "stopped"
  /\ UNCHANGED <<server, command, left, probe, measured, results, output>>

Unnarrowed(hostility) == [hostility |-> hostility, source |-> NoActor, target |-> NoActor]
Narrowed(source, target) == [hostility |-> "any", source |-> source, target |-> target]

Requested ==
  IF command = "benchmark"
  THEN <<Unnarrowed("any"), Unnarrowed("Enemies"), Unnarrowed("Friendlies")>>
  ELSE <<Unnarrowed("any"), Narrowed(Focus, NoActor), Narrowed(NoActor, Focus),
         Narrowed(Focus, Focus)>>

Request == Requested[Len(measured) + 1]

Probing ==
  /\ phase = "probing" /\ Len(measured) < Len(Requested)
  /\ UNCHANGED <<server, command, phase, left, results, output>>

ReadPage ==
  /\ Probing /\ Reading(probe) /\ ~Refuses(Request)
  /\ probe' = AfterPage(Request, probe)
  /\ UNCHANGED measured

ProbeFails ==
  /\ Probing /\ Reading(probe)
  /\ probe' = [probe EXCEPT !.error = TRUE]
  /\ UNCHANGED measured

EndProbe ==
  /\ Probing /\ ~Reading(probe)
  /\ measured' = Append(measured, probe)
  /\ probe' = NewProbe

Compare ==
  /\ phase = "probing" /\ Len(measured) = Len(Requested)
  /\ results' = results \cup {[runs |-> measured,
       verdict |-> IF command = "benchmark" THEN Verdict(measured) ELSE FocusSummary(measured)]}
  /\ measured' = <<>>
  /\ phase' = "fights"
  /\ UNCHANGED <<server, command, left, probe, output>>

WriteResults ==
  /\ phase = "fights" /\ left = 0
  /\ output' = results
  /\ phase' = "written"
  /\ UNCHANGED <<server, command, left, probe, measured, results>>

ProbesNext ==
  \/ FetchFights \/ NothingToProbe
  \/ ReadPage \/ ProbeFails \/ EndProbe
  \/ Compare \/ WriteResults

ProbesSpec == ProbesInit /\ [][ProbesNext]_probeVars

-----------------------------------------------------------------------------
ProbesTypeOK ==
  /\ server \in Servers
  /\ phase \in {"fights", "probing", "written", "stopped"}
  /\ left \in 0..IF command = "benchmark" THEN Reports ELSE 1
  /\ Len(measured) <= Len(Requested)
  /\ probe.pages <= MaxPages /\ probe.events <= probe.pages * PageLimit
  /\ probe # NewProbe => phase = "probing" /\ Len(measured) < Len(Requested)
  /\ output = IF phase = "written" THEN results ELSE NotMeasured

SideOf(side) == Cardinality({i \in DOMAIN server.log : server.log[i].side = side})

\* What is true of the server, in the words of the verdict.
Truth ==
  IF ~server.hostility THEN "ignored"
  ELSE IF server.unfiltered = Sides THEN "both sides"
  ELSE IF server.unfiltered = {"Friendlies"} THEN "friendlies only" ELSE "enemies only"

(***************************************************************************)
(* How much of what is sent a probe counts.  An inclusive cursor sends the *)
(* end of a page again, and an exclusive one passes over the rest of a     *)
(* time that a page ends in.                                               *)
(***************************************************************************)
\* Each event is sent once: in one page, or in pages that end between times.
Countable(request) ==
  \/ Cardinality(Sent(request)) <= PageLimit
  \/ /\ server.rule = "exclusive"
     /\ \A n \in 1..MaxPages, i, j \in Sent(request) :
          i < j /\ Cardinality({k \in Sent(request) : k <= i}) = n * PageLimit
            => server.log[i].ts # server.log[j].ts

\* Each is sent at least once.
Whole(request) == server.rule = "inclusive" \/ Countable(request)

\* A verdict on the hostility filter is right or withheld: no cap and no error in
\* the middle of any of the three probes makes it a wrong one, whatever the
\* cursors of a server that ignores the filter, and where each event is counted
\* once and the two sides can be told apart by their numbers of one that does not.
HostilityRight(verdict) ==
  verdict # "inconclusive" =>
    /\ ~server.hostility => verdict = "ignored" \/ Sent(Unnarrowed("any")) = {}
    /\ /\ server.hostility /\ \A i \in DOMAIN Requested : Countable(Requested[i])
       /\ SideOf("Enemies") # SideOf("Friendlies")
       /\ SideOf("Enemies") # 0 /\ SideOf("Friendlies") # 0
       => verdict = Truth

\* The reading of the nth probe, narrowed by a source or a target, contradicts the
\* server nowhere.  A filter it applies is not called mixed, nor, where events are
\* counted once, ignored unless every event passes it anyway.  One it does not
\* apply is called ignored wherever neither probe was cut short, and confirmed by a
\* whole stream only if that stream names no other actor.
NarrowingRight(r, n, field) ==
  LET all == {server.log[i][field] : i \in Sent(Unnarrowed("any"))} IN
  /\ server[field] =>
       /\ r.verdict.selects[field] # "mixed"
       /\ r.verdict.ignored[field] /\ Countable(Requested[1]) /\ Countable(Requested[n])
            => all \subseteq {Focus}
  /\ ~server[field] /\ r.runs[n].exhausted =>
       /\ r.runs[1].exhausted /\ r.runs[1].events > 0 => r.verdict.ignored[field]
       /\ r.verdict.selects[field] = "confirmed" /\ Whole(Requested[n])
            => all \subseteq {Focus, NoActor}

\* What is concluded from the measurements is so (benchmark.py, HostilityComparison
\* and FocusComparison).
VerdictRight ==
  \A r \in results :
    IF command = "benchmark" THEN HostilityRight(r.verdict)
    ELSE NarrowingRight(r, 2, "source") /\ NarrowingRight(r, 3, "target")

\* "The probe stopped; partial results are still written." (cli.py:875)
PartialResultsWritten == phase = "stopped" /\ results # {} => output = results
=============================================================================
