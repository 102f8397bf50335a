---------------------------- MODULE MCPaginator ----------------------------
(***************************************************************************)
(* Instances of Paginator for TLC: every log of up to MaxLog events.       *)
(***************************************************************************)
EXTENDS Paginator

CONSTANT MaxLog

Logs ==
  {l \in UNION {[1 .. n -> Event] : n \in 0 .. MaxLog} :
     \A i \in 1 .. Len(l) - 1 : l[i].ts <= l[i + 1].ts}

Serving(logs, limits, rules) == [log: logs, limit: limits, rule: rules]

\* What both rules can serve, and two servers that are broken.
ReadableServers ==
  {s \in Serving(Logs, {2, 3}, {"inclusive", "exclusive"}) : Readable(s)}
  \cup Serving({l \in Logs : Len(l) = 4}, {2}, {"backwards", "wedged"})

\* A time that fills a page.
CrowdedServers == {s \in Serving(Logs, {2}, {"inclusive"}) : ~Roomy(s)}
=============================================================================
