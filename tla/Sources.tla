------------------------------- MODULE Sources -------------------------------
(***************************************************************************)
(* Where reports come from (reportsource.py): a list page by page, newest  *)
(* first, of a character or a guild.  Reports are uploaded while it is     *)
(* read, and a page once answered is answered from the raw cache by this   *)
(* and every later process.  A list supplied by the user is a single page. *)
(***************************************************************************)
EXTENDS Integers, Sequences, SequencesExt

CONSTANTS
  InitialList,  \* the codes the server lists at first, newest first
  Uploads,      \* bound: codes uploaded later
  PageSize,
  Limits,       \* values of limit
  Forever       \* the limit that is none

ASSUME SourcesAssumption ==
  /\ InitialList \in Seq(ToSet(InitialList))
  /\ PageSize \in Nat \ {0}
  /\ Limits \subseteq (Nat \ {0}) \cup {Forever}
  /\ Forever \notin Nat

VARIABLES
  list,       \* the server's list
  pages,      \* the raw cache: page number -> [rows, more]
  since,      \* the codes that were listed when page 1 was fetched
  reader,     \* discover: [at, page, limit], the rows of the page still to be
              \*   looked at, and has_more_pages
  emitted     \* the candidates yielded, in order

sourceVars == <<list, pages, since, reader, emitted>>

SourcesInit ==
  /\ list = InitialList
  /\ pages = <<>>
  /\ since = {}
  /\ reader = [at |-> "idle", page |-> 1, limit |-> Forever, rows |-> <<>>, more |-> FALSE]
  /\ emitted = <<>>

PageOf(n) ==
  LET from == (n - 1) * PageSize + 1
      to == IF n * PageSize < Len(list) THEN n * PageSize ELSE Len(list)
  IN [rows |-> SubSeq(list, from, to), more |-> n * PageSize < Len(list)]

Upload(code) ==
  /\ code \notin ToSet(list)
  /\ list' = <<code>> \o list
  /\ UNCHANGED <<pages, since, reader, emitted>>

\* A process starts to read, or an earlier one dies, or is no longer listened
\* to, and another does.
StartReading(limit) ==
  /\ reader' = [at |-> "asking", page |-> 1, limit |-> limit, rows |-> <<>>, more |-> FALSE]
  /\ emitted' = <<>>
  /\ UNCHANGED <<list, pages, since>>

\* The page comes out of the raw cache, or goes into it.
FetchPage ==
  LET n == reader.page
      answer == IF n \in DOMAIN pages THEN pages[n] ELSE PageOf(n)
  IN /\ reader.at = "asking"
     /\ pages' = IF n \in DOMAIN pages THEN pages ELSE Append(pages, answer)
     /\ since' = IF n = 1 /\ n \notin DOMAIN pages THEN ToSet(list) ELSE since
     /\ reader' = [reader EXCEPT !.at = IF answer.rows = <<>> THEN "ended" ELSE "reading",
                                 !.rows = answer.rows, !.more = answer.more]
     /\ UNCHANGED <<list, emitted>>

Reached(limit, codes) == limit # Forever /\ Len(codes) >= limit

AtRow == reader.at = "reading" /\ reader.rows # <<>>

\* Not the code: what comes after a code that was seen is taken for seen.
SkipRowAndRest ==
  /\ AtRow /\ Head(reader.rows) \in ToSet(emitted)
  /\ reader' = [reader EXCEPT !.rows = <<>>, !.at = "ended"]
  /\ UNCHANGED <<list, pages, since, emitted>>

\* The code was seen on an earlier page.
SkipRow ==
  /\ AtRow /\ Head(reader.rows) \in ToSet(emitted)
  /\ reader' = [reader EXCEPT !.rows = Tail(@)]
  /\ UNCHANGED <<list, pages, since, emitted>>

\* Another candidate, and the last if the limit is reached.
YieldRow ==
  /\ AtRow /\ Head(reader.rows) \notin ToSet(emitted)
  /\ emitted' = Append(emitted, Head(reader.rows))
  /\ reader' = [reader EXCEPT !.rows = Tail(@),
                              !.at = IF Reached(reader.limit, emitted') THEN "ended" ELSE @]
  /\ UNCHANGED <<list, pages, since>>

TurnPage ==
  /\ reader.at = "reading" /\ reader.rows = <<>>
  /\ reader' = IF reader.more THEN [reader EXCEPT !.at = "asking", !.page = @ + 1]
                              ELSE [reader EXCEPT !.at = "ended"]
  /\ UNCHANGED <<list, pages, since, emitted>>

SourcesNext ==
  \/ \E code \in Uploads : Upload(code)
  \/ \E limit \in Limits : StartReading(limit)
  \/ FetchPage \/ SkipRow \/ YieldRow \/ TurnPage

SourcesSpec == SourcesInit /\ [][SourcesNext]_sourceVars

Codes == ToSet(InitialList) \cup Uploads

SourcesTypeOK ==
  /\ list \in Seq(Codes) /\ emitted \in Seq(Codes)
  /\ pages \in Seq([rows: Seq(Codes), more: BOOLEAN])
  /\ since \subseteq Codes
  /\ reader.at \in {"idle", "asking", "reading", "ended"}
  /\ reader.page \in 1 .. Len(pages) + 1
  /\ reader \in [at: {reader.at}, page: {reader.page}, limit: Limits \cup {Forever},
                 rows: Seq(Codes), more: BOOLEAN]

\* A reader that ends without a limit has yielded every report that was listed
\* when the first page was fetched, however many were uploaded while it read,
\* and whichever of its pages came out of the cache of an earlier process; and
\* a limit that it reached was filled with different reports.
NothingSkipped ==
  reader.at = "ended" =>
    /\ IsInjective(emitted)
    /\ \/ Reached(reader.limit, emitted) /\ Len(emitted) = reader.limit
       \/ since \subseteq ToSet(emitted)
=============================================================================
