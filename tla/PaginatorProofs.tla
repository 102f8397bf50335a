--------------------------- MODULE PaginatorProofs ---------------------------
(***************************************************************************)
(* EventPaginator against every server that can be read, however long its  *)
(* log and however often the iteration is interrupted: what the consumer   *)
(* has is always a prefix of the log, and all of it when it is told so.    *)
(*                                                                         *)
(* The argument goes by positions in the log.  Between two pages the       *)
(* cursor points at or before the first event not yet delivered, and what  *)
(* lies between them is counted at the boundary; while a page is read, the *)
(* counts left are those of the delivered events still to come.            *)
(***************************************************************************)
EXTENDS Paginator, FiniteSetTheorems, SequenceTheorems, WellFoundedInduction, TLAPS

\* The theorems are about servers whose pages the rule can cut.
ServersReadable == \A s \in Servers : Readable(s)

Later(x, y) == IF x < y THEN y ELSE x

\* How often an event occurs at the positions i to j of the log.
Copies(s, e, i, j) == Cardinality({x \in i .. j : s.log[x] = e})

Boundaries == [ts: Times \cup {None}, counts: [Event -> Nat]]
Readings == [size: Nat, emitted: Nat, top: Times \cup {None}, fresh: [Event -> Nat]]

PaginatorType ==
  /\ server \in Servers
  /\ pc \in {"fetch", "read", "done", "stalled", "ceiling", "stopped"}
  /\ cursor \in Nat \cup {None} /\ next \in Nat \cup {None}
  /\ boundary \in Boundaries /\ reading \in Readings
  /\ page \in Seq(Event) /\ out \in Seq(Event)
  /\ saved \in [cursor: Nat \cup {None}, boundary: Boundaries, out: Seq(Event)]

-----------------------------------------------------------------------------
(***************************************************************************)
(* The inductive invariant.                                                *)
(***************************************************************************)
\* Between two pages: the next one is asked for at c, with the first k events
\* of the log delivered and b the boundary.
Ready(s, c, b, k) ==
  /\ c \in Nat /\ k \in 0 .. Len(s.log)
  /\ Older(s, c) <= k /\ k <= Older(s, c) + s.limit
  /\ k = 0 => c = Start /\ b.ts = None
  /\ k > 0 => c # Start /\ b.ts = s.log[k].ts /\ b.ts <= c
  /\ \A i \in Older(s, c) + 1 .. k : s.log[i].ts = b.ts
  /\ \A e \in Event : e.ts = b.ts /\ c <= e.ts => b.counts[e] = Copies(s, e, Older(s, c) + 1, k)
  /\ s.rule = "exclusive" => /\ Older(s, c) = k /\ \E i \in 0 .. k : k = i * s.limit
                             /\ k > 0 => b.ts < c
  /\ s.rule = "wedged" => c = Start

\* While the page asked for at c is read, up to the position p of the log.
Reading(s, c, k, p) ==
  /\ p \in Older(s, c) .. PageEnd(s, c)
  /\ page = SubSeq(s.log, p + 1, PageEnd(s, c))
  /\ next = NextAt(s, c)
  /\ out = SubSeq(s.log, 1, Later(k, p))
  /\ \A e \in Event : e.ts = boundary.ts /\ c <= e.ts => boundary.counts[e] = Copies(s, e, p + 1, k)
  /\ \A e \in Event : reading.fresh[e] = Copies(s, e, k + 1, p)
  /\ reading.top = IF p = Older(s, c) THEN None ELSE s.log[p].ts

Wedged == server.rule = "wedged"

PositionInv ==
  ~Wedged =>
    /\ Len(out) <= Len(server.log) /\ out = SubSeq(server.log, 1, Len(out))
    /\ pc # "done" =>
         /\ Len(saved.out) <= Len(server.log) /\ saved.out = SubSeq(server.log, 1, Len(saved.out))
         /\ Ready(server, saved.cursor, saved.boundary, Len(saved.out))
    /\ pc = "done" => out = server.log /\ saved.cursor = None
    /\ pc = "fetch" => cursor = saved.cursor /\ boundary = saved.boundary /\ out = saved.out
    /\ pc = "read" => /\ cursor = saved.cursor /\ boundary.ts = saved.boundary.ts
                      /\ Reading(server, cursor, Len(saved.out), PageEnd(server, cursor) - Len(page))

\* A server that never moves is never done with.
WedgedInv ==
  Wedged => /\ pc # "done" /\ saved.cursor = Start
            /\ pc \in {"fetch", "read"} => cursor = Start
            /\ pc = "read" => next = Start

IInv == PaginatorType /\ PositionInv /\ WedgedInv

-----------------------------------------------------------------------------
(***************************************************************************)
(* Positions in the log of a server.                                       *)
(***************************************************************************)
\* A log is a sequence of events in the order of their times, none of them at the start.
LEMMA ServerType ==
  ASSUME NEW s \in Servers
  PROVE  /\ s.log \in Seq(Event) /\ Len(s.log) \in Nat /\ DOMAIN s.log = 1 .. Len(s.log)
         /\ s.limit \in Nat \ {0} /\ s.rule \in Rules
         /\ \A i \in 1 .. Len(s.log) :
              s.log[i] \in Event /\ s.log[i].ts \in Times /\ s.log[i].ts \in Nat \ {0}
         /\ \A i, j \in 1 .. Len(s.log) : i <= j => s.log[i].ts <= s.log[j].ts
<1>1. s.log \in Seq(Event) /\ s.limit \in Nat \ {0} /\ s.rule \in Rules
      /\ \A i, j \in DOMAIN s.log : i < j => s.log[i].ts <= s.log[j].ts
  BY PaginatorAssumption
<1>2. Len(s.log) \in Nat /\ DOMAIN s.log = 1 .. Len(s.log)
  BY <1>1
<1>3. \A i \in 1 .. Len(s.log) : s.log[i] \in Event
  BY <1>1, <1>2
<1>4. \A i \in 1 .. Len(s.log) : s.log[i].ts \in Times /\ s.log[i].ts \in Nat \ {0}
  BY <1>3, PaginatorAssumption DEF Event
<1>5. \A i, j \in 1 .. Len(s.log) : i <= j => s.log[i].ts <= s.log[j].ts
  <2> SUFFICES ASSUME NEW i \in 1 .. Len(s.log), NEW j \in 1 .. Len(s.log), i <= j
               PROVE  s.log[i].ts <= s.log[j].ts
    OBVIOUS
  <2>1. CASE i = j
    BY <1>4, <2>1
  <2>2. CASE i < j
    BY <1>1, <1>2, <2>2
  <2> QED BY <2>1, <2>2
<1> QED BY <1>1, <1>2, <1>3, <1>4, <1>5

\* No event is at no time.
LEMMA EventTimes == \A e \in Event : e.ts \in Times /\ e.ts \in Nat \ {0} /\ e.ts # None
BY PaginatorAssumption DEF Event

\* A set of positions that is not empty has a first.
LEMMA LeastExists ==
  ASSUME NEW S \in SUBSET Nat, S # {}
  PROVE  \E n \in S : \A m \in S : n <= m
<1>1. PICK n \in S : \A m \in S : ~(<<m, n>> \in OpToRel(<, Nat))
  BY NatLessThanWellFounded, WFMin, Zenon
<1>2. ASSUME NEW m \in S PROVE n <= m
  <2>1. ~(m < n)
    BY <1>1, Zenon DEF OpToRel
  <2> QED BY <2>1
<1> QED BY <1>2

\* Older splits the log at a time.
LEMMA OlderIs ==
  ASSUME NEW s \in Servers, NEW c \in Nat
  PROVE  /\ Older(s, c) \in 0 .. Len(s.log) /\ Older(s, c) \in Nat
         /\ \A i \in 1 .. Len(s.log) : s.log[i].ts < c <=> i <= Older(s, c)
<1> DEFINE n == Len(s.log)
           Young == {i \in 1 .. n : ~(s.log[i].ts < c)}
<1>1. \E k \in 0 .. n : \A i \in 1 .. n : s.log[i].ts < c <=> i <= k
  <2>1. CASE Young = {}
    <3>1. n \in 0 .. n /\ \A i \in 1 .. n : s.log[i].ts < c /\ i <= n
      BY <2>1, ServerType
    <3> HIDE DEF n
    <3> QED BY <3>1
  <2>2. CASE Young # {}
    <3>1. Young \in SUBSET Nat
      BY ServerType
    <3>2. PICK k \in Young : \A i \in Young : k <= i
      BY <2>2, <3>1, LeastExists
    <3>3. \A i \in 1 .. n : s.log[i].ts < c => i <= k - 1
      BY <3>2, ServerType
    <3>4. \A i \in 1 .. n : i <= k - 1 => s.log[i].ts < c
      BY <3>2
    <3>5. k - 1 \in 0 .. n
      BY <3>2, ServerType
    <3> QED BY <3>3, <3>4, <3>5
  <2> QED BY <2>1, <2>2
<1>2. \E k \in 0 .. n : \A i \in DOMAIN s.log : s.log[i].ts < c <=> i <= k
  BY <1>1, ServerType
<1>3. Older(s, c) \in 0 .. n /\ \A i \in DOMAIN s.log : s.log[i].ts < c <=> i <= Older(s, c)
  BY <1>2 DEF Older
<1> QED BY <1>3, ServerType

\* And nothing else does.
LEMMA OlderUnique ==
  ASSUME NEW s \in Servers, NEW c \in Nat, NEW k \in 0 .. Len(s.log),
         \A i \in 1 .. Len(s.log) : s.log[i].ts < c <=> i <= k
  PROVE  Older(s, c) = k
<1>1. /\ Older(s, c) \in 0 .. Len(s.log) /\ Len(s.log) \in Nat
      /\ \A i \in 1 .. Len(s.log) : i <= Older(s, c) <=> i <= k
  BY OlderIs, ServerType
<1>2. ~(Older(s, c) < k)
  <2> SUFFICES ASSUME Older(s, c) < k PROVE FALSE
    OBVIOUS
  <2>1. k \in 1 .. Len(s.log)
    BY <1>1
  <2> QED BY <1>1, <2>1
<1>3. ~(k < Older(s, c))
  <2> SUFFICES ASSUME k < Older(s, c) PROVE FALSE
    OBVIOUS
  <2>1. Older(s, c) \in 1 .. Len(s.log)
    BY <1>1
  <2> QED BY <1>1, <2>1
<1> QED BY <1>1, <1>2, <1>3

\* Nothing is older than the start.
LEMMA OlderThanStart == ASSUME NEW s \in Servers PROVE Older(s, Start) = 0
<1>1. \A i \in 1 .. Len(s.log) : s.log[i].ts < Start <=> i <= 0
  BY ServerType, PaginatorAssumption
<1> QED BY <1>1, OlderUnique, ServerType, PaginatorAssumption

\* A page ends with the log or is full.
LEMMA PageEndIs ==
  ASSUME NEW s \in Servers, NEW c \in Nat
  PROVE  /\ PageEnd(s, c) \in Older(s, c) .. Len(s.log) /\ PageEnd(s, c) \in Nat
         /\ PageEnd(s, c) <= Older(s, c) + s.limit
         /\ PageEnd(s, c) # Len(s.log) =>
              /\ PageEnd(s, c) = Older(s, c) + s.limit /\ PageEnd(s, c) < Len(s.log)
              /\ PageEnd(s, c) \in 1 .. Len(s.log)
<1>1. Older(s, c) \in 0 .. Len(s.log) /\ Len(s.log) \in Nat /\ s.limit \in Nat \ {0}
  BY OlderIs, ServerType
<1> QED BY <1>1 DEF PageEnd

\* The positions a page lies between.
LEMMA PositionsAre ==
  ASSUME NEW s \in Servers, NEW c \in Nat
  PROVE  /\ Older(s, c) \in Nat /\ PageEnd(s, c) \in Nat /\ Len(s.log) \in Nat
         /\ Older(s, c) <= PageEnd(s, c) /\ PageEnd(s, c) <= Len(s.log)
<1>1. Older(s, c) \in Nat
  BY OlderIs
<1>2. Len(s.log) \in Nat
  BY ServerType
<1>3. PageEnd(s, c) \in Older(s, c) .. Len(s.log) /\ PageEnd(s, c) \in Nat
  BY PageEndIs
<1> QED BY <1>1, <1>2, <1>3

\* Pages are sequences of events, and their length is what their ends say.
LEMMA PageIs ==
  ASSUME NEW s \in Servers, NEW p \in Nat, NEW q \in Nat, p <= q, q <= Len(s.log)
  PROVE  SubSeq(s.log, p + 1, q) \in Seq(Event) /\ Len(SubSeq(s.log, p + 1, q)) = q - p
<1>1. \A i \in p + 1 .. q : s.log[i] \in Event
  BY ServerType
<1> QED BY <1>1, SubSeqProperties

\* A cursor is a number.
LEMMA NextAtType ==
  ASSUME NEW s \in Servers, NEW c \in Nat PROVE NextAt(s, c) \in Nat \cup {None}
<1>1. CASE PageEnd(s, c) = Len(s.log) \/ s.rule = "wedged"
  BY <1>1 DEF NextAt
<1>2. CASE PageEnd(s, c) # Len(s.log) /\ s.rule # "wedged"
  <2>1. s.log[PageEnd(s, c)].ts \in Nat /\ s.rule \in Rules /\ Start \in Nat
    BY <1>2, PageEndIs, ServerType, PaginatorAssumption
  <2> QED BY <1>2, <2>1, SMTT(30) DEF NextAt, Rules
<1> QED BY <1>1, <1>2

-----------------------------------------------------------------------------
(***************************************************************************)
(* Counting copies.                                                        *)
(***************************************************************************)
\* There are finitely many, and none where there are no positions.
LEMMA CopiesType ==
  ASSUME NEW s, NEW e, NEW i \in Int, NEW j \in Int
  PROVE  /\ IsFiniteSet({x \in i .. j : s.log[x] = e}) /\ Copies(s, e, i, j) \in Nat
         /\ j < i => Copies(s, e, i, j) = 0
<1>1. IsFiniteSet({x \in i .. j : s.log[x] = e})
  BY FS_Interval, FS_Subset
<1>2. j < i => {x \in i .. j : s.log[x] = e} = {}
  OBVIOUS
<1> QED BY <1>1, <1>2, FS_CardinalityType, FS_EmptySet DEF Copies

\* One more position to the right.
LEMMA CopiesLast ==
  ASSUME NEW s, NEW e, NEW i \in Int, NEW j \in Int, i <= j + 1
  PROVE  Copies(s, e, i, j + 1) = Copies(s, e, i, j) + (IF s.log[j + 1] = e THEN 1 ELSE 0)
<1> DEFINE S == {x \in i .. j : s.log[x] = e}
           T == {x \in i .. j + 1 : s.log[x] = e}
<1>1. IsFiniteSet(S) /\ Cardinality(S) \in Nat
  BY CopiesType DEF Copies
<1>0. j + 1 \notin S
  OBVIOUS
<1>2. T = IF s.log[j + 1] = e THEN S \cup {j + 1} ELSE S
  OBVIOUS
<1> HIDE DEF S, T
<1>3. Cardinality(T) = Cardinality(S) + (IF s.log[j + 1] = e THEN 1 ELSE 0)
  <2>1. Cardinality(S \cup {j + 1}) = Cardinality(S) + 1
    BY <1>0, <1>1, FS_AddElement
  <2>2. CASE s.log[j + 1] = e
    BY <1>2, <2>1, <2>2
  <2>3. CASE s.log[j + 1] # e
    BY <1>1, <1>2, <2>3
  <2> QED BY <2>2, <2>3
<1> QED BY <1>3 DEF Copies, S, T

\* One position less on the left.
LEMMA CopiesFirst ==
  ASSUME NEW s, NEW e, NEW i \in Int, NEW j \in Int, i <= j
  PROVE  Copies(s, e, i, j) = Copies(s, e, i + 1, j) + (IF s.log[i] = e THEN 1 ELSE 0)
<1> DEFINE S == {x \in i + 1 .. j : s.log[x] = e}
           T == {x \in i .. j : s.log[x] = e}
<1>1. IsFiniteSet(S) /\ Cardinality(S) \in Nat
  <2>1. i + 1 \in Int
    OBVIOUS
  <2>2. IsFiniteSet(S)
    <3>1. IsFiniteSet((i + 1) .. j) /\ S \in SUBSET ((i + 1) .. j)
      BY <2>1, FS_Interval
    <3> QED BY <3>1, FS_Subset
  <2> QED BY <2>2, FS_CardinalityType
<1>0. i \notin S
  OBVIOUS
<1>2. T = IF s.log[i] = e THEN S \cup {i} ELSE S
  OBVIOUS
<1> HIDE DEF S, T
<1>3. Cardinality(T) = Cardinality(S) + (IF s.log[i] = e THEN 1 ELSE 0)
  <2>1. Cardinality(S \cup {i}) = Cardinality(S) + 1
    BY <1>0, <1>1, FS_AddElement
  <2>2. CASE s.log[i] = e
    BY <1>2, <2>1, <2>2
  <2>3. CASE s.log[i] # e
    BY <1>1, <1>2, <2>3
  <2> QED BY <2>2, <2>3
<1> QED BY <1>3 DEF Copies, S, T

\* Positions that do not hold the event do not count.
LEMMA CopiesSkip ==
  ASSUME NEW s, NEW e, NEW i \in Int, NEW k \in Int, NEW j \in Int,
         \A x \in i .. j : x < k => s.log[x] # e,
         \A x \in k .. j : x < i => s.log[x] # e
  PROVE  Copies(s, e, i, j) = Copies(s, e, k, j)
<1>1. {x \in i .. j : s.log[x] = e} = {x \in k .. j : s.log[x] = e}
  OBVIOUS
<1> QED BY <1>1 DEF Copies

-----------------------------------------------------------------------------
(***************************************************************************)
(* From one page to the next.                                              *)
(***************************************************************************)
\* The first k events of a log, and one more.
LEMMA PrefixIs ==
  ASSUME NEW s \in Servers, NEW k \in Nat, k <= Len(s.log)
  PROVE  /\ SubSeq(s.log, 1, k) \in Seq(Event) /\ Len(SubSeq(s.log, 1, k)) = k
         /\ \A i \in 1 .. k : SubSeq(s.log, 1, k)[i] = s.log[i]
         /\ k < Len(s.log) => Append(SubSeq(s.log, 1, k), s.log[k + 1]) = SubSeq(s.log, 1, k + 1)
<1>1. s.log \in Seq(Event) /\ \A i \in 1 .. k : s.log[i] \in Event
  BY ServerType
<1>2. SubSeq(s.log, 1, k) \in Seq(Event) /\ Len(SubSeq(s.log, 1, k)) = k
      /\ \A i \in 1 .. k : SubSeq(s.log, 1, k)[i] = s.log[i]
  BY <1>1, SubSeqProperties
<1>3. ASSUME k < Len(s.log)
      PROVE  Append(SubSeq(s.log, 1, k), s.log[k + 1]) = SubSeq(s.log, 1, k + 1)
  <2>1. 1 \in 1 .. Len(s.log) /\ k + 1 \in 1 .. Len(s.log) /\ (k + 1) - 1 = k
    BY <1>3, ServerType
  <2>2. SubSeq(s.log, 1, k + 1) = SubSeq(s.log, 1, (k + 1) - 1) \o <<s.log[k + 1]>>
    BY <1>1, <2>1, SubSeqRecursiveSecond
  <2>3. Append(SubSeq(s.log, 1, k), s.log[k + 1]) = SubSeq(s.log, 1, k) \o <<s.log[k + 1]>>
    BY <1>2, <2>1, ServerType, AppendIsConcat
  <2> QED BY <2>1, <2>2, <2>3
<1> QED BY <1>2, <1>3

\* The last page, and only that, has no cursor.
LEMMA NextAtNone ==
  ASSUME NEW s \in Servers, NEW c \in Nat, s.rule # "wedged"
  PROVE  /\ NextAt(s, c) = None <=> PageEnd(s, c) = Len(s.log)
         /\ PageEnd(s, c) # Len(s.log) =>
              LET last == s.log[PageEnd(s, c)].ts IN
              /\ last \in Times /\ last \in Nat \ {0}
              /\ s.rule \in {"inclusive", "exclusive", "backwards"}
              /\ s.rule = "inclusive" => NextAt(s, c) = last
              /\ s.rule = "exclusive" => NextAt(s, c) = last + 1
              /\ s.rule = "backwards" => NextAt(s, c) = IF c = Start THEN last ELSE Start
<1>1. CASE PageEnd(s, c) = Len(s.log)
  BY <1>1 DEF NextAt
<1>2. CASE PageEnd(s, c) # Len(s.log)
  <2> DEFINE last == s.log[PageEnd(s, c)].ts
  <2>1. last \in Times /\ last \in Nat \ {0}
    BY <1>2, PageEndIs, ServerType
  <2>2. s.rule \in {"inclusive", "exclusive", "backwards"}
    BY ServerType DEF Rules
  <2>3. NextAt(s, c) = CASE s.rule = "inclusive" -> last
                         [] s.rule = "exclusive" -> last + 1
                         [] s.rule = "backwards" -> IF c = Start THEN last ELSE Start
    BY <1>2 DEF NextAt
  <2>4. NextAt(s, c) \in Nat
    BY <2>1, <2>2, <2>3, PaginatorAssumption
  <2> QED BY <1>2, <2>1, <2>2, <2>3, <2>4, PaginatorAssumption
<1> QED BY <1>1, <1>2

\* One page more.
LEMMA OneMore == ASSUME NEW i \in Int, NEW m \in Int PROVE (i + 1) * m = i * m + m
OBVIOUS

\* A page that is not the last ends after the boundary it began at, and the
\* cursor it sends leaves no more behind it than it counted.
LEMMA ReadyNext ==
  ASSUME NEW s \in Servers, Readable(s), s.rule # "wedged",
         NEW c \in Nat, NEW b, NEW k \in Nat, Ready(s, c, b, k),
         PageEnd(s, c) # Len(s.log), ~(NextAt(s, c) < c)
  PROVE  /\ k <= PageEnd(s, c) /\ b.ts # s.log[PageEnd(s, c)].ts
         /\ \A b2 : (/\ b2.ts = s.log[PageEnd(s, c)].ts
                    /\ \A e \in Event : b2.counts[e] = Copies(s, e, k + 1, PageEnd(s, c)))
                    => Ready(s, NextAt(s, c), b2, PageEnd(s, c))
<1> DEFINE n == Len(s.log)
           q == PageEnd(s, c)
           t == s.log[q].ts
           d == NextAt(s, c)
<1>1. /\ n \in Nat /\ s.limit \in Nat \ {0} /\ q \in 1 .. n /\ q < n /\ q = Older(s, c) + s.limit
      /\ Older(s, c) \in Nat /\ Older(s, c) <= k /\ k <= q
  BY ServerType, OlderIs, PageEndIs DEF Ready
<1>2. /\ \A i \in 1 .. n : s.log[i].ts \in Nat \ {0} /\ s.log[i].ts # None
      /\ \A i, j \in 1 .. n : i <= j => s.log[i].ts <= s.log[j].ts
      /\ \A i \in 1 .. n : s.log[i].ts < c <=> i <= Older(s, c)
  BY ServerType, OlderIs, PaginatorAssumption
<1>3. /\ t \in Nat \ {0} /\ s.rule \in {"inclusive", "exclusive", "backwards"}
      /\ s.rule = "inclusive" => d = t
      /\ s.rule = "exclusive" => d = t + 1
      /\ s.rule = "backwards" => c = Start /\ d = t
  <2>1. s.rule = "backwards" => d = IF c = Start THEN t ELSE Start
    BY NextAtNone
  <2>2. s.rule = "backwards" => c = Start
    BY <2>1, PaginatorAssumption
  <2> QED BY <2>1, <2>2, NextAtNone
<1>4. /\ k = 0 => c = Start /\ b.ts = None
      /\ k > 0 => c # Start /\ b.ts = s.log[k].ts /\ b.ts <= c
      /\ s.rule = "exclusive" => /\ Older(s, c) = k /\ \E i \in 0 .. k : k = i * s.limit
                                 /\ k > 0 => b.ts < c
  BY DEF Ready
<1>5. d \in Nat /\ d # Start /\ t <= d
  BY <1>3, PaginatorAssumption
<1> HIDE DEF n, q, t, d
<1>6. Older(s, d) \in Nat /\ Older(s, d) <= n /\ \A i \in 1 .. n : s.log[i].ts < d <=> i <= Older(s, d)
  BY <1>5, OlderIs DEF n
<1>7. k > 0 => b.ts < t
  <2> SUFFICES ASSUME k > 0 PROVE b.ts < t
    OBVIOUS
  <2>1. c <= t
    BY <1>1, <1>2 DEF t
  <2>2. k \in 1 .. n /\ b.ts \in Nat /\ b.ts <= c
    BY <1>1, <1>2, <1>4
  <2>3. CASE s.rule = "inclusive"
    <3>1. Older(s, c) + 1 \in 1 .. n /\ q = (Older(s, c) + 1) + s.limit - 1
      BY <1>1
    <3>2. s.log[Older(s, c) + 1].ts # t
      BY <1>1, <2>3, <3>1, ServerType DEF Readable, Roomy, n, t
    <3>3. c <= s.log[Older(s, c) + 1].ts /\ s.log[Older(s, c) + 1].ts <= t
      BY <1>1, <1>2, <3>1, SMTT(30) DEF t
    <3>4. s.log[Older(s, c) + 1].ts \in Nat
      BY <1>2, <3>1
    <3> QED BY <1>3, <2>2, <3>2, <3>3, <3>4
  <2>4. CASE s.rule = "exclusive"
    BY <1>3, <1>4, <2>1, <2>2, <2>4
  <2>5. CASE s.rule = "backwards"
    BY <1>3, <1>4, <2>5
  <2> QED BY <1>3, <2>3, <2>4, <2>5
<1>8. b.ts # t
  BY <1>1, <1>2, <1>3, <1>4, <1>7 DEF t
<1>9. Older(s, d) <= q /\ q <= Older(s, d) + s.limit /\ (s.rule = "exclusive" => Older(s, d) = q)
  <2>1. CASE s.rule = "exclusive"
    <3>1. PICK i \in 0 .. k : k = i * s.limit
      BY <1>4, <2>1
    <3>2. (i + 1) * s.limit = q /\ i + 1 \in 1 .. n
      <4>1. (i + 1) * s.limit = i * s.limit + s.limit
        <5>1. i \in Int /\ s.limit \in Int
          BY <1>1
        <5> QED BY <5>1, OneMore
      <4>2. i + 1 \in 1 .. n
        BY <1>1, <1>4, <2>1, <3>1
      <4> QED BY <1>1, <1>4, <2>1, <3>1, <4>1, <4>2
    <3>3. s.log[q].ts # s.log[q + 1].ts
      BY <1>1, <2>1, <3>2, ServerType DEF Readable, Unsplit, n
    <3>4. \A x \in 1 .. n : s.log[x].ts < d <=> x <= q
      <4> SUFFICES ASSUME NEW x \in 1 .. n PROVE s.log[x].ts < d <=> x <= q
        OBVIOUS
      <4>1. q + 1 \in 1 .. n /\ s.log[q + 1].ts \in Nat /\ s.log[x].ts \in Nat
        <5>1. q + 1 \in 1 .. n
          BY <1>1
        <5>2. \A y \in 1 .. n : s.log[y].ts \in Nat
          BY <1>2
        <5> QED BY <5>1, <5>2
      <4>2. s.log[q].ts < s.log[q + 1].ts
        <5>1. s.log[q].ts <= s.log[q + 1].ts
          <6>1. q \in 1 .. n /\ q + 1 \in 1 .. n /\ q <= q + 1
            BY <1>1
          <6> QED BY <1>2, <6>1
        <5>2. s.log[q].ts \in Nat
          BY <1>1, <1>2
        <5> QED BY <3>3, <4>1, <5>1, <5>2
      <4>3. x <= q => s.log[x].ts <= t
        BY <1>1, <1>2 DEF t
      <4>4. ~(x <= q) => s.log[q + 1].ts <= s.log[x].ts
        BY <1>1, <1>2, <4>1, SMTT(30)
      <4>5. d = t + 1 /\ t = s.log[q].ts /\ t \in Nat /\ q \in Int
        BY <1>1, <1>3, <2>1 DEF t
      <4>6. CASE x <= q
        <5>1. s.log[x].ts <= t
          BY <4>3, <4>6
        <5>2. s.log[x].ts \in Nat /\ t \in Nat
          BY <4>1, <4>5
        <5>3. s.log[x].ts < t + 1
          BY <5>1, <5>2
        <5> QED BY <4>5, <4>6, <5>3
      <4>7. CASE ~(x <= q)
        <5>1. s.log[q + 1].ts <= s.log[x].ts
          BY <4>4, <4>7
        <5>2. t < s.log[q + 1].ts
          BY <4>2, <4>5
        <5>3. s.log[x].ts \in Nat /\ s.log[q + 1].ts \in Nat /\ t \in Nat
          BY <4>1, <4>5
        <5>4. ~(s.log[x].ts < t + 1)
          BY <5>1, <5>2, <5>3
        <5> QED BY <4>5, <4>7, <5>4
      <4> QED BY <4>6, <4>7
    <3>5. Older(s, d) = q
      <4>1. q \in 0 .. n
        BY <1>1
      <4> QED BY <1>5, <3>4, <4>1, OlderUnique DEF n
    <3> QED BY <1>1, <3>5
  <2>2. CASE s.rule # "exclusive"
    <3>1. d = t
      BY <1>3, <2>2
    <3>2. Older(s, d) < q
      BY <1>1, <1>3, <1>6, <3>1 DEF t
    <3>3. CASE s.rule = "inclusive"
      <4> SUFFICES ASSUME Older(s, d) + s.limit < q PROVE FALSE
        BY <1>1, <1>6, <2>2, <3>2
      <4> DEFINE i == Older(s, d) + 1
                 j == Older(s, d) + s.limit
      <4>1. i \in 1 .. n /\ j \in 1 .. n /\ i <= j /\ j <= q /\ j = i + s.limit - 1 /\ ~(i <= Older(s, d))
        BY <1>1, <1>6, SMTT(30)
      <4>2. t <= s.log[i].ts /\ s.log[i].ts <= s.log[j].ts /\ s.log[j].ts <= t
        <5>1. ~(s.log[i].ts < t) /\ s.log[i].ts \in Nat
          BY <1>2, <1>6, <3>1, <4>1
        <5>2. s.log[i].ts <= s.log[j].ts /\ s.log[j].ts <= t
          BY <1>1, <1>2, <4>1 DEF t
        <5> QED BY <1>3, <5>1, <5>2
      <4>3. s.log[i].ts = s.log[j].ts
        BY <1>2, <1>3, <4>1, <4>2, SMTT(30)
      <4> QED BY <3>3, <4>1, <4>3, ServerType DEF Readable, Roomy, n
    <3>4. CASE s.rule = "backwards"
      <4>1. Older(s, c) = 0
        BY <1>3, <3>4, OlderThanStart
      <4> QED BY <1>1, <1>6, <2>2, <3>2, <4>1
    <3> QED BY <1>3, <2>2, <3>3, <3>4
  <2> QED BY <2>1, <2>2
<1>10. ASSUME NEW b2, b2.ts = t, \A e \in Event : b2.counts[e] = Copies(s, e, k + 1, q)
       PROVE  Ready(s, d, b2, q)
  <2>1. \A i \in Older(s, d) + 1 .. q : s.log[i].ts = t
    <3> SUFFICES ASSUME NEW i \in Older(s, d) + 1 .. q PROVE s.log[i].ts = t
      OBVIOUS
    <3>1. i \in 1 .. n /\ s.log[i].ts \in Nat
      BY <1>1, <1>2, <1>6
    <3>2. ~(s.log[i].ts < d) /\ s.log[i].ts <= t
      BY <1>1, <1>2, <1>6, <3>1, SMTT(30) DEF t
    <3> QED BY <1>3, <1>5, <3>1, <3>2
  <2>2. ASSUME NEW e \in Event, e.ts = t, d <= e.ts
        PROVE  b2.counts[e] = Copies(s, e, Older(s, d) + 1, q)
    <3>1. \A x \in k + 1 .. q : x < Older(s, d) + 1 => s.log[x] # e
      <4> SUFFICES ASSUME NEW x \in k + 1 .. q, x < Older(s, d) + 1, s.log[x] = e PROVE FALSE
        OBVIOUS
      <4>1. x \in 1 .. n /\ s.log[x].ts < d
        BY <1>1, <1>6
      <4> QED BY <1>2, <1>5, <2>2, <4>1
    <3>2. \A x \in Older(s, d) + 1 .. q : x < k + 1 => s.log[x] # e
      <4> SUFFICES ASSUME NEW x \in Older(s, d) + 1 .. q, x < k + 1 PROVE s.log[x].ts # t
        BY <2>2
      <4>1. x \in 1 .. n /\ k \in 1 .. n /\ x <= k
        BY <1>1, <1>6
      <4>2. s.log[x].ts <= b.ts /\ b.ts < t
        BY <1>1, <1>2, <1>4, <1>7, <4>1
      <4> QED BY <1>2, <1>3, <1>4, <4>1, <4>2
    <3> QED BY <1>1, <1>6, <1>10, <3>1, <3>2, CopiesSkip, SMTT(30)
  <2>3. s.rule = "exclusive" => /\ Older(s, d) = q /\ \E i \in 0 .. q : q = i * s.limit
                               /\ b2.ts < d
    <3> SUFFICES ASSUME s.rule = "exclusive"
                 PROVE  \E i \in 0 .. q : q = i * s.limit
      BY <1>3, <1>9, <1>10
    <3>1. PICK i \in 0 .. k : k = i * s.limit
      BY <1>4
    <3>2. (i + 1) * s.limit = i * s.limit + s.limit /\ i + 1 \in 0 .. q
      <4>1. i \in Int /\ s.limit \in Int
        BY <1>1
      <4>2. i \in 0 .. k /\ k < q
        <5>1. q = k + s.limit
          BY <1>1, <1>3, <1>4, <1>9
        <5>2. s.limit \in Nat \ {0}
          BY <1>1
        <5> QED BY <3>1, <5>1, <5>2
      <4>3. i + 1 \in 0 .. q
        <5>1. q \in Int
          BY <1>1
        <5> QED BY <4>2, <5>1
      <4> QED BY <4>1, <4>3, OneMore
    <3> QED BY <1>1, <1>4, <3>1, <3>2
  <2>4. s.rule # "wedged"
    BY <1>3
  <2> QED BY <1>1, <1>3, <1>5, <1>9, <1>10, <2>1, <2>2, <2>3, <2>4 DEF Ready, n, t
<1> QED BY <1>1, <1>8, <1>10 DEF q, t, d

-----------------------------------------------------------------------------
(***************************************************************************)
(* Within a page.                                                          *)
(***************************************************************************)
\* What is known while a page of a server that moves is read.
PageState(s, c, k, p) ==
  /\ s \in Servers /\ s = server /\ s.rule # "wedged" /\ c \in Nat /\ c = cursor
  /\ Ready(s, c, saved.boundary, k) /\ k \in Nat /\ k <= Len(s.log)
  /\ boundary.ts = saved.boundary.ts /\ k = Len(saved.out)
  /\ p \in Nat /\ p = PageEnd(s, c) - Len(page) /\ Len(page) \in Nat
  /\ Reading(s, c, k, p)

\* Every state that reads is one of those.
LEMMA PageStateOf ==
  ASSUME PaginatorType, PositionInv, ~Wedged, pc = "read"
  PROVE  PageState(server, cursor, Len(saved.out), PageEnd(server, cursor) - Len(page))
<1>1. /\ server \in Servers /\ server.rule # "wedged" /\ Len(page) \in Nat /\ Len(saved.out) \in Nat
  BY DEF PaginatorType, Wedged
<1>2. /\ cursor = saved.cursor /\ boundary.ts = saved.boundary.ts
      /\ Len(saved.out) <= Len(server.log)
      /\ Ready(server, saved.cursor, saved.boundary, Len(saved.out))
      /\ Reading(server, cursor, Len(saved.out), PageEnd(server, cursor) - Len(page))
  BY DEF PositionInv
<1>3. cursor \in Nat
  BY <1>2 DEF Ready
<1>4. PageEnd(server, cursor) - Len(page) \in Nat
  <2>1. PageEnd(server, cursor) - Len(page) \in Older(server, cursor) .. PageEnd(server, cursor)
    BY <1>2 DEF Reading
  <2>2. Older(server, cursor) \in Nat
    BY <1>1, <1>3, OlderIs
  <2> QED BY <2>1, <2>2
<1> QED BY <1>1, <1>2, <1>3, <1>4 DEF PageState

\* The event at hand is the one after the position, no older than the cursor; it
\* is a repeat if and only if it was delivered before.
LEMMA EventAtHand ==
  ASSUME NEW s \in Servers, NEW c \in Nat, NEW k \in Nat, NEW p \in Nat,
         PaginatorType, PageState(s, c, k, p), page # <<>>
  PROVE  /\ p < PageEnd(s, c) /\ p + 1 \in 1 .. Len(s.log) /\ p + 1 \in Nat
         /\ Head(page) = s.log[p + 1] /\ Head(page) \in Event /\ Older(s, c) <= p
         /\ Tail(page) = SubSeq(s.log, (p + 1) + 1, PageEnd(s, c))
         /\ Len(Tail(page)) = Len(page) - 1 /\ Len(Tail(page)) \in Nat
         /\ PageEnd(s, c) - Len(Tail(page)) = p + 1
         /\ Top(Head(page)) = s.log[p + 1].ts /\ Head(page).ts = s.log[p + 1].ts
         /\ c <= Head(page).ts
         /\ Repeat(Head(page)) <=> p < k
<1>1. /\ p = PageEnd(s, c) - Len(page) /\ page \in Seq(Event) /\ Len(page) \in Nat
  BY DEF PageState, PaginatorType
<1>2. p \in Older(s, c) .. PageEnd(s, c) /\ page = SubSeq(s.log, p + 1, PageEnd(s, c))
  BY DEF PageState, Reading
<1>3. \A e \in Event : e.ts = boundary.ts /\ c <= e.ts => boundary.counts[e] = Copies(s, e, p + 1, k)
  BY DEF PageState, Reading
<1>4. reading.top = IF p = Older(s, c) THEN None ELSE s.log[p].ts
  BY DEF PageState, Reading
<1>5. \A i \in Older(s, c) + 1 .. k : s.log[i].ts = boundary.ts
  BY DEF PageState, Ready
<1>6. /\ Older(s, c) \in Nat /\ PageEnd(s, c) \in Nat /\ PageEnd(s, c) <= Len(s.log) /\ Len(s.log) \in Nat
      /\ Older(s, c) <= PageEnd(s, c)
  BY PositionsAre
<1>7. /\ Len(page) # 0 /\ Head(page) \in Event /\ Len(Tail(page)) = Len(page) - 1
  BY <1>1, HeadTailProperties, EmptySeq
<1>8. /\ p < PageEnd(s, c) /\ p + 1 \in 1 .. Len(s.log) /\ PageEnd(s, c) \in p + 1 .. Len(s.log)
      /\ Older(s, c) <= p /\ PageEnd(s, c) - Len(Tail(page)) = p + 1 /\ Len(Tail(page)) \in Nat
  <2> DEFINE m == Len(page)
             q == PageEnd(s, c)
             n == Len(s.log)
             o == Older(s, c)
             l == Len(Tail(page))
  <2>1. /\ m \in Nat /\ m # 0 /\ q \in Nat /\ q <= n /\ n \in Nat /\ o \in Nat /\ p = q - m
        /\ l = m - 1 /\ p \in o .. q
    BY <1>1, <1>2, <1>6, <1>7
  <2> HIDE DEF m, q, n, o, l
  <2>2. p < q /\ p + 1 \in 1 .. n /\ q \in p + 1 .. n /\ o <= p /\ q - l = p + 1 /\ l \in Nat
    BY <2>1
  <2> QED BY <2>2 DEF m, q, n, o, l
<1>9. Head(page) = s.log[p + 1] /\ Tail(page) = SubSeq(s.log, (p + 1) + 1, PageEnd(s, c))
  <2>1. s.log \in Seq(Event)
    BY ServerType
  <2> QED BY <1>2, <1>8, <2>1, HeadTailOfSubSeq
<1>10. s.log[p + 1].ts \in Nat /\ s.log[p + 1].ts # None /\ c <= s.log[p + 1].ts
  <2>1. s.log[p + 1].ts \in Nat
    BY <1>8, ServerType
  <2>2. ~(s.log[p + 1].ts < c)
    <3>1. ~(p + 1 <= Older(s, c))
      BY <1>6, <1>8
    <3>2. \A i \in 1 .. Len(s.log) : s.log[i].ts < c <=> i <= Older(s, c)
      BY OlderIs
    <3> QED BY <1>8, <3>1, <3>2
  <2> QED BY <2>1, <2>2, PaginatorAssumption
<1>11. Top(Head(page)) = s.log[p + 1].ts
  <2>1. CASE p = Older(s, c)
    BY <1>4, <1>9, <2>1 DEF Top
  <2>2. CASE p # Older(s, c)
    <3>1. p \in 1 .. Len(s.log) /\ p <= p + 1
      BY <1>6, <1>8, <2>2
    <3>2. s.log[p].ts <= s.log[p + 1].ts /\ s.log[p].ts \in Nat
      BY <1>8, <3>1, ServerType
    <3>3. reading.top = s.log[p].ts /\ s.log[p].ts # None
      BY <1>4, <2>2, <3>2, PaginatorAssumption
    <3> QED BY <1>9, <1>10, <3>2, <3>3 DEF Top
  <2> QED BY <2>1, <2>2
<1>12. Repeat(Head(page)) <=> p < k
  <2> DEFINE e == Head(page)
  <2>1. e \in Event /\ e = s.log[p + 1] /\ c <= e.ts
    BY <1>7, <1>9, <1>10
  <2> HIDE DEF e
  <2>2. CASE p < k
    <3>1. p + 1 \in Older(s, c) + 1 .. k
      BY <1>6, <1>8, <2>2
    <3>2. e.ts = boundary.ts
      BY <1>5, <2>1, <3>1
    <3>3. boundary.counts[e] = Copies(s, e, p + 1, k)
      BY <1>3, <2>1, <3>2
    <3>4. p + 1 \in Int /\ k \in Int /\ p + 1 <= k /\ (p + 1) + 1 \in Int
      BY <2>2
    <3>5. Copies(s, e, p + 1, k) = Copies(s, e, (p + 1) + 1, k) + 1
      BY <2>1, <3>4, CopiesFirst
    <3>6. Copies(s, e, (p + 1) + 1, k) \in Nat
      BY <3>4, CopiesType
    <3>7. boundary.counts[e] > 0
      BY <3>3, <3>5, <3>6
    <3> QED BY <2>2, <3>2, <3>7 DEF Repeat, e
  <2>3. CASE ~(p < k)
    <3>1. p + 1 \in Int /\ k \in Int /\ k < p + 1
      BY <2>3
    <3>2. Copies(s, e, p + 1, k) = 0
      BY <3>1, CopiesType
    <3>3. e.ts = boundary.ts => boundary.counts[e] = 0
      BY <1>3, <2>1, <3>2
    <3> QED BY <2>3, <3>3 DEF Repeat, e
  <2> QED BY <2>2, <2>3
<1>13. Head(page).ts = s.log[p + 1].ts /\ c <= Head(page).ts
  BY <1>9, <1>10
<1>14. p + 1 \in Nat
  OBVIOUS
<1> HIDE DEF PageState, PaginatorType
<1> QED BY <1>7, <1>8, <1>9, <1>11, <1>12, <1>13, <1>14

\* A page is first read at its first position.
LEMMA FetchReads ==
  ASSUME NEW s \in Servers, NEW c \in Nat, NEW k \in Nat,
         s = server, c = cursor, k = Len(saved.out), k <= Len(s.log), s.rule # "wedged",
         Ready(s, c, boundary, k), out = SubSeq(s.log, 1, k), FetchPage
  PROVE  Reading(server, cursor, Len(saved.out), PageEnd(server, cursor) - Len(page))'
<1>1. /\ page' = SubSeq(s.log, Older(s, c) + 1, PageEnd(s, c)) /\ next' = NextAt(s, c)
      /\ boundary' = boundary /\ out' = out
  BY DEF FetchPage, PageAt
<1>2. reading'.fresh = NoCounts /\ reading'.top = None
  BY DEF FetchPage, NoReading
<1>3. /\ Older(s, c) \in Nat /\ PageEnd(s, c) \in Nat /\ Older(s, c) <= PageEnd(s, c)
      /\ PageEnd(s, c) <= Len(s.log) /\ Older(s, c) <= k
  <2>1. Older(s, c) <= k
    BY DEF Ready
  <2> QED BY <2>1, PositionsAre
<1>4. Len(page') = PageEnd(s, c) - Older(s, c)
  BY <1>1, <1>3, PageIs
<1>5. PageEnd(s, c) - Len(page') = Older(s, c) /\ Older(s, c) \in Older(s, c) .. PageEnd(s, c)
  BY <1>3, <1>4
<1>6. \A e \in Event : Copies(s, e, k + 1, Older(s, c)) = 0 /\ NoCounts[e] = 0
  <2>1. k + 1 \in Int /\ Older(s, c) \in Int /\ Older(s, c) < k + 1
    BY <1>3
  <2> QED BY <2>1, CopiesType DEF NoCounts
<1>7. Later(k, Older(s, c)) = k
  BY <1>3 DEF Later
<1>8. \A e \in Event : e.ts = boundary.ts /\ c <= e.ts =>
        boundary.counts[e] = Copies(s, e, Older(s, c) + 1, k)
  BY DEF Ready
<1>9. server' = s /\ cursor' = c /\ saved' = saved /\ Len(saved'.out) = k
  BY DEF FetchPage
<1> QED BY <1>1, <1>2, <1>5, <1>6, <1>7, <1>8, <1>9 DEF Reading

\* A repeat is dropped: the position moves on, and one copy less is expected.
LEMMA SuppressReads ==
  ASSUME NEW s \in Servers, NEW c \in Nat, NEW k \in Nat, NEW p \in Nat,
         PaginatorType, PageState(s, c, k, p), SuppressRepeat
  PROVE  /\ Reading(server, cursor, Len(saved.out), PageEnd(server, cursor) - Len(page))'
         /\ boundary'.ts = boundary.ts
<1> DEFINE h == Head(page)
           q == PageEnd(s, c)
<1>1. /\ page # <<>> /\ Repeat(h) /\ page' = Tail(page) /\ out' = out /\ next' = next
      /\ boundary' = [boundary EXCEPT !.counts[h] = @ - 1] /\ reading' = [reading EXCEPT !.top = Top(h)]
      /\ server' = server /\ cursor' = cursor /\ saved' = saved
  BY DEF SuppressRepeat, AtEvent
<1>2. /\ p < q /\ p + 1 \in 1 .. Len(s.log) /\ h = s.log[p + 1] /\ h \in Event /\ Older(s, c) <= p
      /\ Tail(page) = SubSeq(s.log, (p + 1) + 1, q) /\ q - Len(Tail(page)) = p + 1
      /\ Top(h) = s.log[p + 1].ts /\ p < k
  <2>1. page # <<>>
    BY <1>1
  <2>2. p < q /\ p + 1 \in 1 .. Len(s.log) /\ Older(s, c) <= p /\ h \in Event
    BY <2>1, EventAtHand
  <2>3. h = s.log[p + 1]
    BY <2>1, EventAtHand
  <2>4. Tail(page) = SubSeq(s.log, (p + 1) + 1, q)
    BY <2>1, EventAtHand
  <2>5. q - Len(Tail(page)) = p + 1
    BY <2>1, EventAtHand
  <2>6. Top(h) = s.log[p + 1].ts /\ (Repeat(h) <=> p < k)
    BY <2>1, EventAtHand
  <2> HIDE DEF h, q
  <2> QED BY <1>1, <2>2, <2>3, <2>4, <2>5, <2>6
<1>3. /\ s = server /\ c = cursor /\ k = Len(saved.out)
      /\ next = NextAt(s, c) /\ out = SubSeq(s.log, 1, Later(k, p))
      /\ \A e \in Event : e.ts = boundary.ts /\ c <= e.ts => boundary.counts[e] = Copies(s, e, p + 1, k)
      /\ \A e \in Event : reading.fresh[e] = Copies(s, e, k + 1, p)
  BY DEF PageState, Reading
<1>4. boundary \in Boundaries /\ reading \in Readings
  BY DEF PaginatorType
<1>5. Older(s, c) \in Nat /\ q \in Nat
  BY PositionsAre
<1> HIDE DEF h, q
<1>6. /\ boundary'.ts = boundary.ts
      /\ \A e \in Event : boundary'.counts[e] = boundary.counts[e] - (IF e = h THEN 1 ELSE 0)
  <2>1. boundary.counts \in [Event -> Nat]
    BY <1>4 DEF Boundaries
  <2>2. boundary'.ts = boundary.ts /\ boundary'.counts = [boundary.counts EXCEPT ![h] = @ - 1]
    BY <1>1, <1>4 DEF Boundaries
  <2> QED BY <1>2, <2>1, <2>2
<1>7. reading'.fresh = reading.fresh /\ reading'.top = s.log[p + 1].ts
  BY <1>1, <1>2, <1>4 DEF Readings
<1>8. p + 1 \in Older(s, c) .. q /\ p + 1 # Older(s, c) /\ Later(k, p) = Later(k, p + 1)
  <2>1. p < q /\ Older(s, c) <= p /\ p < k
    BY <1>2
  <2> QED BY <1>5, <2>1 DEF Later
<1>9. ASSUME NEW e \in Event, e.ts = boundary.ts, c <= e.ts
      PROVE  boundary'.counts[e] = Copies(s, e, (p + 1) + 1, k)
  <2>1. p + 1 \in Int /\ k \in Int /\ p + 1 <= k /\ (p + 1) + 1 \in Int
    BY <1>2
  <2>2. Copies(s, e, p + 1, k) = Copies(s, e, (p + 1) + 1, k) + (IF s.log[p + 1] = e THEN 1 ELSE 0)
    BY <2>1, CopiesFirst
  <2>3. Copies(s, e, (p + 1) + 1, k) \in Nat
    BY <2>1, CopiesType
  <2>4. boundary.counts[e] = Copies(s, e, p + 1, k)
    BY <1>3, <1>9
  <2> QED BY <1>2, <1>6, <2>2, <2>3, <2>4, SMTT(30)
<1>10. ASSUME NEW e \in Event PROVE reading'.fresh[e] = Copies(s, e, k + 1, p + 1)
  <2>1. k + 1 \in Int /\ p \in Int /\ p + 1 \in Int /\ p + 1 < k + 1 /\ p < k + 1
    BY <1>2
  <2>2. Copies(s, e, k + 1, p) = 0 /\ Copies(s, e, k + 1, p + 1) = 0
    BY <2>1, CopiesType
  <2> QED BY <1>3, <1>7, <2>2
<1>11. server' = s /\ cursor' = c /\ Len(saved'.out) = k /\ PageEnd(s, c) - Len(page') = p + 1
  BY <1>1, <1>2, <1>3 DEF q
<1>12. page' = SubSeq(s.log, (p + 1) + 1, PageEnd(s, c)) /\ next' = NextAt(s, c)
       /\ out' = SubSeq(s.log, 1, Later(k, p + 1)) /\ p + 1 \in Older(s, c) .. PageEnd(s, c)
  BY <1>1, <1>2, <1>3, <1>8 DEF q
<1> QED BY <1>6, <1>7, <1>8, <1>9, <1>10, <1>11, <1>12 DEF Reading

\* An event that was not delivered before is delivered, and counted for the page.
LEMMA EmitReads ==
  ASSUME NEW s \in Servers, NEW c \in Nat, NEW k \in Nat, NEW p \in Nat,
         PaginatorType, PageState(s, c, k, p), EmitEvent
  PROVE  /\ Reading(server, cursor, Len(saved.out), PageEnd(server, cursor) - Len(page))'
         /\ out' = SubSeq(s.log, 1, p + 1) /\ p + 1 <= Len(s.log)
<1> DEFINE h == Head(page)
           q == PageEnd(s, c)
<1>1. /\ page # <<>> /\ ~Repeat(h) /\ page' = Tail(page) /\ out' = Append(out, h) /\ next' = next
      /\ boundary' = boundary
      /\ reading' = [reading EXCEPT !.top = Top(h), !.emitted = @ + 1,
                        !.fresh[h] = IF h.ts = Top(h) THEN @ + 1 ELSE @]
      /\ server' = server /\ cursor' = cursor /\ saved' = saved
  BY DEF EmitEvent, AtEvent
<1>2. /\ p < q /\ p + 1 \in 1 .. Len(s.log) /\ h = s.log[p + 1] /\ h \in Event /\ Older(s, c) <= p
      /\ Tail(page) = SubSeq(s.log, (p + 1) + 1, q) /\ q - Len(Tail(page)) = p + 1
      /\ Top(h) = s.log[p + 1].ts /\ h.ts = s.log[p + 1].ts /\ ~(p < k)
  <2>1. page # <<>>
    BY <1>1
  <2>2. p < q /\ p + 1 \in 1 .. Len(s.log) /\ Older(s, c) <= p /\ h \in Event
    BY <2>1, EventAtHand
  <2>3. h = s.log[p + 1]
    BY <2>1, EventAtHand
  <2>4. Tail(page) = SubSeq(s.log, (p + 1) + 1, q)
    BY <2>1, EventAtHand
  <2>5. q - Len(Tail(page)) = p + 1
    BY <2>1, EventAtHand
  <2>6. Top(h) = s.log[p + 1].ts /\ (Repeat(h) <=> p < k)
    BY <2>1, EventAtHand
  <2> HIDE DEF h, q
  <2> QED BY <1>1, <2>2, <2>3, <2>4, <2>5, <2>6
<1>3. /\ s = server /\ c = cursor /\ k = Len(saved.out)
      /\ next = NextAt(s, c) /\ out = SubSeq(s.log, 1, Later(k, p))
      /\ \A e \in Event : e.ts = boundary.ts /\ c <= e.ts => boundary.counts[e] = Copies(s, e, p + 1, k)
      /\ \A e \in Event : reading.fresh[e] = Copies(s, e, k + 1, p)
  BY DEF PageState, Reading
<1>4. reading \in Readings
  BY DEF PaginatorType
<1>5. Older(s, c) \in Nat /\ q \in Nat /\ Len(s.log) \in Nat
  BY PositionsAre
<1> HIDE DEF h, q
<1>6. /\ reading'.top = s.log[p + 1].ts
      /\ \A e \in Event : reading'.fresh[e] = reading.fresh[e] + (IF s.log[p + 1] = e THEN 1 ELSE 0)
  <2>1. reading.fresh \in [Event -> Nat]
    BY <1>4 DEF Readings
  <2>2. reading'.top = s.log[p + 1].ts
        /\ reading'.fresh = [reading.fresh EXCEPT ![h] = @ + 1]
    BY <1>1, <1>2, <1>4 DEF Readings
  <2> QED BY <1>2, <2>1, <2>2
<1>7. p + 1 \in Older(s, c) .. q /\ p + 1 # Older(s, c) /\ Later(k, p) = p /\ Later(k, p + 1) = p + 1
  <2>1. p < q /\ Older(s, c) <= p /\ ~(p < k)
    BY <1>2
  <2> QED BY <1>5, <2>1 DEF Later
<1>8. out' = SubSeq(s.log, 1, p + 1)
  <2>1. p < Len(s.log) /\ p <= Len(s.log)
    BY <1>2, <1>5
  <2>2. Append(SubSeq(s.log, 1, p), s.log[p + 1]) = SubSeq(s.log, 1, p + 1)
    BY <2>1, PrefixIs
  <2> QED BY <1>1, <1>2, <1>3, <1>7, <2>2
<1>9. ASSUME NEW e \in Event, e.ts = boundary.ts, c <= e.ts
      PROVE  boundary.counts[e] = Copies(s, e, (p + 1) + 1, k)
  <2>1. p + 1 \in Int /\ k \in Int /\ k < p + 1 /\ (p + 1) + 1 \in Int /\ k < (p + 1) + 1
    BY <1>2
  <2>2. Copies(s, e, p + 1, k) = 0 /\ Copies(s, e, (p + 1) + 1, k) = 0
    BY <2>1, CopiesType
  <2> QED BY <1>3, <1>9, <2>2
<1>10. ASSUME NEW e \in Event PROVE reading'.fresh[e] = Copies(s, e, k + 1, p + 1)
  <2>1. k + 1 \in Int /\ p \in Int /\ k + 1 <= p + 1
    BY <1>2
  <2>2. Copies(s, e, k + 1, p + 1) = Copies(s, e, k + 1, p) + (IF s.log[p + 1] = e THEN 1 ELSE 0)
    BY <2>1, CopiesLast
  <2> QED BY <1>3, <1>6, <2>2
<1>11. server' = s /\ cursor' = c /\ Len(saved'.out) = k /\ PageEnd(s, c) - Len(page') = p + 1
  BY <1>1, <1>2, <1>3 DEF q
<1>12. page' = SubSeq(s.log, (p + 1) + 1, PageEnd(s, c)) /\ next' = NextAt(s, c)
       /\ out' = SubSeq(s.log, 1, Later(k, p + 1)) /\ p + 1 \in Older(s, c) .. PageEnd(s, c)
  BY <1>1, <1>2, <1>3, <1>7, <1>8 DEF q
<1>13. Reading(server, cursor, Len(saved.out), PageEnd(server, cursor) - Len(page))'
  BY <1>1, <1>6, <1>7, <1>9, <1>10, <1>11, <1>12 DEF Reading
<1> QED BY <1>2, <1>5, <1>8, <1>13

\* A page that is not the last leaves the iteration ready for the next, and the
\* last one leaves nothing out.
LEMMA FinishReads ==
  ASSUME NEW s \in Servers, NEW c \in Nat, NEW k \in Nat, NEW p \in Nat,
         Readable(s), PaginatorType, PageState(s, c, k, p), FinishPage
  PROVE  /\ next = None => out = s.log
         /\ next # None => /\ Len(out) <= Len(s.log) /\ out = SubSeq(s.log, 1, Len(out))
                           /\ Ready(s, next, BoundaryAfter, Len(out))
<1> DEFINE q == PageEnd(s, c)
           n == Len(s.log)
<1>1. page = <<>> /\ ~Stall
  BY DEF FinishPage, PageRead
<1>2. /\ s = server /\ c = cursor /\ p = q - Len(page) /\ Ready(s, c, saved.boundary, k)
      /\ k <= n /\ s.rule # "wedged" /\ boundary.ts = saved.boundary.ts
      /\ next = NextAt(s, c) /\ out = SubSeq(s.log, 1, Later(k, p))
      /\ \A e \in Event : reading.fresh[e] = Copies(s, e, k + 1, p)
      /\ reading.top = IF p = Older(s, c) THEN None ELSE s.log[p].ts
  BY DEF PageState, Reading
<1>3. Older(s, c) \in Nat /\ q \in Nat /\ n \in Nat /\ q <= n
  BY PositionsAre
<1>4. p = q
  BY <1>1, <1>2, <1>3
<1>5. NextAt(s, c) = None <=> q = n
  BY <1>2, NextAtNone
<1>6. ASSUME next = None PROVE out = s.log
  <2>1. Later(k, p) = n
    BY <1>2, <1>3, <1>4, <1>5, <1>6 DEF Later
  <2>2. s.log \in Seq(Event)
    BY ServerType
  <2> HIDE DEF n
  <2>3. SubSeq(s.log, 1, n) = s.log
    BY <2>2 DEF n
  <2> QED BY <1>2, <2>1, <2>3
<1>7. ASSUME next # None
      PROVE  /\ Len(out) <= n /\ out = SubSeq(s.log, 1, Len(out))
             /\ Ready(s, next, BoundaryAfter, Len(out))
  <2>1. q # n /\ ~(NextAt(s, c) < c)
    BY <1>1, <1>2, <1>5, <1>7 DEF Stall
  <2>2. /\ k <= q /\ saved.boundary.ts # s.log[q].ts
        /\ \A b2 : (/\ b2.ts = s.log[q].ts
                    /\ \A e \in Event : b2.counts[e] = Copies(s, e, k + 1, q))
                    => Ready(s, NextAt(s, c), b2, q)
    BY <1>2, <2>1, ReadyNext
  <2>3. q \in 1 .. n /\ s.limit \in Nat \ {0} /\ q = Older(s, c) + s.limit
    <3>1. s.limit \in Nat \ {0}
      BY ServerType
    <3> QED BY <2>1, <3>1, PageEndIs
  <2>4. s.log[q].ts \in Nat /\ s.log[q].ts # None
    <3>1. s.log[q].ts \in Nat
      BY <2>3, ServerType
    <3> QED BY <3>1, PaginatorAssumption
  <2> HIDE DEF q, n
  <2>5. reading.top = s.log[q].ts
    <3>1. p # Older(s, c)
      BY <1>3, <1>4, <2>3
    <3> QED BY <1>2, <1>4, <3>1
  <2>6. BoundaryAfter = [ts |-> reading.top, counts |-> reading.fresh]
    BY <1>2, <2>2, <2>4, <2>5 DEF BoundaryAfter
  <2>7. Later(k, p) = q
    BY <1>3, <1>4, <2>2 DEF Later
  <2>8. Len(out) = q /\ out = SubSeq(s.log, 1, q)
    <3>1. q <= Len(s.log)
      BY <1>3 DEF n
    <3> QED BY <1>2, <1>3, <2>7, <3>1, PrefixIs
  <2>9. Ready(s, NextAt(s, c), BoundaryAfter, q)
    BY <1>2, <1>4, <2>2, <2>5, <2>6
  <2> QED BY <1>2, <1>3, <2>8, <2>9
<1> QED BY <1>6, <1>7

-----------------------------------------------------------------------------
(***************************************************************************)
(* The invariant, action by action.                                        *)
(***************************************************************************)
\* A process that runs has a cursor.
LEMMA RunningCursor ==
  ASSUME IInv, pc \in {"fetch", "read"} PROVE cursor \in Nat
<1>1. CASE Wedged
  BY <1>1, PaginatorAssumption DEF IInv, WedgedInv
<1>2. CASE ~Wedged
  <2>1. cursor = saved.cursor /\ Ready(server, saved.cursor, saved.boundary, Len(saved.out))
    BY <1>2 DEF IInv, PositionInv
  <2> QED BY <2>1 DEF Ready
<1> QED BY <1>1, <1>2

\* Before anything is read, everything is still to come.
LEMMA InitReady ==
  ASSUME NEW s \in Servers PROVE Ready(s, Start, NoBoundary, 0)
<1>1. Older(s, Start) = 0 /\ Len(s.log) \in Nat /\ s.limit \in Nat
  BY OlderThanStart, ServerType
<1>2. NoBoundary.ts = None /\ Start \in Nat
  BY PaginatorAssumption DEF NoBoundary
<1>3. \A e \in Event : e.ts # NoBoundary.ts
  BY <1>2, EventTimes
<1>4. \E i \in 0 .. 0 : 0 = i * s.limit
  BY <1>1
<1> QED BY <1>1, <1>2, <1>3, <1>4 DEF Ready

\* It holds at the start.
LEMMA InitInv == Init => IInv
<1> SUFFICES ASSUME Init PROVE IInv
  OBVIOUS
<1>1. NoBoundary \in Boundaries /\ NoReading \in Readings /\ Start \in Nat /\ None = None
  BY PaginatorAssumption DEF NoBoundary, NoReading, NoCounts, Boundaries, Readings
<1>2. <<>> \in Seq(Event) /\ Len(<<>>) = 0
  OBVIOUS
<1>3. saved = [cursor |-> Start, boundary |-> NoBoundary, out |-> <<>>]
  BY DEF Init, Checkpoint
<1>4. PaginatorType
  <2>1. saved \in [cursor: Nat \cup {None}, boundary: Boundaries, out: Seq(Event)]
    BY <1>1, <1>2, <1>3
  <2>2. /\ server \in Servers /\ pc = "fetch" /\ cursor = Start /\ boundary = NoBoundary
        /\ page = <<>> /\ next = None /\ reading = NoReading /\ out = <<>>
    BY DEF Init
  <2> QED BY <1>1, <1>2, <2>1, <2>2 DEF PaginatorType
<1>5. PositionInv
  <2>1. server \in Servers /\ Len(server.log) \in Nat
    BY ServerType DEF Init
  <2>2. Ready(server, Start, NoBoundary, 0)
    BY <2>1, InitReady
  <2>3. SubSeq(server.log, 1, 0) = <<>>
    <3>1. server.log \in Seq(Event) /\ 0 <= Len(server.log)
      BY <2>1, ServerType
    <3>2. Len(SubSeq(server.log, 1, 0)) = 0 /\ SubSeq(server.log, 1, 0) \in Seq(Event)
      BY <2>1, PrefixIs
    <3> QED BY <3>2, EmptySeq
  <2>4. /\ pc = "fetch" /\ cursor = Start /\ boundary = NoBoundary /\ out = <<>>
        /\ saved.cursor = Start /\ saved.boundary = NoBoundary /\ saved.out = <<>>
    BY <1>3 DEF Init
  <2>5. Len(out) = 0 /\ Len(saved.out) = 0 /\ 0 <= Len(server.log)
    BY <1>2, <2>1, <2>4
  <2> QED BY <2>2, <2>3, <2>4, <2>5 DEF PositionInv
<1>6. WedgedInv
  BY <1>3 DEF Init, WedgedInv
<1> QED BY <1>4, <1>5, <1>6 DEF IInv

\* Types are kept.
LEMMA TypeStep == IInv /\ [Next]_vars => PaginatorType'
<1> SUFFICES ASSUME IInv, [Next]_vars PROVE PaginatorType'
  OBVIOUS
<1> USE DEF PaginatorType
<1>0. PaginatorType
  BY DEF IInv
<1>1. CASE FetchPage
  <2>1. cursor \in Nat /\ server \in Servers
    BY <1>0, <1>1, RunningCursor DEF FetchPage
  <2>2. NextAt(server, cursor) \in Nat \cup {None}
    BY <2>1, NextAtType
  <2>3. PageAt(server, cursor) \in Seq(Event) /\ Len(PageAt(server, cursor)) \in Nat
    <3>1. SubSeq(server.log, Older(server, cursor) + 1, PageEnd(server, cursor)) \in Seq(Event)
      BY <2>1, PositionsAre, PageIs
    <3> QED BY <3>1 DEF PageAt
  <2>4. reading' \in Readings
    BY <1>1, <2>3 DEF FetchPage, NoReading, NoCounts, Readings
  <2> QED BY <1>0, <1>1, <2>2, <2>3, <2>4 DEF FetchPage
<1>2. CASE PageCeiling
  BY <1>0, <1>2 DEF PageCeiling
<1>3. CASE SuppressRepeat
  <2> DEFINE h == Head(page)
  <2>1. h \in Event /\ Tail(page) \in Seq(Event) /\ h.ts \in Times
    BY <1>0, <1>3, HeadTailProperties, EventTimes DEF SuppressRepeat, AtEvent
  <2>2. Repeat(h) /\ boundary' = [boundary EXCEPT !.counts[h] = @ - 1]
        /\ reading' = [reading EXCEPT !.top = Top(h)] /\ page' = Tail(page)
    BY <1>3 DEF SuppressRepeat
  <2>3. Top(h) \in Times \cup {None}
    BY <1>0, <2>1 DEF Top, Readings
  <2> HIDE DEF h
  <2>4. boundary' \in Boundaries
    <3>1. boundary.counts \in [Event -> Nat] /\ boundary.ts \in Times \cup {None} /\ boundary.counts[h] - 1 \in Nat
      BY <1>0, <2>1, <2>2 DEF Repeat, Boundaries
    <3> QED BY <1>0, <2>1, <2>2, <3>1 DEF Boundaries
  <2>5. reading' \in Readings
    BY <1>0, <2>2, <2>3 DEF Readings
  <2> QED BY <1>0, <1>3, <2>1, <2>2, <2>4, <2>5 DEF SuppressRepeat
<1>4. CASE EmitEvent
  <2> DEFINE h == Head(page)
  <2>1. h \in Event /\ Tail(page) \in Seq(Event) /\ h.ts \in Times
    BY <1>0, <1>4, HeadTailProperties, EventTimes DEF EmitEvent, AtEvent
  <2>2. out' = Append(out, h) /\ page' = Tail(page)
        /\ reading' = [reading EXCEPT !.top = Top(h), !.emitted = @ + 1,
                         !.fresh[h] = IF h.ts = Top(h) THEN @ + 1 ELSE @]
    BY <1>4 DEF EmitEvent
  <2>3. Top(h) \in Times \cup {None}
    BY <1>0, <2>1 DEF Top, Readings
  <2> HIDE DEF h
  <2>4. out' \in Seq(Event)
    BY <1>0, <2>1, <2>2
  <2>5. reading' \in Readings
    <3>1. reading.fresh \in [Event -> Nat] /\ reading.emitted \in Nat /\ reading.size \in Nat
      BY <1>0 DEF Readings
    <3>2. /\ reading'.size = reading.size /\ reading'.emitted = reading.emitted + 1
          /\ reading'.top = Top(h)
          /\ reading' = [size |-> reading'.size, emitted |-> reading'.emitted,
                          top |-> reading'.top, fresh |-> reading'.fresh]
          /\ reading'.fresh = [reading.fresh EXCEPT ![h] = IF h.ts = Top(h) THEN @ + 1 ELSE @]
      BY <1>0, <2>2 DEF Readings
    <3>3. reading'.fresh \in [Event -> Nat]
      BY <2>1, <3>1, <3>2
    <3> QED BY <2>3, <3>1, <3>2, <3>3 DEF Readings
  <2> QED BY <1>0, <1>4, <2>1, <2>2, <2>4, <2>5 DEF EmitEvent
<1>5. CASE RaiseStall
  BY <1>0, <1>5 DEF RaiseStall
<1>6. CASE FinishPage
  <2>1. BoundaryAfter \in Boundaries
    <3>1. /\ boundary \in Boundaries /\ boundary.counts \in [Event -> Nat] /\ reading.fresh \in [Event -> Nat]
          /\ reading.top \in Times \cup {None}
      BY <1>0 DEF Boundaries, Readings
    <3>2. [e \in Event |-> boundary.counts[e] + reading.fresh[e]] \in [Event -> Nat]
      BY <3>1
    <3>3. CASE reading.top = None
      BY <3>1, <3>3 DEF BoundaryAfter
    <3>4. CASE reading.top # None /\ reading.top = boundary.ts
      BY <3>1, <3>2, <3>4 DEF BoundaryAfter, Boundaries
    <3>5. CASE reading.top # None /\ reading.top # boundary.ts
      BY <3>1, <3>5 DEF BoundaryAfter, Boundaries
    <3> QED BY <3>3, <3>4, <3>5
  <2> QED BY <1>0, <1>6, <2>1 DEF FinishPage, Checkpoint
<1>7. CASE Interrupt
  BY <1>0, <1>7 DEF Interrupt
<1>8. CASE Resume
  <2>1. <<>> \in Seq(Event) /\ NoReading \in Readings
    BY DEF NoReading, NoCounts, Readings
  <2> QED BY <1>0, <1>8, <2>1 DEF Resume
<1>9. CASE UNCHANGED vars
  BY <1>0, <1>9 DEF vars
<1> QED BY <1>1, <1>2, <1>3, <1>4, <1>5, <1>6, <1>7, <1>8, <1>9 DEF Next, Iterate

\* A server that never moves keeps the iteration where it is.
LEMMA WedgedStep == IInv /\ [Next]_vars => WedgedInv'
<1> SUFFICES ASSUME IInv, [Next]_vars, Wedged' PROVE WedgedInv'
  BY DEF WedgedInv
<1>0. server' = server /\ Wedged
  BY DEF Next, Iterate, FetchPage, PageCeiling, SuppressRepeat, EmitEvent, RaiseStall, FinishPage,
         Interrupt, Resume, vars, Wedged
<1>1. /\ pc # "done" /\ saved.cursor = Start
      /\ pc \in {"fetch", "read"} => cursor = Start
      /\ pc = "read" => next = Start
  BY <1>0 DEF IInv, WedgedInv
<1>2. CASE FetchPage
  BY <1>0, <1>1, <1>2 DEF FetchPage, WedgedInv, NextAt, Wedged
<1>3. CASE FinishPage
  <2>1. next = Start /\ next # None
    BY <1>1, <1>3, PaginatorAssumption DEF FinishPage, PageRead
  <2> QED BY <1>1, <1>3, <2>1 DEF FinishPage, Checkpoint, WedgedInv
<1>4. CASE Resume
  BY <1>1, <1>4 DEF Resume, WedgedInv
<1>5. CASE PageCeiling \/ SuppressRepeat \/ EmitEvent \/ RaiseStall \/ Interrupt \/ UNCHANGED vars
  BY <1>1, <1>5 DEF PageCeiling, SuppressRepeat, EmitEvent, RaiseStall, Interrupt, vars, WedgedInv, AtEvent, PageRead
<1> QED BY <1>2, <1>3, <1>4, <1>5 DEF Next, Iterate

\* The position moves only by what a step reads.
LEMMA PositionStep == ServersReadable /\ IInv /\ [Next]_vars => PositionInv'
<1> SUFFICES ASSUME ServersReadable, IInv, [Next]_vars, ~Wedged' PROVE PositionInv'
  BY DEF PositionInv
<1>0. /\ server' = server /\ ~Wedged /\ server.rule # "wedged"
  BY DEF Next, Iterate, FetchPage, PageCeiling, SuppressRepeat, EmitEvent, RaiseStall, FinishPage,
         Interrupt, Resume, vars, Wedged
<1>1. PaginatorType /\ PositionInv /\ server \in Servers /\ Readable(server)
  BY DEF IInv, PaginatorType, ServersReadable
<1> DEFINE k == Len(saved.out)
           c == cursor
           p == PageEnd(server, cursor) - Len(page)
<1>2. /\ Len(out) <= Len(server.log) /\ out = SubSeq(server.log, 1, Len(out))
      /\ pc # "done" =>
           /\ k <= Len(server.log) /\ saved.out = SubSeq(server.log, 1, k)
           /\ Ready(server, saved.cursor, saved.boundary, k)
      /\ pc = "done" => out = server.log /\ saved.cursor = None
      /\ pc = "fetch" => cursor = saved.cursor /\ boundary = saved.boundary /\ out = saved.out
      /\ pc = "read" => cursor = saved.cursor /\ boundary.ts = saved.boundary.ts
  BY <1>0, <1>1 DEF PositionInv
<1>3. ASSUME pc = "read"
      PROVE  PageState(server, c, k, p) /\ c \in Nat /\ k \in Nat /\ p \in Nat
  <2>1. PageState(server, c, k, p)
    BY <1>0, <1>1, <1>3, PageStateOf
  <2> QED BY <2>1 DEF PageState
<1>4. CASE FetchPage
  <2>1. /\ pc = "fetch" /\ pc' = "read" /\ cursor' = cursor /\ boundary' = boundary /\ out' = out
        /\ saved' = saved
    BY <1>4 DEF FetchPage
  <2>2. c \in Nat
    BY <2>1, RunningCursor
  <2>3. k \in Nat
    BY <1>1 DEF PaginatorType
  <2>4. Ready(server, c, boundary, k) /\ out = SubSeq(server.log, 1, k) /\ k <= Len(server.log)
    BY <1>2, <2>1
  <2>5. \A s \in Servers, x \in Nat, y \in Nat :
          s = server /\ x = cursor /\ y = Len(saved.out) =>
            Reading(server, cursor, Len(saved.out), PageEnd(server, cursor) - Len(page))'
    <3> SUFFICES ASSUME NEW s \in Servers, NEW x \in Nat, NEW y \in Nat,
                        s = server, x = cursor, y = Len(saved.out)
                 PROVE  Reading(server, cursor, Len(saved.out), PageEnd(server, cursor) - Len(page))'
      OBVIOUS
    <3>1. Ready(s, x, boundary, y) /\ out = SubSeq(s.log, 1, y) /\ y <= Len(s.log) /\ s.rule # "wedged"
      BY <1>0, <2>4
    <3> QED BY <1>4, <3>1, FetchReads
  <2>6. Reading(server, cursor, Len(saved.out), PageEnd(server, cursor) - Len(page))'
    BY <1>1, <2>2, <2>3, <2>5
  <2> QED BY <1>0, <1>2, <2>1, <2>6 DEF PositionInv
<1>5. CASE SuppressRepeat
  <2>1. /\ pc = "read" /\ pc' = "read" /\ cursor' = cursor /\ out' = out /\ saved' = saved
    BY <1>5 DEF SuppressRepeat, AtEvent
  <2>2. PageState(server, c, k, p) /\ c \in Nat /\ k \in Nat /\ p \in Nat
    BY <1>3, <2>1
  <2> HIDE DEF c, k, p
  <2>3. \A s \in Servers, x \in Nat, y \in Nat, z \in Nat :
          PageState(s, x, y, z) =>
            /\ Reading(server, cursor, Len(saved.out), PageEnd(server, cursor) - Len(page))'
            /\ boundary'.ts = boundary.ts
    BY <1>1, <1>5, SuppressReads
  <2>4. /\ Reading(server, cursor, Len(saved.out), PageEnd(server, cursor) - Len(page))'
        /\ boundary'.ts = boundary.ts
    BY <1>1, <2>2, <2>3
  <2> QED BY <1>0, <1>2, <2>1, <2>4 DEF PositionInv, k
<1>6. CASE EmitEvent
  <2>1. /\ pc = "read" /\ pc' = "read" /\ cursor' = cursor /\ boundary' = boundary /\ saved' = saved
    BY <1>6 DEF EmitEvent, AtEvent
  <2>2. PageState(server, c, k, p) /\ c \in Nat /\ k \in Nat /\ p \in Nat
    BY <1>3, <2>1
  <2> HIDE DEF c, k, p
  <2>3. \A s \in Servers, x \in Nat, y \in Nat, z \in Nat :
          PageState(s, x, y, z) =>
            /\ Reading(server, cursor, Len(saved.out), PageEnd(server, cursor) - Len(page))'
            /\ out' = SubSeq(s.log, 1, z + 1) /\ z + 1 <= Len(s.log)
    BY <1>1, <1>6, EmitReads
  <2>4. /\ Reading(server, cursor, Len(saved.out), PageEnd(server, cursor) - Len(page))'
        /\ out' = SubSeq(server.log, 1, p + 1) /\ p + 1 <= Len(server.log)
    BY <1>1, <2>2, <2>3
  <2>5. Len(out') = p + 1
    BY <1>1, <2>2, <2>4, PrefixIs
  <2> QED BY <1>0, <1>2, <2>1, <2>4, <2>5 DEF PositionInv, k
<1>7. CASE FinishPage
  <2>1. /\ pc = "read" /\ pc' = (IF next = None THEN "done" ELSE "fetch") /\ cursor' = next /\ out' = out
        /\ boundary' = BoundaryAfter /\ saved' = [cursor |-> next, boundary |-> BoundaryAfter, out |-> out]
    BY <1>7 DEF FinishPage, PageRead, Checkpoint
  <2>2. PageState(server, c, k, p) /\ c \in Nat /\ k \in Nat /\ p \in Nat
    BY <1>3, <2>1
  <2> HIDE DEF c, k, p
  <2>3. \A s \in Servers, x \in Nat, y \in Nat, z \in Nat :
          Readable(s) /\ PageState(s, x, y, z) =>
            /\ next = None => out = s.log
            /\ next # None => /\ Len(out) <= Len(s.log) /\ out = SubSeq(s.log, 1, Len(out))
                              /\ Ready(s, next, BoundaryAfter, Len(out))
    BY <1>1, <1>7, FinishReads
  <2>4. /\ next = None => out = server.log
        /\ next # None => Ready(server, next, BoundaryAfter, Len(out))
    BY <1>1, <2>2, <2>3
  <2> QED BY <1>0, <1>2, <2>1, <2>4 DEF PositionInv
<1>8. CASE PageCeiling \/ RaiseStall \/ Interrupt
  <2>1. /\ pc \in {"fetch", "read"} /\ pc' \in {"ceiling", "stalled", "stopped"}
        /\ out' = out /\ saved' = saved
    BY <1>8 DEF PageCeiling, RaiseStall, PageRead, Interrupt
  <2> QED BY <1>0, <1>2, <2>1 DEF PositionInv
<1>9. CASE Resume
  <2>1. /\ pc = "stopped" /\ pc' = "fetch" /\ cursor' = saved.cursor /\ boundary' = saved.boundary
        /\ out' = saved.out /\ saved' = saved
    BY <1>9 DEF Resume
  <2> QED BY <1>0, <1>2, <2>1 DEF PositionInv
<1>10. CASE UNCHANGED vars
  BY <1>1, <1>10 DEF vars, PositionInv, Reading, Wedged
<1> QED BY <1>4, <1>5, <1>6, <1>7, <1>8, <1>9, <1>10 DEF Next, Iterate

-----------------------------------------------------------------------------
(***************************************************************************)
(* What is promised, of any servers whose pages can be cut.                *)
(***************************************************************************)
\* The positions are right in every reachable state.
THEOREM InvariantHolds == ASSUME ServersReadable PROVE Spec => []IInv
<1>1. Init => IInv
  BY InitInv
<1>2. IInv /\ [Next]_vars => IInv'
  BY TypeStep, PositionStep, WedgedStep DEF IInv
<1> QED BY <1>1, <1>2, PTL DEF Spec

\* Where the next page starts at the boundary, its counts are those of the
\* events delivered there.
LEMMA ReadyRemembers ==
  ASSUME NEW s \in Servers, NEW c \in Nat, NEW b \in Boundaries, NEW k \in Nat,
         k <= Len(s.log), Ready(s, c, b, k)
  PROVE  Remembers(c, b, SubSeq(s.log, 1, k))
<1> DEFINE o == SubSeq(s.log, 1, k)
<1> SUFFICES ASSUME c = b.ts, NEW e \in Event, e.ts = c
             PROVE  b.counts[e] = Cardinality({i \in DOMAIN o : o[i] = e})
  BY DEF Remembers
<1>1. b.counts[e] = Copies(s, e, Older(s, c) + 1, k)
  <2>1. e.ts = b.ts /\ c <= e.ts
    OBVIOUS
  <2> QED BY <2>1 DEF Ready
<1>2. Older(s, c) \in Nat /\ Older(s, c) <= k
  <2>1. Older(s, c) \in Nat
    BY OlderIs
  <2> QED BY <2>1 DEF Ready
<1>3. \A x \in 1 .. k : x < Older(s, c) + 1 => s.log[x] # e
  <2> SUFFICES ASSUME NEW x \in 1 .. k, x < Older(s, c) + 1 PROVE s.log[x].ts < c
    OBVIOUS
  <2>1. x \in 1 .. Len(s.log) /\ x <= Older(s, c)
    BY <1>2, ServerType
  <2> QED BY <2>1, OlderIs
<1>4. Copies(s, e, Older(s, c) + 1, k) = Copies(s, e, 1, k)
  <2>1. \A x \in Older(s, c) + 1 .. k : x < 1 => s.log[x] # e
    BY <1>2
  <2>2. Older(s, c) + 1 \in Int /\ 1 \in Int /\ k \in Int
    BY <1>2
  <2> QED BY <1>3, <2>1, <2>2, CopiesSkip
<1>5. DOMAIN o = 1 .. k /\ \A i \in 1 .. k : o[i] = s.log[i]
  BY PrefixIs
<1> HIDE DEF o
<1>6. {i \in DOMAIN o : o[i] = e} = {x \in 1 .. k : s.log[x] = e}
  BY <1>5
<1> QED BY <1>1, <1>4, <1>6 DEF Copies

\* Exactly once each, in order, whatever the process was interrupted at.
THEOREM EmitsOnce == ASSUME ServersReadable PROVE Spec => []EmittedOnce
<1>1. IInv => EmittedOnce
  BY DEF IInv, PositionInv, Wedged, EmittedOnce, Honest
<1> QED BY <1>1, InvariantHolds, PTL

\* What is reported complete is complete.
THEOREM CompleteIsWhole == ASSUME ServersReadable PROVE Spec => []DoneIsWhole
<1>1. IInv => DoneIsWhole
  BY DEF IInv, PositionInv, WedgedInv, DoneIsWhole
<1> QED BY <1>1, InvariantHolds, PTL

\* A later process knows as much of the boundary as the one that saved it.
THEOREM CheckpointsRemember == ASSUME ServersReadable PROVE Spec => []CheckpointRemembers
<1>1. IInv => CheckpointRemembers
  <2> SUFFICES ASSUME IInv, Honest
               PROVE  /\ Remembers(saved.cursor, saved.boundary, saved.out)
                      /\ pc = "fetch" => Remembers(cursor, boundary, out)
    BY DEF CheckpointRemembers
  <2>1. /\ ~Wedged /\ server \in Servers /\ saved.boundary \in Boundaries /\ Len(saved.out) \in Nat
    BY DEF IInv, PaginatorType, Honest, Wedged
  <2>2. CASE pc = "done"
    <3>1. saved.cursor = None
      BY <2>1, <2>2 DEF IInv, PositionInv
    <3> QED BY <2>2, <3>1 DEF Remembers
  <2>3. CASE pc # "done"
    <3>1. /\ saved.out = SubSeq(server.log, 1, Len(saved.out)) /\ Len(saved.out) <= Len(server.log)
          /\ Ready(server, saved.cursor, saved.boundary, Len(saved.out))
      BY <2>1, <2>3 DEF IInv, PositionInv
    <3>2. saved.cursor \in Nat
      BY <3>1 DEF Ready
    <3>3. \A s \in Servers, c \in Nat, b \in Boundaries, k \in Nat :
            k <= Len(s.log) /\ Ready(s, c, b, k) => Remembers(c, b, SubSeq(s.log, 1, k))
      BY ReadyRemembers
    <3>4. Remembers(saved.cursor, saved.boundary, saved.out)
      BY <2>1, <3>1, <3>2, <3>3
    <3>5. pc = "fetch" => cursor = saved.cursor /\ boundary = saved.boundary /\ out = saved.out
      BY <2>1 DEF IInv, PositionInv
    <3> QED BY <3>4, <3>5
  <2> QED BY <2>2, <2>3
<1> QED BY <1>1, InvariantHolds, PTL

-----------------------------------------------------------------------------
(***************************************************************************)
(* The promise to the consumer.  A page of an honest server that is not    *)
(* the last ends after everything delivered before it, so something of it  *)
(* is emitted and its cursor goes forward: it is not taken for a stall.    *)
(***************************************************************************)
\* What is counted of the page being read, besides what it does to the boundary.
CountsInv ==
  ~Wedged /\ pc = "read" =>
    /\ reading.size = PageEnd(server, cursor) - Older(server, cursor)
    /\ reading.emitted = Len(out) - Len(saved.out)

NeverRefused == Honest => pc # "stalled"

\* Every page that a process got to the end of left something new behind, and
\* was not the last.
PagesPay ==
  Honest =>
    /\ pc = "fetch" => fetched <= Len(out) /\ (fetched > 0 => Len(out) < Len(server.log))
    /\ pc = "read" => fetched <= Len(saved.out) + 1

PromiseInv == IInv /\ fetched \in 0 .. MaxPages /\ CountsInv /\ NeverRefused /\ PagesPay

\* A page of an honest server that is not the last brings something new, ends
\* before the log does, and its cursor does not go back.
LEMMA HonestPage ==
  ASSUME NEW s \in Servers, NEW c \in Nat, NEW k \in Nat, NEW p \in Nat,
         Readable(s), PageState(s, c, k, p), Honest, CountsInv, PageRead, next # None
  PROVE  /\ s = server /\ c = cursor /\ k = Len(saved.out)
         /\ k < Len(out) /\ Len(out) < Len(s.log)
         /\ next \in Nat /\ ~(next < c)
         /\ reading.size > 0 /\ reading.size # 0 /\ reading.emitted # 0
<1> DEFINE q == PageEnd(s, c)
           n == Len(s.log)
<1>1. /\ s = server /\ c = cursor /\ p = q - Len(page) /\ Ready(s, c, saved.boundary, k)
      /\ k = Len(saved.out) /\ s.rule # "wedged"
      /\ next = NextAt(s, c) /\ out = SubSeq(s.log, 1, Later(k, p))
  BY DEF PageState, Reading
<1>2. page = <<>> /\ pc = "read"
  BY DEF PageRead
<1>3. Older(s, c) \in Nat /\ q \in Nat /\ n \in Nat /\ q <= n
  BY PositionsAre
<1>4. p = q
  BY <1>1, <1>2, <1>3
<1>5. reading.size = q - Older(s, c) /\ reading.emitted = Len(out) - k
  BY <1>1, <1>2 DEF CountsInv, Wedged
<1>6. q # n
  BY <1>1, NextAtNone
<1>7. q \in 1 .. n /\ s.limit \in Nat \ {0} /\ q = Older(s, c) + s.limit
  <2>1. s.limit \in Nat \ {0}
    BY ServerType
  <2> QED BY <1>6, <2>1, PageEndIs
<1>8. s.log[q].ts \in Nat /\ ~(s.log[q].ts < c)
  <2>1. s.log[q].ts \in Nat
    BY <1>7, ServerType
  <2>2. s.log[q].ts < c <=> q <= Older(s, c)
    BY <1>7, OlderIs
  <2>3. ~(q <= Older(s, c))
    BY <1>3, <1>7
  <2> QED BY <2>1, <2>2, <2>3
<1>9. NextAt(s, c) \in Nat /\ ~(NextAt(s, c) < c)
  <2>1. s.rule \in {"inclusive", "exclusive"}
    BY <1>1 DEF Honest
  <2>2. NextAt(s, c) = s.log[q].ts \/ NextAt(s, c) = s.log[q].ts + 1
    BY <1>1, <1>6, <2>1, NextAtNone
  <2> QED BY <1>8, <2>2
<1>10. k <= q /\ saved.boundary.ts # s.log[q].ts
  BY <1>1, <1>6, <1>9, ReadyNext
<1>11. k # q
  <2>1. k > 0 => saved.boundary.ts = s.log[k].ts
    BY <1>1 DEF Ready
  <2> HIDE DEF q, n
  <2> QED BY <1>7, <1>10, <2>1
<1> HIDE DEF q
<1>12. Len(out) = q
  <2>1. Later(k, p) = q
    BY <1>3, <1>4, <1>10 DEF Later
  <2> QED BY <1>1, <1>3, <2>1, PrefixIs
<1>13. k < q /\ q < n
  BY <1>3, <1>6, <1>10, <1>11
<1>14. reading.size > 0 /\ reading.size # 0 /\ reading.emitted # 0
  BY <1>3, <1>5, <1>7, <1>12, <1>13
<1>15. k < Len(out) /\ Len(out) < Len(s.log)
  BY <1>12, <1>13
<1> QED BY <1>1, <1>9, <1>14, <1>15

\* Nothing that an honest server sends is taken for a stall.
LEMMA HonestMoves ==
  ASSUME NEW s \in Servers, NEW c \in Nat, NEW k \in Nat, NEW p \in Nat,
         Readable(s), PageState(s, c, k, p), Honest, CountsInv, PageRead
  PROVE  ~Stall
<1> SUFFICES ASSUME next # None PROVE ~Stall
  BY DEF Stall
<1>1. /\ c = cursor /\ next \in Nat /\ ~(next < c)
      /\ reading.size # 0 /\ reading.emitted # 0
  BY HonestPage
<1> QED BY <1>1 DEF Stall

\* The state of the page being read, as an instance of what the lemmas speak of.
LEMMA AtPage ==
  ASSUME IInv, ~Wedged, pc = "read"
  PROVE  \E c \in Nat, k \in Nat, p \in Nat : PageState(server, c, k, p)
<1>1. PageState(server, cursor, Len(saved.out), PageEnd(server, cursor) - Len(page))
  BY PageStateOf DEF IInv
<1> QED BY <1>1 DEF PageState

\* No step refuses an honest server.
LEMMA RefusedStep ==
  ServersReadable /\ PromiseInv /\ [Next]_vars => NeverRefused'
<1> SUFFICES ASSUME ServersReadable, PromiseInv, [Next]_vars, Honest', pc' = "stalled"
             PROVE  FALSE
  BY DEF NeverRefused
<1>1. Honest /\ pc # "stalled"
  <2>1. server' = server
    BY DEF Next, Iterate, FetchPage, PageCeiling, SuppressRepeat, EmitEvent, RaiseStall, FinishPage,
           Interrupt, Resume, vars
  <2> QED BY <2>1 DEF PromiseInv, NeverRefused, Honest
<1>2. RaiseStall
  BY <1>1 DEF Next, Iterate, FetchPage, PageCeiling, SuppressRepeat, EmitEvent, AtEvent, FinishPage,
              Interrupt, Resume, vars
<1>3. /\ PageRead /\ Stall /\ pc = "read" /\ ~Wedged
      /\ server \in Servers /\ Readable(server)
  BY <1>1, <1>2 DEF RaiseStall, PageRead, Honest, Wedged, PromiseInv, IInv, PaginatorType, ServersReadable
<1>4. PICK c \in Nat, k \in Nat, p \in Nat : PageState(server, c, k, p)
  BY <1>3, AtPage DEF PromiseInv
<1>5. ~Stall
  BY <1>1, <1>3, <1>4, HonestMoves DEF PromiseInv
<1> QED BY <1>3, <1>5

\* The counts of a page are kept by every step that reads it.
LEMMA CountsStep == PromiseInv /\ [Next]_vars => CountsInv'
<1> SUFFICES ASSUME PromiseInv, [Next]_vars, ~Wedged', pc' = "read"
             PROVE  /\ reading'.size = PageEnd(server', cursor') - Older(server', cursor')
                    /\ reading'.emitted = Len(out') - Len(saved'.out)
  BY DEF CountsInv
<1>0. server' = server /\ ~Wedged
  BY DEF Next, Iterate, FetchPage, PageCeiling, SuppressRepeat, EmitEvent, RaiseStall, FinishPage,
         Interrupt, Resume, vars, Wedged
<1>1. PaginatorType /\ PositionInv /\ server \in Servers
  BY DEF PromiseInv, IInv, PaginatorType
<1>2. CASE FetchPage
  <2>1. /\ page' = SubSeq(server.log, Older(server, cursor) + 1, PageEnd(server, cursor))
        /\ reading' = [NoReading EXCEPT !.size = Len(page')]
        /\ cursor' = cursor /\ out' = out /\ saved' = saved /\ pc = "fetch"
    BY <1>2 DEF FetchPage, PageAt
  <2>2. cursor \in Nat
    BY <2>1, RunningCursor DEF PromiseInv
  <2>3. Len(page') = PageEnd(server, cursor) - Older(server, cursor)
    BY <1>1, <2>1, <2>2, PositionsAre, PageIs
  <2>4. out = saved.out /\ Len(out) \in Nat
    BY <1>0, <1>1, <2>1 DEF PositionInv, PaginatorType
  <2>5. reading'.size = Len(page') /\ reading'.emitted = 0
    BY <2>1 DEF NoReading
  <2>6. Len(out') - Len(saved'.out) = 0
    BY <2>1, <2>4
  <2> QED BY <1>0, <2>1, <2>3, <2>5, <2>6
<1>3. CASE SuppressRepeat
  <2>1. /\ pc = "read" /\ cursor' = cursor /\ out' = out /\ saved' = saved
        /\ reading' = [reading EXCEPT !.top = Top(Head(page))]
    BY <1>3 DEF SuppressRepeat, AtEvent
  <2>2. reading'.size = reading.size /\ reading'.emitted = reading.emitted
    BY <1>1, <2>1 DEF PaginatorType, Readings
  <2> QED BY <1>0, <2>1, <2>2 DEF PromiseInv, CountsInv
<1>4. CASE EmitEvent
  <2>1. /\ pc = "read" /\ page # <<>> /\ cursor' = cursor /\ saved' = saved
        /\ out' = Append(out, Head(page))
    BY <1>4 DEF EmitEvent, AtEvent
  <2>2. /\ reading'.size = reading.size /\ reading'.emitted = reading.emitted + 1
    BY <1>1, <1>4 DEF EmitEvent, PaginatorType, Readings
  <2>3. Len(out') = Len(out) + 1 /\ Len(out) \in Nat /\ Len(saved.out) \in Nat
    BY <1>1, <2>1 DEF PaginatorType
  <2>4. /\ reading.size = PageEnd(server, cursor) - Older(server, cursor)
        /\ reading.emitted = Len(out) - Len(saved.out)
    BY <1>0, <2>1 DEF PromiseInv, CountsInv
  <2>5. Len(out') - Len(saved'.out) = (Len(out) - Len(saved.out)) + 1
    BY <2>1, <2>3
  <2> QED BY <1>0, <2>1, <2>2, <2>4, <2>5
<1>5. CASE PageCeiling \/ RaiseStall \/ FinishPage \/ Interrupt \/ Resume
  BY <1>5 DEF PageCeiling, RaiseStall, FinishPage, Interrupt, Resume
<1>6. CASE UNCHANGED vars
  BY <1>0, <1>6 DEF vars, PromiseInv, CountsInv
<1> QED BY <1>2, <1>3, <1>4, <1>5, <1>6 DEF Next, Iterate

\* A page pays for itself: what an honest server sends is new, so a process
\* fetches no more pages than the events it delivers.
LEMMA PagesStep ==
  ServersReadable /\ PromiseInv /\ [Next]_vars => PagesPay' /\ fetched' \in 0 .. MaxPages
<1> SUFFICES ASSUME ServersReadable, PromiseInv, [Next]_vars
             PROVE  PagesPay' /\ fetched' \in 0 .. MaxPages
  OBVIOUS
<1>0. /\ server' = server /\ Honest' = Honest /\ server \in Servers
      /\ fetched \in 0 .. MaxPages /\ MaxPages \in Nat \ {0}
      /\ Len(out) \in Nat /\ Len(saved.out) \in Nat /\ Len(server.log) \in Nat
  <2>1. server' = server
    BY DEF Next, Iterate, FetchPage, PageCeiling, SuppressRepeat, EmitEvent, RaiseStall, FinishPage,
           Interrupt, Resume, vars
  <2>2. server \in Servers /\ out \in Seq(Event) /\ saved.out \in Seq(Event)
    BY DEF PromiseInv, IInv, PaginatorType
  <2>3. Len(server.log) \in Nat
    BY <2>2, ServerType
  <2> QED BY <2>1, <2>2, <2>3, PaginatorAssumption DEF PromiseInv, Honest
<1>1. CASE FetchPage
  <2>1. /\ pc = "fetch" /\ pc' = "read" /\ fetched < MaxPages /\ fetched' = fetched + 1
        /\ saved' = saved
    BY <1>1 DEF FetchPage
  <2>2. Honest => out = saved.out
    BY <2>1 DEF PromiseInv, IInv, PositionInv, Wedged, Honest
  <2>3. Honest => fetched <= Len(saved.out)
    BY <2>1, <2>2 DEF PromiseInv, PagesPay
  <2>4. Honest' => fetched' <= Len(saved'.out) + 1
    BY <1>0, <2>1, <2>3
  <2>5. fetched' \in 0 .. MaxPages
    BY <1>0, <2>1
  <2> QED BY <2>1, <2>4, <2>5 DEF PagesPay
<1>2. CASE SuppressRepeat \/ EmitEvent
  <2>1. pc = "read" /\ pc' = "read" /\ fetched' = fetched /\ saved' = saved
    BY <1>2 DEF SuppressRepeat, EmitEvent, AtEvent
  <2> QED BY <1>0, <2>1 DEF PromiseInv, PagesPay
<1>3. CASE FinishPage
  <2>1. /\ PageRead /\ pc = "read" /\ fetched' = fetched /\ out' = out
        /\ pc' = IF next = None THEN "done" ELSE "fetch"
    BY <1>3 DEF FinishPage, PageRead
  <2>2. CASE Honest /\ next # None
    <3>1. ~Wedged /\ Readable(server)
      BY <1>0, <2>2 DEF Wedged, Honest, ServersReadable
    <3>2. PICK c \in Nat, k \in Nat, p \in Nat : PageState(server, c, k, p)
      BY <2>1, <3>1, AtPage DEF PromiseInv
    <3>3. Len(saved.out) < Len(out) /\ Len(out) < Len(server.log)
      BY <1>0, <2>1, <2>2, <3>1, <3>2, HonestPage DEF PromiseInv
    <3>4. fetched <= Len(saved.out) + 1
      BY <2>1, <2>2 DEF PromiseInv, PagesPay
    <3>5. fetched' <= Len(out') /\ Len(out') < Len(server'.log)
      BY <1>0, <2>1, <3>3, <3>4
    <3> QED BY <1>0, <2>1, <3>5 DEF PagesPay
  <2>3. CASE ~(Honest /\ next # None)
    BY <1>0, <2>1, <2>3 DEF PagesPay
  <2> QED BY <2>2, <2>3
<1>4. CASE PageCeiling \/ RaiseStall \/ Interrupt
  BY <1>0, <1>4 DEF PageCeiling, RaiseStall, Interrupt, PagesPay
<1>5. CASE Resume
  <2>1. pc' = "fetch" /\ fetched' = 0 /\ out' = saved.out
    BY <1>5 DEF Resume
  <2> QED BY <1>0, <2>1 DEF PagesPay
<1>6. CASE UNCHANGED vars
  BY <1>0, <1>6 DEF vars, PromiseInv, PagesPay
<1> QED BY <1>1, <1>2, <1>3, <1>4, <1>5, <1>6 DEF Next, Iterate

\* What is emitted of an honest server is the event after those delivered.
LEMMA EmitsTheNext ==
  ASSUME IInv, ~Wedged, EmitEvent
  PROVE  /\ Len(out) + 1 \in DOMAIN server.log
         /\ Head(page) = server.log[Len(out) + 1]
<1>1. pc = "read" /\ page # <<>> /\ out' = Append(out, Head(page)) /\ server \in Servers
      /\ PaginatorType /\ out \in Seq(Event)
  BY DEF EmitEvent, AtEvent, IInv, PaginatorType
<1>2. PICK c \in Nat, k \in Nat, p \in Nat : PageState(server, c, k, p)
  BY <1>1, AtPage
<1>3. out' = SubSeq(server.log, 1, p + 1) /\ p + 1 <= Len(server.log) /\ p + 1 \in Nat
  BY <1>1, <1>2, EmitReads
<1>4. Len(out') = p + 1
  BY <1>1, <1>3, PrefixIs
<1>5. Len(out') = Len(out) + 1 /\ Len(out) \in Nat
  BY <1>1
<1>6. Len(out) = p
  BY <1>4, <1>5
<1>7. Head(page) = server.log[p + 1] /\ p + 1 \in 1 .. Len(server.log)
  BY <1>1, <1>2, EventAtHand
<1>8. DOMAIN server.log = 1 .. Len(server.log)
  BY <1>1, ServerType
<1> QED BY <1>6, <1>7, <1>8

\* Every step of the paginator is one of the promise, or none.
LEMMA PromiseStep ==
  ServersReadable /\ PromiseInv /\ PromiseInv' /\ [Next]_vars => [Promise!Next]_(Promise!vars)
<1> SUFFICES ASSUME PromiseInv, PromiseInv', [Next]_vars
             PROVE  Promise!Next \/ UNCHANGED Promise!vars
  OBVIOUS
<1>0. server' = server /\ Honest' = Honest /\ Wedged' = Wedged /\ server \in Servers
  BY DEF Next, Iterate, FetchPage, PageCeiling, SuppressRepeat, EmitEvent, RaiseStall, FinishPage,
         Interrupt, Resume, vars, Honest, Wedged, PromiseInv, IInv, PaginatorType
<1>1. CASE FetchPage \/ SuppressRepeat
  BY <1>0, <1>1 DEF FetchPage, SuppressRepeat, AtEvent, Promise!vars, Outcome
<1>2. CASE EmitEvent
  <2>1. /\ pc = "read" /\ pc' = pc /\ page # <<>> /\ saved' = saved
        /\ out' = Append(out, Head(page))
    BY <1>2 DEF EmitEvent, AtEvent
  <2>2. Head(page) \in Event
    BY <2>1, HeadTailProperties DEF PromiseInv, IInv, PaginatorType
  <2>3. Honest => Len(out) + 1 \in DOMAIN server.log /\ Head(page) = server.log[Len(out) + 1]
    BY <1>2, EmitsTheNext DEF Honest, Wedged, PromiseInv
  <2>4. Head(page) \in Promise!Due
    BY <2>2, <2>3 DEF Promise!Due
  <2>5. Outcome = "running" /\ Outcome' = Outcome
    BY <2>1 DEF Outcome
  <2> QED BY <1>0, <2>1, <2>4, <2>5 DEF Promise!Next, Promise!Deliver, Promise!Running
<1>3. CASE FinishPage
  <2>1. /\ pc = "read" /\ out' = out /\ saved'.out = out
        /\ pc' = IF next = None THEN "done" ELSE "fetch"
    BY <1>3 DEF FinishPage, PageRead, Checkpoint
  <2>2. CASE next = None
    <3>1. ~Wedged
      BY <1>0, <2>1, <2>2 DEF PromiseInv, IInv, WedgedInv
    <3>2. out = server.log
      BY <1>0, <2>1, <2>2, <3>1 DEF PromiseInv, IInv, PositionInv
    <3>3. Outcome = "running" /\ Outcome' = "complete"
      BY <2>1, <2>2 DEF Outcome
    <3> QED BY <1>0, <2>1, <3>2, <3>3 DEF Promise!Next, Promise!Complete, Promise!Running
  <2>3. CASE next # None
    <3>1. Outcome = "running" /\ Outcome' = Outcome
      BY <2>1, <2>3 DEF Outcome
    <3> QED BY <1>0, <2>1, <3>1 DEF Promise!Next, Promise!Keep, Promise!Running
  <2> QED BY <2>2, <2>3
<1>4. CASE RaiseStall
  <2>1. pc = "read" /\ pc' = "stalled" /\ out' = out /\ saved' = saved
    BY <1>4 DEF RaiseStall, PageRead
  <2>2. ~Honest
    BY <1>0, <2>1 DEF PromiseInv, NeverRefused
  <2>3. Outcome = "running" /\ Outcome' = "refused"
    BY <2>1 DEF Outcome
  <2> QED BY <1>0, <2>1, <2>2, <2>3 DEF Promise!Next, Promise!Refuse, Promise!Running
<1>5. CASE PageCeiling
  <2>1. Outcome = "running" /\ Outcome' = "given up" /\ out' = out /\ saved' = saved
    BY <1>5 DEF PageCeiling, Outcome
  <2>2. ASSUME Honest PROVE Len(server.log) > MaxPages
    <3>1. pc = "fetch" /\ fetched >= MaxPages
      BY <1>5 DEF PageCeiling
    <3>2. fetched <= Len(out) /\ (fetched > 0 => Len(out) < Len(server.log))
      BY <2>2, <3>1 DEF PromiseInv, PagesPay
    <3>3. fetched \in Nat /\ MaxPages \in Nat \ {0} /\ out \in Seq(Event)
      BY PaginatorAssumption DEF PromiseInv, IInv, PaginatorType
    <3>4. Len(server.log) \in Nat /\ Len(out) \in Nat
      BY <1>0, <3>3, ServerType
    <3> QED BY <3>1, <3>2, <3>3, <3>4
  <2> QED BY <1>0, <2>1, <2>2 DEF Promise!Next, Promise!GiveUp, Promise!Running
<1>6. CASE Interrupt
  <2>1. Outcome = "running" /\ Outcome' = "stopped" /\ out' = out /\ saved' = saved
    BY <1>6 DEF Interrupt, Outcome
  <2> QED BY <1>0, <2>1 DEF Promise!Next, Promise!Stop, Promise!Running
<1>7. CASE Resume
  <2>1. Outcome = "stopped" /\ Outcome' = "running" /\ out' = saved.out /\ saved' = saved
    BY <1>7 DEF Resume, Outcome
  <2> QED BY <1>0, <2>1 DEF Promise!Next, Promise!GoOn
<1>8. CASE UNCHANGED vars
  BY <1>0, <1>8 DEF vars, Promise!vars, Outcome
<1> QED BY <1>1, <1>2, <1>3, <1>4, <1>5, <1>6, <1>7, <1>8 DEF Next, Iterate

\* The paginator keeps the promise of Delivery, to every consumer and of every
\* server whose pages can be cut.
THEOREM KeepsThePromise == ASSUME ServersReadable PROVE Spec => Delivered
<1>1. Init => PromiseInv
  <2> SUFFICES ASSUME Init PROVE fetched \in 0 .. MaxPages /\ CountsInv /\ NeverRefused /\ PagesPay
    BY InitInv DEF PromiseInv
  <2>1. fetched = 0 /\ out = <<>> /\ pc = "fetch"
    BY DEF Init
  <2>2. fetched <= Len(out) /\ fetched \in 0 .. MaxPages
    BY <2>1, PaginatorAssumption
  <2> QED BY <2>1, <2>2 DEF CountsInv, NeverRefused, PagesPay
<1>2. PromiseInv /\ [Next]_vars => PromiseInv'
  BY TypeStep, PositionStep, WedgedStep, RefusedStep, CountsStep, PagesStep DEF PromiseInv, IInv
<1>3. Init => Promise!Init
  <2> SUFFICES ASSUME Init PROVE Promise!Init
    OBVIOUS
  <2>1. server.log \in Seq(Event) /\ Honest \in BOOLEAN
    BY ServerType DEF Init, Honest
  <2>2. out = <<>> /\ saved.out = <<>> /\ Outcome = "running"
    BY DEF Init, Checkpoint, Outcome
  <2> QED BY <2>1, <2>2 DEF Promise!Init
<1>4. PromiseInv /\ PromiseInv' /\ [Next]_vars => [Promise!Next]_(Promise!vars)
  BY PromiseStep
<1> QED BY <1>1, <1>2, <1>3, <1>4, PTL DEF Spec, Delivered, Promise!Spec

-----------------------------------------------------------------------------
(***************************************************************************)
(* How far the end is, while the iteration runs: the pages that max_pages  *)
(* leaves, and of the page at hand the events that are left.               *)
(***************************************************************************)
PagesLeft == MaxPages - fetched

StepsLeft == CASE pc = "read" -> Len(page) + 2 [] pc = "fetch" -> 1 [] OTHER -> 0

FarFromEnd == PagesLeft \in 0 .. MaxPages /\ StepsLeft \in Nat

\* Every step brings the end nearer, but for the one that interrupts.
StepsRunOut ==
  [][Outcome = "running" =>
       \/ Interrupt
       \/ PagesLeft' < PagesLeft
       \/ PagesLeft' = PagesLeft /\ StepsLeft' < StepsLeft]_vars

\* What that takes: the page at hand is finite, and a process that runs or may
\* run again has a cursor.
EndInv ==
  /\ server \in Servers /\ page \in Seq(Event) /\ fetched \in 0 .. MaxPages
  /\ pc \in {"fetch", "read", "done", "stalled", "ceiling", "stopped"}
  /\ next \in Nat \cup {None}
  /\ pc \in {"fetch", "read"} => cursor \in Nat
  /\ pc # "done" => saved.cursor \in Nat

\* A page is a sequence of events, and the cursor after it a number or none.
LEMMA PageTyped ==
  ASSUME NEW s \in Servers, NEW c \in Nat
  PROVE  PageAt(s, c) \in Seq(Event) /\ NextAt(s, c) \in Nat \cup {None}
<1>1. SubSeq(s.log, Older(s, c) + 1, PageEnd(s, c)) \in Seq(Event)
  BY PositionsAre, PageIs
<1> QED BY <1>1, NextAtType DEF PageAt

\* It is kept, whatever the server sends.
LEMMA EndStep == EndInv /\ [Next]_vars => EndInv'
<1> SUFFICES ASSUME EndInv, [Next]_vars PROVE EndInv'
  OBVIOUS
<1>0. MaxPages \in Nat \ {0} /\ fetched \in 0 .. MaxPages
  BY PaginatorAssumption DEF EndInv
<1>1. CASE FetchPage
  <2>1. cursor \in Nat /\ server \in Servers /\ saved.cursor \in Nat
    BY <1>1 DEF FetchPage, EndInv
  <2>2. page' \in Seq(Event) /\ next' \in Nat \cup {None}
    BY <1>1, <2>1, PageTyped DEF FetchPage
  <2>3. fetched' \in 0 .. MaxPages
    BY <1>0, <1>1 DEF FetchPage
  <2> QED BY <1>1, <2>1, <2>2, <2>3 DEF FetchPage, EndInv
<1>2. CASE SuppressRepeat \/ EmitEvent
  <2>1. page' = Tail(page) /\ page # <<>> /\ page \in Seq(Event)
    BY <1>2 DEF SuppressRepeat, EmitEvent, AtEvent, EndInv
  <2>2. page' \in Seq(Event)
    BY <2>1, HeadTailProperties
  <2> QED BY <1>2, <2>2 DEF SuppressRepeat, EmitEvent, AtEvent, EndInv
<1>3. CASE FinishPage
  <2>1. /\ pc = "read" /\ cursor' = next /\ saved'.cursor = next
        /\ pc' = IF next = None THEN "done" ELSE "fetch"
        /\ UNCHANGED <<server, page, next, fetched>>
    BY <1>3 DEF FinishPage, PageRead, Checkpoint
  <2> QED BY <2>1 DEF EndInv
<1>4. CASE PageCeiling \/ RaiseStall \/ Interrupt
  BY <1>4 DEF PageCeiling, RaiseStall, PageRead, Interrupt, EndInv
<1>5. CASE Resume
  <2>1. <<>> \in Seq(Event) /\ 0 \in 0 .. MaxPages
    BY <1>0
  <2> QED BY <1>5, <2>1 DEF Resume, EndInv
<1>6. CASE UNCHANGED vars
  BY <1>6 DEF vars, EndInv
<1> QED BY <1>1, <1>2, <1>3, <1>4, <1>5, <1>6 DEF Next, Iterate

\* Each step that is not an interruption is one of those that are left.
LEMMA EndNearer ==
  ASSUME EndInv, Next, Outcome = "running", ~Interrupt
  PROVE  PagesLeft' < PagesLeft \/ (PagesLeft' = PagesLeft /\ StepsLeft' < StepsLeft)
<1>0. /\ pc \in {"fetch", "read"} /\ Len(page) \in Nat /\ page \in Seq(Event)
      /\ MaxPages \in Nat /\ fetched \in Nat
  BY PaginatorAssumption DEF EndInv, Outcome
<1>1. CASE FetchPage
  <2>1. fetched' = fetched + 1
    BY <1>1 DEF FetchPage
  <2> QED BY <1>0, <2>1 DEF PagesLeft
<1>2. CASE SuppressRepeat \/ EmitEvent
  <2>1. /\ page # <<>> /\ page' = Tail(page) /\ fetched' = fetched
        /\ pc = "read" /\ pc' = "read"
    BY <1>2 DEF SuppressRepeat, EmitEvent, AtEvent
  <2>2. Len(page') = Len(page) - 1 /\ Len(page') \in Nat
    BY <1>0, <2>1, HeadTailProperties
  <2>3. StepsLeft = Len(page) + 2 /\ StepsLeft' = Len(page') + 2
    BY <2>1 DEF StepsLeft
  <2>4. StepsLeft' < StepsLeft
    BY <1>0, <2>2, <2>3
  <2> QED BY <2>1, <2>4 DEF PagesLeft
<1>3. CASE FinishPage
  <2>1. pc = "read" /\ pc' \in {"done", "fetch"} /\ fetched' = fetched
    BY <1>3 DEF FinishPage, PageRead
  <2>2. StepsLeft = Len(page) + 2 /\ StepsLeft' \in {0, 1}
    BY <2>1 DEF StepsLeft
  <2>3. StepsLeft' < StepsLeft
    BY <1>0, <2>2
  <2> QED BY <2>1, <2>3 DEF PagesLeft
<1>4. CASE PageCeiling \/ RaiseStall
  <2>1. pc' \in {"ceiling", "stalled"} /\ fetched' = fetched
    BY <1>4 DEF PageCeiling, RaiseStall
  <2>2. StepsLeft' = 0
    BY <2>1 DEF StepsLeft
  <2>3. StepsLeft > 0
    BY <1>0 DEF StepsLeft
  <2> QED BY <2>1, <2>2, <2>3 DEF PagesLeft
<1>5. ~Resume
  BY <1>0 DEF Resume
<1> QED BY <1>1, <1>2, <1>3, <1>4, <1>5 DEF Next, Iterate

\* No server, honest or not, keeps an iteration running: with every step of it
\* the number of pages left falls, or stays while that of the steps in the page
\* falls, and neither is ever below nothing.
THEOREM IterationsEnd == Spec => []FarFromEnd /\ StepsRunOut
<1> DEFINE P == Outcome = "running" =>
                  \/ Interrupt
                  \/ PagesLeft' < PagesLeft
                  \/ PagesLeft' = PagesLeft /\ StepsLeft' < StepsLeft
<1>1. Init => EndInv
  <2> SUFFICES ASSUME Init PROVE EndInv
    OBVIOUS
  <2>1. Start \in Nat /\ 0 \in 0 .. MaxPages /\ <<>> \in Seq(Event)
    BY PaginatorAssumption
  <2>2. saved.cursor = Start
    BY DEF Init, Checkpoint
  <2> QED BY <2>1, <2>2 DEF Init, EndInv
<1>2. EndInv => FarFromEnd
  <2> SUFFICES ASSUME EndInv PROVE FarFromEnd
    OBVIOUS
  <2>1. Len(page) \in Nat /\ MaxPages \in Nat /\ fetched \in 0 .. MaxPages
    BY PaginatorAssumption DEF EndInv
  <2> QED BY <2>1 DEF FarFromEnd, PagesLeft, StepsLeft
<1>3. EndInv /\ [Next]_vars => [P]_vars
  BY EndNearer
<1> QED BY <1>1, <1>2, <1>3, EndStep, PTL DEF Spec, StepsRunOut
=============================================================================
