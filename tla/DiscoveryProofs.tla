--------------------------- MODULE DiscoveryProofs ---------------------------
(***************************************************************************)
(* The two discoveries: of reports, over a list that grows and a cache     *)
(* that stays, for any list, page size and limits; and of dungeons, over   *)
(* seasons that open, for any zone lists and line-ups.                     *)
(***************************************************************************)
EXTENDS Sources, Catalog, FiniteSetTheorems, SequenceTheorems, TLAPS

(***************************************************************************)
(* Sequences and their elements.                                           *)
(***************************************************************************)
\* What a sequence of some set has is of the set.
LEMMA ElementsOf ==
  ASSUME NEW S, NEW s \in Seq(S)
  PROVE  /\ Len(s) \in Nat /\ DOMAIN s = 1 .. Len(s)
         /\ \A i \in DOMAIN s : s[i] \in S
         /\ ToSet(s) \subseteq S
BY DEF ToSet

\* What is appended is an element, and nothing else is new.
LEMMA AppendElements ==
  ASSUME NEW S, NEW s \in Seq(S), NEW x \in S
  PROVE  ToSet(Append(s, x)) = ToSet(s) \cup {x}
<1>1. /\ DOMAIN s = 1 .. Len(s) /\ Len(s) \in Nat
      /\ DOMAIN Append(s, x) = 1 .. Len(s) + 1
      /\ \A i \in 1 .. Len(s) : Append(s, x)[i] = s[i]
      /\ Append(s, x)[Len(s) + 1] = x
  OBVIOUS
<1>2. 1 .. Len(s) + 1 = 1 .. Len(s) \cup {Len(s) + 1}
  BY <1>1
<1> QED BY <1>1, <1>2 DEF ToSet

\* The elements of a sequence are its head and those of its tail.
LEMMA TailElements ==
  ASSUME NEW S, NEW s \in Seq(S), s # <<>>
  PROVE  /\ Head(s) \in S /\ Tail(s) \in Seq(S)
         /\ ToSet(s) = {Head(s)} \cup ToSet(Tail(s))
<1>1. /\ Len(s) \in Nat /\ Len(s) # 0 /\ DOMAIN s = 1 .. Len(s)
      /\ Head(s) = s[1] /\ s[1] \in S
  BY EmptySeq
<1>2. /\ Tail(s) \in Seq(S) /\ Len(Tail(s)) = Len(s) - 1 /\ DOMAIN Tail(s) = 1 .. Len(s) - 1
      /\ \A i \in 1 .. Len(s) - 1 : Tail(s)[i] = s[i + 1]
  BY <1>1
<1>3. ASSUME NEW c \in ToSet(s) PROVE c \in {Head(s)} \cup ToSet(Tail(s))
  <2>1. PICK i \in 1 .. Len(s) : s[i] = c
    BY <1>1 DEF ToSet
  <2>2. CASE i = 1
    BY <2>1, <2>2, <1>1
  <2>3. CASE i # 1
    <3>1. i - 1 \in 1 .. Len(s) - 1 /\ (i - 1) + 1 = i
      BY <1>1, <2>3
    <3>2. Tail(s)[i - 1] = c
      BY <3>1, <1>2, <2>1
    <3> QED BY <3>1, <3>2, <1>2 DEF ToSet
  <2> QED BY <2>2, <2>3
<1>4. ASSUME NEW c \in {Head(s)} \cup ToSet(Tail(s)) PROVE c \in ToSet(s)
  <2>1. CASE c = Head(s)
    <3>1. 1 \in DOMAIN s
      BY <1>1
    <3> QED BY <3>1, <1>1, <2>1 DEF ToSet
  <2>2. CASE c \in ToSet(Tail(s))
    <3>1. PICK i \in 1 .. Len(s) - 1 : Tail(s)[i] = c
      BY <2>2, <1>2 DEF ToSet
    <3>2. i + 1 \in 1 .. Len(s) /\ s[i + 1] = c
      BY <3>1, <1>1, <1>2
    <3> QED BY <3>2, <1>1 DEF ToSet
  <2> QED BY <2>1, <2>2
<1> QED BY <1>1, <1>2, <1>3, <1>4

\* What is not in a sequence can be appended to one without repeats.
LEMMA AppendKeepsApart ==
  ASSUME NEW S, NEW s \in Seq(S), NEW x \in S, IsInjective(s), x \notin ToSet(s)
  PROVE  IsInjective(Append(s, x))
<1>1. /\ DOMAIN s = 1 .. Len(s) /\ Len(s) \in Nat
      /\ DOMAIN Append(s, x) = 1 .. Len(s) + 1
      /\ \A i \in 1 .. Len(s) : Append(s, x)[i] = s[i]
      /\ Append(s, x)[Len(s) + 1] = x
  OBVIOUS
<1>2. \A k \in 1 .. Len(s) : s[k] # x
  BY <1>1 DEF ToSet
<1>3. ASSUME NEW i \in 1 .. Len(s) + 1, NEW j \in 1 .. Len(s) + 1,
             Append(s, x)[i] = Append(s, x)[j]
      PROVE  i = j
  <2>1. CASE i \in 1 .. Len(s) /\ j \in 1 .. Len(s)
    BY <2>1, <1>1, <1>3 DEF IsInjective
  <2>2. CASE i = Len(s) + 1 /\ j \in 1 .. Len(s)
    BY <2>2, <1>1, <1>2, <1>3
  <2>3. CASE i \in 1 .. Len(s) /\ j = Len(s) + 1
    BY <2>3, <1>1, <1>2, <1>3
  <2>4. \A k \in 1 .. Len(s) + 1 : k \in 1 .. Len(s) \/ k = Len(s) + 1
    BY <1>1
  <2> QED BY <2>1, <2>2, <2>3, <2>4
<1>4. \A i, j \in DOMAIN Append(s, x) : Append(s, x)[i] = Append(s, x)[j] => i = j
  BY <1>1, <1>3
<1> QED BY <1>4, Zenon DEF IsInjective

(***************************************************************************)
(* The list and its pages.                                                 *)
(***************************************************************************)
\* Where the page after k others begins and ends.
LEMMA OnePageMore ==
  ASSUME NEW k \in Nat
  PROVE  /\ k * PageSize \in Nat /\ (k + 1) * PageSize \in Nat
         /\ (k + 1) * PageSize = k * PageSize + PageSize
         /\ PageSize \in Nat /\ PageSize >= 1
<1>1. PageSize \in Nat /\ PageSize >= 1
  BY SourcesAssumption
<1>2. \A p \in Nat : k * p \in Nat /\ (k + 1) * p = k * p + p
  OBVIOUS
<1> QED BY <1>1, <1>2

\* The page after k others has the list from there on, or as much as it holds;
\* it is empty or the last only when nothing follows it.
LEMMA PageHas ==
  ASSUME list \in Seq(Codes), NEW k \in Nat
  PROVE  /\ PageOf(k + 1) \in [rows: Seq(Codes), more: BOOLEAN]
         /\ PageOf(k + 1).rows = <<>> => ~PageOf(k + 1).more
         /\ \A i \in DOMAIN list :
              k * PageSize < i =>
                \/ list[i] \in ToSet(PageOf(k + 1).rows)
                \/ PageOf(k + 1).more /\ (k + 1) * PageSize < i
<1> DEFINE to == IF (k + 1) * PageSize < Len(list) THEN (k + 1) * PageSize ELSE Len(list)
           from == k * PageSize + 1
           rows == SubSeq(list, from, to)
           more == (k + 1) * PageSize < Len(list)
<1>1. /\ k * PageSize \in Nat /\ (k + 1) * PageSize \in Nat
      /\ (k + 1) * PageSize = k * PageSize + PageSize
      /\ PageSize \in Nat /\ PageSize >= 1
  BY OnePageMore
<1>2. PageOf(k + 1) = [rows |-> rows, more |-> more]
  <2>1. (k + 1) - 1 = k
    OBVIOUS
  <2> QED BY <2>1, Zenon DEF PageOf
<1>3. /\ Len(list) \in Nat /\ DOMAIN list = 1 .. Len(list)
      /\ to \in Nat /\ from \in Nat /\ 1 <= from /\ to <= Len(list)
      /\ more => to >= from
  BY <1>1
<1>4. ASSUME NEW i \in DOMAIN list, k * PageSize < i PROVE i >= from /\ (i <= to \/ (more /\ (k + 1) * PageSize < i))
  BY <1>1, <1>3, <1>4
<1> HIDE DEF to, from
<1>5. /\ rows \in Seq(Codes)
      /\ Len(rows) = IF from <= to THEN to - from + 1 ELSE 0
      /\ \A i \in 1 .. to - from + 1 : rows[i] = list[from + i - 1]
  <2>1. \A i \in from .. to : list[i] \in Codes
    BY <1>3, ElementsOf
  <2> QED BY <2>1, <1>3, SubSeqProperties
<1>6. ASSUME NEW i \in from .. to PROVE list[i] \in ToSet(rows)
  <2>1. i - from + 1 \in 1 .. Len(rows) /\ rows[i - from + 1] = list[i]
    BY <1>3, <1>5, SMTT(30)
  <2>2. DOMAIN rows = 1 .. Len(rows)
    BY <1>5
  <2> QED BY <2>1, <2>2 DEF ToSet
<1>7. more => rows # <<>>
  BY <1>3, <1>5
<1>8. \A i \in DOMAIN list : k * PageSize < i => list[i] \in ToSet(rows) \/ (more /\ (k + 1) * PageSize < i)
  <2>1. TAKE i \in DOMAIN list
  <2>2. HAVE k * PageSize < i
  <2>3. i >= from /\ (i <= to \/ (more /\ (k + 1) * PageSize < i))
    BY <2>2, <1>4
  <2>4. i \in Int
    BY <1>3
  <2>5. CASE i <= to
    <3>1. i \in from .. to
      BY <2>3, <2>4, <2>5, <1>3
    <3> QED BY <3>1, <1>6
  <2> QED BY <2>3, <2>5
<1>9. more \in BOOLEAN
  BY <1>1, <1>3
<1> HIDE DEF rows, more
<1>10. PageOf(k + 1).rows = rows /\ PageOf(k + 1).more = more
  BY <1>2
<1> QED BY <1>2, <1>5, <1>7, <1>8, <1>9, <1>10

(***************************************************************************)
(* The inductive invariant of discovery.                                   *)
(***************************************************************************)
RowsOf(n) == ToSet(pages[n].rows)
Cached(c) == \E n \in DOMAIN pages : c \in RowsOf(n)

\* What was listed when page 1 was fetched is in a cached page, or further down
\* the list than they reach: an upload only pushes it further down.
PagesInv ==
  /\ \A n \in DOMAIN pages : pages[n].rows = <<>> => ~pages[n].more
  /\ \A n \in DOMAIN pages :
       ~pages[n].more => \A c \in since : \E m \in 1 .. n : c \in RowsOf(m)
  /\ \A c \in since :
       Cached(c) \/ \E i \in DOMAIN list : Len(pages) * PageSize < i /\ list[i] = c

\* What a reader has behind it, it has yielded.
ReaderInv ==
  /\ IsInjective(emitted)
  /\ reader.at \in {"asking", "reading"} =>
       /\ ~Reached(reader.limit, emitted)
       /\ \A n \in 1 .. reader.page - 1 : RowsOf(n) \subseteq ToSet(emitted)
  /\ reader.at = "reading" =>
       /\ reader.page \in DOMAIN pages /\ reader.more = pages[reader.page].more
       /\ RowsOf(reader.page) \subseteq ToSet(emitted) \cup ToSet(reader.rows)

SourcesInv == SourcesTypeOK /\ PagesInv /\ ReaderInv /\ NothingSkipped

\* The type invariant, part by part.
LEMMA SourcesTyped ==
  ASSUME SourcesTypeOK
  PROVE  /\ list \in Seq(Codes) /\ emitted \in Seq(Codes) /\ since \subseteq Codes
         /\ pages \in Seq([rows: Seq(Codes), more: BOOLEAN])
         /\ Len(pages) \in Nat /\ DOMAIN pages = 1 .. Len(pages)
         /\ \A n \in DOMAIN pages : pages[n] \in [rows: Seq(Codes), more: BOOLEAN]
         /\ reader.page \in 1 .. Len(pages) + 1 /\ reader.rows \in Seq(Codes)
         /\ reader \in [at: {"idle", "asking", "reading", "ended"}, page: Nat,
                        limit: Limits \cup {Forever}, rows: Seq(Codes), more: BOOLEAN]
<1>1. /\ list \in Seq(Codes) /\ emitted \in Seq(Codes) /\ since \subseteq Codes
      /\ pages \in Seq([rows: Seq(Codes), more: BOOLEAN])
      /\ reader.at \in {"idle", "asking", "reading", "ended"}
      /\ reader.page \in 1 .. Len(pages) + 1
      /\ reader \in [at: {reader.at}, page: {reader.page}, limit: Limits \cup {Forever},
                     rows: Seq(Codes), more: BOOLEAN]
  BY Zenon DEF SourcesTypeOK
<1>2. /\ Len(pages) \in Nat /\ DOMAIN pages = 1 .. Len(pages)
      /\ \A n \in DOMAIN pages : pages[n] \in [rows: Seq(Codes), more: BOOLEAN]
  <2> DEFINE Page == [rows: Seq(Codes), more: BOOLEAN]
  <2>1. pages \in Seq(Page)
    BY <1>1
  <2> HIDE DEF Page
  <2>2. /\ Len(pages) \in Nat /\ DOMAIN pages = 1 .. Len(pages)
        /\ \A n \in DOMAIN pages : pages[n] \in Page
    BY <2>1, ElementsOf
  <2> QED BY <2>2 DEF Page
<1>3. reader.page \in Nat /\ reader.rows \in Seq(Codes)
  BY <1>1, <1>2
<1> QED BY <1>1, <1>2, <1>3

\* The first state.
LEMMA SourcesInitially == SourcesInit => SourcesInv
<1> SUFFICES ASSUME SourcesInit PROVE SourcesInv
  OBVIOUS
<1>1. InitialList \in Seq(Codes)
  <2>1. InitialList \in Seq(ToSet(InitialList)) /\ ToSet(InitialList) \subseteq Codes
    BY SourcesAssumption DEF Codes
  <2> QED BY <2>1
<1>2. SourcesTypeOK
  <2>1. /\ list \in Seq(Codes) /\ emitted \in Seq(Codes) /\ since \subseteq Codes
        /\ pages \in Seq([rows: Seq(Codes), more: BOOLEAN])
    BY <1>1 DEF SourcesInit
  <2>2. Len(pages) = 0
    BY DEF SourcesInit
  <2> QED BY <2>1, <2>2 DEF SourcesInit, SourcesTypeOK
<1>3. DOMAIN pages = {} /\ DOMAIN emitted = {} /\ since = {}
  BY DEF SourcesInit
<1> QED BY <1>2, <1>3 DEF SourcesInv, PagesInv, ReaderInv, NothingSkipped, SourcesInit, IsInjective

\* An upload.
LEMMA UploadKeeps ==
  ASSUME SourcesInv, NEW code \in Uploads, Upload(code)
  PROVE  SourcesInv'
<1> USE DEF SourcesInv
<1>1. /\ list \in Seq(Codes) /\ Len(list) \in Nat /\ DOMAIN list = 1 .. Len(list)
      /\ Len(pages) * PageSize \in Nat
  BY SourcesTyped, ElementsOf, OnePageMore
<1>2. /\ list' = <<code>> \o list /\ code \in Codes
      /\ pages' = pages /\ since' = since /\ reader' = reader /\ emitted' = emitted
  BY DEF Upload, Codes
<1>3. /\ list' \in Seq(Codes) /\ DOMAIN list' = 1 .. Len(list) + 1
      /\ \A i \in DOMAIN list : list'[i + 1] = list[i]
  BY <1>1, <1>2
<1>4. SourcesTypeOK'
  BY <1>2, <1>3 DEF SourcesTypeOK
<1>5. PagesInv'
  <2>1. ASSUME NEW c \in since,
               \E i \in DOMAIN list : Len(pages) * PageSize < i /\ list[i] = c
        PROVE  \E i \in DOMAIN list' : Len(pages) * PageSize < i /\ list'[i] = c
    <3>1. PICK i \in DOMAIN list : Len(pages) * PageSize < i /\ list[i] = c
      BY <2>1
    <3>2. i + 1 \in DOMAIN list' /\ Len(pages) * PageSize < i + 1 /\ list'[i + 1] = c
      BY <3>1, <1>1, <1>3
    <3> QED BY <3>2
  <2> QED BY <2>1, <1>2 DEF PagesInv, RowsOf, Cached
<1>6. ReaderInv' /\ NothingSkipped'
  BY <1>2 DEF ReaderInv, NothingSkipped, RowsOf
<1> QED BY <1>4, <1>5, <1>6

\* A reader that begins.
LEMMA StartReadingKeeps ==
  ASSUME SourcesInv, NEW limit \in Limits, StartReading(limit)
  PROVE  SourcesInv'
<1> USE DEF SourcesInv
<1>1. /\ list' = list /\ pages' = pages /\ since' = since /\ emitted' = <<>>
      /\ reader' = [at |-> "asking", page |-> 1, limit |-> limit, rows |-> <<>>, more |-> FALSE]
  BY DEF StartReading
<1>2. SourcesTypeOK'
  <2>1. 1 \in 1 .. Len(pages) + 1
    BY SourcesTyped
  <2>2. <<>> \in Seq(Codes)
    OBVIOUS
  <2> QED BY <2>1, <2>2, <1>1 DEF SourcesTypeOK
<1>3. PagesInv'
  BY <1>1 DEF PagesInv, RowsOf, Cached
<1>4. ~Reached(limit, emitted')
  <2>1. Len(emitted') = 0
    BY <1>1
  <2>2. limit # Forever => limit \in Nat \ {0}
    BY SourcesAssumption
  <2> QED BY <2>1, <2>2 DEF Reached
<1>5. ReaderInv' /\ NothingSkipped'
  <2>1. DOMAIN emitted' = {} /\ 1 .. 1 - 1 = {}
    BY <1>1
  <2> QED BY <2>1, <1>1, <1>4 DEF ReaderInv, NothingSkipped, RowsOf, IsInjective
<1> QED BY <1>2, <1>3, <1>5

\* A page that is not in the cache is the one after those that are: what the
\* cache has then.
LEMMA PageAdded ==
  ASSUME SourcesInv, FetchPage, reader.page \notin DOMAIN pages
  PROVE  /\ reader.page = Len(pages) + 1
         /\ pages' = Append(pages, PageOf(reader.page))
         /\ DOMAIN pages' = 1 .. reader.page /\ Len(pages') = reader.page
         /\ \A m \in DOMAIN pages : pages'[m] = pages[m]
         /\ pages'[reader.page] = PageOf(reader.page)
         /\ pages' \in Seq([rows: Seq(Codes), more: BOOLEAN])
         /\ PageOf(reader.page).rows = <<>> => ~PageOf(reader.page).more
<1>1. /\ reader.page \in 1 .. Len(pages) + 1 /\ Len(pages) \in Nat /\ DOMAIN pages = 1 .. Len(pages)
      /\ pages \in Seq([rows: Seq(Codes), more: BOOLEAN]) /\ list \in Seq(Codes)
  BY SourcesTyped DEF SourcesInv
<1>2. reader.page = Len(pages) + 1
  BY <1>1
<1>3. pages' = Append(pages, PageOf(reader.page))
  BY DEF FetchPage
<1>4. /\ PageOf(reader.page) \in [rows: Seq(Codes), more: BOOLEAN]
      /\ PageOf(reader.page).rows = <<>> => ~PageOf(reader.page).more
  BY <1>1, <1>2, PageHas
<1>5. \A r \in [rows: Seq(Codes), more: BOOLEAN] :
        /\ Append(pages, r) \in Seq([rows: Seq(Codes), more: BOOLEAN])
        /\ Len(Append(pages, r)) = Len(pages) + 1
        /\ DOMAIN Append(pages, r) = 1 .. Len(pages) + 1
        /\ \A m \in 1 .. Len(pages) : Append(pages, r)[m] = pages[m]
        /\ Append(pages, r)[Len(pages) + 1] = r
  BY <1>1
<1> QED BY <1>1, <1>2, <1>3, <1>4, <1>5

\* What was listed at first is in the pages so far, or beyond the page that was
\* fetched, which is then not the last.
LEMMA PageCovers ==
  ASSUME SourcesInv, FetchPage, reader.page \notin DOMAIN pages, NEW c \in since'
  PROVE  \/ \E m \in 1 .. reader.page : c \in RowsOf(m)'
         \/ /\ PageOf(reader.page).more
            /\ \E i \in DOMAIN list : Len(pages') * PageSize < i /\ list[i] = c
<1> DEFINE k == Len(pages)
<1>1. /\ reader.page = k + 1 /\ DOMAIN pages' = 1 .. reader.page /\ Len(pages') = k + 1
      /\ \A m \in DOMAIN pages : pages'[m] = pages[m]
      /\ pages'[reader.page] = PageOf(reader.page)
  BY PageAdded
<1>2. /\ k \in Nat /\ DOMAIN pages = 1 .. k /\ list \in Seq(Codes)
      /\ Len(list) \in Nat /\ DOMAIN list = 1 .. Len(list)
  BY SourcesTyped, ElementsOf DEF SourcesInv
<1>3. (\E m \in DOMAIN pages : c \in RowsOf(m)) \/ \E i \in DOMAIN list : k * PageSize < i /\ list[i] = c
  <2>1. CASE reader.page = 1
    <3>1. since' = ToSet(list)
      BY <2>1 DEF FetchPage
    <3>2. PICK i \in DOMAIN list : list[i] = c
      BY <3>1 DEF ToSet
    <3>3. k * PageSize = 0
      <4>1. k = 0 /\ PageSize \in Nat
        BY <1>1, <1>2, <2>1, SourcesAssumption
      <4> QED BY <4>1
    <3> QED BY <3>2, <3>3, <1>2
  <2>2. CASE reader.page # 1
    <3>1. since' = since
      BY <2>2 DEF FetchPage
    <3> QED BY <3>1 DEF SourcesInv, PagesInv, Cached
  <2> QED BY <2>1, <2>2
<1>4. CASE \E m \in DOMAIN pages : c \in RowsOf(m)
  <2>1. PICK m \in DOMAIN pages : c \in RowsOf(m)
    BY <1>4
  <2>2. m \in 1 .. reader.page /\ pages'[m] = pages[m]
    BY <1>1, <1>2
  <2>3. c \in RowsOf(m)'
    BY <2>1, <2>2 DEF RowsOf
  <2> QED BY <2>2, <2>3
<1>5. CASE \E i \in DOMAIN list : k * PageSize < i /\ list[i] = c
  <2>1. PICK i \in DOMAIN list : k * PageSize < i /\ list[i] = c
    BY <1>5
  <2>2. \/ list[i] \in ToSet(PageOf(k + 1).rows)
        \/ PageOf(k + 1).more /\ (k + 1) * PageSize < i
    BY <2>1, <1>2, PageHas
  <2>3. ASSUME list[i] \in ToSet(PageOf(k + 1).rows) PROVE \E m \in 1 .. reader.page : c \in RowsOf(m)'
    <3>1. reader.page \in 1 .. reader.page
      BY <1>1, <1>2
    <3>2. c \in ToSet(pages'[reader.page].rows)
      BY <2>1, <2>3, <1>1
    <3>3. \A m \in 1 .. reader.page : c \in ToSet(pages'[m].rows) => c \in RowsOf(m)'
      BY DEF RowsOf
    <3> QED BY <3>1, <3>2, <3>3
  <2> QED BY <2>1, <2>2, <2>3, <1>1
<1> QED BY <1>3, <1>4, <1>5

\* The cache after a page is fetched.
LEMMA FetchKeepsPages ==
  ASSUME SourcesInv, FetchPage
  PROVE  PagesInv'
<1>1. CASE reader.page \in DOMAIN pages
  <2>1. pages' = pages /\ list' = list
    BY <1>1 DEF FetchPage
  <2>2. since' = since
    BY <1>1 DEF FetchPage
  <2> QED BY <2>1, <2>2 DEF SourcesInv, PagesInv, RowsOf, Cached
<1>2. CASE reader.page \notin DOMAIN pages
  <2>1. /\ reader.page = Len(pages) + 1 /\ DOMAIN pages' = 1 .. reader.page
        /\ \A m \in DOMAIN pages : pages'[m] = pages[m]
        /\ pages'[reader.page] = PageOf(reader.page)
        /\ PageOf(reader.page).rows = <<>> => ~PageOf(reader.page).more
    BY <1>2, PageAdded
  <2>2. Len(pages) \in Nat /\ DOMAIN pages = 1 .. Len(pages)
    BY SourcesTyped DEF SourcesInv
  <2>3. list' = list
    BY DEF FetchPage
  <2>4. \A n \in DOMAIN pages' : n \in DOMAIN pages \/ n = reader.page
    BY <2>1, <2>2
  <2>5. \A n \in DOMAIN pages' : pages'[n].rows = <<>> => ~pages'[n].more
    BY <2>1, <2>4 DEF SourcesInv, PagesInv
  <2>6. \A c \in since' : \/ \E m \in 1 .. reader.page : c \in RowsOf(m)'
                          \/ /\ PageOf(reader.page).more
                             /\ \E i \in DOMAIN list : Len(pages') * PageSize < i /\ list[i] = c
    BY <1>2, PageCovers
  <2>7. ASSUME NEW n \in DOMAIN pages', ~pages'[n].more, NEW c \in since'
        PROVE  \E m \in 1 .. n : c \in RowsOf(m)'
    <3>1. CASE n = reader.page
      BY <3>1, <2>1, <2>6, <2>7
    <3>2. CASE n \in DOMAIN pages
      <4>1. ~pages[n].more
        BY <3>2, <2>1, <2>7
      <4>2. reader.page # 1
        BY <3>2, <2>1, <2>2
      <4>3. since' = since
        BY <4>2 DEF FetchPage
      <4>4. PICK m \in 1 .. n : c \in RowsOf(m)
        BY <3>2, <4>1, <4>3, <2>7 DEF SourcesInv, PagesInv
      <4>5. m \in DOMAIN pages
        BY <3>2, <2>2
      <4>6. c \in RowsOf(m)'
        BY <4>4, <4>5, <2>1 DEF RowsOf
      <4> QED BY <4>4, <4>6
    <3> QED BY <3>1, <3>2, <2>4
  <2>8. ASSUME NEW c \in since'
        PROVE  Cached(c)' \/ \E i \in DOMAIN list' : Len(pages') * PageSize < i /\ list'[i] = c
    <3>1. CASE \E m \in 1 .. reader.page : c \in RowsOf(m)'
      BY <3>1, <2>1 DEF Cached
    <3> QED BY <3>1, <2>3, <2>6
  <2> QED BY <2>5, <2>7, <2>8 DEF PagesInv
<1> QED BY <1>1, <1>2

\* What a reader has before it when its page is there.
LEMMA FetchKeepsReader ==
  ASSUME SourcesInv, FetchPage, PagesInv'
  PROVE  ReaderInv' /\ NothingSkipped' /\ SourcesTypeOK'
<1> DEFINE n == reader.page
           answer == IF n \in DOMAIN pages THEN pages[n] ELSE PageOf(n)
<1>1. /\ reader.at = "asking" /\ emitted' = emitted /\ list' = list
      /\ reader' = [reader EXCEPT !.at = IF answer.rows = <<>> THEN "ended" ELSE "reading",
                                  !.rows = answer.rows, !.more = answer.more]
  BY DEF FetchPage
<1>2. /\ list \in Seq(Codes) /\ emitted \in Seq(Codes) /\ since \subseteq Codes
      /\ n \in 1 .. Len(pages) + 1 /\ Len(pages) \in Nat /\ DOMAIN pages = 1 .. Len(pages)
      /\ \A m \in DOMAIN pages : pages[m] \in [rows: Seq(Codes), more: BOOLEAN]
      /\ pages \in Seq([rows: Seq(Codes), more: BOOLEAN])
      /\ reader \in [at: {"idle", "asking", "reading", "ended"}, page: Nat,
                     limit: Limits \cup {Forever}, rows: Seq(Codes), more: BOOLEAN]
  BY SourcesTyped DEF SourcesInv
<1>3. /\ pages' \in Seq([rows: Seq(Codes), more: BOOLEAN])
      /\ n \in DOMAIN pages' /\ pages'[n] = answer
      /\ \A m \in DOMAIN pages : m \in DOMAIN pages' /\ pages'[m] = pages[m]
      /\ n \in 1 .. Len(pages') + 1
      /\ \A m \in 1 .. n - 1 : m \in DOMAIN pages
  <2>1. CASE n \in DOMAIN pages
    <3>1. pages' = pages
      BY <2>1 DEF FetchPage
    <3> QED BY <2>1, <3>1, <1>2
  <2>2. CASE n \notin DOMAIN pages
    <3>1. /\ n = Len(pages) + 1 /\ DOMAIN pages' = 1 .. n /\ Len(pages') = n
          /\ \A m \in DOMAIN pages : pages'[m] = pages[m]
          /\ pages'[n] = PageOf(n)
          /\ pages' \in Seq([rows: Seq(Codes), more: BOOLEAN])
      BY <2>2, PageAdded
    <3> QED BY <2>2, <3>1, <1>2
  <2> QED BY <2>1, <2>2
<1>4. answer \in [rows: Seq(Codes), more: BOOLEAN]
  <2>1. \A m \in DOMAIN pages' : pages'[m] \in [rows: Seq(Codes), more: BOOLEAN]
    BY <1>3, ElementsOf
  <2> QED BY <2>1, <1>3
<1>5. \A m \in 1 .. n - 1 : RowsOf(m)' \subseteq ToSet(emitted)
  <2>1. \A m \in 1 .. n - 1 : RowsOf(m)' = RowsOf(m)
    BY <1>3 DEF RowsOf
  <2> QED BY <2>1, <1>1 DEF SourcesInv, ReaderInv
<1>6. since' \subseteq Codes
  <2>1. ToSet(list) \subseteq Codes
    BY <1>2, ElementsOf
  <2> QED BY <2>1, <1>2 DEF FetchPage
<1>7. /\ reader'.at = IF answer.rows = <<>> THEN "ended" ELSE "reading"
      /\ reader'.page = n /\ reader'.limit = reader.limit
      /\ reader'.rows = answer.rows /\ reader'.more = answer.more
      /\ reader' \in [at: {reader'.at}, page: {n}, limit: Limits \cup {Forever},
                      rows: Seq(Codes), more: BOOLEAN]
  <2> HIDE DEF answer, n
  <2> QED BY <1>1, <1>2, <1>4 DEF n
<1> HIDE DEF answer
<1>8. SourcesTypeOK'
  BY <1>1, <1>2, <1>3, <1>6, <1>7 DEF SourcesTypeOK
<1>9. ReaderInv'
  <2>1. IsInjective(emitted) /\ ~Reached(reader.limit, emitted)
    BY <1>1 DEF SourcesInv, ReaderInv
  <2>2. RowsOf(reader.page)' = ToSet(answer.rows)
    <3>1. reader'.page = n /\ pages'[n] = answer
      BY <1>3, <1>7
    <3> QED BY <3>1 DEF RowsOf
  <2> QED BY <2>1, <2>2, <1>1, <1>3, <1>5, <1>7 DEF ReaderInv
<1>10. NothingSkipped'
  <2>1. CASE answer.rows = <<>>
    <3>1. ~pages'[n].more
      BY <2>1, <1>3 DEF PagesInv
    <3>2. \A c \in since' : \E m \in 1 .. n : c \in RowsOf(m)'
      BY <3>1, <1>3 DEF PagesInv
    <3>3. \A m \in 1 .. n : m = n => RowsOf(m)' = {}
      <4>1. pages'[n].rows = <<>>
        BY <2>1, <1>3
      <4>2. \A m \in 1 .. n : RowsOf(m)' = ToSet(pages'[m].rows)
        BY DEF RowsOf
      <4>3. ToSet(<<>>) = {}
        BY DEF ToSet
      <4> QED BY <4>1, <4>2, <4>3
    <3>4. \A m \in 1 .. n : m \in 1 .. n - 1 \/ m = n
      BY <1>2
    <3>5. ASSUME NEW c \in since' PROVE c \in ToSet(emitted)
      <4>1. PICK m \in 1 .. n : c \in RowsOf(m)'
        BY <3>2
      <4>2. m # n
        BY <4>1, <3>3
      <4>3. m \in 1 .. n - 1
        BY <4>2, <3>4
      <4> QED BY <4>1, <4>3, <1>5
    <3> QED BY <3>5, <1>1 DEF NothingSkipped, SourcesInv, ReaderInv
  <2>2. CASE answer.rows # <<>>
    BY <2>2, <1>7 DEF NothingSkipped
  <2> QED BY <2>1, <2>2
<1> QED BY <1>8, <1>9, <1>10

\* What a reader that is at a row has: for SkipRow and YieldRow.
LEMMA RowRead ==
  ASSUME SourcesInv, AtRow
  PROVE  /\ Head(reader.rows) \in Codes /\ Tail(reader.rows) \in Seq(Codes)
         /\ ToSet(reader.rows) = {Head(reader.rows)} \cup ToSet(Tail(reader.rows))
         /\ reader.at = "reading" /\ emitted \in Seq(Codes) /\ IsInjective(emitted)
         /\ ~Reached(reader.limit, emitted)
         /\ \A n \in 1 .. reader.page - 1 : RowsOf(n) \subseteq ToSet(emitted)
         /\ reader.page \in DOMAIN pages /\ reader.more = pages[reader.page].more
         /\ RowsOf(reader.page) \subseteq ToSet(emitted) \cup ToSet(reader.rows)
<1>1. reader.rows \in Seq(Codes) /\ emitted \in Seq(Codes)
  BY SourcesTyped DEF SourcesInv
<1>2. reader.at = "reading" /\ reader.rows # <<>>
  BY DEF AtRow
<1>3. /\ Head(reader.rows) \in Codes /\ Tail(reader.rows) \in Seq(Codes)
      /\ ToSet(reader.rows) = {Head(reader.rows)} \cup ToSet(Tail(reader.rows))
  BY <1>1, <1>2, TailElements
<1>4. /\ IsInjective(emitted) /\ ~Reached(reader.limit, emitted)
      /\ \A n \in 1 .. reader.page - 1 : RowsOf(n) \subseteq ToSet(emitted)
      /\ reader.page \in DOMAIN pages /\ reader.more = pages[reader.page].more
      /\ RowsOf(reader.page) \subseteq ToSet(emitted) \cup ToSet(reader.rows)
  BY <1>2 DEF SourcesInv, ReaderInv
<1> QED BY <1>1, <1>2, <1>3, <1>4

\* After a row, whichever it was: the rest is to be read, and the cache is as it was.
LEMMA RowTyped ==
  ASSUME SourcesInv, AtRow,
         list' = list, pages' = pages, since' = since, emitted' \in Seq(Codes),
         reader' \in [at: {"reading", "ended"}, page: {reader.page}, limit: {reader.limit},
                      rows: {Tail(reader.rows)}, more: {reader.more}]
  PROVE  SourcesTypeOK' /\ PagesInv' /\ \A n \in Nat : RowsOf(n)' = RowsOf(n)
<1>1. /\ list \in Seq(Codes) /\ since \subseteq Codes
      /\ pages \in Seq([rows: Seq(Codes), more: BOOLEAN])
      /\ reader.page \in 1 .. Len(pages) + 1
      /\ reader \in [at: {"idle", "asking", "reading", "ended"}, page: Nat,
                     limit: Limits \cup {Forever}, rows: Seq(Codes), more: BOOLEAN]
  BY SourcesTyped DEF SourcesInv
<1>2. Tail(reader.rows) \in Seq(Codes)
  BY RowRead
<1>3. SourcesTypeOK'
  BY <1>1, <1>2 DEF SourcesTypeOK
<1>4. PagesInv'
  BY DEF SourcesInv, PagesInv, RowsOf, Cached
<1>5. \A n \in Nat : RowsOf(n)' = RowsOf(n)
  BY DEF RowsOf
<1> QED BY <1>3, <1>4, <1>5

\* A code that was seen.
LEMMA SkipRowKeeps ==
  ASSUME SourcesInv, SkipRow
  PROVE  SourcesInv'
<1>1. /\ AtRow /\ Head(reader.rows) \in ToSet(emitted)
      /\ reader' = [reader EXCEPT !.rows = Tail(@)]
      /\ pages' = pages /\ since' = since /\ emitted' = emitted /\ list' = list
  BY DEF SkipRow
<1>2. /\ ToSet(reader.rows) = {Head(reader.rows)} \cup ToSet(Tail(reader.rows))
      /\ reader.at = "reading" /\ emitted \in Seq(Codes) /\ IsInjective(emitted)
      /\ ~Reached(reader.limit, emitted)
      /\ \A n \in 1 .. reader.page - 1 : RowsOf(n) \subseteq ToSet(emitted)
      /\ reader.page \in DOMAIN pages /\ reader.more = pages[reader.page].more
      /\ RowsOf(reader.page) \subseteq ToSet(emitted) \cup ToSet(reader.rows)
  BY <1>1, RowRead
<1>3. reader \in [at: {"idle", "asking", "reading", "ended"}, page: Nat,
                  limit: Limits \cup {Forever}, rows: Seq(Codes), more: BOOLEAN]
  BY SourcesTyped DEF SourcesInv
<1>4. /\ reader'.at = "reading" /\ reader'.page = reader.page /\ reader'.limit = reader.limit
      /\ reader'.rows = Tail(reader.rows) /\ reader'.more = reader.more
      /\ reader' \in [at: {"reading", "ended"}, page: {reader.page}, limit: {reader.limit},
                      rows: {Tail(reader.rows)}, more: {reader.more}]
  BY <1>1, <1>2, <1>3
<1>5. SourcesTypeOK' /\ PagesInv' /\ \A n \in Nat : RowsOf(n)' = RowsOf(n)
  BY <1>1, <1>2, <1>4, RowTyped
<1>6. RowsOf(reader.page) \subseteq ToSet(emitted) \cup ToSet(Tail(reader.rows))
  BY <1>1, <1>2
<1>7. RowsOf(reader.page)' = RowsOf(reader.page)
  BY <1>1, <1>4 DEF RowsOf
<1>8. \A n \in 1 .. reader.page - 1 : RowsOf(n)' \subseteq ToSet(emitted)
  BY <1>2, <1>3, <1>5
<1>9. ReaderInv'
  BY <1>1, <1>2, <1>4, <1>6, <1>7, <1>8 DEF ReaderInv
<1>10. NothingSkipped'
  BY <1>4 DEF NothingSkipped
<1> QED BY <1>5, <1>9, <1>10 DEF SourcesInv

\* A code that was not.
LEMMA YieldRowKeeps ==
  ASSUME SourcesInv, YieldRow
  PROVE  SourcesInv'
<1> DEFINE c == Head(reader.rows)
<1>1. /\ AtRow /\ c \notin ToSet(emitted) /\ emitted' = Append(emitted, c)
      /\ reader' = [reader EXCEPT !.rows = Tail(@),
                                  !.at = IF Reached(reader.limit, emitted') THEN "ended" ELSE @]
      /\ pages' = pages /\ since' = since /\ list' = list
  BY DEF YieldRow
<1>2. /\ c \in Codes /\ ToSet(reader.rows) = {c} \cup ToSet(Tail(reader.rows))
      /\ reader.at = "reading" /\ emitted \in Seq(Codes) /\ IsInjective(emitted)
      /\ ~Reached(reader.limit, emitted)
      /\ \A n \in 1 .. reader.page - 1 : RowsOf(n) \subseteq ToSet(emitted)
      /\ reader.page \in DOMAIN pages /\ reader.more = pages[reader.page].more
      /\ RowsOf(reader.page) \subseteq ToSet(emitted) \cup ToSet(reader.rows)
  BY <1>1, RowRead
<1>3. reader \in [at: {"idle", "asking", "reading", "ended"}, page: Nat,
                  limit: Limits \cup {Forever}, rows: Seq(Codes), more: BOOLEAN]
  BY SourcesTyped DEF SourcesInv
<1> HIDE DEF c
<1>4. /\ reader'.at = IF Reached(reader.limit, emitted') THEN "ended" ELSE "reading"
      /\ reader'.page = reader.page /\ reader'.limit = reader.limit
      /\ reader'.rows = Tail(reader.rows) /\ reader'.more = reader.more
      /\ reader' \in [at: {"reading", "ended"}, page: {reader.page}, limit: {reader.limit},
                      rows: {Tail(reader.rows)}, more: {reader.more}]
  BY <1>1, <1>2, <1>3
<1>5. /\ emitted' \in Seq(Codes) /\ Len(emitted) \in Nat /\ Len(emitted') = Len(emitted) + 1
  BY <1>1, <1>2
<1>6. ToSet(emitted') = ToSet(emitted) \cup {c}
  BY <1>1, <1>2, AppendElements
<1>7. IsInjective(emitted')
  BY <1>1, <1>2, AppendKeepsApart
<1>8. SourcesTypeOK' /\ PagesInv' /\ \A n \in Nat : RowsOf(n)' = RowsOf(n)
  BY <1>1, <1>4, <1>5, RowTyped
<1>9. RowsOf(reader.page) \subseteq ToSet(emitted') \cup ToSet(Tail(reader.rows))
  BY <1>2, <1>6
<1>10. RowsOf(reader.page)' = RowsOf(reader.page)
  BY <1>1, <1>4 DEF RowsOf
<1>11. \A n \in 1 .. reader.page - 1 : RowsOf(n)' \subseteq ToSet(emitted')
  BY <1>2, <1>3, <1>6, <1>8
<1>12. ReaderInv'
  BY <1>1, <1>2, <1>4, <1>7, <1>9, <1>10, <1>11 DEF ReaderInv
<1>13. Reached(reader.limit, emitted') => Len(emitted') = reader.limit
  <2>1. reader.limit # Forever => reader.limit \in Nat
    BY <1>3, SourcesAssumption
  <2> QED BY <2>1, <1>2, <1>5 DEF Reached
<1>14. NothingSkipped'
  BY <1>4, <1>7, <1>13 DEF NothingSkipped
<1> QED BY <1>8, <1>12, <1>14 DEF SourcesInv

\* The end of a page.
LEMMA TurnPageKeeps ==
  ASSUME SourcesInv, TurnPage
  PROVE  SourcesInv'
<1>1. /\ reader.at = "reading" /\ reader.rows = <<>>
      /\ reader' = IF reader.more THEN [reader EXCEPT !.at = "asking", !.page = @ + 1]
                                  ELSE [reader EXCEPT !.at = "ended"]
      /\ pages' = pages /\ since' = since /\ emitted' = emitted /\ list' = list
  BY DEF TurnPage
<1>2. /\ IsInjective(emitted) /\ ~Reached(reader.limit, emitted)
      /\ \A n \in 1 .. reader.page - 1 : RowsOf(n) \subseteq ToSet(emitted)
      /\ reader.page \in DOMAIN pages /\ reader.more = pages[reader.page].more
      /\ RowsOf(reader.page) \subseteq ToSet(emitted) \cup ToSet(reader.rows)
  BY <1>1 DEF SourcesInv, ReaderInv
<1>3. /\ list \in Seq(Codes) /\ emitted \in Seq(Codes) /\ since \subseteq Codes
      /\ pages \in Seq([rows: Seq(Codes), more: BOOLEAN])
      /\ Len(pages) \in Nat /\ DOMAIN pages = 1 .. Len(pages)
      /\ reader \in [at: {"idle", "asking", "reading", "ended"}, page: Nat,
                     limit: Limits \cup {Forever}, rows: Seq(Codes), more: BOOLEAN]
  BY SourcesTyped DEF SourcesInv
<1>4. \A n \in 1 .. reader.page : RowsOf(n) \subseteq ToSet(emitted)
  <2>1. RowsOf(reader.page) \subseteq ToSet(emitted)
    <3>1. ToSet(<<>>) = {}
      BY DEF ToSet
    <3> QED BY <3>1, <1>1, <1>2
  <2>2. \A n \in 1 .. reader.page : n \in 1 .. reader.page - 1 \/ n = reader.page
    BY <1>3
  <2> QED BY <2>1, <2>2, <1>2
<1>5. PagesInv'
  BY <1>1 DEF SourcesInv, PagesInv, RowsOf, Cached
<1>6. \A n \in 1 .. reader.page : RowsOf(n)' \subseteq ToSet(emitted)
  BY <1>1, <1>4 DEF RowsOf
<1>7. CASE reader.more
  <2>1. /\ reader'.at = "asking" /\ reader'.page = reader.page + 1 /\ reader'.limit = reader.limit
        /\ reader'.rows = reader.rows /\ reader'.more = reader.more
        /\ reader' \in [at: {reader'.at}, page: {reader'.page}, limit: Limits \cup {Forever},
                        rows: Seq(Codes), more: BOOLEAN]
    BY <1>1, <1>3, <1>7
  <2>2. reader'.page \in 1 .. Len(pages) + 1 /\ reader'.page - 1 = reader.page
    <3>1. reader.page \in 1 .. Len(pages) /\ Len(pages) \in Nat
      BY <1>2, <1>3
    <3>2. reader'.page = reader.page + 1
      BY <2>1
    <3> QED BY <3>1, <3>2
  <2>3. SourcesTypeOK'
    BY <2>1, <2>2, <1>1, <1>3 DEF SourcesTypeOK
  <2>4. ReaderInv' /\ NothingSkipped'
    BY <2>1, <2>2, <1>1, <1>2, <1>6 DEF ReaderInv, NothingSkipped
  <2> QED BY <2>3, <2>4, <1>5 DEF SourcesInv
<1>8. CASE ~reader.more
  <2>1. /\ reader'.at = "ended" /\ reader'.page = reader.page
        /\ reader' \in [at: {reader'.at}, page: {reader'.page}, limit: Limits \cup {Forever},
                        rows: Seq(Codes), more: BOOLEAN]
    BY <1>1, <1>3, <1>8
  <2>2. SourcesTypeOK'
    BY <2>1, <1>1, <1>2, <1>3 DEF SourcesTypeOK
  <2>3. ASSUME NEW x \in since PROVE x \in ToSet(emitted)
    <3>1. PICK m \in 1 .. reader.page : x \in RowsOf(m)
      BY <1>2, <1>8 DEF SourcesInv, PagesInv
    <3> QED BY <3>1, <1>4
  <2>4. ReaderInv' /\ NothingSkipped'
    BY <2>1, <2>3, <1>1, <1>2 DEF ReaderInv, NothingSkipped
  <2> QED BY <2>2, <2>4, <1>5 DEF SourcesInv
<1> QED BY <1>7, <1>8

\* Every step of discovery.
LEMMA SourcesStep == SourcesInv /\ [SourcesNext]_sourceVars => SourcesInv'
<1> SUFFICES ASSUME SourcesInv, [SourcesNext]_sourceVars PROVE SourcesInv'
  OBVIOUS
<1>1. CASE \E code \in Uploads : Upload(code)
  BY <1>1, UploadKeeps
<1>2. CASE \E limit \in Limits : StartReading(limit)
  BY <1>2, StartReadingKeeps
<1>3. CASE FetchPage
  <2>1. PagesInv'
    BY <1>3, FetchKeepsPages
  <2> QED BY <1>3, <2>1, FetchKeepsReader DEF SourcesInv
<1>4. CASE SkipRow
  BY <1>4, SkipRowKeeps
<1>5. CASE YieldRow
  BY <1>5, YieldRowKeeps
<1>6. CASE TurnPage
  BY <1>6, TurnPageKeeps
<1>7. CASE UNCHANGED sourceVars
  BY <1>7 DEF sourceVars, SourcesInv, SourcesTypeOK, PagesInv, ReaderInv, NothingSkipped, RowsOf, Cached
<1> QED BY <1>1, <1>2, <1>3, <1>4, <1>5, <1>6, <1>7 DEF SourcesNext

\* A reader that comes to the end of its list has yielded every report that was
\* there when page 1 was fetched (reportsource.py, discover), for any list, any
\* uploads, page size and limits.
THEOREM NoReportSkipped == SourcesSpec => []NothingSkipped
<1>1. SourcesInv => NothingSkipped
  BY DEF SourcesInv
<1> QED BY <1>1, SourcesInitially, SourcesStep, PTL DEF SourcesSpec

-----------------------------------------------------------------------------
(***************************************************************************)
(* Dungeons: the two passes of match_zones (discover.py).                  *)
(***************************************************************************)
\* A function on a finite set has finitely many values.
LEMMA ImageFinite ==
  ASSUME NEW S, IsFiniteSet(S), NEW f, f = [x \in S |-> f[x]]
  PROVE  IsFiniteSet({f[x] : x \in S})
<1> DEFINE T == {f[x] : x \in S}
<1>1. f \in [S -> T]
  OBVIOUS
<1>2. \A t \in T : \E x \in S : f[x] = t
  OBVIOUS
<1> HIDE DEF T
<1>3. f \in Surjection(S, T)
  BY <1>1, <1>2 DEF Surjection
<1>4. IsFiniteSet(T)
  BY <1>3, FS_Surjection
<1> QED BY <1>4 DEF T

\* What is counted as one is the one there is, and what is none is not counted
\* as one.
LEMMA TheOnlyOne ==
  ASSUME NEW S, Cardinality(S) = 1
  PROVE  S # {} /\ (IsFiniteSet(S) => \A x \in S : S = {x})
<1>1. S # {}
  BY FS_EmptySet
<1>2. ASSUME IsFiniteSet(S), NEW x \in S PROVE S = {x}
  <2>1. \E y : S = {y}
    BY <1>2, FS_Singleton
  <2> QED BY <2>1
<1> QED BY <1>1, <1>2

\* The seasons are numbers, the first among them, and what is no other zone is
\* the zone of one.
LEMMA SeasonsNumbered ==
  /\ Seasons \subseteq Nat \ {0} /\ 1 \in Seasons
  /\ \A s \in Seasons : 1 .. s \subseteq Seasons
BY CatalogAssumption

\* The zones that are live, and their encounters.
LEMMA LiveZone ==
  ASSUME NEW n \in Seasons, NEW z \in LiveZones(n)
  PROVE  \/ /\ z \in OtherZones /\ z.id \notin Seasons
            /\ \A e \in z.encounters : e.id \notin Seasons \X Dungeons
         \/ \E s \in Seasons :
              /\ z = SeasonsZone(s) /\ z.id = s /\ z.name = SeasonTitle
              /\ z.encounters = {[id |-> <<s, d>>, name |-> DisplayName[d]] : d \in Listed[s]}
<1>1. CASE z \in OtherZones
  BY <1>1, CatalogAssumption
<1>2. ASSUME NEW s \in 1 .. n, z = SeasonsZone(s)
      PROVE  /\ s \in Seasons
             /\ z.id = s /\ z.name = SeasonTitle
             /\ z.encounters = {[id |-> <<s, d>>, name |-> DisplayName[d]] : d \in Listed[s]}
  <2>1. s \in Seasons
    BY SeasonsNumbered
  <2> QED BY <2>1, <1>2 DEF SeasonsZone
<1> QED BY <1>1, <1>2 DEF LiveZones

\* Live zones are finitely many, and so are the hits among their encounters.
LEMMA HitsFinite ==
  ASSUME NEW n \in Seasons, NEW called
  PROVE  IsFiniteSet(EncounterHits(LiveZones(n), called))
<1> DEFINE zones == LiveZones(n)
           season == [s \in 1 .. n |-> SeasonsZone(s)]
           hits(z) == {<<z.id, e.id>> : e \in {x \in z.encounters : x.name \in called}}
           byZone == [z \in zones |-> hits(z)]
<1>1. IsFiniteSet(zones)
  <2>1. n \in Nat
    BY SeasonsNumbered
  <2>2. IsFiniteSet(1 .. n)
    BY <2>1, FS_Interval
  <2>3. IsFiniteSet({season[s] : s \in 1 .. n})
    <3>1. season = [s \in 1 .. n |-> season[s]]
      OBVIOUS
    <3> HIDE DEF season
    <3> QED BY <3>1, <2>2, ImageFinite
  <2>4. zones = OtherZones \cup {season[s] : s \in 1 .. n}
    BY DEF LiveZones
  <2> HIDE DEF zones, season
  <2> QED BY <2>3, <2>4, FS_Union, CatalogAssumption
<1>2. ASSUME NEW z \in zones PROVE IsFiniteSet(hits(z))
  <2>1. IsFiniteSet(z.encounters)
    <3>1. CASE z \in OtherZones
      BY <3>1, CatalogAssumption
    <3>2. ASSUME NEW s \in Seasons, z = SeasonsZone(s) PROVE IsFiniteSet(z.encounters)
      <4> DEFINE row == [d \in Listed[s] |-> [id |-> <<s, d>>, name |-> DisplayName[d]]]
      <4>1. z.encounters = {row[d] : d \in Listed[s]}
        BY <3>2 DEF SeasonsZone
      <4>2. IsFiniteSet(Listed[s]) /\ row = [d \in Listed[s] |-> row[d]]
        BY CatalogAssumption
      <4> HIDE DEF row
      <4> QED BY <4>1, <4>2, ImageFinite
    <3> QED BY <3>1, <3>2, LiveZone
  <2> DEFINE named == {x \in z.encounters : x.name \in called}
             hit == [e \in named |-> <<z.id, e.id>>]
  <2>2. IsFiniteSet(named)
    BY <2>1, FS_Subset
  <2>3. hits(z) = {hit[e] : e \in named} /\ hit = [e \in named |-> hit[e]]
    OBVIOUS
  <2> HIDE DEF named, hit, hits
  <2> QED BY <2>2, <2>3, ImageFinite
<1>3. EncounterHits(zones, called) = UNION {byZone[z] : z \in zones}
  BY DEF EncounterHits
<1>4. byZone = [z \in zones |-> byZone[z]] /\ \A z \in zones : byZone[z] = hits(z)
  OBVIOUS
<1> HIDE DEF zones, byZone, hits
<1>5. IsFiniteSet({byZone[z] : z \in zones})
  BY <1>1, <1>4, ImageFinite
<1>6. IsFiniteSet(UNION {byZone[z] : z \in zones})
  BY <1>2, <1>4, <1>5, FS_UNION
<1> QED BY <1>3, <1>6 DEF zones

\* What a registry calls a dungeon: its names, or nothing.
Calls(names) ==
  \A d \in DOMAIN names : d \in Dungeons /\ names[d] \in {DungeonNames[d], {}}

\* An identifier that has the form of a season's encounter is of the dungeon.
OfDungeon(id, d) == \A s \in Seasons, e \in Dungeons : id = <<s, e>> => e = d

\* A hit of a dungeon's name among the encounters is its own.
LEMMA HitIsOwn ==
  ASSUME NEW n \in Seasons, NEW d \in Dungeons, NEW called \in {DungeonNames[d], {}},
         NEW h \in EncounterHits(LiveZones(n), called)
  PROVE  h = <<h[1], h[2]>> /\ OfDungeon(h[2], d)
<1>1. PICK z \in LiveZones(n) : \E e \in z.encounters : e.name \in called /\ h = <<z.id, e.id>>
  BY DEF EncounterHits
<1>2. PICK e \in z.encounters : e.name \in called /\ h = <<z.id, e.id>>
  BY <1>1
<1>3. h[1] = z.id /\ h[2] = e.id
  BY <1>2
<1>4. CASE e.id \notin Seasons \X Dungeons
  BY <1>2, <1>3, <1>4 DEF OfDungeon
<1>5. CASE \E s \in Seasons : z.encounters = {[id |-> <<s, c>>, name |-> DisplayName[c]] : c \in Listed[s]}
  <2>1. PICK s \in Seasons :
          z.encounters = {[id |-> <<s, c>>, name |-> DisplayName[c]] : c \in Listed[s]}
    BY <1>5
  <2>2. PICK c \in Listed[s] : e = [id |-> <<s, c>>, name |-> DisplayName[c]]
    BY <2>1
  <2>3. e.id = <<s, c>> /\ e.name = DisplayName[c]
    BY <2>2
  <2>4. DisplayName[c] \in DungeonNames[d]
    BY <2>3, <1>2
  <2>5. c = d
    BY <2>4, CatalogAssumption
  <2> QED BY <2>3, <2>5, <1>2, <1>3 DEF OfDungeon
<1> QED BY <1>4, <1>5, LiveZone

\* A zone that bears a dungeon's name is of no season, and none of its
\* encounters is.
LEMMA ZoneIsOther ==
  ASSUME NEW n \in Seasons, NEW d \in Dungeons, NEW called \in {DungeonNames[d], {}},
         NEW id \in ZoneHits(LiveZones(n), called)
  PROVE  /\ id \notin Seasons
         /\ \A x \in EncountersOf(LiveZones(n), id) : x \notin Seasons \X Dungeons
<1>1. PICK z \in LiveZones(n) : z.name \in called /\ id = z.id
  BY DEF ZoneHits
<1>2. SeasonTitle \notin called
  BY CatalogAssumption
<1>3. id \notin Seasons
  BY <1>1, <1>2, LiveZone
<1>4. ASSUME NEW y \in LiveZones(n), y.id = id PROVE \A e \in y.encounters : e.id \notin Seasons \X Dungeons
  BY <1>3, <1>4, LiveZone
<1>5. ASSUME NEW x \in EncountersOf(LiveZones(n), id) PROVE x \notin Seasons \X Dungeons
  <2>1. PICK y \in LiveZones(n) : y.id = id /\ \E e \in y.encounters : x = e.id
    BY <1>5 DEF EncountersOf
  <2> QED BY <2>1, <1>4
<1> QED BY <1>3, <1>5

\* What the two passes settle, and as what.
LEMMA MatchIs ==
  ASSUME NEW zones, NEW names, NEW pinned
  PROVE  LET season == SeasonZone(zones, names, pinned)
             m == MatchZones(zones, names, pinned)
         IN /\ m.season = season
            /\ DOMAIN m.matched = SettledFirst(zones, names) \cup SettledSecond(zones, names, season)
            /\ DOMAIN m.matched \subseteq DOMAIN names
            /\ \A d \in SettledFirst(zones, names) : m.matched[d] = FirstMatch(zones, names[d])
            /\ \A d \in SettledSecond(zones, names, season) :
                 /\ d \notin SettledFirst(zones, names)
                 /\ m.matched[d] = SecondMatch(zones, names[d], season)
BY DEF MatchZones, SettledFirst, SettledSecond

\* A dungeon settled at first has one hit and is matched with it, or no hit and
\* a zone.
LEMMA FirstIs ==
  ASSUME NEW n \in Seasons, NEW names, NEW d \in SettledFirst(LiveZones(n), names)
  PROVE  LET zones == LiveZones(n)
             hits == EncounterHits(zones, names[d])
         IN \/ \E h \in hits : hits = {h} /\ FirstMatch(zones, names[d]) = AsEncounter(h)
            \/ /\ hits = {}
               /\ \E z \in ZoneHits(zones, names[d]) : FirstMatch(zones, names[d]) = AsZone(zones, z)
<1> DEFINE zones == LiveZones(n)
           hits == EncounterHits(zones, names[d])
<1>1. CASE Cardinality(hits) = 1
  <2>1. hits # {} /\ IsFiniteSet(hits) /\ \A h \in hits : hits = {h}
    BY <1>1, HitsFinite, TheOnlyOne
  <2>2. FirstMatch(zones, names[d]) = AsEncounter(CHOOSE h \in hits : TRUE)
    BY <2>1 DEF FirstMatch
  <2>3. (CHOOSE h \in hits : TRUE) \in hits
    BY <2>1
  <2> QED BY <2>1, <2>2, <2>3
<1>2. CASE hits = {} /\ Cardinality(ZoneHits(zones, names[d])) = 1
  <2>1. ZoneHits(zones, names[d]) # {}
    BY <1>2, TheOnlyOne
  <2>2. FirstMatch(zones, names[d]) = AsZone(zones, CHOOSE z \in ZoneHits(zones, names[d]) : TRUE)
    BY <1>2 DEF FirstMatch
  <2> QED BY <2>1, <2>2, <1>2
<1> QED BY <1>1, <1>2 DEF SettledFirst

\* One settled in the second pass has one hit in the season zone and is matched
\* with it, or no hit, and the season zone its name.
LEMMA SecondIs ==
  ASSUME NEW n \in Seasons, NEW names, NEW season,
         NEW d \in SettledSecond(LiveZones(n), names, season)
  PROVE  LET zones == LiveZones(n)
             hits == EncounterHits(zones, names[d])
         IN \/ \E h \in hits : /\ h[1] = season /\ \A g \in hits : g[1] = season => g = h
                               /\ SecondMatch(zones, names[d], season) = AsEncounter(h)
            \/ /\ hits = {} /\ season \in ZoneHits(zones, names[d])
               /\ SecondMatch(zones, names[d], season) = AsZone(zones, season)
<1> DEFINE zones == LiveZones(n)
           hits == EncounterHits(zones, names[d])
           inside == {h \in hits : h[1] = season}
<1>1. CASE Cardinality(inside) = 1
  <2>1. IsFiniteSet(inside)
    <3>1. IsFiniteSet(hits) /\ inside \subseteq hits
      BY HitsFinite
    <3> HIDE DEF inside
    <3> QED BY <3>1, FS_Subset
  <2>2. inside # {} /\ \A h \in inside : inside = {h}
    BY <2>1, <1>1, TheOnlyOne
  <2>3. hits # {} /\ \E h \in hits : h[1] = season
    BY <2>2
  <2>4. SecondMatch(zones, names[d], season) = AsEncounter(CHOOSE h \in hits : h[1] = season)
    BY <2>3 DEF SecondMatch
  <2>5. (CHOOSE h \in hits : h[1] = season) \in inside
    BY <2>3
  <2> QED BY <2>2, <2>4, <2>5
<1>2. CASE hits = {} /\ season \in ZoneHits(zones, names[d])
  BY <1>2 DEF SecondMatch
<1> QED BY <1>1, <1>2 DEF SettledSecond

\* Whatever is matched with a dungeon is its own.
LEMMA MatchedIsOwn ==
  ASSUME NEW n \in Seasons, NEW names, Calls(names), NEW pinned,
         NEW d \in DOMAIN MatchZones(LiveZones(n), names, pinned).matched,
         NEW x \in MatchZones(LiveZones(n), names, pinned).matched[d].encounters
  PROVE  OfDungeon(x, d)
<1> DEFINE zones == LiveZones(n)
           season == SeasonZone(zones, names, pinned)
           m == MatchZones(zones, names, pinned)
           hits == EncounterHits(zones, names[d])
<1>1. /\ d \in DOMAIN names
      /\ \/ d \in SettledFirst(zones, names) /\ m.matched[d] = FirstMatch(zones, names[d])
         \/ /\ d \in SettledSecond(zones, names, season)
            /\ m.matched[d] = SecondMatch(zones, names[d], season)
  BY MatchIs
<1>2. d \in Dungeons /\ names[d] \in {DungeonNames[d], {}}
  BY <1>1 DEF Calls
<1>3. \/ \E h \in hits : m.matched[d] = AsEncounter(h)
      \/ \E z \in ZoneHits(zones, names[d]) : m.matched[d] = AsZone(zones, z)
  BY <1>1, FirstIs, SecondIs
<1>4. CASE \E h \in hits : m.matched[d] = AsEncounter(h)
  <2>1. PICK h \in hits : m.matched[d] = AsEncounter(h)
    BY <1>4
  <2>2. x = h[2]
    BY <2>1 DEF AsEncounter
  <2> QED BY <2>2, <1>2, HitIsOwn
<1>5. CASE \E z \in ZoneHits(zones, names[d]) : m.matched[d] = AsZone(zones, z)
  <2>1. PICK z \in ZoneHits(zones, names[d]) : m.matched[d] = AsZone(zones, z)
    BY <1>5
  <2>2. x \in EncountersOf(zones, z)
    BY <2>1 DEF AsZone
  <2>3. x \notin Seasons \X Dungeons
    BY <2>2, <1>2, ZoneIsOther
  <2> QED BY <2>3 DEF OfDungeon
<1> QED BY <1>3, <1>4, <1>5

(***************************************************************************)
(* The season that the first pass tells.                                   *)
(***************************************************************************)
\* A registry for the season a: all of its line-up by name, and nothing else.
RegistryOf(names, a) ==
  /\ DOMAIN names \subseteq Dungeons /\ Lineup[a] \subseteq DOMAIN names
  /\ \A d \in DOMAIN names : names[d] = IF d \in Lineup[a] THEN DungeonNames[d] ELSE {}

\* What an overlay has kept of other seasons settles nothing.
LEMMA OnlyLineupSettles ==
  ASSUME NEW zones, NEW a \in Seasons, NEW names, RegistryOf(names, a)
  PROVE  SettledFirst(zones, names) = SettledFirst(zones, [d \in Lineup[a] |-> DungeonNames[d]])
<1> DEFINE lineup == [d \in Lineup[a] |-> DungeonNames[d]]
<1>1. EncounterHits(zones, {}) = {} /\ ZoneHits(zones, {}) = {}
  BY DEF EncounterHits, ZoneHits
<1>2. Cardinality({}) = 0
  BY FS_EmptySet
<1>3. \A d \in SettledFirst(zones, names) : d \in Lineup[a]
  <2>1. SUFFICES ASSUME NEW d \in DOMAIN names, d \notin Lineup[a] PROVE d \notin SettledFirst(zones, names)
    BY DEF SettledFirst
  <2>2. names[d] = {}
    BY <2>1 DEF RegistryOf
  <2> QED BY <2>2, <1>1, <1>2 DEF SettledFirst
<1>4. /\ DOMAIN lineup = Lineup[a] /\ Lineup[a] \subseteq DOMAIN names
      /\ \A d \in Lineup[a] : lineup[d] = names[d]
  BY DEF RegistryOf
<1> QED BY <1>3, <1>4 DEF SettledFirst

\* Where the dungeons that occur once tell the season, the first pass infers
\* it, and its zone is listed.
LEMMA SeasonTold ==
  ASSUME NEW n \in Seasons, NEW a \in Seasons, NEW names, RegistryOf(names, a),
         NEW basis, basis.zones = LiveZones(n), basis.authored = a, Telling(basis)
  PROVE  /\ SeasonZone(LiveZones(n), names, NoZone) = a
         /\ \A d \in SettledFirst(LiveZones(n), names) : FirstMatch(LiveZones(n), names[d]).zone = a
         /\ SeasonsZone(a) \in LiveZones(n)
<1> DEFINE zones == LiveZones(n)
           lineup == [d \in Lineup[a] |-> DungeonNames[d]]
           once == SettledFirst(zones, names)
           agreed == {FirstMatch(zones, names[d]).zone : d \in once}
<1>1. once = SettledFirst(zones, lineup)
  BY OnlyLineupSettles
<1>2. \A d \in once : d \in Lineup[a] /\ names[d] = lineup[d]
  <2>1. \A d \in SettledFirst(zones, lineup) : d \in Lineup[a]
    BY DEF SettledFirst
  <2> QED BY <2>1, <1>1 DEF RegistryOf
<1>3. once # {} /\ \A d \in once : FirstMatch(zones, lineup[d]).zone = a
  BY <1>1, Zenon DEF Telling
<1>4. \A d \in once : FirstMatch(zones, names[d]).zone = a
  BY <1>2, <1>3
<1>5. agreed = {a}
  BY <1>3, <1>4
<1>6. SeasonZone(zones, names, NoZone) = a
  <2>1. Cardinality(agreed) = 1
    BY <1>5, FS_Singleton
  <2>2. (CHOOSE z \in agreed : TRUE) = a
    BY <1>5
  <2> HIDE DEF agreed
  <2>3. SeasonZone(zones, names, NoZone) = CHOOSE z \in agreed : TRUE
    BY <2>1 DEF SeasonZone, agreed
  <2> QED BY <2>2, <2>3
<1>7. SeasonsZone(a) \in zones
  <2>1. PICK d \in once : FirstMatch(zones, names[d]).zone = a
    BY <1>3, <1>4
  <2>2. d \in Dungeons /\ names[d] = DungeonNames[d]
    BY <1>2 DEF RegistryOf
  <2>3. \/ \E h \in EncounterHits(zones, names[d]) : FirstMatch(zones, names[d]) = AsEncounter(h)
        \/ \E z \in ZoneHits(zones, names[d]) : FirstMatch(zones, names[d]) = AsZone(zones, z)
    BY <2>1, FirstIs
  <2>4. CASE \E h \in EncounterHits(zones, names[d]) : FirstMatch(zones, names[d]) = AsEncounter(h)
    <3>1. PICK h \in EncounterHits(zones, names[d]) : h[1] = a
      BY <2>1, <2>4 DEF AsEncounter
    <3>2. PICK z \in zones : z.id = a
      BY <3>1 DEF EncounterHits
    <3>3. \E s \in Seasons : z = SeasonsZone(s) /\ z.id = s
      BY <3>2, LiveZone
    <3> QED BY <3>2, <3>3
  <2>5. CASE \E z \in ZoneHits(zones, names[d]) : FirstMatch(zones, names[d]) = AsZone(zones, z)
    <3>1. a \in ZoneHits(zones, names[d])
      BY <2>1, <2>5 DEF AsZone
    <3> QED BY <3>1, <2>2, ZoneIsOther
  <2> QED BY <2>3, <2>4, <2>5
<1> QED BY <1>4, <1>6, <1>7

\* Then every match is in that season, and a dungeon its zone lists is matched
\* with the encounter it has there.
LEMMA PlacedInSeason ==
  ASSUME NEW n \in Seasons, NEW a \in Seasons, NEW names, RegistryOf(names, a),
         NEW basis, basis.zones = LiveZones(n), basis.authored = a, Telling(basis),
         NEW d \in DOMAIN MatchZones(LiveZones(n), names, NoZone).matched
  PROVE  LET match == MatchZones(LiveZones(n), names, NoZone).matched[d] IN
         /\ match.zone = a
         /\ d \in Listed[a] \cap Lineup[a] => <<a, d>> \in match.encounters
<1> DEFINE zones == LiveZones(n)
           m == MatchZones(zones, names, NoZone)
           hits == EncounterHits(zones, names[d])
<1>1. /\ SeasonZone(zones, names, NoZone) = a
      /\ \A c \in SettledFirst(zones, names) : FirstMatch(zones, names[c]).zone = a
      /\ SeasonsZone(a) \in zones
  BY SeasonTold
<1>2. \/ d \in SettledFirst(zones, names) /\ m.matched[d] = FirstMatch(zones, names[d])
      \/ d \in SettledSecond(zones, names, a) /\ m.matched[d] = SecondMatch(zones, names[d], a)
  BY <1>1, MatchIs
<1>3. ASSUME d \in Listed[a] \cap Lineup[a] PROVE <<a, <<a, d>>>> \in hits
  <2>1. names[d] = DungeonNames[d] /\ d \in Dungeons
    BY <1>3 DEF RegistryOf
  <2>2. DisplayName[d] \in names[d]
    BY <2>1 DEF DungeonNames
  <2> DEFINE e == [id |-> <<a, d>>, name |-> DisplayName[d]]
  <2>3. e \in SeasonsZone(a).encounters /\ SeasonsZone(a).id = a
    BY <1>3 DEF SeasonsZone
  <2>4. e.id = <<a, d>> /\ e.name \in names[d]
    BY <2>2
  <2> HIDE DEF e
  <2> QED BY <2>3, <2>4, <1>1 DEF EncounterHits
<1>4. CASE d \in SettledFirst(zones, names) /\ m.matched[d] = FirstMatch(zones, names[d])
  <2>1. m.matched[d].zone = a
    BY <1>4, <1>1
  <2>2. ASSUME d \in Listed[a] \cap Lineup[a] PROVE <<a, d>> \in m.matched[d].encounters
    <3>1. PICK h \in hits : hits = {h} /\ m.matched[d] = AsEncounter(h)
      BY <1>3, <1>4, <2>2, FirstIs
    <3>2. h = <<a, <<a, d>>>>
      BY <3>1, <1>3, <2>2
    <3> QED BY <3>1, <3>2 DEF AsEncounter
  <2> QED BY <2>1, <2>2
<1>5. CASE d \in SettledSecond(zones, names, a) /\ m.matched[d] = SecondMatch(zones, names[d], a)
  <2>1. \/ \E h \in hits : /\ h[1] = a /\ \A g \in hits : g[1] = a => g = h
                           /\ m.matched[d] = AsEncounter(h)
        \/ hits = {} /\ m.matched[d] = AsZone(zones, a)
    BY <1>5, SecondIs
  <2>2. CASE \E h \in hits : /\ h[1] = a /\ \A g \in hits : g[1] = a => g = h
                             /\ m.matched[d] = AsEncounter(h)
    <3>1. PICK h \in hits : /\ h[1] = a /\ \A g \in hits : g[1] = a => g = h
                            /\ m.matched[d] = AsEncounter(h)
      BY <2>2
    <3>2. m.matched[d].zone = a /\ m.matched[d].encounters = {h[2]}
      BY <3>1 DEF AsEncounter
    <3>3. ASSUME d \in Listed[a] \cap Lineup[a] PROVE <<a, d>> = h[2]
      <4>1. <<a, <<a, d>>>> = h
        BY <3>1, <3>3, <1>3
      <4> QED BY <4>1
    <3> QED BY <3>2, <3>3
  <2>3. CASE hits = {} /\ m.matched[d] = AsZone(zones, a)
    <3>1. m.matched[d].zone = a
      BY <2>3 DEF AsZone
    <3> QED BY <3>1, <2>3, <1>3
  <2> QED BY <2>1, <2>2, <2>3
<1> QED BY <1>2, <1>4, <1>5

(***************************************************************************)
(* The inductive invariant of the catalogue.                               *)
(***************************************************************************)
\* What is in an overlay is of its dungeons; and if it was made from a zone
\* list that tells the season, with none pinned, of that season.
OverlayInv(o) ==
  /\ DOMAIN o.entries \subseteq Dungeons
  /\ o.basis.authored \in Seasons
  /\ \A d \in DOMAIN o.entries : \A x \in o.entries[d].encounters : OfDungeon(x, d)
  /\ ~o.basis.pinned /\ Telling(o.basis) =>
       \A d \in DOMAIN o.entries :
         LET a == o.basis.authored IN
         /\ o.entries[d].zone = a
         /\ d \in Listed[a] \cap Lineup[a] => <<a, d>> \in o.entries[d].encounters

CatalogInv ==
  /\ opened \in Seasons /\ authored \in 1 .. opened
  /\ \A r \in Requests : answers[r] = NoAnswer \/ \E s \in Seasons : answers[r] = LiveZones(s)
  /\ DOMAIN answers = Requests
  /\ overlay # NoOverlay => OverlayInv(overlay)

\* The season described is one, and its line-up is configured.
LEMMA AuthoredIsSeason ==
  ASSUME CatalogInv
  PROVE  authored \in Seasons /\ Lineup[authored] \subseteq Dungeons
<1>1. authored \in Seasons
  BY SeasonsNumbered DEF CatalogInv
<1> QED BY <1>1 DEF Dungeons

\* What the merge makes of the two files.
LEMMA RegistryIs ==
  ASSUME CatalogInv
  PROVE  /\ RegistryOf(Registry.names, authored)
         /\ DOMAIN Registry.names = Lineup[authored] \cup DOMAIN Entries
         /\ DOMAIN Entries \subseteq Dungeons
         /\ \A d \in DOMAIN Registry.names :
              /\ Registry.encounters[d] = IF d \in DOMAIN Entries THEN Entries[d].encounters ELSE {}
              /\ \A x \in Registry.encounters[d] : OfDungeon(x, d)
<1>1. DOMAIN Entries \subseteq Dungeons
  BY DEF Entries, CatalogInv, OverlayInv
<1>2. \A d \in DOMAIN Entries : \A x \in Entries[d].encounters : OfDungeon(x, d)
  BY DEF Entries, CatalogInv, OverlayInv
<1>3. /\ Registry.names = [d \in Lineup[authored] \cup DOMAIN Entries |->
                             IF d \in Lineup[authored] THEN DungeonNames[d] ELSE {}]
      /\ Registry.encounters = [d \in Lineup[authored] \cup DOMAIN Entries |->
                                  IF d \in DOMAIN Entries THEN Entries[d].encounters ELSE {}]
  BY DEF Registry
<1>4. Lineup[authored] \subseteq Dungeons
  BY AuthoredIsSeason
<1>5. /\ DOMAIN Registry.names = Lineup[authored] \cup DOMAIN Entries
      /\ \A d \in DOMAIN Registry.names :
           Registry.encounters[d] = IF d \in DOMAIN Entries THEN Entries[d].encounters ELSE {}
  BY <1>3
<1>6. RegistryOf(Registry.names, authored)
  BY <1>1, <1>3, <1>4 DEF RegistryOf
<1>7. \A d \in DOMAIN Registry.names : \A x \in Registry.encounters[d] : OfDungeon(x, d)
  BY <1>2, <1>5
<1> QED BY <1>1, <1>5, <1>6, <1>7

\* A list that is answered is one that was live.
LEMMA ZonesFetched ==
  ASSUME CatalogInv, NEW r \in Requests
  PROVE  \E s \in Seasons : FetchZones(r) = LiveZones(s)
BY DEF CatalogInv, FetchZones

\* The overlay that a discovery writes.
LEMMA OverlayMade ==
  ASSUME CatalogInv, NEW n \in Seasons, NEW basis,
         basis.zones = LiveZones(n), basis.authored = authored,
         basis.pinned = (Registry.pinned # NoZone)
  PROVE  OverlayInv(BuildOverlay(MatchZones(LiveZones(n), Registry.names, Registry.pinned), basis))
<1> DEFINE names == Registry.names
           pinned == Registry.pinned
           m == MatchZones(LiveZones(n), names, pinned)
           o == BuildOverlay(m, basis)
<1>1. o.entries = m.matched /\ o.basis = basis
  BY DEF BuildOverlay
<1>2. RegistryOf(names, authored)
  BY RegistryIs
<1>3. authored \in Seasons
  BY AuthoredIsSeason
<1>4. Calls(names)
  BY <1>2 DEF RegistryOf, Calls
<1>5. DOMAIN m.matched \subseteq Dungeons
  BY <1>2, MatchIs DEF RegistryOf
<1>6. \A d \in DOMAIN m.matched : \A x \in m.matched[d].encounters : OfDungeon(x, d)
  BY <1>4, MatchedIsOwn
<1>7. ASSUME ~basis.pinned, Telling(basis), NEW d \in DOMAIN m.matched
      PROVE  /\ m.matched[d].zone = authored
             /\ d \in Listed[authored] \cap Lineup[authored] =>
                  <<authored, d>> \in m.matched[d].encounters
  <2>1. pinned = NoZone
    BY <1>7
  <2> HIDE DEF pinned, names
  <2> QED BY <2>1, <1>2, <1>3, <1>7, PlacedInSeason
<1>8. OverlayInv(o)
  <2> HIDE DEF o, m
  <2> QED BY <1>1, <1>3, <1>5, <1>6, <1>7 DEF OverlayInv
<1> QED BY <1>8

\* Every step of the catalogue.
LEMMA CatalogStep == CatalogInv /\ [CatalogNext]_catalogVars => CatalogInv'
<1> SUFFICES ASSUME CatalogInv, [CatalogNext]_catalogVars PROVE CatalogInv'
  OBVIOUS
<1>1. CASE SeasonOpens
  BY <1>1, SeasonsNumbered DEF SeasonOpens, CatalogInv
<1>2. CASE AuthorSeason
  BY <1>2, SeasonsNumbered DEF AuthorSeason, CatalogInv
<1>3. CASE DeleteOverlay
  BY <1>3 DEF DeleteOverlay, CatalogInv
<1>4. CASE EmptyCache
  BY <1>4 DEF EmptyCache, CatalogInv
<1>5. ASSUME NEW r \in Requests, DiscoverDungeons(r) PROVE CatalogInv'
  <2> DEFINE zones == FetchZones(r)
             result == MatchZones(zones, Registry.names, Registry.pinned)
             basis == [zones |-> zones, authored |-> authored, pinned |-> Registry.pinned # NoZone]
  <2>1. /\ answers' = [answers EXCEPT ![r] = zones]
        /\ overlay' = overlay \/ overlay' = BuildOverlay(result, basis)
        /\ opened' = opened /\ authored' = authored
    BY <1>5 DEF DiscoverDungeons
  <2>2. PICK n \in Seasons : zones = LiveZones(n)
    BY ZonesFetched
  <2>3. OverlayInv(BuildOverlay(result, basis))
    <3>1. basis.zones = LiveZones(n) /\ basis.authored = authored /\ basis.pinned = (Registry.pinned # NoZone)
      BY <2>2
    <3> HIDE DEF basis
    <3> QED BY <3>1, <2>2, OverlayMade
  <2> HIDE DEF zones, result, basis
  <2>4. \A q \in Requests : answers'[q] = NoAnswer \/ \E s \in Seasons : answers'[q] = LiveZones(s)
    BY <2>1, <2>2 DEF CatalogInv
  <2>5. DOMAIN answers' = Requests
    BY <2>1 DEF CatalogInv
  <2>6. overlay' # NoOverlay => OverlayInv(overlay')
    BY <2>1, <2>3 DEF CatalogInv
  <2> QED BY <2>1, <2>4, <2>5, <2>6 DEF CatalogInv
<1>6. CASE UNCHANGED catalogVars
  BY <1>6 DEF catalogVars, CatalogInv
<1> QED BY <1>1, <1>2, <1>3, <1>4, <1>5, <1>6 DEF CatalogNext

\* A fight is taken for its own dungeon, and for that only is it selected.
LEMMA TakenForItself ==
  ASSUME CatalogInv, NEW s \in Seasons, NEW d \in Lineup[s]
  PROVE  /\ ResolveDungeon(FightIn(s, d)) \subseteq {d}
         /\ \A w \in DOMAIN Registry.names : Selected(FightIn(s, d), w) => w = d
<1> DEFINE fight == FightIn(s, d)
<1>1. fight.encounter = <<s, d>> /\ fight.called = DisplayName[d] /\ d \in Dungeons
  BY DEF FightIn, Dungeons
<1> HIDE DEF fight
<1>2. /\ RegistryOf(Registry.names, authored)
      /\ \A c \in DOMAIN Registry.names : \A x \in Registry.encounters[c] : OfDungeon(x, c)
  BY RegistryIs
<1>3. ASSUME NEW c \in DOMAIN Registry.names, fight.encounter \in Registry.encounters[c]
      PROVE  c = d
  BY <1>1, <1>2, <1>3 DEF OfDungeon
<1>4. ASSUME NEW c \in Dungeons, DisplayName[d] \in DungeonNames[c]
      PROVE  c = d
  BY <1>4, CatalogAssumption
<1>5. ASSUME NEW c \in DOMAIN Registry.names, fight.called \in Registry.names[c]
      PROVE  c = d
  <2>1. c \in Dungeons /\ fight.called \in DungeonNames[c]
    BY <1>2, <1>5 DEF RegistryOf
  <2> QED BY <2>1, <1>1, <1>4
<1>6. ASSUME NEW w \in DOMAIN Registry.names, Selected(fight, w) PROVE w = d
  <2>1. CASE Registry.encounters[w] # {}
    BY <2>1, <1>3, <1>6 DEF Selected
  <2>2. CASE Registry.encounters[w] = {}
    <3>1. w \in Lineup[authored] /\ fight.called = DisplayName[w]
      BY <2>2, <1>6 DEF Selected
    <3>2. w \in Dungeons
      BY <1>2 DEF RegistryOf
    <3>3. DisplayName[d] \in DungeonNames[w]
      BY <3>1, <3>2, <1>1 DEF DungeonNames
    <3> QED BY <3>2, <3>3, <1>4
  <2> QED BY <2>1, <2>2
<1>7. ResolveDungeon(fight) \subseteq {d}
  BY <1>3, <1>5, Zenon DEF ResolveDungeon
<1> QED BY <1>6, <1>7 DEF fight

\* The invariant gives the property.
LEMMA CatalogRight == CatalogInv => SeasonInferredRight
<1> SUFFICES ASSUME CatalogInv PROVE SeasonInferredRight
  OBVIOUS
<1>1. ASSUME overlay # NoOverlay, ~overlay.basis.pinned, Telling(overlay.basis)
      PROVE  InItsSeason(overlay)
  BY <1>1 DEF CatalogInv, OverlayInv, InItsSeason
<1>2. ASSUME overlay # NoOverlay, ~overlay.basis.pinned, Telling(overlay.basis),
             authored = overlay.basis.authored, NEW d \in Listed[authored] \cap Lineup[authored]
      PROVE  Selected(FightIn(authored, d), d)
  <2>1. Entries = overlay.entries
    BY <1>2 DEF Entries
  <2>2. d \in DOMAIN Entries => <<authored, d>> \in Entries[d].encounters
    BY <1>2, <2>1 DEF CatalogInv, OverlayInv
  <2>3. /\ d \in DOMAIN Registry.names
        /\ Registry.encounters[d] = IF d \in DOMAIN Entries THEN Entries[d].encounters ELSE {}
    BY <1>2, RegistryIs
  <2>4. FightIn(authored, d).encounter = <<authored, d>> /\ FightIn(authored, d).called = DisplayName[d]
    BY DEF FightIn
  <2> QED BY <2>2, <2>3, <2>4, <1>2 DEF Selected
<1>3. ASSUME NEW s \in 1 .. opened, NEW d \in Lineup[s]
      PROVE  /\ ResolveDungeon(FightIn(s, d)) \subseteq {d}
             /\ \A w \in DOMAIN Registry.names : Selected(FightIn(s, d), w) => w = d
  <2>1. s \in Seasons
    BY SeasonsNumbered DEF CatalogInv
  <2> QED BY <2>1, TakenForItself
<1> QED BY <1>1, <1>2, <1>3 DEF SeasonInferredRight

\* Discovery of dungeons (discover.py) and what collect makes of its result,
\* over any seasons, zone lists, overlays and caches.
THEOREM SeasonPlaced == CatalogSpec => []SeasonInferredRight
<1>1. CatalogInit => CatalogInv
  BY SeasonsNumbered DEF CatalogInit, CatalogInv
<1> QED BY <1>1, CatalogRight, CatalogStep, PTL DEF CatalogSpec
=============================================================================
