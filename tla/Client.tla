------------------------------- MODULE Client -------------------------------
(***************************************************************************)
(* GraphQLClient (client.py) with the limiter it asks before each request  *)
(* (ratelimit.py), its access token (auth.py) and its raw cache            *)
(* (rawcache.py), against a server that meters points by the window, that  *)
(* may refuse, stall, break or answer anything at any request, and that    *)
(* may tell the client how long to hold off.                               *)
(*                                                                         *)
(* Time is not a number but what is left of each interval: every step that *)
(* takes time lets all of them run down.                                   *)
(***************************************************************************)
EXTENDS Integers

CONSTANTS
  Kinds, Documents,  \* a query is a document under the name of its kind
  Limit,             \* limitPerHour; every request costs a point
  Window,            \* length of the server's window
  Reserve,           \* min_points_reserve
  DefaultWait,       \* the wait for a window of unknown length
  MaxRetries,        \* max_retries
  MaxBackoff,        \* max_backoff
  HoldCap,           \* the longest Retry-After a backoff waits for
  Holds,             \* the Retry-After values considered
  Lifetime, Margin,  \* of a token
  Transit,           \* bound: how long a message is under way
  None

Max2(a, b) == IF a > b THEN a ELSE b
Less(a, d) == Max2(a - d, 0)

ASSUME ClientAssumption ==
  /\ {Limit, Window, Reserve, DefaultWait, MaxRetries, MaxBackoff, Lifetime} \subseteq Nat \ {0}
  /\ {HoldCap, Margin, Transit} \subseteq Nat /\ Holds \subseteq Nat
  /\ Reserve <= Limit
  /\ 2 * Transit <= Margin /\ 2 * Transit < Lifetime
  /\ None \notin Nat \cup Documents /\ "rate_limit" \notin Kinds

VARIABLES
  server,   \* left: of its window; spent: points in it; demanded: of the
            \*   hold it asked this process for; sameWindow: whether this is
            \*   the window this process last read the whole budget in
  limiter,  \* known, remaining, reset: the last reading; age: time since;
            \*   hold: until _hold_until
  token,    \* left: until expires_at; life: until the server forgets it;
            \*   revoked: whether the server already has
  cache,    \* the document each entry answers, or None
  pc,       \* where execute is
  call,     \* the query it executes
  attempt,  \* attempts begun
  retryAfter, \* of the failure being backed off from
  result    \* what the last call returned or raised

vars == <<server, limiter, token, cache, pc, call, attempt, retryAfter, result>>

\* The budget query is the only one that is not cached and does not wait.
Queries == [kind: Kinds, doc: Documents]
Budget == [kind |-> "rate_limit", doc |-> "RATE_LIMIT_QUERY"]
Waits(q) == q # Budget

\* Not the code: an entry is known by the name of its query alone.
EntryOfKind(q) == q.kind

\* The text of the query is part of the key, not only its kind.
Entry(q) == <<q.kind, q.doc>>

Entries == {Entry(q) : q \in Queries}

(***************************************************************************)
(* The passing of time.                                                    *)
(***************************************************************************)
ServerAfter(d) ==
  IF d < server.left
  THEN [server EXCEPT !.left = @ - d, !.demanded = Less(@, d)]
  ELSE [left |-> Window - ((d - server.left) % Window), spent |-> 0,
        demanded |-> Less(server.demanded, d), sameWindow |-> FALSE]

LimiterAfter(d) ==
  [limiter EXCEPT !.age = IF @ + d < Window THEN @ + d ELSE Window, !.hold = Less(@, d)]

TokenAfter(d) == [token EXCEPT !.left = Less(@, d), !.life = Less(@, d)]

Passes(d) == server' = ServerAfter(d) /\ limiter' = LimiterAfter(d) /\ token' = TokenAfter(d)

\* time.sleep(d) sleeps d, or a little longer.
Sleeps(d) == \E late \in {0, 1} : Passes(d + late)

-----------------------------------------------------------------------------
NoReading == [known |-> FALSE, remaining |-> 0, reset |-> None, age |-> Window, hold |-> 0]
NoResult == [answers |-> None, raised |-> None]
NoToken == [left |-> 0, life |-> 0, revoked |-> FALSE]

Init ==
  /\ server \in [left: 1 .. Window, spent: 0 .. Limit, demanded: {0}, sameWindow: {FALSE}]
  /\ limiter = NoReading /\ token = NoToken
  /\ cache = [c \in Entries |-> None]
  /\ pc = "idle" /\ call = Budget /\ attempt = 0 /\ retryAfter = None /\ result = NoResult

\* execute returns or raises; its locals are gone.
Ends(r) == pc' = "idle" /\ result' = r /\ attempt' = 0 /\ retryAfter' = None
Answers(q) == Ends([answers |-> q, raised |-> None])
Fails(error) == Ends([answers |-> None, raised |-> error])
Raises(error) == Fails(error) /\ UNCHANGED <<cache, call>>

(***************************************************************************)
(* The caller asks for what it likes, or does something else for a while.  *)
(***************************************************************************)
CallerWorks ==
  /\ pc = "idle"
  /\ Passes(1)
  /\ UNCHANGED <<cache, pc, call, attempt, retryAfter, result>>

CacheHit(q) ==
  /\ pc = "idle" /\ cache[Entry(q)] # None
  /\ call' = q
  /\ Answers(cache[Entry(q)])
  /\ UNCHANGED <<server, limiter, token, cache>>

Execute(q) ==
  /\ pc = "idle"
  /\ q # Budget => cache[Entry(q)] = None
  /\ call' = q /\ attempt' = 1 /\ pc' = "acquire" /\ result' = NoResult
  /\ UNCHANGED <<server, limiter, token, cache, retryAfter>>

(***************************************************************************)
(* RateLimiter.acquire: one wait, of what is missing to the hold or else   *)
(* to the end of a window that has too few points left.                    *)
(***************************************************************************)
\* Not the code: the reserve is not kept.
BudgetWaitToTheLastPoint ==
  CASE limiter.hold > 0 -> limiter.hold
    [] limiter.hold = 0 /\ (~limiter.known \/ limiter.remaining > 0) -> 0
    [] OTHER -> IF limiter.reset = None THEN DefaultWait
                ELSE Less(limiter.reset, limiter.age) + 1

BudgetWait ==
  CASE limiter.hold > 0 -> limiter.hold
    [] limiter.hold = 0 /\ (~limiter.known \/ limiter.remaining >= Reserve) -> 0
    [] OTHER -> IF limiter.reset = None THEN DefaultWait
                ELSE Less(limiter.reset, limiter.age) + 1

AcquireAtOnce ==
  /\ pc = "acquire" /\ BudgetWait = 0
  /\ pc' = "token"
  /\ UNCHANGED <<server, limiter, token, cache, call, attempt, retryAfter, result>>

AcquireSleeps ==
  /\ pc = "acquire" /\ BudgetWait > 0 /\ Waits(call)
  /\ Sleeps(BudgetWait)
  /\ pc' = "token"
  /\ UNCHANGED <<cache, call, attempt, retryAfter, result>>

QuotaExhausted ==
  /\ pc = "acquire" /\ BudgetWait > 0 /\ ~Waits(call)
  /\ Raises("QuotaExhausted")
  /\ UNCHANGED <<server, limiter, token>>

(***************************************************************************)
(* TokenProvider.auth_header.  The server counts the life of a token from  *)
(* when it sends it, the client from when it gets it.                      *)
(***************************************************************************)
\* Not the code: a token is used until it expires.
ExpiredAtExpiry == token.left = 0

Expired == token.left <= Margin

Fetched(d) ==
  /\ server' = ServerAfter(d) /\ limiter' = LimiterAfter(d)
  /\ token' = [left |-> Lifetime, life |-> Lifetime - d, revoked |-> FALSE]

UseToken ==
  /\ pc = "token" /\ ~Expired
  /\ pc' = "sent"
  /\ UNCHANGED <<server, limiter, token, cache, call, attempt, retryAfter, result>>

FetchToken ==
  /\ pc = "token" /\ Expired
  /\ \E d \in 0 .. Transit : Fetched(d)
  /\ pc' = "sent"
  /\ UNCHANGED <<cache, call, attempt, retryAfter, result>>

\* AuthError, at this place or when a refresh is forced: it is not retried.
TokenRefused ==
  /\ \/ pc = "token" /\ Expired
     \/ pc = "refresh"
  /\ Raises("AuthError")
  /\ UNCHANGED <<server, limiter, token>>

\* The server may forget a token before its time.
Revoke ==
  /\ token.life > 0
  /\ token' = [token EXCEPT !.life = 0, !.revoked = TRUE]
  /\ UNCHANGED <<server, limiter, cache, pc, call, attempt, retryAfter, result>>

(***************************************************************************)
(* The request reaches the server after d, and is answered: a server that  *)
(* knows the token and has points left answers what it was asked, or does  *)
(* not.                                                                    *)
(***************************************************************************)
Reaches(d) == pc = "sent" /\ d \in 0 .. Transit
Accepted(d) == Reaches(d) /\ TokenAfter(d).life > 0

\* A reading of the budget, complete or not.
Readings(s) ==
  {[known |-> TRUE, remaining |-> Limit - s.spent, reset |-> r, age |-> 0, hold |-> 0] :
     r \in {s.left, None}} \cup {NoReading}

\* The server does the work, and has the points.
Charged(d) == ServerAfter(d).spent < Limit

Charge(d) == [ServerAfter(d) EXCEPT !.spent = @ + 1]

AnswerQuery(d) ==
  /\ Accepted(d) /\ Charged(d) /\ call # Budget
  /\ server' = Charge(d) /\ limiter' = LimiterAfter(d) /\ token' = TokenAfter(d)
  /\ pc' = "put"
  /\ UNCHANGED <<cache, call, attempt, retryAfter, result>>

\* fetch_rate_limit: the reading replaces the one before it, the hold stays.
AnswerBudget(d) ==
  /\ Accepted(d) /\ Charged(d) /\ call = Budget
  /\ \E reading \in Readings(Charge(d)) :
       /\ limiter' = [reading EXCEPT !.hold = LimiterAfter(d).hold]
       /\ server' = [Charge(d) EXCEPT !.sameWindow = reading.reset # None]
  /\ token' = TokenAfter(d)
  /\ Answers(Budget) /\ UNCHANGED <<cache, call>>

\* Errors in the answer, HTTP 403 or a status nobody expects: raised at once.
RejectQuery(d) ==
  /\ Accepted(d)
  /\ server' \in {ServerAfter(d)} \cup {s \in {Charge(d)} : Charged(d)}
  /\ limiter' = LimiterAfter(d) /\ token' = TokenAfter(d)
  /\ Raises("ApiError")

\* Not the code: one attempt too many.
BackoffOrRaiseLate(r) ==
  \/ /\ attempt <= MaxRetries
     /\ pc' = "backoff" /\ retryAfter' = r
     /\ UNCHANGED <<attempt, result>>
  \/ /\ attempt > MaxRetries
     /\ Fails("TransientApiError")

\* The end of an attempt that may be repeated.
BackoffOrRaise(r) ==
  \/ /\ attempt < MaxRetries
     /\ pc' = "backoff" /\ retryAfter' = r
     /\ UNCHANGED <<attempt, result>>
  \/ /\ attempt >= MaxRetries
     /\ Fails("TransientApiError")

\* A timeout, a lost connection, HTTP 5xx, a body that is not JSON: whether
\* the server did the work cannot be known.
FailInTransit(d) ==
  /\ Reaches(d)
  /\ server' \in {ServerAfter(d)} \cup {s \in {Charge(d)} : Charged(d)}
  /\ limiter' = LimiterAfter(d) /\ token' = TokenAfter(d)
  /\ BackoffOrRaise(None)
  /\ UNCHANGED <<cache, call>>

\* HTTP 401, and the refresh that it forces.
Unauthorized(d) ==
  /\ Reaches(d) /\ TokenAfter(d).life = 0
  /\ Passes(d)
  /\ pc' = "refresh"
  /\ UNCHANGED <<cache, call, attempt, retryAfter, result>>

RefreshToken ==
  /\ pc = "refresh"
  /\ \E d \in 0 .. Transit : Fetched(d)
  /\ BackoffOrRaise(None)
  /\ UNCHANGED <<cache, call>>

\* Not the code: the hold is left to the backoff.
NoteRetryAfterInBackoff(l, r) == l

NoteRetryAfter(l, r) == [l EXCEPT !.hold = IF r = None THEN @ ELSE Max2(@, r)]

\* HTTP 429, when the points are spent or whenever the server likes; with a
\* Retry-After of seconds, or without one that can be read.
RateLimited(d, r) ==
  /\ Reaches(d)
  /\ server' = [ServerAfter(d) EXCEPT !.demanded = IF r = None THEN @ ELSE Max2(@, r)]
  /\ limiter' = NoteRetryAfter(LimiterAfter(d), r)
  /\ token' = TokenAfter(d)
  /\ BackoffOrRaise(r)
  /\ UNCHANGED <<cache, call>>

\* backoff_seconds: Retry-After to a limit, or else exponentially.
Backoffs ==
  IF retryAfter # None
  THEN {IF retryAfter < HoldCap THEN retryAfter ELSE HoldCap}
  ELSE LET raw == 2 ^ Less(attempt, 1) IN
       {d \in 1 .. MaxBackoff : d = raw \/ (d = MaxBackoff /\ raw > d)}

\* Not the code: the retry is not counted as an attempt.
BackoffUncounted ==
  /\ pc = "backoff"
  /\ \E d \in Backoffs : Sleeps(d)
  /\ pc' = "acquire" /\ retryAfter' = None
  /\ UNCHANGED <<cache, call, attempt, result>>

Backoff ==
  /\ pc = "backoff"
  /\ \E d \in Backoffs : Sleeps(d)
  /\ pc' = "acquire" /\ attempt' = attempt + 1 /\ retryAfter' = None
  /\ UNCHANGED <<cache, call, result>>

(***************************************************************************)
(* RawCache.put renames a complete file into place; then execute returns.  *)
(***************************************************************************)
Put ==
  /\ pc = "put"
  /\ cache' = [cache EXCEPT ![Entry(call)] = call]
  /\ Answers(call)
  /\ UNCHANGED <<server, limiter, token, call>>

\* Another process takes over: it has the cache, and nothing else.
Restart ==
  /\ server' = [server EXCEPT !.demanded = 0, !.sameWindow = FALSE]
  /\ limiter' = NoReading /\ token' = NoToken
  /\ pc' = "idle" /\ call' = Budget /\ attempt' = 0 /\ retryAfter' = None
  /\ result' = NoResult
  /\ UNCHANGED cache

-----------------------------------------------------------------------------
Respond ==
  \E d \in 0 .. Transit :
    \/ AnswerQuery(d) \/ AnswerBudget(d) \/ RejectQuery(d) \/ FailInTransit(d)
    \/ Unauthorized(d)
    \/ \E r \in Holds \cup {None} : RateLimited(d, r)

Work ==
  \/ AcquireAtOnce \/ AcquireSleeps \/ QuotaExhausted
  \/ UseToken \/ FetchToken \/ TokenRefused \/ RefreshToken
  \/ Respond \/ Backoff \/ Put

Ask == (\E q \in Queries : CacheHit(q)) \/ (\E q \in Queries \cup {Budget} : Execute(q))

Next == Work \/ Ask \/ CallerWorks \/ Revoke \/ Restart

Spec == Init /\ [][Next]_vars

\* httpx times out whatever does not answer, and a sleep ends.
FairSpec == Spec /\ WF_vars(Work)

-----------------------------------------------------------------------------
(***************************************************************************)
(* Properties.                                                             *)
(***************************************************************************)
\* Every variable holds a value the code could store in it.
TypeOK ==
  /\ server \in [left: 1 .. Window, spent: 0 .. Limit, demanded: Nat,
                 sameWindow: BOOLEAN]
  /\ limiter \in [known: BOOLEAN, remaining: 0 .. Limit, reset: {None} \cup 1 .. Window,
                  age: 0 .. Window, hold: Nat]
  /\ token \in [left: 0 .. Lifetime, life: 0 .. Lifetime, revoked: BOOLEAN]
  /\ cache \in [Entries -> Queries \cup {None}]
  /\ pc \in {"idle", "acquire", "token", "sent", "refresh", "backoff", "put"}
  /\ call \in Queries \cup {Budget}
  /\ attempt \in 0 .. MaxRetries /\ retryAfter \in Holds \cup {None}

Sends == pc = "token" /\ pc' = "sent"

(***************************************************************************)
(* The server is obeyed: nothing is sent before the time it asked for has  *)
(* passed, not by the retry, whose backoff stops at an hour, and not by    *)
(* the next call, after the attempts of this one are spent.                *)
(***************************************************************************)
RetryAfterHonoured == [][Sends => server.demanded = 0]_vars

(***************************************************************************)
(* The reserve as far as the limiter knows: it lets a call pass without a  *)
(* hold only if the budget it read had the reserve, or the window it read  *)
(* it in is over.                                                          *)
(***************************************************************************)
ShortOfReserve == limiter.known /\ limiter.remaining < Reserve /\ limiter.reset # None

BudgetWaitHonoured ==
  [][pc = "acquire" /\ pc' = "token" /\ limiter.hold = 0 /\ ShortOfReserve
       => ~server'.sameWindow]_vars

(***************************************************************************)
(* No request arrives with a token that ran out on the way: a 401 means    *)
(* that the server took the token back.                                    *)
(***************************************************************************)
NoTokenRunsOut == [][pc = "sent" /\ pc' = "refresh" => token.revoked]_vars

(***************************************************************************)
(* Whatever execute returns answers the document it was given, though      *)
(* other documents went by the same name, in this process or an earlier    *)
(* one.                                                                    *)
(***************************************************************************)
AnswersTheQuestion ==
  pc = "idle" /\ result.answers # None => result.answers = call

\* Every call returns or raises, whatever the server does.
EveryCallEnds == [](pc # "idle" => <>(pc = "idle"))

(***************************************************************************)
(* What ratelimit.py sets out to do: once a process has read the budget,   *)
(* it does not go below the reserve in that window.                        *)
(***************************************************************************)
ReserveKept ==
  [][Sends /\ call # Budget /\ server.sameWindow => Limit - server.spent >= Reserve]_vars
=============================================================================
