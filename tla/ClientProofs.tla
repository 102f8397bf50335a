---------------------------- MODULE ClientProofs ----------------------------
(***************************************************************************)
(* What Client promises for every window, reserve, token lifetime and      *)
(* number of attempts.                                                     *)
(***************************************************************************)
EXTENDS Client, TLAPS

(***************************************************************************)
(* The passing of time keeps types.                                        *)
(***************************************************************************)
ServerType == [left: 1 .. Window, spent: 0 .. Limit, demanded: Nat, sameWindow: BOOLEAN]
LimiterType == [known: BOOLEAN, remaining: 0 .. Limit, reset: {None} \cup 1 .. Window,
                age: 0 .. Window, hold: Nat]
TokenType == [left: 0 .. Lifetime, life: 0 .. Lifetime, revoked: BOOLEAN]

\* What is left of an interval is a number, and no more than there was.
LEMMA LessType ==
  \A a, d \in Nat : /\ Less(a, d) \in 0 .. a /\ Less(a, d) \in Nat
                    /\ Less(a, d) = IF a > d THEN a - d ELSE 0
BY DEF Less, Max2

\* A remainder is less than what it was divided by.
LEMMA RemainderBounds == \A a \in Nat, b \in Nat \ {0} : a % b \in 0 .. b - 1
OBVIOUS

\* The server's side: its window runs down or is another one.
LEMMA ServerAfterType ==
  ASSUME server \in ServerType, NEW d \in Nat
  PROVE  /\ ServerAfter(d) \in ServerType
         /\ ServerAfter(d).demanded = Less(server.demanded, d)
         /\ d < server.left => /\ ServerAfter(d).left = server.left - d
                               /\ ServerAfter(d).sameWindow = server.sameWindow
         /\ d >= server.left => ~ServerAfter(d).sameWindow
<1>0. /\ server.left \in 1 .. Window /\ server.spent \in 0 .. Limit
      /\ server.demanded \in Nat /\ server.sameWindow \in BOOLEAN
      /\ server = [left |-> server.left, spent |-> server.spent,
                   demanded |-> server.demanded, sameWindow |-> server.sameWindow]
  BY DEF ServerType
<1>1. Less(server.demanded, d) \in Nat
  BY <1>0, LessType
<1>2. CASE d < server.left
  <2>1. ServerAfter(d) = [left |-> server.left - d, spent |-> server.spent,
                          demanded |-> Less(server.demanded, d), sameWindow |-> server.sameWindow]
    BY <1>0, <1>2 DEF ServerAfter
  <2>2. server.left - d \in 1 .. Window
    BY <1>0, <1>2, ClientAssumption
  <2>3. ServerAfter(d) \in ServerType
    BY <1>0, <1>1, <2>1, <2>2 DEF ServerType
  <2> QED BY <1>0, <1>2, <2>1, <2>3
<1>3. CASE d >= server.left
  <2>0. d - server.left \in Nat /\ Window \in Nat \ {0} /\ 0 \in 0 .. Limit
    BY <1>0, <1>3, ClientAssumption
  <2>1. (d - server.left) % Window \in 0 .. Window - 1
    BY <2>0, RemainderBounds
  <2>2. Window - ((d - server.left) % Window) \in 1 .. Window
    BY <2>1, ClientAssumption
  <2>3. ServerAfter(d) = [left |-> Window - ((d - server.left) % Window), spent |-> 0,
                          demanded |-> Less(server.demanded, d), sameWindow |-> FALSE]
    BY <1>0, <1>3 DEF ServerAfter
  <2>4. ServerAfter(d) \in ServerType
    BY <1>1, <2>0, <2>2, <2>3 DEF ServerType
  <2>5. ServerAfter(d).demanded = Less(server.demanded, d) /\ ~ServerAfter(d).sameWindow
    BY <2>3
  <2>6. ~(d < server.left)
    BY <1>0, <1>3
  <2> QED BY <2>4, <2>5, <2>6
<1> QED BY <1>0, <1>2, <1>3

\* The limiter's side: its hold runs down, and its reading ages.
LEMMA LimiterAfterType ==
  ASSUME limiter \in LimiterType, NEW d \in Nat
  PROVE  /\ LimiterAfter(d) \in LimiterType
         /\ LimiterAfter(d).hold = Less(limiter.hold, d)
         /\ LimiterAfter(d).age = IF limiter.age + d < Window THEN limiter.age + d ELSE Window
         /\ LimiterAfter(d).known = limiter.known
         /\ LimiterAfter(d).remaining = limiter.remaining
         /\ LimiterAfter(d).reset = limiter.reset
<1>0. /\ limiter.age \in 0 .. Window /\ limiter.hold \in Nat
      /\ limiter.remaining \in 0 .. Limit /\ limiter.reset \in {None} \cup 1 .. Window
  BY DEF LimiterType
<1>1. Less(limiter.hold, d) \in Nat
  BY <1>0, LessType
<1> DEFINE later == IF limiter.age + d < Window THEN limiter.age + d ELSE Window
<1>2. later \in 0 .. Window
  BY <1>0, ClientAssumption
<1>3. LimiterAfter(d) = [limiter EXCEPT !.age = later, !.hold = Less(limiter.hold, d)]
  BY DEF LimiterAfter
<1> HIDE DEF later
<1>4. LimiterAfter(d) \in LimiterType
  BY <1>1, <1>2, <1>3 DEF LimiterType
<1>5. /\ LimiterAfter(d).hold = Less(limiter.hold, d)
      /\ LimiterAfter(d).age = later
      /\ LimiterAfter(d).known = limiter.known
      /\ LimiterAfter(d).remaining = limiter.remaining
      /\ LimiterAfter(d).reset = limiter.reset
  BY <1>3 DEF LimiterType
<1> QED BY <1>4, <1>5 DEF later

\* The token's: it runs out on both sides, for the client and for the server.
LEMMA TokenAfterType ==
  ASSUME token \in TokenType, NEW d \in Nat
  PROVE  /\ TokenAfter(d) \in TokenType
         /\ TokenAfter(d).left = Less(token.left, d)
         /\ TokenAfter(d).life = Less(token.life, d)
         /\ TokenAfter(d).revoked = token.revoked
<1>1. Less(token.left, d) \in 0 .. token.left /\ Less(token.life, d) \in 0 .. token.life
  BY LessType, SMTT(30) DEF TokenType
<1>2. Less(token.left, d) \in 0 .. Lifetime /\ Less(token.life, d) \in 0 .. Lifetime
  <2>1. token.left \in 0 .. Lifetime /\ token.life \in 0 .. Lifetime /\ Lifetime \in Nat
    BY ClientAssumption DEF TokenType
  <2> QED BY <1>1, <2>1
<1>3. TokenAfter(d) = [token EXCEPT !.left = Less(token.left, d), !.life = Less(token.life, d)]
  BY DEF TokenAfter
<1> QED BY <1>2, <1>3 DEF TokenType

\* The limiter and the backoff wait for a length of time.
LEMMA WaitsAreNat ==
  ASSUME TypeOK
  PROVE  /\ Backoffs \subseteq Nat
         /\ BudgetWait \in Nat
         /\ limiter.hold > 0 => BudgetWait = limiter.hold
         /\ limiter.hold = 0 /\ ShortOfReserve =>
              BudgetWait = Less(limiter.reset, limiter.age) + 1
<1>1. Backoffs \subseteq Nat
  BY ClientAssumption DEF TypeOK, Backoffs
<1>2. limiter.reset # None => Less(limiter.reset, limiter.age) \in Nat
  BY LessType DEF TypeOK
<1> QED BY <1>1, <1>2, ClientAssumption DEF TypeOK, BudgetWait, ShortOfReserve

(***************************************************************************)
(* The inductive invariant.  Of time: the client's hold covers the         *)
(* server's; a reading and what is left of its window add up; a token      *)
(* lives at least as long as the client thinks, but for the way it came.   *)
(***************************************************************************)
TimeInv(s, l, t) ==
  /\ s \in ServerType /\ l \in LimiterType /\ t \in TokenType
  /\ s.demanded <= l.hold
  /\ s.sameWindow => l.reset # None /\ l.age + s.left = l.reset
  /\ ~t.revoked => t.left <= t.life + Transit

ControlType ==
  /\ cache \in [Entries -> Queries \cup {None}]
  /\ pc \in {"idle", "acquire", "token", "sent", "refresh", "backoff", "put"}
  /\ call \in Queries \cup {Budget}
  /\ attempt \in 0 .. MaxRetries /\ retryAfter \in Holds \cup {None}

\* Of control: no hold is pending once acquire returned, a request on its way
\* carries a token that outlives the way, and who backs off may try again.
Released ==
  /\ pc = "backoff" => attempt < MaxRetries
  /\ pc = "token" => server.demanded = 0
  /\ pc = "sent" /\ ~token.revoked => token.life > Transit

\* Of answers: every entry answers its own query, and so does the result.
AnswersFit ==
  /\ \A q \in Queries : cache[Entry(q)] \in {q, None}
  /\ result.answers \in {None, call}
  /\ pc = "put" => call \in Queries

IInv == TimeInv(server, limiter, token) /\ ControlType /\ Released /\ AnswersFit

\* The inductive invariant implies the type invariant.
LEMMA IInvIsTyped == IInv => TypeOK
BY DEF IInv, TimeInv, ControlType, TypeOK, ServerType, LimiterType, TokenType

\* What is left of two intervals keeps its order.
LEMMA LessMonotone ==
  \A a, b, c, d \in Nat : a <= b + c => Less(a, d) <= Less(b, d) + c
<1> SUFFICES ASSUME NEW a \in Nat, NEW b \in Nat, NEW c \in Nat, NEW d \in Nat, a <= b + c
             PROVE  Less(a, d) <= Less(b, d) + c
  OBVIOUS
<1>1. Less(a, d) = IF a > d THEN a - d ELSE 0
  BY LessType
<1>2. Less(b, d) = IF b > d THEN b - d ELSE 0
  BY LessType
<1> QED BY <1>1, <1>2

\* Time passes for all alike.
LEMMA TimePasses ==
  ASSUME TimeInv(server, limiter, token), NEW d \in Nat
  PROVE  TimeInv(ServerAfter(d), LimiterAfter(d), TokenAfter(d))
<1> USE DEF TimeInv
<1>1. /\ ServerAfter(d) \in ServerType /\ LimiterAfter(d) \in LimiterType
      /\ TokenAfter(d) \in TokenType
  BY ServerAfterType, LimiterAfterType, TokenAfterType
<1>2. ServerAfter(d).demanded <= LimiterAfter(d).hold
  <2>1. server.demanded \in Nat /\ limiter.hold \in Nat /\ server.demanded <= limiter.hold
    BY DEF ServerType, LimiterType
  <2>2. Less(server.demanded, d) <= Less(limiter.hold, d) + 0
    BY <2>1, LessMonotone
  <2>3. Less(server.demanded, d) <= Less(limiter.hold, d)
    BY <2>1, <2>2, LessType
  <2> QED BY <2>3, ServerAfterType, LimiterAfterType
<1>3. ServerAfter(d).sameWindow =>
        /\ LimiterAfter(d).reset # None
        /\ LimiterAfter(d).age + ServerAfter(d).left = LimiterAfter(d).reset
  <2> SUFFICES ASSUME ServerAfter(d).sameWindow
               PROVE  /\ LimiterAfter(d).reset # None
                      /\ LimiterAfter(d).age + ServerAfter(d).left = LimiterAfter(d).reset
    OBVIOUS
  <2>1. server.left \in 1 .. Window /\ limiter.age \in 0 .. Window /\ Window \in Nat
    BY ClientAssumption DEF ServerType, LimiterType
  <2>0. d >= server.left => ~ServerAfter(d).sameWindow
    BY ServerAfterType
  <2>2. d < server.left
    BY <2>0, <2>1
  <2>3. ServerAfter(d).left = server.left - d /\ server.sameWindow
    BY <2>2, ServerAfterType
  <2>4. limiter.reset \in 1 .. Window /\ limiter.age + server.left = limiter.reset
    BY <2>3 DEF LimiterType
  <2>5. limiter.age + d < Window
    BY <2>1, <2>2, <2>4
  <2>6. LimiterAfter(d).age = limiter.age + d /\ LimiterAfter(d).reset = limiter.reset
    BY <2>5, LimiterAfterType
  <2>7. limiter.reset # None
    BY <2>3
  <2> QED BY <2>1, <2>3, <2>4, <2>6, <2>7
<1>4. ~TokenAfter(d).revoked => TokenAfter(d).left <= TokenAfter(d).life + Transit
  <2>1. token.left \in Nat /\ token.life \in Nat /\ Transit \in Nat
    BY ClientAssumption DEF TokenType
  <2>2. token.left <= token.life + Transit =>
          Less(token.left, d) <= Less(token.life, d) + Transit
    BY <2>1, LessMonotone
  <2> QED BY <2>2, TokenAfterType
<1> QED BY <1>1, <1>2, <1>3, <1>4

\* A fetched token lives for its lifetime less the way it came.
LEMMA FetchPasses ==
  ASSUME TimeInv(server, limiter, token), NEW d \in 0 .. Transit, Fetched(d)
  PROVE  /\ TimeInv(server', limiter', token')
         /\ token'.life > Transit
         /\ server'.demanded = Less(server.demanded, d)
<1>1. d \in Nat /\ Transit \in Nat /\ Lifetime \in Nat /\ 2 * Transit < Lifetime /\ d <= Transit
  BY ClientAssumption
<1>2. TimeInv(ServerAfter(d), LimiterAfter(d), TokenAfter(d))
  BY <1>1, TimePasses
<1>3. token' = [left |-> Lifetime, life |-> Lifetime - d, revoked |-> FALSE]
  BY DEF Fetched
<1>4. token' \in TokenType /\ token'.left <= token'.life + Transit /\ token'.life > Transit
  <2>1. Lifetime - d \in 0 .. Lifetime /\ Lifetime \in 0 .. Lifetime
    BY <1>1
  <2>3. Lifetime - d > Transit
    BY <1>1
  <2>2. Lifetime <= Lifetime - d + Transit
    BY <1>1
  <2> QED BY <1>3, <2>1, <2>2, <2>3 DEF TokenType
<1>5. ServerAfter(d).demanded = Less(server.demanded, d)
  BY <1>1, ServerAfterType DEF TimeInv
<1> QED BY <1>2, <1>4, <1>5 DEF Fetched, TimeInv

\* Work that the server does is charged to the window it is in.
LEMMA ChargeKeeps ==
  ASSUME NEW d \in Nat, TimeInv(server, limiter, token), Charged(d)
  PROVE  /\ TimeInv(Charge(d), LimiterAfter(d), TokenAfter(d))
         /\ Charge(d) = [ServerAfter(d) EXCEPT !.spent = ServerAfter(d).spent + 1]
         /\ Charge(d).left = ServerAfter(d).left
         /\ Charge(d).demanded = ServerAfter(d).demanded
<1>1. TimeInv(ServerAfter(d), LimiterAfter(d), TokenAfter(d))
  BY TimePasses
<1>2. Charge(d) = [ServerAfter(d) EXCEPT !.spent = ServerAfter(d).spent + 1]
  BY DEF Charge
<1>3. ServerAfter(d) \in ServerType
  BY <1>1 DEF TimeInv
<1>4. ServerAfter(d).spent + 1 \in 0 .. Limit
  BY <1>3, ClientAssumption DEF Charged, ServerType
<1>5. /\ Charge(d) \in ServerType
      /\ Charge(d).left = ServerAfter(d).left
      /\ Charge(d).demanded = ServerAfter(d).demanded
      /\ Charge(d).sameWindow = ServerAfter(d).sameWindow
  BY <1>2, <1>3, <1>4 DEF ServerType
<1> QED BY <1>1, <1>2, <1>5 DEF TimeInv

\* An attempt ends with a retry or with the call.
LEMMA AttemptEnds ==
  ASSUME ControlType, AnswersFit, NEW r \in Holds \cup {None}, BackoffOrRaise(r),
         UNCHANGED <<cache, call>>
  PROVE  /\ ControlType' /\ AnswersFit'
         /\ pc' = "idle" \/ (pc' = "backoff" /\ attempt' < MaxRetries)
<1>1. 0 \in 0 .. MaxRetries
  BY ClientAssumption
<1>2. CASE /\ attempt < MaxRetries
           /\ pc' = "backoff" /\ retryAfter' = r /\ UNCHANGED <<attempt, result>>
  BY <1>2 DEF ControlType, AnswersFit
<1>3. CASE Fails("TransientApiError")
  <2>1. pc' = "idle" /\ attempt' = 0 /\ retryAfter' = None /\ result'.answers = None
    BY <1>3 DEF Fails, Ends
  <2> QED BY <1>1, <2>1 DEF ControlType, AnswersFit
<1> QED BY <1>2, <1>3 DEF BackoffOrRaise

\* An exception ends the call.
LEMMA RaiseEnds ==
  ASSUME ControlType, AnswersFit, NEW error, Raises(error)
  PROVE  ControlType' /\ AnswersFit' /\ pc' = "idle"
<1>1. pc' = "idle" /\ attempt' = 0 /\ retryAfter' = None /\ result'.answers = None
  BY DEF Raises, Fails, Ends
<1>2. UNCHANGED <<cache, call>>
  BY DEF Raises
<1>3. 0 \in 0 .. MaxRetries
  BY ClientAssumption
<1> QED BY <1>1, <1>2, <1>3 DEF ControlType, AnswersFit

\* The document of an entry is that of the key.
LEMMA EntriesDiffer ==
  \A p, q \in Queries : Entry(p) = Entry(q) => p = q
BY DEF Entry, Queries

\* When acquire lets a call go, the time it was told to wait for has passed.
LEMMA AcquireWaits ==
  ASSUME IInv, NEW d \in Nat, d >= BudgetWait
  PROVE  /\ ServerAfter(d).demanded = 0
         /\ limiter.hold = 0 /\ ShortOfReserve => ~ServerAfter(d).sameWindow
<1>0. TypeOK
  BY IInvIsTyped
<1>1. /\ server.demanded \in Nat /\ limiter.hold \in Nat /\ BudgetWait \in Nat
      /\ server.left \in 1 .. Window /\ server \in ServerType
  BY <1>0, WaitsAreNat DEF TypeOK, IInv, TimeInv, ServerType
<1>2. server.demanded <= d
  BY <1>0, <1>1, WaitsAreNat DEF IInv, TimeInv
<1>3. ServerAfter(d).demanded = 0
  <2>1. Less(server.demanded, d) = 0
    BY <1>1, <1>2, LessType
  <2> QED BY <1>1, <2>1, ServerAfterType
<1>4. ASSUME limiter.hold = 0, ShortOfReserve PROVE ~ServerAfter(d).sameWindow
  <2>1. CASE ~server.sameWindow
    <3>1. d < server.left \/ d >= server.left
      BY <1>1
    <3> QED BY <1>1, <2>1, <3>1, ServerAfterType
  <2>2. CASE server.sameWindow
    <3>1. limiter.age + server.left = limiter.reset /\ limiter.reset \in 1 .. Window
      BY <2>2 DEF IInv, TimeInv, LimiterType
    <3>2. limiter.age \in 0 .. Window /\ Window \in Nat
      BY <1>0, ClientAssumption DEF TypeOK
    <3>6. limiter.reset \in Nat /\ limiter.age \in Nat
      BY <3>1, <3>2
    <3>3. Less(limiter.reset, limiter.age) = IF limiter.reset > limiter.age
                                             THEN limiter.reset - limiter.age ELSE 0
      BY <3>6, LessType
    <3>0. limiter.hold = 0 /\ ShortOfReserve
      BY <1>4
    <3>4. BudgetWait = Less(limiter.reset, limiter.age) + 1
      BY <1>0, <3>0, WaitsAreNat
    <3>5. d >= server.left
      BY <1>1, <3>1, <3>2, <3>3, <3>4
    <3> QED BY <1>1, <3>5, ServerAfterType
  <2>3. server.sameWindow \in BOOLEAN
    BY <1>1 DEF ServerType
  <2> QED BY <2>1, <2>2, <2>3
<1> QED BY <1>3, <1>4

(***************************************************************************)
(* Every step keeps the invariant.                                         *)
(***************************************************************************)
\* The client as it is built.
LEMMA InitHolds == Init => IInv
<1> SUFFICES ASSUME Init PROVE IInv
  OBVIOUS
<1>1. server \in ServerType /\ server.demanded = 0 /\ ~server.sameWindow
  <2>1. server \in [left: 1 .. Window, spent: 0 .. Limit, demanded: {0}, sameWindow: {FALSE}]
    BY DEF Init
  <2>2. server.demanded = 0 /\ server.sameWindow = FALSE
    BY <2>1
  <2>3. {0} \subseteq Nat /\ {FALSE} \subseteq BOOLEAN
    OBVIOUS
  <2>4. server \in ServerType
    BY <2>1, <2>3, Zenon DEF ServerType
  <2> QED BY <2>2, <2>4
<1>2. limiter \in LimiterType /\ limiter.hold = 0
  BY ClientAssumption DEF Init, NoReading, LimiterType
<1>3. token \in TokenType /\ token.left <= token.life + Transit
  <2>1. Lifetime \in Nat /\ Transit \in Nat
    BY ClientAssumption
  <2>2. token = [left |-> 0, life |-> 0, revoked |-> FALSE]
    BY DEF Init, NoToken
  <2>3. token.left = 0 /\ token.life = 0
    BY <2>2
  <2>4. token \in TokenType
    BY <2>1, <2>2 DEF TokenType
  <2> QED BY <2>1, <2>3, <2>4
<1>4. TimeInv(server, limiter, token)
  BY <1>1, <1>2, <1>3 DEF TimeInv
<1>5. ControlType
  BY ClientAssumption DEF Init, ControlType
<1>6. Released /\ AnswersFit
  BY DEF Init, Released, AnswersFit, NoResult, Entries
<1> QED BY <1>4, <1>5, <1>6 DEF IInv

\* What the caller does.
LEMMA AskHolds == IInv /\ (Ask \/ CallerWorks) => IInv'
<1> SUFFICES ASSUME IInv, Ask \/ CallerWorks PROVE IInv'
  OBVIOUS
<1> USE DEF IInv
<1>1. ASSUME NEW q \in Queries, CacheHit(q) PROVE IInv'
  <2>1. TimeInv(server', limiter', token') /\ UNCHANGED <<server, token, cache>>
    BY <1>1 DEF CacheHit
  <2>2. /\ call' = q /\ pc' = "idle" /\ attempt' = 0 /\ retryAfter' = None
        /\ result'.answers = cache[Entry(q)] /\ cache[Entry(q)] = q
    BY <1>1 DEF CacheHit, Answers, Ends, AnswersFit
  <2>3. ControlType' /\ Released' /\ AnswersFit'
    BY <2>1, <2>2, ClientAssumption DEF ControlType, Released, AnswersFit
  <2> QED BY <2>1, <2>3
<1>2. ASSUME NEW q \in Queries \cup {Budget}, Execute(q) PROVE IInv'
  <2>1. TimeInv(server', limiter', token') /\ UNCHANGED <<server, token, cache, retryAfter>>
    BY <1>2 DEF Execute
  <2>2. call' = q /\ pc' = "acquire" /\ attempt' = 1 /\ result'.answers = None
    BY <1>2 DEF Execute, NoResult
  <2>3. 1 \in 0 .. MaxRetries
    BY ClientAssumption
  <2>4. ControlType' /\ Released' /\ AnswersFit'
    BY <2>1, <2>2, <2>3 DEF ControlType, Released, AnswersFit
  <2> QED BY <2>1, <2>4
<1>3. CASE CallerWorks
  <2>1. TimeInv(server', limiter', token')
    BY <1>3, TimePasses DEF CallerWorks, Passes
  <2>2. ControlType' /\ Released' /\ AnswersFit'
    BY <1>3 DEF CallerWorks, ControlType, Released, AnswersFit
  <2> QED BY <2>1, <2>2
<1> QED BY <1>1, <1>2, <1>3 DEF Ask

\* RateLimiter.acquire, and a token that need not be fetched.
LEMMA AcquireHolds ==
  IInv /\ (AcquireAtOnce \/ AcquireSleeps \/ QuotaExhausted \/ UseToken) => IInv'
<1> SUFFICES ASSUME IInv, AcquireAtOnce \/ AcquireSleeps \/ QuotaExhausted \/ UseToken
             PROVE  IInv'
  OBVIOUS
<1> USE DEF IInv
<1>1. CASE AcquireAtOnce
  <2>1. server.demanded = 0
    <3>1. limiter.hold \in Nat /\ server.demanded \in Nat /\ server.demanded <= limiter.hold
      BY DEF TimeInv, ServerType, LimiterType
    <3>2. ~(limiter.hold > 0)
      BY <1>1, IInvIsTyped, WaitsAreNat DEF AcquireAtOnce
    <3> QED BY <3>1, <3>2
  <2> QED BY <1>1, <2>1 DEF AcquireAtOnce, ControlType, Released, AnswersFit
<1>2. CASE AcquireSleeps
  <2>1. PICK late \in {0, 1} : Passes(BudgetWait + late)
    BY <1>2 DEF AcquireSleeps, Sleeps
  <2> DEFINE d == BudgetWait + late
  <2>2. d \in Nat /\ d >= BudgetWait
    BY <2>1, IInvIsTyped, WaitsAreNat
  <2>3. TimeInv(server', limiter', token')
    BY <2>1, <2>2, TimePasses DEF Passes
  <2>4. server'.demanded = 0
    BY <2>1, <2>2, AcquireWaits DEF Passes
  <2>5. pc' = "token" /\ UNCHANGED <<cache, call, attempt, retryAfter, result>>
    BY <1>2 DEF AcquireSleeps
  <2> QED BY <2>3, <2>4, <2>5 DEF ControlType, Released, AnswersFit
<1>3. CASE QuotaExhausted
  BY <1>3, RaiseEnds DEF QuotaExhausted, Released
<1>4. CASE UseToken
  <2>1. ~token.revoked => token.life > Transit
    <3>1. token.left \in Nat /\ token.life \in Nat /\ Transit \in Nat /\ Margin \in Nat
      BY ClientAssumption DEF TimeInv, TokenType
    <3>2. token.left > Margin /\ 2 * Transit <= Margin
      BY <1>4, <3>1, ClientAssumption DEF UseToken, Expired
    <3> QED BY <3>1, <3>2 DEF TimeInv
  <2> QED BY <1>4, <2>1 DEF UseToken, ControlType, Released, AnswersFit
<1> QED BY <1>1, <1>2, <1>3, <1>4

\* A token fetched, refused, or taken back.
LEMMA TokenHolds ==
  IInv /\ (FetchToken \/ TokenRefused \/ RefreshToken \/ Revoke) => IInv'
<1> SUFFICES ASSUME IInv, FetchToken \/ TokenRefused \/ RefreshToken \/ Revoke PROVE IInv'
  OBVIOUS
<1> USE DEF IInv
<1>1. CASE FetchToken
  <2>1. PICK d \in 0 .. Transit : Fetched(d)
    BY <1>1 DEF FetchToken
  <2>2. TimeInv(server', limiter', token') /\ token'.life > Transit
    BY <2>1, FetchPasses
  <2>3. pc' = "sent" /\ UNCHANGED <<cache, call, attempt, retryAfter, result>>
    BY <1>1 DEF FetchToken
  <2> QED BY <2>2, <2>3 DEF ControlType, Released, AnswersFit
<1>2. CASE TokenRefused
  BY <1>2, RaiseEnds DEF TokenRefused, Released
<1>3. CASE RefreshToken
  <2>1. PICK d \in 0 .. Transit : Fetched(d)
    BY <1>3 DEF RefreshToken
  <2>2. TimeInv(server', limiter', token')
    BY <2>1, FetchPasses
  <2>3. ControlType' /\ AnswersFit' /\ (pc' = "idle" \/ (pc' = "backoff" /\ attempt' < MaxRetries))
    BY <1>3, AttemptEnds DEF RefreshToken
  <2> QED BY <2>2, <2>3 DEF Released
<1>4. CASE Revoke
  <2>1. /\ token' \in TokenType /\ token'.revoked
        /\ UNCHANGED <<server, limiter, cache, pc, call, attempt, retryAfter, result>>
    <3>1. token' = [token EXCEPT !.life = 0, !.revoked = TRUE] /\ token \in TokenType
      BY <1>4 DEF Revoke, TimeInv
    <3>2. 0 \in 0 .. Lifetime
      BY ClientAssumption
    <3>3. token' \in TokenType /\ token'.revoked
      BY <3>1, <3>2 DEF TokenType
    <3> QED BY <1>4, <3>3 DEF Revoke
  <2>2. TimeInv(server', limiter', token')
    BY <2>1 DEF TimeInv
  <2>3. ControlType' /\ Released' /\ AnswersFit'
    BY <2>1 DEF ControlType, Released, AnswersFit
  <2> QED BY <2>2, <2>3
<1> QED BY <1>1, <1>2, <1>3, <1>4

\* An answer to a query.
LEMMA AnswerQueryHolds ==
  ASSUME IInv, NEW d \in Nat, AnswerQuery(d) PROVE IInv'
<1> USE DEF IInv
<1>1. TimeInv(server', limiter', token')
  BY ChargeKeeps DEF AnswerQuery, Accepted
<1>2. pc' = "put" /\ call # Budget /\ UNCHANGED <<cache, call, attempt, retryAfter, result>>
  BY DEF AnswerQuery
<1> QED BY <1>1, <1>2 DEF ControlType, Released, AnswersFit

\* A reading of the budget: its window is the server's, or it names none.
LEMMA AnswerBudgetHolds ==
  ASSUME IInv, NEW d \in Nat, AnswerBudget(d) PROVE IInv'
<1> USE DEF IInv
<1> DEFINE s == Charge(d)
           l == LimiterAfter(d)
<1>1. TimeInv(s, l, TokenAfter(d)) /\ token' = TokenAfter(d)
  BY ChargeKeeps DEF AnswerBudget
<1>2. PICK reading \in Readings(s) :
        /\ limiter' = [reading EXCEPT !.hold = l.hold]
        /\ server' = [s EXCEPT !.sameWindow = reading.reset # None]
  BY DEF AnswerBudget
<1> HIDE DEF s, l
<1>3. /\ s \in ServerType /\ l.hold \in Nat /\ s.demanded <= l.hold
      /\ s.left \in 1 .. Window /\ s.spent \in 0 .. Limit /\ Limit \in Nat /\ Window \in Nat
  BY <1>1, ClientAssumption DEF TimeInv, ServerType, LimiterType
<1>4. /\ server' \in ServerType /\ server'.demanded = s.demanded /\ server'.left = s.left
      /\ server'.sameWindow <=> reading.reset # None
  <2>1. (reading.reset # None) \in BOOLEAN
    OBVIOUS
  <2> QED BY <1>2, <1>3, <2>1 DEF ServerType
<1>5. /\ limiter' \in LimiterType /\ limiter'.hold = l.hold
      /\ limiter'.reset # None => limiter'.age = 0 /\ limiter'.reset = s.left
      /\ limiter'.reset = reading.reset
  <2>1. CASE reading = NoReading
    <3>1. limiter' = [known |-> FALSE, remaining |-> 0, reset |-> None, age |-> Window,
                      hold |-> l.hold]
      BY <1>2, <2>1 DEF NoReading
    <3>2. 0 \in 0 .. Limit /\ Window \in 0 .. Window /\ reading.reset = None
      BY <1>3, <2>1 DEF NoReading
    <3> QED BY <1>3, <3>1, <3>2 DEF LimiterType
  <2>2. ASSUME NEW r \in {s.left, None},
               reading = [known |-> TRUE, remaining |-> Limit - s.spent, reset |-> r,
                          age |-> 0, hold |-> 0]
        PROVE  /\ limiter' \in LimiterType /\ limiter'.hold = l.hold
               /\ limiter'.reset # None => limiter'.age = 0 /\ limiter'.reset = s.left
               /\ limiter'.reset = reading.reset
    <3>1. limiter' = [known |-> TRUE, remaining |-> Limit - s.spent, reset |-> r,
                      age |-> 0, hold |-> l.hold]
      BY <1>2, <2>2
    <3>2. Limit - s.spent \in 0 .. Limit /\ 0 \in 0 .. Window /\ r \in {None} \cup 1 .. Window
      BY <1>3
    <3>3. reading.reset = r
      BY <2>2
    <3> QED BY <1>3, <3>1, <3>2, <3>3 DEF LimiterType
  <2> QED BY <2>1, <2>2, <1>2 DEF Readings
<1>6. TimeInv(server', limiter', token')
  <2>1. server'.demanded <= limiter'.hold
    BY <1>3, <1>4, <1>5
  <2>2. server'.sameWindow => limiter'.reset # None /\ limiter'.age + server'.left = limiter'.reset
    BY <1>3, <1>4, <1>5
  <2> QED BY <1>1, <1>4, <1>5, <2>1, <2>2 DEF TimeInv
<1>7. /\ pc' = "idle" /\ attempt' = 0 /\ retryAfter' = None /\ result'.answers = Budget
      /\ call = Budget /\ UNCHANGED <<cache, call>>
  BY DEF AnswerBudget, Answers, Ends
<1>8. 0 \in 0 .. MaxRetries
  BY ClientAssumption
<1> QED BY <1>6, <1>7, <1>8 DEF ControlType, Released, AnswersFit

\* The work of a request that failed may have been charged.
LEMMA MayBeCharged ==
  ASSUME TimeInv(server, limiter, token), NEW d \in Nat,
         server' \in {ServerAfter(d)} \cup {s \in {Charge(d)} : Charged(d)},
         limiter' = LimiterAfter(d), token' = TokenAfter(d)
  PROVE  TimeInv(server', limiter', token')
<1>1. CASE server' = ServerAfter(d)
  BY <1>1, TimePasses
<1>2. CASE server' = Charge(d) /\ Charged(d)
  BY <1>2, ChargeKeeps
<1> QED BY <1>1, <1>2

\* A refusal that is not repeated, and a failure that may be.
LEMMA FailureHolds ==
  ASSUME IInv, NEW d \in Nat, RejectQuery(d) \/ FailInTransit(d) PROVE IInv'
<1> USE DEF IInv
<1>1. CASE RejectQuery(d)
  <2>1. TimeInv(server', limiter', token')
    BY <1>1, MayBeCharged DEF RejectQuery
  <2>2. ControlType' /\ AnswersFit' /\ pc' = "idle"
    BY <1>1, RaiseEnds DEF RejectQuery
  <2> QED BY <2>1, <2>2 DEF Released
<1>2. CASE FailInTransit(d)
  <2>1. TimeInv(server', limiter', token')
    BY <1>2, MayBeCharged DEF FailInTransit
  <2>2. ControlType' /\ AnswersFit' /\ (pc' = "idle" \/ (pc' = "backoff" /\ attempt' < MaxRetries))
    BY <1>2, AttemptEnds DEF FailInTransit
  <2> QED BY <2>1, <2>2 DEF Released
<1> QED BY <1>1, <1>2

\* HTTP 401.
LEMMA UnauthorizedHolds ==
  ASSUME IInv, NEW d \in Nat, Unauthorized(d) PROVE IInv'
<1>1. TimeInv(server', limiter', token')
  BY TimePasses DEF Unauthorized, Passes, IInv
<1>2. pc' = "refresh" /\ UNCHANGED <<cache, call, attempt, retryAfter, result>>
  BY DEF Unauthorized
<1> QED BY <1>1, <1>2 DEF IInv, ControlType, Released, AnswersFit

\* HTTP 429: the client takes on whatever hold the server asks for.
LEMMA RateLimitedHolds ==
  ASSUME IInv, NEW d \in Nat, NEW r \in Holds \cup {None}, RateLimited(d, r) PROVE IInv'
<1> USE DEF IInv
<1> DEFINE s == ServerAfter(d)
           l == LimiterAfter(d)
           demanded == IF r = None THEN s.demanded ELSE Max2(s.demanded, r)
           hold == IF r = None THEN l.hold ELSE Max2(l.hold, r)
<1>1. TimeInv(s, l, TokenAfter(d)) /\ token' = TokenAfter(d)
  BY TimePasses DEF RateLimited
<1>2. server' = [s EXCEPT !.demanded = demanded] /\ limiter' = [l EXCEPT !.hold = hold]
  BY DEF RateLimited, NoteRetryAfter
<1> HIDE DEF s, l
<1>3. s.demanded \in Nat /\ l.hold \in Nat /\ s.demanded <= l.hold /\ (r # None => r \in Nat)
  BY <1>1, ClientAssumption DEF TimeInv, ServerType, LimiterType
<1>4. demanded \in Nat /\ hold \in Nat /\ demanded <= hold
  BY <1>3 DEF Max2
<1> HIDE DEF demanded, hold
<1>5. /\ server' \in ServerType /\ server'.demanded = demanded
      /\ server'.left = s.left /\ server'.sameWindow = s.sameWindow
  BY <1>1, <1>2, <1>4 DEF TimeInv, ServerType
<1>6. /\ limiter' \in LimiterType /\ limiter'.hold = hold
      /\ limiter'.age = l.age /\ limiter'.reset = l.reset
  BY <1>1, <1>2, <1>4 DEF TimeInv, LimiterType
<1>7. TimeInv(server', limiter', token')
  BY <1>1, <1>4, <1>5, <1>6 DEF TimeInv
<1>8. ControlType' /\ AnswersFit' /\ (pc' = "idle" \/ (pc' = "backoff" /\ attempt' < MaxRetries))
  BY AttemptEnds DEF RateLimited
<1> QED BY <1>7, <1>8 DEF Released

\* The wait between two attempts, the cache file, and another process.
LEMMA OthersHold == IInv /\ (Backoff \/ Put \/ Restart) => IInv'
<1> SUFFICES ASSUME IInv, Backoff \/ Put \/ Restart PROVE IInv'
  OBVIOUS
<1> USE DEF IInv
<1>0. 0 \in 0 .. MaxRetries /\ MaxRetries \in Nat
  BY ClientAssumption
<1>1. CASE Backoff
  <2>1. PICK b \in Backoffs, late \in {0, 1} : Passes(b + late)
    BY <1>1 DEF Backoff, Sleeps
  <2>2. b + late \in Nat
    BY <2>1, IInvIsTyped, WaitsAreNat
  <2>3. TimeInv(server', limiter', token')
    BY <2>1, <2>2, TimePasses DEF Passes
  <2>4. /\ pc' = "acquire" /\ attempt' = attempt + 1 /\ retryAfter' = None
        /\ UNCHANGED <<cache, call, result>> /\ pc = "backoff"
    BY <1>1 DEF Backoff
  <2>5. attempt + 1 \in 0 .. MaxRetries
    BY <1>0, <2>4 DEF Released, ControlType
  <2> QED BY <2>3, <2>4, <2>5 DEF ControlType, Released, AnswersFit
<1>2. CASE Put
  <2>1. /\ cache' = [cache EXCEPT ![Entry(call)] = call] /\ call \in Queries
        /\ pc' = "idle" /\ attempt' = 0 /\ retryAfter' = None /\ result'.answers = call
        /\ UNCHANGED <<server, limiter, token, call>>
    BY <1>2 DEF Put, Answers, Ends, AnswersFit
  <2>2. cache' \in [Entries -> Queries \cup {None}]
    BY <2>1 DEF ControlType, Entries
  <2>3. \A q \in Queries : cache'[Entry(q)] \in {q, None}
    <3> SUFFICES ASSUME NEW q \in Queries PROVE cache'[Entry(q)] \in {q, None}
      OBVIOUS
    <3>1. Entry(q) \in Entries
      BY DEF Entries
    <3>2. CASE Entry(q) = Entry(call)
      BY <2>1, <3>1, <3>2, EntriesDiffer DEF ControlType
    <3>3. CASE Entry(q) # Entry(call)
      BY <2>1, <3>1, <3>3 DEF ControlType, AnswersFit
    <3> QED BY <3>2, <3>3
  <2>4. TimeInv(server', limiter', token')
    BY <2>1
  <2> QED BY <1>0, <2>1, <2>2, <2>3, <2>4 DEF ControlType, Released, AnswersFit
<1>3. CASE Restart
  <2>1. /\ server' = [server EXCEPT !.demanded = 0, !.sameWindow = FALSE]
        /\ limiter' = NoReading /\ token' = NoToken
        /\ pc' = "idle" /\ call' = Budget /\ attempt' = 0 /\ retryAfter' = None
        /\ result'.answers = None /\ UNCHANGED cache
    BY <1>3 DEF Restart, NoResult
  <2>2. server' \in ServerType /\ server'.demanded = 0 /\ ~server'.sameWindow
    BY <2>1 DEF TimeInv, ServerType
  <2>3. limiter' \in LimiterType /\ limiter'.hold = 0
    BY <2>1, ClientAssumption DEF NoReading, LimiterType
  <2>4. token' \in TokenType /\ token'.left = 0 /\ token'.life = 0
    BY <2>1, ClientAssumption DEF NoToken, TokenType
  <2>5. TimeInv(server', limiter', token')
    BY <2>2, <2>3, <2>4, ClientAssumption DEF TimeInv
  <2> QED BY <1>0, <2>1, <2>5 DEF ControlType, Released, AnswersFit
<1> QED BY <1>1, <1>2, <1>3

\* The invariant is inductive.
LEMMA NextHolds == IInv /\ [Next]_vars => IInv'
<1> SUFFICES ASSUME IInv, [Next]_vars PROVE IInv'
  OBVIOUS
<1>1. CASE Respond
  <2>1. PICK d \in 0 .. Transit :
          \/ AnswerQuery(d) \/ AnswerBudget(d) \/ RejectQuery(d) \/ FailInTransit(d)
          \/ Unauthorized(d)
          \/ \E r \in Holds \cup {None} : RateLimited(d, r)
    BY <1>1 DEF Respond
  <2>2. d \in Nat
    BY ClientAssumption
  <2> QED BY <2>1, <2>2, AnswerQueryHolds, AnswerBudgetHolds, FailureHolds,
             UnauthorizedHolds, RateLimitedHolds
<1>2. CASE UNCHANGED vars
  BY <1>2 DEF vars, IInv, ControlType, Released, AnswersFit
<1> QED BY <1>1, <1>2, AskHolds, AcquireHolds, TokenHolds, OthersHold DEF Next, Work

\* The invariant holds throughout.
LEMMA AlwaysIInv == Spec => []IInv
<1> QED BY InitHolds, NextHolds, PTL DEF Spec

(***************************************************************************)
(* TypeOK: the points left in a reading stay within the limit, attempts    *)
(* within max_retries, and no interval falls below nothing.                *)
(***************************************************************************)
THEOREM TypeCorrect == Spec => []TypeOK
<1> QED BY AlwaysIInv, IInvIsTyped, PTL

(***************************************************************************)
(* AnswersTheQuestion: execute never returns the answer to another         *)
(* document, for any set of query names and documents.                     *)
(***************************************************************************)
THEOREM AnswersRight == Spec => []AnswersTheQuestion
<1>1. IInv => AnswersTheQuestion
  BY DEF IInv, AnswersFit, AnswersTheQuestion
<1> QED BY <1>1, AlwaysIInv, PTL

(***************************************************************************)
(* RetryAfterHonoured: no request leaves before the time that the server   *)
(* asked for, whatever number of 429s came how far apart.                  *)
(***************************************************************************)
THEOREM HoldsHonoured == Spec => RetryAfterHonoured
<1>1. IInv => (Sends => server.demanded = 0)
  BY DEF IInv, Released, Sends
<1>2. IInv /\ [Next]_vars => [Sends => server.demanded = 0]_vars
  BY <1>1
<1> QED BY <1>2, AlwaysIInv, PTL DEF Spec, RetryAfterHonoured

(***************************************************************************)
(* BudgetWaitHonoured: with less than the reserve left, no call passes the *)
(* limiter in the window of the reading.                                   *)
(***************************************************************************)
THEOREM BudgetHonoured == Spec => BudgetWaitHonoured
<1> DEFINE P == pc = "acquire" /\ pc' = "token" /\ limiter.hold = 0 /\ ShortOfReserve
                  => ~server'.sameWindow
<1>1. ASSUME IInv, [Next]_vars, pc = "acquire", pc' = "token", limiter.hold = 0, ShortOfReserve
      PROVE  ~server'.sameWindow
  <2>1. AcquireAtOnce \/ AcquireSleeps
    BY <1>1 DEF vars, Next, Work, AcquireAtOnce, AcquireSleeps, QuotaExhausted, UseToken,
                FetchToken, TokenRefused, RefreshToken, Respond, Backoff, Put, Ask, CacheHit,
                Execute, CallerWorks, Revoke, Restart, AnswerQuery, AnswerBudget, RejectQuery,
                FailInTransit, Unauthorized, RateLimited, Accepted, Reaches, Raises, Fails, Ends
  <2>2. CASE AcquireAtOnce
    <3>1. BudgetWait = Less(limiter.reset, limiter.age) + 1 /\ BudgetWait = 0
      BY <1>1, <2>2, IInvIsTyped, WaitsAreNat DEF AcquireAtOnce
    <3>2. Less(limiter.reset, limiter.age) \in Nat
      BY <1>1, LessType DEF IInv, TimeInv, LimiterType, ShortOfReserve
    <3> QED BY <3>1, <3>2
  <2>3. CASE AcquireSleeps
    <3>1. PICK late \in {0, 1} : server' = ServerAfter(BudgetWait + late)
      BY <2>3 DEF AcquireSleeps, Sleeps, Passes
    <3>2. BudgetWait + late \in Nat /\ BudgetWait + late >= BudgetWait
      BY <1>1, IInvIsTyped, WaitsAreNat
    <3> QED BY <1>1, <3>1, <3>2, AcquireWaits
  <2> QED BY <2>1, <2>2, <2>3
<1>2. IInv /\ [Next]_vars => [P]_vars
  BY <1>1
<1> QED BY <1>2, AlwaysIInv, PTL DEF Spec, BudgetWaitHonoured

(***************************************************************************)
(* NoTokenRunsOut: with a margin of two ways no token runs out on its way  *)
(* to the server; only one that was taken back is refused.                 *)
(***************************************************************************)
THEOREM TokensLast == Spec => NoTokenRunsOut
<1> DEFINE P == pc = "sent" /\ pc' = "refresh" => token.revoked
<1>1. ASSUME IInv, [Next]_vars, pc = "sent", pc' = "refresh"
      PROVE  token.revoked
  <2>1. PICK d \in 0 .. Transit : Unauthorized(d)
    BY <1>1 DEF vars, Next, Work, AcquireAtOnce, AcquireSleeps, QuotaExhausted, UseToken,
                FetchToken, TokenRefused, RefreshToken, Respond, Backoff, Put, Ask, CacheHit,
                Execute, CallerWorks, Revoke, Restart, AnswerQuery, AnswerBudget, RejectQuery,
                FailInTransit, RateLimited, Accepted, Reaches, Raises, Fails, Answers, Ends,
                BackoffOrRaise
  <2>2. token.life \in Nat /\ Transit \in Nat /\ token.revoked \in BOOLEAN /\ d <= Transit
    BY <1>1, ClientAssumption DEF IInv, TimeInv, TokenType
  <2>3. d \in Nat /\ Less(token.life, d) = 0
    BY <1>1, <2>1, <2>2, TokenAfterType, ClientAssumption DEF Unauthorized, IInv, TimeInv
  <2>4. token.life <= Transit
    <3>1. Less(token.life, d) = IF token.life > d THEN token.life - d ELSE 0
      BY <2>2, <2>3, LessType
    <3> QED BY <2>2, <2>3, <3>1
  <2> QED BY <1>1, <2>2, <2>4 DEF IInv, Released
<1>2. IInv /\ [Next]_vars => [P]_vars
  BY <1>1
<1> QED BY <1>2, AlwaysIInv, PTL DEF Spec, NoTokenRunsOut

-----------------------------------------------------------------------------
(***************************************************************************)
(* How many steps a call may still take: six to an attempt, and all of the *)
(* attempts that max_retries leaves.                                       *)
(***************************************************************************)
Ahead ==
  CASE pc = "acquire" -> 6 [] pc = "token" -> 5 [] pc = "sent" -> 4
    [] pc = "refresh" -> 3 [] pc = "backoff" -> 2 [] OTHER -> 1

Effort == IF pc = "idle" THEN 0 ELSE 6 * (MaxRetries - attempt) + Ahead

\* A call has its attempts and no more.
CallsBounded == Effort \in 0 .. 6 * MaxRetries

\* Every step of a call takes from them; only the server that takes a token
\* back does something else in between.
CallsGetShorter == [][pc # "idle" => Revoke \/ Effort' < Effort]_vars

\* An attempt is at its end sooner than it starts.
LEMMA AheadIs ==
  /\ Ahead \in 1 .. 6
  /\ pc = "acquire" => Ahead = 6
  /\ pc = "token" => Ahead = 5
  /\ pc = "sent" => Ahead = 4
  /\ pc = "refresh" => Ahead = 3
  /\ pc = "backoff" => Ahead = 2
<1> QED BY DEF Ahead

\* Attempts are counted from one while a call runs.
Counted == pc # "idle" => attempt \in 1 .. MaxRetries

\* Steps are ordered by where they leave a call that goes on.
LEMMA Onwards ==
  ASSUME IInv, Counted, Next, pc # "idle", ~Revoke
  PROVE  \/ pc' = "idle"
         \/ attempt' = attempt /\ Ahead' < Ahead
         \/ attempt' = attempt + 1 /\ attempt < MaxRetries /\ Ahead = 2 /\ Ahead' = 6
<1>1. CASE AcquireAtOnce \/ AcquireSleeps
  <2>1. pc = "acquire" /\ pc' = "token" /\ attempt' = attempt
    BY <1>1 DEF AcquireAtOnce, AcquireSleeps
  <2> QED BY <2>1 DEF Ahead
<1>2. CASE QuotaExhausted \/ TokenRefused \/ Put \/ Restart
  BY <1>2 DEF QuotaExhausted, TokenRefused, Put, Restart, Raises, Fails, Answers, Ends
<1>3. CASE UseToken \/ FetchToken
  <2>1. pc = "token" /\ pc' = "sent" /\ attempt' = attempt
    BY <1>3 DEF UseToken, FetchToken
  <2> QED BY <2>1 DEF Ahead
<1>4. ASSUME NEW r, pc \in {"sent", "refresh"}, BackoffOrRaise(r)
      PROVE  pc' = "idle" \/ (attempt' = attempt /\ Ahead' < Ahead)
  <2>1. CASE pc' = "backoff" /\ attempt' = attempt
    BY <1>4, <2>1 DEF Ahead
  <2> QED BY <1>4, <2>1 DEF BackoffOrRaise, Fails, Ends
<1>5. CASE RefreshToken
  BY <1>4, <1>5 DEF RefreshToken
<1>6. CASE Respond
  <2>1. PICK d \in 0 .. Transit :
          \/ AnswerQuery(d) \/ AnswerBudget(d) \/ RejectQuery(d) \/ FailInTransit(d)
          \/ Unauthorized(d)
          \/ \E r \in Holds \cup {None} : RateLimited(d, r)
    BY <1>6 DEF Respond
  <2>2. CASE AnswerQuery(d) \/ Unauthorized(d)
    <3>1. pc = "sent" /\ pc' \in {"put", "refresh"} /\ attempt' = attempt
      BY <2>2 DEF AnswerQuery, Unauthorized, Accepted, Reaches
    <3> QED BY <3>1 DEF Ahead
  <2>3. CASE AnswerBudget(d) \/ RejectQuery(d)
    BY <2>3 DEF AnswerBudget, RejectQuery, Answers, Raises, Fails, Ends
  <2>4. CASE FailInTransit(d)
    BY <1>4, <2>4 DEF FailInTransit, Reaches
  <2>5. CASE \E r \in Holds \cup {None} : RateLimited(d, r)
    BY <1>4, <2>5 DEF RateLimited, Reaches
  <2> QED BY <2>1, <2>2, <2>3, <2>4, <2>5
<1>7. CASE Backoff
  <2>1. pc = "backoff" /\ pc' = "acquire" /\ attempt' = attempt + 1
    BY <1>7 DEF Backoff
  <2>2. attempt < MaxRetries
    BY <2>1 DEF IInv, Released
  <2> QED BY <2>1, <2>2 DEF Ahead
<1>8. ~Ask /\ ~CallerWorks
  BY DEF Ask, CacheHit, Execute, CallerWorks
<1> QED BY <1>1, <1>2, <1>3, <1>5, <1>6, <1>7, <1>8 DEF Next, Work

\* The count starts with the first attempt.
LEMMA CountedStep == IInv /\ Counted /\ [Next]_vars => Counted'
<1> SUFFICES ASSUME IInv, Counted, [Next]_vars, pc' # "idle" PROVE attempt' \in 1 .. MaxRetries
  BY DEF Counted
<1>0. MaxRetries \in Nat \ {0}
  BY ClientAssumption
<1>1. CASE Next /\ pc # "idle" /\ ~Revoke
  <2>1. attempt \in 1 .. MaxRetries
    BY <1>1 DEF Counted
  <2>2. attempt' = attempt \/ (attempt' = attempt + 1 /\ attempt < MaxRetries)
    BY <1>1, Onwards
  <2> QED BY <1>0, <2>1, <2>2
<1>2. CASE Next /\ pc = "idle" /\ ~Revoke
  <2>1. \E q \in Queries \cup {Budget} : Execute(q)
    BY <1>2 DEF Next, Work, AcquireAtOnce, AcquireSleeps, QuotaExhausted, UseToken, FetchToken,
                TokenRefused, RefreshToken, Respond, Backoff, Put, Ask, CacheHit, CallerWorks,
                Restart, AnswerQuery, AnswerBudget, RejectQuery, FailInTransit, Unauthorized,
                RateLimited, Accepted, Reaches, Answers, Ends
  <2>2. attempt' = 1
    BY <2>1 DEF Execute
  <2> QED BY <1>0, <2>2
<1>3. CASE Revoke \/ UNCHANGED vars
  BY <1>3 DEF Revoke, vars, Counted
<1> QED BY <1>1, <1>2, <1>3

\* No server keeps a call from returning or raising: every step of it, a wait,
\* a refresh or a retry, leaves strictly fewer to come.
THEOREM CallsEnd == Spec => []CallsBounded /\ CallsGetShorter
<1> DEFINE P == pc # "idle" => Revoke \/ Effort' < Effort
<1>1. Init => Counted
  BY DEF Init, Counted
<1>2. Counted => CallsBounded
  <2> SUFFICES ASSUME Counted PROVE CallsBounded
    OBVIOUS
  <2>1. CASE pc = "idle"
    BY <2>1, ClientAssumption DEF CallsBounded, Effort
  <2>2. CASE pc # "idle"
    <3>1. attempt \in 1 .. MaxRetries /\ MaxRetries \in Nat \ {0} /\ Ahead \in 1 .. 6
      BY <2>2, ClientAssumption, AheadIs DEF Counted
    <3> QED BY <2>2, <3>1 DEF CallsBounded, Effort
  <2> QED BY <2>1, <2>2
<1>3. IInv /\ Counted /\ Counted' /\ [Next]_vars => [P]_vars
  <2> SUFFICES ASSUME IInv, Counted, Counted', Next, pc # "idle", ~Revoke PROVE Effort' < Effort
    OBVIOUS
  <2>1. attempt \in 1 .. MaxRetries /\ MaxRetries \in Nat \ {0}
    BY ClientAssumption DEF Counted
  <2>2. Ahead \in 1 .. 6 /\ Effort = 6 * (MaxRetries - attempt) + Ahead
    BY AheadIs DEF Effort
  <2>3. CASE pc' = "idle"
    <3>1. Effort' = 0
      BY <2>3 DEF Effort
    <3> QED BY <2>1, <2>2, <3>1
  <2>4. CASE pc' # "idle"
    <3>1. Effort' = 6 * (MaxRetries - attempt') + Ahead'
      BY <2>4 DEF Effort
    <3>2. Ahead' \in 1 .. 6
      BY DEF Ahead
    <3>3. \/ attempt' = attempt /\ Ahead' < Ahead
          \/ attempt' = attempt + 1 /\ Ahead = 2 /\ Ahead' = 6
      BY <2>4, Onwards
    <3> QED BY <2>1, <2>2, <3>1, <3>2, <3>3
  <2> QED BY <2>3, <2>4
<1> QED BY <1>1, <1>2, <1>3, AlwaysIInv, CountedStep, PTL DEF Spec, CallsGetShorter
=============================================================================
