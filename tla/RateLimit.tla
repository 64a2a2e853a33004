----------------------------- MODULE RateLimit -----------------------------
(***************************************************************************)
(* The per-user limiter in front of /chat: app/security/rate_limit.py.     *)
(*                                                                         *)
(* check_rate_limit reads the clock FIRST and then awaits: the shared      *)
(* client, the Redis transaction, its reply, perhaps a ZREM.  Between any  *)
(* two of these steps other requests, of the same worker or of another,    *)
(* run their own.  A request that gets no answer from Redis is decided     *)
(* by the table of the worker that serves it, with the timestamp it        *)
(* took at the start.                                                      *)
(*                                                                         *)
(* Time is counted in ticks of the (real) clock `now'.  A member of the    *)
(* sorted set, "<ms>-<random token>", is unique per request, so the set    *)
(* is a set of requests and a member's score is stamp[r].                  *)
(***************************************************************************)
EXTENDS Integers, Sequences, FiniteSets

CONSTANTS
    Request,        \* the requests that may arrive
    User,           \* the verified user ids
    Worker,         \* the worker processes, each with its own table
    Allowance,      \* CHAT_RATE_LIMIT_REQUESTS
    Window,         \* CHAT_RATE_LIMIT_WINDOW_SECONDS, in ticks
    Second,         \* ticks in a second: Retry-After is sent in seconds
    MaxTracked,     \* MAX_TRACKED_USERS of one worker's table
    MaxLag,         \* bound: ticks from reading the clock to the decision
    MaxSkew,        \* bound: how far a worker's clock may be ahead
    Horizon         \* bound: the last tick

ASSUME RequestFinite == IsFiniteSet(Request)

ASSUME ParametersAssumption ==
    /\ Allowance \in Nat \ {0}    \* 0 switches the limiter off (line 230)
    /\ Window \in Nat \ {0}
    /\ Second \in Nat \ {0}
    /\ MaxTracked \in Nat
    /\ MaxLag \in Nat
    /\ MaxSkew \in Nat
    /\ Horizon \in Nat

VARIABLES
    now,            \* real time
    skew,           \* how far each worker's clock is ahead of it
    pc,             \* where each request is in check_rate_limit
    user, worker,   \* whose request it is, and the process serving it
    stamp,          \* the timestamp it took (`now' in the code)
    execAt,         \* the real time at which its slot was claimed
    used, oldest,   \* the reply of the Redis transaction
    retryAfter,     \* the seconds a refused client is told to wait
    zset,           \* the sorted set of each user in Redis
    expires,        \* when Redis drops that key
    table           \* _requests of each worker; <<>> is an absent user

requestVars == <<pc, user, worker, stamp, execAt, used, oldest, retryAfter>>
redisVars == <<zset, expires>>
vars == <<now, skew, requestVars, redisVars, table>>

-----------------------------------------------------------------------------
Steps == {"new", "stamped", "executed", "over", "granted", "refused",
          "refusedHolding", "grantedHere", "refusedHere"}

\* Still inside check_rate_limit.
Pending(r) == pc[r] \in {"stamped", "executed", "over"}

TypeOK ==
    /\ now \in Nat
    /\ skew \in [Worker -> 0..MaxSkew]
    /\ pc \in [Request -> Steps]
    /\ user \in [Request -> User]
    /\ worker \in [Request -> Worker]
    /\ stamp \in [Request -> Nat]
    /\ execAt \in [Request -> Nat]
    /\ used \in [Request -> Nat]
    /\ oldest \in [Request -> Nat]
    /\ retryAfter \in [Request -> Nat]
    /\ zset \in [User -> SUBSET Request]
    /\ expires \in [User -> Nat]
    /\ table \in [Worker -> [User -> Seq(Request)]]

Init ==
    /\ now = 0
    /\ skew \in [Worker -> 0..MaxSkew]
    /\ pc = [r \in Request |-> "new"]
    /\ user \in [Request -> User]
    /\ worker \in [Request -> Worker]
    /\ stamp = [r \in Request |-> 0]
    /\ execAt = [r \in Request |-> 0]
    /\ used = [r \in Request |-> 0]
    /\ oldest = [r \in Request |-> 0]
    /\ retryAfter = [r \in Request |-> 0]
    /\ zset = [u \in User |-> {}]
    /\ expires = [u \in User |-> 0]
    /\ table = [w \in Worker |-> [u \in User |-> <<>>]]

-----------------------------------------------------------------------------
(***************************************************************************)
(* Time.  MaxLag is an assumption on the deployment, not on the code:      *)
(* the Redis client has no timeout of its own.                             *)
(***************************************************************************)
ReadClockAt(r) == stamp[r] - skew[worker[r]]

Tick ==
    /\ now < Horizon
    /\ \A r \in Request :
          pc[r] \in {"stamped", "executed"} => now - ReadClockAt(r) < MaxLag
    /\ now' = now + 1
    /\ UNCHANGED <<skew, requestVars, redisVars, table>>

\* A request reaches the limiter and reads its worker's clock.
Arrive(r) ==
    /\ pc[r] = "new"
    /\ pc' = [pc EXCEPT ![r] = "stamped"]
    /\ stamp' = [stamp EXCEPT ![r] = now + skew[worker[r]]]
    /\ UNCHANGED <<now, skew, user, worker, execAt, used, oldest, retryAfter,
                   redisVars, table>>

-----------------------------------------------------------------------------
(***************************************************************************)
(* The Redis path: _check_redis.                                           *)
(***************************************************************************)
IsOldest(q, S) == q \in S /\ \A p \in S : stamp[q] <= stamp[p]

\* What Redis still holds under the user's key.
Live(u) == IF now > expires[u] THEN {} ELSE zset[u]

\* Mutant: the + 1 is forgotten, the wait is rounded down.
SecondsRoundedDown(ticks) == IF ticks < 0 THEN 0 ELSE ticks \div Second

\* int(ticks / 1000) + 1 seconds, never less than one.
Seconds(ticks) ==
    IF ticks < 0 THEN 1 ELSE (ticks \div Second) + 1

\* Mutant: the member is the bare millisecond, so equal stamps collapse.
ClaimedByStamp(r) ==
    {q \in Live(user[r]) : /\ stamp[q] > stamp[r] - Window
                           /\ stamp[q] # stamp[r]} \union {r}

\* The entries the transaction leaves: the expired ones dropped, r added.
Claimed(r) ==
    {q \in Live(user[r]) : stamp[q] > stamp[r] - Window} \union {r}

\* MULTI: prune by score, add, count, read the oldest, refresh the TTL.
Execute(r) ==
    /\ pc[r] = "stamped"
    /\ zset' = [zset EXCEPT ![user[r]] = Claimed(r)]
    /\ used' = [used EXCEPT ![r] = Cardinality(Claimed(r))]
    /\ \E q \in Request :
          /\ IsOldest(q, Claimed(r))
          /\ oldest' = [oldest EXCEPT ![r] = stamp[q]]
    /\ expires' = [expires EXCEPT ![user[r]] = now + Window]
    /\ execAt' = [execAt EXCEPT ![r] = now]
    /\ pc' = [pc EXCEPT ![r] = "executed"]
    /\ UNCHANGED <<now, skew, user, worker, stamp, retryAfter, table>>

\* Mutant: the request does not count itself.
GrantBeyond(r) ==
    /\ pc[r] = "executed"
    /\ used[r] - 1 <= Allowance
    /\ pc' = [pc EXCEPT ![r] = "granted"]
    /\ UNCHANGED <<now, skew, user, worker, stamp, execAt, used, oldest,
                   retryAfter, redisVars, table>>

\* The reply arrives and is within the allowance.
Grant(r) ==
    /\ pc[r] = "executed"
    /\ used[r] <= Allowance
    /\ pc' = [pc EXCEPT ![r] = "granted"]
    /\ UNCHANGED <<now, skew, user, worker, stamp, execAt, used, oldest,
                   retryAfter, redisVars, table>>

\* The reply arrives and is over it: the slot has to be given back.
OverLimit(r) ==
    /\ pc[r] = "executed"
    /\ used[r] > Allowance
    /\ pc' = [pc EXCEPT ![r] = "over"]
    /\ UNCHANGED <<now, skew, user, worker, stamp, execAt, used, oldest,
                   retryAfter, redisVars, table>>

\* Mutant: the subtraction is the wrong way round, and not kept positive.
RefuseBackwards(r, how) ==
    /\ pc' = [pc EXCEPT ![r] = how]
    /\ retryAfter' = [retryAfter EXCEPT
                        ![r] = (stamp[r] - oldest[r] - Window) \div Second]
    /\ UNCHANGED <<now, skew, user, worker, stamp, execAt, used, oldest,
                   expires, table>>

Refuse(r, how) ==
    /\ pc' = [pc EXCEPT ![r] = how]
    /\ retryAfter' = [retryAfter EXCEPT
                        ![r] = Seconds(oldest[r] + Window - stamp[r])]
    /\ UNCHANGED <<now, skew, user, worker, stamp, execAt, used, oldest,
                   expires, table>>

\* Mutant: the slot is not given back.
ReclaimNothing(r) ==
    /\ pc[r] = "over"
    /\ UNCHANGED zset
    /\ Refuse(r, "refused")

Reclaim(r) ==
    /\ pc[r] = "over"
    /\ zset' = [zset EXCEPT ![user[r]] = Live(user[r]) \ {r}]
    /\ Refuse(r, "refused")

\* ZREM failed: logged, the entry is left to expire.
ReclaimFails(r) ==
    /\ pc[r] = "over"
    /\ UNCHANGED zset
    /\ Refuse(r, "refusedHolding")

-----------------------------------------------------------------------------
(***************************************************************************)
(* The in-process path: _check_in_process, with the request's old stamp.   *)
(***************************************************************************)
\* _prune drops k timestamps: from the left, until one is in the window.
Drops(k, history, cutoff) ==
    /\ k \in 0..Len(history)
    /\ \A i \in 1..k : stamp[history[i]] <= cutoff
    /\ k < Len(history) => stamp[history[k + 1]] > cutoff

Tracked(t) == {u \in User : t[u] # <<>>}
LastStamp(history) == stamp[history[Len(history)]]

\* Mutant: only idle users are evicted.
KeptActive(t, cutoff, K) ==
    K = IF Cardinality(Tracked(t)) <= MaxTracked
        THEN Tracked(t)
        ELSE {u \in Tracked(t) : LastStamp(t[u]) > cutoff}

\* Over the cap, _evict_idle_users keeps a set of users Kept(t, cutoff, K).
\* Equal last timestamps leave the choice of whom to drop open.
Kept(t, cutoff, K) ==
    LET active == {u \in Tracked(t) : LastStamp(t[u]) > cutoff} IN
    IF Cardinality(Tracked(t)) <= MaxTracked
    THEN K = Tracked(t)
    ELSE IF Cardinality(active) <= MaxTracked
    THEN K = active
    ELSE /\ K \subseteq active
         /\ Cardinality(K) = MaxTracked
         /\ \A u \in active \ K, v \in K :
               LastStamp(t[u]) <= LastStamp(t[v])

\* len(history) >= allowance: the oldest timestamp decides the wait.
RefuseHere(r, history) ==
    /\ Len(history) >= Allowance
    /\ table' = [table EXCEPT ![worker[r]][user[r]] = history]
    /\ retryAfter' = [retryAfter EXCEPT
                        ![r] = Seconds(stamp[history[1]] + Window - stamp[r])]
    /\ pc' = [pc EXCEPT ![r] = "refusedHere"]
    /\ UNCHANGED execAt

\* Mutant: one request too many is let through.
GrantHereBeyond(r, history) ==
    LET t == [table[worker[r]] EXCEPT ![user[r]] = Append(history, r)] IN
    /\ Len(history) <= Allowance
    /\ \E K \in SUBSET User :
          /\ Kept(t, stamp[r] - Window, K)
          /\ table' = [table EXCEPT
                 ![worker[r]] = [u \in User |-> IF u \in K THEN t[u] ELSE <<>>]]
    /\ execAt' = [execAt EXCEPT ![r] = now]
    /\ pc' = [pc EXCEPT ![r] = "grantedHere"]
    /\ UNCHANGED retryAfter

GrantHere(r, history) ==
    LET t == [table[worker[r]] EXCEPT ![user[r]] = Append(history, r)] IN
    /\ Len(history) < Allowance
    /\ \E K \in SUBSET User :
          /\ Kept(t, stamp[r] - Window, K)
          /\ table' = [table EXCEPT
                 ![worker[r]] = [u \in User |-> IF u \in K THEN t[u] ELSE <<>>]]
    /\ execAt' = [execAt EXCEPT ![r] = now]
    /\ pc' = [pc EXCEPT ![r] = "grantedHere"]
    /\ UNCHANGED retryAfter

CheckInProcess(r) ==
    LET h == table[worker[r]][user[r]] IN
    \E k \in 0..Len(h) :
        /\ Drops(k, h, stamp[r] - Window)
        /\ \/ RefuseHere(r, SubSeq(h, k + 1, Len(h)))
           \/ GrantHere(r, SubSeq(h, k + 1, Len(h)))

\* No client, the transaction was never executed, or only its reply was lost.
FallBack(r) ==
    /\ pc[r] \in {"stamped", "executed"}
    /\ CheckInProcess(r)
    /\ UNCHANGED <<now, skew, user, worker, stamp, used, oldest, redisVars>>

-----------------------------------------------------------------------------
Next ==
    \/ Tick
    \/ \E r \in Request :
          \/ Arrive(r)
          \/ Execute(r)
          \/ Grant(r)
          \/ OverLimit(r)
          \/ Reclaim(r)
          \/ ReclaimFails(r)
          \/ FallBack(r)

Spec == Init /\ [][Next]_vars

-----------------------------------------------------------------------------
(***************************************************************************)
(* Properties.                                                             *)
(***************************************************************************)

(* The window over which the allowance really holds.  An entry carries a   *)
(* timestamp that may be MaxLag older than its execution and is compared   *)
(* with one that may be MaxSkew ahead of it.                               *)
SafeWindow == Window - MaxLag - MaxSkew

GrantedIn(u, t) ==
    {r \in Request : /\ pc[r] = "granted"
                     /\ user[r] = u
                     /\ execAt[r] <= t
                     /\ execAt[r] > t - SafeWindow}

GrantedHereIn(w, u, t) ==
    {r \in Request : /\ pc[r] = "grantedHere"
                     /\ worker[r] = w
                     /\ user[r] = u
                     /\ execAt[r] <= t
                     /\ execAt[r] > t - SafeWindow}

(* Two concurrent requests are never both told yes for the same free slot  *)
(* (_check_redis): however the requests of a user interleave, over all     *)
(* workers, whatever fails, Redis lets at most Allowance of them through   *)
(* in any stretch of SafeWindow ticks.                                     *)
RedisWindowBound ==
    \A u \in User, t \in 0..now : Cardinality(GrantedIn(u, t)) <= Allowance

\* The users a worker has let through on its own.
UsersHere(w) ==
    {user[r] : r \in {q \in Request : pc[q] = "grantedHere" /\ worker[q] = w}}

Roomy(w) == Cardinality(UsersHere(w)) <= MaxTracked

(* The fallback is degraded, not absent (check_rate_limit): while a worker *)
(* has had to remember no more users than its table has room for, it lets  *)
(* at most Allowance requests of one user through in any stretch of        *)
(* SafeWindow ticks, however stale the timestamps it compares.             *)
WorkerWindowBound ==
    \A w \in Worker, u \in User, t \in 0..now :
        Roomy(w) => Cardinality(GrantedHereIn(w, u, t)) <= Allowance

(* The table is bounded (MAX_TRACKED_USERS): between requests no worker     *)
(* remembers more users than its cap, however the stamps are ordered.      *)
TableBounded ==
    \A w \in Worker : Cardinality(Tracked(table[w])) <= MaxTracked

\* Undecided or let through; refused with a failed ZREM; and, when the reply of
\* the transaction is lost, let through or refused by the in-process table.
MayHold == {"executed", "over", "granted", "refusedHolding",
            "grantedHere", "refusedHere"}

(* A request refused over Redis does not keep the slot it claimed for      *)
(* counting (_check_redis, the compensating ZREM): once the ZREM is        *)
(* answered the slot is gone for good, whatever the transactions of others *)
(* do to the set in between.  Of the refused only those keep one whose     *)
(* ZREM failed, or whose transaction was carried out, its reply lost, and  *)
(* that the in-process table then turned away; and no slot is there before *)
(* its transaction or in the set of another user.                          *)
NoLeakedSlot ==
    \A u \in User : \A r \in zset[u] : user[r] = u /\ pc[r] \in MayHold

(* Retry-After is true on the Redis path, up to the lag and skew of the    *)
(* timestamps: of the requests let through in the ticks before a refused   *)
(* one claimed its slot, fewer than Allowance are still in the window when *)
(* its client comes back.  What the client may find besides are slots that *)
(* were claimed since, or lost to a failed call.  (The oldest entry, which *)
(* decides the wait, may belong to a request that is refused in turn.)     *)
RetryAt(r) == stamp[r] + retryAfter[r] * Second + MaxLag + MaxSkew

GrantedBefore(r) ==
    {q \in zset[user[r]] : pc[q] = "granted" /\ execAt[q] < execAt[r]}

RetryAfterIsTrue ==
    \A r \in Request : pc[r] \in {"refused", "refusedHolding"} =>
        Cardinality({q \in GrantedBefore(r) : stamp[q] > RetryAt(r) - Window})
            < Allowance

(* The same promise on the in-process path, where the head of the deque    *)
(* decides the wait although the stamps behind it may be older: as long as *)
(* the user has sent nothing since, and the worker has not had to forget   *)
(* anybody, the deque has room for a client that comes back in time.       *)
Latest(r) ==
    \A q \in Request :
        user[q] = user[r] /\ pc[q] # "new" => stamp[q] <= stamp[r]

RetryAfterHereIsTrue ==
    \A r \in Request :
        pc[r] = "refusedHere" /\ Latest(r) /\ Roomy(worker[r]) =>
            LET h == table[worker[r]][user[r]] IN
            \A k \in 0..Len(h) :
                Drops(k, h, stamp[r] + retryAfter[r] * Second - Window) =>
                    Len(h) - k < Allowance

(* Retry-After never sends a client back too early, on either path.        *)
RetryAfterKept == RetryAfterIsTrue /\ RetryAfterHereIsTrue

(* The module docstring's claim, lines 76-79: over-strict during a burst,  *)
(* never over-permissive.  Counted by the timestamps the limiter itself    *)
(* records, over the configured window.                                    *)
NeverOverPermissive ==
    \A u \in User : \A last \in Request :
        Cardinality({r \in Request :
            /\ pc[r] = "granted"
            /\ user[r] = u
            /\ stamp[r] <= stamp[last]
            /\ stamp[r] > stamp[last] - Window}) <= Allowance
=============================================================================
