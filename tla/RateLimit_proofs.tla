-------------------------- MODULE RateLimit_proofs --------------------------
(***************************************************************************)
(* What RateLimit guarantees for every set of requests, users and workers  *)
(* and every allowance, window, lag and skew: its state is well typed, and *)
(* neither Redis nor a worker whose table has room ever lets more than     *)
(* Allowance requests of a user through within SafeWindow ticks; the table *)
(* stays under its cap, a refused request keeps no slot, and nobody is     *)
(* sent back before there is room.                                         *)
(***************************************************************************)
EXTENDS RateLimit, FiniteSetTheorems, SequenceTheorems, TLAPS

-----------------------------------------------------------------------------
(* Every set of requests has a cardinality, which bounds its subsets'.     *)
LEMMA RequestSets ==
    ASSUME NEW S \in SUBSET Request, NEW T \in SUBSET S
    PROVE  /\ Cardinality(S) \in Nat
           /\ Cardinality(T) \in Nat
           /\ Cardinality(T) <= Cardinality(S)
<1>1. IsFiniteSet(S)
  BY RequestFinite, FS_Subset
<1>2. IsFiniteSet(T) /\ Cardinality(T) <= Cardinality(S)
  BY <1>1, FS_Subset
<1>3. QED
  BY <1>1, <1>2, FS_CardinalityType

(* The wait may come out negative.                                         *)
LEMMA WaitType ==
    ASSUME NEW first \in Nat, NEW last \in Nat
    PROVE  first + Window - last \in Int
  BY ParametersAssumption

(* Retry-After is a natural number of seconds.                             *)
LEMMA SecondsType ==
    ASSUME NEW ticks \in Int
    PROVE  Seconds(ticks) \in Nat
<1>1. CASE ticks < 0
  BY <1>1 DEF Seconds
<1>2. CASE ticks >= 0
  <2>1. ticks \div Second \in Nat
    BY <1>2, ParametersAssumption
  <2>2. QED
    BY <1>2, <2>1 DEF Seconds
<1>3. QED
  BY <1>1, <1>2

(* What _prune leaves of a history of requests is one of requests.         *)
LEMMA PrunedHistory ==
    ASSUME NEW h \in Seq(Request), NEW k \in 0..Len(h)
    PROVE  LET left == SubSeq(h, k + 1, Len(h)) IN
           /\ left \in Seq(Request)
           /\ Len(left) = Len(h) - k
           /\ \A i \in 1..(Len(h) - k) : left[i] = h[k + i]
<1>1. Len(h) \in Nat /\ \A i \in k + 1..Len(h) : h[i] \in Request
  BY ElementOfSeq, LenProperties
<1>2. k + 1 \in Int /\ Len(h) \in Int
  BY <1>1
<1>3. /\ SubSeq(h, k + 1, Len(h)) \in Seq(Request)
      /\ Len(SubSeq(h, k + 1, Len(h)))
            = IF k + 1 <= Len(h) THEN Len(h) - (k + 1) + 1 ELSE 0
      /\ \A i \in 1..(Len(h) - (k + 1) + 1) :
            SubSeq(h, k + 1, Len(h))[i] = h[(k + 1) + i - 1]
  BY <1>1, <1>2, SubSeqProperties
<1>4. QED
  BY <1>1, <1>3

-----------------------------------------------------------------------------
(* Every variable keeps its type, whatever the parameters.                 *)
LEMMA TypeStep == TypeOK /\ [Next]_vars => TypeOK'
<1> SUFFICES ASSUME TypeOK, [Next]_vars PROVE TypeOK'
  OBVIOUS
<1> USE DEF TypeOK, Steps
<1>1. CASE Tick
  BY <1>1 DEF Tick, requestVars, redisVars
<1>2. ASSUME NEW r \in Request, Arrive(r) PROVE TypeOK'
  <2>1. now + skew[worker[r]] \in Nat
    BY ParametersAssumption
  <2>2. QED
    BY <1>2, <2>1 DEF Arrive, redisVars
<1>3. ASSUME NEW r \in Request, Execute(r) PROVE TypeOK'
  <2>1. Claimed(r) \in SUBSET Request
    BY DEF Claimed, Live
  <2>2. Cardinality(Claimed(r)) \in Nat
    BY <2>1, RequestSets
  <2>3. oldest' \in [Request -> Nat]
    BY <1>3 DEF Execute
  <2>4. now + Window \in Nat
    BY ParametersAssumption
  <2>5. QED
    BY <1>3, <2>1, <2>2, <2>3, <2>4 DEF Execute
<1>4. ASSUME NEW r \in Request, Grant(r) PROVE TypeOK'
  BY <1>4 DEF Grant, redisVars
<1>5. ASSUME NEW r \in Request, OverLimit(r) PROVE TypeOK'
  BY <1>5 DEF OverLimit, redisVars
<1>6. ASSUME NEW r \in Request, NEW how \in {"refused", "refusedHolding"},
             Refuse(r, how), zset' \in [User -> SUBSET Request]
      PROVE TypeOK'
  <2>1. oldest[r] + Window - stamp[r] \in Int
    BY WaitType
  <2>2. Seconds(oldest[r] + Window - stamp[r]) \in Nat
    BY <2>1, SecondsType
  <2>3. QED
    BY <1>6, <2>2 DEF Refuse
<1>7. ASSUME NEW r \in Request, Reclaim(r) PROVE TypeOK'
  <2>1. zset' \in [User -> SUBSET Request]
    BY <1>7 DEF Reclaim, Live
  <2>2. QED
    BY <1>6, <1>7, <2>1 DEF Reclaim
<1>8. ASSUME NEW r \in Request, ReclaimFails(r) PROVE TypeOK'
  BY <1>6, <1>8 DEF ReclaimFails
<1>9. ASSUME NEW r \in Request, FallBack(r) PROVE TypeOK'
  <2> DEFINE h == table[worker[r]][user[r]]
  <2>1. PICK k \in 0..Len(h) :
          \/ RefuseHere(r, SubSeq(h, k + 1, Len(h)))
          \/ GrantHere(r, SubSeq(h, k + 1, Len(h)))
    BY <1>9, Zenon DEF FallBack, CheckInProcess
  <2> DEFINE left == SubSeq(h, k + 1, Len(h))
  <2>2. left \in Seq(Request)
    BY PrunedHistory
  <2> HIDE DEF left
  <2>3. CASE RefuseHere(r, left)
    <3>1. left[1] \in Request
      BY <2>2, <2>3, ElementOfSeq, ParametersAssumption DEF RefuseHere
    <3>2. stamp[left[1]] + Window - stamp[r] \in Int
      <4>1. stamp[left[1]] \in Nat /\ stamp[r] \in Nat
        BY <3>1
      <4>2. QED
        BY <4>1, WaitType
    <3>3. Seconds(stamp[left[1]] + Window - stamp[r]) \in Nat
      BY <3>2, SecondsType
    <3>4. QED
      BY <1>9, <2>2, <2>3, <3>3 DEF FallBack, RefuseHere, redisVars
  <2>4. CASE GrantHere(r, left)
    <3>1. Append(left, r) \in Seq(Request)
      BY <2>2
    <3> DEFINE t == [table[worker[r]] EXCEPT ![user[r]] = Append(left, r)]
    <3>2. t \in [User -> Seq(Request)]
      BY <3>1
    <3> HIDE DEF t
    <3>3. \A K \in SUBSET User :
            [u \in User |-> IF u \in K THEN t[u] ELSE <<>>]
               \in [User -> Seq(Request)]
      BY <3>2, EmptySeq
    <3>4. PICK K \in SUBSET User :
            table' = [table EXCEPT
                ![worker[r]] = [u \in User |-> IF u \in K THEN t[u] ELSE <<>>]]
      BY <2>4, Zenon DEF GrantHere, t
    <3>5. table' \in [Worker -> [User -> Seq(Request)]]
      BY <3>3, <3>4
    <3>6. QED
      BY <1>9, <2>4, <3>5 DEF FallBack, GrantHere, redisVars
  <2>5. QED
    BY <2>1, <2>3, <2>4 DEF left
<1>10. CASE UNCHANGED vars
  BY <1>10 DEF vars, requestVars, redisVars
<1>11. QED
  BY <1>1, <1>2, <1>3, <1>4, <1>5, <1>7, <1>8, <1>9, <1>10 DEF Next

(* Type correctness of the limiter.                                        *)
THEOREM TypeCorrect == Spec => []TypeOK
<1>1. Init => TypeOK
  <2>1. <<>> \in Seq(Request)
    BY EmptySeq
  <2>2. QED
    BY <2>1 DEF Init, TypeOK, Steps
<1>2. QED
  BY <1>1, TypeStep, PTL DEF Spec

-----------------------------------------------------------------------------
(***************************************************************************)
(* The Redis path.  RedisWindowBound speaks of granted requests only and   *)
(* is not inductive: a request counts from the moment its transaction is   *)
(* executed, and the transaction can only count right because the entries  *)
(* of the earlier ones are still in the set and the key has not expired.   *)
(***************************************************************************)

\* The transaction said yes, the caller has heard it or is about to.
Holds(r) == pc[r] \in {"executed", "granted"} /\ used[r] <= Allowance

HoldersIn(u, t) ==
    {r \in Request : /\ Holds(r)
                     /\ user[r] = u
                     /\ execAt[r] <= t
                     /\ execAt[r] > t - SafeWindow}

\* No undecided request carries a timestamp older than MaxLag.
LagInv ==
    \A r \in Request : pc[r] \in {"stamped", "executed"} =>
        /\ ReadClockAt(r) <= now
        /\ now <= ReadClockAt(r) + MaxLag

\* A holder's entry is in the set for as long as it has to be counted.
EntryInv ==
    \A r \in Request :
        /\ pc[r] = "granted" => used[r] <= Allowance
        /\ Holds(r) =>
              /\ execAt[r] <= now
              /\ execAt[r] <= stamp[r] + MaxLag
              /\ execAt[r] + Window <= expires[user[r]]
              /\ execAt[r] > now - SafeWindow => r \in zset[user[r]]

HolderBound ==
    \A u \in User, t \in 0..now : Cardinality(HoldersIn(u, t)) <= Allowance

RedisInv == TypeOK /\ LagInv /\ EntryInv /\ HolderBound

(* Fewer holders cannot exceed the allowance.                              *)
LEMMA FewerHolders ==
    ASSUME RedisInv, NEW u \in User, NEW t \in 0..now,
           NEW S, S \subseteq HoldersIn(u, t)
    PROVE  Cardinality(S) <= Allowance
<1>1. HoldersIn(u, t) \in SUBSET Request
  BY DEF HoldersIn
<1>2. Cardinality(S) <= Cardinality(HoldersIn(u, t))
      /\ Cardinality(S) \in Nat /\ Cardinality(HoldersIn(u, t)) \in Nat
  BY <1>1, RequestSets
<1>3. Cardinality(HoldersIn(u, t)) <= Allowance
  BY DEF RedisInv, HolderBound
<1>4. QED
  BY <1>2, <1>3, ParametersAssumption

(* A step that executes no transaction and moves no clock can only let go  *)
(* of holders; it keeps the invariant if it keeps the holders' entries.    *)
LEMMA QuietStep ==
    ASSUME RedisInv, TypeOK',
           UNCHANGED <<now, skew, user, worker, stamp, expires>>,
           \A q \in Request : Holds(q)' =>
               Holds(q) /\ execAt'[q] = execAt[q],
           \A q \in Request : pc'[q] = "granted" => used'[q] <= Allowance,
           \A q \in Request : pc'[q] \in {"stamped", "executed"} =>
               pc[q] \in {"stamped", "executed"},
           \A q \in Request : Holds(q) /\ execAt[q] > now - SafeWindow =>
               q \in zset'[user[q]]
    PROVE  RedisInv'
<1>1. LagInv'
  BY DEF RedisInv, LagInv, ReadClockAt
<1>2. EntryInv'
  BY DEF RedisInv, EntryInv
<1>3. HolderBound'
  <2> SUFFICES ASSUME NEW u \in User, NEW t \in 0..now
               PROVE  Cardinality(HoldersIn(u, t)') <= Allowance
    BY DEF HolderBound
  <2>1. HoldersIn(u, t)' \subseteq HoldersIn(u, t)
    BY DEF HoldersIn
  <2>2. QED
    BY <2>1, FewerHolders
<1>4. QED
  BY <1>1, <1>2, <1>3 DEF RedisInv

(* The clock: every request that counts at the new instant counted at the  *)
(* one before.                                                             *)
LEMMA RedisTick ==
    ASSUME RedisInv, TypeOK', Tick
    PROVE  RedisInv'
<1> USE DEF RedisInv
<1>1. now' = now + 1 /\ UNCHANGED <<skew, requestVars, redisVars, table>>
  BY DEF Tick
<1>2. LagInv'
  BY <1>1, ParametersAssumption DEF Tick, LagInv, ReadClockAt, requestVars, TypeOK
<1>3. EntryInv'
  <2> SUFFICES ASSUME NEW r \in Request
               PROVE  /\ pc[r] = "granted" => used[r] <= Allowance
                      /\ Holds(r) =>
                            /\ execAt[r] <= now'
                            /\ execAt[r] <= stamp[r] + MaxLag
                            /\ execAt[r] + Window <= expires[user[r]]
                            /\ execAt[r] > now' - SafeWindow => r \in zset[user[r]]
    BY <1>1 DEF EntryInv, Holds, requestVars, redisVars, SafeWindow
  <2>1. now \in Nat /\ execAt[r] \in Nat
    BY DEF TypeOK
  <2>2. SafeWindow \in Int
    BY ParametersAssumption DEF SafeWindow
  <2>3. execAt[r] > now' - SafeWindow => execAt[r] > now - SafeWindow
    BY <1>1, <2>1, <2>2
  <2>4. execAt[r] <= now => execAt[r] <= now'
    BY <1>1, <2>1
  <2>5. QED
    BY <2>3, <2>4 DEF EntryInv
<1>4. HolderBound'
  <2> SUFFICES ASSUME NEW u \in User, NEW t \in 0..(now + 1)
               PROVE  Cardinality(HoldersIn(u, t)') <= Allowance
    BY <1>1 DEF HolderBound
  <2>1. HoldersIn(u, t)' = HoldersIn(u, t)
    BY <1>1 DEF HoldersIn, Holds, requestVars, SafeWindow
  <2>2. CASE t \in 0..now
    BY <2>1, <2>2, FewerHolders
  <2>3. CASE t = now + 1
    <3>1. HoldersIn(u, t) \subseteq HoldersIn(u, now)
      <4> SUFFICES ASSUME NEW r \in HoldersIn(u, t)
                   PROVE  r \in HoldersIn(u, now)
        OBVIOUS
      <4> HIDE DEF RedisInv
      <4>1. /\ r \in Request /\ Holds(r) /\ user[r] = u
            /\ execAt[r] > t - SafeWindow
        BY DEF HoldersIn
      <4>2. execAt[r] <= now
        BY <4>1 DEF EntryInv, RedisInv
      <4>3. execAt[r] \in Nat /\ now \in Nat
        BY <4>1 DEF TypeOK, RedisInv
      <4>4. SafeWindow \in Int
        BY ParametersAssumption DEF SafeWindow
      <4>5. execAt[r] > now - SafeWindow
        BY <2>3, <4>1, <4>3, <4>4
      <4>6. QED
        BY <4>1, <4>2, <4>5 DEF HoldersIn
    <3>2. now \in 0..now
      BY DEF TypeOK
    <3>3. QED
      BY <2>1, <3>1, <3>2, FewerHolders
  <2>4. QED
    BY <2>2, <2>3 DEF TypeOK
<1>5. QED
  BY <1>2, <1>3, <1>4

(* The transaction finds the entry of every holder it has to count.        *)
LEMMA HoldersAreClaimed ==
    ASSUME RedisInv, NEW r \in Request, pc[r] = "stamped",
           NEW q \in HoldersIn(user[r], now)
    PROVE  q \in Claimed(r)
<1>1. /\ q \in Request /\ Holds(q) /\ user[q] = user[r]
      /\ execAt[q] <= now /\ execAt[q] > now - SafeWindow
  BY DEF HoldersIn
<1>2. /\ now \in Nat /\ stamp[q] \in Nat /\ stamp[r] \in Nat
      /\ execAt[q] \in Nat /\ expires[user[r]] \in Nat
      /\ skew[worker[r]] \in 0..MaxSkew
  BY <1>1 DEF RedisInv, TypeOK
<1>3. q \in Live(user[r])
  <2>1. execAt[q] + Window <= expires[user[r]] /\ q \in zset[user[r]]
    BY <1>1 DEF RedisInv, EntryInv
  <2>2. now <= expires[user[r]]
    BY <1>1, <1>2, <2>1, ParametersAssumption DEF SafeWindow
  <2>3. QED
    BY <1>2, <2>1, <2>2 DEF Live
<1>4. stamp[q] > stamp[r] - Window
  <2>1. execAt[q] <= stamp[q] + MaxLag
    BY <1>1 DEF RedisInv, EntryInv
  <2>2. stamp[r] <= now + MaxSkew
    <3>1. stamp[r] - skew[worker[r]] <= now
      BY DEF RedisInv, LagInv, ReadClockAt
    <3>2. MaxSkew \in Nat
      BY ParametersAssumption
    <3>3. QED
      BY <1>2, <3>1, <3>2
  <2>3. QED
    BY <1>1, <1>2, <2>1, <2>2, ParametersAssumption DEF SafeWindow
<1>5. QED
  BY <1>3, <1>4 DEF Claimed

(* The transaction keeps the invariant: whoever it calls a holder finds    *)
(* room among the holders it counts.                                       *)
LEMMA RedisExecute ==
    ASSUME RedisInv, TypeOK', NEW r \in Request, Execute(r)
    PROVE  RedisInv'
<1> USE DEF RedisInv
<1>1. /\ pc[r] = "stamped"
      /\ zset' = [zset EXCEPT ![user[r]] = Claimed(r)]
      /\ used' = [used EXCEPT ![r] = Cardinality(Claimed(r))]
      /\ expires' = [expires EXCEPT ![user[r]] = now + Window]
      /\ execAt' = [execAt EXCEPT ![r] = now]
      /\ pc' = [pc EXCEPT ![r] = "executed"]
      /\ UNCHANGED <<now, skew, user, worker, stamp>>
  BY DEF Execute
<1>2. LagInv'
  BY <1>1 DEF LagInv, ReadClockAt, TypeOK
<1>3. now <= stamp[r] + MaxLag
  <2>1. now <= stamp[r] - skew[worker[r]] + MaxLag
    BY <1>1 DEF LagInv, ReadClockAt
  <2>2. /\ now \in Nat /\ stamp[r] \in Nat /\ MaxLag \in Nat
        /\ skew[worker[r]] \in 0..MaxSkew /\ MaxSkew \in Nat
    BY ParametersAssumption DEF TypeOK
  <2>3. QED
    BY <2>1, <2>2
<1>4. \A q \in Request : q # r =>
        /\ Holds(q)' <=> Holds(q)
        /\ execAt'[q] = execAt[q] /\ pc'[q] = pc[q] /\ used'[q] = used[q]
  BY <1>1 DEF Holds, TypeOK
<1>5. execAt'[r] = now /\ pc'[r] = "executed" /\ r \in Claimed(r)
      /\ used'[r] = Cardinality(Claimed(r))
  BY <1>1 DEF TypeOK, Claimed
<1>6. ~Holds(r)
  BY <1>1 DEF Holds
<1>7. EntryInv'
  <2> SUFFICES ASSUME NEW q \in Request
               PROVE  /\ pc'[q] = "granted" => used'[q] <= Allowance
                      /\ Holds(q)' =>
                            /\ execAt'[q] <= now
                            /\ execAt'[q] <= stamp[q] + MaxLag
                            /\ execAt'[q] + Window <= expires'[user[q]]
                            /\ execAt'[q] > now - SafeWindow =>
                                  q \in zset'[user[q]]
    BY <1>1 DEF EntryInv, SafeWindow
  <2>1. CASE q = r
    BY <1>1, <1>3, <1>5, <2>1, ParametersAssumption DEF TypeOK
  <2>2. CASE q # r
    <3>1. pc'[q] = "granted" => used'[q] <= Allowance
      BY <1>4, <2>2 DEF EntryInv
    <3>2. ASSUME Holds(q)'
          PROVE  /\ Holds(q) /\ execAt'[q] = execAt[q]
                 /\ execAt[q] <= now
                 /\ execAt[q] <= stamp[q] + MaxLag
                 /\ execAt[q] + Window <= expires[user[q]]
                 /\ execAt[q] > now - SafeWindow => q \in zset[user[q]]
      BY <1>4, <2>2, <3>2 DEF EntryInv
    <3>3. ASSUME Holds(q)' PROVE execAt[q] + Window <= expires'[user[q]]
      <4>1. execAt[q] <= now /\ execAt[q] + Window <= expires[user[q]]
        BY <3>2, <3>3
      <4>2. /\ execAt[q] \in Nat /\ now \in Nat /\ user[q] \in User
            /\ Window \in Nat
        BY ParametersAssumption DEF TypeOK
      <4>3. CASE user[q] = user[r]
        <5>1. expires'[user[q]] = now + Window
          BY <1>1, <4>2, <4>3 DEF TypeOK
        <5>2. QED
          BY <4>1, <4>2, <5>1
      <4>4. CASE user[q] # user[r]
        BY <1>1, <4>1, <4>4 DEF TypeOK
      <4>5. QED
        BY <4>3, <4>4
    <3>4. ASSUME Holds(q)', execAt[q] > now - SafeWindow
          PROVE  q \in zset'[user[q]]
      <4>1. CASE user[q] = user[r]
        <5>1. q \in HoldersIn(user[r], now)
          BY <3>2, <3>4, <4>1 DEF HoldersIn
        <5>2. q \in Claimed(r)
          BY <1>1, <5>1, HoldersAreClaimed
        <5>3. QED
          BY <1>1, <4>1, <5>2 DEF TypeOK
      <4>2. CASE user[q] # user[r]
        BY <1>1, <3>2, <3>4, <4>2 DEF TypeOK
      <4>3. QED
        BY <4>1, <4>2
    <3>5. QED
      BY <3>1, <3>2, <3>3, <3>4
  <2>3. QED
    BY <2>1, <2>2
<1>8. HolderBound'
  <2> SUFFICES ASSUME NEW u \in User, NEW t \in 0..now
               PROVE  Cardinality(HoldersIn(u, t)') <= Allowance
    BY <1>1 DEF HolderBound
  <2>1. CASE r \notin HoldersIn(u, t)'
    <3>1. HoldersIn(u, t)' \subseteq HoldersIn(u, t)
      BY <1>1, <1>4, <2>1 DEF HoldersIn, SafeWindow
    <3>2. QED
      BY <3>1, FewerHolders
  <2>2. CASE r \in HoldersIn(u, t)'
    <3>1. u = user[r] /\ t = now /\ Cardinality(Claimed(r)) <= Allowance
      BY <1>1, <1>5, <2>2 DEF HoldersIn, Holds, TypeOK
    <3>2. \A q \in HoldersIn(u, t)' : q # r => q \in HoldersIn(user[r], now)
      BY <1>1, <1>4, <3>1 DEF HoldersIn, SafeWindow
    <3>3. HoldersIn(u, t)' \subseteq Claimed(r)
      BY <1>1, <1>5, <3>2, HoldersAreClaimed
    <3>4. Claimed(r) \in SUBSET Request
      BY DEF Claimed, Live, TypeOK
    <3>5. QED
      BY <3>1, <3>3, <3>4, RequestSets, ParametersAssumption
  <2>3. QED
    BY <2>1, <2>2
<1>9. QED
  BY <1>2, <1>7, <1>8

(* Every step keeps the Redis invariant.                                   *)
LEMMA RedisStep == RedisInv /\ TypeOK' /\ [Next]_vars => RedisInv'
<1> SUFFICES ASSUME RedisInv, TypeOK', [Next]_vars PROVE RedisInv'
  OBVIOUS
<1>1. CASE Tick
  BY <1>1, RedisTick
<1>2. ASSUME NEW r \in Request, Arrive(r) PROVE RedisInv'
  <2> USE DEF RedisInv
  <2>1. /\ pc[r] = "new"
        /\ pc' = [pc EXCEPT ![r] = "stamped"]
        /\ stamp' = [stamp EXCEPT ![r] = now + skew[worker[r]]]
        /\ UNCHANGED <<now, skew, user, worker, execAt, used, zset, expires>>
    BY <1>2 DEF Arrive, redisVars
  <2>2. \A q \in Request : Holds(q)' => Holds(q) /\ q # r
    BY <2>1 DEF Holds, TypeOK
  <2>3. LagInv'
    <3> SUFFICES ASSUME NEW q \in Request, pc'[q] \in {"stamped", "executed"}
                 PROVE  /\ stamp'[q] - skew[worker[q]] <= now
                        /\ now <= stamp'[q] - skew[worker[q]] + MaxLag
      BY <2>1 DEF LagInv, ReadClockAt
    <3>1. CASE q = r
      <4>1. stamp'[q] = now + skew[worker[q]]
        BY <2>1, <3>1 DEF TypeOK
      <4>2. now \in Nat /\ skew[worker[q]] \in Int /\ MaxLag \in Nat
        BY ParametersAssumption DEF TypeOK
      <4>3. QED
        BY <4>1, <4>2
    <3>2. CASE q # r
      BY <2>1, <3>2 DEF LagInv, ReadClockAt, TypeOK
    <3>3. QED
      BY <3>1, <3>2
  <2>4. EntryInv'
    BY <2>1, <2>2 DEF EntryInv, SafeWindow, TypeOK
  <2>5. HolderBound'
    <3> SUFFICES ASSUME NEW u \in User, NEW t \in 0..now
                 PROVE  Cardinality(HoldersIn(u, t)') <= Allowance
      BY <2>1 DEF HolderBound
    <3>1. HoldersIn(u, t)' \subseteq HoldersIn(u, t)
      BY <2>1, <2>2 DEF HoldersIn, SafeWindow
    <3>2. QED
      BY <3>1, FewerHolders
  <2>6. QED
    BY <2>3, <2>4, <2>5
<1>3. ASSUME NEW r \in Request, Execute(r) PROVE RedisInv'
  BY <1>3, RedisExecute
<1>4. ASSUME NEW r \in Request, Grant(r) \/ OverLimit(r) PROVE RedisInv'
  BY <1>4, QuietStep
     DEF Grant, OverLimit, redisVars, Holds, RedisInv, EntryInv, TypeOK
<1>5. ASSUME NEW r \in Request, Reclaim(r) PROVE RedisInv'
  <2>1. \A q \in Request : Holds(q) /\ execAt[q] > now - SafeWindow =>
            q \in zset'[user[q]]
    <3> SUFFICES ASSUME NEW q \in Request, Holds(q),
                        execAt[q] > now - SafeWindow
                 PROVE  q \in zset'[user[q]]
      OBVIOUS
    <3>1. /\ q # r /\ q \in zset[user[q]]
          /\ execAt[q] + Window <= expires[user[q]]
      BY <1>5 DEF Reclaim, Holds, RedisInv, EntryInv
    <3>2. now <= expires[user[q]]
      <4>1. /\ now \in Nat /\ execAt[q] \in Nat /\ user[q] \in User
            /\ expires[user[q]] \in Nat
        BY DEF RedisInv, TypeOK
      <4>2. QED
        BY <3>1, <4>1, ParametersAssumption DEF SafeWindow
    <3>3. q \in Live(user[q]) \ {r}
      <4>1. now \in Nat /\ user[q] \in User /\ expires[user[q]] \in Nat
        BY DEF RedisInv, TypeOK
      <4>2. ~(now > expires[user[q]])
        BY <3>2, <4>1
      <4>3. QED
        BY <3>1, <4>2 DEF Live
    <3>4. QED
      BY <1>5, <3>1, <3>3 DEF Reclaim, RedisInv, TypeOK
  <2>2. /\ pc[r] = "over" /\ pc' = [pc EXCEPT ![r] = "refused"]
        /\ UNCHANGED <<now, skew, user, worker, stamp, execAt, used, expires>>
    BY <1>5 DEF Reclaim, Refuse
  <2>3. \A q \in Request : pc'[q] \in {"stamped", "executed", "granted"} =>
            pc'[q] = pc[q]
    BY <2>2 DEF RedisInv, TypeOK
  <2>4. QED
    BY <2>1, <2>2, <2>3, QuietStep DEF Holds, RedisInv, EntryInv
<1>6. ASSUME NEW r \in Request, ReclaimFails(r) PROVE RedisInv'
  <2>1. /\ pc[r] = "over" /\ pc' = [pc EXCEPT ![r] = "refusedHolding"]
        /\ UNCHANGED <<now, skew, user, worker, stamp, execAt, used, zset, expires>>
    BY <1>6 DEF ReclaimFails, Refuse
  <2>2. \A q \in Request : pc'[q] \in {"stamped", "executed", "granted"} =>
            pc'[q] = pc[q]
    BY <2>1 DEF RedisInv, TypeOK
  <2>3. QED
    BY <2>1, <2>2, QuietStep DEF Holds, RedisInv, EntryInv
<1>7. ASSUME NEW r \in Request, FallBack(r) PROVE RedisInv'
  <2>1. /\ UNCHANGED <<now, skew, user, worker, stamp, used, zset, expires>>
        /\ \/ /\ pc' = [pc EXCEPT ![r] = "refusedHere"]
              /\ UNCHANGED execAt
           \/ /\ pc' = [pc EXCEPT ![r] = "grantedHere"]
              /\ execAt' = [execAt EXCEPT ![r] = now]
    BY <1>7, Zenon DEF FallBack, CheckInProcess, RefuseHere, GrantHere, redisVars
  <2>2. \A q \in Request : pc'[q] \in {"stamped", "executed", "granted"} =>
            q # r /\ pc'[q] = pc[q] /\ execAt'[q] = execAt[q]
    BY <2>1 DEF RedisInv, TypeOK
  <2>3. QED
    BY <2>1, <2>2, QuietStep DEF Holds, RedisInv, EntryInv
<1>8. CASE UNCHANGED vars
  BY <1>8, QuietStep DEF vars, requestVars, redisVars, Holds, RedisInv, EntryInv
<1>9. QED
  BY <1>1, <1>2, <1>3, <1>4, <1>5, <1>6, <1>7, <1>8 DEF Next

(* The Redis half of the state stays in step with the history of grants.   *)
LEMMA RedisInvariant == Spec => []RedisInv
<1>1. Init => RedisInv
  <2> SUFFICES ASSUME Init PROVE RedisInv
    OBVIOUS
  <2>1. TypeOK
    BY EmptySeq DEF Init, TypeOK, Steps
  <2>2. \A r \in Request : pc[r] = "new"
    BY DEF Init
  <2>3. \A u \in User, t \in 0..now : HoldersIn(u, t) = {}
    BY <2>2 DEF HoldersIn, Holds
  <2>4. QED
    <3>1. LagInv /\ EntryInv
      BY <2>2 DEF LagInv, EntryInv, Holds
    <3>2. HolderBound
      BY <2>3, FS_EmptySet, ParametersAssumption DEF HolderBound
    <3>3. QED
      BY <2>1, <3>1, <3>2 DEF RedisInv
<1>2. QED
  BY <1>1, RedisStep, TypeCorrect, PTL DEF Spec

(* However the requests of a user interleave, over all workers and         *)
(* whatever fails, Redis lets at most Allowance of them through in any     *)
(* stretch of SafeWindow ticks: two concurrent requests are never both     *)
(* told yes for one free slot.                                             *)
THEOREM RedisNeverOverGrants == Spec => []RedisWindowBound
<1>1. RedisInv => RedisWindowBound
  <2> SUFFICES ASSUME RedisInv, NEW u \in User, NEW t \in 0..now
               PROVE  Cardinality(GrantedIn(u, t)) <= Allowance
    BY DEF RedisWindowBound
  <2>1. GrantedIn(u, t) \subseteq HoldersIn(u, t)
    BY DEF GrantedIn, HoldersIn, Holds, RedisInv, EntryInv
  <2>2. QED
    BY <2>1, FewerHolders
<1>2. QED
  BY <1>1, RedisInvariant, PTL

(***************************************************************************)
(* The in-process path.  A worker evicts nobody while it is Roomy, because *)
(* its table holds only requests it has let through.                       *)
(***************************************************************************)
Here(r) == pc[r] = "grantedHere"

In(q, history) == \E i \in 1..Len(history) : history[i] = q

\* A request granted here stays in its worker's deque while it counts.
DequeInv ==
    \A q \in Request, w \in Worker, u \in User :
        Here(q) /\ worker[q] = w /\ user[q] = u =>
            /\ execAt[q] <= now
            /\ execAt[q] <= stamp[q] + MaxLag
            /\ Roomy(w) /\ execAt[q] > now - SafeWindow => In(q, table[w][u])

\* A deque holds requests of its user that its worker has let through.
TableInv ==
    \A q \in Request, w \in Worker, u \in User :
        In(q, table[w][u]) => Here(q) /\ worker[q] = w /\ user[q] = u

WorkerInv == TypeOK /\ LagInv /\ DequeInv /\ TableInv /\ WorkerWindowBound

(* A worker serves finitely many users.                                    *)
LEMMA UsersFinite ==
    ASSUME NEW w
    PROVE  IsFiniteSet(UsersHere(w)) /\ IsFiniteSet(UsersHere(w)')
<1>1. ASSUME NEW R \in SUBSET Request, NEW f
      PROVE  IsFiniteSet({f[r] : r \in R})
  <2>1. [r \in R |-> f[r]] \in Surjection(R, {f[r] : r \in R})
    BY DEF Surjection
  <2>2. QED
    BY <2>1, RequestFinite, FS_Subset, FS_Surjection
<1>2. IsFiniteSet(UsersHere(w))
  <2> DEFINE R == {q \in Request : pc[q] = "grantedHere" /\ worker[q] = w}
  <2>1. IsFiniteSet({user[r] : r \in R})
    BY <1>1
  <2>2. QED
    BY <2>1 DEF UsersHere
<1>3. IsFiniteSet(UsersHere(w)')
  <2> DEFINE R == {q \in Request : pc'[q] = "grantedHere" /\ worker'[q] = w}
  <2>1. IsFiniteSet({user'[r] : r \in R})
    BY <1>1
  <2>2. QED
    BY <2>1 DEF UsersHere
<1>4. QED
  BY <1>2, <1>3

(* A step that revokes no grant leaves no more room than there was.        *)
LEMMA RoomBefore ==
    ASSUME NEW w, Roomy(w)', UNCHANGED <<user, worker>>,
           \A q \in Request : Here(q) => Here(q)'
    PROVE  Roomy(w)
<1> DEFINE R == {q \in Request : pc[q] = "grantedHere" /\ worker[q] = w}
           R2 == {q \in Request : pc'[q] = "grantedHere" /\ worker[q] = w}
<1>1. UsersHere(w) = {user[r] : r \in R} /\ UsersHere(w)' = {user[r] : r \in R2}
  BY DEF UsersHere
<1>2. R \subseteq R2
  BY DEF Here
<1>3. UsersHere(w) \subseteq UsersHere(w)'
  BY <1>1, <1>2
<1>4. /\ Cardinality(UsersHere(w)) <= Cardinality(UsersHere(w)')
      /\ Cardinality(UsersHere(w)) \in Nat
      /\ Cardinality(UsersHere(w)') \in Nat
  BY <1>3, UsersFinite, FS_Subset, FS_CardinalityType
<1>5. QED
  BY <1>4, ParametersAssumption DEF Roomy

(* A sequence of n requests has at most n different elements.              *)
LEMMA FewElements ==
    ASSUME NEW s \in Seq(Request), NEW S,
           \A x \in S : In(x, s)
    PROVE  Cardinality(S) <= Len(s)
<1> DEFINE R == {s[i] : i \in 1..Len(s)}
<1>1. Len(s) \in Nat /\ \A i \in 1..Len(s) : s[i] \in Request
  BY ElementOfSeq, LenProperties
<1>2. [i \in 1..Len(s) |-> s[i]] \in Surjection(1..Len(s), R)
  BY DEF Surjection
<1>3. ExistsSurjection(1..Len(s), R)
  BY <1>2 DEF ExistsSurjection
<1>4. Cardinality(R) <= Len(s)
  BY <1>1, <1>3, FS_SurjCardinalityBound
<1>5. S \in SUBSET R /\ R \in SUBSET Request
  BY <1>1 DEF In
<1>6. Cardinality(S) <= Cardinality(R)
      /\ Cardinality(S) \in Nat /\ Cardinality(R) \in Nat
  BY <1>5, RequestSets
<1>7. QED
  BY <1>1, <1>4, <1>6

(* Fewer requests granted by a worker cannot exceed the allowance.         *)
LEMMA FewerHere ==
    ASSUME WorkerInv, NEW w \in Worker, Roomy(w),
           NEW u \in User, NEW t \in 0..now,
           NEW S, S \subseteq GrantedHereIn(w, u, t)
    PROVE  Cardinality(S) <= Allowance
<1>1. GrantedHereIn(w, u, t) \in SUBSET Request
  BY DEF GrantedHereIn
<1>2. Cardinality(S) <= Cardinality(GrantedHereIn(w, u, t))
      /\ Cardinality(S) \in Nat
      /\ Cardinality(GrantedHereIn(w, u, t)) \in Nat
  BY <1>1, RequestSets
<1>3. Cardinality(GrantedHereIn(w, u, t)) <= Allowance
  BY DEF WorkerInv, WorkerWindowBound
<1>4. QED
  BY <1>2, <1>3, ParametersAssumption

(* No step but FallBack touches a table or decides a request here.         *)
LEMMA OtherStep ==
    ASSUME WorkerInv, TypeOK', LagInv',
           UNCHANGED <<skew, user, worker, table>>,
           now' = now \/ now' = now + 1,
           \A q \in Request : /\ Here(q)' <=> Here(q)
                              /\ Here(q) => /\ execAt'[q] = execAt[q]
                                            /\ stamp'[q] = stamp[q]
    PROVE  WorkerInv'
<1> USE DEF WorkerInv
<1>1. now \in Nat /\ \A q \in Request : execAt[q] \in Nat
  BY DEF TypeOK
<1>2. \A w \in Worker : Roomy(w)' => Roomy(w)
  BY RoomBefore
<1>3. TableInv'
  BY DEF TableInv, In
<1>4. DequeInv'
  <2> SUFFICES ASSUME NEW q \in Request, NEW w \in Worker, NEW u \in User,
                      Here(q)', worker[q] = w, user[q] = u
               PROVE  /\ execAt'[q] <= now'
                      /\ execAt'[q] <= stamp'[q] + MaxLag
                      /\ Roomy(w)' /\ execAt'[q] > now' - SafeWindow =>
                            In(q, table[w][u])
    BY DEF DequeInv, SafeWindow, In
  <2>1. /\ execAt[q] <= now
        /\ execAt[q] <= stamp[q] + MaxLag
        /\ Roomy(w) /\ execAt[q] > now - SafeWindow => In(q, table[w][u])
    BY DEF DequeInv
  <2>2. execAt[q] > now' - SafeWindow => execAt[q] > now - SafeWindow
    BY <1>1, ParametersAssumption DEF SafeWindow
  <2>3. QED
    BY <1>1, <1>2, <2>1, <2>2
<1>5. WorkerWindowBound'
  <2> SUFFICES ASSUME NEW w \in Worker, NEW u \in User, NEW t \in 0..now',
                      Roomy(w)'
               PROVE  Cardinality(GrantedHereIn(w, u, t)') <= Allowance
    BY DEF WorkerWindowBound
  <2>1. GrantedHereIn(w, u, t)' \subseteq GrantedHereIn(w, u, t)
    BY DEF GrantedHereIn, SafeWindow, Here
  <2>2. Roomy(w)
    BY <1>2
  <2>3. CASE t \in 0..now
    BY <2>1, <2>2, <2>3, FewerHere
  <2>4. CASE t = now + 1
    <3>1. GrantedHereIn(w, u, t) \subseteq GrantedHereIn(w, u, now)
      BY <1>1, <2>4, ParametersAssumption
         DEF GrantedHereIn, DequeInv, Here, SafeWindow
    <3>2. GrantedHereIn(w, u, t)' \subseteq GrantedHereIn(w, u, now)
      BY <2>1, <3>1
    <3>3. QED
      BY <1>1, <2>2, <3>2, FewerHere
  <2>5. QED
    BY <1>1, <2>3, <2>4
<1>6. QED
  BY <1>3, <1>4, <1>5

(* _prune drops none of the requests that still count.                     *)
LEMMA PruneKeeps ==
    ASSUME WorkerInv, NEW r \in Request, pc[r] \in {"stamped", "executed"},
           NEW k \in 0..Len(table[worker[r]][user[r]]),
           Drops(k, table[worker[r]][user[r]], stamp[r] - Window),
           NEW q \in Request, Here(q), worker[q] = worker[r], Roomy(worker[r]),
           user[q] = user[r], execAt[q] > now - SafeWindow
    PROVE  LET h == table[worker[r]][user[r]]
           IN  In(q, SubSeq(h, k + 1, Len(h)))
<1> DEFINE h == table[worker[r]][user[r]]
           left == SubSeq(h, k + 1, Len(h))
<1>1. h \in Seq(Request) /\ Len(h) \in Nat
  BY LenProperties DEF WorkerInv, TypeOK
<1>2. PICK i \in 1..Len(h) : h[i] = q
  BY DEF WorkerInv, DequeInv, TypeOK, In
<1>3. /\ now \in Nat /\ stamp[q] \in Nat /\ stamp[r] \in Nat
      /\ execAt[q] \in Nat /\ skew[worker[r]] \in 0..MaxSkew
  BY DEF WorkerInv, TypeOK
<1>4. stamp[q] > stamp[r] - Window
  <2>1. execAt[q] <= stamp[q] + MaxLag
    BY DEF WorkerInv, DequeInv, TypeOK
  <2>2. stamp[r] <= now + MaxSkew
    <3>1. stamp[r] - skew[worker[r]] <= now
      BY DEF WorkerInv, LagInv, ReadClockAt
    <3>2. MaxSkew \in Nat
      BY ParametersAssumption
    <3>3. QED
      BY <1>3, <3>1, <3>2
  <2>3. QED
    BY <1>3, <2>1, <2>2, ParametersAssumption DEF SafeWindow
<1>5. i > k
  <2>1. \A j \in 1..k : stamp[h[j]] <= stamp[r] - Window
    BY DEF Drops
  <2>2. ASSUME i \in 1..k PROVE FALSE
    <3>1. stamp[q] <= stamp[r] - Window
      BY <1>2, <2>1, <2>2
    <3>2. QED
      BY <1>3, <1>4, <3>1, ParametersAssumption
  <2>3. QED
    BY <1>1, <2>2
<1>6. Len(left) = Len(h) - k
      /\ \A j \in 1..(Len(h) - k) : left[j] = h[k + j]
  BY <1>1, PrunedHistory
<1>7. i - k \in 1..(Len(h) - k) /\ h[k + (i - k)] = q
  BY <1>1, <1>2, <1>5
<1>8. QED
  BY <1>6, <1>7 DEF In

(* A table that remembers few enough users evicts nobody.                  *)
LEMMA NobodyEvicted ==
    ASSUME NEW t \in [User -> Seq(Request)], NEW cutoff,
           Cardinality(Tracked(t)) <= MaxTracked,
           NEW K, Kept(t, cutoff, K)
    PROVE  [u \in User |-> IF u \in K THEN t[u] ELSE <<>>] = t
<1>1. K = Tracked(t)
  BY DEF Kept
<1>2. QED
  BY <1>1 DEF Tracked

(* A refusal keeps the worker's invariant: the deque loses nothing that    *)
(* counts.                                                                 *)
LEMMA RefuseHereStep ==
    ASSUME WorkerInv, TypeOK', LagInv',
           NEW r \in Request, NEW left \in Seq(Request),
           pc[r] \in {"stamped", "executed"},
           UNCHANGED <<now, skew, user, worker, stamp>>,
           RefuseHere(r, left),
           \A q \in Request :
              /\ Here(q) /\ worker[q] = worker[r] /\ user[q] = user[r]
              /\ Roomy(worker[r]) /\ execAt[q] > now - SafeWindow
              => In(q, left),
           \A q \in Request : In(q, left) => In(q, table[worker[r]][user[r]])
    PROVE  WorkerInv'
<1> USE DEF WorkerInv
<1> DEFINE w == worker[r]
           u == user[r]
<1>1. /\ pc' = [pc EXCEPT ![r] = "refusedHere"]
      /\ table' = [table EXCEPT ![w][u] = left]
      /\ execAt' = execAt
  BY DEF RefuseHere
<1>2. w \in Worker /\ u \in User
  BY DEF TypeOK
<1>3. \A q \in Request : Here(q)' <=> Here(q)
  BY <1>1 DEF Here, TypeOK
<1>4. \A v \in Worker : Roomy(v)' => Roomy(v)
  BY <1>3, RoomBefore
<1>5. \A v \in Worker, x \in User :
         table'[v][x] = IF v = w /\ x = u THEN left ELSE table[v][x]
  BY <1>1, <1>2 DEF TypeOK
<1>6. TableInv'
  <2> SUFFICES ASSUME NEW q \in Request, NEW v \in Worker, NEW x \in User,
                      In(q, table'[v][x])
               PROVE  Here(q)' /\ worker[q] = v /\ user[q] = x
    BY DEF TableInv, In
  <2>1. In(q, table[v][x])
    BY <1>5
  <2>2. QED
    BY <1>3, <2>1 DEF TableInv
<1>7. DequeInv'
  <2> SUFFICES ASSUME NEW q \in Request, NEW v \in Worker, NEW x \in User,
                      Here(q)', worker[q] = v, user[q] = x
               PROVE  /\ execAt'[q] <= now
                      /\ execAt'[q] <= stamp[q] + MaxLag
                      /\ Roomy(v)' /\ execAt'[q] > now - SafeWindow =>
                            In(q, table'[v][x])
    BY DEF DequeInv, SafeWindow, In
  <2>1. /\ execAt[q] <= now
        /\ execAt[q] <= stamp[q] + MaxLag
        /\ Roomy(v) /\ execAt[q] > now - SafeWindow => In(q, table[v][x])
    BY <1>3 DEF DequeInv
  <2>2. QED
    BY <1>1, <1>3, <1>4, <1>5, <2>1
<1>8. WorkerWindowBound'
  <2> SUFFICES ASSUME NEW v \in Worker, NEW x \in User, NEW t \in 0..now,
                      Roomy(v)'
               PROVE  Cardinality(GrantedHereIn(v, x, t)') <= Allowance
    BY DEF WorkerWindowBound
  <2>1. GrantedHereIn(v, x, t)' \subseteq GrantedHereIn(v, x, t)
    BY <1>1, <1>3 DEF GrantedHereIn, SafeWindow, Here
  <2>2. QED
    BY <1>4, <2>1, FewerHere
<1>9. QED
  BY <1>6, <1>7, <1>8

\* The table of r's worker with r added to what is left of its deque.
Filled(r, left) == [table[worker[r]] EXCEPT ![user[r]] = Append(left, r)]

(* A grant fills the deque of its user; while there is room nobody is      *)
(* evicted for it, because the table holds only requests let through here. *)
LEMMA GrantHereFills ==
    ASSUME TypeOK, TypeOK', TableInv,
           NEW r \in Request, NEW left \in Seq(Request), Len(left) \in Nat,
           pc[r] \in {"stamped", "executed"},
           UNCHANGED <<user, worker>>,
           GrantHere(r, left),
           \A q \in Request : In(q, left) => In(q, table[worker[r]][user[r]])
    PROVE  /\ \A x \in User :
                 Filled(r, left)[x] = IF x = user[r] THEN Append(left, r)
                                      ELSE table[worker[r]][x]
           /\ \A q \in Request :
                 In(q, Append(left, r)) <=> q = r \/ In(q, left)
           /\ \A q \in Request, x \in User :
                 In(q, Filled(r, left)[x]) =>
                    Here(q)' /\ worker[q] = worker[r] /\ user[q] = x
           /\ Roomy(worker[r])' =>
                 \A x \in User : table'[worker[r]][x] = Filled(r, left)[x]
<1> DEFINE w == worker[r]
           u == user[r]
           added == Append(left, r)
           t0 == Filled(r, left)
<1>1. pc' = [pc EXCEPT ![r] = "grantedHere"]
  BY Zenon DEF GrantHere
<1>2. PICK K \in SUBSET User :
        /\ Kept(t0, stamp[r] - Window, K)
        /\ table' = [table EXCEPT
              ![w] = [v \in User |-> IF v \in K THEN t0[v] ELSE <<>>]]
  BY Zenon DEF GrantHere, Filled
<1>3. w \in Worker /\ u \in User
  BY DEF TypeOK
<1>4. /\ added \in Seq(Request)
      /\ Len(added) = Len(left) + 1
      /\ \A i \in 1..Len(left) : added[i] = left[i]
      /\ added[Len(left) + 1] = r
  BY AppendProperties
<1> HIDE DEF added
<1>5. t0 \in [User -> Seq(Request)]
      /\ \A x \in User : t0[x] = IF x = u THEN added ELSE table[w][x]
  BY <1>3, <1>4 DEF TypeOK, Filled, added
<1> HIDE DEF t0
<1>6. \A q \in Request : In(q, added) <=> q = r \/ In(q, left)
  BY <1>4 DEF In
<1>7. Here(r)' /\ ~Here(r) /\ \A q \in Request : q # r => (Here(q)' <=> Here(q))
  BY <1>1 DEF Here, TypeOK
\* Whoever is in the new table has been let through here.
<1>9. \A q \in Request, x \in User :
         In(q, t0[x]) => Here(q)' /\ worker[q] = w /\ user[q] = x
  <2> SUFFICES ASSUME NEW q \in Request, NEW x \in User, In(q, t0[x]), q # r
               PROVE  Here(q) /\ worker[q] = w /\ user[q] = x
    <3>1. ASSUME NEW x \in User, In(r, t0[x]) PROVE x = u
      <4>1. CASE x = u
        BY <4>1
      <4>2. CASE x # u
        BY <1>3, <1>5, <1>7, <3>1, <4>2 DEF TableInv
      <4>3. QED
        BY <4>1, <4>2
    <3>2. QED
      BY <1>7, <3>1
  <2>1. In(q, table[w][x])
    BY <1>5, <1>6
  <2>2. QED
    BY <1>3, <2>1 DEF TableInv
<1>10. ASSUME Roomy(w)'
       PROVE  [v \in User |-> IF v \in K THEN t0[v] ELSE <<>>] = t0
  <2>1. Tracked(t0) \subseteq UsersHere(w)'
    <3> SUFFICES ASSUME NEW x \in User, t0[x] # <<>>
                 PROVE  x \in UsersHere(w)'
      BY DEF Tracked
    <3>1. 1 \in 1..Len(t0[x]) /\ t0[x][1] \in Request
      BY <1>5, EmptySeq, LenProperties, ElementOfSeq
    <3>2. PICK q \in Request : In(q, t0[x])
      BY <3>1 DEF In
    <3>3. Here(q)' /\ worker[q] = w /\ user[q] = x
      BY <1>9, <3>2
    <3>4. QED
      BY <3>3 DEF UsersHere, Here
  <2>2. /\ Cardinality(Tracked(t0)) <= Cardinality(UsersHere(w)')
        /\ Cardinality(Tracked(t0)) \in Nat
        /\ Cardinality(UsersHere(w)') \in Nat
    BY <2>1, UsersFinite, FS_Subset, FS_CardinalityType
  <2>3. Cardinality(Tracked(t0)) <= MaxTracked
    BY <1>10, <2>2, ParametersAssumption DEF Roomy
  <2>4. K = Tracked(t0)
    BY <1>2, <2>3 DEF Kept
  <2>5. t0 \in [User -> Seq(Request)]
    BY <1>5
  <2>6. QED
    BY <2>4, <2>5 DEF Tracked
<1>11. Roomy(w)' => \A x \in User : table'[w][x] = t0[x]
  BY <1>2, <1>3, <1>10 DEF TypeOK
<1>12. QED
  BY <1>5, <1>6, <1>9, <1>11, Zenon DEF t0, added

(* A grant keeps the worker's invariant: while there is room nobody is     *)
(* evicted, and the deque it fills has every request of the window.        *)
LEMMA GrantHereStep ==
    ASSUME WorkerInv, TypeOK', LagInv',
           NEW r \in Request, NEW left \in Seq(Request), Len(left) \in Nat,
           pc[r] \in {"stamped", "executed"},
           UNCHANGED <<now, skew, user, worker, stamp>>,
           GrantHere(r, left),
           \A q \in Request :
              /\ Here(q) /\ worker[q] = worker[r] /\ user[q] = user[r]
              /\ Roomy(worker[r]) /\ execAt[q] > now - SafeWindow
              => In(q, left),
           \A q \in Request : In(q, left) => In(q, table[worker[r]][user[r]])
    PROVE  WorkerInv'
<1> USE DEF WorkerInv
<1> DEFINE w == worker[r]
           u == user[r]
           added == Append(left, r)
           t0 == Filled(r, left)
<1>1. /\ pc' = [pc EXCEPT ![r] = "grantedHere"]
      /\ execAt' = [execAt EXCEPT ![r] = now]
      /\ Len(left) < Allowance
  BY Zenon DEF GrantHere
<1>3. w \in Worker /\ u \in User
  BY DEF TypeOK
<1>4. added \in Seq(Request) /\ Len(added) = Len(left) + 1
  BY AppendProperties
<1>2. PICK K \in SUBSET User :
        table' = [table EXCEPT
            ![w] = [v \in User |-> IF v \in K THEN t0[v] ELSE <<>>]]
  BY Zenon DEF GrantHere, Filled
<1>5. /\ \A x \in User : t0[x] = IF x = u THEN added ELSE table[w][x]
      /\ \A q \in Request : In(q, added) <=> q = r \/ In(q, left)
      /\ \A q \in Request, x \in User :
            In(q, t0[x]) => Here(q)' /\ worker[q] = w /\ user[q] = x
      /\ Roomy(w)' => \A x \in User : table'[w][x] = t0[x]
  <2>1. TypeOK /\ TableInv /\ UNCHANGED <<user, worker>>
    OBVIOUS
  <2> HIDE DEF WorkerInv
  <2>2. \A x \in User : t0[x] = IF x = u THEN added ELSE table[w][x]
    BY <2>1, GrantHereFills
  <2>3. \A q \in Request : In(q, added) <=> q = r \/ In(q, left)
    BY <2>1, GrantHereFills
  <2>4. \A q \in Request, x \in User :
            In(q, t0[x]) => Here(q)' /\ worker[q] = w /\ user[q] = x
    BY <2>1, GrantHereFills
  <2>5. Roomy(w)' => \A x \in User : table'[w][x] = t0[x]
    BY <2>1, GrantHereFills
  <2>6. QED
    BY <2>2, <2>3, <2>4, <2>5
<1> HIDE DEF t0, added
<1>6. \A q \in Request : In(q, added) <=> q = r \/ In(q, left)
  BY <1>5
<1>7. Here(r)' /\ ~Here(r) /\ execAt'[r] = now
      /\ \A q \in Request : q # r => /\ Here(q)' <=> Here(q)
                                     /\ execAt'[q] = execAt[q]
  BY <1>1 DEF Here, TypeOK
<1>8. \A v \in Worker : Roomy(v)' => Roomy(v)
  BY <1>7, RoomBefore
<1>9. \A q \in Request, x \in User :
         In(q, t0[x]) => Here(q)' /\ worker[q] = w /\ user[q] = x
  BY <1>5
<1>11. \A v \in Worker, x \in User :
          table'[v][x] = IF v # w THEN table[v][x]
                         ELSE IF x \in K THEN t0[x] ELSE <<>>
  BY <1>2, <1>3 DEF TypeOK
<1>12. Roomy(w)' => \A x \in User : table'[w][x] = t0[x]
  BY <1>5
<1>13. TableInv'
  <2> SUFFICES ASSUME NEW q \in Request, NEW v \in Worker, NEW x \in User,
                      In(q, table'[v][x])
               PROVE  Here(q)' /\ worker[q] = v /\ user[q] = x
    BY DEF TableInv, In
  <2>1. CASE v # w
    BY <1>7, <1>11, <2>1 DEF TableInv
  <2>2. CASE v = w
    <3>1. x \in K
      BY <1>3, <1>11, <2>2, EmptySeq DEF In
    <3>2. QED
      BY <1>9, <1>11, <2>2, <3>1
  <2>3. QED
    BY <2>1, <2>2
<1>14. now <= stamp[r] + MaxLag
  <2>1. now <= stamp[r] - skew[worker[r]] + MaxLag
    BY DEF LagInv, ReadClockAt
  <2>2. /\ now \in Nat /\ stamp[r] \in Nat /\ MaxLag \in Nat
        /\ skew[worker[r]] \in 0..MaxSkew /\ MaxSkew \in Nat
    BY ParametersAssumption DEF TypeOK
  <2>3. QED
    BY <2>1, <2>2
<1>15. DequeInv'
  <2> SUFFICES ASSUME NEW q \in Request, NEW v \in Worker, NEW x \in User,
                      Here(q)', worker[q] = v, user[q] = x
               PROVE  /\ execAt'[q] <= now
                      /\ execAt'[q] <= stamp[q] + MaxLag
                      /\ Roomy(v)' /\ execAt'[q] > now - SafeWindow =>
                            In(q, table'[v][x])
    BY DEF DequeInv, SafeWindow, In
  <2>1. CASE q = r
    <3>1. Roomy(v)' => table'[v][x] = added
      BY <1>5, <1>12, <2>1
    <3>2. now \in Nat
      BY DEF TypeOK
    <3>3. QED
      BY <1>6, <1>7, <1>14, <2>1, <3>1, <3>2
  <2>2. CASE q # r
    <3>1. /\ Here(q)
          /\ execAt[q] <= now
          /\ execAt[q] <= stamp[q] + MaxLag
          /\ Roomy(v) /\ execAt[q] > now - SafeWindow => In(q, table[v][x])
      BY <1>7, <2>2 DEF DequeInv
    <3>2. ASSUME Roomy(v)', execAt[q] > now - SafeWindow
          PROVE  In(q, table'[v][x])
      <4>1. CASE v # w
        BY <1>8, <1>11, <3>1, <3>2, <4>1
      <4>2. CASE v = w /\ x # u
        BY <1>5, <1>8, <1>12, <3>1, <3>2, <4>2
      <4>3. CASE v = w /\ x = u
        BY <1>5, <1>6, <1>8, <1>12, <3>1, <3>2, <4>3
      <4>4. QED
        BY <4>1, <4>2, <4>3
    <3>3. QED
      BY <1>7, <2>2, <3>1, <3>2
  <2>3. QED
    BY <2>1, <2>2
<1>16. WorkerWindowBound'
  <2> SUFFICES ASSUME NEW v \in Worker, NEW x \in User, NEW t \in 0..now,
                      Roomy(v)'
               PROVE  Cardinality(GrantedHereIn(v, x, t)') <= Allowance
    BY DEF WorkerWindowBound
  <2>1. CASE r \notin GrantedHereIn(v, x, t)'
    <3>1. GrantedHereIn(v, x, t)' \subseteq GrantedHereIn(v, x, t)
      BY <1>7, <2>1 DEF GrantedHereIn, SafeWindow, Here
    <3>2. QED
      BY <1>8, <3>1, FewerHere
  <2>2. CASE r \in GrantedHereIn(v, x, t)'
    <3>1. v = w /\ x = u /\ t = now
      BY <1>7, <2>2 DEF GrantedHereIn, TypeOK
    <3>2. \A q \in GrantedHereIn(v, x, t)' : In(q, added)
      BY <1>6, <1>7, <1>8, <3>1 DEF GrantedHereIn, SafeWindow, Here
    <3>3. GrantedHereIn(v, x, t)' \in SUBSET Request
      BY DEF GrantedHereIn
    <3>4. Cardinality(GrantedHereIn(v, x, t)') <= Len(added)
      BY <1>4, <3>2, <3>3, FewElements
    <3>5. Cardinality(GrantedHereIn(v, x, t)') \in Nat
      BY <3>3, RequestSets
    <3>6. QED
      BY <1>1, <1>4, <3>4, <3>5, ParametersAssumption
  <2>3. QED
    BY <2>1, <2>2
<1>17. QED
  BY <1>13, <1>15, <1>16

(* The in-process check keeps the worker's invariant: the deque it fills   *)
(* holds every request of the window it has granted.                       *)
LEMMA FallBackStep ==
    ASSUME WorkerInv, TypeOK', LagInv',
           NEW r \in Request, FallBack(r)
    PROVE  WorkerInv'
<1> USE DEF WorkerInv
<1> DEFINE w == worker[r]
           u == user[r]
           h == table[w][u]
<1>1. /\ pc[r] \in {"stamped", "executed"}
      /\ UNCHANGED <<now, skew, user, worker, stamp>>
  BY DEF FallBack
<1>2. PICK k \in 0..Len(h) :
        /\ Drops(k, h, stamp[r] - Window)
        /\ \/ RefuseHere(r, SubSeq(h, k + 1, Len(h)))
           \/ GrantHere(r, SubSeq(h, k + 1, Len(h)))
  BY Zenon DEF FallBack, CheckInProcess
<1> DEFINE left == SubSeq(h, k + 1, Len(h))
<1>3. h \in Seq(Request) /\ w \in Worker /\ u \in User
  BY DEF TypeOK
<1>4. left \in Seq(Request) /\ Len(left) \in Nat
  BY <1>3, PrunedHistory, LenProperties
\* Who counts before the step and is served by the same deque is in left.
<1>5. \A q \in Request :
         /\ Here(q) /\ worker[q] = w /\ user[q] = u /\ Roomy(w)
         /\ execAt[q] > now - SafeWindow
         => In(q, left)
  BY <1>1, <1>2, PruneKeeps
\* What is left in the deque was there.
<1>6. \A q \in Request : In(q, left) => In(q, h)
  <2> SUFFICES ASSUME NEW q \in Request, NEW i \in 1..Len(left), left[i] = q
               PROVE  In(q, h)
    BY DEF In
  <2>1. Len(h) \in Nat
    BY <1>3, LenProperties
  <2>2. i \in 1..(Len(h) - k) /\ left[i] = h[k + i]
    BY <1>3, PrunedHistory
  <2>3. k + i \in 1..Len(h)
    BY <2>1, <2>2
  <2>4. QED
    BY <2>2, <2>3 DEF In
<1> HIDE DEF left
<1>7. CASE RefuseHere(r, left)
  BY <1>1, <1>3, <1>4, <1>5, <1>6, <1>7, RefuseHereStep
<1>8. CASE GrantHere(r, left)
  BY <1>1, <1>3, <1>4, <1>5, <1>6, <1>8, GrantHereStep
<1>9. QED
  BY <1>2, <1>7, <1>8 DEF left

(* Every step keeps the worker's invariant.                                *)
LEMMA WorkerStep == WorkerInv /\ RedisInv' /\ [Next]_vars => WorkerInv'
<1> SUFFICES ASSUME WorkerInv, RedisInv', [Next]_vars PROVE WorkerInv'
  OBVIOUS
<1>1. TypeOK' /\ LagInv'
  BY DEF RedisInv
<1>2. ASSUME NEW r \in Request, FallBack(r) PROVE WorkerInv'
  BY <1>1, <1>2, FallBackStep
<1>3. CASE Tick
  BY <1>1, <1>3, OtherStep DEF Here, Tick, requestVars
<1>4. ASSUME NEW r \in Request, Arrive(r) PROVE WorkerInv'
  BY <1>1, <1>4, OtherStep DEF Here, Arrive, WorkerInv, TypeOK
<1>5. ASSUME NEW r \in Request, Execute(r) PROVE WorkerInv'
  BY <1>1, <1>5, OtherStep DEF Here, Execute, WorkerInv, TypeOK
<1>6. ASSUME NEW r \in Request, Grant(r) \/ OverLimit(r) PROVE WorkerInv'
  BY <1>1, <1>6, OtherStep DEF Here, Grant, OverLimit, WorkerInv, TypeOK
<1>7. ASSUME NEW r \in Request, Reclaim(r) \/ ReclaimFails(r)
      PROVE  WorkerInv'
  BY <1>1, <1>7, OtherStep DEF Here, Reclaim, ReclaimFails, Refuse, WorkerInv, TypeOK
<1>8. CASE UNCHANGED vars
  BY <1>1, <1>8, OtherStep DEF Here, vars, requestVars
<1>9. QED
  BY <1>2, <1>3, <1>4, <1>5, <1>6, <1>7, <1>8 DEF Next

(* The tables stay in step with the history of grants.                     *)
LEMMA WorkerInvariant == Spec => []WorkerInv
<1>1. Init => WorkerInv
  <2> SUFFICES ASSUME Init PROVE WorkerInv
    OBVIOUS
  <2>1. TypeOK
    BY EmptySeq DEF Init, TypeOK, Steps
  <2>2. \A r \in Request : pc[r] = "new"
    BY DEF Init
  <2>3. \A w \in Worker, u \in User, t \in 0..now :
           GrantedHereIn(w, u, t) = {}
    BY <2>2 DEF GrantedHereIn
  <2>4. LagInv /\ DequeInv
    BY <2>2 DEF LagInv, DequeInv, Here
  <2>5. WorkerWindowBound
    BY <2>3, FS_EmptySet, ParametersAssumption DEF WorkerWindowBound
  <2>6. TableInv
    <3>1. \A w \in Worker, u \in User : table[w][u] = <<>>
      BY DEF Init
    <3>2. QED
      BY <3>1, EmptySeq DEF TableInv, In
  <2>7. QED
    BY <2>1, <2>4, <2>5, <2>6 DEF WorkerInv
<1>2. QED
  BY <1>1, RedisInvariant, WorkerStep, PTL DEF Spec

(* The fallback is degraded, not absent: a worker that has had to remember *)
(* no more users than its table has room for lets at most Allowance        *)
(* requests of a user through in any stretch of SafeWindow ticks, however  *)
(* stale the timestamps it compares.                                       *)
THEOREM WorkerNeverOverGrants == Spec => []WorkerWindowBound
<1>1. WorkerInv => WorkerWindowBound
  BY DEF WorkerInv
<1>2. QED
  BY <1>1, WorkerInvariant, PTL

-----------------------------------------------------------------------------
(* A worker's table remembers only users it has let through.               *)
LEMMA TrackedFinite ==
    ASSUME TypeOK, TableInv, NEW w \in Worker
    PROVE  IsFiniteSet(Tracked(table[w]))
<1>1. Tracked(table[w]) \subseteq UsersHere(w)
  <2> SUFFICES ASSUME NEW x \in User, table[w][x] # <<>>
               PROVE  x \in UsersHere(w)
    BY DEF Tracked
  <2>1. table[w][x] \in Seq(Request)
    BY DEF TypeOK
  <2>2. 1 \in 1..Len(table[w][x]) /\ table[w][x][1] \in Request
    BY <2>1, EmptySeq, LenProperties, ElementOfSeq
  <2>3. PICK q \in Request : In(q, table[w][x])
    BY <2>2 DEF In
  <2>4. QED
    BY <2>3 DEF TableInv, UsersHere, Here
<1>2. QED
  BY <1>1, UsersFinite, FS_Subset

(* The in-process check leaves the table under its cap.                    *)
LEMMA FallBackBounded ==
    ASSUME TypeOK, TypeOK', TableInv', TableBounded,
           NEW r \in Request, FallBack(r)
    PROVE  TableBounded'
<1> DEFINE w == worker[r]
           u == user[r]
           h == table[w][u]
<1>1. PICK k \in 0..Len(h) :
         \/ RefuseHere(r, SubSeq(h, k + 1, Len(h)))
         \/ GrantHere(r, SubSeq(h, k + 1, Len(h)))
  BY Zenon DEF FallBack, CheckInProcess
<1> DEFINE left == SubSeq(h, k + 1, Len(h))
<1>2. h \in Seq(Request) /\ w \in Worker /\ u \in User
  BY DEF TypeOK
<1>3. left \in Seq(Request) /\ Len(left) = Len(h) - k /\ Len(h) \in Nat
  BY <1>2, PrunedHistory, LenProperties
<1> HIDE DEF left
<1>4. CASE RefuseHere(r, left)
  <2>1. table' = [table EXCEPT ![w][u] = left]
    BY <1>4 DEF RefuseHere
  <2>2. left # <<>> /\ h # <<>>
    <3>1. Len(left) >= Allowance
      BY <1>4 DEF RefuseHere
    <3>2. Allowance \in Nat /\ Allowance >= 1
      BY ParametersAssumption
    <3>3. Len(left) <= Len(h) /\ Len(left) \in Nat /\ Len(h) \in Nat
      BY <1>3, LenProperties
    <3>4. Len(left) >= 1 /\ Len(h) >= 1
      BY <3>1, <3>2, <3>3
    <3>5. Len(<<>>) = 0
      BY EmptySeq
    <3>6. QED
      BY <3>4, <3>5
  <2>3. \A v \in Worker : Tracked(table'[v]) = Tracked(table[v])
    <3>1. \A v \in Worker, x \in User :
             table'[v][x] = IF v = w /\ x = u THEN left ELSE table[v][x]
      BY <1>2, <2>1 DEF TypeOK
    <3>2. \A v \in Worker, x \in User : table'[v][x] # <<>> <=> table[v][x] # <<>>
      BY <2>2, <3>1
    <3>3. QED
      BY <3>2 DEF Tracked
  <2>4. QED
    BY <2>3 DEF TableBounded, Tracked
<1>5. CASE GrantHere(r, left)
  <2> DEFINE t0 == [table[w] EXCEPT ![u] = Append(left, r)]
  <2>1. PICK K \in SUBSET User :
          /\ Kept(t0, stamp[r] - Window, K)
          /\ table' = [table EXCEPT
                ![w] = [v \in User |-> IF v \in K THEN t0[v] ELSE <<>>]]
    BY <1>5, Zenon DEF GrantHere
  <2> HIDE DEF t0
  <2>2. K \subseteq Tracked(t0) /\ Cardinality(K) <= MaxTracked
    <3>1. /\ K \subseteq Tracked(t0)
          /\ Cardinality(K) <= MaxTracked \/ Cardinality(K) = MaxTracked
      BY <2>1, Zenon DEF Kept
    <3>2. QED
      BY <3>1, ParametersAssumption
  <2>3. Tracked(table'[w]) = K
    BY <1>2, <2>1, <2>2 DEF Tracked, TypeOK
  <2>4. \A v \in Worker : v # w => table'[v] = table[v]
    BY <2>1 DEF TypeOK
  <2>5. QED
    BY <2>2, <2>3, <2>4 DEF TableBounded, Tracked
<1>6. QED
  BY <1>1, <1>4, <1>5 DEF left

(* The table is bounded (MAX_TRACKED_USERS): between requests no worker    *)
(* remembers more users than its cap, however the stamps are ordered.      *)
THEOREM TablesStayBounded == Spec => []TableBounded
<1>1. Init => TableBounded
  <2> SUFFICES ASSUME Init, NEW w \in Worker
               PROVE  Cardinality(Tracked(table[w])) <= MaxTracked
    BY DEF TableBounded
  <2>1. Tracked(table[w]) = {}
    BY DEF Init, Tracked
  <2>2. QED
    BY <2>1, FS_EmptySet, ParametersAssumption
<1>2. TableBounded /\ WorkerInv /\ WorkerInv' /\ [Next]_vars => TableBounded'
  <2> SUFFICES ASSUME TableBounded, WorkerInv, WorkerInv', [Next]_vars
               PROVE  TableBounded'
    OBVIOUS
  <2>1. ASSUME NEW r \in Request, FallBack(r) PROVE TableBounded'
    BY <2>1, FallBackBounded DEF WorkerInv
  <2>2. CASE UNCHANGED table
    BY <2>2 DEF TableBounded, Tracked
  <2>3. QED
    BY <2>1, <2>2
       DEF Next, Tick, Arrive, Execute, Grant, OverLimit, Reclaim, ReclaimFails,
           Refuse, vars
<1>3. QED
  BY <1>1, <1>2, WorkerInvariant, PTL DEF Spec

(* A slot in the set of a user belongs to a request of that user which is  *)
(* undecided or let through, or was refused and could not give it back:    *)
(* its ZREM failed, or the reply of its transaction was lost and the       *)
(* in-process table turned it away.  None whose ZREM was answered is       *)
(* there, whatever the transactions of others do to the set in between.    *)
THEOREM RefusedGiveBack == Spec => []NoLeakedSlot
<1>1. Init => NoLeakedSlot
  BY DEF Init, NoLeakedSlot
<1>2. NoLeakedSlot /\ TypeOK /\ TypeOK' /\ [Next]_vars => NoLeakedSlot'
  <2> SUFFICES ASSUME NoLeakedSlot, TypeOK, TypeOK', [Next]_vars,
                      NEW u \in User, NEW q \in zset'[u]
               PROVE  user'[q] = u /\ pc'[q] \in MayHold
    BY DEF NoLeakedSlot
  <2>1. q \in Request /\ (q \in zset[u] =>
                             user[q] = u /\ pc[q] \in MayHold)
    BY DEF NoLeakedSlot, TypeOK
  <2>2. CASE UNCHANGED <<pc, user, zset>>
    BY <2>1, <2>2
  <2> DEFINE Goal == user'[q] = u /\ pc'[q] \in MayHold
  <2>3. ASSUME NEW r \in Request,
               Arrive(r) \/ Grant(r) \/ OverLimit(r) \/ ReclaimFails(r)
        PROVE  Goal
    BY <2>1, <2>3
       DEF Arrive, Grant, OverLimit, ReclaimFails, Refuse, redisVars, TypeOK,
           MayHold
  <2>4. ASSUME NEW r \in Request, Execute(r) PROVE Goal
    <3>1. q \in zset[u] \/ (q = r /\ u = user[r])
      BY <2>4 DEF Execute, Claimed, Live, TypeOK
    <3>2. QED
      BY <2>1, <2>4, <3>1 DEF Execute, TypeOK, MayHold
  <2>5. ASSUME NEW r \in Request, Reclaim(r) PROVE Goal
    <3>1. q \in zset[u] /\ (q = r => u # user[r])
      BY <2>5 DEF Reclaim, Live, TypeOK
    <3>2. QED
      BY <2>1, <2>5, <3>1 DEF Reclaim, Refuse, TypeOK, MayHold
  <2>6. ASSUME NEW r \in Request, FallBack(r) PROVE Goal
    <3>1. /\ UNCHANGED <<user, zset>>
          /\ \/ pc' = [pc EXCEPT ![r] = "refusedHere"]
             \/ pc' = [pc EXCEPT ![r] = "grantedHere"]
      BY <2>6, Zenon DEF FallBack, CheckInProcess, RefuseHere, GrantHere, redisVars
    <3>2. QED
      BY <2>1, <3>1 DEF TypeOK, MayHold
  <2>7. QED
    BY <2>2, <2>3, <2>4, <2>5, <2>6
       DEF Next, Tick, vars, requestVars, redisVars
<1>3. QED
  BY <1>1, <1>2, TypeCorrect, PTL DEF Spec

-----------------------------------------------------------------------------
(***************************************************************************)
(* Retry-After over Redis.  Whoever is refused has seen an entry that is   *)
(* oldest; few enough of the slots held are much later than that one, for  *)
(* the last of them was claimed while it was still counted.                *)
(***************************************************************************)
\* The slots held that are later than an entry, whatever the lag and skew.
Behind(u, o) ==
    {q \in zset[u] : Holds(q) /\ stamp[q] > stamp[o] + MaxLag + MaxSkew}

FewBehind ==
    \A u \in User : \A o \in zset[u] : Cardinality(Behind(u, o)) < Allowance

\* The transaction said no.
Over(r) ==
    /\ pc[r] \in {"executed", "over", "refused", "refusedHolding"}
    /\ used[r] > Allowance

Before(r) ==
    {q \in zset[user[r]] : /\ Holds(q)
                           /\ execAt[q] < execAt[r]
                           /\ stamp[q] > oldest[r] + MaxLag + MaxSkew}

FewBefore == \A r \in Request : Over(r) => Cardinality(Before(r)) < Allowance

EntriesInv ==
    \A u \in User : \A q \in zset[u] : user[q] = u /\ pc[q] \notin {"new", "stamped"}

TimesInv ==
    \A q \in Request : stamp[q] <= now + MaxSkew /\ execAt[q] <= now

WaitInv ==
    \A r \in Request :
        /\ pc[r] \in {"over", "refused", "refusedHolding"} => used[r] > Allowance
        /\ pc[r] \in {"refused", "refusedHolding"} =>
              retryAfter[r] = Seconds(oldest[r] + Window - stamp[r])

RetryInv == EntriesInv /\ TimesInv /\ WaitInv /\ FewBehind /\ FewBefore

(* Rounded up, a wait is longer than it has to be.                         *)
LEMMA SecondsLast ==
    ASSUME NEW ticks \in Int
    PROVE  Seconds(ticks) * Second > ticks
<1>1. Second \in Nat /\ Second > 0
  BY ParametersAssumption
<1>2. CASE ticks < 0
  BY <1>1, <1>2 DEF Seconds
<1>3. CASE ticks >= 0
  <2>1. ticks = Second * (ticks \div Second) + (ticks % Second)
        /\ ticks \div Second \in Int /\ ticks % Second \in 0..(Second - 1)
    BY <1>1, <1>3
  <2>2. Second * (ticks \div Second) + Second > ticks
    BY <1>1, <2>1
  <2>3. Seconds(ticks) * Second = Second * (ticks \div Second) + Second
    BY <1>1, <1>3, <2>1 DEF Seconds
  <2> QED BY <2>2, <2>3
<1> QED BY <1>2, <1>3

(* A step that executes no transaction takes entries away and lets go of   *)
(* slots: what lay behind an entry can only get less.                      *)
LEMMA BehindLess ==
    ASSUME TypeOK, TypeOK', EntriesInv, FewBehind, FewBefore,
           UNCHANGED user,
           \A u \in User : zset'[u] \subseteq zset[u],
           \A u \in User : \A q \in zset[u] : stamp'[q] = stamp[q],
           \A q \in Request : Holds(q)' => Holds(q) /\ execAt'[q] = execAt[q],
           \A r \in Request :
              Over(r)' => Over(r) /\ execAt'[r] = execAt[r]
                                  /\ oldest'[r] = oldest[r]
    PROVE  FewBehind' /\ FewBefore'
<1>1. FewBehind'
  <2> SUFFICES ASSUME NEW u \in User, NEW o \in zset'[u]
               PROVE  Cardinality(Behind(u, o)') < Allowance
    BY DEF FewBehind
  <2>1. o \in zset[u] /\ zset[u] \in SUBSET Request
    BY DEF TypeOK
  <2>2. Behind(u, o)' \subseteq Behind(u, o)
    BY <2>1 DEF Behind
  <2>3. Behind(u, o) \in SUBSET Request
    BY <2>1 DEF Behind
  <2>4. /\ Cardinality(Behind(u, o)') <= Cardinality(Behind(u, o))
        /\ Cardinality(Behind(u, o)') \in Nat
        /\ Cardinality(Behind(u, o)) \in Nat
    BY <2>2, <2>3, RequestSets
  <2>5. Cardinality(Behind(u, o)) < Allowance
    BY <2>1 DEF FewBehind
  <2>6. QED
    BY <2>4, <2>5, ParametersAssumption
<1>2. FewBefore'
  <2> SUFFICES ASSUME NEW r \in Request, Over(r)'
               PROVE  Cardinality(Before(r)') < Allowance
    BY DEF FewBefore
  <2>1. user[r] \in User /\ zset[user[r]] \in SUBSET Request
    BY DEF TypeOK
  <2>2. Before(r)' \subseteq Before(r)
    BY <2>1 DEF Before
  <2>3. Before(r) \in SUBSET Request
    BY <2>1 DEF Before
  <2>4. /\ Cardinality(Before(r)') <= Cardinality(Before(r))
        /\ Cardinality(Before(r)') \in Nat
        /\ Cardinality(Before(r)) \in Nat
    BY <2>2, <2>3, RequestSets
  <2>5. Cardinality(Before(r)) < Allowance
    BY DEF FewBefore
  <2>6. QED
    BY <2>4, <2>5, ParametersAssumption
<1>3. QED
  BY <1>1, <1>2

(* The transaction: if it said yes there is an entry that is not behind    *)
(* itself; if it said no it holds nothing, and what it calls the oldest    *)
(* entry is one that few slots are behind.                                 *)
LEMMA BehindExecute ==
    ASSUME TypeOK, TypeOK', LagInv, RetryInv, NEW g \in Request, Execute(g)
    PROVE  FewBehind' /\ FewBefore'
<1> USE DEF RetryInv
<1> DEFINE v == user[g]
           C == Claimed(g)
<1>1. /\ pc[g] = "stamped"
      /\ zset' = [zset EXCEPT ![v] = C]
      /\ used' = [used EXCEPT ![g] = Cardinality(C)]
      /\ execAt' = [execAt EXCEPT ![g] = now]
      /\ pc' = [pc EXCEPT ![g] = "executed"]
      /\ UNCHANGED <<now, skew, user, worker, stamp>>
  BY DEF Execute
<1>2. PICK first \in Request :
         /\ IsOldest(first, C)
         /\ oldest' = [oldest EXCEPT ![g] = stamp[first]]
  BY DEF Execute
<1>3. C \in SUBSET Request /\ g \in C /\ C \subseteq zset[v] \union {g}
  BY DEF Claimed, Live, TypeOK
<1> HIDE DEF C
<1>4. /\ now \in Nat /\ v \in User /\ MaxLag \in Nat /\ MaxSkew \in Nat
      /\ Allowance \in Nat /\ Allowance > 0
      /\ \A q \in Request : stamp[q] \in Nat /\ execAt[q] \in Nat
  BY ParametersAssumption DEF TypeOK
<1>5. /\ zset'[v] = C /\ \A u \in User : u # v => zset'[u] = zset[u]
      /\ used'[g] = Cardinality(C) /\ pc'[g] = "executed" /\ execAt'[g] = now
      /\ oldest'[g] = stamp[first]
      /\ \A q \in Request : q # g => /\ pc'[q] = pc[q] /\ used'[q] = used[q]
                                     /\ execAt'[q] = execAt[q]
                                     /\ oldest'[q] = oldest[q]
  BY <1>1, <1>2, <1>4 DEF TypeOK
<1>6. \A q \in Request : q # g => (Holds(q)' <=> Holds(q))
  BY <1>5 DEF Holds
<1>7. \A u \in User : g \notin zset[u]
  BY <1>1 DEF EntriesInv
<1>8. now <= stamp[g] + MaxLag
  <2>1. now <= stamp[g] - skew[worker[g]] + MaxLag
    BY <1>1 DEF LagInv, ReadClockAt
  <2>2. skew[worker[g]] \in 0..MaxSkew
    BY DEF TypeOK
  <2>3. QED
    BY <1>4, <2>1, <2>2
<1>9. \A u \in User : \A o \in zset'[u] :
         Cardinality(Behind(u, o)') < Allowance
  <2> SUFFICES ASSUME NEW u \in User, NEW o \in zset'[u]
               PROVE  Cardinality(Behind(u, o)') < Allowance
    OBVIOUS
  <2>1. CASE u # v
    <3>1. o \in zset[u] /\ zset[u] \in SUBSET Request
      BY <1>5, <2>1 DEF TypeOK
    <3>2. Behind(u, o)' = Behind(u, o)
      BY <1>1, <1>5, <1>6, <1>7, <2>1, <3>1 DEF Behind
    <3>3. QED
      BY <3>1, <3>2 DEF FewBehind
  <2>2. CASE u = v /\ Cardinality(C) <= Allowance
    <3>1. o \in C /\ Behind(u, o)' \subseteq C \ {o}
      <4>1. o \in C /\ stamp'[o] = stamp[o] /\ stamp[o] \in Nat
        BY <1>1, <1>3, <1>4, <1>5, <2>2
      <4>2. ~(stamp[o] > stamp[o] + MaxLag + MaxSkew)
        BY <1>4, <4>1
      <4>3. QED
        BY <1>1, <1>5, <2>2, <4>1, <4>2 DEF Behind
    <3>2. IsFiniteSet(C)
      BY <1>3, RequestFinite, FS_Subset
    <3>3. Cardinality(C \ {o}) = Cardinality(C) - 1
      BY <3>1, <3>2, FS_RemoveElement
    <3>4. /\ C \ {o} \in SUBSET Request /\ Cardinality(C) \in Nat
          /\ Cardinality(Behind(u, o)') <= Cardinality(C \ {o})
          /\ Cardinality(Behind(u, o)') \in Nat
      BY <1>3, <3>1, RequestSets
    <3>5. QED
      BY <1>4, <2>2, <3>3, <3>4
  <2>3. CASE u = v /\ ~(Cardinality(C) <= Allowance)
    <3>1. ~Holds(g)'
      BY <1>5, <2>3 DEF Holds
    <3>2. CASE o = g
      <4>1. ASSUME NEW q \in Behind(u, o)' PROVE FALSE
        <5>1. /\ q \in Request /\ stamp[q] > stamp[g] + MaxLag + MaxSkew
          BY <1>1, <1>3, <1>5, <2>3, <3>2, <4>1 DEF Behind
        <5>2. stamp[q] <= now + MaxSkew
          BY <5>1 DEF TimesInv
        <5>3. QED
          BY <1>4, <1>8, <5>1, <5>2
      <4>2. Behind(u, o)' = {}
        BY <4>1
      <4>3. QED
        BY <1>4, <4>2, FS_EmptySet
    <3>3. CASE o # g
      <4>1. o \in zset[u] /\ zset[u] \in SUBSET Request
        BY <1>3, <1>5, <2>3, <3>3 DEF TypeOK
      <4>2. Behind(u, o)' \subseteq Behind(u, o)
        BY <1>1, <1>3, <1>5, <1>6, <2>3, <3>1 DEF Behind
      <4>3. Behind(u, o) \in SUBSET Request
        BY <4>1 DEF Behind
      <4>4. /\ Cardinality(Behind(u, o)') <= Cardinality(Behind(u, o))
            /\ Cardinality(Behind(u, o)') \in Nat
            /\ Cardinality(Behind(u, o)) \in Nat
        BY <4>2, <4>3, RequestSets
      <4>5. Cardinality(Behind(u, o)) < Allowance
        BY <4>1 DEF FewBehind
      <4>6. QED
        BY <1>4, <4>4, <4>5
    <3>4. QED
      BY <3>2, <3>3
  <2>4. QED
    BY <2>1, <2>2, <2>3
<1>10. FewBehind'
  BY <1>9 DEF FewBehind
<1>11. FewBefore'
  <2> SUFFICES ASSUME NEW r \in Request, Over(r)'
               PROVE  Cardinality(Before(r)') < Allowance
    BY DEF FewBefore
  <2>1. CASE r = g
    <3>1. PICK u \in User : u = v
      BY <1>4
    <3>2. first \in zset'[u] /\ zset'[u] = C
      BY <1>2, <1>5, <3>1 DEF IsOldest
    <3>3. Before(r)' \subseteq Behind(u, first)'
      BY <1>1, <1>5, <2>1, <3>1 DEF Before, Behind
    <3>4. Behind(u, first)' \in SUBSET Request
      BY <1>3, <3>2 DEF Behind
    <3>5. /\ Cardinality(Before(r)') <= Cardinality(Behind(u, first)')
          /\ Cardinality(Before(r)') \in Nat
          /\ Cardinality(Behind(u, first)') \in Nat
      BY <3>3, <3>4, RequestSets
    <3>6. Cardinality(Behind(u, first)') < Allowance
      BY <1>9, <3>2
    <3>7. QED
      BY <1>4, <3>5, <3>6
  <2>2. CASE r # g
    <3>1. Over(r) /\ user[r] \in User /\ zset[user[r]] \in SUBSET Request
      BY <1>5, <2>2 DEF Over, TypeOK
    <3>2. ~(now < execAt[r])
      <4>1. execAt[r] <= now
        BY DEF TimesInv
      <4>2. QED
        BY <1>4, <4>1
    <3>3. Before(r)' \subseteq Before(r)
      <4> SUFFICES ASSUME NEW q \in Before(r)' PROVE q \in Before(r)
        OBVIOUS
      <4>1. /\ q \in zset'[user[r]] /\ Holds(q)' /\ execAt'[q] < execAt'[r]
            /\ stamp'[q] > oldest'[r] + MaxLag + MaxSkew
            /\ user'[r] = user[r]
        BY <1>1 DEF Before
      <4>2. q # g
        BY <1>5, <2>2, <3>2, <4>1
      <4>3. q \in zset[user[r]]
        BY <1>3, <1>5, <3>1, <4>1, <4>2
      <4>4. QED
        BY <1>1, <1>5, <1>6, <2>2, <3>1, <4>1, <4>2, <4>3 DEF Before
    <3>4. Before(r) \in SUBSET Request
      BY <3>1 DEF Before
    <3>5. /\ Cardinality(Before(r)') <= Cardinality(Before(r))
          /\ Cardinality(Before(r)') \in Nat
          /\ Cardinality(Before(r)) \in Nat
      BY <3>3, <3>4, RequestSets
    <3>6. Cardinality(Before(r)) < Allowance
      BY <3>1 DEF FewBefore
    <3>7. QED
      BY <1>4, <3>5, <3>6
  <2>3. QED
    BY <2>1, <2>2
<1>12. QED
  BY <1>10, <1>11

(* The sorted set holds executed requests of its user, no timestamp is     *)
(* further ahead than a clock may be, and a refusal follows a no.          *)
LEMMA BookkeepingStep ==
    ASSUME TypeOK, TypeOK', EntriesInv, TimesInv, WaitInv, [Next]_vars
    PROVE  EntriesInv' /\ TimesInv' /\ WaitInv'
<1>1. /\ now \in Nat /\ MaxSkew \in Nat
      /\ \A q \in Request : stamp[q] \in Nat /\ execAt[q] \in Nat
  BY ParametersAssumption DEF TypeOK
<1>2. CASE Tick
  <2>1. /\ now' = now + 1
        /\ UNCHANGED <<pc, user, stamp, execAt, used, oldest, retryAfter, zset>>
    BY <1>2 DEF Tick, requestVars, redisVars
  <2>2. TimesInv'
    <3> SUFFICES ASSUME NEW q \in Request
                 PROVE  stamp[q] <= now + 1 + MaxSkew /\ execAt[q] <= now + 1
      BY <2>1 DEF TimesInv
    <3>1. stamp[q] <= now + MaxSkew /\ execAt[q] <= now
      BY DEF TimesInv
    <3>2. QED
      BY <1>1, <3>1
  <2>3. QED
    BY <2>1, <2>2 DEF EntriesInv, WaitInv
<1>3. CASE UNCHANGED vars
  BY <1>3 DEF vars, requestVars, redisVars, EntriesInv, TimesInv, WaitInv
<1>4. ASSUME NEW r \in Request, Arrive(r)
      PROVE  EntriesInv' /\ TimesInv' /\ WaitInv'
  <2>1. /\ pc[r] = "new" /\ pc' = [pc EXCEPT ![r] = "stamped"]
        /\ stamp' = [stamp EXCEPT ![r] = now + skew[worker[r]]]
        /\ UNCHANGED <<now, user, execAt, used, oldest, retryAfter, zset>>
    BY <1>4 DEF Arrive, redisVars
  <2>2. stamp'[r] <= now + MaxSkew
    <3>1. skew[worker[r]] \in 0..MaxSkew
      BY DEF TypeOK
    <3>2. stamp'[r] = now + skew[worker[r]]
      BY <2>1 DEF TypeOK
    <3>3. QED
      BY <1>1, <3>1, <3>2
  <2>3. \A q \in Request : q # r => pc'[q] = pc[q] /\ stamp'[q] = stamp[q]
    BY <2>1 DEF TypeOK
  <2>4. pc'[r] = "stamped"
    BY <2>1 DEF TypeOK
  <2>5. TimesInv'
    BY <2>1, <2>2, <2>3 DEF TimesInv
  <2>6. EntriesInv'
    BY <2>1, <2>3 DEF EntriesInv, TypeOK
  <2>7. WaitInv'
    BY <2>1, <2>3, <2>4 DEF WaitInv
  <2>8. QED
    BY <2>5, <2>6, <2>7
<1>5. ASSUME NEW r \in Request, Execute(r)
      PROVE  EntriesInv' /\ TimesInv' /\ WaitInv'
  <2>1. /\ pc[r] = "stamped" /\ pc' = [pc EXCEPT ![r] = "executed"]
        /\ zset' = [zset EXCEPT ![user[r]] = Claimed(r)]
        /\ execAt' = [execAt EXCEPT ![r] = now]
        /\ used' = [used EXCEPT ![r] = Cardinality(Claimed(r))]
        /\ UNCHANGED <<now, user, stamp, retryAfter>>
        /\ \A q \in Request : q # r => oldest'[q] = oldest[q]
    BY <1>5 DEF Execute, TypeOK
  <2>2. /\ pc'[r] = "executed" /\ execAt'[r] = now
        /\ \A q \in Request : q # r => /\ pc'[q] = pc[q]
                                       /\ used'[q] = used[q]
                                       /\ execAt'[q] = execAt[q]
    BY <2>1 DEF TypeOK
  <2>3. TimesInv'
    BY <1>1, <2>1, <2>2 DEF TimesInv
  <2>4. \A u \in User : \A q \in zset'[u] :
           q \in Request /\ (q \in zset[u] \/ (q = r /\ u = user[r]))
    BY <2>1 DEF Claimed, Live, TypeOK
  <2>5. EntriesInv'
    BY <2>1, <2>2, <2>4 DEF EntriesInv
  <2>6. WaitInv'
    BY <2>1, <2>2 DEF WaitInv
  <2>7. QED
    BY <2>3, <2>5, <2>6
<1>6. ASSUME NEW r \in Request, Grant(r) \/ OverLimit(r)
      PROVE  EntriesInv' /\ TimesInv' /\ WaitInv'
  <2>1. /\ \/ pc' = [pc EXCEPT ![r] = "granted"]
           \/ pc' = [pc EXCEPT ![r] = "over"] /\ used[r] > Allowance
        /\ UNCHANGED <<now, user, stamp, execAt, used, oldest, retryAfter, zset>>
    BY <1>6 DEF Grant, OverLimit, redisVars
  <2>2. /\ pc'[r] = "granted" \/ (pc'[r] = "over" /\ used[r] > Allowance)
        /\ \A q \in Request : q # r => pc'[q] = pc[q]
    BY <2>1 DEF TypeOK
  <2>3. EntriesInv'
    BY <2>1, <2>2 DEF EntriesInv, TypeOK
  <2>4. WaitInv' /\ TimesInv'
    BY <2>1, <2>2 DEF WaitInv, TimesInv
  <2>5. QED
    BY <2>3, <2>4
<1>7. ASSUME NEW r \in Request, Reclaim(r) \/ ReclaimFails(r)
      PROVE  EntriesInv' /\ TimesInv' /\ WaitInv'
  <2>1. /\ pc[r] = "over"
        /\ \/ pc' = [pc EXCEPT ![r] = "refused"]
           \/ pc' = [pc EXCEPT ![r] = "refusedHolding"]
        /\ retryAfter' = [retryAfter EXCEPT
                            ![r] = Seconds(oldest[r] + Window - stamp[r])]
        /\ UNCHANGED <<now, user, stamp, execAt, used, oldest>>
        /\ zset' = zset \/ zset' = [zset EXCEPT ![user[r]] = Live(user[r]) \ {r}]
    BY <1>7 DEF Reclaim, ReclaimFails, Refuse
  <2>2. /\ pc'[r] \in {"refused", "refusedHolding"}
        /\ retryAfter'[r] = Seconds(oldest[r] + Window - stamp[r])
        /\ \A q \in Request :
              q # r => pc'[q] = pc[q] /\ retryAfter'[q] = retryAfter[q]
    BY <2>1 DEF TypeOK
  <2>3. \A u \in User : zset'[u] \subseteq zset[u]
    <3>1. CASE zset' = zset
      BY <3>1
    <3>2. CASE zset' = [zset EXCEPT ![user[r]] = Live(user[r]) \ {r}]
      BY <3>2 DEF Live, TypeOK
    <3>3. QED
      BY <2>1, <3>1, <3>2
  <2>4. EntriesInv'
    BY <2>1, <2>2, <2>3 DEF EntriesInv, TypeOK
  <2>5. TimesInv'
    BY <2>1 DEF TimesInv
  <2>6. WaitInv'
    BY <2>1, <2>2 DEF WaitInv
  <2>7. QED
    BY <2>4, <2>5, <2>6
<1>8. ASSUME NEW r \in Request, FallBack(r)
      PROVE  EntriesInv' /\ TimesInv' /\ WaitInv'
  <2>1. /\ \/ /\ pc' = [pc EXCEPT ![r] = "refusedHere"]
              /\ UNCHANGED execAt
           \/ /\ pc' = [pc EXCEPT ![r] = "grantedHere"]
              /\ execAt' = [execAt EXCEPT ![r] = now]
        /\ \A q \in Request : q # r => retryAfter'[q] = retryAfter[q]
        /\ UNCHANGED <<now, user, stamp, used, oldest, zset>>
    <3>1. /\ \/ /\ pc' = [pc EXCEPT ![r] = "refusedHere"]
                /\ UNCHANGED execAt
             \/ /\ pc' = [pc EXCEPT ![r] = "grantedHere"]
                /\ execAt' = [execAt EXCEPT ![r] = now]
          /\ UNCHANGED <<now, user, stamp, used, oldest, zset>>
      BY <1>8, Zenon
         DEF FallBack, CheckInProcess, RefuseHere, GrantHere, redisVars
    <3>2. \/ UNCHANGED retryAfter
          \/ \E n : retryAfter' = [retryAfter EXCEPT ![r] = n]
      BY <1>8, Zenon DEF FallBack, CheckInProcess, RefuseHere, GrantHere
    <3>3. QED
      BY <3>1, <3>2 DEF TypeOK
  <2>2. /\ pc'[r] \in {"refusedHere", "grantedHere"}
        /\ execAt'[r] = execAt[r] \/ execAt'[r] = now
        /\ \A q \in Request :
              q # r => pc'[q] = pc[q] /\ execAt'[q] = execAt[q]
    BY <2>1 DEF TypeOK
  <2>3. EntriesInv'
    BY <2>1, <2>2 DEF EntriesInv, TypeOK
  <2>4. TimesInv'
    BY <1>1, <2>1, <2>2 DEF TimesInv
  <2>5. WaitInv'
    BY <2>1, <2>2 DEF WaitInv
  <2>6. QED
    BY <2>3, <2>4, <2>5
<1>9. QED
  BY <1>2, <1>3, <1>4, <1>5, <1>6, <1>7, <1>8 DEF Next

(* Every step keeps what the waits of the Redis path rest on.              *)
LEMMA RetryStep ==
    RetryInv /\ RedisInv /\ RedisInv' /\ [Next]_vars => RetryInv'
<1> SUFFICES ASSUME RetryInv, RedisInv, RedisInv', [Next]_vars
             PROVE  RetryInv'
  OBVIOUS
<1>1. TypeOK /\ TypeOK' /\ LagInv
  BY DEF RedisInv
<1>2. EntriesInv' /\ TimesInv' /\ WaitInv'
  BY <1>1, BookkeepingStep DEF RetryInv
<1>3. ASSUME NEW r \in Request, Execute(r) PROVE FewBehind' /\ FewBefore'
  BY <1>1, <1>3, BehindExecute
<1>4. ASSUME UNCHANGED user,
             \A u \in User : zset'[u] \subseteq zset[u],
             \A u \in User : \A q \in zset[u] : stamp'[q] = stamp[q],
             \A q \in Request :
                 /\ Holds(q)' => Holds(q) /\ execAt'[q] = execAt[q]
                 /\ Over(q)' => Over(q) /\ execAt'[q] = execAt[q]
                                        /\ oldest'[q] = oldest[q]
      PROVE  FewBehind' /\ FewBefore'
  BY <1>1, <1>4, BehindLess DEF RetryInv
<1>5. ASSUME Tick \/ UNCHANGED vars PROVE FewBehind' /\ FewBefore'
  BY <1>4, <1>5 DEF Tick, vars, requestVars, redisVars, Holds, Over
<1>6. ASSUME NEW r \in Request, Arrive(r) PROVE FewBehind' /\ FewBefore'
  <2>1. /\ pc[r] = "new" /\ pc' = [pc EXCEPT ![r] = "stamped"]
        /\ stamp' = [stamp EXCEPT ![r] = now + skew[worker[r]]]
        /\ UNCHANGED <<user, execAt, used, oldest, zset>>
    BY <1>6 DEF Arrive, redisVars
  <2>2. /\ pc'[r] = "stamped"
        /\ \A q \in Request : q # r => pc'[q] = pc[q] /\ stamp'[q] = stamp[q]
    BY <1>1, <2>1 DEF TypeOK
  <2>3. \A u \in User : \A q \in zset[u] : stamp'[q] = stamp[q]
    BY <1>1, <2>1, <2>2 DEF RetryInv, EntriesInv, TypeOK
  <2>4. QED
    BY <1>4, <2>1, <2>2, <2>3 DEF Holds, Over
<1>7. ASSUME NEW r \in Request, Grant(r) \/ OverLimit(r)
      PROVE  FewBehind' /\ FewBefore'
  <2>1. /\ pc[r] = "executed"
        /\ \/ pc' = [pc EXCEPT ![r] = "granted"] /\ used[r] <= Allowance
           \/ pc' = [pc EXCEPT ![r] = "over"] /\ used[r] > Allowance
        /\ UNCHANGED <<user, stamp, execAt, used, oldest, zset>>
    BY <1>7 DEF Grant, OverLimit, redisVars
  <2>2. /\ \/ pc'[r] = "granted" /\ used[r] <= Allowance
           \/ pc'[r] = "over" /\ used[r] > Allowance
        /\ \A q \in Request : q # r => pc'[q] = pc[q]
    BY <1>1, <2>1 DEF TypeOK
  <2>3. QED
    BY <1>4, <2>1, <2>2 DEF Holds, Over
<1>8. ASSUME NEW r \in Request, Reclaim(r) \/ ReclaimFails(r)
      PROVE  FewBehind' /\ FewBefore'
  <2>1. /\ pc[r] = "over"
        /\ \/ pc' = [pc EXCEPT ![r] = "refused"]
           \/ pc' = [pc EXCEPT ![r] = "refusedHolding"]
        /\ UNCHANGED <<user, stamp, execAt, used, oldest>>
        /\ zset' = zset \/ zset' = [zset EXCEPT ![user[r]] = Live(user[r]) \ {r}]
    BY <1>8 DEF Reclaim, ReclaimFails, Refuse
  <2>2. /\ pc'[r] \in {"refused", "refusedHolding"}
        /\ \A q \in Request : q # r => pc'[q] = pc[q]
    BY <1>1, <2>1 DEF TypeOK
  <2>3. \A u \in User : zset'[u] \subseteq zset[u]
    <3>1. CASE zset' = zset
      BY <3>1
    <3>2. CASE zset' = [zset EXCEPT ![user[r]] = Live(user[r]) \ {r}]
      BY <1>1, <3>2 DEF Live, TypeOK
    <3>3. QED
      BY <2>1, <3>1, <3>2
  <2>4. QED
    BY <1>4, <2>1, <2>2, <2>3 DEF Holds, Over
<1>9. ASSUME NEW r \in Request, FallBack(r) PROVE FewBehind' /\ FewBefore'
  <2>1. /\ \/ /\ pc' = [pc EXCEPT ![r] = "refusedHere"]
              /\ UNCHANGED execAt
           \/ /\ pc' = [pc EXCEPT ![r] = "grantedHere"]
              /\ execAt' = [execAt EXCEPT ![r] = now]
        /\ UNCHANGED <<user, stamp, used, oldest, zset>>
    BY <1>9, Zenon
       DEF FallBack, CheckInProcess, RefuseHere, GrantHere, redisVars
  <2>2. /\ pc'[r] \in {"refusedHere", "grantedHere"}
        /\ \A q \in Request :
              q # r => pc'[q] = pc[q] /\ execAt'[q] = execAt[q]
    BY <1>1, <2>1 DEF TypeOK
  <2>3. QED
    BY <1>4, <2>1, <2>2 DEF Holds, Over
<1>10. FewBehind' /\ FewBefore'
  BY <1>3, <1>5, <1>6, <1>7, <1>8, <1>9 DEF Next
<1>11. QED
  BY <1>2, <1>10 DEF RetryInv

(* What the waits of the Redis path rest on holds in every state.          *)
LEMMA RetryInvariant == Spec => []RetryInv
<1>1. Init => RetryInv
  <2> SUFFICES ASSUME Init PROVE RetryInv
    OBVIOUS
  <2>1. /\ \A r \in Request : pc[r] = "new" /\ stamp[r] = 0 /\ execAt[r] = 0
        /\ \A u \in User : zset[u] = {}
        /\ now = 0
    BY DEF Init
  <2>2. QED
    BY <2>1, ParametersAssumption
       DEF RetryInv, EntriesInv, TimesInv, WaitInv, FewBehind, FewBefore, Over
<1>2. QED
  BY <1>1, RetryStep, RedisInvariant, PTL DEF Spec

(* Few slots that were let through before are still in the window.         *)
LEMMA WaitIsTrue == RedisInv /\ RetryInv => RetryAfterIsTrue
<1> SUFFICES ASSUME RedisInv, RetryInv, NEW r \in Request,
                    pc[r] \in {"refused", "refusedHolding"}
             PROVE  Cardinality({q \in GrantedBefore(r) :
                                    stamp[q] > RetryAt(r) - Window}) < Allowance
  BY DEF RetryAfterIsTrue
<1> DEFINE S == {q \in GrantedBefore(r) : stamp[q] > RetryAt(r) - Window}
<1>1. /\ user[r] \in User /\ zset[user[r]] \in SUBSET Request
      /\ stamp[r] \in Nat /\ oldest[r] \in Nat
      /\ \A q \in Request : stamp[q] \in Nat
  BY DEF RedisInv, TypeOK
<1>2. used[r] > Allowance /\ retryAfter[r] = Seconds(oldest[r] + Window - stamp[r])
  BY DEF RetryInv, WaitInv
<1>3. /\ retryAfter[r] * Second \in Nat
      /\ retryAfter[r] * Second > oldest[r] + Window - stamp[r]
  <2>1. oldest[r] + Window - stamp[r] \in Int
    BY <1>1, WaitType
  <2>2. retryAfter[r] \in Nat /\ Second \in Nat
    BY ParametersAssumption DEF RedisInv, TypeOK
  <2>3. QED
    BY <1>2, <2>1, <2>2, SecondsLast
<1>4. ASSUME NEW q \in S PROVE q \in Before(r)
  <2>1. /\ q \in zset[user[r]] /\ q \in Request
        /\ pc[q] = "granted" /\ execAt[q] < execAt[r]
        /\ stamp[q] > RetryAt(r) - Window
    BY <1>1 DEF GrantedBefore
  <2>2. Holds(q)
    BY <2>1 DEF Holds, RedisInv, EntryInv
  <2>3. stamp[q] > (stamp[r] + retryAfter[r] * Second + MaxLag + MaxSkew)
                      - Window
    BY <2>1, Zenon DEF RetryAt
  <2>4. stamp[q] > oldest[r] + MaxLag + MaxSkew
    <3> DEFINE wait == retryAfter[r] * Second
    <3>1. wait \in Nat /\ wait > oldest[r] + Window - stamp[r]
      BY <1>3
    <3>2. stamp[q] > (stamp[r] + wait + MaxLag + MaxSkew) - Window
      BY <2>3
    <3> HIDE DEF wait
    <3>3. QED
      BY <1>1, <2>1, <3>1, <3>2, ParametersAssumption
  <2>5. QED
    BY <2>1, <2>2, <2>4 DEF Before
<1>5. S \subseteq Before(r) /\ Before(r) \in SUBSET Request
  BY <1>1, <1>4 DEF Before
<1>6. /\ Cardinality(S) <= Cardinality(Before(r))
      /\ Cardinality(S) \in Nat /\ Cardinality(Before(r)) \in Nat
  BY <1>5, RequestSets
<1>7. Cardinality(Before(r)) < Allowance
  BY <1>2 DEF RetryInv, FewBefore, Over
<1>8. QED
  BY <1>6, <1>7, ParametersAssumption

(***************************************************************************)
(* Retry-After of the in-process path.  A refusal stands: until the user   *)
(* sends something later or the worker has to forget somebody, the full    *)
(* deque keeps the head the wait was computed from.                        *)
(***************************************************************************)
DequesBounded ==
    \A w \in Worker, u \in User : Len(table[w][u]) <= Allowance

\* The user has sent something later.
Later(r) ==
    \E q \in Request :
        user[q] = user[r] /\ pc[q] # "new" /\ stamp[q] > stamp[r]

Stands(r) ==
    LET h == table[worker[r]][user[r]] IN
    /\ Len(h) = Allowance
    /\ retryAfter[r] = Seconds(stamp[h[1]] + Window - stamp[r])
    /\ stamp[h[1]] > stamp[r] - Window

RefusalsStand ==
    \A r \in Request : pc[r] = "refusedHere" =>
        Later(r) \/ ~Roomy(worker[r]) \/ Stands(r)

HereInv == DequesBounded /\ RefusalsStand

(* A step that touches no table and nobody served here keeps the refusals. *)
LEMMA StandingStep ==
    ASSUME WorkerInv, TypeOK', HereInv,
           UNCHANGED <<user, worker, table>>,
           \A q \in Request : /\ Here(q)' <=> Here(q)
                              /\ pc'[q] = "refusedHere" =>
                                    /\ pc[q] = "refusedHere"
                                    /\ retryAfter'[q] = retryAfter[q]
                              /\ pc[q] # "new" =>
                                    pc'[q] # "new" /\ stamp'[q] = stamp[q]
    PROVE  HereInv'
<1> USE DEF HereInv
<1>1. DequesBounded'
  BY DEF DequesBounded
<1>2. RefusalsStand'
  <2> SUFFICES ASSUME NEW r \in Request, pc'[r] = "refusedHere"
               PROVE  Later(r)' \/ ~Roomy(worker[r])' \/ Stands(r)'
    BY DEF RefusalsStand
  <2>1. /\ pc[r] = "refusedHere" /\ retryAfter'[r] = retryAfter[r]
        /\ stamp'[r] = stamp[r]
    OBVIOUS
  <2>2. worker[r] \in Worker /\ user[r] \in User
    BY DEF WorkerInv, TypeOK
  <2>3. CASE Later(r)
    BY <2>1, <2>3 DEF Later
  <2>4. CASE ~Roomy(worker[r])
    <3>1. PICK w \in Worker : w = worker[r]
      BY <2>2
    <3>2. Roomy(w)' => Roomy(w)
      BY RoomBefore
    <3>3. QED
      BY <2>4, <3>1, <3>2 DEF Roomy, UsersHere
  <2>5. CASE Stands(r)
    <3> DEFINE h == table[worker[r]][user[r]]
    <3>1. /\ Len(h) = Allowance
          /\ retryAfter[r] = Seconds(stamp[h[1]] + Window - stamp[r])
          /\ stamp[h[1]] > stamp[r] - Window
      BY <2>5 DEF Stands
    <3>2. h \in Seq(Request) /\ 1 \in 1..Len(h)
      BY <2>2, <3>1, ParametersAssumption DEF WorkerInv, TypeOK
    <3>3. h[1] \in Request /\ In(h[1], h)
      BY <3>2, ElementOfSeq DEF In
    <3>4. Here(h[1])
      BY <2>2, <3>3 DEF WorkerInv, TableInv
    <3>5. stamp'[h[1]] = stamp[h[1]]
      BY <3>3, <3>4 DEF Here
    <3>6. QED
      BY <2>1, <3>1, <3>5 DEF Stands
  <2>6. QED
    BY <2>1, <2>3, <2>4, <2>5 DEF RefusalsStand
<1>3. QED
  BY <1>1, <1>2

(* _prune leaves a full deque alone whose head is in the window.           *)
LEMMA HeadKept ==
    ASSUME NEW h \in Seq(Request), Len(h) > 0, NEW cutoff \in Int,
           \A q \in Request : stamp[q] \in Nat,
           stamp[h[1]] > cutoff,
           NEW k \in 0..Len(h), Drops(k, h, cutoff)
    PROVE  k = 0
<1>1. Len(h) \in Nat /\ 1 \in 1..Len(h)
  BY LenProperties
<1>2. stamp[h[1]] \in Nat
  BY <1>1, ElementOfSeq
<1>3. CASE 1 \in 1..k
  <2>1. stamp[h[1]] <= cutoff
    BY <1>3 DEF Drops
  <2>2. QED
    BY <1>2, <2>1
<1>4. QED
  BY <1>1, <1>3

(* The in-process check: a refusal is computed from the head that stays,   *)
(* and a request with an old timestamp disturbs no earlier refusal.        *)
LEMMA StandingFallBack ==
    ASSUME WorkerInv, TypeOK', HereInv, NEW g \in Request, FallBack(g)
    PROVE  HereInv'
<1> USE DEF HereInv
<1> DEFINE w == worker[g]
           u == user[g]
           h == table[w][u]
<1>1. /\ pc[g] \in {"stamped", "executed"}
      /\ UNCHANGED <<user, worker, stamp>>
  BY DEF FallBack
<1>2. PICK k \in 0..Len(h) :
        /\ Drops(k, h, stamp[g] - Window)
        /\ \/ RefuseHere(g, SubSeq(h, k + 1, Len(h)))
           \/ GrantHere(g, SubSeq(h, k + 1, Len(h)))
  BY Zenon DEF FallBack, CheckInProcess
<1> DEFINE left == SubSeq(h, k + 1, Len(h))
<1>3. /\ h \in Seq(Request) /\ w \in Worker /\ u \in User /\ Len(h) \in Nat
      /\ Allowance \in Nat /\ Allowance > 0 /\ Window \in Nat
      /\ \A q \in Request : stamp[q] \in Nat
      /\ TypeOK /\ TableInv
  <2>1. TypeOK /\ TableInv
    BY DEF WorkerInv
  <2>2. /\ h \in Seq(Request) /\ w \in Worker /\ u \in User
        /\ \A q \in Request : stamp[q] \in Nat
    BY <2>1 DEF TypeOK
  <2>3. Len(h) \in Nat
    BY <2>2, LenProperties
  <2>4. QED
    BY <2>1, <2>2, <2>3, ParametersAssumption
<1>4. /\ left \in Seq(Request) /\ Len(left) = Len(h) - k
      /\ \A i \in 1..(Len(h) - k) : left[i] = h[k + i]
  BY <1>3, PrunedHistory
<1>5. Len(h) <= Allowance /\ Len(left) \in Nat
  BY <1>3, <1>4 DEF DequesBounded
\* What is left in the deque was there.
<1>6. \A q \in Request : In(q, left) => In(q, h)
  <2> SUFFICES ASSUME NEW q \in Request, NEW i \in 1..Len(left), left[i] = q
               PROVE  In(q, h)
    BY DEF In
  <2>1. i \in 1..(Len(h) - k) /\ left[i] = h[k + i]
    BY <1>4
  <2>2. k + i \in 1..Len(h)
    BY <1>3, <2>1
  <2>3. QED
    BY <2>1, <2>2 DEF In
\* Of the deque of a refusal that stands nothing is pruned by an older one.
<1>7. ASSUME NEW r \in Request, worker[r] = w, user[r] = u, Stands(r),
             ~(stamp[g] > stamp[r])
      PROVE  left = h /\ Len(h) = Allowance
  <2>1. Len(h) = Allowance /\ stamp[h[1]] > stamp[r] - Window
    BY <1>7 DEF Stands
  <2>2. h[1] \in Request
    BY <1>3, <2>1, ElementOfSeq
  <2>3. stamp[h[1]] > stamp[g] - Window /\ stamp[g] - Window \in Int
    BY <1>3, <1>7, <2>1, <2>2
  <2>4. k = 0
    BY <1>2, <1>3, <2>1, <2>3, HeadKept
  <2>5. \A i \in 1..Len(h) : left[i] = h[i]
    BY <1>3, <1>4, <2>4
  <2>6. Len(left) = Len(h)
    BY <1>3, <1>4, <2>4
  <2>7. left = h
    BY <1>3, <1>4, <2>5, <2>6, SeqEqual
  <2>8. QED
    BY <2>1, <2>7
<1>8. \A q \in Request : Later(q) => Later(q)'
  <2> SUFFICES ASSUME NEW q \in Request, NEW p \in Request,
                      user[p] = user[q], pc[p] # "new", stamp[p] > stamp[q]
               PROVE  pc'[p] # "new"
    BY <1>1 DEF Later
  <2>1. pc' = [pc EXCEPT ![g] = "refusedHere"]
        \/ pc' = [pc EXCEPT ![g] = "grantedHere"]
    BY Zenon DEF FallBack, CheckInProcess, RefuseHere, GrantHere
  <2>2. QED
    BY <1>3, <2>1 DEF TypeOK
<1> HIDE DEF left
<1>9. CASE RefuseHere(g, left)
  <2>1. /\ Len(left) >= Allowance
        /\ table' = [table EXCEPT ![w][u] = left]
        /\ retryAfter' = [retryAfter EXCEPT
                            ![g] = Seconds(stamp[left[1]] + Window - stamp[g])]
        /\ pc' = [pc EXCEPT ![g] = "refusedHere"]
    BY <1>9 DEF RefuseHere
  <2>2. \A v \in Worker, x \in User :
           table'[v][x] = IF v = w /\ x = u THEN left ELSE table[v][x]
    BY <1>3, <2>1 DEF TypeOK
  <2>3. /\ retryAfter'[g] = Seconds(stamp[left[1]] + Window - stamp[g])
        /\ \A q \in Request :
              q # g => retryAfter'[q] = retryAfter[q] /\ pc'[q] = pc[q]
    BY <1>3, <2>1 DEF TypeOK
  <2>4. \A q \in Request : Here(q) => Here(q)'
    BY <1>1, <2>3 DEF Here
  <2>5. DequesBounded'
    BY <1>3, <1>4, <1>5, <2>2 DEF DequesBounded
  <2>6. Stands(g)'
    <3>1. k = 0 /\ Len(left) = Allowance
      BY <1>3, <1>4, <1>5, <2>1
    <3>2. left[1] = h[1] /\ stamp[h[1]] > stamp[g] - Window
      BY <1>2, <1>3, <1>4, <3>1 DEF Drops
    <3>3. table'[w][u] = left
      BY <1>3, <2>2
    <3>4. QED
      BY <1>1, <2>3, <3>1, <3>2, <3>3 DEF Stands
  <2>7. ASSUME NEW r \in Request, r # g, pc'[r] = "refusedHere"
        PROVE  Later(r)' \/ ~Roomy(worker[r])' \/ Stands(r)'
    <3>1. worker[r] \in Worker /\ user[r] \in User
      BY <1>3 DEF TypeOK
    <3>2. CASE ~Roomy(worker[r])
      <4>1. PICK v \in Worker : v = worker[r]
        BY <3>1
      <4>2. Roomy(v)' => Roomy(v)
        BY <1>1, <2>4, RoomBefore
      <4>3. QED
        BY <1>1, <3>2, <4>1, <4>2 DEF Roomy, UsersHere
    <3>3. CASE Stands(r) /\ (worker[r] # w \/ user[r] # u)
      <4>1. table'[worker[r]][user[r]] = table[worker[r]][user[r]]
        BY <2>2, <3>1, <3>3
      <4>2. QED
        BY <1>1, <2>3, <2>7, <3>3, <4>1 DEF Stands
    <3>4. CASE Stands(r) /\ worker[r] = w /\ user[r] = u /\ stamp[g] > stamp[r]
      <4>1. pc'[g] # "new"
        BY <1>3, <2>1 DEF TypeOK
      <4>2. QED
        BY <1>1, <3>4, <4>1 DEF Later
    <3>5. CASE /\ Stands(r) /\ worker[r] = w /\ user[r] = u
               /\ ~(stamp[g] > stamp[r])
      <4>1. table'[w][u] = table[w][u]
        BY <1>3, <1>7, <2>2, <3>5
      <4>2. QED
        BY <1>1, <2>3, <2>7, <3>5, <4>1 DEF Stands
    <3>6. Later(r) \/ ~Roomy(worker[r]) \/ Stands(r)
      BY <2>3, <2>7 DEF RefusalsStand
    <3>7. QED
      BY <1>8, <3>2, <3>3, <3>4, <3>5, <3>6
  <2>8. RefusalsStand'
    BY <2>6, <2>7 DEF RefusalsStand
  <2>9. QED
    BY <2>5, <2>8
<1>10. CASE GrantHere(g, left)
  <2> DEFINE t0 == Filled(g, left)
  <2>1. /\ \A x \in User : t0[x] = IF x = u THEN Append(left, g) ELSE table[w][x]
        /\ Roomy(w)' => \A x \in User : table'[w][x] = t0[x]
    <3> HIDE DEF HereInv
    <3>1. \A x \in User : t0[x] = IF x = u THEN Append(left, g) ELSE table[w][x]
      BY <1>1, <1>3, <1>4, <1>5, <1>6, <1>10, GrantHereFills
    <3>2. Roomy(w)' => \A x \in User : table'[w][x] = t0[x]
      BY <1>1, <1>3, <1>4, <1>5, <1>6, <1>10, GrantHereFills
    <3>3. QED
      BY <3>1, <3>2
  <2>2. /\ Len(left) < Allowance
        /\ pc' = [pc EXCEPT ![g] = "grantedHere"]
        /\ UNCHANGED retryAfter
    BY <1>10, Zenon DEF GrantHere
  <2>3. PICK K \in SUBSET User :
          table' = [table EXCEPT
              ![w] = [v \in User |-> IF v \in K THEN t0[v] ELSE <<>>]]
    BY <1>10, Zenon DEF GrantHere, Filled
  <2> HIDE DEF t0
  <2>4. \A v \in Worker, x \in User :
           table'[v][x] = IF v # w THEN table[v][x]
                          ELSE IF x \in K THEN t0[x] ELSE <<>>
    BY <1>3, <2>3 DEF TypeOK
  <2>5. Len(Append(left, g)) = Len(left) + 1
    BY <1>4, AppendProperties
  <2>6. DequesBounded'
    <3> SUFFICES ASSUME NEW v \in Worker, NEW x \in User
                 PROVE  Len(table'[v][x]) <= Allowance
      BY DEF DequesBounded
    <3>1. CASE v # w
      BY <2>4, <3>1 DEF DequesBounded
    <3>2. CASE v = w /\ x \notin K
      <4>1. table'[v][x] = <<>> /\ Len(<<>>) = 0
        BY <2>4, <3>2, EmptySeq
      <4>2. QED
        BY <1>3, <4>1
    <3>3. CASE v = w /\ x \in K /\ x # u
      BY <2>1, <2>4, <3>3 DEF DequesBounded
    <3>4. CASE v = w /\ x \in K /\ x = u
      <4>1. table'[v][x] = Append(left, g)
        BY <2>1, <2>4, <3>4
      <4>2. Len(table'[v][x]) = Len(left) + 1
        BY <2>5, <4>1
      <4>3. QED
        BY <1>3, <1>5, <2>2, <4>2
    <3>5. QED
      BY <3>1, <3>2, <3>3, <3>4
  <2>7. \A q \in Request : q # g => pc'[q] = pc[q]
    BY <1>3, <2>2 DEF TypeOK
  <2>8. pc'[g] = "grantedHere"
    BY <1>3, <2>2 DEF TypeOK
  <2>9. \A q \in Request : Here(q) => Here(q)'
    BY <1>1, <2>7 DEF Here
  <2>10. ASSUME NEW r \in Request, pc'[r] = "refusedHere"
         PROVE  Later(r)' \/ ~Roomy(worker[r])' \/ Stands(r)'
    <3>1. /\ worker[r] \in Worker /\ user[r] \in User
          /\ r # g /\ pc[r] = "refusedHere"
      BY <1>3, <2>7, <2>8, <2>10 DEF TypeOK
    <3>2. CASE ~Roomy(worker[r])
      <4>1. PICK v \in Worker : v = worker[r]
        BY <3>1
      <4>2. Roomy(v)' => Roomy(v)
        BY <1>1, <2>9, RoomBefore
      <4>3. QED
        BY <1>1, <3>2, <4>1, <4>2 DEF Roomy, UsersHere
    <3>3. CASE Stands(r) /\ worker[r] # w
      <4>1. table'[worker[r]][user[r]] = table[worker[r]][user[r]]
        BY <2>4, <3>1, <3>3
      <4>2. QED
        BY <1>1, <2>2, <3>3, <4>1 DEF Stands
    <3>4. CASE Stands(r) /\ worker[r] = w /\ user[r] # u
      <4>1. Roomy(w)' => table'[w][user[r]] = table[w][user[r]]
        BY <2>1, <3>1, <3>4
      <4>2. Roomy(worker[r])' => Roomy(w)'
        BY <1>1, <3>4 DEF Roomy, UsersHere
      <4>3. QED
        BY <1>1, <2>2, <3>4, <4>1, <4>2 DEF Stands
    <3>5. CASE Stands(r) /\ worker[r] = w /\ user[r] = u /\ stamp[g] > stamp[r]
      BY <1>1, <2>8, <3>5 DEF Later
    <3>6. CASE /\ Stands(r) /\ worker[r] = w /\ user[r] = u
               /\ ~(stamp[g] > stamp[r])
      BY <1>3, <1>7, <2>2, <3>6
    <3>7. Later(r) \/ ~Roomy(worker[r]) \/ Stands(r)
      BY <3>1 DEF RefusalsStand
    <3>8. QED
      BY <1>8, <3>2, <3>3, <3>4, <3>5, <3>6, <3>7
  <2>11. RefusalsStand'
    BY <2>10 DEF RefusalsStand
  <2>12. QED
    BY <2>6, <2>11
<1>11. QED
  BY <1>2, <1>9, <1>10 DEF left

(* Every step keeps the refusals standing.                                 *)
LEMMA HereStep == HereInv /\ WorkerInv /\ TypeOK' /\ [Next]_vars => HereInv'
<1> SUFFICES ASSUME HereInv, WorkerInv, TypeOK', [Next]_vars PROVE HereInv'
  OBVIOUS
<1>1. ASSUME NEW r \in Request, FallBack(r) PROVE HereInv'
  BY <1>1, StandingFallBack
<1>2. CASE Tick \/ UNCHANGED vars
  BY <1>2, StandingStep DEF Here, Tick, vars, requestVars
<1>3. ASSUME NEW r \in Request, Arrive(r) PROVE HereInv'
  BY <1>3, StandingStep DEF Here, Arrive, WorkerInv, TypeOK
<1>4. ASSUME NEW r \in Request, Execute(r) PROVE HereInv'
  BY <1>4, StandingStep DEF Here, Execute, WorkerInv, TypeOK
<1>5. ASSUME NEW r \in Request, Grant(r) \/ OverLimit(r) PROVE HereInv'
  BY <1>5, StandingStep DEF Here, Grant, OverLimit, WorkerInv, TypeOK
<1>6. ASSUME NEW r \in Request, Reclaim(r) \/ ReclaimFails(r) PROVE HereInv'
  BY <1>6, StandingStep
     DEF Here, Reclaim, ReclaimFails, Refuse, WorkerInv, TypeOK
<1>7. QED
  BY <1>1, <1>2, <1>3, <1>4, <1>5, <1>6 DEF Next

(* The refusals of the in-process path stand in every state.               *)
LEMMA HereInvariant == Spec => []HereInv
<1>1. Init => HereInv
  <2> SUFFICES ASSUME Init PROVE HereInv
    OBVIOUS
  <2>1. /\ \A r \in Request : pc[r] = "new"
        /\ \A w \in Worker, u \in User : table[w][u] = <<>>
    BY DEF Init
  <2>2. DequesBounded
    BY <2>1, EmptySeq, ParametersAssumption DEF DequesBounded
  <2>3. RefusalsStand
    BY <2>1 DEF RefusalsStand
  <2>4. QED
    BY <2>2, <2>3 DEF HereInv
<1>2. QED
  BY <1>1, HereStep, WorkerInvariant, TypeCorrect, PTL DEF Spec

(* A refusal that stands tells the client the truth.                       *)
LEMMA WaitHereIsTrue == WorkerInv /\ HereInv => RetryAfterHereIsTrue
<1> SUFFICES ASSUME WorkerInv, HereInv, NEW r \in Request,
                    pc[r] = "refusedHere", Latest(r), Roomy(worker[r]),
                    NEW k \in 0..Len(table[worker[r]][user[r]]),
                    Drops(k, table[worker[r]][user[r]],
                          stamp[r] + retryAfter[r] * Second - Window)
             PROVE  Len(table[worker[r]][user[r]]) - k < Allowance
  BY DEF RetryAfterHereIsTrue
<1> DEFINE h == table[worker[r]][user[r]]
           wait == retryAfter[r] * Second
<1>1. /\ h \in Seq(Request) /\ Len(h) \in Nat /\ stamp[r] \in Nat
      /\ \A q \in Request : stamp[q] \in Nat
  BY LenProperties DEF WorkerInv, TypeOK
<1>2. /\ Allowance \in Nat /\ Allowance > 0 /\ Window \in Nat
      /\ retryAfter[r] \in Nat /\ Second \in Nat
  BY ParametersAssumption DEF WorkerInv, TypeOK
<1>3. ~Later(r)
  <2> SUFFICES ASSUME NEW q \in Request, user[q] = user[r], pc[q] # "new",
                      stamp[q] > stamp[r]
               PROVE  FALSE
    BY DEF Later
  <2>1. stamp[q] <= stamp[r]
    BY DEF Latest
  <2>2. QED
    BY <1>1, <2>1
<1>4. /\ Len(h) = Allowance
      /\ retryAfter[r] = Seconds(stamp[h[1]] + Window - stamp[r])
  BY <1>3 DEF HereInv, RefusalsStand, Stands
<1>5. h[1] \in Request /\ stamp[h[1]] \in Nat
  BY <1>1, <1>2, <1>4, ElementOfSeq
<1>6. wait > stamp[h[1]] + Window - stamp[r] /\ wait \in Nat
  <2>1. stamp[h[1]] + Window - stamp[r] \in Int
    BY <1>1, <1>5, WaitType
  <2>2. QED
    BY <1>2, <1>4, <2>1, SecondsLast
<1>7. k < Len(h) => stamp[h[k + 1]] > stamp[r] + wait - Window
  BY DEF Drops
<1> HIDE DEF wait
<1>8. k # 0
  BY <1>1, <1>2, <1>4, <1>5, <1>6, <1>7
<1>9. QED
  BY <1>1, <1>4, <1>8

(* Retry-After never sends a client back too early, on either path: a      *)
(* client that comes back when it was told to finds fewer than Allowance   *)
(* of the slots that were taken before it was refused still counted, and   *)
(* room in the deque of a worker that has not had to forget anybody.       *)
THEOREM ClientsAreNotSentBackEarly == Spec => []RetryAfterKept
<1>1. RedisInv /\ RetryInv /\ WorkerInv /\ HereInv => RetryAfterKept
  BY WaitIsTrue, WaitHereIsTrue DEF RetryAfterKept
<1>2. QED
  BY <1>1, RedisInvariant, RetryInvariant, WorkerInvariant, HereInvariant, PTL
=============================================================================
