------------------------ MODULE SessionStore_proofs ------------------------
(***************************************************************************)
(* What holds of the session store for any number of requests, users and   *)
(* sessions, in every environment: whatever overlaps, breaks or fails.     *)
(***************************************************************************)
EXTENDS SessionStore, Trimming_proofs, SequenceTheorems

(* TypeOK but for what a request found, which depends on whose questions   *)
(* are in the lists.                                                       *)
Typed ==
    /\ ClientTypeOK
    /\ env \in Environments
    /\ now \in 0..Horizon
    /\ user \in [Request -> User]
    /\ session \in [Request -> SessionId]
    /\ pc \in [Request -> {"idle", "done", "broken"} \union InProgress]
    /\ list \in [Request -> Ref]
    /\ calls \in [Request -> Seq(1..MaxCalls)]
    /\ rounds \in [Request -> 0..MaxRounds]
    /\ heap \in [Ref -> Seq(Message)]
    /\ DOMAIN sessions \subseteq Keys
    /\ \A k \in DOMAIN sessions :
          sessions[k] \in [messages: Ref, last_active: 0..Horizon]
    /\ DOMAIN redis \subseteq Keys
    /\ \A k \in DOMAIN redis :
          redis[k] \in [messages: Seq(Message), until: Nat]
    /\ sentWhole \in [Request -> BOOLEAN]
    /\ thread \in [Keys -> Seq(Request)]

-----------------------------------------------------------------------------
(***************************************************************************)
(* Lists, entries and references.                                          *)
(***************************************************************************)
LEMMA Constants ==
    /\ NumRequests \in Nat /\ MaxTurns \in Nat \ {0}
    /\ MaxSessions \in Nat \ {0} /\ Timeout \in Nat \ {0}
    /\ MaxRounds \in Nat /\ MaxCalls \in Nat /\ Horizon \in Nat
    /\ Request \in SUBSET (Nat \ {0})
    /\ \A e \in Environments : e.warm \in BOOLEAN
BY SessionAssumption DEF Request

LEMMA Refs ==
    ASSUME NEW r \in Request
    PROVE  Own(r) \in Ref /\ Saved(r) \in Ref
BY DEF Own, Saved, Ref

LEMMA QuestionType ==
    ASSUME NEW r \in Request
    PROVE  /\ Question(r) \in Message
           /\ Question(r).role = "user" /\ Question(r).id = r
           /\ Question(r).calls = 0
<1>1. r \in Nat
  BY Constants
<1> QED BY <1>1 DEF Question, UserTurn, Message, Roles

LEMMA WithoutEntries ==
    ASSUME NEW f, NEW K
    PROVE  /\ DOMAIN Without(f, K) = DOMAIN f \ K
           /\ \A j \in DOMAIN f \ K : Without(f, K)[j] = f[j]
BY DEF Without

LEMMA WithoutShrinks ==
    ASSUME NEW f, NEW K, NEW g, g = Without(f, K)
    PROVE  /\ DOMAIN g \subseteq DOMAIN f
           /\ \A j \in DOMAIN g : g[j] = f[j]
BY DEF Without

(* _purge takes entries away and changes none.                             *)
LEMMA PurgedEntries ==
    ASSUME NEW f
    PROVE  /\ DOMAIN Purged(f) \subseteq DOMAIN f
           /\ \A j \in DOMAIN Purged(f) : Purged(f)[j] = f[j]
<1> DEFINE expired == {k \in DOMAIN f : now - f[k].last_active > Timeout}
           live == Without(f, expired)
           overflow == Cardinality(DOMAIN live) - MaxSessions
           K == Oldest(live, overflow)
<1>1. Purged(f) = IF overflow > 0 THEN Without(live, K) ELSE live
  BY DEF Purged
<1>2. /\ DOMAIN live = DOMAIN f \ expired
      /\ \A j \in DOMAIN f \ expired : live[j] = f[j]
  BY WithoutEntries
<1> HIDE DEF expired, live, overflow, K
<1>3. /\ DOMAIN Without(live, K) = DOMAIN live \ K
      /\ \A j \in DOMAIN live \ K : Without(live, K)[j] = live[j]
  BY WithoutEntries
<1> QED BY <1>1, <1>2, <1>3

LEMMA KeyType ==
    ASSUME Typed, NEW r \in Request
    PROVE  key(r) \in Keys
BY DEF Typed, key, Keys

LEMMA InitTyped == Init => Typed
<1> SUFFICES ASSUME Init PROVE Typed
  OBVIOUS
<1> USE Constants DEF Init
<1>1. ClientTypeOK
  BY DEF ClientTypeOK, StartClient
<1>2. /\ env \in Environments
      /\ now \in 0..Horizon
      /\ user \in [Request -> User]
      /\ session \in [Request -> SessionId]
  OBVIOUS
<1>3. pc \in [Request -> {"idle", "done", "broken"} \union InProgress]
  OBVIOUS
<1>4. list \in [Request -> Ref]
  BY Refs
<1>5. /\ calls \in [Request -> Seq(1..MaxCalls)]
      /\ rounds \in [Request -> 0..MaxRounds]
      /\ heap \in [Ref -> Seq(Message)]
      /\ thread \in [Keys -> Seq(Request)]
  OBVIOUS
<1>6. DOMAIN sessions = {} /\ DOMAIN redis = {}
  OBVIOUS
<1>7. sentWhole \in [Request -> BOOLEAN]
  OBVIOUS
<1> QED BY <1>1, <1>2, <1>3, <1>4, <1>5, <1>6, <1>7 DEF Typed

(* One more pc value, for one request.                                     *)
LEMMA PcMoves ==
    ASSUME Typed, NEW r \in Request,
           NEW p \in {"idle", "done", "broken"} \union InProgress,
           pc' = [pc EXCEPT ![r] = p]
    PROVE  pc' \in [Request -> {"idle", "done", "broken"} \union InProgress]
BY DEF Typed

LEMMA Extended ==
    ASSUME Typed, NEW r \in Request, NEW ms \in Seq(Message), Extend(r, ms)
    PROVE  heap' \in [Ref -> Seq(Message)]
BY DEF Typed, Extend

LEMMA MessagesType ==
    ASSUME Typed, NEW r \in Request
    PROVE  messages(r) \in Seq(Message)
BY DEF Typed, messages

LEMMA SendTyped ==
    ASSUME Typed, NEW r \in Request, NEW ms \in Seq(Message), Send(r, ms)
    PROVE  /\ pc' \in [Request -> {"idle", "done", "broken"} \union InProgress]
           /\ sentWhole' \in [Request -> BOOLEAN]
<1>1. WholeExchanges(ms) \in BOOLEAN
  BY DEF WholeExchanges, EveryCallAnswered, EveryResultOwned
<1>2. sentWhole' \in [Request -> BOOLEAN]
  BY <1>1 DEF Typed, Send
<1>3. "asking" \in InProgress
  BY DEF InProgress, InTurn
<1> QED BY <1>2, <1>3, PcMoves DEF Send

LEMMA StartTyped ==
    ASSUME Typed, NEW r \in Request, NEW ms \in Seq(Message), StartWith(r, ms)
    PROVE  list' \in [Request -> Ref] /\ heap' \in [Ref -> Seq(Message)]
BY Refs DEF Typed, StartWith

LEMMA ThreadTyped ==
    ASSUME Typed, NEW r \in Request, NewThread(r)
    PROVE  thread' \in [Keys -> Seq(Request)]
BY KeyType DEF Typed, NewThread

LEMMA ThreadGrows ==
    ASSUME Typed, NEW r \in Request,
           thread' = [thread EXCEPT ![key(r)] = Append(@, r)]
    PROVE  thread' \in [Keys -> Seq(Request)]
<1> DEFINE k == key(r)
<1>1. k \in Keys /\ thread \in [Keys -> Seq(Request)]
  BY KeyType DEF Typed
<1> HIDE DEF k
<1>2. Append(thread[k], r) \in Seq(Request)
  BY <1>1
<1>3. thread' = [thread EXCEPT ![k] = Append(thread[k], r)]
  BY DEF k
<1> QED BY <1>1, <1>2, <1>3

LEMMA ReadsTyped ==
    ASSUME Typed, NEW r \in Request, NEW backend, Reads(r, backend)
    PROVE  /\ pc' \in [Request -> {"idle", "done", "broken"} \union InProgress]
           /\ ClientTypeOK'
           /\ UNCHANGED <<now, env, user, session, calls, rounds, sentWhole>>
<1>1. "begun" \in InProgress
  BY DEF InProgress, InTurn
<1>2. ClientTypeOK'
  BY DEF Reads, Cached, Typed, ClientTypeOK
<1> QED BY <1>1, <1>2, PcMoves DEF Reads

LEMMA FirstCall ==
    ASSUME NEW c \in Seq(1..MaxCalls), c # <<>>
    PROVE  Head(c) \in Nat /\ Tail(c) \in Seq(1..MaxCalls)
<1> DEFINE S == 1..MaxCalls
<1>1. c \in Seq(S)
  OBVIOUS
<1> HIDE DEF S
<1>2. Head(c) \in S /\ Tail(c) \in Seq(S)
  BY <1>1, HeadTailProperties
<1> QED BY <1>2 DEF S

LEMMA NextTyped ==
    ASSUME Typed, [Next]_vars
    PROVE  Typed'
<1> USE Constants DEF who, turn, store, connection
<1>1. ASSUME NEW r \in Request, Probe(r) PROVE Typed'
  <2>1. {"probing", "limited"} \subseteq InProgress
    BY DEF InProgress
  <2>2. pc' \in [Request -> {"idle", "done", "broken"} \union InProgress]
    BY <1>1, <2>1, PcMoves DEF Probe
  <2>3. ClientTypeOK'
    BY <1>1 DEF Probe, Look, LookInVain, Typed, ClientTypeOK
  <2> QED BY <1>1, <2>2, <2>3 DEF Probe, Typed
<1>2. ASSUME NEW r \in Request, Probed(r) PROVE Typed'
  <2>1. "limited" \in InProgress
    BY DEF InProgress
  <2>2. pc' \in [Request -> {"idle", "done", "broken"} \union InProgress]
    BY <1>2, <2>1, PcMoves DEF Probed
  <2>3. ClientTypeOK'
    BY <1>2 DEF Probed, PingOk, PingFails, Typed, ClientTypeOK
  <2> QED BY <1>2, <2>2, <2>3 DEF Probed, Typed
<1>3. ASSUME NEW r \in Request, ReadRedis(r) PROVE Typed'
  <2>1. /\ Reads(r, "redis") /\ UNCHANGED <<sessions, redis>>
    BY <1>3 DEF ReadRedis
  <2>2. thread' \in [Keys -> Seq(Request)]
    BY <1>3, ThreadTyped DEF ReadRedis, Typed
  <2>3. list' \in [Request -> Ref] /\ heap' \in [Ref -> Seq(Message)]
    <3>1. key(r) \in DOMAIN redis => redis[key(r)].messages \in Seq(Message)
      BY DEF Typed
    <3>2. <<>> \in Seq(Message)
      OBVIOUS
    <3> QED BY <1>3, <3>1, <3>2, StartTyped DEF ReadRedis
  <2> QED BY <2>1, <2>2, <2>3, ReadsTyped DEF Typed
<1>4. ASSUME NEW r \in Request, ReadFails(r) PROVE Typed'
  <2>1. list' \in [Request -> Ref] /\ heap' \in [Ref -> Seq(Message)]
    <3>1. <<>> \in Seq(Message)
      OBVIOUS
    <3> QED BY <1>4, <3>1, StartTyped DEF ReadFails
  <2>2. Reads(r, "redis") /\ UNCHANGED store
    BY <1>4 DEF ReadFails
  <2> QED BY <2>1, <2>2, ReadsTyped DEF Typed
<1>5. ASSUME NEW r \in Request, ReadMemory(r) PROVE Typed'
  <2>1. Reads(r, "none") /\ UNCHANGED redis
    BY <1>5 DEF ReadMemory
  <2>2. <<>> \in Seq(Message)
    OBVIOUS
  <2>3. CASE /\ key(r) \in DOMAIN sessions
             /\ list' = [list EXCEPT ![r] = sessions[key(r)].messages]
             /\ UNCHANGED <<heap, sessions, thread>>
    <3>1. sessions[key(r)].messages \in Ref
      BY <2>3 DEF Typed
    <3>2. list' \in [Request -> Ref]
      BY <2>3, <3>1 DEF Typed
    <3> QED BY <2>1, <2>3, <3>2, ReadsTyped DEF Typed
  <2>4. CASE /\ sessions' = Without(sessions, {key(r)})
             /\ StartWith(r, <<>>)
             /\ NewThread(r)
    <3>1. /\ DOMAIN sessions' \subseteq DOMAIN sessions
          /\ \A k \in DOMAIN sessions' : sessions'[k] = sessions[k]
      BY <2>4, WithoutShrinks
    <3>2. /\ DOMAIN sessions' \subseteq Keys
          /\ \A k \in DOMAIN sessions' :
                sessions'[k] \in [messages: Ref, last_active: 0..Horizon]
      BY <3>1 DEF Typed
    <3>3. /\ list' \in [Request -> Ref] /\ heap' \in [Ref -> Seq(Message)]
          /\ thread' \in [Keys -> Seq(Request)]
      BY <2>4, <2>2, StartTyped, ThreadTyped
    <3> QED BY <2>1, <3>2, <3>3, ReadsTyped DEF Typed
  <2>5. CASE /\ StartWith(r, <<>>)
             /\ IF key(r) \in DOMAIN redis THEN UNCHANGED thread
                ELSE NewThread(r)
             /\ UNCHANGED sessions
    <3>1. /\ list' \in [Request -> Ref] /\ heap' \in [Ref -> Seq(Message)]
          /\ thread' \in [Keys -> Seq(Request)]
      BY <2>5, <2>2, StartTyped, ThreadTyped DEF Typed
    <3> QED BY <2>1, <2>5, <3>1, ReadsTyped DEF Typed
  <2> QED BY <1>5, <2>3, <2>4, <2>5 DEF ReadMemory
<1>6. ASSUME NEW r \in Request, Ask(r) PROVE Typed'
  <2> DEFINE history == IF messages(r) = <<>> THEN <<SystemPrompt>>
                        ELSE messages(r)
             ms == Append(history, Question(r))
  <2>1. history \in Seq(Message)
    BY MessagesType, MessageTypes
  <2>2. Extend(r, ms) /\ Send(r, ms)
    BY <1>6 DEF Ask
  <2> HIDE DEF history
  <2>3. ms \in Seq(Message)
    BY <2>1, QuestionType
  <2> HIDE DEF ms
  <2>4. /\ heap' \in [Ref -> Seq(Message)]
        /\ pc' \in [Request -> {"idle", "done", "broken"} \union InProgress]
        /\ sentWhole' \in [Request -> BOOLEAN]
    BY <2>2, <2>3, Extended, SendTyped
  <2>5. UNCHANGED <<now, who, list, calls, rounds, store, connection>>
    BY <1>6 DEF Ask
  <2> QED BY <2>4, <2>5 DEF Typed, ClientTypeOK
<1>7. ASSUME NEW r \in Request, AskAgain(r) PROVE Typed'
  <2>1. /\ pc' \in [Request -> {"idle", "done", "broken"} \union InProgress]
        /\ sentWhole' \in [Request -> BOOLEAN]
    BY <1>7, MessagesType, SendTyped DEF AskAgain
  <2> QED BY <1>7, <2>1 DEF AskAgain, Typed, ClientTypeOK
<1>8. ASSUME NEW r \in Request, CallTools(r) PROVE Typed'
  <2>1. PICK n \in 1..MaxCalls :
           /\ Extend(r, Append(messages(r), ToolCalls(n, FALSE)))
           /\ calls' = [calls EXCEPT ![r] = [j \in 1..n |-> j]]
    BY <1>8 DEF CallTools
  <2>2. Append(messages(r), ToolCalls(n, FALSE)) \in Seq(Message)
    <3> DEFINE m == ToolCalls(n, FALSE)
    <3>1. n \in Nat /\ FALSE \in BOOLEAN
      OBVIOUS
    <3>2. m \in Message
      BY <3>1, MessageTypes
    <3> HIDE DEF m
    <3>3. Append(messages(r), m) \in Seq(Message)
      BY <3>2, MessagesType
    <3> QED BY <3>3 DEF m
  <2>3. heap' \in [Ref -> Seq(Message)]
    BY <2>1, <2>2, Extended
  <2>4. [j \in 1..n |-> j] \in Seq(1..MaxCalls)
    OBVIOUS
  <2>5. calls' \in [Request -> Seq(1..MaxCalls)]
    BY <2>1, <2>4 DEF Typed
  <2>6. rounds' \in [Request -> 0..MaxRounds]
    <3>1. rounds \in [Request -> 0..MaxRounds] /\ rounds[r] < MaxRounds
      BY <1>8 DEF CallTools, Typed
    <3>2. rounds[r] + 1 \in 0..MaxRounds
      BY <3>1
    <3>3. rounds' = [rounds EXCEPT ![r] = rounds[r] + 1]
      BY <1>8 DEF CallTools
    <3> QED BY <3>1, <3>2, <3>3
  <2>7. "tools" \in InProgress
    BY DEF InProgress, InTurn
  <2>8. pc' \in [Request -> {"idle", "done", "broken"} \union InProgress]
    BY <1>8, <2>7, PcMoves DEF CallTools
  <2>9. UNCHANGED <<now, who, list, sentWhole, store, connection>>
    BY <1>8 DEF CallTools
  <2> QED BY <2>3, <2>5, <2>6, <2>8, <2>9 DEF Typed, ClientTypeOK
<1>9. ASSUME NEW r \in Request, GiveResult(r) PROVE Typed'
  <2> DEFINE ms == Append(messages(r), ToolResult(Head(calls[r])))
  <2>1. calls[r] \in Seq(1..MaxCalls) /\ calls[r] # <<>>
    BY <1>9 DEF GiveResult, Typed
  <2>2. Head(calls[r]) \in Nat /\ Tail(calls[r]) \in Seq(1..MaxCalls)
    BY <2>1, FirstCall
  <2>3. ms \in Seq(Message)
    BY <2>2, MessagesType, MessageTypes
  <2>4. Extend(r, ms) /\ (Send(r, ms) \/ UNCHANGED <<pc, sentWhole>>)
    BY <1>9 DEF GiveResult
  <2> HIDE DEF ms
  <2>5. heap' \in [Ref -> Seq(Message)]
    BY <2>3, <2>4, Extended
  <2>6. /\ pc' \in [Request -> {"idle", "done", "broken"} \union InProgress]
        /\ sentWhole' \in [Request -> BOOLEAN]
    BY <2>3, <2>4, SendTyped DEF Typed
  <2>7. calls' \in [Request -> Seq(1..MaxCalls)]
    BY <1>9, <2>2 DEF GiveResult, Typed
  <2>8. UNCHANGED <<now, who, list, rounds, store, connection>>
    BY <1>9 DEF GiveResult
  <2> QED BY <2>5, <2>6, <2>7, <2>8 DEF Typed, ClientTypeOK
<1>10. ASSUME NEW r \in Request, Break(r) PROVE Typed'
  <2>1. pc' \in [Request -> {"idle", "done", "broken"} \union InProgress]
    BY <1>10, PcMoves DEF Break
  <2> QED BY <1>10, <2>1 DEF Break, Typed, ClientTypeOK
<1>11. ASSUME NEW r \in Request, ReplyRedis(r) PROVE Typed'
  <2>1. Close(r) \in Seq(Message)
    BY MessagesType, MessageTypes DEF Close
  <2>2. heap' \in [Ref -> Seq(Message)]
    BY <1>11, <2>1, Extended DEF ReplyRedis
  <2>3. "saving" \in InProgress
    BY DEF InProgress, InTurn
  <2>4. pc' \in [Request -> {"idle", "done", "broken"} \union InProgress]
    BY <1>11, <2>3, PcMoves DEF ReplyRedis
  <2> QED BY <1>11, <2>2, <2>4 DEF ReplyRedis, Cached, Typed, ClientTypeOK
<1>12. ASSUME NEW r \in Request, SaveRedis(r) PROVE Typed'
  <2> DEFINE e == [messages |-> RecentTurns(messages(r), MaxTurns),
                   until |-> now + Timeout]
  <2>1. e \in [messages: Seq(Message), until: Nat]
    <3>1. RecentTurns(messages(r), MaxTurns) \in Seq(Message)
      BY MessagesType, TrimmedShape
    <3>2. now + Timeout \in Nat
      BY DEF Typed
    <3> QED BY <3>1, <3>2
  <2>2. redis' = With(redis, key(r), e)
    BY <1>12 DEF SaveRedis
  <2> HIDE DEF e
  <2>3. /\ DOMAIN redis' \subseteq Keys
        /\ \A k \in DOMAIN redis' :
              redis'[k] \in [messages: Seq(Message), until: Nat]
    <3>1. /\ DOMAIN redis' = DOMAIN redis \union {key(r)}
          /\ redis'[key(r)] = e
          /\ \A j \in DOMAIN redis : j # key(r) => redis'[j] = redis[j]
      BY <2>2 DEF With
    <3> QED BY <2>1, <3>1, KeyType DEF Typed
  <2>4. thread' \in [Keys -> Seq(Request)]
    BY <1>12, ThreadGrows DEF SaveRedis
  <2>5. pc' \in [Request -> {"idle", "done", "broken"} \union InProgress]
    BY <1>12, PcMoves DEF SaveRedis
  <2>6. UNCHANGED <<now, who, turn, sessions, connection>>
    BY <1>12 DEF SaveRedis
  <2> QED BY <2>3, <2>4, <2>5, <2>6 DEF Typed, ClientTypeOK
<1>13. ASSUME NEW r \in Request, SaveFails(r) PROVE Typed'
  <2>1. pc' \in [Request -> {"idle", "done", "broken"} \union InProgress]
    BY <1>13, PcMoves DEF SaveFails
  <2> QED BY <1>13, <2>1 DEF SaveFails, Typed, ClientTypeOK
<1>14. ASSUME NEW r \in Request, ReplyMemory(r) PROVE Typed'
  <2> DEFINE e == [messages |-> Saved(r), last_active |-> now]
  <2>1. e \in [messages: Ref, last_active: 0..Horizon]
    BY Refs DEF Typed
  <2>2. sessions' = Purged(With(sessions, key(r), e))
    BY <1>14 DEF ReplyMemory
  <2> HIDE DEF e
  <2>3. /\ DOMAIN With(sessions, key(r), e) \subseteq Keys
        /\ \A k \in DOMAIN With(sessions, key(r), e) :
              With(sessions, key(r), e)[k]
                 \in [messages: Ref, last_active: 0..Horizon]
    <3> DEFINE all == With(sessions, key(r), e)
    <3>1. /\ DOMAIN all = DOMAIN sessions \union {key(r)}
          /\ all[key(r)] = e
          /\ \A j \in DOMAIN sessions : j # key(r) => all[j] = sessions[j]
      BY DEF With
    <3> HIDE DEF all
    <3>2. /\ DOMAIN all \subseteq Keys
          /\ \A k \in DOMAIN all :
                all[k] \in [messages: Ref, last_active: 0..Horizon]
      BY <2>1, <3>1, KeyType DEF Typed
    <3> QED BY <3>2 DEF all
  <2>4. /\ DOMAIN sessions' \subseteq Keys
        /\ \A k \in DOMAIN sessions' :
              sessions'[k] \in [messages: Ref, last_active: 0..Horizon]
    BY <2>2, <2>3, PurgedEntries
  <2>5. heap' \in [Ref -> Seq(Message)]
    <3>1. Close(r) \in Seq(Message)
      BY MessagesType, MessageTypes DEF Close
    <3>2. RecentTurns(Close(r), MaxTurns) \in Seq(Message)
      BY <3>1, TrimmedShape
    <3> QED BY <1>14, <3>1, <3>2 DEF ReplyMemory, Typed
  <2>6. thread' \in [Keys -> Seq(Request)]
    BY <1>14, ThreadGrows DEF ReplyMemory
  <2>7. pc' \in [Request -> {"idle", "done", "broken"} \union InProgress]
    BY <1>14, PcMoves DEF ReplyMemory
  <2>8. now' \in 0..Horizon
    BY <1>14 DEF ReplyMemory, Typed
  <2>9. UNCHANGED <<who, list, calls, rounds, sentWhole, redis, checked,
                    client>>
    BY <1>14 DEF ReplyMemory, Cached
  <2> QED BY <2>4, <2>5, <2>6, <2>7, <2>8, <2>9 DEF Typed, ClientTypeOK
<1>15. ASSUME NEW k \in Keys, Clear(k) PROVE Typed'
  <2>1. UNCHANGED <<now, who, pc, turn, thread, checked, client>>
    BY <1>15 DEF Clear, Cached
  <2>2. CASE redis' = Without(redis, {k}) /\ UNCHANGED sessions
    <3>1. /\ DOMAIN redis' \subseteq DOMAIN redis
          /\ \A j \in DOMAIN redis' : redis'[j] = redis[j]
      BY <2>2, WithoutShrinks
    <3> QED BY <2>1, <2>2, <3>1 DEF Typed, ClientTypeOK
  <2>3. CASE sessions' = Without(sessions, {k}) /\ UNCHANGED redis
    <3>1. /\ DOMAIN sessions' \subseteq DOMAIN sessions
          /\ \A j \in DOMAIN sessions' : sessions'[j] = sessions[j]
      BY <2>3, WithoutShrinks
    <3> QED BY <2>1, <2>3, <3>1 DEF Typed, ClientTypeOK
  <2> QED BY <1>15, <2>2, <2>3 DEF Clear
<1>16. CASE Tick
  <2>1. now' \in 0..Horizon
    BY <1>16 DEF Tick, Typed
  <2>2. /\ DOMAIN redis' \subseteq DOMAIN redis
        /\ \A k \in DOMAIN redis' : redis'[k] = redis[k]
    BY <1>16, WithoutShrinks DEF Tick
  <2>3. UNCHANGED <<who, pc, turn, sessions, thread, connection>>
    BY <1>16 DEF Tick
  <2> QED BY <2>1, <2>2, <2>3 DEF Typed, ClientTypeOK
<1>17. CASE Restart
  <2>1. pc' \in [Request -> {"idle", "done", "broken"} \union InProgress]
    BY <1>17 DEF Restart, Typed
  <2>2. ClientTypeOK'
    BY <1>17 DEF Restart, ClientTypeOK, StartClient, Typed
  <2>3. DOMAIN sessions' = {}
    BY <1>17 DEF Restart
  <2>4. UNCHANGED <<now, who, turn, redis, thread>>
    BY <1>17 DEF Restart
  <2> QED BY <2>1, <2>2, <2>3, <2>4 DEF Typed
<1>18. CASE UNCHANGED vars
  BY <1>18 DEF vars, Typed, ClientTypeOK
<1> QED BY <1>1, <1>2, <1>3, <1>4, <1>5, <1>6, <1>7, <1>8, <1>9, <1>10, <1>11,
           <1>12, <1>13, <1>14, <1>15, <1>16, <1>17, <1>18
        DEF Next, Handle

-----------------------------------------------------------------------------
(***************************************************************************)
(* One probe at a time.                                                    *)
(***************************************************************************)
\* Whoever waits for the ping has settled the question first.
ProbeInv ==
    \A r \in Request : pc[r] = "probing" =>
        /\ checked
        /\ \A q \in Request : pc[q] = "probing" => q = r

LEMMA NoNewProbe ==
    ASSUME ProbeInv, checked => checked',
           \A x \in Request : pc'[x] = "probing" => pc[x] = "probing"
    PROVE  ProbeInv'
BY DEF ProbeInv

LEMMA HandlerProbes ==
    ASSUME Typed, ProbeInv, NEW r \in Request, NEW p, p # "probing",
           pc' = [pc EXCEPT ![r] = p], checked' = checked
    PROVE  ProbeInv'
<1>1. \A x \in Request : pc'[x] = "probing" => pc[x] = "probing"
  BY DEF Typed
<1> QED BY <1>1, NoNewProbe

LEMMA NextProbe ==
    ASSUME Typed, ProbeInv, [Next]_vars
    PROVE  ProbeInv'
<1> USE DEF who, turn, store, connection
<1>1. ASSUME NEW r \in Request, Probe(r) PROVE ProbeInv'
  <2>1. CASE Look /\ pc' = [pc EXCEPT ![r] = "probing"]
    <3>1. \A x \in Request : pc[x] # "probing"
      BY <2>1 DEF Look, ProbeInv, Typed, ClientTypeOK
    <3>2. \A x \in Request : pc'[x] = "probing" => x = r
      BY <2>1, <3>1 DEF Typed
    <3>3. checked'
      BY <2>1 DEF Look
    <3> QED BY <3>2, <3>3 DEF ProbeInv
  <2>2. CASE LookInVain /\ pc' = [pc EXCEPT ![r] = "limited"]
    <3>1. checked => checked'
      BY <2>2 DEF LookInVain
    <3>2. \A x \in Request : pc'[x] = "probing" => pc[x] = "probing"
      BY <2>2 DEF Typed
    <3> QED BY <3>1, <3>2, NoNewProbe
  <2> QED BY <1>1, <2>1, <2>2 DEF Probe
<1>2. ASSUME NEW r \in Request, Probed(r) PROVE ProbeInv'
  BY <1>2, HandlerProbes DEF Probed, PingOk, PingFails
<1>3. ASSUME NEW r \in Request, NEW backend, Reads(r, backend)
      PROVE  ProbeInv'
  BY <1>3, HandlerProbes DEF Reads, Cached
<1>4. ASSUME NEW r \in Request, Ask(r) PROVE ProbeInv'
  BY <1>4, HandlerProbes DEF Ask, Send
<1>5. ASSUME NEW r \in Request, AskAgain(r) PROVE ProbeInv'
  BY <1>5, HandlerProbes DEF AskAgain, Send
<1>6. ASSUME NEW r \in Request, CallTools(r) PROVE ProbeInv'
  BY <1>6, HandlerProbes DEF CallTools
<1>7. ASSUME NEW r \in Request, GiveResult(r) PROVE ProbeInv'
  <2>1. checked' = checked
    BY <1>7 DEF GiveResult
  <2>2. CASE pc' = [pc EXCEPT ![r] = "asking"]
    BY <2>1, <2>2, HandlerProbes
  <2>3. CASE pc' = pc
    BY <2>1, <2>3, NoNewProbe
  <2> QED BY <1>7, <2>2, <2>3 DEF GiveResult, Send
<1>8. ASSUME NEW r \in Request, Break(r) PROVE ProbeInv'
  BY <1>8, HandlerProbes DEF Break
<1>9. ASSUME NEW r \in Request, ReplyRedis(r) PROVE ProbeInv'
  BY <1>9, HandlerProbes DEF ReplyRedis, Cached
<1>10. ASSUME NEW r \in Request, SaveRedis(r) PROVE ProbeInv'
  BY <1>10, HandlerProbes DEF SaveRedis
<1>11. ASSUME NEW r \in Request, SaveFails(r) PROVE ProbeInv'
  BY <1>11, HandlerProbes DEF SaveFails
<1>12. ASSUME NEW r \in Request, ReplyMemory(r) PROVE ProbeInv'
  BY <1>12, HandlerProbes DEF ReplyMemory, Cached
<1>13. ASSUME NEW k \in Keys, Clear(k) PROVE ProbeInv'
  BY <1>13, NoNewProbe DEF Clear, Cached
<1>14. CASE Tick
  BY <1>14, NoNewProbe DEF Tick
<1>15. CASE Restart
  <2>1. \A x \in Request : pc'[x] # "probing"
    BY <1>15 DEF Restart, InProgress, Typed
  <2> QED BY <2>1 DEF ProbeInv
<1>16. CASE UNCHANGED vars
  BY <1>16, NoNewProbe DEF vars
<1> QED BY <1>1, <1>2, <1>3, <1>4, <1>5, <1>6, <1>7, <1>8, <1>9, <1>10, <1>11,
           <1>12, <1>13, <1>14, <1>15, <1>16
        DEF Next, Handle, ReadRedis, ReadFails, ReadMemory

(* get_redis marks the question as settled before it awaits the ping: two  *)
(* requests never open a connection at the same time.                      *)
THEOREM OneProbeAtATime == Spec => []OneProbe
<1>1. Init => Typed /\ ProbeInv
  <2>1. Init => ProbeInv
    BY DEF Init, ProbeInv
  <2> QED BY <2>1, InitTyped
<1>2. Typed /\ ProbeInv /\ [Next]_vars => Typed' /\ ProbeInv'
  BY NextTyped, NextProbe
<1>3. Typed /\ ProbeInv => OneProbe
  <2> SUFFICES ASSUME ProbeInv PROVE OneProbe
    OBVIOUS
  <2> DEFINE P == {r \in Request : pc[r] = "probing"}
  <2>1. CASE P = {}
    <3>1. Cardinality(P) = 0
      BY <2>1, FS_EmptySet
    <3> QED BY <3>1 DEF OneProbe
  <2>2. CASE P # {}
    <3>1. PICK r \in P : P = {r}
      BY <2>2 DEF ProbeInv
    <3>2. Cardinality(P) = 1
      BY <3>1, FS_Singleton
    <3> QED BY <3>2 DEF OneProbe
  <2> QED BY <2>1, <2>2
<1> QED BY <1>1, <1>2, <1>3, PTL DEF Spec

-----------------------------------------------------------------------------
(***************************************************************************)
(* The ceiling of the dict.                                                *)
(***************************************************************************)
\* No two entries were written at one instant.
Distinct(f) ==
    \A j, k \in DOMAIN f : f[j].last_active = f[k].last_active => j = k

Dated(f) == \A k \in DOMAIN f : f[k].last_active \in Nat

\* The n entries of K are older than the others.
AreOldest(f, n, K) ==
    /\ Cardinality(K) = n
    /\ \A k \in K, j \in DOMAIN f \ K : f[k].last_active < f[j].last_active

\* A dict that is over its limit has entries older than all the others.
LEMMA SomeAreOldest ==
    ASSUME NEW f, IsFiniteSet(DOMAIN f), Dated(f), Distinct(f)
    PROVE  \A n \in Nat : n <= Cardinality(DOMAIN f) =>
              \E K \in SUBSET DOMAIN f : AreOldest(f, n, K)
<1> DEFINE D == DOMAIN f
           Some(n) == \E K \in SUBSET D : AreOldest(f, n, K)
           T == {n \in Nat : n <= Cardinality(D) => Some(n)}
<1>1. 0 \in T
  <2>1. Cardinality({}) = 0
    BY FS_EmptySet
  <2>2. AreOldest(f, 0, {})
    BY <2>1 DEF AreOldest
  <2> QED BY <2>2
<1>2. ASSUME NEW n \in Nat, n \in T
      PROVE  n + 1 \in T
  <2> SUFFICES ASSUME n + 1 <= Cardinality(D) PROVE Some(n + 1)
    <3> HIDE DEF Some
    <3> QED OBVIOUS
  <2>1. Cardinality(D) \in Nat
    BY FS_CardinalityType
  <2>2. Some(n)
    <3> HIDE DEF Some
    <3> QED BY <1>2, <2>1
  <2>3. PICK K \in SUBSET D : AreOldest(f, n, K)
    BY <2>2
  <2>4. IsFiniteSet(K) /\ Cardinality(K) = n
    BY <2>3, FS_Subset DEF AreOldest
  <2>5. D \ K # {}
    <3> SUFFICES ASSUME D \ K = {} PROVE FALSE
      OBVIOUS
    <3>1. K = D
      OBVIOUS
    <3> QED BY <3>1, <2>1, <2>4
  <2> DEFINE dates == {f[j].last_active : j \in D \ K}
  <2>6. dates \in SUBSET Nat /\ dates # {}
    BY <2>5 DEF Dated
  <2>7. PICK d \in dates : \A e \in dates : d <= e
    BY <2>6, LeastOf
  <2>8. PICK m \in D \ K : d = f[m].last_active
    BY <2>7
  <2>9. ASSUME NEW j \in D \ (K \union {m})
        PROVE  f[m].last_active < f[j].last_active
    <3>1. f[m].last_active <= f[j].last_active
      BY <2>7, <2>8
    <3>2. f[m].last_active # f[j].last_active
      BY <2>8 DEF Distinct
    <3>3. f[m].last_active \in Nat /\ f[j].last_active \in Nat
      BY <2>8 DEF Dated
    <3> QED BY <3>1, <3>2, <3>3
  <2>10. Cardinality(K \union {m}) = n + 1
    BY <2>4, <2>8, FS_AddElement
  <2>11. AreOldest(f, n + 1, K \union {m})
    BY <2>3, <2>9, <2>10 DEF AreOldest
  <2> QED BY <2>8, <2>11
<1> HIDE DEF T
<1>3. Nat \subseteq T
  BY <1>1, <1>2, SetInduction
<1> QED BY <1>3 DEF T

\* _purge drops the oldest entries, and exactly as many as are over.
LEMMA OldestAreOldest ==
    ASSUME NEW f, IsFiniteSet(DOMAIN f), Dated(f), Distinct(f),
           NEW n \in Nat, n <= Cardinality(DOMAIN f)
    PROVE  /\ Oldest(f, n) \in SUBSET DOMAIN f
           /\ AreOldest(f, n, Oldest(f, n))
BY SomeAreOldest DEF Oldest, AreOldest

(* _purge leaves at most MAX_SESSIONS entries, and never takes the newest  *)
(* one away.                                                               *)
LEMMA PurgedBounded ==
    ASSUME Typed, NEW f, IsFiniteSet(DOMAIN f), Dated(f), Distinct(f)
    PROVE  /\ IsFiniteSet(DOMAIN Purged(f))
           /\ Cardinality(DOMAIN Purged(f)) <= MaxSessions
           /\ \A k \in DOMAIN f :
                 /\ f[k].last_active = now
                 /\ \A j \in DOMAIN f : f[j].last_active <= now
                 => k \in DOMAIN Purged(f)
<1> DEFINE expired == {k \in DOMAIN f : now - f[k].last_active > Timeout}
           live == Without(f, expired)
           overflow == Cardinality(DOMAIN live) - MaxSessions
           K == Oldest(live, overflow)
<1>1. Purged(f) = IF overflow > 0 THEN Without(live, K) ELSE live
  BY DEF Purged
<1>2. /\ DOMAIN live = DOMAIN f \ expired
      /\ \A j \in DOMAIN live : live[j] = f[j]
  BY DEF Without
<1>3. now \in Nat /\ Timeout \in Nat /\ MaxSessions \in Nat \ {0}
  BY Constants DEF Typed
<1>4. ASSUME NEW k \in DOMAIN f, f[k].last_active = now
      PROVE  k \in DOMAIN live
  BY <1>2, <1>3, <1>4
<1> HIDE DEF live, expired
<1>5. IsFiniteSet(DOMAIN live)
  BY <1>2, FS_Subset
<1>6. Cardinality(DOMAIN live) \in Nat
  BY <1>5, FS_CardinalityType
<1>7. Dated(live) /\ Distinct(live)
  BY <1>2 DEF Dated, Distinct
<1>8. CASE overflow > 0
  <2>1. overflow \in Nat /\ overflow < Cardinality(DOMAIN live)
    BY <1>3, <1>6, <1>8
  <2>2. K \in SUBSET DOMAIN live /\ AreOldest(live, overflow, K)
    <3>1. overflow <= Cardinality(DOMAIN live)
      BY <1>6, <2>1
    <3> HIDE DEF overflow
    <3> QED BY <1>5, <1>7, <2>1, <3>1, OldestAreOldest
  <2>3. DOMAIN Purged(f) = DOMAIN live \ K
    <3> HIDE DEF K, overflow
    <3> QED BY <1>1, <1>8 DEF Without
  <2> HIDE DEF K
  <2>4. IsFiniteSet(K) /\ Cardinality(K) = overflow
    BY <1>5, <2>2, FS_Subset DEF AreOldest
  <2>5. /\ IsFiniteSet(DOMAIN live \ K)
        /\ Cardinality(DOMAIN live \ K)
              = Cardinality(DOMAIN live) - Cardinality(K)
    <3>1. Cardinality(DOMAIN live \ K)
             = Cardinality(DOMAIN live) - Cardinality(DOMAIN live \cap K)
      BY <1>5, FS_Difference
    <3>2. DOMAIN live \cap K = K
      BY <2>2
    <3> QED BY <1>5, <3>1, <3>2, FS_Difference
  <2>6. Cardinality(DOMAIN live \ K) = MaxSessions
    BY <1>3, <1>6, <2>4, <2>5
  <2>7. ASSUME NEW k \in DOMAIN f, f[k].last_active = now,
               \A j \in DOMAIN f : f[j].last_active <= now
        PROVE  k \notin K
    <3> SUFFICES ASSUME k \in K PROVE FALSE
      OBVIOUS
    <3>1. PICK j \in DOMAIN live \ K : TRUE
      <4>1. DOMAIN live \ K # {}
        <5> SUFFICES ASSUME DOMAIN live \ K = {} PROVE FALSE
          OBVIOUS
        <5> QED BY <1>3, <2>6, FS_EmptySet
      <4> QED BY <4>1
    <3>2. live[k].last_active < live[j].last_active
      BY <2>2, <3>1 DEF AreOldest
    <3>3. live[k] = f[k] /\ live[j] = f[j] /\ j \in DOMAIN f
      BY <1>2, <2>2, <3>1
    <3>4. f[j].last_active \in Nat /\ f[j].last_active <= now
      BY <2>7, <3>3 DEF Dated
    <3> QED BY <1>3, <2>7, <3>2, <3>3, <3>4
  <2> QED BY <1>3, <1>4, <2>3, <2>5, <2>6, <2>7
<1>9. CASE ~(overflow > 0)
  <2>1. Purged(f) = live
    <3> HIDE DEF K, overflow
    <3> QED BY <1>1, <1>9
  <2>2. Cardinality(DOMAIN live) <= MaxSessions
    BY <1>3, <1>6, <1>9
  <2> QED BY <1>4, <1>5, <2>1, <2>2
<1> QED BY <1>8, <1>9

DictInv ==
    /\ IsFiniteSet(DOMAIN sessions)
    /\ Cardinality(DOMAIN sessions) <= MaxSessions
    /\ Distinct(sessions)
    /\ \A k \in DOMAIN sessions : sessions[k].last_active < now

LEMMA SessionsDated == Typed => Dated(sessions)
BY Constants DEF Typed, Dated

(* The dict with the entry that is being written.                          *)
LEMMA Written ==
    ASSUME Typed, DictInv, NEW k, NEW e, e.last_active = now
    PROVE  LET all == With(sessions, k, e)
           IN  /\ IsFiniteSet(DOMAIN all)
               /\ Dated(all)
               /\ Distinct(all)
               /\ k \in DOMAIN all /\ all[k].last_active = now
               /\ \A j \in DOMAIN all : all[j].last_active <= now
<1> DEFINE all == With(sessions, k, e)
<1>1. /\ DOMAIN all = DOMAIN sessions \union {k} /\ all[k] = e
      /\ \A j \in DOMAIN sessions : j # k => all[j] = sessions[j]
  BY DEF With
<1> HIDE DEF all
<1>2. now \in Nat
  BY Constants DEF Typed
<1>3. IsFiniteSet(DOMAIN all)
  BY <1>1, FS_AddElement DEF DictInv
<1>4. ASSUME NEW j \in DOMAIN all
      PROVE  /\ all[j].last_active \in Nat
             /\ j = k => all[j].last_active = now
             /\ j # k => /\ j \in DOMAIN sessions
                         /\ all[j].last_active = sessions[j].last_active
                         /\ all[j].last_active < now
  BY <1>1, <1>2, SessionsDated DEF Dated, DictInv
<1>5. Distinct(all)
  <2> SUFFICES ASSUME NEW i \in DOMAIN all, NEW j \in DOMAIN all,
                      all[i].last_active = all[j].last_active
               PROVE  i = j
    BY DEF Distinct
  <2>1. CASE i = k \/ j = k
    BY <1>2, <1>4, <2>1
  <2>2. CASE i # k /\ j # k
    BY <1>4, <2>2 DEF DictInv, Distinct
  <2> QED BY <2>1, <2>2
<1>6. Dated(all) /\ \A j \in DOMAIN all : all[j].last_active <= now
  <2> SUFFICES ASSUME NEW j \in DOMAIN all
               PROVE  all[j].last_active \in Nat /\ all[j].last_active <= now
    BY DEF Dated
  <2> QED BY <1>2, <1>4
<1> QED BY <1>1, <1>3, <1>4, <1>5, <1>6 DEF all

\* A write stamps its entry with the clock and then purges.
LEMMA ReplyMemoryDict ==
    ASSUME Typed, DictInv, NEW r \in Request, ReplyMemory(r)
    PROVE  DictInv' /\ key(r) \in DOMAIN sessions'
<1> DEFINE e == [messages |-> Saved(r), last_active |-> now]
           all == With(sessions, key(r), e)
<1>1. e.last_active = now
  OBVIOUS
<1>2. sessions' = Purged(all) /\ now' = now + 1
  BY DEF ReplyMemory
<1> HIDE DEF e
<1>3. /\ IsFiniteSet(DOMAIN all) /\ Dated(all) /\ Distinct(all)
      /\ key(r) \in DOMAIN all /\ all[key(r)].last_active = now
      /\ \A j \in DOMAIN all : all[j].last_active <= now
  BY <1>1, Written
<1> HIDE DEF all
<1>4. /\ IsFiniteSet(DOMAIN sessions')
      /\ Cardinality(DOMAIN sessions') <= MaxSessions
      /\ key(r) \in DOMAIN sessions'
  BY <1>2, <1>3, PurgedBounded
<1>5. /\ DOMAIN sessions' \subseteq DOMAIN all
      /\ \A j \in DOMAIN sessions' : sessions'[j] = all[j]
  BY <1>2, PurgedEntries
<1>6. Distinct(sessions')
  BY <1>3, <1>5 DEF Distinct
<1>7. \A j \in DOMAIN sessions' : sessions'[j].last_active < now'
  <2>1. now \in Nat
    BY Constants DEF Typed
  <2> QED BY <1>2, <1>3, <1>5, <2>1 DEF Dated
<1> QED BY <1>4, <1>6, <1>7 DEF DictInv, Distinct

\* An entry that is dropped leaves the others dated.
LEMMA DictShrinks ==
    ASSUME Typed, DictInv, now' \in Nat, now' >= now,
           DOMAIN sessions' \subseteq DOMAIN sessions,
           \A k \in DOMAIN sessions' : sessions'[k] = sessions[k]
    PROVE  DictInv'
<1>1. IsFiniteSet(DOMAIN sessions')
  BY FS_Subset DEF DictInv
<1>2. Cardinality(DOMAIN sessions') <= MaxSessions
  <2>1. Cardinality(DOMAIN sessions') <= Cardinality(DOMAIN sessions)
    BY FS_Subset DEF DictInv
  <2>2. /\ Cardinality(DOMAIN sessions') \in Nat
        /\ Cardinality(DOMAIN sessions) \in Nat
    BY <1>1, FS_CardinalityType DEF DictInv
  <2> QED BY <2>1, <2>2, Constants DEF DictInv
<1>3. Distinct(sessions')
  BY DEF DictInv, Distinct
<1>4. \A k \in DOMAIN sessions' : sessions'[k].last_active < now'
  <2>1. now \in Nat
    BY Constants DEF Typed
  <2> QED BY <2>1, SessionsDated DEF DictInv, Dated
<1> QED BY <1>1, <1>2, <1>3, <1>4 DEF DictInv, Distinct

LEMMA NextDict ==
    ASSUME Typed, DictInv, [Next]_vars
    PROVE  DictInv'
<1> USE DEF who, turn, store, connection
<1>0. now \in Nat
  BY Constants DEF Typed
<1>1. CASE UNCHANGED <<now, sessions>>
  BY <1>0, <1>1, DictShrinks
<1>2. ASSUME NEW r \in Request, ReadMemory(r) PROVE DictInv'
  <2>1. now' = now
    BY <1>2 DEF ReadMemory, Reads
  <2>2. CASE sessions' = Without(sessions, {key(r)})
    <3>1. /\ DOMAIN sessions' \subseteq DOMAIN sessions
          /\ \A k \in DOMAIN sessions' : sessions'[k] = sessions[k]
      BY <2>2, WithoutShrinks
    <3> QED BY <1>0, <2>1, <3>1, DictShrinks
  <2> QED BY <1>1, <1>2, <2>1, <2>2 DEF ReadMemory
<1>3. ASSUME NEW r \in Request, ReplyMemory(r) PROVE DictInv'
  BY <1>3, ReplyMemoryDict
<1>4. ASSUME NEW k \in Keys, Clear(k) PROVE DictInv'
  <2>1. now' = now
    BY <1>4 DEF Clear
  <2>2. CASE sessions' = Without(sessions, {k})
    <3>1. /\ DOMAIN sessions' \subseteq DOMAIN sessions
          /\ \A j \in DOMAIN sessions' : sessions'[j] = sessions[j]
      BY <2>2, WithoutShrinks
    <3> QED BY <1>0, <2>1, <3>1, DictShrinks
  <2> QED BY <1>1, <1>4, <2>1, <2>2 DEF Clear
<1>5. CASE Tick
  BY <1>0, <1>5, DictShrinks DEF Tick
<1>6. CASE Restart
  <2>1. DOMAIN sessions' = {}
    BY <1>6 DEF Restart
  <2> QED BY <1>0, <1>6, <2>1, DictShrinks DEF Restart
<1> QED BY <1>1, <1>2, <1>3, <1>4, <1>5, <1>6
        DEF Next, Handle, Probe, Probed, Reads, ReadRedis, ReadFails, Ask,
            AskAgain, CallTools, GiveResult, Break, ReplyRedis, SaveRedis,
            SaveFails, vars

LEMMA DictInvariant == Spec => [](Typed /\ DictInv)
<1>1. Init => Typed /\ DictInv
  <2> SUFFICES ASSUME Init PROVE DictInv
    BY InitTyped
  <2>1. DOMAIN sessions = {}
    BY DEF Init
  <2> QED BY <2>1, FS_EmptySet, Constants DEF DictInv, Distinct
<1>2. Typed /\ DictInv /\ [Next]_vars => Typed' /\ DictInv'
  BY NextTyped, NextDict
<1> QED BY <1>1, <1>2, PTL DEF Spec

(* _purge keeps the dict at or below MAX_SESSIONS, for any ceiling, any    *)
(* timeout and any number of sessions.                                     *)
THEOREM DictIsBounded == Spec => []SessionsBounded
<1>1. DictInv => SessionsBounded
  BY DEF DictInv, SessionsBounded
<1> QED BY DictInvariant, <1>1, PTL

(* ... and the session that has just been written is never the one that    *)
(* _purge evicts, however full the dict is.                                *)
THEOREM WrittenSessionStays == Spec => JustStoredStays
<1> DEFINE Stays == \A r \in Request :
                       client = "none" /\ pc[r] = "asking" /\ pc'[r] = "done"
                          => key(r) \in DOMAIN sessions'
<1>1. ASSUME Typed, DictInv, Next PROVE Stays
  <2> SUFFICES ASSUME NEW r \in Request, client = "none",
                      pc[r] = "asking", pc'[r] = "done"
               PROVE  ReplyMemory(r)
    BY <1>1, ReplyMemoryDict
  <2> USE DEF Typed, who, turn, store, connection
  <2>1. ASSUME NEW q \in Request, Handle(q) PROVE q = r /\ ReplyMemory(q)
    BY <1>1, <2>1
       DEF Handle, Probe, Probed, Reads, ReadRedis, ReadFails, ReadMemory,
           Ask, AskAgain, Send, CallTools, GiveResult, Break, ReplyRedis,
           SaveRedis, SaveFails, ReplyMemory
  <2>2. ~Tick /\ ~Restart /\ \A k \in Keys : ~Clear(k)
    BY <1>1 DEF Tick, Restart, Clear, InProgress, InTurn
  <2> QED BY <1>1, <2>1, <2>2 DEF Next
<1>2. Typed /\ DictInv /\ [Next]_vars => [Stays]_vars
  BY <1>1
<1> QED BY DictInvariant, <1>2, PTL DEF Spec, JustStoredStays

-----------------------------------------------------------------------------
(***************************************************************************)
(* Whose questions are where.                                              *)
(***************************************************************************)
\* The requests of one user in one session.
Mates(k) == {q \in Request : key(q) = k}

AskedBy(ms, Q) == \A i \in DOMAIN ms : ms[i].role = "user" => ms[i].id \in Q

\* A request works on a list of its own, or on one that its session stored.
ListsOwned ==
    \A r \in Request :
        list[r] = Own(r) \/ \E q \in Mates(key(r)) : list[r] = Saved(q)

HeapOwned ==
    \A r \in Request : /\ AskedBy(heap[Own(r)], Mates(key(r)))
                       /\ AskedBy(heap[Saved(r)], Mates(key(r)))

RedisOwned == \A k \in DOMAIN redis : AskedBy(redis[k].messages, Mates(k))

DictOwned ==
    \A k \in DOMAIN sessions :
        \E q \in Mates(k) : sessions[k].messages = Saved(q)

Owned == ListsOwned /\ HeapOwned /\ RedisOwned /\ DictOwned

LEMMA SameMates ==
    ASSUME UNCHANGED <<user, session>>
    PROVE  /\ \A r \in Request : key(r)' = key(r)
           /\ \A k : Mates(k)' = Mates(k)
BY DEF Mates, key

LEMMA RefsDiffer ==
    /\ \A r, q \in Request : Own(r) = Own(q) => r = q
    /\ \A r, q \in Request : Saved(r) = Saved(q) => r = q
    /\ \A r, q \in Request : Own(r) # Saved(q)
BY DEF Own, Saved

\* A question more is its user's.
LEMMA AskedByAppend ==
    ASSUME NEW ms \in Seq(Message), NEW Q, AskedBy(ms, Q),
           NEW m \in Message, m.role = "user" => m.id \in Q
    PROVE  AskedBy(Append(ms, m), Q)
<1> DEFINE new == Append(ms, m)
<1>1. /\ DOMAIN new = 1..(Len(ms) + 1) /\ DOMAIN ms = 1..Len(ms)
      /\ Len(ms) \in Nat /\ new[Len(ms) + 1] = m
      /\ \A i \in 1..Len(ms) : new[i] = ms[i]
  OBVIOUS
<1> HIDE DEF new
<1>2. AskedBy(new, Q)
  BY <1>1 DEF AskedBy
<1> QED BY <1>2 DEF new

\* Trimming brings in no question.
LEMMA AskedByTrimmed ==
    ASSUME NEW ms \in Seq(Message), NEW Q, AskedBy(ms, Q)
    PROVE  AskedBy(RecentTurns(ms, MaxTurns), Q)
BY TrimmedFromList, Constants DEF AskedBy

\* The list a request works on holds its session's questions only.
LEMMA WorkingList ==
    ASSUME Typed, Owned, NEW r \in Request
    PROVE  AskedBy(messages(r), Mates(key(r)))
<1>1. CASE list[r] = Own(r)
  BY <1>1 DEF Owned, HeapOwned, messages
<1>2. ASSUME NEW q \in Mates(key(r)), list[r] = Saved(q)
      PROVE  AskedBy(messages(r), Mates(key(r)))
  <2>1. q \in Request /\ Mates(key(q)) = Mates(key(r))
    BY DEF Mates
  <2> QED BY <1>2, <2>1 DEF Owned, HeapOwned, messages
<1> QED BY <1>1, <1>2 DEF Owned, ListsOwned

\* A request that goes on with its own list leaves every list owned.
LEMMA ExtendOwned ==
    ASSUME Typed, Owned, NEW r \in Request, NEW ms,
           AskedBy(ms, Mates(key(r))), Extend(r, ms),
           UNCHANGED <<user, session, list, sessions, redis>>
    PROVE  Owned'
<1>1. ListsOwned' /\ RedisOwned' /\ DictOwned'
  BY SameMates DEF Owned, ListsOwned, RedisOwned, DictOwned
<1>2. heap' = [heap EXCEPT ![list[r]] = ms] /\ heap \in [Ref -> Seq(Message)]
  BY DEF Extend, Typed
<1>3. ASSUME NEW x \in Request
      PROVE  /\ AskedBy(heap'[Own(x)], Mates(key(x)))
             /\ AskedBy(heap'[Saved(x)], Mates(key(x)))
  <2>1. Own(x) \in Ref /\ Saved(x) \in Ref
    BY Refs
  <2>2. Own(x) = list[r] => Mates(key(x)) = Mates(key(r))
    BY RefsDiffer DEF Owned, ListsOwned, Mates
  <2>3. Saved(x) = list[r] => Mates(key(x)) = Mates(key(r))
    BY RefsDiffer DEF Owned, ListsOwned, Mates
  <2>4. /\ heap'[Own(x)] = IF Own(x) = list[r] THEN ms ELSE heap[Own(x)]
        /\ heap'[Saved(x)] = IF Saved(x) = list[r] THEN ms ELSE heap[Saved(x)]
    BY <1>2, <2>1
  <2>5. /\ AskedBy(heap[Own(x)], Mates(key(x)))
        /\ AskedBy(heap[Saved(x)], Mates(key(x)))
    BY DEF Owned, HeapOwned
  <2>6. AskedBy(heap'[Own(x)], Mates(key(x)))
    BY <2>2, <2>4, <2>5
  <2>7. AskedBy(heap'[Saved(x)], Mates(key(x)))
    BY <2>3, <2>4, <2>5
  <2> QED BY <2>6, <2>7
<1>4. HeapOwned'
  BY <1>3, SameMates DEF HeapOwned
<1> QED BY <1>1, <1>4 DEF Owned

\* A request that begins with a list of its key leaves every list owned.
LEMMA StartOwned ==
    ASSUME Typed, Owned, NEW r \in Request, NEW ms,
           AskedBy(ms, Mates(key(r))), StartWith(r, ms),
           UNCHANGED <<user, session>>
    PROVE  ListsOwned' /\ HeapOwned'
<1>1. /\ list' = [list EXCEPT ![r] = Own(r)] /\ list \in [Request -> Ref]
      /\ heap' = [heap EXCEPT ![Own(r)] = ms] /\ heap \in [Ref -> Seq(Message)]
  BY DEF StartWith, Typed
<1>2. ListsOwned'
  BY <1>1, SameMates DEF Owned, ListsOwned
<1>3. ASSUME NEW x \in Request
      PROVE  /\ AskedBy(heap'[Own(x)], Mates(key(x)))
             /\ AskedBy(heap'[Saved(x)], Mates(key(x)))
  <2>1. Own(x) \in Ref /\ Saved(x) \in Ref
    BY Refs
  <2>2. /\ heap'[Own(x)] = IF x = r THEN ms ELSE heap[Own(x)]
        /\ heap'[Saved(x)] = heap[Saved(x)]
    BY <1>1, <2>1, RefsDiffer
  <2>3. CASE x = r
    BY <2>2, <2>3 DEF Owned, HeapOwned
  <2>4. CASE x # r
    BY <2>2, <2>4 DEF Owned, HeapOwned
  <2> QED BY <2>3, <2>4
<1>4. HeapOwned'
  BY <1>3, SameMates DEF HeapOwned
<1> QED BY <1>2, <1>4

LEMMA StoresShrink ==
    ASSUME Owned, UNCHANGED <<user, session>>,
           DOMAIN sessions' \subseteq DOMAIN sessions,
           \A k \in DOMAIN sessions' : sessions'[k] = sessions[k],
           DOMAIN redis' \subseteq DOMAIN redis,
           \A k \in DOMAIN redis' : redis'[k] = redis[k]
    PROVE  RedisOwned' /\ DictOwned'
BY SameMates DEF Owned, RedisOwned, DictOwned

LEMMA SameLists ==
    ASSUME Owned, UNCHANGED <<user, session, list, heap>>
    PROVE  ListsOwned' /\ HeapOwned'
BY SameMates DEF Owned, ListsOwned, HeapOwned

LEMMA NothingAsked == \A Q : AskedBy(<<>>, Q)
BY DEF AskedBy

LEMMA OwnMate == \A r \in Request : r \in Mates(key(r))
BY DEF Mates

LEMMA NextOwned ==
    ASSUME Typed, Owned, [Next]_vars
    PROVE  Owned'
<1> USE DEF who, turn, store, connection
<1>1. CASE UNCHANGED <<user, session, list, heap, sessions, redis>>
  BY <1>1, SameLists, StoresShrink DEF Owned
<1>2. ASSUME NEW r \in Request, ReadRedis(r) PROVE Owned'
  <2>1. UNCHANGED <<user, session, sessions, redis>>
    BY <1>2 DEF ReadRedis, Reads
  <2>2. key(r) \in DOMAIN redis =>
           AskedBy(redis[key(r)].messages, Mates(key(r)))
    BY DEF Owned, RedisOwned
  <2>3. ListsOwned' /\ HeapOwned'
    BY <1>2, <2>1, <2>2, NothingAsked, StartOwned DEF ReadRedis
  <2> QED BY <2>1, <2>3, StoresShrink DEF Owned
<1>3. ASSUME NEW r \in Request, ReadFails(r) PROVE Owned'
  <2>1. UNCHANGED <<user, session, sessions, redis>> /\ StartWith(r, <<>>)
    BY <1>3 DEF ReadFails, Reads
  <2>2. ListsOwned' /\ HeapOwned'
    BY <2>1, NothingAsked, StartOwned
  <2> QED BY <2>1, <2>2, StoresShrink DEF Owned
<1>4. ASSUME NEW r \in Request, ReadMemory(r) PROVE Owned'
  <2>1. UNCHANGED <<user, session, redis>>
    BY <1>4 DEF ReadMemory, Reads
  <2>2. CASE /\ key(r) \in DOMAIN sessions
             /\ list' = [list EXCEPT ![r] = sessions[key(r)].messages]
             /\ UNCHANGED <<heap, sessions>>
    <3>1. \E q \in Mates(key(r)) : sessions[key(r)].messages = Saved(q)
      BY <2>2 DEF Owned, DictOwned
    <3>2. ListsOwned'
      BY <2>1, <2>2, <3>1, SameMates DEF Owned, ListsOwned, Typed
    <3>3. HeapOwned'
      BY <2>1, <2>2, SameMates DEF Owned, HeapOwned
    <3> QED BY <2>1, <2>2, <3>2, <3>3, StoresShrink DEF Owned
  <2>3. CASE sessions' = Without(sessions, {key(r)}) /\ StartWith(r, <<>>)
    <3>1. /\ DOMAIN sessions' \subseteq DOMAIN sessions
          /\ \A k \in DOMAIN sessions' : sessions'[k] = sessions[k]
      BY <2>3, WithoutShrinks
    <3>2. ListsOwned' /\ HeapOwned'
      BY <2>1, <2>3, NothingAsked, StartOwned
    <3> QED BY <2>1, <3>1, <3>2, StoresShrink DEF Owned
  <2>4. CASE StartWith(r, <<>>) /\ UNCHANGED sessions
    <3>1. ListsOwned' /\ HeapOwned'
      BY <2>1, <2>4, NothingAsked, StartOwned
    <3> QED BY <2>1, <2>4, <3>1, StoresShrink DEF Owned
  <2> QED BY <1>4, <2>2, <2>3, <2>4 DEF ReadMemory
<1>5. ASSUME NEW r \in Request, Ask(r) PROVE Owned'
  <2> DEFINE history == IF messages(r) = <<>> THEN <<SystemPrompt>>
                        ELSE messages(r)
             ms == Append(history, Question(r))
             Q == Mates(key(r))
  <2>1. history \in Seq(Message) /\ AskedBy(history, Q)
    <3>1. CASE messages(r) = <<>>
      <4>1. history = <<SystemPrompt>>
        BY <3>1
      <4> HIDE DEF history
      <4>2. history \in Seq(Message)
        BY <4>1, MessageTypes
      <4>3. AskedBy(history, Q)
        BY <4>1 DEF AskedBy, SystemPrompt
      <4> QED BY <4>2, <4>3
    <3>2. CASE messages(r) # <<>>
      <4>1. history = messages(r)
        BY <3>2
      <4> HIDE DEF history
      <4> QED BY <4>1, WorkingList, MessagesType
    <3> HIDE DEF history
    <3> QED BY <3>1, <3>2
  <2>2. Extend(r, ms) /\ UNCHANGED <<user, session, list, sessions, redis>>
    BY <1>5 DEF Ask
  <2> HIDE DEF history, Q
  <2>3. AskedBy(ms, Q)
    BY <2>1, QuestionType, OwnMate, AskedByAppend DEF Q
  <2> HIDE DEF ms
  <2> QED BY <2>2, <2>3, ExtendOwned DEF Q
<1>6. ASSUME NEW r \in Request, CallTools(r) PROVE Owned'
  <2>1. PICK n \in 1..MaxCalls :
           Extend(r, Append(messages(r), ToolCalls(n, FALSE)))
    BY <1>6 DEF CallTools
  <2> DEFINE m == ToolCalls(n, FALSE)
  <2>2. n \in Nat /\ FALSE \in BOOLEAN
    OBVIOUS
  <2>3. m \in Message /\ m.role # "user"
    BY <2>2, MessageTypes DEF ToolCalls
  <2>4. Extend(r, Append(messages(r), m))
    BY <2>1
  <2> HIDE DEF m
  <2>5. AskedBy(Append(messages(r), m), Mates(key(r)))
    BY <2>3, MessagesType, WorkingList, AskedByAppend
  <2>6. UNCHANGED <<user, session, list, sessions, redis>>
    BY <1>6 DEF CallTools
  <2> QED BY <2>4, <2>5, <2>6, ExtendOwned
<1>7. ASSUME NEW r \in Request, GiveResult(r) PROVE Owned'
  <2> DEFINE m == ToolResult(Head(calls[r]))
  <2>1. Head(calls[r]) \in Nat
    BY <1>7, FirstCall DEF GiveResult, Typed
  <2>2. m \in Message /\ m.role # "user"
    BY <2>1, MessageTypes DEF ToolResult
  <2>3. /\ Extend(r, Append(messages(r), m))
        /\ UNCHANGED <<user, session, list, sessions, redis>>
    BY <1>7 DEF GiveResult
  <2> HIDE DEF m
  <2>4. AskedBy(Append(messages(r), m), Mates(key(r)))
    BY <2>2, MessagesType, WorkingList, AskedByAppend
  <2> QED BY <2>3, <2>4, ExtendOwned
<1>8. ASSUME NEW r \in Request
      PROVE  Close(r) \in Seq(Message) /\ AskedBy(Close(r), Mates(key(r)))
  <2>1. Answer \in Message /\ Answer.role # "user"
    BY MessageTypes DEF Answer
  <2>2. messages(r) \in Seq(Message)
    BY MessagesType
  <2> QED BY <2>1, <2>2, WorkingList, AskedByAppend DEF Close
<1>9. ASSUME NEW r \in Request, ReplyRedis(r) PROVE Owned'
  BY <1>8, <1>9, ExtendOwned DEF ReplyRedis
<1>10. ASSUME NEW r \in Request, SaveRedis(r) PROVE Owned'
  <2> DEFINE e == [messages |-> RecentTurns(messages(r), MaxTurns),
                   until |-> now + Timeout]
  <2>1. AskedBy(e.messages, Mates(key(r)))
    BY MessagesType, WorkingList, AskedByTrimmed
  <2>2. redis' = With(redis, key(r), e)
    BY <1>10 DEF SaveRedis
  <2> HIDE DEF e
  <2>3. UNCHANGED <<user, session, list, heap, sessions>>
    BY <1>10 DEF SaveRedis
  <2>4. /\ DOMAIN redis' = DOMAIN redis \union {key(r)}
        /\ redis'[key(r)] = e
        /\ \A j \in DOMAIN redis : j # key(r) => redis'[j] = redis[j]
    BY <2>2 DEF With
  <2>5. RedisOwned'
    BY <2>1, <2>3, <2>4, SameMates DEF Owned, RedisOwned
  <2>6. DictOwned'
    BY <2>3, SameMates DEF Owned, DictOwned
  <2> QED BY <2>3, <2>5, <2>6, SameLists DEF Owned
<1>11. ASSUME NEW r \in Request, ReplyMemory(r) PROVE Owned'
  <2> DEFINE e == [messages |-> Saved(r), last_active |-> now]
             all == With(sessions, key(r), e)
             middle == [heap EXCEPT ![list[r]] = Close(r)]
             kept == RecentTurns(Close(r), MaxTurns)
  <2>1. /\ UNCHANGED <<user, session, list, redis>>
        /\ heap' = [middle EXCEPT ![Saved(r)] = kept]
        /\ sessions' = Purged(all)
    BY <1>11 DEF ReplyMemory
  <2>2. AskedBy(kept, Mates(key(r))) /\ AskedBy(Close(r), Mates(key(r)))
    BY <1>8, AskedByTrimmed
  <2>3. e.messages = Saved(r)
    OBVIOUS
  <2> HIDE DEF e, kept
  <2>4. ListsOwned' /\ RedisOwned'
    BY <2>1, SameMates DEF Owned, ListsOwned, RedisOwned
  <2>5. DictOwned'
    <3>1. /\ DOMAIN all = DOMAIN sessions \union {key(r)} /\ all[key(r)] = e
          /\ \A j \in DOMAIN sessions : j # key(r) => all[j] = sessions[j]
      BY DEF With
    <3> HIDE DEF all
    <3>2. \A k \in DOMAIN all : \E q \in Mates(k) : all[k].messages = Saved(q)
      BY <2>3, <3>1, OwnMate DEF Owned, DictOwned
    <3>3. /\ DOMAIN sessions' \subseteq DOMAIN all
          /\ \A j \in DOMAIN sessions' : sessions'[j] = all[j]
      BY <2>1, PurgedEntries
    <3> QED BY <2>1, <3>2, <3>3, SameMates DEF DictOwned
  <2>6. ASSUME NEW x \in Request
        PROVE  /\ AskedBy(heap'[Own(x)], Mates(key(x)))
               /\ AskedBy(heap'[Saved(x)], Mates(key(x)))
    <3>1. /\ Own(x) \in Ref /\ Saved(x) \in Ref /\ Saved(r) \in Ref
          /\ heap \in [Ref -> Seq(Message)]
      BY Refs DEF Typed
    <3>2. Own(x) = list[r] => Mates(key(x)) = Mates(key(r))
      BY RefsDiffer DEF Owned, ListsOwned, Mates
    <3>3. Saved(x) = list[r] => Mates(key(x)) = Mates(key(r))
      BY RefsDiffer DEF Owned, ListsOwned, Mates
    <3>4. /\ middle[Own(x)] = IF Own(x) = list[r] THEN Close(r)
                              ELSE heap[Own(x)]
          /\ middle[Saved(x)] = IF Saved(x) = list[r] THEN Close(r)
                                ELSE heap[Saved(x)]
          /\ DOMAIN middle = Ref
      BY <3>1
    <3>5. /\ AskedBy(heap[Own(x)], Mates(key(x)))
          /\ AskedBy(heap[Saved(x)], Mates(key(x)))
      BY DEF Owned, HeapOwned
    <3> HIDE DEF middle
    <3>6. AskedBy(middle[Own(x)], Mates(key(x)))
      BY <2>2, <3>2, <3>4, <3>5
    <3>7. AskedBy(middle[Saved(x)], Mates(key(x)))
      BY <2>2, <3>3, <3>4, <3>5
    <3>8. /\ heap'[Own(x)] = middle[Own(x)]
          /\ heap'[Saved(x)] = IF x = r THEN kept ELSE middle[Saved(x)]
      BY <2>1, <3>1, <3>4, RefsDiffer
    <3>9. AskedBy(heap'[Saved(x)], Mates(key(x)))
      BY <2>2, <3>7, <3>8
    <3> QED BY <3>6, <3>8, <3>9
  <2>7. HeapOwned'
    BY <2>1, <2>6, SameMates DEF HeapOwned
  <2> QED BY <2>4, <2>5, <2>7 DEF Owned
<1>12. ASSUME NEW k \in Keys, Clear(k) PROVE Owned'
  <2>1. UNCHANGED <<user, session, list, heap>>
    BY <1>12 DEF Clear
  <2>2. CASE redis' = Without(redis, {k}) /\ UNCHANGED sessions
    <3>1. /\ DOMAIN redis' \subseteq DOMAIN redis
          /\ \A j \in DOMAIN redis' : redis'[j] = redis[j]
      BY <2>2, WithoutShrinks
    <3> QED BY <2>1, <2>2, <3>1, SameLists, StoresShrink DEF Owned
  <2>3. CASE sessions' = Without(sessions, {k}) /\ UNCHANGED redis
    <3>1. /\ DOMAIN sessions' \subseteq DOMAIN sessions
          /\ \A j \in DOMAIN sessions' : sessions'[j] = sessions[j]
      BY <2>3, WithoutShrinks
    <3> QED BY <2>1, <2>3, <3>1, SameLists, StoresShrink DEF Owned
  <2> QED BY <1>12, <2>2, <2>3 DEF Clear
<1>13. CASE Tick
  <2>1. /\ DOMAIN redis' \subseteq DOMAIN redis
        /\ \A j \in DOMAIN redis' : redis'[j] = redis[j]
    BY <1>13, WithoutShrinks DEF Tick
  <2> QED BY <1>13, <2>1, SameLists, StoresShrink DEF Owned, Tick
<1>14. CASE Restart
  <2>1. DOMAIN sessions' = {}
    BY <1>14 DEF Restart
  <2> QED BY <1>14, <2>1, SameLists, StoresShrink DEF Owned, Restart
<1> QED BY <1>1, <1>2, <1>3, <1>4, <1>5, <1>6, <1>7, <1>9, <1>10, <1>11,
           <1>12, <1>13, <1>14
        DEF Next, Handle, Probe, Probed, AskAgain, Break, SaveFails, vars

LEMMA InitOwned == Init => Owned
<1> SUFFICES ASSUME Init PROVE Owned
  OBVIOUS
<1>1. ListsOwned
  BY DEF Init, ListsOwned
<1>2. HeapOwned
  BY Refs, NothingAsked DEF Init, HeapOwned
<1>3. RedisOwned /\ DictOwned
  BY DEF Init, RedisOwned, DictOwned
<1> QED BY <1>1, <1>2, <1>3 DEF Owned

LEMMA OwnedInvariant == Spec => [](Typed /\ Owned)
<1>1. Init => Typed /\ Owned
  BY InitTyped, InitOwned
<1>2. Typed /\ Owned /\ [Next]_vars => Typed' /\ Owned'
  BY NextTyped, NextOwned
<1> QED BY <1>1, <1>2, PTL DEF Spec

(* The store is keyed by the pair of user and session (_key): whatever     *)
(* session ids clients choose, no list ever holds another user's question, *)
(* or one of the same user's from another session.                         *)
THEOREM HistoryIsOwn == Spec => []OwnHistoryOnly
<1>1. Typed /\ Owned => OwnHistoryOnly
  <2> SUFFICES ASSUME Typed, Owned, NEW r \in Request,
                      NEW i \in Asked(messages(r))
               PROVE  /\ user[messages(r)[i].id] = user[r]
                      /\ session[messages(r)[i].id] = session[r]
    BY DEF OwnHistoryOnly
  <2>1. messages(r)[i].id \in Mates(key(r))
    BY WorkingList DEF AskedBy, Asked
  <2> QED BY <2>1 DEF Mates, key, Key
<1> QED BY OwnedInvariant, <1>1, PTL

-----------------------------------------------------------------------------
(***************************************************************************)
(* Who may be under way with whom, and which backend serves them.          *)
(***************************************************************************)
Apart ==
    \A r, q \in Request :
        r # q /\ pc[r] \in InProgress /\ pc[q] \in InProgress =>
            \/ env.overlap = "within"
            \/ env.overlap = "across" /\ key(q) # key(r)

(* Without a usable URL there is only the dict.                            *)
DictOnly ==
    /\ client = "none" /\ DOMAIN redis = {}
    /\ \A r \in Request : pc[r] \notin {"probing", "saving"}

(* Where every request is served from Redis, the dict is empty and each    *)
(* works on a list of its own; between the question marked as settled and  *)
(* the answer to the ping there is only the one who waits for it.          *)
RedisOnly ==
    /\ DOMAIN sessions = {}
    /\ \A r \in Request : list[r] = Own(r)
    /\ env.warm => checked /\ client = "redis"
    /\ checked => \/ client = "redis"
                  \/ \E r \in Request : pc[r] = "probing"

Backends == (Url # "redis" => DictOnly) /\ (AlwaysRedis => RedisOnly)

(* What is chosen at the start stays.                                      *)
LEMMA Surroundings ==
    ASSUME [Next]_vars
    PROVE  UNCHANGED <<env, user, session>>
BY DEF Next, vars, who, turn, store, connection, Handle, Probe, Probed,
       ReadRedis, ReadFails, ReadMemory, Reads, Ask, AskAgain, CallTools,
       GiveResult, Break, ReplyRedis, SaveRedis, SaveFails, ReplyMemory,
       Clear, Tick, Restart

\* What is said of the environment lasts.
LEMMA SameCalm ==
    ASSUME UNCHANGED <<env, user, session>>
    PROVE  /\ AlwaysRedis' <=> AlwaysRedis
           /\ Unshared' <=> Unshared
           /\ Orderly' <=> Orderly
           /\ \A r \in Request : key(r)' = key(r)
BY DEF AlwaysRedis, Unshared, Orderly, key

\* A step moves one handler on, or none, or the process ends.
LEMMA OneMoves ==
    ASSUME Typed, [Next]_vars
    PROVE  \/ \E r \in Request, p \in {"done", "broken"} \union InProgress :
                 /\ pc[r] \in InProgress \/ Arrives(r)
                 /\ pc' = [pc EXCEPT ![r] = p]
           \/ pc' = pc
           \/ Restart
<1> DEFINE Moves ==
              \E r \in Request, p \in {"done", "broken"} \union InProgress :
                 /\ pc[r] \in InProgress \/ Arrives(r)
                 /\ pc' = [pc EXCEPT ![r] = p]
<1>1. ASSUME NEW r \in Request, Probe(r) PROVE Moves
  BY <1>1 DEF Probe, InProgress
<1>2. ASSUME NEW r \in Request, Probed(r) PROVE Moves
  BY <1>2 DEF Probed, InProgress
<1>3. ASSUME NEW r \in Request, NEW backend, Reads(r, backend) PROVE Moves
  BY <1>3 DEF Reads, InProgress, InTurn
<1>4. ASSUME NEW r \in Request, Ask(r) PROVE Moves
  BY <1>4 DEF Ask, Send, InProgress, InTurn
<1>5. ASSUME NEW r \in Request, AskAgain(r) PROVE Moves
  BY <1>5 DEF AskAgain, Send, InProgress, InTurn
<1>6. ASSUME NEW r \in Request, CallTools(r) PROVE Moves
  BY <1>6 DEF CallTools, InProgress, InTurn
<1>7. ASSUME NEW r \in Request, GiveResult(r) PROVE Moves \/ pc' = pc
  BY <1>7 DEF GiveResult, Send, InProgress, InTurn
<1>8. ASSUME NEW r \in Request, Break(r) PROVE Moves
  BY <1>8 DEF Break, InProgress
<1>9. ASSUME NEW r \in Request, ReplyRedis(r) PROVE Moves
  BY <1>9 DEF ReplyRedis, InProgress, InTurn
<1>10. ASSUME NEW r \in Request, SaveRedis(r) PROVE Moves
  BY <1>10 DEF SaveRedis, InProgress, InTurn
<1>11. ASSUME NEW r \in Request, SaveFails(r) PROVE Moves
  BY <1>11 DEF SaveFails, InProgress, InTurn
<1>12. ASSUME NEW r \in Request, ReplyMemory(r) PROVE Moves
  BY <1>12 DEF ReplyMemory, InProgress, InTurn
<1>13. ASSUME NEW k \in Keys, Clear(k) PROVE pc' = pc
  BY <1>13 DEF Clear
<1>14. CASE Tick
  BY <1>14 DEF Tick
<1>15. CASE UNCHANGED vars
  BY <1>15 DEF vars
<1>16. ASSUME NEW r \in Request, Handle(r) PROVE Moves \/ pc' = pc
  <2>1. ReadRedis(r) \/ ReadFails(r) \/ ReadMemory(r) => Moves
    BY <1>3 DEF ReadRedis, ReadFails, ReadMemory
  <2> QED BY <1>1, <1>2, <2>1, <1>4, <1>5, <1>6, <1>7, <1>8, <1>9, <1>10,
             <1>11, <1>12, <1>16 DEF Handle
<1>17. Moves \/ pc' = pc \/ Restart
  BY <1>13, <1>14, <1>15, <1>16 DEF Next
<1> QED BY <1>17

\* Requests that the environment keeps apart stay apart.
LEMMA NextApart ==
    ASSUME Typed, Apart, [Next]_vars
    PROVE  Apart'
<1>1. UNCHANGED <<env, user, session>> /\ \A r \in Request : key(r)' = key(r)
  BY Surroundings, SameCalm
<1>2. ASSUME NEW r \in Request, NEW p,
             pc[r] \in InProgress \/ Arrives(r),
             pc' = [pc EXCEPT ![r] = p]
      PROVE  Apart'
  <2>1. \A q \in Request : q # r => pc'[q] = pc[q]
    BY <1>2 DEF Typed
  <2>2. ASSUME NEW q \in Request, q # r, pc[q] \in InProgress
        PROVE  \/ env.overlap = "within"
               \/ env.overlap = "across" /\ key(q) # key(r)
    BY <1>2, <2>2 DEF Apart, Arrives
  <2> QED BY <1>1, <2>1, <2>2 DEF Apart, InProgress, InTurn
<1>3. CASE pc' = pc
  BY <1>1, <1>3 DEF Apart, InProgress, InTurn
<1>4. CASE Restart
  <2>1. \A q \in Request : pc'[q] \notin InProgress
    BY <1>4 DEF Restart, InProgress, InTurn
  <2> QED BY <2>1 DEF Apart, InProgress, InTurn
<1> QED BY <1>2, <1>3, <1>4, OneMoves

\* Without a Redis URL the dict stays the only store.
LEMMA NextDictOnly ==
    ASSUME Typed, Url # "redis", DictOnly, [Next]_vars
    PROVE  DictOnly'
<1> USE DEF who, turn, store, connection
<1>1. ASSUME NEW r \in Request, NEW p, p \notin {"probing", "saving"},
             pc' = [pc EXCEPT ![r] = p], client' = client, redis' = redis
      PROVE  DictOnly'
  BY <1>1 DEF DictOnly, Typed
<1>2. ASSUME client' = client, redis' = redis, pc' = pc PROVE DictOnly'
  BY <1>2 DEF DictOnly
<1>3. ASSUME NEW r \in Request, Handle(r) PROVE DictOnly'
  <2>1. CASE Probe(r)
    BY <2>1, <1>1 DEF Probe, Look, LookInVain
  <2>2. CASE Probed(r)
    BY <2>2 DEF Probed, DictOnly
  <2>3. ASSUME NEW backend, Reads(r, backend), redis' = redis PROVE DictOnly'
    BY <2>3, <1>1 DEF Reads, Cached
  <2>4. CASE ReadRedis(r) \/ ReadFails(r) \/ ReadMemory(r)
    BY <2>3, <2>4 DEF ReadRedis, ReadFails, ReadMemory
  <2>5. CASE Ask(r) \/ AskAgain(r) \/ CallTools(r)
    BY <2>5, <1>1 DEF Ask, AskAgain, CallTools, Send
  <2>6. CASE GiveResult(r)
    BY <2>6, <1>1, <1>2 DEF GiveResult, Send
  <2>7. CASE Break(r)
    BY <2>7, <1>1 DEF Break
  <2>8. CASE ReplyRedis(r) \/ SaveRedis(r) \/ SaveFails(r)
    BY <2>8 DEF ReplyRedis, SaveRedis, SaveFails, DictOnly
  <2>9. CASE ReplyMemory(r)
    BY <2>9, <1>1 DEF ReplyMemory, Cached
  <2> QED BY <1>3, <2>1, <2>2, <2>4, <2>5, <2>6, <2>7, <2>8, <2>9 DEF Handle
<1>4. ASSUME NEW k \in Keys, Clear(k) PROVE DictOnly'
  BY <1>4 DEF Clear, Cached, DictOnly
<1>5. CASE Tick
  <2>1. DOMAIN redis' \subseteq DOMAIN redis
    BY <1>5, WithoutShrinks DEF Tick
  <2> QED BY <1>5, <2>1 DEF Tick, DictOnly
<1>6. CASE Restart
  BY <1>6 DEF Restart, StartClient, DictOnly, InProgress, InTurn
<1>7. CASE UNCHANGED vars
  BY <1>7, <1>2 DEF vars
<1> QED BY <1>3, <1>4, <1>5, <1>6, <1>7 DEF Next

(* Nobody is served from the dict.                                         *)
LEMMA NobodyElse ==
    ASSUME Apart, AlwaysRedis, RedisOnly, checked, client = "none",
           NEW r \in Request,
           pc[r] \in {"limited"} \union InTurn \/ Arrives(r)
    PROVE  FALSE
<1>1. ~env.warm /\ env.overlap = "never"
  BY DEF RedisOnly, AlwaysRedis
<1>2. PICK q \in Request : pc[q] = "probing"
  BY DEF RedisOnly
<1>3. q # r /\ pc[q] \in InProgress
  BY <1>2 DEF Arrives, InProgress, InTurn
<1>4. CASE Arrives(r)
  BY <1>1, <1>3, <1>4 DEF Arrives
<1>5. CASE pc[r] \in {"limited"} \union InTurn
  BY <1>1, <1>3, <1>5 DEF Apart, InProgress
<1> QED BY <1>4, <1>5

\* A Redis that always answers stays the only store.
LEMMA NextRedisOnly ==
    ASSUME Typed, Apart, AlwaysRedis, RedisOnly, [Next]_vars
    PROVE  RedisOnly'
<1> USE DEF who, turn, store, connection
<1>0. env' = env
  BY Surroundings
<1>1. ASSUME NEW r \in Request, NEW p, pc[r] # "probing",
             pc' = [pc EXCEPT ![r] = p], UNCHANGED <<checked, client>>,
             DOMAIN sessions' = {},
             list' = list \/ list' = [list EXCEPT ![r] = Own(r)]
      PROVE  RedisOnly'
  <2>1. \A q \in Request : pc[q] = "probing" => pc'[q] = "probing"
    BY <1>1 DEF Typed
  <2>2. \A q \in Request : list'[q] = Own(q)
    BY <1>1 DEF RedisOnly, Typed
  <2> QED BY <1>0, <1>1, <2>1, <2>2 DEF RedisOnly
<1>2. ASSUME UNCHANGED <<checked, client, pc, list, sessions>> PROVE RedisOnly'
  BY <1>0, <1>2 DEF RedisOnly
<1>3. ASSUME NEW r \in Request, Handle(r) PROVE RedisOnly'
  <2>1. CASE Probe(r)
    <3>1. Look /\ pc' = [pc EXCEPT ![r] = "probing"] /\ ~checked
      BY <2>1 DEF Probe, Look, LookInVain, AlwaysRedis
    <3>2. pc'[r] = "probing" /\ UNCHANGED <<list, sessions>>
      BY <2>1, <3>1 DEF Probe, Typed
    <3>3. ~env.warm
      BY <3>1 DEF RedisOnly
    <3> QED BY <1>0, <3>2, <3>3 DEF RedisOnly
  <2>2. CASE Probed(r)
    <3>1. client' = "redis" /\ checked' = checked
      BY <2>2 DEF Probed, PingOk, AlwaysRedis
    <3> QED BY <1>0, <2>2, <3>1 DEF Probed, RedisOnly
  <2>3. ASSUME NEW backend, Reads(r, backend), UNCHANGED sessions,
               list' = [list EXCEPT ![r] = Own(r)]
        PROVE  RedisOnly'
    <3>1. pc[r] # "probing"
      BY <2>3 DEF Reads, Arrives
    <3>2. DOMAIN sessions' = {}
      BY <2>3 DEF RedisOnly
    <3> QED BY <1>1, <2>3, <3>1, <3>2 DEF Reads, Cached
  <2>4. CASE ReadRedis(r) \/ ReadFails(r)
    BY <2>3, <2>4 DEF ReadRedis, ReadFails, StartWith
  <2>5. CASE ReadMemory(r)
    BY <2>5, NobodyElse DEF ReadMemory, Reads, Cached
  <2>6. DOMAIN sessions = {}
    BY DEF RedisOnly
  <2>7. CASE Ask(r) \/ AskAgain(r) \/ CallTools(r)
    BY <2>6, <2>7, <1>1 DEF Ask, AskAgain, CallTools, Send
  <2>8. CASE GiveResult(r)
    BY <2>6, <2>8, <1>1, <1>2 DEF GiveResult, Send
  <2>9. CASE Break(r)
    BY <2>6, <2>9, <1>1 DEF Break, InTurn
  <2>10. CASE ReplyRedis(r) \/ SaveRedis(r) \/ SaveFails(r)
    BY <2>6, <2>10, <1>1 DEF ReplyRedis, SaveRedis, SaveFails, Cached
  <2>11. CASE ReplyMemory(r)
    BY <2>11, NobodyElse DEF ReplyMemory, Cached, InTurn
  <2> QED BY <1>3, <2>1, <2>2, <2>4, <2>5, <2>7, <2>8, <2>9, <2>10, <2>11
          DEF Handle
<1>4. ASSUME NEW k \in Keys, Clear(k) PROVE RedisOnly'
  <2>1. sessions' = sessions
    BY <1>4 DEF Clear, RedisOnly
  <2> QED BY <1>2, <1>4, <2>1 DEF Clear, Cached
<1>5. CASE Tick
  BY <1>2, <1>5 DEF Tick
<1>6. CASE Restart
  BY <1>0, <1>6 DEF Restart, StartClient, RedisOnly, AlwaysRedis
<1>7. CASE UNCHANGED vars
  BY <1>2, <1>7 DEF vars
<1> QED BY <1>3, <1>4, <1>5, <1>6, <1>7 DEF Next

\* So a request has one backend from beginning to end.
LEMMA NextBackends ==
    ASSUME Typed, Apart, Backends, [Next]_vars
    PROVE  Backends'
BY Surroundings, SameCalm, NextDictOnly, NextRedisOnly DEF Backends

LEMMA InitBackends == Init => Apart /\ Backends
<1> SUFFICES ASSUME Init PROVE Apart /\ Backends
  OBVIOUS
<1>1. \A r \in Request : pc[r] = "idle" /\ list[r] = Own(r)
  BY DEF Init
<1>2. /\ checked = env.warm /\ client = StartClient
      /\ DOMAIN sessions = {} /\ DOMAIN redis = {}
  BY DEF Init
<1>3. Apart
  BY <1>1 DEF Apart, InProgress, InTurn
<1>4. DictOnly \/ Url = "redis"
  BY <1>1, <1>2 DEF DictOnly, StartClient
<1>5. AlwaysRedis => RedisOnly
  BY <1>1, <1>2 DEF AlwaysRedis, RedisOnly, StartClient
<1> QED BY <1>3, <1>4, <1>5 DEF Backends

-----------------------------------------------------------------------------
(***************************************************************************)
(* The questions of a list, in order.                                      *)
(***************************************************************************)
\* f[i] are those of the first i messages.
Counts(ms, f) ==
    /\ f[0] = <<>>
    /\ \A i \in 1..Len(ms) :
          f[i] = IF ms[i].role = "user" THEN Append(f[i - 1], ms[i].id)
                 ELSE f[i - 1]

(* Counting runs through, and gives requests from where the askers are.    *)
LEMMA CountingRuns ==
    ASSUME NEW ms \in Seq(Message), NEW Q, AskedBy(ms, Q)
    PROVE  \E f \in [0..Len(ms) -> Seq(Q)] : Counts(ms, f)
<1> DEFINE Step(f, i) == IF ms[i].role = "user" THEN Append(f[i - 1], ms[i].id)
                         ELSE f[i - 1]
           Runs(n) == \E f \in [0..n -> Seq(Q)] :
                         f[0] = <<>> /\ \A i \in 1..n : f[i] = Step(f, i)
           S == {n \in Nat : n <= Len(ms) => Runs(n)}
<1>1. 0 \in S
  <2> DEFINE g == [i \in 0..0 |-> <<>>]
  <2>1. g \in [0..0 -> Seq(Q)]
    OBVIOUS
  <2>2. g[0] = <<>>
    OBVIOUS
  <2>3. \A i \in 1..0 : g[i] = Step(g, i)
    <3>1. 1..0 = {}
      OBVIOUS
    <3> QED BY <3>1
  <2> HIDE DEF g, Step
  <2>4. Runs(0)
    BY <2>1, <2>2, <2>3
  <2> HIDE DEF Runs
  <2> QED BY <2>4
<1>2. ASSUME NEW n \in Nat, n \in S
      PROVE  n + 1 \in S
  <2> SUFFICES ASSUME n + 1 <= Len(ms) PROVE Runs(n + 1)
    <3> HIDE DEF Runs
    <3> QED OBVIOUS
  <2>0. Runs(n)
    <3> HIDE DEF Runs
    <3> QED BY <1>2
  <2>1. PICK f \in [0..n -> Seq(Q)] :
             f[0] = <<>> /\ \A i \in 1..n : f[i] = Step(f, i)
    BY <2>0
  <2> DEFINE g == [i \in 0..(n + 1) |->
                      IF i = n + 1 THEN Step(f, n + 1) ELSE f[i]]
  <2>2. f[n] \in Seq(Q) /\ n + 1 \in DOMAIN ms
    OBVIOUS
  <2>3. ms[n + 1].role = "user" => ms[n + 1].id \in Q
    BY <2>2 DEF AskedBy
  <2>4. (n + 1) - 1 = n
    OBVIOUS
  <2>5. Step(f, n + 1) \in Seq(Q)
    BY <2>2, <2>3, <2>4
  <2>6. g \in [0..(n + 1) -> Seq(Q)]
    BY <2>5
  <2>7. g[0] = <<>>
    BY <2>1
  <2>8. \A i \in 0..n : g[i] = f[i]
    OBVIOUS
  <2>9. \A i \in 1..(n + 1) : g[i] = Step(g, i)
    <3> TAKE i \in 1..(n + 1)
    <3>1. CASE i = n + 1
      <4>1. g[i] = Step(f, i)
        BY <3>1
      <4>2. g[i - 1] = f[i - 1]
        BY <3>1, <2>8, <2>4
      <4> QED BY <4>1, <4>2
    <3>2. CASE i # n + 1
      <4>1. i \in 1..n /\ i \in 0..n /\ i - 1 \in 0..n
        BY <3>2
      <4>2. g[i] = f[i] /\ g[i - 1] = f[i - 1]
        BY <4>1, <2>8
      <4> QED BY <4>1, <4>2, <2>1
    <3> QED BY <3>1, <3>2
  <2> HIDE DEF g, Step
  <2> QED BY <2>6, <2>7, <2>9
<1>3. Len(ms) \in S
  <2> HIDE DEF S
  <2>1. Nat \subseteq S
    BY <1>1, <1>2, SetInduction
  <2> QED BY <2>1
<1> QED BY <1>3 DEF Counts

(* Askers is such a count.                                                 *)
LEMMA AskersCount ==
    ASSUME NEW ms \in Seq(Message), NEW Q, AskedBy(ms, Q)
    PROVE  \E f \in [0..Len(ms) -> Seq(Q)] :
              Counts(ms, f) /\ Askers(ms) = f[Len(ms)]
<1> DEFINE At(f) == [i \in 0..Len(ms) |->
                        IF i = 0 THEN <<>>
                        ELSE IF ms[i].role = "user"
                             THEN Append(f[i - 1], ms[i].id)
                        ELSE f[i - 1]]
           ids == CHOOSE f : f = At(f)
<1>1. Askers(ms) = ids[Len(ms)]
  BY DEF Askers
<1>2. ASSUME NEW f, DOMAIN f = 0..Len(ms), f = [i \in 0..Len(ms) |-> f[i]],
             Counts(ms, f)
      PROVE  f = At(f)
  <2> DEFINE Value(i) == IF i = 0 THEN <<>>
                         ELSE IF ms[i].role = "user"
                              THEN Append(f[i - 1], ms[i].id)
                         ELSE f[i - 1]
  <2>1. ASSUME NEW i \in 0..Len(ms) PROVE f[i] = Value(i)
    <3>1. CASE i = 0
      BY <3>1, <1>2 DEF Counts
    <3>2. CASE i # 0
      <4>1. i \in 1..Len(ms)
        BY <3>2
      <4> QED BY <4>1, <3>2, <1>2 DEF Counts
    <3> QED BY <3>1, <3>2
  <2>2. At(f) = [i \in 0..Len(ms) |-> Value(i)]
    OBVIOUS
  <2> HIDE DEF At, Value
  <2> QED BY <1>2, <2>1, <2>2
<1>3. \E f : f = At(f)
  <2>1. PICK f \in [0..Len(ms) -> Seq(Q)] : Counts(ms, f)
    BY CountingRuns
  <2> HIDE DEF At
  <2> QED BY <2>1, <1>2
<1>4. ids = At(ids)
  <2> HIDE DEF At
  <2> QED BY <1>3
<1> HIDE DEF ids
<1>5. /\ Counts(ms, ids) /\ DOMAIN ids = 0..Len(ms)
      /\ ids = [i \in 0..Len(ms) |-> ids[i]]
  <2> DEFINE g == At(ids)
  <2>1. Len(ms) \in Nat
    OBVIOUS
  <2>2. /\ DOMAIN g = 0..Len(ms) /\ g = [i \in 0..Len(ms) |-> g[i]]
        /\ g[0] = <<>>
        /\ \A i \in 1..Len(ms) :
              g[i] = IF ms[i].role = "user" THEN Append(ids[i - 1], ms[i].id)
                     ELSE ids[i - 1]
    BY <2>1
  <2>3. g = ids
    BY <1>4
  <2> HIDE DEF g
  <2> QED BY <2>2, <2>3 DEF Counts
<1>6. \A i \in 0..Len(ms) : ids[i] \in Seq(Q)
  <2> DEFINE S == {n \in Nat : n <= Len(ms) => ids[n] \in Seq(Q)}
  <2>1. 0 \in S
    BY <1>5 DEF Counts
  <2>2. ASSUME NEW n \in Nat, n \in S PROVE n + 1 \in S
    <3> SUFFICES ASSUME n + 1 <= Len(ms) PROVE ids[n + 1] \in Seq(Q)
      OBVIOUS
    <3>1. n + 1 \in 1..Len(ms) /\ (n + 1) - 1 = n /\ n + 1 \in DOMAIN ms
      OBVIOUS
    <3>2. ids[n] \in Seq(Q)
      BY <2>2, <3>1
    <3>3. ms[n + 1].role = "user" => ms[n + 1].id \in Q
      BY <3>1 DEF AskedBy
    <3>4. ids[n + 1] = IF ms[n + 1].role = "user"
                       THEN Append(ids[n], ms[n + 1].id) ELSE ids[n]
      BY <3>1, <1>5 DEF Counts
    <3> QED BY <3>2, <3>3, <3>4
  <2> HIDE DEF S
  <2>3. Nat \subseteq S
    BY <2>1, <2>2, SetInduction
  <2> QED BY <2>3 DEF S
<1>7. ids \in [0..Len(ms) -> Seq(Q)]
  BY <1>5, <1>6
<1> QED BY <1>1, <1>5, <1>7

(* Two lists that begin alike have begun with the same questions.          *)
LEMMA CountsAgree ==
    ASSUME NEW ms \in Seq(Message), NEW other \in Seq(Message),
           NEW f, NEW g, Counts(ms, f), Counts(other, g),
           NEW n \in Nat, n <= Len(ms), n <= Len(other),
           \A i \in 1..n : ms[i] = other[i]
    PROVE  f[n] = g[n]
<1> DEFINE S == {k \in Nat : k <= n => f[k] = g[k]}
<1>1. 0 \in S
  BY DEF Counts
<1>2. ASSUME NEW k \in Nat, k \in S PROVE k + 1 \in S
  <2> SUFFICES ASSUME k + 1 <= n PROVE f[k + 1] = g[k + 1]
    OBVIOUS
  <2>1. /\ k + 1 \in 1..Len(ms) /\ k + 1 \in 1..Len(other)
        /\ (k + 1) - 1 = k /\ k + 1 \in 1..n
    OBVIOUS
  <2>2. f[k] = g[k]
    BY <1>2
  <2> QED BY <2>1, <2>2 DEF Counts
<1> HIDE DEF S
<1>3. Nat \subseteq S
  BY <1>1, <1>2, SetInduction
<1> QED BY <1>3 DEF S

\* Who asks is whoever may.
LEMMA AskersType ==
    ASSUME NEW ms \in Seq(Message), NEW Q, AskedBy(ms, Q)
    PROVE  Askers(ms) \in Seq(Q)
<1>1. Len(ms) \in 0..Len(ms)
  OBVIOUS
<1> QED BY <1>1, AskersCount

LEMMA AnybodyAsks ==
    ASSUME NEW ms \in Seq(Message)
    PROVE  AskedBy(ms, Nat)
<1>1. \A i \in DOMAIN ms : ms[i] \in Message
  OBVIOUS
<1> QED BY <1>1 DEF AskedBy, Message

LEMMA NobodyAsked == Askers(<<>>) = <<>>
<1> DEFINE ms == <<>>
<1>1. ms \in Seq(Message) /\ AskedBy(ms, Nat) /\ Len(ms) = 0
  BY NothingAsked
<1> HIDE DEF ms
<1>2. PICK f \in [0..Len(ms) -> Seq(Nat)] :
           Counts(ms, f) /\ Askers(ms) = f[Len(ms)]
  BY <1>1, AskersCount
<1> QED BY <1>1, <1>2 DEF Counts, ms

(* A question is one asker more, any other message none.                   *)
LEMMA AskersAppend ==
    ASSUME NEW ms \in Seq(Message), NEW m \in Message
    PROVE  Askers(Append(ms, m)) = IF m.role = "user"
                                   THEN Append(Askers(ms), m.id)
                                   ELSE Askers(ms)
<1> DEFINE new == Append(ms, m)
           n == Len(ms)
<1>1. /\ new \in Seq(Message) /\ n \in Nat /\ Len(new) = n + 1
      /\ new[n + 1] = m /\ \A i \in 1..n : new[i] = ms[i]
  BY Appending
<1> HIDE DEF new
<1>2. PICK f \in [0..Len(ms) -> Seq(Nat)] :
           Counts(ms, f) /\ Askers(ms) = f[Len(ms)]
  BY AnybodyAsks, AskersCount
<1>3. PICK g \in [0..Len(new) -> Seq(Nat)] :
           Counts(new, g) /\ Askers(new) = g[Len(new)]
  BY <1>1, AnybodyAsks, AskersCount
<1> HIDE DEF n
<1>4. f[n] = g[n]
  <2>1. n \in Nat /\ n <= Len(ms) /\ n <= Len(new)
    BY <1>1 DEF n
  <2>2. \A i \in 1..n : ms[i] = new[i]
    BY <1>1
  <2>3. Counts(ms, f) /\ Counts(new, g) /\ new \in Seq(Message)
    BY <1>1, <1>2, <1>3
  <2> QED BY <2>1, <2>2, <2>3, CountsAgree
<1>5. n + 1 \in 1..Len(new) /\ (n + 1) - 1 = n
  BY <1>1
<1>6. g[n + 1] = IF m.role = "user" THEN Append(g[n], m.id) ELSE g[n]
  BY <1>1, <1>3, <1>5 DEF Counts
<1> QED BY <1>1, <1>2, <1>3, <1>4, <1>6 DEF new, n

(* The list of a turn: the prompt, which calls no tool, and a question.    *)
Prompted(ms) ==
    /\ HasSystem(ms) /\ ms[1].calls = 0
    /\ Len(ms) > 1 /\ ms[2].role = "user"

\* There are as many askers as questions.
LEMMA EachAsksOnce ==
    ASSUME NEW ms \in Seq(Message)
    PROVE  Len(Askers(ms)) = Cardinality(Asked(ms))
<1>1. PICK f \in [0..Len(ms) -> Seq(Nat)] :
           Counts(ms, f) /\ Askers(ms) = f[Len(ms)]
  BY AnybodyAsks, AskersCount
<1> DEFINE Of(n) == {i \in 1..n : ms[i].role = "user"}
           S == {n \in Nat : n <= Len(ms) =>
                    IsFiniteSet(Of(n)) /\ Len(f[n]) = Cardinality(Of(n))}
<1>2. 0 \in S
  <2>1. Of(0) = {} /\ f[0] = <<>>
    BY <1>1 DEF Counts
  <2>2. IsFiniteSet({}) /\ Cardinality({}) = 0
    BY FS_EmptySet
  <2> HIDE DEF Of
  <2> QED BY <2>1, <2>2
<1>3. ASSUME NEW n \in Nat, n \in S PROVE n + 1 \in S
  <2> SUFFICES ASSUME n + 1 <= Len(ms)
               PROVE  /\ IsFiniteSet(Of(n + 1))
                      /\ Len(f[n + 1]) = Cardinality(Of(n + 1))
    <3> HIDE DEF Of
    <3> QED OBVIOUS
  <2>0. n + 1 \in 1..Len(ms) /\ (n + 1) - 1 = n
        /\ n \in 0..Len(ms) /\ n <= Len(ms)
    OBVIOUS
  <2>1. IsFiniteSet(Of(n)) /\ Len(f[n]) = Cardinality(Of(n))
    <3> HIDE DEF Of
    <3> QED BY <1>3, <2>0
  <2>2. f[n + 1] = IF ms[n + 1].role = "user"
                   THEN Append(f[n], ms[n + 1].id) ELSE f[n]
    BY <1>1, <2>0 DEF Counts
  <2>3. f[n] \in Seq(Nat)
    BY <1>1, <2>0
  <2>4. CASE ms[n + 1].role = "user"
    <3>1. Of(n + 1) = Of(n) \union {n + 1} /\ n + 1 \notin Of(n)
      BY <2>4
    <3>2. Len(f[n + 1]) = Len(f[n]) + 1
      BY <2>2, <2>3, <2>4
    <3> HIDE DEF Of
    <3>3. /\ IsFiniteSet(Of(n) \union {n + 1})
          /\ Cardinality(Of(n) \union {n + 1}) = Cardinality(Of(n)) + 1
      BY <2>1, <3>1, FS_AddElement
    <3> QED BY <2>1, <3>1, <3>2, <3>3
  <2>5. CASE ms[n + 1].role # "user"
    <3>1. Of(n + 1) = Of(n)
      BY <2>5
    <3> HIDE DEF Of
    <3> QED BY <2>1, <2>2, <2>5, <3>1
  <2> QED BY <2>4, <2>5
<1> HIDE DEF S
<1>4. Nat \subseteq S
  BY <1>2, <1>3, SetInduction
<1>5. Asked(ms) = Of(Len(ms)) /\ Len(ms) \in Nat
  BY DEF Asked
<1>6. Len(ms) \in S
  BY <1>4, <1>5
<1>7. Len(f[Len(ms)]) = Cardinality(Of(Len(ms)))
  <2> HIDE DEF Of
  <2> QED BY <1>5, <1>6 DEF S
<1> HIDE DEF Of
<1> QED BY <1>1, <1>5, <1>7

\* What (\o) does.
LEMMA Joining ==
    ASSUME NEW s \in Seq(Nat), NEW t \in Seq(Nat)
    PROVE  /\ s \o t \in Seq(Nat)
           /\ Len(s \o t) = Len(s) + Len(t)
           /\ <<>> \o t = t
           /\ s \o <<>> = s
           /\ \A x \in Nat : Append(s \o t, x) = s \o Append(t, x)
<1>1. /\ s \o t \in Seq(Nat) /\ Len(s \o t) = Len(s) + Len(t)
      /\ <<>> \o t = t /\ s \o <<>> = s
  OBVIOUS
<1>2. ASSUME NEW x \in Nat PROVE Append(s \o t, x) = s \o Append(t, x)
  <2> DEFINE u == Append(t, x)
             a == Append(s \o t, x)
             b == s \o u
  <2>1. /\ a \in Seq(Nat) /\ Len(a) = Len(s) + Len(t) + 1
        /\ \A i \in 1..(Len(s) + Len(t)) : a[i] = (s \o t)[i]
        /\ a[Len(s) + Len(t) + 1] = x
    BY <1>1
  <2>2. /\ u \in Seq(Nat) /\ Len(u) = Len(t) + 1
        /\ \A i \in 1..Len(t) : u[i] = t[i]
        /\ u[Len(t) + 1] = x
    OBVIOUS
  <2> HIDE DEF u
  <2>3. /\ b \in Seq(Nat) /\ Len(b) = Len(s) + Len(u)
        /\ \A i \in 1..Len(b) : b[i] = IF i <= Len(s) THEN s[i]
                                     ELSE u[i - Len(s)]
    <3>1. u \in Seq(Nat)
      BY <2>2
    <3>2. /\ s \o u \in Seq(Nat) /\ Len(s \o u) = Len(s) + Len(u)
          /\ \A i \in 1..(Len(s) + Len(u)) :
                (s \o u)[i] = IF i <= Len(s) THEN s[i] ELSE u[i - Len(s)]
      BY <3>1
    <3> QED BY <3>2
  <2>4. \A i \in 1..(Len(s) + Len(t)) :
           (s \o t)[i] = IF i <= Len(s) THEN s[i] ELSE t[i - Len(s)]
    OBVIOUS
  <2>5. Len(s) \in Nat /\ Len(t) \in Nat
    OBVIOUS
  <2> HIDE DEF a, b
  <2>6. Len(a) = Len(b) /\ Len(b) = Len(s) + Len(t) + 1
    BY <2>1, <2>2, <2>3, <2>5
  <2>7. ASSUME NEW i \in 1..Len(a) PROVE a[i] = b[i]
    <3>1. i \in 1..Len(b) /\ i \in Nat /\ i <= Len(s) + Len(t) + 1 /\ i >= 1
      BY <2>5, <2>6
    <3>2. CASE i = Len(s) + Len(t) + 1
      <4>1. i - Len(s) = Len(t) + 1 /\ ~(i <= Len(s))
        BY <3>2, <2>5
      <4> QED BY <3>1, <3>2, <4>1, <2>1, <2>2, <2>3
    <3>3. CASE i <= Len(s)
      <4>1. i \in 1..(Len(s) + Len(t))
        BY <3>1, <3>3, <2>5
      <4> QED BY <3>1, <3>3, <4>1, <2>1, <2>3, <2>4
    <3>4. CASE ~(i <= Len(s)) /\ i # Len(s) + Len(t) + 1
      <4>1. i \in 1..(Len(s) + Len(t)) /\ i - Len(s) \in 1..Len(t)
        <5> DEFINE p == Len(s)
                   q == Len(t)
        <5>1. /\ i \in Nat /\ i <= p + q + 1 /\ i >= 1
              /\ ~(i <= p) /\ i # p + q + 1 /\ p \in Nat /\ q \in Nat
          BY <3>1, <3>4, <2>5
        <5> HIDE DEF p, q
        <5>2. i \in 1..(p + q) /\ i - p \in 1..q
          BY <5>1
        <5> QED BY <5>2 DEF p, q
      <4> QED BY <3>1, <3>4, <4>1, <2>1, <2>2, <2>3, <2>4
    <3> QED BY <3>2, <3>3, <3>4
  <2>8. a = b
    <3>1. a \in Seq(Nat) /\ b \in Seq(Nat)
      BY <2>1, <2>3
    <3> QED BY <3>1, <2>6, <2>7, SeqEqual
  <2> QED BY <2>8 DEF a, b, u
<1> QED BY <1>1, <1>2

\* The last n of two sequences joined are the second, if it is full.
LEMMA LastOfJoined ==
    ASSUME NEW s \in Seq(Nat), NEW t \in Seq(Nat), NEW n \in Nat \ {0},
           Len(t) = n \/ (s = <<>> /\ Len(t) <= n)
    PROVE  LastOf(s \o t, n) = t
<1> DEFINE all == s \o t
           from == IF Len(all) > n THEN Len(all) - n + 1 ELSE 1
<1>1. /\ all \in Seq(Nat) /\ Len(all) = Len(s) + Len(t)
      /\ Len(s) \in Nat /\ Len(t) \in Nat
      /\ \A i \in 1..Len(t) : all[Len(s) + i] = t[i]
  OBVIOUS
<1>2. s = <<>> => Len(s) = 0
  OBVIOUS
<1> HIDE DEF all
<1>3. from = Len(s) + 1
  BY <1>1, <1>2
<1>4. LastOf(all, n) = SubSeq(all, from, Len(all))
  BY DEF LastOf
<1> HIDE DEF from
<1> DEFINE cut == SubSeq(all, from, Len(all))
<1>5. cut \in Seq(Nat) /\ Len(cut) = Len(t)
      /\ \A i \in 1..Len(t) : cut[i] = t[i]
  <2>1. /\ from \in 1..(Len(all) + 1) /\ Len(all) \in 0..Len(all)
        /\ (Len(all) - from) + 1 = Len(t) /\ from \in Nat /\ Len(all) \in Nat
    BY <1>1, <1>3
  <2>2. \A i \in from..Len(all) : all[i] \in Nat
    <3>1. \A i \in 1..Len(all) : all[i] \in Nat
      <4>1. all \in Seq(Nat)
        BY <1>1
      <4> QED BY <4>1, ElementOfSeq
    <3> QED BY <2>1, <3>1
  <2>3. /\ cut \in Seq(Nat)
        /\ Len(cut) = IF from <= Len(all) THEN (Len(all) - from) + 1 ELSE 0
        /\ \A i \in 1..((Len(all) - from) + 1) : cut[i] = all[(from + i) - 1]
    BY <2>1, <2>2, SubSeqProperties
  <2> HIDE DEF cut
  <2>4. ASSUME NEW i \in 1..Len(t) PROVE all[(from + i) - 1] = t[i]
    <3>1. (from + i) - 1 = Len(s) + i
      BY <1>1, <1>3
    <3> QED BY <1>1, <3>1
  <2>5. Len(cut) = Len(t)
    <3>1. CASE from <= Len(all)
      BY <2>1, <2>3, <3>1
    <3>2. CASE ~(from <= Len(all))
      <4>1. Len(t) = 0
        BY <1>1, <1>3, <3>2
      <4>2. Len(cut) = 0
        BY <2>3, <3>2
      <4> QED BY <4>1, <4>2
    <3> QED BY <3>1, <3>2
  <2> QED BY <2>1, <2>3, <2>4, <2>5
<1>6. cut = t
  <2> HIDE DEF cut
  <2> QED BY <1>1, <1>5, SeqEqual
<1> QED BY <1>4, <1>6 DEF all

(* What is cut off asked first: the rest of the askers is that of the      *)
(* trimmed list.                                                           *)
LEMMA CutOffFirst ==
    ASSUME NEW ms \in Seq(Message), Prompted(ms)
    PROVE  \E s \in Seq(Nat) :
              /\ Askers(ms) = s \o Askers(RecentTurns(ms, MaxTurns))
              /\ Missing(ms, MaxTurns) = 0 => s = <<>>
<1> DEFINE out == RecentTurns(ms, MaxTurns)
           d == Missing(ms, MaxTurns)
           L == Len(ms)
           l == (L - d) - 1
<1>1. /\ L \in Nat /\ d \in Nat /\ d < L - 1 /\ L > 1
      /\ out \in Seq(Message) /\ Len(out) = L - d
      /\ out[1] = ms[1] /\ ms[1].role = "system"
      /\ \A i \in 2..(L - d) : out[i] = ms[i + d]
  <2>1. Prompts(ms) = 1 /\ HasSystem(ms) /\ L > 1 /\ ms[1].role = "system"
    BY DEF Prompts, Prompted, HasSystem
  <2>2. MaxTurns \in Nat \ {0}
    BY Constants
  <2>3. /\ L \in Nat /\ d \in Nat
        /\ \A i \in 1..Prompts(ms) : out[i] = ms[i]
        /\ \A i \in (Prompts(ms) + 1)..(L - d) : out[i] = ms[i + d]
    BY <2>2, TrimmedFacts
  <2>4. out \in Seq(Message) /\ Len(out) = L - d
    BY <2>2, TrimmedShape
  <2>5. Len(Rest(ms)) = L - 1
    BY <2>1, RestShape
  <2>6. Rest(ms) # <<>> => d < Len(Rest(ms))
    BY <2>2, MissingShape
  <2>7. Rest(ms) # <<>>
    <3>1. Rest(ms) = <<>> => Len(Rest(ms)) = 0
      OBVIOUS
    <3> QED BY <3>1, <2>1, <2>3, <2>5
  <2> HIDE DEF out, d, L
  <2>8. 1 \in 1..Prompts(ms) /\ Prompts(ms) + 1 = 2
    BY <2>1
  <2>9. \A i \in 2..(L - d) : out[i] = ms[i + d]
    BY <2>3, <2>8
  <2> QED BY <2>1, <2>3, <2>4, <2>5, <2>6, <2>7, <2>8, <2>9
<1>2. PICK F \in [0..L -> Seq(Nat)] : Counts(ms, F) /\ Askers(ms) = F[L]
  BY AnybodyAsks, AskersCount
<1>3. PICK G \in [0..Len(out) -> Seq(Nat)] :
           Counts(out, G) /\ Askers(out) = G[Len(out)]
  BY <1>1, AnybodyAsks, AskersCount
<1> HIDE DEF out, d, L
<1>4. G[1] = <<>>
  <2>1. 1 \in 1..Len(out) /\ 1 - 1 = 0
    BY <1>1
  <2>2. out[1].role # "user"
    BY <1>1
  <2> QED BY <1>3, <2>1, <2>2 DEF Counts
<1> DEFINE s == F[1 + d]
           S == {j \in Nat : j <= l => F[(1 + j) + d] = s \o G[1 + j]}
<1>5. s \in Seq(Nat)
  <2>1. 1 + d \in 0..L
    BY <1>1
  <2> QED BY <1>2, <2>1
<1> HIDE DEF s
<1>6. 0 \in S
  <2>1. 1 + 0 = 1 /\ (1 + 0) + d = 1 + d
    BY <1>1
  <2>2. s \o <<>> = s
    BY <1>5
  <2>3. F[(1 + 0) + d] = s
    BY <2>1 DEF s
  <2>4. F[(1 + 0) + d] = s \o G[1 + 0]
    BY <1>4, <2>1, <2>2, <2>3
  <2> QED BY <2>4
<1>7. ASSUME NEW j \in Nat, j \in S PROVE j + 1 \in S
  <2> DEFINE a == (1 + j) + d
  <2> SUFFICES ASSUME j + 1 <= l
               PROVE  F[(1 + (j + 1)) + d] = s \o G[1 + (j + 1)]
    OBVIOUS
  <2>1. /\ (1 + (j + 1)) + d = a + 1 /\ a + 1 \in 1..L /\ (a + 1) - 1 = a
        /\ 1 + (j + 1) = (1 + j) + 1 /\ ((1 + j) + 1) - 1 = 1 + j
        /\ (1 + j) + 1 \in 1..Len(out) /\ (1 + j) + 1 \in 2..(L - d)
        /\ 1 + j \in 0..Len(out)
        /\ ((1 + j) + 1) + d = a + 1 /\ j <= l
    BY <1>1
  <2>2. F[a] = s \o G[1 + j]
    BY <1>7, <2>1
  <2> HIDE DEF a, S, l
  <2> DEFINE b == 1 + j
  <2>3. out[b + 1] = ms[a + 1]
    BY <1>1, <2>1
  <2>4. F[a + 1] = IF ms[a + 1].role = "user"
                   THEN Append(F[a], ms[a + 1].id) ELSE F[a]
    BY <1>2, <2>1 DEF Counts, L
  <2>5. G[b + 1] = IF out[b + 1].role = "user"
                   THEN Append(G[b], out[b + 1].id) ELSE G[b]
    BY <1>3, <2>1 DEF Counts
  <2>6. G[b] \in Seq(Nat) /\ ms[a + 1].id \in Nat
    <3>1. ms[a + 1] \in Message
      BY <2>1 DEF L
    <3> QED BY <1>3, <2>1, <3>1 DEF Message
  <2>7. F[a + 1] = s \o G[b + 1]
    <3>1. CASE ms[a + 1].role = "user"
      <4>1. F[a + 1] = Append(s \o G[b], ms[a + 1].id)
        BY <2>2, <2>4, <3>1
      <4>2. G[b + 1] = Append(G[b], ms[a + 1].id)
        BY <2>3, <2>5, <3>1
      <4>3. Append(s \o G[b], ms[a + 1].id) = s \o Append(G[b], ms[a + 1].id)
        <5> DEFINE g == G[b]
                   x == ms[a + 1].id
        <5>1. g \in Seq(Nat) /\ x \in Nat
          BY <2>6
        <5> HIDE DEF g, x
        <5>2. \A y \in Nat : Append(s \o g, y) = s \o Append(g, y)
          BY <1>5, <5>1, Joining, Zenon
        <5>3. Append(s \o g, x) = s \o Append(g, x)
          BY <5>1, <5>2, Zenon
        <5> QED BY <5>3 DEF g, x
      <4> QED BY <4>1, <4>2, <4>3
    <3>2. CASE ms[a + 1].role # "user"
      BY <2>2, <2>3, <2>4, <2>5, <3>2
    <3> QED BY <3>1, <3>2
  <2> QED BY <2>1, <2>7
<1> HIDE DEF S
<1>8. Nat \subseteq S
  BY <1>6, <1>7, SetInduction
<1>9. l \in Nat /\ (1 + l) + d = L /\ 1 + l = Len(out)
  BY <1>1
<1> HIDE DEF l
<1>10. F[L] = s \o G[Len(out)]
  <2>1. l \in S /\ l <= l
    BY <1>8, <1>9
  <2>2. F[(1 + l) + d] = s \o G[1 + l]
    BY <2>1 DEF S
  <2> QED BY <1>9, <2>2
<1>11. d = 0 => s = <<>>
  <2> SUFFICES ASSUME d = 0 PROVE F[1] = <<>>
    BY DEF s
  <2>1. 1 \in 1..Len(ms) /\ 1 - 1 = 0 /\ ms[1].role # "user"
    BY <1>1 DEF L
  <2> QED BY <1>2, <2>1 DEF Counts
<1>12. Askers(ms) = s \o Askers(out) /\ (d = 0 => s = <<>>)
  BY <1>2, <1>3, <1>10, <1>11
<1> QED BY <1>5, <1>12 DEF out, d

(* Trimming keeps the last of the questions.                               *)
LEMMA TrimmedAskers ==
    ASSUME NEW ms \in Seq(Message), Prompted(ms)
    PROVE  Askers(RecentTurns(ms, MaxTurns)) = LastOf(Askers(ms), MaxTurns)
<1> DEFINE out == RecentTurns(ms, MaxTurns)
           d == Missing(ms, MaxTurns)
           t == Askers(out)
<1>0. MaxTurns \in Nat \ {0}
  BY Constants
<1>1. PICK s \in Seq(Nat) : Askers(ms) = s \o t /\ (d = 0 => s = <<>>)
  BY CutOffFirst
<1>2. out \in Seq(Message)
  BY <1>0, TrimmedShape
<1>3. Len(t) = Cardinality(Asked(out))
  BY <1>2, EachAsksOnce
<1>4. Cardinality(Asked(out)) <= MaxTurns
  BY <1>0, TrimmedIsShort DEF Asked
<1>5. d # 0 => Cardinality(Asked(out)) = MaxTurns
  BY <1>0, TrimmedIsFull DEF Asked, Prompted
<1>6. t \in Seq(Nat)
  BY <1>2, AnybodyAsks, AskersType
<1> HIDE DEF t, d, out
<1>7. Len(t) = MaxTurns \/ (s = <<>> /\ Len(t) <= MaxTurns)
  BY <1>1, <1>3, <1>4, <1>5
<1>8. LastOf(s \o t, MaxTurns) = t
  BY <1>0, <1>6, <1>7, LastOfJoined
<1>9. t = LastOf(Askers(ms), MaxTurns)
  BY <1>1, <1>8
<1> QED BY <1>9 DEF t, out

\* The last n of a sequence, one by one.
LEMMA LastOfShape ==
    ASSUME NEW s \in Seq(Nat), NEW n \in Nat \ {0}
    PROVE  /\ LastOf(s, n) \in Seq(Nat)
           /\ Len(LastOf(s, n)) = IF Len(s) > n THEN n ELSE Len(s)
           /\ \A i \in 1..Len(LastOf(s, n)) :
                 LastOf(s, n)[i] = s[(Len(s) - Len(LastOf(s, n))) + i]
<1> DEFINE L == Len(s)
           from == IF L > n THEN (L - n) + 1 ELSE 1
           cut == SubSeq(s, from, L)
<1>1. L \in Nat /\ from \in 1..(L + 1) /\ from \in Nat /\ L \in 0..L
      /\ (L - from) + 1 = IF L > n THEN n ELSE L
  OBVIOUS
<1>2. \A i \in 1..L : s[i] \in Nat
  OBVIOUS
<1>3. LastOf(s, n) = cut
  <2>1. from = IF Len(s) > n THEN Len(s) - n + 1 ELSE 1
    OBVIOUS
  <2> HIDE DEF from
  <2> QED BY <2>1 DEF LastOf
<1>4. /\ cut \in Seq(Nat)
      /\ Len(cut) = IF from <= L THEN (L - from) + 1 ELSE 0
      /\ \A i \in 1..((L - from) + 1) : cut[i] = s[(from + i) - 1]
  <2> HIDE DEF from
  <2>1. \A i \in from..L : s[i] \in Nat
    <3> HIDE DEF L
    <3> QED BY <1>1, <1>2
  <2> QED BY <1>1, <2>1, SubSeqProperties
<1> HIDE DEF from, cut
<1>5. Len(cut) = (L - from) + 1
  <2> HIDE DEF L
  <2>1. CASE from <= L
    BY <1>4, <2>1
  <2>2. CASE ~(from <= L)
    <3>1. (L - from) + 1 = 0
      BY <1>1, <2>2
    <3> QED BY <1>4, <2>2, <3>1
  <2> QED BY <2>1, <2>2
<1>6. ASSUME NEW i \in 1..Len(cut) PROVE cut[i] = s[(L - Len(cut)) + i]
  <2> HIDE DEF L
  <2>1. i \in 1..((L - from) + 1) /\ (L - Len(cut)) + i = (from + i) - 1
    BY <1>1, <1>5
  <2> QED BY <1>4, <2>1
<1> QED BY <1>1, <1>3, <1>4, <1>5, <1>6 DEF L

(* Taking the last ones of the last ones changes nothing.                  *)
LEMMA LastOfAgain ==
    ASSUME NEW s \in Seq(Nat), NEW n \in Nat \ {0}
    PROVE  LastOf(LastOf(s, n), n) = LastOf(s, n)
<1> DEFINE c == LastOf(s, n)
           b == LastOf(c, n)
<1>1. c \in Seq(Nat) /\ Len(c) <= n /\ Len(c) \in Nat
  <2>1. c \in Seq(Nat) /\ Len(c) = IF Len(s) > n THEN n ELSE Len(s)
    BY LastOfShape
  <2>2. Len(s) \in Nat
    OBVIOUS
  <2> HIDE DEF c
  <2> QED BY <2>1, <2>2
<1> HIDE DEF c
<1>2. /\ b \in Seq(Nat) /\ Len(b) = IF Len(c) > n THEN n ELSE Len(c)
      /\ \A i \in 1..Len(b) : b[i] = c[(Len(c) - Len(b)) + i]
  BY <1>1, LastOfShape
<1> HIDE DEF b
<1>3. Len(b) = Len(c)
  BY <1>1, <1>2
<1>4. \A i \in 1..Len(b) : b[i] = c[i]
  <2> TAKE i \in 1..Len(b)
  <2>1. (Len(c) - Len(b)) + i = i
    BY <1>1, <1>3
  <2> QED BY <1>2, <2>1
<1>5. b = c
  BY <1>1, <1>2, <1>3, <1>4, SeqEqual
<1> QED BY <1>5 DEF b, c

(* Where the last ones are the same, they stay so when one more is added.  *)
LEMMA LastOfAppend ==
    ASSUME NEW s \in Seq(Nat), NEW t \in Seq(Nat), NEW n \in Nat \ {0},
           LastOf(s, n) = LastOf(t, n), NEW x \in Nat
    PROVE  LastOf(Append(s, x), n) = LastOf(Append(t, x), n)
<1> DEFINE c == LastOf(s, n)
           Least(a) == IF a > n THEN n ELSE a
<1>1. ASSUME NEW u \in Seq(Nat), LastOf(u, n) = c
      PROVE  /\ LastOf(Append(u, x), n) \in Seq(Nat)
             /\ Len(LastOf(Append(u, x), n)) = Least(Len(c) + 1)
             /\ \A i \in 1..Least(Len(c) + 1) :
                   LastOf(Append(u, x), n)[i] =
                      IF i = Least(Len(c) + 1) THEN x
                      ELSE c[((i + 1) + Len(c)) - Least(Len(c) + 1)]
  <2> DEFINE a == Append(u, x)
             b == LastOf(a, n)
             L == Len(u)
             m == Len(c)
             k == Least(m + 1)
  <2>1. /\ c \in Seq(Nat) /\ m = Least(L)
        /\ \A i \in 1..m : c[i] = u[(L - m) + i]
    <3>1. LastOf(u, n) = c
      BY <1>1
    <3>2. /\ LastOf(u, n) \in Seq(Nat)
          /\ Len(LastOf(u, n)) = IF L > n THEN n ELSE L
          /\ \A i \in 1..Len(LastOf(u, n)) :
                LastOf(u, n)[i] = u[(L - Len(LastOf(u, n))) + i]
      BY <1>1, LastOfShape
    <3> HIDE DEF c, L
    <3> QED BY <3>1, <3>2
  <2>2. /\ a \in Seq(Nat) /\ Len(a) = L + 1 /\ L \in Nat
        /\ \A i \in 1..L : a[i] = u[i]
        /\ a[L + 1] = x
    OBVIOUS
  <2> HIDE DEF a
  <2>3. /\ b \in Seq(Nat) /\ Len(b) = Least(L + 1)
        /\ \A i \in 1..Len(b) : b[i] = a[((L + 1) - Len(b)) + i]
    <3>1. /\ b \in Seq(Nat)
          /\ Len(b) = IF Len(a) > n THEN n ELSE Len(a)
          /\ \A i \in 1..Len(b) : b[i] = a[(Len(a) - Len(b)) + i]
      BY <2>2, LastOfShape
    <3>2. Len(a) = L + 1
      BY <2>2
    <3> HIDE DEF b, L
    <3> QED BY <3>1, <3>2
  <2> HIDE DEF b, c, L
  <2>4. m \in Nat /\ m <= L /\ Least(L + 1) = k /\ k \in Nat /\ k <= m + 1
    <3> HIDE DEF m
    <3> QED BY <2>1, <2>2
  <2> HIDE DEF m, k, Least
  <2>5. ASSUME NEW i \in 1..k
        PROVE  b[i] = IF i = k THEN x ELSE c[((i + 1) + m) - k]
    <3>1. b[i] = a[((L + 1) - k) + i]
      BY <2>3, <2>4
    <3>2. CASE i = k
      <4>1. ((L + 1) - k) + i = L + 1
        BY <2>2, <2>4, <3>2
      <4> QED BY <2>2, <3>1, <3>2, <4>1
    <3>3. CASE i # k
      <4>1. /\ ((L + 1) - k) + i \in 1..L
            /\ ((i + 1) + m) - k \in 1..m
            /\ (L - m) + (((i + 1) + m) - k) = ((L + 1) - k) + i
        BY <2>2, <2>4, <3>3
      <4> QED BY <2>1, <2>2, <3>1, <3>3, <4>1
    <3> QED BY <3>2, <3>3
  <2> QED BY <2>3, <2>4, <2>5 DEF b, a, k, m
<1> DEFINE S == LastOf(Append(s, x), n)
           T == LastOf(Append(t, x), n)
           k == Least(Len(c) + 1)
           At(i) == IF i = k THEN x ELSE c[((i + 1) + Len(c)) - k]
<1>2. S \in Seq(Nat) /\ Len(S) = k /\ \A i \in 1..k : S[i] = At(i)
  BY <1>1
<1>3. T \in Seq(Nat) /\ Len(T) = k /\ \A i \in 1..k : T[i] = At(i)
  <2>1. LastOf(t, n) = c
    OBVIOUS
  <2> HIDE DEF c
  <2> QED BY <2>1, <1>1
<1> HIDE DEF S, T, At, k
<1>4. S = T
  BY <1>2, <1>3, SeqEqual
<1> QED BY <1>4 DEF S, T

-----------------------------------------------------------------------------
(***************************************************************************)
(* The list of a turn, step by step.                                       *)
(***************************************************************************)
(* A conversation that can be gone on with, and one that was trimmed.      *)
Resumable(ms) ==
    WholeExchanges(ms) /\ Prompted(ms) /\ LastRole(ms) = "assistant"

Short(ms) == Cardinality(Asked(ms)) <= MaxTurns

\* A message more leaves the prompt where it is.
LEMMA PromptedAppend ==
    ASSUME NEW ms \in Seq(Message), Prompted(ms), NEW m \in Message
    PROVE  Prompted(Append(ms, m))
<1> DEFINE new == Append(ms, m)
<1>1. /\ new # <<>> /\ Len(ms) \in Nat /\ Len(new) = Len(ms) + 1
      /\ \A i \in 1..Len(ms) : new[i] = ms[i]
  BY Appending
<1>2. Len(ms) > 1 /\ ms[1].role = "system" /\ ms[1].calls = 0
      /\ ms[2].role = "user"
  BY DEF Prompted, HasSystem
<1> HIDE DEF new
<1>3. new[1] = ms[1] /\ new[2] = ms[2]
  BY <1>1, <1>2
<1>4. Prompted(new)
  BY <1>1, <1>2, <1>3 DEF Prompted, HasSystem
<1> QED BY <1>4 DEF new

(* Ask: the prompt if there is no history, and the question.               *)
LEMMA AskedList ==
    ASSUME NEW h \in Seq(Message), h = <<>> \/ Resumable(h),
           NEW r \in Request
    PROVE  LET ms == Append(IF h = <<>> THEN <<SystemPrompt>> ELSE h,
                            Question(r))
           IN  /\ ms \in Seq(Message)
               /\ WholeExchanges(ms) /\ Prompted(ms)
               /\ Askers(ms) = Append(Askers(h), r)
<1> DEFINE b == IF h = <<>> THEN <<SystemPrompt>> ELSE h
           m == Question(r)
           ms == Append(b, m)
<1>1. m \in Message /\ m.role = "user" /\ m.id = r /\ m.calls = 0
  BY QuestionType
<1> HIDE DEF m
<1>2. /\ b \in Seq(Message) /\ WholeExchanges(b)
      /\ Askers(b) = Askers(h)
      /\ b = <<SystemPrompt>> \/ Prompted(b)
  <2>1. CASE h = <<>>
    <3> DEFINE one == <<SystemPrompt>>
    <3>1. SystemPrompt \in Message /\ SystemPrompt.role = "system"
          /\ SystemPrompt.calls = 0
      BY MessageTypes DEF SystemPrompt
    <3>2. one = Append(<<>>, SystemPrompt) /\ <<>> \in Seq(Message)
      OBVIOUS
    <3>3. one \in Seq(Message) /\ Askers(one) = Askers(<<>>)
      <4> DEFINE e == <<>>
      <4>1. e \in Seq(Message) /\ one = Append(e, SystemPrompt)
        BY <3>2
      <4> HIDE DEF e, one
      <4>2. one \in Seq(Message) /\ Askers(one) = Askers(e)
        BY <3>1, <4>1, Appending, AskersAppend
      <4> QED BY <4>2 DEF e
    <3>4. DOMAIN one = {1} /\ one[1] = SystemPrompt
      OBVIOUS
    <3> HIDE DEF one
    <3>5. WholeExchanges(one)
      BY <3>1, <3>4 DEF WholeExchanges, EveryCallAnswered, EveryResultOwned
    <3>6. b = one
      BY <2>1 DEF one
    <3> QED BY <2>1, <3>3, <3>5, <3>6 DEF one
  <2>2. CASE h # <<>>
    <3>1. b = h
      BY <2>2
    <3> HIDE DEF b
    <3> QED BY <2>2, <3>1 DEF Resumable
  <2> HIDE DEF b
  <2> QED BY <2>1, <2>2
<1> HIDE DEF b
<1>3. ms \in Seq(Message) /\ WholeExchanges(ms)
  BY <1>1, <1>2, WordsKeepWhole
<1>4. Askers(ms) = Append(Askers(h), r)
  BY <1>1, <1>2, AskersAppend
<1>5. Prompted(ms)
  <2>1. CASE b = <<SystemPrompt>>
    <3>1. Len(b) = 1 /\ b[1] = SystemPrompt
      BY <2>1
    <3>2. Len(ms) = 2 /\ ms[1] = SystemPrompt /\ ms[2] = m /\ ms # <<>>
      <4>1. /\ ms # <<>> /\ Len(ms) = Len(b) + 1 /\ ms[Len(b) + 1] = m
            /\ \A i \in 1..Len(b) : ms[i] = b[i]
        BY <1>1, <1>2, Appending
      <4> HIDE DEF ms
      <4> QED BY <3>1, <4>1
    <3> HIDE DEF ms
    <3> QED BY <1>1, <3>2 DEF Prompted, HasSystem, SystemPrompt
  <2>2. CASE Prompted(b)
    BY <1>1, <1>2, <2>2, PromptedAppend
  <2> QED BY <1>2, <2>1, <2>2
<1> QED BY <1>3, <1>4, <1>5 DEF b, m

\* The model calls n tools: an exchange is opened.
LEMMA CalledList ==
    ASSUME NEW ms \in Seq(Message), WholeExchanges(ms), Prompted(ms),
           NEW n \in Nat
    PROVE  LET new == Append(ms, ToolCalls(n, FALSE))
           IN  /\ new \in Seq(Message)
               /\ Prompted(new) /\ Askers(new) = Askers(ms)
               /\ Owing(new, n, 0)
<1> DEFINE m == ToolCalls(n, FALSE)
<1>1. m \in Message /\ m.role # "user"
  <2>1. FALSE \in BOOLEAN
    OBVIOUS
  <2>2. m \in Message
    BY <2>1, MessageTypes
  <2> QED BY <2>2 DEF ToolCalls
<1>2. Owing(Append(ms, m), n, 0)
  BY ExchangeOpens
<1> HIDE DEF m
<1>3. /\ Append(ms, m) \in Seq(Message) /\ Prompted(Append(ms, m))
      /\ Askers(Append(ms, m)) = Askers(ms)
  BY <1>1, PromptedAppend, AskersAppend
<1> QED BY <1>2, <1>3 DEF m

\* A tool's result is the next one owed.
LEMMA AnsweredList ==
    ASSUME NEW ms \in Seq(Message), Prompted(ms),
           NEW n \in Nat, NEW given \in Nat, given < n, Owing(ms, n, given)
    PROVE  LET new == Append(ms, ToolResult(given + 1))
           IN  /\ new \in Seq(Message)
               /\ Prompted(new) /\ Askers(new) = Askers(ms)
               /\ Owing(new, n, given + 1)
               /\ given + 1 = n => WholeExchanges(new)
<1> DEFINE m == ToolResult(given + 1)
           new == Append(ms, m)
<1>1. m \in Message /\ m.role # "user"
  <2>1. m \in Message
    BY MessageTypes
  <2> QED BY <2>1 DEF ToolResult
<1>2. Owing(new, n, given + 1)
  BY ExchangeGoesOn
<1> HIDE DEF m
<1>3. new \in Seq(Message) /\ Prompted(new) /\ Askers(new) = Askers(ms)
  BY <1>1, PromptedAppend, AskersAppend
<1> HIDE DEF new
<1>4. given + 1 = n => WholeExchanges(new)
  BY <1>2, <1>3, ExchangeIsWhole
<1> QED BY <1>2, <1>3, <1>4 DEF new, m

\* The final answer is put at the end of a whole list.
LEMMA ClosedList ==
    ASSUME NEW ms \in Seq(Message), WholeExchanges(ms), Prompted(ms)
    PROVE  LET new == Append(ms, Answer)
           IN  /\ new \in Seq(Message)
               /\ Resumable(new) /\ Askers(new) = Askers(ms)
<1> DEFINE m == Answer
           new == Append(ms, m)
<1>1. m \in Message /\ m.role = "assistant" /\ m.calls = 0
  BY MessageTypes DEF Answer
<1> HIDE DEF m
<1>2. new \in Seq(Message) /\ Prompted(new) /\ Askers(new) = Askers(ms)
  BY <1>1, PromptedAppend, AskersAppend
<1>3. WholeExchanges(new)
  BY <1>1, WordsKeepWhole
<1>4. LastRole(new) = "assistant"
  <2>1. Len(new) = Len(ms) + 1 /\ new[Len(ms) + 1] = m
    BY <1>1, Appending
  <2> QED BY <1>1, <2>1 DEF LastRole
<1> QED BY <1>2, <1>3, <1>4 DEF Resumable, m

\* What is saved can be resumed, is short, and has the last questions.
LEMMA TrimmedList ==
    ASSUME NEW ms \in Seq(Message), Resumable(ms)
    PROVE  LET out == RecentTurns(ms, MaxTurns)
           IN  /\ out \in Seq(Message)
               /\ Resumable(out) /\ Short(out)
               /\ Askers(out) = LastOf(Askers(ms), MaxTurns)
<1> DEFINE out == RecentTurns(ms, MaxTurns)
           d == Missing(ms, MaxTurns)
<1>0. MaxTurns \in Nat \ {0}
  BY Constants
<1>1. /\ WholeExchanges(ms) /\ HasSystem(ms) /\ ms[1].calls = 0
      /\ LastRole(ms) = "assistant" /\ Len(ms) > 1 /\ ms[2].role = "user"
      /\ Prompted(ms) /\ QuietPrompt(ms) /\ Prompts(ms) = 1
  BY DEF Resumable, Prompted, QuietPrompt, Prompts
<1>2. out \in Seq(Message) /\ Len(out) = Len(ms) - d
  BY <1>0, TrimmedShape
<1>3. WholeExchanges(out)
  BY <1>0, <1>1, TrimmedIsWhole
<1>4. /\ HasSystem(out) /\ LastRole(out) = "assistant" /\ QuietPrompt(out)
  BY <1>0, <1>1, TrimmedEnds
<1>5. Short(out)
  BY <1>0, TrimmedIsShort DEF Short, Asked
<1>6. Len(out) > 1 /\ out[2].role = "user"
  <2>1. /\ Len(ms) \in Nat /\ d \in Nat
        /\ \A i \in (Prompts(ms) + 1)..(Len(ms) - d) : out[i] = ms[i + d]
    BY <1>0, TrimmedFacts
  <2>2. /\ Rest(ms) \in Seq(Message) /\ Len(Rest(ms)) = Len(ms) - 1
        /\ \A i \in 1..Len(Rest(ms)) : Rest(ms)[i] = ms[i + 1]
    BY <1>1, RestShape
  <2>3. /\ d # 0 => Rest(ms)[d + 1].role = "user"
        /\ Rest(ms) # <<>> => d < Len(Rest(ms))
    BY <1>0, MissingShape
  <2>4. Rest(ms) # <<>>
    <3>1. Rest(ms) = <<>> => Len(Rest(ms)) = 0
      OBVIOUS
    <3> QED BY <3>1, <1>1, <2>1, <2>2
  <2> HIDE DEF out, d
  <2>5. d + 1 \in 1..Len(Rest(ms)) /\ (d + 1) + 1 = 2 + d
        /\ 2 \in (Prompts(ms) + 1)..(Len(ms) - d)
    BY <1>1, <2>1, <2>2, <2>3, <2>4
  <2>6. out[2] = ms[2 + d] /\ Rest(ms)[d + 1] = ms[2 + d]
    BY <2>1, <2>2, <2>5
  <2>7. d = 0 => 2 + d = 2
    OBVIOUS
  <2>8. out[2].role = "user"
    BY <1>1, <2>3, <2>6, <2>7
  <2>9. Len(out) > 1
    BY <1>2, <2>1, <2>2, <2>3, <2>4
  <2> QED BY <2>8, <2>9
<1>7. Askers(out) = LastOf(Askers(ms), MaxTurns)
  BY <1>1, TrimmedAskers
<1> HIDE DEF out
<1>8. Prompted(out)
  BY <1>4, <1>6 DEF Prompted, QuietPrompt
<1>9. Resumable(out)
  BY <1>3, <1>4, <1>8 DEF Resumable
<1> QED BY <1>2, <1>5, <1>7, <1>9 DEF out

-----------------------------------------------------------------------------
(***************************************************************************)
(* What a request found, and what a handler leaves alone.                  *)
(***************************************************************************)
FoundTyped == found \in [Request -> Seq(Request)]

\* A request's list is well formed, and its questions are its user's.
LEMMA WorkingLists ==
    Typed /\ Owned => \A r \in Request :
        messages(r) \in Seq(Message) /\ AskedBy(messages(r), Mates(key(r)))
BY MessagesType, WorkingList

LEMMA NextFoundTyped ==
    ASSUME Typed, Owned, FoundTyped, [Next]_vars
    PROVE  FoundTyped'
<1>0. Typed' /\ Owned'
  BY NextTyped, NextOwned
<1>1. (\A r \in Request :
         messages(r) \in Seq(Message) /\ AskedBy(messages(r), Mates(key(r))))'
  BY <1>0, WorkingLists, PTL
<1>2. ASSUME NEW r \in Request, Finds(r) PROVE FoundTyped'
  <2>1. messages(r)' \in Seq(Message)
    BY <1>1
  <2>2. AskedBy(messages(r)', Mates(key(r))')
    BY <1>1
  <2>3. Mates(key(r))' \subseteq Request
    BY DEF Mates
  <2>4. AskedBy(messages(r)', Request)
    BY <2>2, <2>3 DEF AskedBy
  <2>5. Askers(messages(r)') \in Seq(Request)
    BY <2>1, <2>4, AskersType
  <2>6. found' = [found EXCEPT ![r] = Askers(messages(r)')]
    BY <1>2 DEF Finds, messages
  <2> QED BY <2>5, <2>6 DEF FoundTyped
<1>3. CASE UNCHANGED found
  BY <1>3 DEF FoundTyped
<1> QED BY <1>2, <1>3
        DEF Next, Handle, Probe, Probed, ReadRedis, ReadFails, ReadMemory,
            Ask, AskAgain, CallTools, GiveResult, Break, ReplyRedis, SaveRedis,
            SaveFails, ReplyMemory, Clear, Tick, Restart, who, turn, store,
            vars

\* A handler's step is made by a request under way, or one that arrives.
LEMMA Handles ==
    ASSUME NEW r \in Request, Handle(r)
    PROVE  pc[r] \in InProgress \/ Arrives(r)
BY DEF Handle, Probe, Probed, ReadRedis, ReadFails, ReadMemory, Reads, Ask,
       AskAgain, CallTools, GiveResult, Break, ReplyRedis, SaveRedis,
       SaveFails, ReplyMemory, InProgress, InTurn

(* A handler leaves the other requests alone, and of the lists it writes   *)
(* no others than its own, the one it works on and the one it stores.      *)
Touches(r) ==
    /\ \A q \in Request : q # r =>
          /\ pc'[q] = pc[q] /\ calls'[q] = calls[q]
          /\ found'[q] = found[q] /\ list'[q] = list[q]
          /\ sentWhole'[q] = sentWhole[q]
    /\ \A l \in Ref : \/ heap'[l] = heap[l]
                      \/ l = Own(r)
                      \/ l = list[r]
                      \/ l = Saved(r) /\ ReplyMemory(r)

\* Appending changes one list.
LEMMA ExtendTouches ==
    ASSUME Typed, NEW r \in Request, NEW ms, Extend(r, ms)
    PROVE  /\ \A l \in Ref : heap'[l] = heap[l] \/ l = list[r]
           /\ heap'[list[r]] = ms
BY DEF Typed, Extend

\* Each step of a handler keeps within what is said of it.
LEMMA HandlerTouches ==
    ASSUME Typed, FoundTyped, NEW r \in Request, Handle(r)
    PROVE  Touches(r)
<1> USE DEF who, turn, store, connection
<1>1. CASE Probe(r)
  BY <1>1 DEF Probe, Touches, Typed
<1>2. CASE Probed(r)
  BY <1>2 DEF Probed, Touches, Typed
<1>3. ASSUME NEW backend, Reads(r, backend), Finds(r),
             \/ \E ms : StartWith(r, ms)
             \/ /\ list' = [list EXCEPT ![r] = sessions[key(r)].messages]
                /\ UNCHANGED heap
      PROVE  Touches(r)
  <2>1. \A q \in Request : q # r =>
           /\ pc'[q] = pc[q] /\ calls'[q] = calls[q]
           /\ found'[q] = found[q] /\ list'[q] = list[q]
           /\ sentWhole'[q] = sentWhole[q]
    BY <1>3 DEF Reads, Finds, StartWith, Typed, FoundTyped
  <2>2. \A l \in Ref : heap'[l] = heap[l] \/ l = Own(r)
    BY <1>3 DEF StartWith, Typed
  <2> QED BY <2>1, <2>2 DEF Touches
<1>4. CASE ReadRedis(r)
  BY <1>3, <1>4 DEF ReadRedis
<1>5. CASE ReadFails(r)
  BY <1>3, <1>5 DEF ReadFails
<1>6. CASE ReadMemory(r)
  BY <1>3, <1>6 DEF ReadMemory
<1>7. ASSUME NEW ms, Extend(r, ms),
             \A q \in Request : q # r =>
                pc'[q] = pc[q] /\ calls'[q] = calls[q]
                /\ sentWhole'[q] = sentWhole[q],
             UNCHANGED <<found, list>>
      PROVE  Touches(r)
  BY <1>7, ExtendTouches DEF Touches
<1>8. CASE Ask(r)
  <2>1. /\ \A q \in Request : q # r =>
              pc'[q] = pc[q] /\ calls'[q] = calls[q]
              /\ sentWhole'[q] = sentWhole[q]
        /\ UNCHANGED <<found, list>>
    BY <1>8 DEF Ask, Send, Typed
  <2> QED BY <1>7, <1>8, <2>1 DEF Ask
<1>9. CASE AskAgain(r)
  BY <1>9 DEF AskAgain, Send, Touches, Typed
<1>10. CASE CallTools(r)
  <2>1. /\ \A q \in Request : q # r =>
              pc'[q] = pc[q] /\ calls'[q] = calls[q]
              /\ sentWhole'[q] = sentWhole[q]
        /\ UNCHANGED <<found, list>>
    BY <1>10 DEF CallTools, Typed
  <2>2. \E ms : Extend(r, ms)
    BY <1>10 DEF CallTools
  <2> QED BY <1>7, <2>1, <2>2
<1>11. CASE GiveResult(r)
  <2>1. /\ \A q \in Request : q # r =>
              pc'[q] = pc[q] /\ calls'[q] = calls[q]
              /\ sentWhole'[q] = sentWhole[q]
        /\ UNCHANGED <<found, list>>
    BY <1>11 DEF GiveResult, Send, Typed
  <2>2. \E ms : Extend(r, ms)
    BY <1>11 DEF GiveResult
  <2> QED BY <1>7, <2>1, <2>2
<1>12. CASE Break(r)
  BY <1>12 DEF Break, Touches, Typed
<1>13. CASE ReplyRedis(r)
  <2>1. /\ \A q \in Request : q # r =>
              pc'[q] = pc[q] /\ calls'[q] = calls[q]
              /\ sentWhole'[q] = sentWhole[q]
        /\ UNCHANGED <<found, list>>
    BY <1>13 DEF ReplyRedis, Typed
  <2>2. Extend(r, Close(r))
    BY <1>13 DEF ReplyRedis
  <2> QED BY <1>7, <2>1, <2>2
<1>14. CASE SaveRedis(r)
  BY <1>14 DEF SaveRedis, Touches, Typed
<1>15. CASE SaveFails(r)
  BY <1>15 DEF SaveFails, Touches, Typed
<1>16. CASE ReplyMemory(r)
  <2>1. \A q \in Request : q # r =>
           /\ pc'[q] = pc[q] /\ calls'[q] = calls[q]
           /\ found'[q] = found[q] /\ list'[q] = list[q]
           /\ sentWhole'[q] = sentWhole[q]
    BY <1>16 DEF ReplyMemory, Typed
  <2>2. \A l \in Ref : \/ heap'[l] = heap[l]
                       \/ l = list[r]
                       \/ l = Saved(r)
    BY <1>16 DEF ReplyMemory, Typed
  <2> QED BY <1>16, <2>1, <2>2 DEF Touches
<1> QED BY <1>1, <1>2, <1>4, <1>5, <1>6, <1>8, <1>9, <1>10, <1>11, <1>12,
           <1>13, <1>14, <1>15, <1>16 DEF Handle

(* Nobody writes to the list of a turn but its own request, where lists    *)
(* are not shared.                                                         *)
LEMMA Alone ==
    ASSUME Typed, Apart, Owned, Backends, Unshared,
           NEW r \in Request, NEW q \in Request, q # r,
           pc[r] \in InProgress \/ Arrives(r), pc[q] \in InProgress
    PROVE  /\ list[q] # Own(r) /\ list[q] # list[r]
           /\ ~AlwaysRedis => list[q] # Saved(r)
           /\ env.overlap # "within" => key(q) # key(r)
<1>1. env.overlap # "within" => key(q) # key(r)
  <2>1. CASE pc[r] \in InProgress
    BY <2>1 DEF Apart
  <2>2. CASE Arrives(r)
    BY <2>2 DEF Arrives
  <2> QED BY <2>1, <2>2
<1>2. CASE AlwaysRedis
  <2>1. list[q] = Own(q) /\ list[r] = Own(r)
    BY <1>2 DEF Backends, RedisOnly
  <2> QED BY <1>1, <1>2, <2>1, RefsDiffer
<1>3. CASE ~AlwaysRedis
  <2>1. key(q) # key(r)
    BY <1>1, <1>3 DEF Unshared
  <2>2. list[q] = Own(q) \/ \E x \in Mates(key(q)) : list[q] = Saved(x)
    BY DEF Owned, ListsOwned
  <2>3. list[r] = Own(r) \/ \E x \in Mates(key(r)) : list[r] = Saved(x)
    BY DEF Owned, ListsOwned
  <2> QED BY <2>1, <2>2, <2>3, RefsDiffer, OwnMate DEF Mates
<1> QED BY <1>2, <1>3

\* The dict is used only where Redis does not always answer.
LEMMA MemoryOnly ==
    ASSUME Apart, Backends, NEW r \in Request,
           ReplyMemory(r) \/ ReadMemory(r)
    PROVE  ~AlwaysRedis
<1>1. /\ checked /\ client = "none"
      /\ pc[r] \in {"limited"} \union InTurn \/ Arrives(r)
  BY DEF ReplyMemory, ReadMemory, Reads, Cached, InTurn
<1> QED BY <1>1, NobodyElse DEF Backends

\* So, where lists are not shared, a step leaves the others' lists alone.
LEMMA OthersKeep ==
    ASSUME Typed, FoundTyped, Apart, Owned, Backends, Unshared,
           NEW r \in Request, Handle(r),
           NEW q \in Request, q # r
    PROVE  /\ pc'[q] = pc[q] /\ calls'[q] = calls[q]
           /\ found'[q] = found[q] /\ list'[q] = list[q]
           /\ sentWhole'[q] = sentWhole[q]
           /\ pc[q] \in InProgress => messages(q)' = messages(q)
<1>1. Touches(r)
  BY HandlerTouches
<1>2. ASSUME pc[q] \in InProgress PROVE heap'[list[q]] = heap[list[q]]
  <2>1. /\ list[q] # Own(r) /\ list[q] # list[r]
        /\ ~AlwaysRedis => list[q] # Saved(r)
    BY <1>2, Handles, Alone
  <2>2. ReplyMemory(r) => ~AlwaysRedis
    BY MemoryOnly
  <2>3. list[q] \in Ref
    BY DEF Typed
  <2> QED BY <1>1, <2>1, <2>2, <2>3 DEF Touches
<1> QED BY <1>1, <1>2 DEF Touches, messages

-----------------------------------------------------------------------------
(***************************************************************************)
(* The list a request works on, wherever its handler is.                   *)
(***************************************************************************)
\* At p, with the calls c to be answered, after it found the questions f.
Fit(r, p, ms, c, f) ==
    /\ p = "begun" => (ms = <<>> \/ Resumable(ms)) /\ Askers(ms) = f
    /\ p \in {"asking", "tools", "saving"} =>
          Prompted(ms) /\ Askers(ms) = Append(f, r)
    /\ p \in {"asking", "saving"} => WholeExchanges(ms)
    /\ p = "saving" => LastRole(ms) = "assistant"
    /\ p = "tools" => \E n, given \in Nat :
          /\ given < n
          /\ c = [j \in 1..(n - given) |-> given + j]
          /\ Owing(ms, n, given)

Fits(r) == Fit(r, pc[r], messages(r), calls[r], found[r])

WorkInv == \A r \in Request : Fits(r) /\ sentWhole[r]

\* What a request that begins now would be given.
Sound(ms) == ms = <<>> \/ Resumable(ms)

GivesSound(r) ==
    /\ key(r) \in DOMAIN redis => Resumable(redis[key(r)].messages)
    /\ ReadMemory(r) /\ key(r) \in DOMAIN sessions =>
          Resumable(heap[sessions[key(r)].messages])

\* A request that has read its history has begun.
LEMMA ReadFits ==
    ASSUME Typed, FoundTyped, NEW r \in Request, NEW backend,
           Reads(r, backend), Finds(r), sentWhole[r],
           NEW ms, Sound(ms), messages(r)' = ms
    PROVE  Fits(r)' /\ sentWhole'[r]
<1>1. pc'[r] = "begun" /\ sentWhole'[r]
  BY DEF Reads, Typed
<1>2. found'[r] = Askers(ms)
  BY DEF Finds, FoundTyped, messages
<1>3. Fit(r, pc'[r], ms, calls'[r], found'[r])
  BY <1>1, <1>2 DEF Fit, Sound
<1> QED BY <1>1, <1>3 DEF Fits

\* The request works on what it was given.
LEMMA Started ==
    ASSUME Typed, NEW r \in Request, NEW ms, StartWith(r, ms)
    PROVE  messages(r)' = ms
BY Refs DEF Typed, StartWith, messages

\* Every step of a handler leaves the list fit for the next.
LEMMA OnwardFits ==
    ASSUME Typed, FoundTyped, NEW r \in Request, Fits(r), sentWhole[r],
           Handle(r), GivesSound(r)
    PROVE  Fits(r)' /\ sentWhole'[r]
<1> USE DEF who, turn, store, connection
<1>0. messages(r) \in Seq(Message) /\ list[r] \in Ref
  BY MessagesType DEF Typed
<1>1. ASSUME UNCHANGED sentWhole,
             pc'[r] \notin {"begun", "asking", "tools", "saving"}
      PROVE  Fits(r)' /\ sentWhole'[r]
  <2>1. Fit(r, pc'[r], messages(r)', calls'[r], found'[r])
    BY <1>1 DEF Fit
  <2> QED BY <1>1, <2>1 DEF Fits
<1>2. CASE Probe(r) \/ Probed(r) \/ Break(r) \/ SaveRedis(r) \/ SaveFails(r)
           \/ ReplyMemory(r)
  BY <1>1, <1>2 DEF Probe, Probed, Break, SaveRedis, SaveFails, ReplyMemory,
                    Typed
<1>3. CASE ReadRedis(r)
  <2>1. PICK ms : Sound(ms) /\ StartWith(r, ms)
    BY <1>3 DEF ReadRedis, GivesSound, Sound
  <2> QED BY <1>3, <2>1, Started, ReadFits DEF ReadRedis
<1>4. CASE ReadFails(r)
  <2>1. StartWith(r, <<>>) /\ Sound(<<>>)
    BY <1>4 DEF ReadFails, Sound
  <2> QED BY <1>4, <2>1, Started, ReadFits DEF ReadFails
<1>5. CASE ReadMemory(r)
  <2>1. CASE /\ key(r) \in DOMAIN sessions
             /\ list' = [list EXCEPT ![r] = sessions[key(r)].messages]
             /\ UNCHANGED heap
    <3> DEFINE ms == heap[sessions[key(r)].messages]
    <3>1. Sound(ms)
      BY <1>5, <2>1 DEF GivesSound, Sound
    <3>2. messages(r)' = ms
      BY <2>1 DEF messages, Typed
    <3> HIDE DEF ms
    <3> QED BY <1>5, <3>1, <3>2, ReadFits DEF ReadMemory
  <2>2. CASE StartWith(r, <<>>)
    <3>1. Sound(<<>>)
      BY DEF Sound
    <3> QED BY <1>5, <2>2, <3>1, Started, ReadFits DEF ReadMemory
  <2> QED BY <1>5, <2>1, <2>2 DEF ReadMemory
<1>6. ASSUME NEW ms, Extend(r, ms), list' = list PROVE messages(r)' = ms
  BY <1>0, <1>6, ExtendTouches DEF messages
<1>7. ASSUME NEW ms, Send(r, ms), WholeExchanges(ms)
      PROVE  pc'[r] = "asking" /\ sentWhole'[r]
  BY <1>7 DEF Send, Typed
<1>8. CASE Ask(r)
  <2> DEFINE h == messages(r)
             ms == Append(IF h = <<>> THEN <<SystemPrompt>> ELSE h,
                          Question(r))
  <2>1. /\ Extend(r, ms) /\ Send(r, ms) /\ pc[r] = "begun"
        /\ UNCHANGED <<list, calls, found>>
    BY <1>8 DEF Ask
  <2>2. (h = <<>> \/ Resumable(h)) /\ Askers(h) = found[r]
    BY <2>1 DEF Fits, Fit
  <2>3. /\ WholeExchanges(ms) /\ Prompted(ms)
        /\ Askers(ms) = Append(Askers(h), r)
    BY <1>0, <2>2, AskedList
  <2> HIDE DEF ms, h
  <2>4. messages(r)' = ms /\ pc'[r] = "asking" /\ sentWhole'[r]
    BY <1>6, <1>7, <2>1, <2>3
  <2>5. Fit(r, pc'[r], messages(r)', calls'[r], found'[r])
    BY <2>1, <2>2, <2>3, <2>4 DEF Fit
  <2> QED BY <2>4, <2>5 DEF Fits
<1>9. CASE AskAgain(r)
  <2>1. /\ Send(r, messages(r)) /\ pc[r] = "asking"
        /\ UNCHANGED <<list, heap, calls, found>>
    BY <1>9 DEF AskAgain
  <2>2. messages(r)' = messages(r)
    BY <2>1 DEF messages
  <2>3. WholeExchanges(messages(r))
    BY <2>1 DEF Fits, Fit
  <2>4. pc'[r] = pc[r] /\ sentWhole'[r]
    BY <1>7, <2>1, <2>3
  <2> QED BY <2>1, <2>2, <2>4 DEF Fits
<1>10. CASE CallTools(r)
  <2>1. PICK n \in 1..MaxCalls :
           /\ Extend(r, Append(messages(r), ToolCalls(n, FALSE)))
           /\ calls' = [calls EXCEPT ![r] = [j \in 1..n |-> j]]
    BY <1>10 DEF CallTools
  <2> DEFINE ms == Append(messages(r), ToolCalls(n, FALSE))
  <2>2. /\ pc[r] = "asking" /\ pc'[r] = "tools"
        /\ UNCHANGED <<list, found, sentWhole>>
    BY <1>10 DEF CallTools, Typed
  <2>3. /\ WholeExchanges(messages(r)) /\ Prompted(messages(r))
        /\ Askers(messages(r)) = Append(found[r], r)
    BY <2>2 DEF Fits, Fit
  <2>4. n \in Nat /\ 0 < n
    BY Constants
  <2>5. /\ Prompted(ms) /\ Askers(ms) = Askers(messages(r))
        /\ Owing(ms, n, 0)
    BY <1>0, <2>3, <2>4, CalledList
  <2> HIDE DEF ms
  <2>6. messages(r)' = ms
    BY <1>6, <2>1, <2>2 DEF ms
  <2>7. calls'[r] = [j \in 1..(n - 0) |-> 0 + j]
    <3>1. calls'[r] = [j \in 1..n |-> j]
      BY <2>1 DEF Typed
    <3>2. [j \in 1..n |-> j] = [j \in 1..(n - 0) |-> 0 + j]
      BY <2>4
    <3> QED BY <3>1, <3>2
  <2>8. Fit(r, pc'[r], messages(r)', calls'[r], found'[r])
    <3>1. \E m, given \in Nat :
             /\ given < m
             /\ calls'[r] = [j \in 1..(m - given) |-> given + j]
             /\ Owing(ms, m, given)
      BY <2>4, <2>5, <2>7
    <3> QED BY <3>1, <2>2, <2>3, <2>5, <2>6 DEF Fit
  <2> QED BY <2>2, <2>8 DEF Fits
<1>11. CASE GiveResult(r)
  <2>1. /\ pc[r] = "tools" /\ UNCHANGED <<list, found>>
        /\ calls'[r] = Tail(calls[r])
    BY <1>11 DEF GiveResult, Typed
  <2>2. /\ Prompted(messages(r))
        /\ Askers(messages(r)) = Append(found[r], r)
    BY <2>1 DEF Fits, Fit
  <2>3. PICK n \in Nat, given \in Nat :
           /\ given < n
           /\ calls[r] = [j \in 1..(n - given) |-> given + j]
           /\ Owing(messages(r), n, given)
    BY <2>1 DEF Fits, Fit
  <2> DEFINE ms == Append(messages(r), ToolResult(given + 1))
             left == n - given
  <2>4. /\ Len(calls[r]) = left /\ left \in Nat \ {0}
        /\ Head(calls[r]) = given + 1
        /\ Tail(calls[r])
              = [j \in 1..(n - (given + 1)) |-> (given + 1) + j]
    <3> DEFINE c == [j \in 1..left |-> given + j]
    <3>1. left \in Nat \ {0} /\ n - (given + 1) = left - 1
      BY <2>3
    <3>2. c \in Seq(Nat) /\ Len(c) = left /\ c # <<>>
      <4> HIDE DEF left
      <4>1. c \in [1..left -> Nat]
        OBVIOUS
      <4> QED BY <3>1, <4>1
    <3>3. Head(c) = given + 1
      <4> HIDE DEF left
      <4>1. Head(c) = c[1]
        BY <3>2
      <4> QED BY <3>1, <4>1
    <3>4. Tail(c) = [j \in 1..(left - 1) |-> (given + 1) + j]
      <4> HIDE DEF left
      <4> DEFINE t == Tail(c)
                 e == [j \in 1..(left - 1) |-> (given + 1) + j]
                 l == left - 1
      <4>1. \A j \in 1..(left - 1) : c[j + 1] = (given + 1) + j
        BY <3>1
      <4>2. l \in Nat
        BY <3>1
      <4>3. e \in Seq(Nat) /\ Len(e) = l
            /\ \A j \in 1..l : e[j] = (given + 1) + j
        <5> HIDE DEF l
        <5>1. [j \in 1..l |-> (given + 1) + j] \in [1..l -> Nat]
          OBVIOUS
        <5>2. /\ [j \in 1..l |-> (given + 1) + j] \in Seq(Nat)
              /\ Len([j \in 1..l |-> (given + 1) + j]) = l
          BY <4>2, <5>1
        <5> QED BY <5>2 DEF l
      <4> HIDE DEF e, c
      <4>4. /\ t \in Seq(Nat) /\ Len(t) = Len(c) - 1
            /\ \A j \in 1..Len(t) : t[j] = c[j + 1]
        BY <3>2, HeadTailProperties
      <4> HIDE DEF t
      <4>5. Len(t) = Len(e) /\ \A j \in 1..Len(t) : t[j] = e[j]
        BY <3>2, <4>1, <4>3, <4>4 DEF l
      <4>6. t = e
        BY <4>3, <4>4, <4>5, SeqEqual
      <4> QED BY <4>6 DEF t, e
    <3>5. calls[r] = c
      BY <2>3
    <3> HIDE DEF c
    <3> QED BY <3>1, <3>2, <3>3, <3>4, <3>5
  <2>5. Extend(r, ms)
    BY <1>11, <2>4 DEF GiveResult
  <2>6. messages(r)' = ms
    BY <1>6, <2>1, <2>5
  <2>7. /\ Prompted(ms) /\ Askers(ms) = Askers(messages(r))
        /\ Owing(ms, n, given + 1)
        /\ given + 1 = n => WholeExchanges(ms)
    BY <1>0, <2>2, <2>3, AnsweredList
  <2>8. \/ Len(calls[r]) = 1 /\ Send(r, ms)
        \/ Len(calls[r]) > 1 /\ UNCHANGED <<pc, sentWhole>>
    BY <1>11, <2>4 DEF GiveResult
  <2> HIDE DEF ms
  <2>9. CASE left = 1 /\ Send(r, ms)
    <3>1. given + 1 = n
      BY <2>3, <2>9
    <3>2. pc'[r] = "asking" /\ sentWhole'[r]
      BY <1>7, <2>7, <2>9, <3>1
    <3>3. Fit(r, pc'[r], messages(r)', calls'[r], found'[r])
      BY <2>1, <2>2, <2>6, <2>7, <3>1, <3>2 DEF Fit
    <3> QED BY <3>2, <3>3 DEF Fits
  <2>10. CASE left > 1 /\ UNCHANGED <<pc, sentWhole>>
    <3>1. given + 1 < n /\ given + 1 \in Nat
      BY <2>3, <2>10
    <3>2. \E m, g \in Nat :
             /\ g < m
             /\ calls'[r] = [j \in 1..(m - g) |-> g + j]
             /\ Owing(ms, m, g)
      <4> DEFINE g == given + 1
      <4>1. /\ g \in Nat /\ g < n
            /\ calls'[r] = [j \in 1..(n - g) |-> g + j]
            /\ Owing(ms, n, g)
        BY <2>1, <2>4, <2>7, <3>1
      <4> HIDE DEF g
      <4> QED BY <4>1
    <3>3. Fit(r, pc'[r], messages(r)', calls'[r], found'[r])
      BY <2>1, <2>2, <2>6, <2>7, <2>10, <3>2 DEF Fit
    <3> QED BY <2>10, <3>3 DEF Fits
  <2> QED BY <2>4, <2>8, <2>9, <2>10
<1>12. CASE ReplyRedis(r)
  <2> DEFINE ms == Append(messages(r), Answer)
  <2>1. /\ pc[r] = "asking" /\ pc'[r] = "saving"
        /\ Extend(r, ms)
        /\ UNCHANGED <<list, found, sentWhole>>
    BY <1>12 DEF ReplyRedis, Close, Typed
  <2>2. /\ WholeExchanges(messages(r)) /\ Prompted(messages(r))
        /\ Askers(messages(r)) = Append(found[r], r)
    BY <2>1 DEF Fits, Fit
  <2>3. Resumable(ms) /\ Askers(ms) = Askers(messages(r))
    BY <1>0, <2>2, ClosedList
  <2>4. messages(r)' = ms
    BY <1>6, <2>1
  <2> HIDE DEF ms
  <2>5. Fit(r, pc'[r], messages(r)', calls'[r], found'[r])
    BY <2>1, <2>2, <2>3, <2>4 DEF Fit, Resumable
  <2> QED BY <2>1, <2>5 DEF Fits
<1> QED BY <1>2, <1>3, <1>4, <1>5, <1>8, <1>9, <1>10, <1>11, <1>12 DEF Handle

-----------------------------------------------------------------------------
(***************************************************************************)
(* The stores.                                                             *)
(***************************************************************************)
\* A request works on the list that the dict has for k.
Held(k) ==
    \E r \in Request :
        pc[r] \in InTurn /\ key(r) = k /\ list[r] = sessions[k].messages

\* The questions of ms are the last ones stored under k.
Follows(ms, k) ==
    Orderly => Askers(ms) = LastOf(thread[k], MaxTurns)

KeptInRedis(k) ==
    /\ Resumable(redis[k].messages) /\ Short(redis[k].messages)
    /\ Follows(redis[k].messages, k)

(* Untrimmed only where a request that began on the dict has answered once *)
(* the ping had found a Redis.                                             *)
KeptInDict(k) ==
    LET ms == heap[sessions[k].messages]
    IN  Resumable(ms) /\ (Url # "redis" => Short(ms)) /\ Follows(ms, k)

RedisKept == \A k \in DOMAIN redis : KeptInRedis(k)
DictKept == \A k \in DOMAIN sessions : Held(k) \/ KeptInDict(k)

\* A request found the questions that were stored last.
TurnsFollow ==
    \A r \in Request : pc[r] \in InTurn /\ Orderly =>
        LastOf(found[r], MaxTurns) = LastOf(thread[key(r)], MaxTurns)

StoreInv == RedisKept /\ DictKept /\ TurnsFollow

\* A handler touches no other session in the stores.
LEMMA StoresTouched ==
    ASSUME Typed, NEW r \in Request, Handle(r), NEW k \in Keys, k # key(r)
    PROVE  /\ thread'[k] = thread[k]
           /\ k \in DOMAIN redis' => k \in DOMAIN redis /\ redis'[k] = redis[k]
           /\ k \in DOMAIN sessions' =>
                 k \in DOMAIN sessions /\ sessions'[k] = sessions[k]
<1> USE DEF who, turn, store, connection
<1>1. CASE Probe(r) \/ Probed(r) \/ ReadFails(r) \/ Ask(r) \/ AskAgain(r)
           \/ CallTools(r) \/ GiveResult(r) \/ Break(r) \/ ReplyRedis(r)
           \/ SaveFails(r)
  BY <1>1 DEF Probe, Probed, ReadFails, Ask, AskAgain, CallTools, GiveResult,
              Break, ReplyRedis, SaveFails
<1>2. CASE ReadRedis(r)
  BY <1>2 DEF ReadRedis, NewThread, Typed
<1>3. CASE ReadMemory(r)
  <2>1. UNCHANGED redis /\ (UNCHANGED thread \/ NewThread(r))
        /\ (sessions' = sessions \/ sessions' = Without(sessions, {key(r)}))
    BY <1>3 DEF ReadMemory
  <2> QED BY <2>1 DEF NewThread, Typed, Without
<1>4. CASE SaveRedis(r)
  <2>1. thread'[k] = thread[k] /\ UNCHANGED sessions
    BY <1>4 DEF SaveRedis, Typed
  <2>2. k \in DOMAIN redis' => k \in DOMAIN redis /\ redis'[k] = redis[k]
    BY <1>4 DEF SaveRedis, With
  <2> QED BY <2>1, <2>2
<1>5. CASE ReplyMemory(r)
  <2> DEFINE all == With(sessions, key(r),
                         [messages |-> Saved(r), last_active |-> now])
  <2>1. thread'[k] = thread[k] /\ UNCHANGED redis /\ sessions' = Purged(all)
    BY <1>5 DEF ReplyMemory, Typed
  <2>2. k \in DOMAIN all => k \in DOMAIN sessions /\ all[k] = sessions[k]
    BY DEF With
  <2> HIDE DEF all
  <2>3. k \in DOMAIN sessions' => k \in DOMAIN all /\ sessions'[k] = all[k]
    BY <2>1, PurgedEntries
  <2> QED BY <2>1, <2>2, <2>3
<1> QED BY <1>1, <1>2, <1>3, <1>4, <1>5 DEF Handle

(* Where a read from the dict is served, nobody is at work on the list.    *)
LEMMA NobodyHolds ==
    ASSUME Typed, Apart, Owned, Backends, Unshared,
           NEW r \in Request, ReadMemory(r)
    PROVE  ~Held(key(r))
<1>1. env.overlap # "within"
  BY MemoryOnly DEF Unshared
<1>2. pc[r] \notin InTurn /\ (pc[r] \in InProgress \/ Arrives(r))
  BY DEF ReadMemory, Reads, Arrives, InTurn, InProgress
<1>3. ASSUME NEW q \in Request, pc[q] \in InTurn, key(q) = key(r)
      PROVE  FALSE
  <2>1. q # r /\ pc[q] \in InProgress
    BY <1>2, <1>3 DEF InProgress
  <2> QED BY <1>1, <1>2, <1>3, <2>1, Alone
<1> QED BY <1>3 DEF Held

\* What the stores give can be resumed.
LEMMA SoundIsGiven ==
    ASSUME Typed, Apart, Owned, Backends, Unshared, StoreInv,
           NEW r \in Request
    PROVE  GivesSound(r)
<1>1. ReadMemory(r) => ~Held(key(r))
  BY NobodyHolds
<1> QED BY <1>1 DEF GivesSound, StoreInv, RedisKept, DictKept, KeptInRedis,
                    KeptInDict

\* Every request's list stays fit for where its handler is.
LEMMA NextWork ==
    ASSUME Typed, FoundTyped, Apart, Owned, Backends, Unshared, StoreInv,
           WorkInv, [Next]_vars
    PROVE  WorkInv'
<1>1. ASSUME NEW r \in Request, Handle(r) PROVE WorkInv'
  <2>1. Fits(r)' /\ sentWhole'[r]
    BY <1>1, SoundIsGiven, OnwardFits DEF WorkInv
  <2>2. ASSUME NEW q \in Request, q # r PROVE Fits(q)' /\ sentWhole'[q]
    <3>1. /\ pc'[q] = pc[q] /\ calls'[q] = calls[q]
          /\ found'[q] = found[q] /\ sentWhole'[q] = sentWhole[q]
          /\ pc[q] \in InProgress => messages(q)' = messages(q)
      BY <1>1, <2>2, OthersKeep
    <3>2. Fits(q) /\ sentWhole[q]
      BY DEF WorkInv
    <3>3. CASE pc[q] \in InProgress
      BY <3>1, <3>2, <3>3 DEF Fits
    <3>4. CASE pc[q] \notin InProgress
      <4>1. Fit(q, pc'[q], messages(q)', calls'[q], found'[q])
        BY <3>1, <3>4 DEF Fit, InProgress, InTurn
      <4> QED BY <3>1, <3>2, <4>1 DEF Fits
    <3> QED BY <3>3, <3>4
  <2> QED BY <2>1, <2>2 DEF WorkInv
<1>2. CASE UNCHANGED <<pc, calls, found, list, heap, sentWhole>>
  <2>1. \A r \in Request : messages(r)' = messages(r)
    BY <1>2 DEF messages
  <2> QED BY <1>2, <2>1 DEF WorkInv, Fits
<1>3. CASE Restart
  <2>1. ASSUME NEW r \in Request
        PROVE  pc'[r] \notin InProgress /\ sentWhole'[r] = sentWhole[r]
    BY <1>3 DEF Restart, turn, InProgress, InTurn
  <2>2. ASSUME NEW r \in Request PROVE Fits(r)'
    <3>1. Fit(r, pc'[r], messages(r)', calls'[r], found'[r])
      BY <2>1 DEF Fit, InProgress, InTurn
    <3> QED BY <3>1 DEF Fits
  <2> QED BY <2>1, <2>2 DEF WorkInv
<1> QED BY <1>1, <1>2, <1>3 DEF Next, Clear, Tick, vars, who, turn

(* Redis is only served from Redis.                                        *)
LEMMA FromRedis ==
    ASSUME Backends, Orderly, NEW r \in Request,
           client = "redis" \/ pc[r] = "saving"
    PROVE  AlwaysRedis
<1>1. Url = "redis"
  BY DEF Backends, DictOnly
<1> QED BY <1>1 DEF Orderly

\* Requests are numbers.
LEMMA RequestsAreNumbers ==
    ASSUME NEW s \in Seq(Request)
    PROVE  s \in Seq(Nat)
<1>1. /\ Len(s) \in Nat /\ s = [i \in 1..Len(s) |-> s[i]]
      /\ \A i \in 1..Len(s) : s[i] \in Request
  <2> DEFINE R == Request
  <2>1. s \in Seq(R)
    OBVIOUS
  <2> HIDE DEF R
  <2>2. /\ Len(s) \in Nat /\ s = [i \in 1..Len(s) |-> s[i]]
        /\ \A i \in 1..Len(s) : s[i] \in R
    BY <2>1
  <2> QED BY <2>2 DEF R
<1>2. \A i \in 1..Len(s) : s[i] \in Nat
  BY <1>1, Constants
<1> DEFINE n == Len(s)
<1> HIDE DEF n
<1>3. n \in Nat /\ s \in [1..n -> Nat]
  BY <1>1, <1>2 DEF n
<1> QED BY <1>3

(* What has been found is what was stored last.                            *)
LEMMA BeginFollows ==
    ASSUME Typed, FoundTyped, NEW r \in Request, Finds(r),
           NEW ms, messages(r)' = ms,
           \/ ms = <<>> /\ thread'[key(r)] = <<>>
           \/ /\ Askers(ms) = LastOf(thread[key(r)], MaxTurns)
              /\ thread' = thread
    PROVE  LastOf(found'[r], MaxTurns) = LastOf(thread'[key(r)], MaxTurns)
<1>1. found'[r] = Askers(ms)
  BY DEF Finds, FoundTyped, messages
<1>2. CASE ms = <<>> /\ thread'[key(r)] = <<>>
  BY <1>1, <1>2, NobodyAsked
<1>3. CASE /\ Askers(ms) = LastOf(thread[key(r)], MaxTurns)
           /\ thread' = thread
  <2> DEFINE t == thread[key(r)]
  <2>1. t \in Seq(Nat)
    <3>1. t \in Seq(Request)
      BY KeyType DEF Typed
    <3> QED BY <3>1, RequestsAreNumbers
  <2> HIDE DEF t
  <2>2. LastOf(LastOf(t, MaxTurns), MaxTurns) = LastOf(t, MaxTurns)
    BY <2>1, LastOfAgain, Constants
  <2> QED BY <1>1, <1>3, <2>2 DEF t
<1> QED BY <1>2, <1>3

(* In an orderly world the dict is only used where there is no Redis.      *)
LEMMA MemoryMeansNoRedis ==
    ASSUME Apart, Backends, Orderly, NEW r \in Request,
           ReplyMemory(r) \/ ReadMemory(r)
    PROVE  DOMAIN redis = {}
<1>1. Url # "redis"
  BY MemoryOnly DEF Orderly
<1> QED BY <1>1 DEF Backends, DictOnly

\* A conversation begun anew has no questions.
LEMMA NewThreadIsEmpty ==
    ASSUME Typed, NEW r \in Request, NewThread(r)
    PROVE  thread'[key(r)] = <<>>
BY KeyType DEF NewThread, Typed

\* A request that has begun goes on with the questions last asked.
LEMMA TurnsGoOn ==
    ASSUME Typed, FoundTyped, Apart, Owned, Backends, Unshared, StoreInv,
           [Next]_vars, NEW r \in Request, Handle(r)
    PROVE  TurnsFollow'
<1> USE DEF who, turn, store, connection
<1>0. /\ UNCHANGED <<env, user, session>>
      /\ Orderly' <=> Orderly
      /\ \A q \in Request : key(q)' = key(q)
  BY Surroundings, SameCalm
<1>1. ASSUME NEW q \in Request, q # r, pc'[q] \in InTurn, Orderly
      PROVE  LastOf(found'[q], MaxTurns) = LastOf(thread'[key(q)], MaxTurns)
  <2>1. pc'[q] = pc[q] /\ found'[q] = found[q]
    BY <1>1, OthersKeep
  <2>2. pc[q] \in InProgress
    BY <1>1, <2>1 DEF InProgress
  <2>3. key(q) # key(r)
    BY <1>1, <2>2, Handles, Alone DEF Orderly
  <2>4. thread'[key(q)] = thread[key(q)]
    BY <2>3, KeyType, StoresTouched
  <2> QED BY <1>1, <2>1, <2>4 DEF StoreInv, TurnsFollow
<1>2. ASSUME pc'[r] \in InTurn, Orderly
      PROVE  LastOf(found'[r], MaxTurns) = LastOf(thread'[key(r)], MaxTurns)
  <2>1. CASE pc[r] \in InTurn /\ UNCHANGED <<found, thread>>
    BY <1>2, <2>1 DEF StoreInv, TurnsFollow
  <2>2. CASE Ask(r) \/ AskAgain(r) \/ CallTools(r) \/ GiveResult(r)
             \/ ReplyRedis(r)
    <3>1. pc[r] \in InTurn /\ UNCHANGED <<found, thread>>
      BY <2>2 DEF Ask, AskAgain, CallTools, GiveResult, ReplyRedis, InTurn
    <3> QED BY <2>1, <3>1
  <2>3. CASE Probe(r) \/ Probed(r) \/ Break(r) \/ SaveRedis(r) \/ SaveFails(r)
             \/ ReplyMemory(r)
    <3>1. pc'[r] \notin InTurn
      BY <2>3 DEF Probe, Probed, Break, SaveRedis, SaveFails, ReplyMemory,
                  InTurn, Typed
    <3> QED BY <1>2, <3>1
  <2>4. CASE ReadRedis(r)
    <3>1. Finds(r)
      BY <2>4 DEF ReadRedis
    <3>2. CASE /\ key(r) \in DOMAIN redis
               /\ StartWith(r, redis[key(r)].messages)
               /\ UNCHANGED thread
      <4> DEFINE ms == redis[key(r)].messages
      <4>1. Askers(ms) = LastOf(thread[key(r)], MaxTurns)
        BY <1>2, <3>2 DEF StoreInv, RedisKept, KeptInRedis, Follows
      <4>2. messages(r)' = ms
        BY <3>2, Started
      <4> HIDE DEF ms
      <4> QED BY <3>1, <3>2, <4>1, <4>2, BeginFollows
    <3>3. CASE StartWith(r, <<>>) /\ NewThread(r)
      <4>1. messages(r)' = <<>>
        BY <3>3, Started
      <4> QED BY <3>1, <3>3, <4>1, NewThreadIsEmpty, BeginFollows
    <3> QED BY <2>4, <3>2, <3>3 DEF ReadRedis
  <2>5. CASE ReadFails(r)
    BY <1>2, <2>5 DEF ReadFails, Orderly
  <2>6. CASE ReadMemory(r)
    <3>1. Finds(r) /\ DOMAIN redis = {}
      BY <1>2, <2>6, MemoryMeansNoRedis DEF ReadMemory
    <3>2. CASE /\ key(r) \in DOMAIN sessions
               /\ list' = [list EXCEPT ![r] = sessions[key(r)].messages]
               /\ UNCHANGED <<heap, sessions, thread>>
      <4> DEFINE ms == heap[sessions[key(r)].messages]
      <4>1. Askers(ms) = LastOf(thread[key(r)], MaxTurns)
        <5>1. KeptInDict(key(r))
          BY <2>6, <3>2, NobodyHolds DEF StoreInv, DictKept
        <5> QED BY <1>2, <5>1 DEF KeptInDict, Follows
      <4>2. messages(r)' = ms
        BY <3>2 DEF messages, Typed
      <4> HIDE DEF ms
      <4> QED BY <3>1, <3>2, <4>1, <4>2, BeginFollows
    <3>3. CASE StartWith(r, <<>>) /\ NewThread(r)
      <4>1. messages(r)' = <<>>
        BY <3>3, Started
      <4> QED BY <3>1, <3>3, <4>1, NewThreadIsEmpty, BeginFollows
    <3> QED BY <2>6, <3>1, <3>2, <3>3 DEF ReadMemory
  <2> QED BY <2>2, <2>3, <2>4, <2>5, <2>6 DEF Handle
<1> QED BY <1>0, <1>1, <1>2 DEF TurnsFollow

(* What is saved is the last turns of what was found and the request's own.*)
LEMMA SavedList ==
    ASSUME Typed, FoundTyped, NEW r \in Request,
           NEW ms \in Seq(Message), Resumable(ms),
           Askers(ms) = Append(found[r], r),
           TurnsFollow, pc[r] \in InTurn,
           NEW kept, kept = RecentTurns(ms, MaxTurns)
    PROVE  /\ Resumable(kept) /\ Short(kept)
           /\ Askers(kept) = LastOf(Append(found[r], r), MaxTurns)
           /\ Orderly => Askers(kept) =
                 LastOf(Append(thread[key(r)], r), MaxTurns)
<1>1. /\ Resumable(kept) /\ Short(kept)
      /\ Askers(kept) = LastOf(Append(found[r], r), MaxTurns)
  BY TrimmedList
<1>2. ASSUME Orderly
      PROVE  LastOf(Append(found[r], r), MaxTurns)
                = LastOf(Append(thread[key(r)], r), MaxTurns)
  <2> DEFINE f == found[r]
             t == thread[key(r)]
  <2>1. f \in Seq(Request) /\ t \in Seq(Request)
    BY KeyType DEF Typed, FoundTyped
  <2>2. LastOf(f, MaxTurns) = LastOf(t, MaxTurns)
    BY <1>2 DEF TurnsFollow
  <2> HIDE DEF f, t
  <2>3. f \in Seq(Nat) /\ t \in Seq(Nat) /\ r \in Nat
    BY <2>1, RequestsAreNumbers, Constants
  <2>4. LastOf(Append(f, r), MaxTurns) = LastOf(Append(t, r), MaxTurns)
    BY <2>2, <2>3, LastOfAppend, Constants
  <2> QED BY <2>4 DEF f, t
<1> QED BY <1>1, <1>2

\* What a request is about to save in Redis.
LEMMA SavingList ==
    ASSUME Typed, WorkInv, NEW r \in Request, pc[r] = "saving"
    PROVE  /\ messages(r) \in Seq(Message) /\ Resumable(messages(r))
           /\ Askers(messages(r)) = Append(found[r], r)
BY MessagesType DEF WorkInv, Fits, Fit, Resumable

\* What a request is about to save, its answer included.
LEMMA ClosingList ==
    ASSUME Typed, WorkInv, NEW r \in Request, pc[r] = "asking"
    PROVE  /\ Close(r) \in Seq(Message) /\ Resumable(Close(r))
           /\ Askers(Close(r)) = Append(found[r], r)
<1>1. /\ messages(r) \in Seq(Message)
      /\ WholeExchanges(messages(r)) /\ Prompted(messages(r))
      /\ Askers(messages(r)) = Append(found[r], r)
  BY MessagesType DEF WorkInv, Fits, Fit
<1> QED BY <1>1, ClosedList DEF Close

\* A step leaves what Redis has resumable, short and up to date.
LEMMA RedisStaysKept ==
    ASSUME Typed, FoundTyped, Apart, Owned, Backends, Unshared, StoreInv,
           WorkInv, [Next]_vars, NEW r \in Request, Handle(r)
    PROVE  RedisKept'
<1> USE DEF who, turn, store, connection
<1>0. /\ Orderly' <=> Orderly
      /\ \A q \in Request : key(q)' = key(q)
  BY Surroundings, SameCalm
<1>1. ASSUME NEW k \in DOMAIN redis', k \in DOMAIN redis, redis'[k] = redis[k],
             Orderly => thread'[k] = thread[k]
      PROVE  KeptInRedis(k)'
  <2>1. KeptInRedis(k)
    BY <1>1 DEF StoreInv, RedisKept
  <2> QED BY <1>0, <1>1, <2>1 DEF KeptInRedis, Follows, Resumable, Short
<1>2. ASSUME NEW k \in DOMAIN redis', k # key(r)
      PROVE  KeptInRedis(k)'
  <2>1. k \in Keys
    <3>1. Typed'
      BY NextTyped
    <3> QED BY <3>1 DEF Typed
  <2> QED BY <1>1, <1>2, <2>1, StoresTouched
<1>3. ASSUME NEW k \in DOMAIN redis', k = key(r)
      PROVE  KeptInRedis(k)'
  <2>1. ASSUME UNCHANGED redis, Orderly => thread'[k] = thread[k]
        PROVE  KeptInRedis(k)'
    BY <1>1, <1>3, <2>1
  <2>2. CASE Probe(r) \/ Probed(r) \/ ReadFails(r) \/ Ask(r) \/ AskAgain(r)
             \/ CallTools(r) \/ GiveResult(r) \/ Break(r) \/ ReplyRedis(r)
             \/ SaveFails(r)
    <3>1. UNCHANGED <<redis, thread>>
      BY <2>2 DEF Probe, Probed, ReadFails, Ask, AskAgain, CallTools,
                  GiveResult, Break, ReplyRedis, SaveFails
    <3> QED BY <2>1, <3>1
  <2>3. CASE ReadRedis(r)
    BY <1>3, <2>1, <2>3 DEF ReadRedis
  <2>4. CASE ReadMemory(r) \/ ReplyMemory(r)
    <3>1. UNCHANGED redis
      BY <2>4 DEF ReadMemory, ReplyMemory
    <3>2. ~Orderly
      BY <1>3, <2>4, <3>1, MemoryMeansNoRedis
    <3> QED BY <2>1, <3>1, <3>2
  <2>5. CASE SaveRedis(r)
    <3> DEFINE ms == messages(r)
               kept == RecentTurns(ms, MaxTurns)
    <3>1. pc[r] = "saving" /\ thread' = [thread EXCEPT ![k] = Append(@, r)]
      BY <1>3, <2>5 DEF SaveRedis
    <3>2. redis'[k].messages = kept
      BY <1>3, <2>5 DEF SaveRedis, With
    <3>3. thread'[k] = Append(thread[k], r)
      BY <1>3, <3>1, KeyType DEF Typed
    <3>4. /\ ms \in Seq(Message) /\ Resumable(ms)
          /\ Askers(ms) = Append(found[r], r)
      BY <3>1, SavingList
    <3>5. pc[r] \in InTurn /\ TurnsFollow
      BY <3>1 DEF InTurn, StoreInv
    <3> HIDE DEF ms
    <3>6. /\ Resumable(kept) /\ Short(kept)
          /\ Orderly => Askers(kept) = LastOf(Append(thread[k], r), MaxTurns)
      BY <1>3, <3>4, <3>5, SavedList
    <3> HIDE DEF kept
    <3> QED BY <1>0, <3>2, <3>3, <3>6
            DEF KeptInRedis, Follows, Resumable, Short
  <2> QED BY <2>2, <2>3, <2>4, <2>5 DEF Handle
<1>4. ASSUME NEW k \in DOMAIN redis' PROVE KeptInRedis(k)'
  BY <1>2, <1>3
<1> QED BY <1>4 DEF RedisKept

\* So it does with what the dict has.
LEMMA DictStaysKept ==
    ASSUME Typed, FoundTyped, Apart, Owned, Backends, Unshared, StoreInv,
           WorkInv, [Next]_vars, NEW r \in Request, Handle(r)
    PROVE  DictKept'
<1> USE DEF who, turn, store, connection
<1>0. /\ (Orderly' <=> Orderly) /\ (AlwaysRedis' <=> AlwaysRedis)
      /\ \A q \in Request : key(q)' = key(q)
  BY Surroundings, SameCalm
<1>1. CASE AlwaysRedis
  <2>1. Backends'
    BY NextBackends
  <2>2. DOMAIN sessions' = {}
    BY <1>0, <1>1, <2>1 DEF Backends, RedisOnly
  <2> QED BY <2>2 DEF DictKept
<1>2. ASSUME NEW k \in DOMAIN sessions', sessions'[k] = sessions[k],
             NEW q \in Request, q # r,
             pc[q] \in InTurn, key(q) = k, list[q] = sessions[k].messages
      PROVE  Held(k)'
  <2>1. pc'[q] = pc[q] /\ list'[q] = list[q]
    BY <1>2, OthersKeep
  <2> QED BY <1>0, <1>2, <2>1 DEF Held, InTurn
<1>3. ASSUME NEW k \in DOMAIN sessions', sessions'[k] = sessions[k],
             k \in DOMAIN sessions, KeptInDict(k),
             heap'[sessions[k].messages] = heap[sessions[k].messages],
             Orderly => thread'[k] = thread[k]
      PROVE  KeptInDict(k)'
  BY <1>0, <1>3 DEF KeptInDict, Follows, Resumable, Short
<1>4. ASSUME NEW k \in DOMAIN sessions, k \in Keys
      PROVE  /\ sessions[k].messages \in Ref
             /\ \E x \in Mates(k) : sessions[k].messages = Saved(x)
  BY DEF Owned, DictOwned, Typed
<1>5. Touches(r)
  BY HandlerTouches
<1>6. \A k \in DOMAIN sessions' : k \in Keys
  <2>1. Typed'
    BY NextTyped
  <2> QED BY <2>1 DEF Typed
<1>7. ASSUME ~AlwaysRedis, NEW k \in DOMAIN sessions', k # key(r)
      PROVE  Held(k)' \/ KeptInDict(k)'
  <2>1. /\ k \in DOMAIN sessions /\ sessions'[k] = sessions[k]
        /\ thread'[k] = thread[k]
    BY <1>6, <1>7, StoresTouched
  <2>2. CASE Held(k)
    BY <1>2, <1>7, <2>1, <2>2 DEF Held
  <2>3. CASE KeptInDict(k)
    <3> DEFINE l == sessions[k].messages
    <3>1. l \in Ref /\ \E x \in Mates(k) : l = Saved(x)
      BY <1>4, <1>6, <2>1
    <3>2. list[r] = Own(r) \/ \E x \in Mates(key(r)) : list[r] = Saved(x)
      BY DEF Owned, ListsOwned
    <3>3. l # Own(r) /\ l # list[r] /\ l # Saved(r)
      BY <1>7, <3>1, <3>2, RefsDiffer DEF Mates
    <3>4. heap'[l] = heap[l]
      BY <1>5, <3>1, <3>3 DEF Touches
    <3> QED BY <1>3, <2>1, <2>3, <3>4
  <2> QED BY <2>1, <2>2, <2>3 DEF StoreInv, DictKept
<1>8. ASSUME ~AlwaysRedis, NEW k \in DOMAIN sessions', k = key(r)
      PROVE  Held(k)' \/ KeptInDict(k)'
  <2>1. ASSUME UNCHANGED <<sessions, thread, list>>, pc'[r] \in InTurn,
               \A l \in Ref : heap'[l] = heap[l] \/ l = list[r]
        PROVE  Held(k)' \/ KeptInDict(k)'
    <3> DEFINE l == sessions[k].messages
    <3>1. k \in DOMAIN sessions /\ sessions'[k] = sessions[k] /\ l \in Ref
      BY <1>4, <1>6, <2>1
    <3>2. CASE l = list[r]
      BY <1>0, <1>8, <2>1, <3>2 DEF Held, InTurn
    <3>3. CASE l # list[r] /\ Held(k)
      BY <1>2, <3>1, <3>3 DEF Held
    <3>4. CASE l # list[r] /\ KeptInDict(k)
      BY <1>3, <2>1, <3>1, <3>4
    <3> QED BY <3>1, <3>2, <3>3, <3>4 DEF StoreInv, DictKept
  <2>2. CASE Ask(r) \/ AskAgain(r) \/ CallTools(r) \/ GiveResult(r)
             \/ ReplyRedis(r)
    <3>1. UNCHANGED <<sessions, thread, list>> /\ pc'[r] \in InTurn
      BY <2>2 DEF Ask, AskAgain, CallTools, GiveResult, ReplyRedis, Send,
                  InTurn, Typed
    <3>2. UNCHANGED heap \/ \E ms : Extend(r, ms)
      BY <2>2 DEF Ask, AskAgain, CallTools, GiveResult, ReplyRedis
    <3>3. \A l \in Ref : heap'[l] = heap[l] \/ l = list[r]
      BY <3>2, ExtendTouches
    <3> QED BY <2>1, <3>1, <3>3
  <2>3. ASSUME k \in DOMAIN sessions, sessions'[k] = sessions[k],
               pc[r] \notin InTurn,
               \A l \in Ref : heap'[l] = heap[l] \/ l = Own(r),
               Orderly => thread'[k] = thread[k]
        PROVE  Held(k)' \/ KeptInDict(k)'
    <3> DEFINE l == sessions[k].messages
    <3>1. l \in Ref /\ l # Own(r)
      BY <1>4, <1>6, <2>3, RefsDiffer DEF Mates
    <3>2. CASE Held(k)
      BY <1>2, <2>3, <3>2 DEF Held
    <3>3. CASE KeptInDict(k)
      BY <1>3, <2>3, <3>1, <3>3
    <3> QED BY <2>3, <3>2, <3>3 DEF StoreInv, DictKept
  <2>4. CASE Probe(r) \/ Probed(r)
    <3>1. UNCHANGED <<sessions, thread, heap>> /\ pc[r] \notin InTurn
      BY <2>4 DEF Probe, Probed, Arrives, InTurn
    <3> QED BY <2>3, <3>1
  <2>5. ASSUME NEW backend, Reads(r, backend)
        PROVE  pc[r] \notin InTurn /\ client = backend
    BY <2>5 DEF Reads, Arrives, InTurn
  <2>6. ASSUME NEW ms, StartWith(r, ms)
        PROVE  \A l \in Ref : heap'[l] = heap[l] \/ l = Own(r)
    BY <2>6 DEF StartWith, Typed
  <2>7. CASE ReadRedis(r) \/ ReadFails(r)
    <3>1. UNCHANGED sessions /\ \E ms : StartWith(r, ms)
      BY <2>7 DEF ReadRedis, ReadFails
    <3>2. pc[r] \notin InTurn /\ client = "redis"
      BY <2>5, <2>7 DEF ReadRedis, ReadFails
    <3>3. ~Orderly
      BY <1>8, <3>2, FromRedis
    <3> QED BY <2>3, <2>6, <3>1, <3>2, <3>3
  <2>8. CASE ReadMemory(r)
    <3>1. pc[r] \notin InTurn
      BY <2>5, <2>8 DEF ReadMemory
    <3>2. CASE k \in DOMAIN sessions /\ UNCHANGED <<heap, sessions, thread>>
      BY <2>3, <3>1, <3>2
    <3>3. CASE sessions' = Without(sessions, {k})
      <4>1. k \notin DOMAIN sessions'
        BY <3>3 DEF Without
      <4> QED BY <4>1
    <3>4. CASE k \notin DOMAIN sessions /\ UNCHANGED sessions
      BY <3>4
    <3> QED BY <1>8, <2>8, <3>2, <3>3, <3>4 DEF ReadMemory
  <2>9. CASE Break(r)
    BY <1>8, <2>9 DEF Break, Unshared
  <2>10. CASE SaveRedis(r) \/ SaveFails(r)
    <3> DEFINE l == sessions[k].messages
    <3>1. pc[r] = "saving" /\ UNCHANGED <<sessions, heap>>
      BY <2>10 DEF SaveRedis, SaveFails
    <3>2. ~Orderly /\ Url = "redis"
      BY <1>8, <3>1, FromRedis DEF Backends, DictOnly
    <3>3. CASE l = list[r]
      <4>1. Resumable(messages(r))
        BY <3>1, SavingList
      <4>2. heap'[sessions'[k].messages] = messages(r)
        BY <3>1, <3>3 DEF messages
      <4>3. KeptInDict(k)'
        BY <1>0, <3>2, <4>1, <4>2 DEF KeptInDict, Follows, Resumable
      <4> QED BY <4>3
    <3>4. CASE l # list[r] /\ Held(k)
      BY <1>2, <3>1, <3>4 DEF Held
    <3>5. CASE KeptInDict(k)
      BY <1>3, <3>1, <3>2, <3>5
    <3> QED BY <3>1, <3>3, <3>4, <3>5 DEF StoreInv, DictKept
  <2>11. CASE ReplyMemory(r)
    <3> DEFINE e == [messages |-> Saved(r), last_active |-> now]
               all == With(sessions, key(r), e)
               kept == RecentTurns(Close(r), MaxTurns)
    <3>1. /\ pc[r] = "asking"
          /\ heap' = [heap EXCEPT ![list[r]] = Close(r), ![Saved(r)] = kept]
          /\ sessions' = Purged(all)
          /\ thread' = [thread EXCEPT ![k] = Append(@, r)]
      BY <1>8, <2>11 DEF ReplyMemory
    <3>2. sessions'[k].messages = Saved(r)
      <4>1. all[k] = e /\ e.messages = Saved(r)
        BY <1>8 DEF With
      <4> HIDE DEF all, e
      <4>2. sessions'[k] = all[k]
        BY <3>1, PurgedEntries
      <4> QED BY <4>1, <4>2
    <3>3. heap'[Saved(r)] = kept
      <4> HIDE DEF kept
      <4> QED BY <3>1, Refs DEF Typed
    <3>4. thread'[k] = Append(thread[k], r)
      BY <1>6, <3>1 DEF Typed
    <3>5. /\ Close(r) \in Seq(Message) /\ Resumable(Close(r))
          /\ Askers(Close(r)) = Append(found[r], r)
      BY <3>1, ClosingList
    <3>6. pc[r] \in InTurn /\ TurnsFollow
      BY <3>1 DEF InTurn, StoreInv
    <3>7. /\ Resumable(kept) /\ Short(kept)
          /\ Orderly => Askers(kept) = LastOf(Append(thread[k], r), MaxTurns)
      BY <1>8, <3>5, <3>6, SavedList
    <3> HIDE DEF kept, all, e
    <3>8. KeptInDict(k)'
      BY <1>0, <3>2, <3>3, <3>4, <3>7 DEF KeptInDict, Follows, Resumable, Short
    <3> QED BY <3>8
  <2> QED BY <2>2, <2>4, <2>7, <2>8, <2>9, <2>10, <2>11 DEF Handle
<1> QED BY <1>1, <1>7, <1>8 DEF DictKept

\* The stores stay kept.
LEMMA NextStore ==
    ASSUME Typed, FoundTyped, Apart, Owned, Backends, Unshared, StoreInv,
           WorkInv, [Next]_vars
    PROVE  StoreInv'
<1> USE DEF who, turn, store, connection
<1>0. (Orderly' <=> Orderly) /\ \A q \in Request : key(q)' = key(q)
  BY Surroundings, SameCalm
<1>1. ASSUME NEW r \in Request, Handle(r) PROVE StoreInv'
  BY <1>1, TurnsGoOn, RedisStaysKept, DictStaysKept DEF StoreInv
<1>2. ASSUME UNCHANGED <<heap, thread>>,
             DOMAIN redis' \subseteq DOMAIN redis,
             \A k \in DOMAIN redis' : redis'[k] = redis[k]
      PROVE  RedisKept'
  BY <1>0, <1>2 DEF StoreInv, RedisKept, KeptInRedis, Follows, Resumable,
                    Short
<1>3. ASSUME UNCHANGED <<pc, list, heap, thread, found>>,
             DOMAIN sessions' \subseteq DOMAIN sessions,
             \A k \in DOMAIN sessions' : sessions'[k] = sessions[k]
      PROVE  DictKept' /\ TurnsFollow'
  <2>1. ASSUME NEW k \in DOMAIN sessions' PROVE Held(k)' \/ KeptInDict(k)'
    <3>1. k \in DOMAIN sessions /\ sessions'[k] = sessions[k]
      BY <1>3
    <3>2. CASE Held(k)
      BY <1>0, <1>3, <3>1, <3>2 DEF Held, InTurn
    <3>3. CASE KeptInDict(k)
      BY <1>0, <1>3, <3>1, <3>3 DEF KeptInDict, Follows, Resumable, Short
    <3> QED BY <3>1, <3>2, <3>3 DEF StoreInv, DictKept
  <2>2. TurnsFollow'
    BY <1>0, <1>3 DEF StoreInv, TurnsFollow, InTurn
  <2> QED BY <2>1, <2>2 DEF DictKept
<1>4. ASSUME NEW k \in Keys, Clear(k) PROVE StoreInv'
  <2>1. UNCHANGED <<pc, list, heap, thread, found>>
    BY <1>4 DEF Clear
  <2>2. /\ DOMAIN redis' \subseteq DOMAIN redis
        /\ \A j \in DOMAIN redis' : redis'[j] = redis[j]
        /\ DOMAIN sessions' \subseteq DOMAIN sessions
        /\ \A j \in DOMAIN sessions' : sessions'[j] = sessions[j]
    BY <1>4 DEF Clear, Without
  <2> QED BY <1>2, <1>3, <2>1, <2>2 DEF StoreInv
<1>5. CASE Tick
  <2>1. UNCHANGED <<pc, list, heap, thread, found, sessions>>
    BY <1>5 DEF Tick
  <2>2. /\ DOMAIN redis' \subseteq DOMAIN redis
        /\ \A j \in DOMAIN redis' : redis'[j] = redis[j]
    BY <1>5, WithoutShrinks DEF Tick
  <2> QED BY <1>2, <1>3, <2>1, <2>2 DEF StoreInv
<1>6. CASE Restart
  <2>1. UNCHANGED <<heap, thread, redis>> /\ DOMAIN sessions' = {}
    BY <1>6 DEF Restart
  <2>2. \A r \in Request : pc'[r] \notin InTurn
    BY <1>6 DEF Restart, InProgress, InTurn
  <2>3. TurnsFollow'
    BY <2>2 DEF TurnsFollow, InTurn
  <2>4. DictKept'
    BY <2>1 DEF DictKept
  <2> QED BY <1>2, <2>1, <2>3, <2>4 DEF StoreInv
<1>7. CASE UNCHANGED vars
  <2>1. UNCHANGED <<pc, list, heap, thread, found, sessions, redis>>
    BY <1>7 DEF vars
  <2> QED BY <1>2, <1>3, <2>1 DEF StoreInv
<1> QED BY <1>1, <1>4, <1>5, <1>6, <1>7 DEF Next

\* Over Redis, a request found what is still there.
FindsStored ==
    \A r \in Request : pc[r] \in InTurn /\ key(r) \in DOMAIN redis =>
        found[r] = Askers(redis[key(r)].messages)

\* Over Redis, what a request found stays what is stored until it saves.
LEMMA NextFindsStored ==
    ASSUME Typed, FoundTyped, Apart, Owned, Backends, AlwaysRedis, Orderly,
           FindsStored, [Next]_vars
    PROVE  FindsStored'
<1> USE DEF who, turn, store, connection
<1>0. /\ \A q \in Request : key(q)' = key(q)
      /\ Unshared /\ env.overlap # "within"
  BY Surroundings, SameCalm DEF Unshared, Orderly
<1>1. ASSUME NEW r \in Request, Handle(r) PROVE FindsStored'
  <2>1. ASSUME NEW q \in Request, q # r, pc'[q] \in InTurn,
               key(q) \in DOMAIN redis'
        PROVE  found'[q] = Askers(redis'[key(q)].messages)
    <3>1. pc'[q] = pc[q] /\ found'[q] = found[q]
      BY <1>0, <1>1, <2>1, OthersKeep
    <3>2. pc[q] \in InProgress
      BY <2>1, <3>1 DEF InProgress
    <3>3. key(q) # key(r)
      BY <1>0, <1>1, <2>1, <3>2, Handles, Alone
    <3>4. key(q) \in DOMAIN redis /\ redis'[key(q)] = redis[key(q)]
      BY <1>1, <2>1, <3>3, KeyType, StoresTouched
    <3> QED BY <2>1, <3>1, <3>4 DEF FindsStored
  <2>2. ASSUME pc'[r] \in InTurn, key(r) \in DOMAIN redis'
        PROVE  found'[r] = Askers(redis'[key(r)].messages)
    <3>1. CASE Ask(r) \/ AskAgain(r) \/ CallTools(r) \/ GiveResult(r)
               \/ ReplyRedis(r)
      <4>1. pc[r] \in InTurn /\ UNCHANGED <<found, redis>>
        BY <3>1 DEF Ask, AskAgain, CallTools, GiveResult, ReplyRedis, InTurn
      <4> QED BY <2>2, <4>1 DEF FindsStored
    <3>2. CASE Probe(r) \/ Probed(r) \/ Break(r) \/ SaveRedis(r)
               \/ SaveFails(r)
      <4>1. pc'[r] \notin InTurn
        BY <3>2 DEF Probe, Probed, Break, SaveRedis, SaveFails, InTurn, Typed
      <4> QED BY <2>2, <4>1
    <3>3. CASE ReadRedis(r)
      <4> DEFINE ms == redis[key(r)].messages
      <4>1. UNCHANGED redis
        BY <3>3 DEF ReadRedis
      <4>2. Finds(r) /\ StartWith(r, ms)
        BY <2>2, <3>3, <4>1 DEF ReadRedis
      <4>3. messages(r)' = ms
        BY <4>2, Started
      <4>4. found'[r] = Askers(messages(r)')
        BY <4>2 DEF Finds, FoundTyped, messages
      <4> QED BY <4>1, <4>3, <4>4
    <3>4. CASE ReadFails(r)
      BY <3>4 DEF ReadFails, Orderly
    <3>5. CASE ReadMemory(r) \/ ReplyMemory(r)
      BY <3>5, MemoryOnly
    <3> QED BY <1>1, <3>1, <3>2, <3>3, <3>4, <3>5 DEF Handle
  <2> QED BY <1>0, <2>1, <2>2 DEF FindsStored
<1>2. ASSUME UNCHANGED <<pc, found>>,
             DOMAIN redis' \subseteq DOMAIN redis,
             \A k \in DOMAIN redis' : redis'[k] = redis[k]
      PROVE  FindsStored'
  BY <1>0, <1>2 DEF FindsStored, InTurn
<1>3. ASSUME NEW k \in Keys, Clear(k) PROVE FindsStored'
  <2>1. /\ UNCHANGED <<pc, found>>
        /\ DOMAIN redis' \subseteq DOMAIN redis
        /\ \A j \in DOMAIN redis' : redis'[j] = redis[j]
    BY <1>3 DEF Clear, Without
  <2> QED BY <1>2, <2>1
<1>4. CASE Tick
  <2>1. /\ UNCHANGED <<pc, found>>
        /\ DOMAIN redis' \subseteq DOMAIN redis
        /\ \A j \in DOMAIN redis' : redis'[j] = redis[j]
    BY <1>4, WithoutShrinks DEF Tick
  <2> QED BY <1>2, <2>1
<1>5. CASE Restart
  <2>1. \A r \in Request : pc'[r] \notin InTurn
    BY <1>5 DEF Restart, InProgress, InTurn
  <2> QED BY <2>1 DEF FindsStored, InTurn
<1>6. CASE UNCHANGED vars
  BY <1>2, <1>6 DEF vars
<1> QED BY <1>1, <1>3, <1>4, <1>5, <1>6 DEF Next

-----------------------------------------------------------------------------
(***************************************************************************)
(* The conversation of a session.                                          *)
(***************************************************************************)
ListInv ==
    /\ Typed /\ FoundTyped /\ Owned /\ Apart /\ Backends
    /\ Unshared => WorkInv /\ StoreInv
    /\ AlwaysRedis /\ Orderly => FindsStored

\* The invariant holds at first,
LEMMA InitListInv == Init => ListInv
<1> SUFFICES ASSUME Init PROVE ListInv
  OBVIOUS
<1>1. Typed /\ Owned /\ Apart /\ Backends
  BY InitTyped, InitOwned, InitBackends
<1>2. \A r \in Request : pc[r] = "idle" /\ found[r] = <<>> /\ sentWhole[r]
  BY DEF Init
<1>3. FoundTyped
  BY DEF Init, FoundTyped
<1>4. DOMAIN sessions = {} /\ DOMAIN redis = {}
  BY DEF Init
<1>5. WorkInv
  BY <1>2 DEF WorkInv, Fits, Fit
<1>6. StoreInv
  BY <1>2, <1>4 DEF StoreInv, RedisKept, DictKept, TurnsFollow, InTurn
<1>7. FindsStored
  BY <1>2 DEF FindsStored, InTurn
<1> QED BY <1>1, <1>3, <1>5, <1>6, <1>7 DEF ListInv

\* every step keeps it,
LEMMA NextListInv ==
    ASSUME ListInv, [Next]_vars
    PROVE  ListInv'
<1>1. Typed /\ FoundTyped /\ Owned /\ Apart /\ Backends
  BY DEF ListInv
<1>2. Typed' /\ FoundTyped' /\ Owned' /\ Apart' /\ Backends'
  BY <1>1, NextTyped, NextFoundTyped, NextOwned, NextApart, NextBackends
<1>3. (AlwaysRedis' <=> AlwaysRedis) /\ (Unshared' <=> Unshared)
      /\ (Orderly' <=> Orderly)
  BY Surroundings, SameCalm
<1>4. Unshared' => WorkInv' /\ StoreInv'
  BY <1>1, <1>3, NextWork, NextStore DEF ListInv
<1>5. AlwaysRedis' /\ Orderly' => FindsStored'
  BY <1>1, <1>3, NextFindsStored DEF ListInv
<1> QED BY <1>2, <1>4, <1>5 DEF ListInv

\* so it always holds.
LEMMA ListInvariant == Spec => []ListInv
<1>1. ListInv /\ [Next]_vars => ListInv'
  BY NextListInv
<1> QED BY InitListInv, <1>1, PTL DEF Spec

(* What a request sends to a provider, and what the next request of the    *)
(* session reads, is a list of whole exchanges that begins with the prompt *)
(* and a question, ends with an answer and holds at most MAX_TURNS turns:  *)
(* in-place appends, _trim_to_recent_turns and the writes of save_session  *)
(* keep it so, whatever breaks off, as long as no list is shared.          *)
THEOREM ListsAreWhole == Spec => []ListsStayWhole
<1>1. ASSUME ListInv PROVE ListsStayWhole
  <2>1. TypeOK
    BY <1>1 DEF ListInv, Typed, FoundTyped, TypeOK
  <2>2. SentIsWhole
    BY <1>1 DEF ListInv, WorkInv, SentIsWhole
  <2>3. ASSUME Unshared, NEW k \in Keys, Readable(k), Stored(k) # <<>>
        PROVE  Resumable(Stored(k)) /\ Short(Stored(k))
    <3>1. CASE Url = "redis"
      <4>1. k \in DOMAIN redis /\ Stored(k) = redis[k].messages
        BY <2>3, <3>1 DEF Stored
      <4> QED BY <1>1, <2>3, <4>1
              DEF ListInv, StoreInv, RedisKept, KeptInRedis
    <3>2. CASE Url # "redis"
      <4>1. /\ k \in DOMAIN sessions
            /\ Stored(k) = heap[sessions[k].messages]
        BY <2>3, <3>2 DEF Stored
      <4>2. ~Busy(k)
        BY <2>3, <3>2 DEF Readable, Unshared, AlwaysRedis
      <4>3. ~Held(k)
        BY <4>2 DEF Busy, Held, InProgress
      <4> QED BY <1>1, <2>3, <3>2, <4>1, <4>3
              DEF ListInv, StoreInv, DictKept, KeptInDict
    <3> QED BY <3>1, <3>2
  <2>4. StoredIsResumable
    BY <2>3 DEF StoredIsResumable, Resumable, Short, Prompted
  <2> QED BY <2>1, <2>2, <2>4 DEF ListsStayWhole
<1> QED BY ListInvariant, <1>1, PTL

(* A session at rest holds the last MAX_TURNS turns stored under its key,  *)
(* all of them and in order: no save of a request loses or reorders what   *)
(* _trim_to_recent_turns would keep.                                       *)
THEOREM RecentTurnsAreKept == Spec => []KeepsRecentTurns
<1>1. ASSUME ListInv PROVE KeepsRecentTurns
  <2> SUFFICES ASSUME Orderly, Unshared, NEW k \in Keys,
                      ~Busy(k), Stored(k) # <<>>
               PROVE  Askers(Stored(k)) = LastOf(thread[k], MaxTurns)
    BY DEF KeepsRecentTurns
  <2>1. CASE Url = "redis"
    <3>1. k \in DOMAIN redis /\ Stored(k) = redis[k].messages
      BY <2>1 DEF Stored
    <3> QED BY <1>1, <3>1
            DEF ListInv, StoreInv, RedisKept, KeptInRedis, Follows
  <2>2. CASE Url # "redis"
    <3>1. k \in DOMAIN sessions /\ Stored(k) = heap[sessions[k].messages]
      BY <2>2 DEF Stored
    <3>2. ~Held(k)
      BY DEF Busy, Held, InProgress
    <3> QED BY <1>1, <3>1, <3>2
            DEF ListInv, StoreInv, DictKept, KeptInDict, Follows
  <2> QED BY <2>1, <2>2
<1> QED BY ListInvariant, <1>1, PTL

\* Redis is written by a save alone.
LEMMA WritesAreSaves ==
    ASSUME [Next]_vars, NEW k \in DOMAIN redis',
           k \in DOMAIN redis => redis'[k] # redis[k]
    PROVE  \E r \in Request : SaveRedis(r) /\ key(r) = k
<1> USE DEF who, turn, store, connection
<1>1. ASSUME NEW r \in Request, Handle(r)
      PROVE  UNCHANGED redis \/ SaveRedis(r)
  BY <1>1 DEF Handle, Probe, Probed, ReadRedis, ReadFails, ReadMemory, Ask,
              AskAgain, CallTools, GiveResult, Break, ReplyRedis, SaveFails,
              ReplyMemory
<1>2. ASSUME NEW r \in Request, SaveRedis(r) PROVE key(r) = k
  BY <1>2 DEF SaveRedis, With
<1>3. ASSUME NEW j \in Keys, Clear(j) PROVE FALSE
  BY <1>3 DEF Clear, Without
<1>4. ~Tick
  BY WithoutShrinks DEF Tick
<1>5. ~Restart /\ ~(UNCHANGED vars)
  BY DEF Restart, vars
<1> QED BY <1>1, <1>2, <1>3, <1>4, <1>5 DEF Next

(* A write to Redis is what its request found and its own turn, cut to     *)
(* MAX_TURNS; and where a session's requests come one after the other and  *)
(* no read fails, it is what is stored and one turn more: save_session     *)
(* replaces no history by less.                                            *)
THEOREM SavesOnlyExtend == Spec => SavesExtend
<1> DEFINE A == /\ Orderly => AddsATurn
                /\ AlwaysRedis => WritesWhatItFound
<1>1. ASSUME ListInv, [Next]_vars PROVE A
  <2>1. ASSUME Unshared, NEW k \in DOMAIN redis',
               k \in DOMAIN redis => redis'[k] # redis[k]
        PROVE  \E r \in Request :
                  /\ key(r) = k /\ pc[r] = "saving"
                  /\ Askers(redis'[k].messages)
                        = LastOf(Append(found[r], r), MaxTurns)
    <3>1. PICK r \in Request : SaveRedis(r) /\ key(r) = k
      BY <1>1, <2>1, WritesAreSaves
    <3>2. /\ pc[r] = "saving"
          /\ redis'[k].messages = RecentTurns(messages(r), MaxTurns)
      BY <3>1 DEF SaveRedis, With
    <3>3. /\ messages(r) \in Seq(Message) /\ Resumable(messages(r))
          /\ Askers(messages(r)) = Append(found[r], r)
      BY <1>1, <2>1, <3>2, SavingList DEF ListInv
    <3>4. Askers(redis'[k].messages) = LastOf(Append(found[r], r), MaxTurns)
      BY <3>2, <3>3, TrimmedList
    <3> QED BY <3>1, <3>2, <3>4
  <2>2. AlwaysRedis => WritesWhatItFound
    BY <2>1 DEF WritesWhatItFound, Unshared
  <2>3. ASSUME Orderly PROVE AddsATurn
    <3> SUFFICES ASSUME NEW k \in DOMAIN redis, k \in DOMAIN redis',
                        redis'[k] # redis[k]
                 PROVE  \E r \in Request :
                           Askers(redis'[k].messages) =
                              LastOf(Append(Askers(redis[k].messages), r),
                                     MaxTurns)
      BY DEF AddsATurn
    <3>1. AlwaysRedis
      <4>1. Url = "redis"
        BY <1>1 DEF ListInv, Backends, DictOnly
      <4> QED BY <2>3, <4>1 DEF Orderly
    <3>2. PICK r \in Request :
                  /\ key(r) = k /\ pc[r] = "saving"
                  /\ Askers(redis'[k].messages)
                        = LastOf(Append(found[r], r), MaxTurns)
      BY <2>1, <3>1 DEF Unshared
    <3>3. found[r] = Askers(redis[k].messages)
      BY <1>1, <2>3, <3>1, <3>2 DEF ListInv, FindsStored, InTurn
    <3> QED BY <3>2, <3>3
  <2> QED BY <2>2, <2>3
<1> HIDE DEF A
<1>2. ListInv /\ [Next]_vars => [A]_vars
  BY <1>1
<1>3. Spec => [][A]_vars
  BY ListInvariant, <1>2, PTL DEF Spec
<1> QED BY <1>3 DEF SavesExtend, A
=============================================================================
