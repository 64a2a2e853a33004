---------------------------- MODULE SessionStore ----------------------------
(***************************************************************************)
(* Conversation history shared by the requests of one process:             *)
(* memory/session_store.py, over the connection of db/redis_client.py,     *)
(* with the route handlers of api/routes/chat.py around it and each turn   *)
(* reduced to what TurnOutline lets it do to its message list.             *)
(*                                                                         *)
(* The two backends differ in one thing that matters.  Redis hands every   *)
(* request a list of its own, decoded from JSON.  The dict hands out the   *)
(* stored list itself, and run_conversation appends to it in place.  So    *)
(* lists live in a heap here, and a request holds a reference to one.      *)
(***************************************************************************)
EXTENDS Trimming, RedisClient

CONSTANTS
    NumRequests,    \* bound: requests in a run
    User,           \* verified user ids
    SessionId,      \* session ids, chosen by clients
    MaxTurns,       \* MAX_TURNS, 10 in the code
    MaxSessions,    \* MAX_SESSIONS, 1000 in the code
    Timeout,        \* SESSION_TIMEOUT_MINUTES in ticks
    MaxRounds,      \* bound: tool rounds of a turn
    MaxCalls,       \* bound: tool calls of a round
    Horizon,        \* bound: the last instant
    Environments    \* what may happen around the process, see below

ASSUME SessionAssumption ==
    /\ NumRequests \in Nat
    /\ MaxTurns \in Nat \ {0}
    /\ MaxSessions \in Nat \ {0}
    /\ Timeout \in Nat \ {0}
    /\ MaxRounds \in Nat
    /\ MaxCalls \in Nat
    /\ Horizon \in Nat
    /\ Environments \subseteq
          [overlap: {"never", "across", "within"},  \* which requests overlap:
                                        \* none, those across sessions, or
                                        \* also those within one
           warm: BOOLEAN,               \* is get_redis() settled before the
                                        \* first request?
           breaks: BOOLEAN,             \* may a turn be cancelled or raise?
           pingFaults: BOOLEAN,         \* may the first ping fail?
           readFaults: BOOLEAN,         \* may a Redis GET fail?
           writeFaults: BOOLEAN]        \* may a Redis SET fail?

Request == 1..NumRequests

\* Mutant: the session id alone.
KeyBySession(u, s) == <<s>>

\* _key: both ids, not the session id alone.  The code joins them with a
\* colon, which tells the pairs apart while no user id has a colon in it.
Key(u, s) == <<u, s>>
Keys == {Key(u, s) : u \in User, s \in SessionId}

\* A list a request makes for itself, and the trimmed copy it stores.
Ref == {"own", "saved"} \X Request
Own(r) == <<"own", r>>
Saved(r) == <<"saved", r>>

VARIABLES
    env,        \* the environment of this behaviour
    now,        \* the clock, in ticks
    user,       \* whose request it is
    session,    \* the session_id it names
    pc,         \* where its handler is
    list,       \* the list run_conversation works on
    calls,      \* tool calls of its open exchange, still to be answered
    rounds,     \* tool rounds so far
    heap,       \* contents of the lists
    sessions,   \* _sessions: key -> [messages: Ref, last_active]
    redis,      \* the server: key -> [messages, until]
    sentWhole,  \* everything the request has sent to a provider was whole
    thread,     \* the turns stored under a key since there were none
    found       \* the turns a request found in the store, none if it could
                \* not read

who == <<env, user, session, found>>
turn == <<list, calls, rounds, heap, sentWhole>>
store == <<sessions, redis, thread>>
connection == <<checked, client>>
vars == <<now, who, pc, turn, store, connection>>

key(r) == Key(user[r], session[r])

InTurn == {"begun", "asking", "tools", "saving"}
InProgress == {"probing", "limited"} \union InTurn
Busy(k) == \E r \in Request : pc[r] \in InProgress /\ key(r) = k
messages(r) == heap[list[r]]

\* The user's message, marked with the request it came in.
Question(r) == [UserTurn EXCEPT !.id = r]

Asked(ms) == {i \in DOMAIN ms : ms[i].role = "user"}

\* Who asked the questions of a list, in order.
Askers(ms) ==
    LET ids[i \in 0..Len(ms)] ==
            IF i = 0 THEN <<>>
            ELSE IF ms[i].role = "user" THEN Append(ids[i - 1], ms[i].id)
            ELSE ids[i - 1]
    IN  ids[Len(ms)]

\* f without, and with, an entry.
Without(f, K) == [k \in DOMAIN f \ K |-> f[k]]
With(f, k, entry) ==
    [j \in DOMAIN f \union {k} |-> IF j = k THEN entry ELSE f[j]]

TypeOK ==
    /\ ClientTypeOK
    /\ env \in Environments
    /\ now \in 0..Horizon
    /\ user \in [Request -> User]
    /\ session \in [Request -> SessionId]
    /\ pc \in [Request -> {"idle", "done", "broken"} \union InProgress]
    /\ list \in [Request -> Ref]
    /\ calls \in [Request -> Seq(1..MaxCalls)]
    /\ rounds \in [Request -> 0..MaxRounds]
    /\ heap \in [Ref -> Seq(Message)]
    /\ DOMAIN sessions \subseteq Keys
    /\ \A k \in DOMAIN sessions :
          sessions[k] \in [messages: Ref, last_active: 0..Horizon]
    /\ DOMAIN redis \subseteq Keys
    /\ \A k \in DOMAIN redis :
          redis[k] \in [messages: Seq(Message), until: Nat]
    /\ sentWhole \in [Request -> BOOLEAN]
    /\ thread \in [Keys -> Seq(Request)]
    /\ found \in [Request -> Seq(Request)]

\* The connection when requests start to arrive.
StartClient == IF env.warm /\ Url = "redis" THEN "redis" ELSE "none"

Init ==
    /\ env \in Environments
    /\ checked = env.warm
    /\ client = StartClient
    /\ now = 0
    /\ user \in [Request -> User]
    /\ session \in [Request -> SessionId]
    /\ pc = [r \in Request |-> "idle"]
    /\ list = [r \in Request |-> Own(r)]
    /\ calls = [r \in Request |-> <<>>]
    /\ rounds = [r \in Request |-> 0]
    /\ heap = [l \in Ref |-> <<>>]
    /\ sessions = <<>>
    /\ redis = <<>>
    /\ sentWhole = [r \in Request |-> TRUE]
    /\ thread = [k \in Keys |-> <<>>]
    /\ found = [r \in Request |-> <<>>]

-----------------------------------------------------------------------------
(***************************************************************************)
(* The rate limiter is the first to ask get_redis(); only that call can    *)
(* find the question open, and then it waits for the ping.                 *)
(***************************************************************************)
\* Requests are numbered in the order they arrive.
Arrives(r) ==
    /\ pc[r] = "idle"
    /\ \A q \in 1..(r - 1) : pc[q] # "idle"
    /\ \A q \in Request \ {r} : pc[q] \in InProgress =>
          \/ env.overlap = "within"
          \/ env.overlap = "across" /\ key(q) # key(r)

Probe(r) ==
    /\ Arrives(r)
    /\ \/ /\ Look
          /\ pc' = [pc EXCEPT ![r] = "probing"]
       \/ /\ LookInVain
          /\ pc' = [pc EXCEPT ![r] = "limited"]
    /\ UNCHANGED <<now, who, turn, store>>

Probed(r) ==
    /\ pc[r] = "probing"
    /\ PingOk \/ (env.pingFaults /\ PingFails)
    /\ pc' = [pc EXCEPT ![r] = "limited"]
    /\ UNCHANGED <<now, who, turn, store>>

-----------------------------------------------------------------------------
(***************************************************************************)
(* get_session.                                                            *)
(***************************************************************************)
Expired(k, t) == t - sessions[k].last_active > Timeout

\* The request starts with this list; the empty list is None.
StartWith(r, contents) ==
    /\ list' = [list EXCEPT ![r] = Own(r)]
    /\ heap' = [heap EXCEPT ![Own(r)] = contents]

Finds(r) == found' = [found EXCEPT ![r] = Askers(heap'[list'[r]])]

NewThread(r) == thread' = [thread EXCEPT ![key(r)] = <<>>]

Reads(r, backend) ==
    /\ pc[r] = "limited" \/ Arrives(r)
    /\ Cached
    /\ client = backend
    /\ pc' = [pc EXCEPT ![r] = "begun"]
    /\ UNCHANGED <<now, env, user, session, calls, rounds, sentWhole>>

ReadRedis(r) ==
    /\ Reads(r, "redis")
    /\ \/ /\ key(r) \in DOMAIN redis
          /\ StartWith(r, redis[key(r)].messages)
          /\ UNCHANGED thread
       \/ /\ key(r) \notin DOMAIN redis
          /\ StartWith(r, <<>>)
          /\ NewThread(r)
    /\ Finds(r)
    /\ UNCHANGED <<sessions, redis>>

\* "A cache read failing means no history."
ReadFails(r) ==
    /\ env.readFaults
    /\ Reads(r, "redis")
    /\ StartWith(r, <<>>)
    /\ Finds(r)
    /\ UNCHANGED store

\* The stored list itself is handed out.
ReadMemory(r) ==
    /\ Reads(r, "none")
    /\ \/ /\ key(r) \in DOMAIN sessions
          /\ ~Expired(key(r), now)
          /\ list' = [list EXCEPT ![r] = sessions[key(r)].messages]
          /\ UNCHANGED <<heap, sessions, thread>>
       \/ /\ key(r) \in DOMAIN sessions
          /\ Expired(key(r), now)
          /\ sessions' = Without(sessions, {key(r)})
          /\ StartWith(r, <<>>)
          /\ NewThread(r)
       \/ /\ key(r) \notin DOMAIN sessions
          /\ StartWith(r, <<>>)
          /\ IF key(r) \in DOMAIN redis THEN UNCHANGED thread ELSE NewThread(r)
          /\ UNCHANGED sessions
    /\ Finds(r)
    /\ UNCHANGED redis

-----------------------------------------------------------------------------
(***************************************************************************)
(* run_conversation, as TurnOutline describes it.  The list is encoded     *)
(* when a request to a provider is built, before anybody else can run.     *)
(***************************************************************************)
Extend(r, ms) == heap' = [heap EXCEPT ![list[r]] = ms]

Send(r, ms) ==
    /\ pc' = [pc EXCEPT ![r] = "asking"]
    /\ sentWhole' = [sentWhole EXCEPT ![r] = @ /\ WholeExchanges(ms)]

\* Mutant: every turn starts from a fresh prompt.
AskAfresh(r) ==
    /\ pc[r] = "begun"
    /\ Extend(r, <<SystemPrompt, Question(r)>>)
    /\ Send(r, <<SystemPrompt, Question(r)>>)
    /\ UNCHANGED <<now, who, list, calls, rounds, store, connection>>

Ask(r) ==
    /\ pc[r] = "begun"
    /\ LET history == IF messages(r) = <<>> THEN <<SystemPrompt>> ELSE messages(r)
           ms == Append(history, Question(r))
       IN  Extend(r, ms) /\ Send(r, ms)
    /\ UNCHANGED <<now, who, list, calls, rounds, store, connection>>

\* A retry, a failover or an empty answer: the same list is sent again.
AskAgain(r) ==
    /\ pc[r] = "asking"
    /\ Send(r, messages(r))
    /\ UNCHANGED <<now, who, list, calls, rounds, heap, store, connection>>

CallTools(r) ==
    /\ pc[r] = "asking"
    /\ rounds[r] < MaxRounds
    /\ rounds' = [rounds EXCEPT ![r] = @ + 1]
    /\ pc' = [pc EXCEPT ![r] = "tools"]
    /\ \E n \in 1..MaxCalls :
          /\ Extend(r, Append(messages(r), ToolCalls(n, FALSE)))
          /\ calls' = [calls EXCEPT ![r] = [j \in 1..n |-> j]]
    /\ UNCHANGED <<now, who, list, sentWhole, store, connection>>

\* The results come one by one, in the order of the calls; after the last
\* one the next request is sent at once.
GiveResult(r) ==
    /\ pc[r] = "tools"
    /\ calls' = [calls EXCEPT ![r] = Tail(@)]
    /\ LET ms == Append(messages(r), ToolResult(Head(calls[r])))
       IN  /\ Extend(r, ms)
           /\ \/ /\ Len(calls[r]) = 1
                 /\ Send(r, ms)
              \/ /\ Len(calls[r]) > 1
                 /\ UNCHANGED <<pc, sentWhole>>
    /\ UNCHANGED <<now, who, list, rounds, store, connection>>

\* CancelledError at an await, or an exception nobody catches while the
\* prompt is built or a provider is asked: nothing is saved.
Break(r) ==
    /\ env.breaks
    /\ pc[r] \in InTurn
    /\ pc' = [pc EXCEPT ![r] = "broken"]
    /\ UNCHANGED <<now, who, turn, store, connection>>

-----------------------------------------------------------------------------
(***************************************************************************)
(* save_session.                                                           *)
(***************************************************************************)
\* Mutant: the reply is returned but not recorded.
CloseUnrecorded(r) == messages(r)

\* The final words; then nothing is awaited before the list is trimmed.
Close(r) == Append(messages(r), Answer)

ReplyRedis(r) ==
    /\ client = "redis"
    /\ Cached
    /\ pc[r] = "asking"
    /\ Extend(r, Close(r))
    /\ pc' = [pc EXCEPT ![r] = "saving"]
    /\ UNCHANGED <<now, who, list, calls, rounds, sentWhole, store>>

\* Mutant: the history is stored untrimmed.
SaveUntrimmed(r) ==
    /\ pc[r] = "saving"
    /\ pc' = [pc EXCEPT ![r] = "done"]
    /\ redis' = With(redis, key(r), [messages |-> messages(r),
                                     until |-> now + Timeout])
    /\ thread' = [thread EXCEPT ![key(r)] = Append(@, r)]
    /\ UNCHANGED <<now, who, turn, sessions, connection>>

\* SET with EX: the expiry starts again.
SaveRedis(r) ==
    /\ pc[r] = "saving"
    /\ pc' = [pc EXCEPT ![r] = "done"]
    /\ redis' = With(redis, key(r),
                     [messages |-> RecentTurns(messages(r), MaxTurns),
                      until |-> now + Timeout])
    /\ thread' = [thread EXCEPT ![key(r)] = Append(@, r)]
    /\ UNCHANGED <<now, who, turn, sessions, connection>>

\* Logged, and the user still gets the answer.
SaveFails(r) ==
    /\ env.writeFaults
    /\ pc[r] = "saving"
    /\ pc' = [pc EXCEPT ![r] = "done"]
    /\ UNCHANGED <<now, who, turn, store, connection>>

\* Mutant: the sort is descending.
Newest(entries, n) ==
    CHOOSE K \in SUBSET DOMAIN entries :
        /\ Cardinality(K) = n
        /\ \A k \in K, j \in DOMAIN entries \ K :
              entries[k].last_active > entries[j].last_active

\* The n entries written longest ago.
Oldest(entries, n) ==
    CHOOSE K \in SUBSET DOMAIN entries :
        /\ Cardinality(K) = n
        /\ \A k \in K, j \in DOMAIN entries \ K :
              entries[k].last_active < entries[j].last_active

\* Mutant: the ceiling is one too high.
PurgedLate(entries) ==
    LET expired == {k \in DOMAIN entries :
                       now - entries[k].last_active > Timeout}
        live == Without(entries, expired)
        overflow == Cardinality(DOMAIN live) - MaxSessions
    IN  IF overflow > 1 THEN Without(live, Oldest(live, overflow)) ELSE live

\* _purge: the expired entries, then the oldest ones above the ceiling.
Purged(entries) ==
    LET expired == {k \in DOMAIN entries :
                       now - entries[k].last_active > Timeout}
        live == Without(entries, expired)
        overflow == Cardinality(DOMAIN live) - MaxSessions
    IN  IF overflow > 0 THEN Without(live, Oldest(live, overflow)) ELSE live

\* The dict is written in the same step.  No two writes have one timestamp.
ReplyMemory(r) ==
    /\ client = "none"
    /\ Cached
    /\ pc[r] = "asking"
    /\ now < Horizon
    /\ now' = now + 1
    /\ pc' = [pc EXCEPT ![r] = "done"]
    /\ heap' = [heap EXCEPT ![list[r]] = Close(r),
                            ![Saved(r)] = RecentTurns(Close(r), MaxTurns)]
    /\ sessions' = Purged(With(sessions, key(r),
                               [messages |-> Saved(r), last_active |-> now]))
    /\ thread' = [thread EXCEPT ![key(r)] = Append(@, r)]
    /\ UNCHANGED <<who, list, calls, rounds, sentWhole, redis>>

-----------------------------------------------------------------------------
(***************************************************************************)
(* clear_session, time, and the end of the process.                        *)
(***************************************************************************)
Clear(k) ==
    /\ Cached
    /\ \/ /\ client = "redis"
          /\ k \in DOMAIN redis
          /\ redis' = Without(redis, {k})
          /\ UNCHANGED sessions
       \/ /\ client = "none"
          /\ k \in DOMAIN sessions
          /\ sessions' = Without(sessions, {k})
          /\ UNCHANGED redis
    /\ UNCHANGED <<now, who, pc, turn, thread>>

\* Time passes, and the server drops the keys whose TTL lapses.
Tick ==
    /\ now < Horizon
    /\ now' = now + 1
    /\ redis' = Without(redis, {k \in DOMAIN redis : redis[k].until <= now'})
    /\ UNCHANGED <<who, pc, turn, sessions, thread, connection>>

\* A deploy or a crash: the dict goes, the server stays.
Restart ==
    /\ pc' = [r \in Request |-> IF pc[r] \in InProgress THEN "broken" ELSE pc[r]]
    /\ sessions' = <<>>
    /\ checked' = env.warm
    /\ client' = StartClient
    /\ UNCHANGED <<now, who, turn, redis, thread>>

Handle(r) ==
    \/ Probe(r)
    \/ Probed(r)
    \/ ReadRedis(r)
    \/ ReadFails(r)
    \/ ReadMemory(r)
    \/ Ask(r)
    \/ AskAgain(r)
    \/ CallTools(r)
    \/ GiveResult(r)
    \/ Break(r)
    \/ ReplyRedis(r)
    \/ SaveRedis(r)
    \/ SaveFails(r)
    \/ ReplyMemory(r)

Next ==
    \/ \E r \in Request : Handle(r)
    \/ \E k \in Keys : Clear(k)
    \/ Tick
    \/ Restart

Spec == Init /\ [][Next]_vars

-----------------------------------------------------------------------------
(***************************************************************************)
(* Properties.                                                             *)
(***************************************************************************)
\* What the configured store holds for a key; the empty list if nothing.
Stored(k) ==
    IF Url = "redis"
    THEN IF k \in DOMAIN redis THEN redis[k].messages ELSE <<>>
    ELSE IF k \in DOMAIN sessions THEN heap[sessions[k].messages] ELSE <<>>

\* Could a request read it in this state?
Readable(k) == env.overlap = "within" \/ ~Busy(k)

\* Every request is served from Redis.
AlwaysRedis ==
    /\ Url = "redis"
    /\ ~env.pingFaults
    /\ env.warm \/ env.overlap = "never"

\* No two requests work on one list, and none is left half-way in a list
\* that others will read.
Unshared ==
    AlwaysRedis \/ (env.overlap # "within" /\ ~env.breaks)

\* A session is read and written by one request after the other, from one
\* backend, which is there when it is read.
Orderly ==
    /\ Url = "redis" => AlwaysRedis
    /\ env.overlap # "within"
    /\ ~env.readFaults

(* No request ever sends a provider a history with an unanswered tool call *)
(* or a stray tool result, whatever fails and wherever turns break off     *)
(* (orchestrator.py, lines 592-594): over Redis always, over the dict as   *)
(* long as lists are not shared.                                           *)
SentIsWhole == Unshared => \A r \in Request : sentWhole[r]

(* What the next request of a session reads is a conversation it can go on *)
(* with: whole exchanges, the prompt first, an answer last, and no more    *)
(* turns than the limit (session_store.py, lines 36-39).                   *)
StoredIsResumable ==
    Unshared => \A k \in Keys : Readable(k) /\ Stored(k) # <<>> =>
        /\ WholeExchanges(Stored(k))
        /\ HasSystem(Stored(k))
        /\ LastRole(Stored(k)) = "assistant"
        /\ Cardinality(Asked(Stored(k))) <= MaxTurns

\* A write to Redis is what its request found there and the request's own
\* turn: whatever else it takes away was saved while the request ran, or
\* missed by a read that failed.
WritesWhatItFound ==
    \A k \in DOMAIN redis' :
        \/ k \in DOMAIN redis /\ redis'[k] = redis[k]
        \/ \E r \in Request :
              /\ key(r) = k /\ pc[r] = "saving"
              /\ Askers(redis'[k].messages)
                    = LastOf(Append(found[r], r), MaxTurns)

\* A write to Redis adds one turn to those that are there, and drops none
\* but the oldest above the limit.
AddsATurn ==
    \A k \in DOMAIN redis \intersect DOMAIN redis' :
        redis'[k] # redis[k] =>
            \E r \in Request :
                Askers(redis'[k].messages) =
                    LastOf(Append(Askers(redis[k].messages), r), MaxTurns)

(* While the requests of a session come one after the other, a save never  *)
(* replaces history by less, whatever breaks, fails or is restarted in     *)
(* between (session_store.py, lines 16-21); where they overlap, or a read  *)
(* fails, it loses only what its request could not see.                    *)
SavesExtend ==
    [][/\ Orderly => AddsATurn
       /\ AlwaysRedis => WritesWhatItFound]_vars

(* The claim of test_session_store.py, lines 146-160: history outlives a   *)
(* restart of the process.                                                 *)
SurvivesRestart == [][AddsATurn]_vars

(* The claim of session_store.py, lines 37-39: a tool_calls/tool-response  *)
(* pair is never split apart, "which would make the next API call          *)
(* invalid".                                                               *)
PairsStayTogether ==
    \A k \in Keys : Readable(k) => WholeExchanges(Stored(k))

(* A guessed session_id opens nobody else's conversation: every question   *)
(* in a request's list was asked by its own user in that session           *)
(* (session_store.py, lines 44-51).                                        *)
OwnHistoryOnly ==
    \A r \in Request : \A i \in Asked(messages(r)) :
        LET asker == messages(r)[i].id
        IN  user[asker] = user[r] /\ session[asker] = session[r]

(* The lists of a session stay whole, on their way to a provider and in    *)
(* the store.                                                              *)
ListsStayWhole == TypeOK /\ SentIsWhole /\ StoredIsResumable

(* Memory is the most recent turns, all of them and in order: a session at *)
(* rest holds the last MaxTurns turns stored since a request found it      *)
(* empty, whatever was evicted, expired or broken off in between           *)
(* (session_store.py, lines 36-37).                                        *)
KeepsRecentTurns ==
    Orderly /\ Unshared => \A k \in Keys : ~Busy(k) /\ Stored(k) # <<>> =>
        Askers(Stored(k)) = LastOf(thread[k], MaxTurns)

(* However many requests find the question open, one of them at a time     *)
(* tries to connect: no second pool is opened and lost.                    *)
OneProbe == Cardinality({r \in Request : pc[r] = "probing"}) <= 1

(* _purge bounds the dict ...                                              *)
SessionsBounded == Cardinality(DOMAIN sessions) <= MaxSessions

(* ... and never at the cost of the conversation that is being held: the   *)
(* session a request has just stored is there.                             *)
JustStoredStays ==
    [][\A r \in Request :
         client = "none" /\ pc[r] = "asking" /\ pc'[r] = "done"
           => key(r) \in DOMAIN sessions']_vars
=============================================================================
