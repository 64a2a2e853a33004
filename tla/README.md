# Zatch assistant: models, checks and proofs

The Zatch assistant is a FastAPI service. A shopper's app sends a question with
a JWT; the service checks the token, counts the request against a per-user
limit, fetches the conversation so far, and lets a language model answer with
the help of read-only lookups in MongoDB. This directory holds TLA+ models of
its stateful and concurrent parts and of the rules it computes by, the TLC runs
that check them on small instances, and TLAPS proofs that extend some results to
every size.

Line numbers refer to the Python files under `src/`.

## 1. The system

### Parts

| Part | State it keeps | Operations | Correct means |
|---|---|---|---|
| Rate limiter, `app/security/rate_limit.py` | one Redis sorted set per user; `_requests`, a dict of deques per worker | `check_rate_limit`, `_check_redis`, `_check_in_process`, `_prune`, `_evict_idle_users` | never too many grants, no slot lost to a refusal, a true Retry-After, a bounded table |
| Conversation turn, `app/agent/orchestrator.py` | the message list, `product_shown`, `streamed_any`, loop counters | `run_conversation`, `_complete_with_failover`, `_synthesize_final_answer`, `_flatten_tool_exchanges` | every request well-formed, one voice, one picture, bounded requests, always an end in words |
| Session memory, `app/memory/session_store.py` | Redis strings with a TTL; `_sessions`, a dict per process | `get_session`, `save_session`, `clear_session`, `_purge`, `_trim_to_recent_turns` | the owner's history only, resumable lists, the latest turns and all of them, bounded memory |
| Redis connection, `app/db/redis_client.py` | `_client`, `_checked` | `get_redis`, `close_redis` | one pool, one answer to "is Redis up?" |
| Chat endpoints, `app/api/routes/chat.py` | an event queue and a task per stream | `chat`, `chat_stream` | one ending per stream, saved before done, nothing left running after a hang-up |
| LLM client, `app/agent/llm_client.py` | none beyond one response | `get_providers`, `assess_chain`, `complete`, `stream` | reassembles tool calls by index, classifies errors, picks usable providers |
| Tool executor and registry, `app/agent/tool_executor.py`, `tools.py` | none | `execute_tool`, result trimmers, product card | one JSON answer for every call, caps on limits |
| Embeddings and semantic search, `embeddings.py`, `products_repo.py`, `scripts/reembed_catalogue.py` | vectors in MongoDB with a model tag | search, re-embedding | never compares vectors of two models |
| Business rules, `orders_repo.py`, `bargains_repo.py`, `coupons_repo.py` | none (read only) | eligibility and offers | boundaries of dates, counts and prices |
| Data safety, `field_allowlist.py`, `sanitizer.py`; authentication, `auth.py` | none | projection, sanitising, verification ladder | nothing outside the allowlist; each failure a 401 |
| Settings and logging, `settings.py`, `logging.py` | none | validators, redaction | what a `.env` line means is what its reader thinks; no secret in a log event |
| Lifespan, health, database connection, `main.py`, `health.py`, `connection.py` | process-wide clients | open and close, `/health` | no start without a database; an outage is told |
| Demo page, `demo_ui.py` | the log, `busy`, `session`, `token`, the sheet | `start`, `send`, `newSession`, `openProduct` | the composer comes back, nothing is left moving |
| Other repositories | none | single queries | the owner's data only |
| Schemas, scripts | none | request shapes; seeding and checks run by hand | |

### How they interact

    client -> auth -> rate limiter -> get_session -> run_conversation -> save_session -> client
                         |               |          |        |              |
                         v               v          v        v              v
                       get_redis ---> Redis     LLM client  tools        Redis or dict

- The rate limiter is the first to call `get_redis()` in a process, so it is the
  one that waits for the first ping; everything later in the request reuses the
  answer.
- Rate limiter and session memory each have two backends. Redis is shared by all
  workers; the dicts belong to one process.
- `get_session` hands `run_conversation` a list to append to. From Redis it is a
  fresh list decoded from JSON. From the dict it is the stored list itself.
- `/chat/stream` runs the turn as a task; `on_event` puts events in a queue and a
  generator yields them. When the client goes, the generator's `finally` cancels
  the task.

### What is hard about it

One event loop per worker, many requests interleaved at every `await`; several
workers against one Redis; every Redis call may fail, also after it took effect;
timestamps read before awaits; cancellation at any await; restarts that empty
the dicts; nested retry loops over providers; bounded tables at their limits.
`PROJECT.json` lists each hazard at its line with the properties about it.

## 2. Modules

| Module | Models | State | Actions |
|---|---|---|---|
| `RateLimit` | `rate_limit.py` with its call from `dependencies.py` | `zset`, `expires` (Redis), `table` (`_requests` of each worker), and per request where it is, its `stamp`, and the transaction's reply | `Arrive` (reads the clock), `Execute` (the MULTI), `Grant`, `OverLimit`, `Reclaim`, `ReclaimFails` (the ZREM), `FallBack` (the whole of `_check_in_process`), `Tick` |
| `Messages` | message lists, what makes them acceptable to a provider, `_flatten_tool_exchanges` | | |
| `TurnOutline` | abstract: what a turn may do to its list | `messages`, `stage`, `owed` | `Ask`, `CallTools`, `GiveResult`, `Close`, `BreakOff` |
| `AgentTurn` | `orchestrator.py`: one turn against providers that may do anything; implements `TurnOutline` | the list, phase and round, provider and attempt, `streamedAny`, the open batch of tool calls, the picture flag | `Begin`, `PromptFails`, `Token`, `AnswerWords`, `AnswerBlank`, `AnswerCalls`, `Fails`, `Malformed`, `NoProvider`, `BadArguments`, `StartTool`, `FinishTool`, `Cancel` |
| `Trimming` | `_trim_to_recent_turns`, as the loop it is (`TrimByTurns`) and as a definition without a loop (`RecentTurns`) | | |
| `RedisClient` | the steps of `get_redis` | `checked`, `client` | `Cached`, `Look`, `LookInVain`, `PingOk`, `PingFails` |
| `SessionStore` | `session_store.py` over `RedisClient`, with the handlers around it and each turn reduced to what `TurnOutline` allows | `heap` of lists and who refers to which, `sessions`, `redis`, per request where it is | the probe, `ReadRedis`, `ReadFails`, `ReadMemory`, the turn's steps, `Break`, `ReplyRedis`, `SaveRedis`, `SaveFails`, `ReplyMemory`, `Clear`, `Tick`, `Restart` |
| `ChatStream` | `chat_stream`: task, queue, generator, client | `task`, `stream`, `queue`, `received`, `connected` | `Begin`, `Event`, `Reply`, `Store`, `Saved`, `SaveFails`, `Done`, `Raises`, `Cancelled`, `Start`, `Take`, `Sent`, `TakeEnd`, `HangUp`, `Notice` |
| `ChatPage` | the page of `demo_ui.py` in front of `ChatStream`, which it extends: login gate, log, composer, product sheet | `gate`, `busy`, `asking`, `request`, `parsed`, `log`, `writing`, `chats`, `sheet` | `Login`, `LoggedIn`, `NotLoggedIn`, `NewSession`, `Send`, `Admit` (the limiter lets the request through), `Load` (`get_session`), `Respond`, `Refuse`, `Lost`, one for each kind of frame (`ShowStatus`, `AddProductCard`, `AppendToken`, `Finish`, `Error`), `EndOfStream`, `OpenProduct`, `RenderSheet`, `CloseSheet`, and the server's own |
| `Catalogue` | `reembed_catalogue.py` against the searches of `products_repo.py`, with Atlas and Zatch's own embedding pipeline | `docs`, `index`, `script`, `service`, `search`, `query`, `pipeline`, `up` | `StartScript`, `EmbedTexts`, `Delete`, `Insert`, `Inserted`, `Drop`, `Create`, `Killed`, `Atlas`, `Edit`, `Embeds`, `StopPipeline`, `Outage`, `Back`, `StartService`, `StopService`, `Sample`, `EmbedQuery`, `Seed`, `Rank` |
| `Replies` | `llm_client.py`: errors, `complete`, the reassembly in `stream`; `embed_texts` | none | |
| `Settings`, `Providers` | the validators of `settings.py`; `get_providers`, `assess_chain`, `build_request`, `/health` | none | |
| `Auth` | `auth.py` and the dependency that calls it and the limiter | none | |
| `Allowlist`, `Sanitizer` | the lists of `field_allowlist.py`; the tree, `get_projection` and `sanitize_document` | none | |
| `Logging` | the redaction of log events | none | |
| `Store` | orders, bargains, coupons, carts, account | none | |
| `Shop` | products, live sessions, bits, reviews, sellers | none | |
| `Tools` | the registry of `tools.py` and `execute_tool` over `Shop` and `Store` | none | |
| `Demo` | a small shop: the documents the last three are asked about | | |
| `Lists` | list comprehensions and sorting, of which the others make theirs | none | |
| `MCRules` | every operator of these, and `Trimming`, asked one question at a time | `subject` | one for each kind of question |
| `MCRateLimit`, `MCAgentTurn`, `MCSessionStore`, `MCCatalogue` | small instances | | |
| `Messages_proofs`, `Trimming_proofs`, `RateLimit_proofs`, `AgentTurn_proofs`, `SessionStore_proofs`, `ChatPage_proofs`, `Catalogue_proofs` | theorems about the module of that name; those about `ChatStream` are in `ChatPage_proofs` | | |
| `Rules_proofs` | theorems about `MCRules` and the modules it asks | | |

The modules without state model code that keeps none: a function from arguments
and a database to an answer is an operator. `MCRules` turns them into a state
machine for TLC: a message list and a stream grow one element a step, any other
question is a step from the initial state. An answer that may be one of several
is a set, and `{}` is Python's `None` or an exception.

A step is the code between two awaits, because nothing else of the same process
runs there. `Execute` is one step because MULTI/EXEC is one at the server;
`FallBack` is one step because `_check_in_process` awaits nothing; in the dict,
trim, write and purge are one step (`ReplyMemory`), over Redis the reply and the
SET are two.

### What is abstracted

- Message content: whether there is any text, how many tool calls, which call a
  result answers. In `SessionStore` a question also carries the request it came
  with, so that ownership and order can be stated.
- A member of the sorted set is the request itself, since its random token makes
  it unique.
- A tool is one event: it returns, perhaps with a product card. `execute_tool`
  turns every exception into an error reply, so it never fails visibly. What it
  computes is `Tools`.
- Documents keep the fields a rule, a scope or a list looks at; fields that are
  copied are left out. `Allowlist` has all the fields.
- A `.env` value is a word and whether it is tidy (blanks, case); the database
  line is a sequence of words and blanks, since comments matter there.
- Text, arguments and vectors are sequences of pieces, or tokens that are only
  compared. A stream's frame is unreadable, a token count, words, or fragments.
- MongoDB's `$vectorSearch` ranks by an order fixed in the database; Zatch's
  similarity scores are not computed.
- In the page an element is there, gone from the log but still referred to, or
  not made; layout and wording are left out.
- The models, the network and the client are nondeterministic: any answer, any
  error, a hang-up at any await.
- `_purge` sorts by `last_active`. In the dict's model no two writes share a
  timestamp, so the sort has one outcome.

### Variables that are not in the code

`RateLimit`: `execAt`, the real time at which a request claimed its slot (the
code has only stamps), and `skew`. `AgentTurn`: `speakers`, `products`,
`requests`. `SessionStore`: `sentWhole`, `thread` (the turns stored under a key
since a request found it empty), `env` (below). `ChatStream`: `produced`,
`received`, `connected`, and `stored`/`saveFailed` for what became of the save.
`SessionStore` also has `found`, the requests whose questions a request read back.
`speakers`, `products`, `requests`, `sentWhole`, `thread`, `found` and `received`
are only written. `env`, `skew`, `connected` and `produced` are the surroundings: they
decide what the network, the clocks and the client may do, never what the code
does. `stored` and `saveFailed` say whether the store has answered yet.

### The environments of `SessionStore`

What the store promises depends on what surrounds it. `env` is chosen in the
initial state from `Environments` and stays: do requests overlap (never, across
sessions, within one), was `get_redis()` settled before the first request, may
turns break off, may the first ping, a GET or a SET fail. A property that needs
calm names the calm it needs (`Unshared`, `Orderly`, `AlwaysRedis`); the others
are checked in every environment. One run so covers:

- `Crowded`: overlapping requests of one session, failing calls, broken turns;
- `Serial`: requests of a session one after the other, writes may be lost;
- `Cold`: a process asked for the first time by a request on its own;
- `Degraded`: the first ping may fail, and the dict serves until a restart;
- `ColdCrowd`: several requests meet a process that has not asked Redis yet.

## 3. Runs

| Run | Expect | Shows |
|---|---|---|
| `RateLimit_limiter` | pass | over both backends, two skewed workers and failing Redis calls: the window bounds, the bounded table, no leaked slot, the Retry-After promise |
| `RateLimit_strict` | violation | the docstring's "never over-permissive" counted by the limiter's own stamps |
| `AgentTurn_turn` | pass | every course of one turn: well-formed requests, portable hand-offs, one voice, one picture, the request budget, the outline, termination |
| `AgentTurn_severed` | violation | a stream lost after its first token ends as a finished reply |
| `SessionStore_redis` | pass | the five environments above |
| `SessionStore_memory` | pass | the dict with room for one session |
| `SessionStore_severed` | violation | over the dict, a cancelled turn leaves half an exchange in the stored history |
| `SessionStore_cold` | violation | the first requests after a restart can replace a stored history |
| `ChatStream` | pass | endings, saving, hang-ups and termination of a stream, and the page in front of it |
| `Catalogue` | pass | the migration of the embedded catalogue under kills, outages and searches |
| `Rules` | pass | what is computed without state: trimming, replies, providers, tokens, documents, log events, every tool, coupons |
| `Rules_coupon` | violation | a coupon's limit of two uses is never reached |

### Properties

**Rate limiter.** `RedisWindowBound` and `WorkerWindowBound` count grants by the
real time of the claim over `SafeWindow = Window - MaxLag - MaxSkew`: an entry's
stamp may be `MaxLag` older than its execution, and another worker's clock may
be `MaxSkew` ahead. This is the bound the code really keeps; the full window,
counted by stamps, is what `RateLimit_strict` refutes. `WorkerWindowBound` holds
for workers whose table had room for all their users (`Roomy`): at its cap the
table drops users inside their window, and such a user starts afresh.
`NoLeakedSlot` and `RetryAfterKept`, the promise of both paths, concern what the
refused leave behind and what they see. A request that Redis refused and whose
ZREM was answered holds no slot; of the refused one keeps its slot only where
the ZREM failed, or where the reply of its transaction was lost and the
in-process table then turned it away (`MayHold`). Over Redis a client that comes
back at its Retry-After finds fewer than `Allowance` of the slots granted
*before* its own claim still counted. Nothing can be promised about slots
claimed later: refused requests give theirs back, so with four requests one that
claims after the refused one can take a slot and carry the same stamp. In the
dict the promise is that the deque has room, for a user who has sent nothing
since.

**Turn.** `RequestsAreSound` (each tool call is answered before the next request;
a fallback provider gets no tool structure and a user turn last),
`EndsWithTheReply`, `OneVoice`, `OneProduct`, `RequestBudget`, `KeepsTheOutline`
(refinement of `TurnOutline`), `TurnEnds`.

**Session memory.** `ListsStayWhole` (what is sent and what is stored can be
answered by a model), `OwnHistoryOnly`, `KeepsRecentTurns` (what is stored is
exactly the last turns of the thread), `SavesExtend` (a save adds one turn to
what its own request read, also when another request saved, the key expired or
the read failed in between), `OneProbe`, `SessionsBounded`, `JustStoredStays`.

**Stream and page.** `OneEnding`, `DoneMeansSaved`, `NothingLeftRunning`,
`StreamEnds`, `ClientIsAnswered`; `NoLooseEnds` (when `send()` is over the composer
is free, nothing moves, and a question has its answer or a failure; before that
only a login that comes back into the open chat frees the composer), `PageIsFree`
(the composer comes back, unless the store never answers one of the three calls
a question waits for).

**Catalogue.** `NoRankedNoise` (a search never ranks the vectors of another
model than its query's), `MigrationCompletes`.

**Rules.** Each is one statement about one part, over every question of that
kind: `TrimsRight` (the loop is the definition without a loop, splits nothing,
and is repeatable); `RepliesAreWhole` (a reply streamed in any fragments is the
buffered one; vectors belong to their texts); `RealDataStaysPrivate` (on the
real database no provider that trains on prompts, however the line is written,
and no other left out); `NoQuietOutage` (a single provider, an expiring credit
and a lost database show in the level and in `/health`); `VerifiedUserOnly` (the
user is the one in the first configured claim that is not empty);
`OnlyListedLeaves`; `OwnAnswersOnly` (noninterference: the answer to any call
is the same over a database without what others keep private); `AnswersAreTrue`
(lists, cards, stock, the lines of a cart and their sum, late orders and offers
agree with the documents; a coupon is refused only for a reason that holds, and
said to be good only when nothing stands against it, `CouponsAreJudged`). Two
claims it leaves out, since the code breaks them: that a cart's discount is in its
total, and that a coupon's limit of two uses or more is kept (`UsageLimitHolds`,
with a violation run of its own).

Every property of a passing run is also tried against a mutated model: the
operators commented "Mutant" hold plausible mistakes, and `PROJECT.json` says
which property each one breaks.

### Bounds, and why they are enough

- `RateLimit_limiter`: three requests, two users, two workers, an allowance of
  one, a table for one user, a window of four ticks, lag and skew up to one. One
  request fills the allowance, the second is refused or races it, the third
  waits for the slot or fills the table with the other user. Stamps go out of
  order, both in the set and in a deque. The horizon lets an entry just expire.
  The theorems cover all other sizes.
- `RateLimit_strict`: four requests of one user, an allowance of two, lag two.
- `AgentTurn`: two providers are one failover; the third would repeat the second.
  `MaxToolIterations = 3` is the code's value; one retry (the code has two) shows
  both "again" and "no more"; two calls a round distinguish the last from the
  others. Histories are empty or hold an old tool exchange, so that flattening
  meets one.
- `SessionStore_redis`: three requests of two users on one session id; two turns
  are kept, so the third cuts; two calls a round, so a list can be half answered;
  a TTL of one tick and two ticks, so keys expire in between.
- `SessionStore_memory`: four requests and room for one session, so that eviction
  and expiry hit a session that is read again.
- `ChatStream`: two events, so that a token can follow a card or a card a token;
  one stream, since streams share nothing but the store, which is
  `SessionStore`'s subject; two logins, so that one comes back into a chat in which
  an answer is under way; two chats, two taps, so that a sheet's answer may arrive
  in the next sheet. The theorems cover any number of events, logins, chats and taps.
- `Catalogue`: three products, two edits, two kills or outages; the new model's
  vectors as wide as the old ones or wider. Two faults allow one before and one
  after the first restart of the script.
- `Rules`: six messages hold two turns with exchanges and a leading remainder;
  limits 1 to 3. Four frames hold two calls of two fragments, or one with noise
  between. Documents of two fields with two sub-fields and allowlists of three
  paths have every order of a parent and its parts. Credit days and coupon dates
  are the ones at and next to a limit. The list cap is two and the shop has
  five products, so lists are cut. One cart has a discount and one has none. Each
  document, the search index, the embedding endpoint and the vectors are left out
  in turn, so that every `None` and every empty answer is met.

Symmetry is used only where model values are merely compared and no liveness
property is checked.

### Fairness

- `AgentTurn`: weak fairness of `Progress`. A provider request ends because httpx
  has a timeout and raises when it expires; a tool's database reads end too.
  Nothing makes a client hang up or a token arrive.
- `ChatStream`: weak fairness of the task where it waits for nothing but its turn
  (`Converse`: it begins, its turn gives a reply, it ends or is cancelled), of the
  generator, and of writing a frame (or finding the connection dead). A turn ends by
  `TurnEnds`. Nothing is assumed of the store, since the Redis client is created
  without a timeout: `Saved`, `SaveFails` and `Raises`, the ways out of a save, have
  no fairness, and `StreamEnds` and `ClientIsAnswered` say "unless the store never
  answers".
- `ChatPage`: besides, that a request which has its history is answered (`Respond`)
  or loses its connection, and that the browser runs `send()` on when there is a
  frame or the connection is known to be lost. Before that the request waits for the
  store twice, for the limiter and for `get_session`; `Admit`, `Refuse` and `Load`
  have no fairness, so either call may hang. `PageIsFree` excepts a store that stays
  silent to a client that stays: `fetch` has no timeout either, so such a composer
  does stay disabled. A lost connection is one that both ends learn of. Nothing
  makes the user do anything.
- `Catalogue`: weak fairness of the script's steps, of Atlas, of the end of an
  outage, and of the operator, who stops the pipeline and starts the script again
  until it is done; strong fairness of a successful embedding, as an endpoint that
  never answers would leave nothing to complete.
- `RateLimit` and `SessionStore` are checked for safety only: nothing is assumed
  of Redis. `RateLimit` bounds the time a request waits for it by `MaxLag`.

## 4. Proofs

Every theorem holds for all values of the constants that satisfy the modules'
assumptions: any finite set of requests, any users, workers and sessions, any
limits and windows, any number of providers, retries, rounds and events. The
assumptions ask for natural numbers, not zero where the code's setting has to be
positive, and for histories that end in whole exchanges.

### Rate limiter (`RateLimit_proofs`)

| Theorem | Says |
|---|---|
| `TypeCorrect` | `Spec => []TypeOK` |
| `RedisNeverOverGrants` | `Spec => []RedisWindowBound` |
| `WorkerNeverOverGrants` | `Spec => []WorkerWindowBound` |
| `TablesStayBounded` | `Spec => []TableBounded` |
| `RefusedGiveBack` | `Spec => []NoLeakedSlot`: which requests may hold a slot, the refused among them |
| `ClientsAreNotSentBackEarly` | `Spec => []RetryAfterKept` |

*Redis.* The bound is not inductive: `Grant` acts on a count taken earlier, and
entries have been pruned and removed since. `RedisInv` therefore speaks of
holders: requests that are granted, or executed with a reply that allows them.
`LagInv` says how old a pending request's stamp may be; `EntryInv`, that a
holder's entry is in the set, and its key alive, for as long as it counts in a
safe window; `HolderBound`, that no safe window has more than `Allowance`
holders. A new holder is made only by `Execute`: everything that held within the
safe window before it has a stamp inside the window it prunes by, so it is still
in the set and is counted (`HoldersAreClaimed`). The other steps only lose
holders (`QuietStep`), and every granted request is one.

*Worker.* `WorkerInv` says that a deque holds requests its worker let through for
that user (`TableInv`), and that a worker whose table has had room still has every
grant of the safe window in the deque (`DequeInv`), although its stamps need not
be sorted: pruning from the left stops at the first live stamp, so it can only
keep more (`PruneKeeps`). With no more users than places `_evict_idle_users`
returns without dropping anyone, which is where `Roomy` enters.

*Table and slots* follow from the type invariant and small lemmas on
cardinalities.

*Retry-After.* Over Redis `RetryInv` has two counts. `FewBehind`: behind no entry
of a set, by more than lag and skew, are as many as `Allowance` holders, since the
last of them to claim would have been refused. `FewBefore`: of the holders that
claimed before a refused request, fewer than `Allowance` are behind the entry its
wait was computed from. That entry may have gone in the meantime, which is why the
count is kept per request and not read off the set. In the dict `HereInv` says that
a refusal stands: until the user sends something else, the head the wait was
computed from is still the head of a deque of exactly `Allowance` stamps.

### Message lists (`Messages_proofs`, `Trimming_proofs`)

| Theorem | Says |
|---|---|
| `FlattenIsPortable` | `_flatten_tool_exchanges` turns any list that ends with a question or a result into one any provider accepts |
| `TrimmedIsWhole` | `_trim_to_recent_turns` never parts a tool call from its results |
| `TrimmedEnds` | it keeps the prompt first and the last message last |
| `TrimmedIsShort` | it keeps no more than `n` questions |
| `TrimmedIsFull` | where it cuts, it keeps exactly `n` |
| `TrimmedStays` | trimming again changes nothing |
| `TrimmingKeepsRecentTurns` | the code's loop, `TrimByTurns`, is `RecentTurns` |

The lists have any length. `Flatten` is a loop that carries the results it has
collected; what it has built after `i` messages is proved for every `i` by
`SetInduction`, which is induction stated for a set.

The first trimming theorems are about `RecentTurns`. Their key lemma is that the
last `n` of a finite set of positions begin at one of them (`LastOnes`), so the cut
is where a question is. `TrimmingKeepsRecentTurns` then ties them, and with them
all that is proved of the session store, to the loop of `_trim_to_recent_turns`:
`Marks` says where each of the turns collected so far begins, a message opens a
turn (`TurnOpened`) or goes on with the last (`TurnGoesOn`), and joining the last
`n` turns is the list from the `n`-th last mark on (`LastTurnsJoined`), which is
where `RecentTurns` cuts (`CutIsMarked`). That a loop runs through, so that the
function it is defined by exists, is `StepsRunThrough`.

### Conversation turn (`AgentTurn_proofs`)

| Theorem | Says |
|---|---|
| `OneVoiceSpeaks` | `Spec => []OneVoice` |
| `OneProductShown` | `Spec => []OneProduct` |
| `BudgetKept` | `Spec => []RequestBudget` |
| `RepliesAreKept` | `Spec => []EndsWithTheReply` |
| `RequestsStaySound` | `Spec => []RequestsAreSound` |
| `OutlineKept` | `Spec => KeepsTheOutline`: the turn implements `TurnOutline` |

The invariant `IInv` has a part for each. `InPlace`: the loop counters are inside
their bounds and tools run only in the loop. `VoiceInv`: tokens come from the
attempt under way, and there are none until `streamedAny`. `CardInv`: the flag
counts the cards. `BudgetInv`: the requests so far are at most those of the
questions done, the providers given up and the attempts made. `ListInv`: the list
is whole whenever a model is asked; while tools run it is `Owing`, whole but for
the last calls of the open exchange. `Owing` is the only thing that tells which
result must come next, so it is what the step of a tool's result needs.

The refinement maps a turn's place to the stage of the outline and the calls still
open to what it owes. `NextOutline` shows for each action the action of the
outline it is: a failing attempt is none, a round's last result is one.

### Session memory (`SessionStore_proofs`)

| Theorem | Says |
|---|---|
| `OneProbeAtATime` | `Spec => []OneProbe` |
| `DictIsBounded` | `Spec => []SessionsBounded` |
| `WrittenSessionStays` | `Spec => JustStoredStays` |
| `HistoryIsOwn` | `Spec => []OwnHistoryOnly`, in every environment |
| `ListsAreWhole` | `Spec => []ListsStayWhole` |
| `RecentTurnsAreKept` | `Spec => []KeepsRecentTurns` |
| `SavesOnlyExtend` | `Spec => SavesExtend`, an action property |

`OneProbe` holds because whoever waits for the ping has set `checked` first.
`DictInv` says that no two entries share a timestamp and none lies in the future:
so the oldest entries exist (`SomeAreOldest`), `_purge` drops exactly as many as
are over, and never the one just written. For `HistoryIsOwn` a list is not safe by
itself, since over the dict requests share lists and a request may outlive the
entry its list came from. `Owned` therefore says of the lists of requests, of
those in the dict, and of the heap's own and saved lists, whose questions may be
in them: those of requests with the same key.

The last three share the invariant `ListInv`. It has to answer who else may write
the list a request works on, and what a store holds between two turns:

- `Apart` says which handlers may be under way together, `Backends` that there is
  one backend (`DictOnly`, `RedisOnly`). The latter speaks of the moment in which
  `checked` is set and `client` is not: there, only the request that pings is in
  the process. From the two follows that no step writes a list another handler
  is using (`Alone`, `OthersKeep`), where `Unshared` holds; where requests of a
  session overlap over the dict it is false (section 5).
- `WorkInv` says for each place of the handler what its list is (`Fit`): what was
  found; that and the question, whole; `Owing` while tools run; ended by the
  answer while it is being saved.
- `StoreInv` says the same of the stores: every entry can be gone on with, is no
  longer than the limit, and has the questions last asked (`RedisKept`,
  `DictKept`). A dict entry is excepted while its list is `Held` by a turn, which
  appends to it in place; it is `TurnsFollow` that carries the questions over.
- `FindsStored`: over Redis a turn found what is still there when it saves.

What trimming does to the order of questions is `TrimmedAskers`: the askers of the
trimmed list are the last `MaxTurns` of the list's. `Askers` is a selection from a
sequence; `CountingRuns` states it as a count that runs along the list, so that
appending a message is one step of it (`AskersAppend`). With `LastOfAppend`, that
trimming before or after a question more makes no difference, a save turns
the last `MaxTurns` of the thread into the last `MaxTurns` of the longer thread.

### Stream and page (`ChatPage_proofs`)

| Theorem | Says |
|---|---|
| `TypeCorrect` | `Spec => []TypeOK` |
| `OneEndingOnly` | `Spec => []OneEnding` |
| `DoneAfterSave` | `Spec => []DoneMeansSaved` |
| `TaskStopsWithStream` | `Spec => NothingLeftRunning` |
| `PageIsLeftClean` | `PageSpec => []NoLooseEnds`, for any number of logins |
| `PageKeepsTheStream` | behind the page the stream keeps the guarantees above |

The stream's invariant is about the pipeline: what the client has, the frame being
written, and the queue, as one sequence. While the task is not over it holds
events only (`OnlyEvents`), so whatever the task puts last is the only ending. The
generator's steps move items along the pipeline or lose one, when the client has
gone, and the order survives that (`OrderedWithout`). `Control` adds that a
closed generator has cancelled a task that was not over.

The page adds `EndInv`: a client that is still there has been told the ending
before the stream closes. `Tidy` says what an open `send()` has left in the log
after each frame, and that the composer is disabled exactly while one is under
way, or has been freed by a login that came back into the open chat
(`demo_ui.py:467`); from that, that a `send()` that ends leaves nothing open.

### Catalogue (`Catalogue_proofs`)

| Theorem | Says |
|---|---|
| `NoNoiseIsRanked` | `Spec => []NoRankedNoise` |

The invariant is `OneModel`: what is stored is of one model; from the first insert
on it is ours; and once a search has sampled a document of our model it stays so,
because the pipeline is stopped before the script starts and its re-embedding is
the only way back.

### Rules (`Rules_proofs`)

| Theorem | Says |
|---|---|
| `ListsAreTrimmedRight` | `Spec => []TrimsRight` |
| `RealDataIsKeptPrivate` | `Spec => []RealDataStaysPrivate` |
| `NoOutageIsQuiet` | `Spec => []NoQuietOutage` |
| `OnlyVerifiedUsers` | `Spec => []VerifiedUserOnly` |
| `ListedIsAllThatLeaves` | `Spec => []OnlyListedLeaves` |
| `EveryReplyIsWhole` | `Spec => []RepliesAreWhole` |
| `OnlyOwnAnswers` | `Spec => []OwnAnswersOnly` |
| `EveryCouponIsJudged` | `Spec => []CouponsAreJudged`, a part of `AnswersAreTrue` |
| `DatabaseIsTheOneRead` | the database a settings line names is the one a person reads in it, for any line |
| `NothingPrivateIsTold` | `ExecuteTool` over a database answers as over what of it is the user's or anyone's, for every database, tool, argument and user |
| `NoOtherBusinessIsTold` | the same of `seller_repo.py` and another seller's business |
| `VerdictsHold` | `check_coupon_validity` refuses a coupon whose code is its own only for a reason that holds, and overlooks nothing but a limit of two or more |
| `ShownListsAreSound` | what `_trim_product_list` leaves of a list of any length: at most the cap, in order, no twins, none left out without a reason |
| `SchemasAreAccepted` | a call by its schema reaches its tool |
| `OffersAreClose` | an offer is within half a unit of the deepest discount |
| `LateOrdersAreLate` | days late are whole days since an order was due |

`Spec` is that of `MCRules`, whose questions come from sets that do not depend on
the constants but for the bounds of lists, streams and links. What makes these
theorems say more than the run is where their content lies: in lemmas without
those sets. `NothingUnlistedLeaves`, `WhatIsListedStays` and
`NothingIsLostInProjection` hold for every document and every list of paths of
one or two names, `SecretsDoStayOut` for links of any number and any depth of
redaction, `ListsAreTrimmedRight` for lists and limits of any size,
`UserIsNamed` for every list of claims, `NothingPrivateIsTold` for every database.

Most invariants are small (`Shape`, `ListInv`, `ChainInv`, `LoginInv`, `PaperInv`,
`EmbeddingInv`, `RefusalInv`, `GapInv`, `JudgeInv`): a question keeps the form it
was put in. `EveryStepHasItsOrigin` says which action a subject of a kind comes
from. The exception is `StreamInv`, which ties the frames sent so far to the
message the provider is sending. The work is in the loops:

- a comprehension (`Only`) has exactly the members it asks for, in order
  (`OnlyRuns`, `OnlyNth`, `OnlyMembers`); the n-th of a set of numbers is no
  choice (`NthIsUnique`);
- the allowlist's tree is built path by path; `TreeSays` is what it says after
  each path, whatever the order of a parent and its parts (`PathAddedFacts`,
  `TreeIsRight`);
- the walk of the redaction ends at the first link that ends it (`FirstEndIs`,
  `FateIsOfFirstEnd`);
- the fifteen real allowlists are checked path by path: none lists a forbidden
  field as a whole (`Blameless`), and none a field and a part of it
  (`PartsDoNotCollide`);
- `stream()` reads a reply frame by frame. After each frame the calls it has put
  together are those said so far, and the words heard are the words said: that is
  `StreamInv`, and a step of it for each kind of frame. `StreamedIsBuffered` then
  compares the end with `complete()`, where a call without a name is dropped;
- batches of texts joined are the texts (`BatchesJoin`), so vectors put back by
  their index are each the one of its own text, or the batch is short and none
  is used (`AlignedOrNone`);
- `CutDown` says what `_trim_product_list` has made of the first `k` products;
  `AddedLine` is one product more.

*Noninterference.* `Hides(less, db, user)` says of two databases that the one is
the other as far as it is this user's or anyone's, and `VisibleHides` that
`Visible` makes it so. The proof follows a call down: each query of the
repositories asks of a collection only what the two have in common. Documents of
other buyers are filtered out first (`OrdersAgree`, `OwnDocumentsAgree`); what is
read of another user's record is the name, the rating and whether they sell
(`UsersAgree`, `FollowListsAgree`); of a coupon's list of uses, only whether this
user is in it (`CouponsAgree`), which needs that blanking the lists makes no two
coupons one: they were written at different times. A tool that asks for an id
gets the caller's, whatever the model wrote (`TheirOwnId`). `GapsLeaveADatabase`
brings the small shop of the runs, with any document missing, under the theorem.

*Coupons.* A user is counted as many times as there are documents of that code
with the user in the list: one at most, where the code is the coupon's own
(`OneCouponIsCountedOnce`). Hence a limit of 0 or 1 is kept, and a larger one is
overlooked (`Overlooked`), which is the disagreement of `UsageLimitHolds`.

### What the proofs found

- `EveryResultOwned` said that some earlier message has calls, not that the result
  answers one of *those*; `Owing` could not be carried through a round. It now
  asks for an id among the calls of that message.
- `RetryAfterKept` was stated of all grants and held for three requests only. The
  induction fails when a refused request gives its slot back between two later
  claims; TLC then showed it with four requests. The statement is now about the
  grants before the claim.
- `RealDataStaysPrivate` compared the name the code reads with one found by the
  same search for a comment. It now asks what a person reads: the only word before
  the first `#` (`SaysReal`), and that the two agree is `DatabaseIsTheOneRead`.

### Only model-checked

- Liveness (`TurnEnds`, `StreamEnds`, `ClientIsAnswered`, `PageIsFree`,
  `MigrationCompletes`): fairness and `ENABLED` are out of the prover's reach.
- `AnswersAreTrue`. One part, `CouponsAreJudged`, is a theorem of its own. Of the
  others, that calls by the schema are accepted, that lists are short and without
  twins, that offers are close and that late orders are late follow from lemmas
  proved for inputs of any size (see the table). The rest speaks of lists in the
  order of a sort: `SetToSortSeq` of the community modules is a choice of which
  nothing follows where keys are equal, so whether what is shown is for sale, or
  in the order of the ranking, stays with TLC, which sorts as the library is
  implemented. So does the sum of a cart, a fold whose definition is induction
  over sets.

## 5. Where the code and its claims part

1. **Over-permissive by a burst** (`RateLimit_strict`). The stamp is taken before
   two awaits. A transaction with a later stamp may run first and prune entries
   that one with an earlier stamp should have counted.
2. **A severed stream looks finished** (`AgentTurn_severed`). After the first
   token a failure is re-raised by `_complete_with_failover`, but
   `run_conversation` catches it like any other and returns an apology, so the
   endpoint sends `done`; `test_streaming.py` says it is reported as an error.
3. **Half an exchange in the dict** (`SessionStore_severed`). `get_session`
   returns the stored list, the turn appends its tool call to it, and a hang-up
   during the lookup leaves the call there unanswered.
4. **History lost after a restart** (`SessionStore_cold`). `_checked` is set
   before the ping returns. A request in that gap is told there is no Redis,
   reads the empty dict, and later saves its one turn over the history in Redis.
5. **Two uses that count as one** (`Rules_coupon`). `count_documents` counts the
   coupon documents whose `usedBy` holds the user, and there is one, however
   often the user is in the list: a `maxUsagePerUser` of two or more never
   refuses anybody.

Seen on the way, with no run of their own:

- Two overlapping requests of one session share the dict's list, so one may send
  the other's unanswered tool call (the same line as 3; `ListsStayWhole` asks for
  `Unshared`). Over Redis the last of them to save drops the other's turn.
- A model may send words with its tool calls, so tokens can precede a lookup,
  where a comment in `chat.py` says they cannot.
- At its cap the limiter's table resets active users.
- `complete` lets `KeyError` and `TypeError` of an unexpected body through, where
  its docstring (lines 589-590) names only `LLMError`s. `stream` drops an
  unreadable frame, and with it a piece of a call's arguments.
- A key of blanks counts as configured for the providers whose settings
  `blank_means_unset` does not cover, against the comment at `settings.py:516-519`.
- `get_sales_performance` asks for `monthlyRevenue` and `yearlyRevenue`, which the
  allowlist leaves out (`field_allowlist.py:253`), so both are always empty.
- The discount of a cart is never taken off. `get_cart` returns the items and their
  number only (`carts_repo.py:73`), so `_enrich_cart` finds no discount and
  subtracts 0, although the allowlist asks MongoDB for the field
  (`field_allowlist.py:128`) and `carts_repo.py:33-35` says the total spoken is
  correct. The demo shop has a cart with a discount. Of discounts `CartAddsUp` says
  only that none is made up.
- Saved and session products come back in the database's order, not in the
  list's (`livesessions_repo.py:58` says they are ordered). A card may show a
  product below the cut when none above it has a photo.
- A catalogue with embeddings of both models, which a pipeline started again
  leaves, goes unnoticed: one sampled document's tag decides (`embeddings.py:42-44`).
  Where both models are equally wide, `find_similar_products` may read its vector
  before a migration and rank by it after. The model tag says 1536 dimensions
  although these are a setting.
- `embed_texts` compares the total count: a batch too short and one too long would
  cancel out. `VectorsAligned` assumes that the endpoint answers no batch too long.
- In the page, New chat during an answer leaves `send()` writing: a bubble that has
  not begun is made in the new log. `done` before a lost connection shows an answer
  and a failure. Enter twice at the login gate starts two logins; the later answer
  swaps the user and frees the composer during an answer, which `NoLooseEnds` allows
  and names (`gate.again`). `fetch` has no timeout of its own.
- `get_followers_following` raises `ValueError` for a kind that is neither
  followers nor following; `execute_tool` makes an error reply of it.

## 6. Not modelled, and the plan

Not modelled, and why:

- A second question asked while the first is being answered, after a second login
  has freed the composer (`demo_ui.py:467`). The model has the login, and that the
  composer is free; it does not start the second `send()`.
- The spelling of a session's key. The code joins user and session by a colon, so
  that user `a:b` with session `c` and user `a` with session `b:c` have one key;
  `Key` is a pair. Zatch's ids are hexadecimal and have no colon.

- `jwt_secret_weakness`, the preflight reports and log output: they print and
  change nothing.
- `get_sales_performance`, `get_all_categories`: a query and a projection, which
  `Sanitizer` covers.
- Middleware and exception handlers of `main.py`, the static markup and styles of
  the page, suggestion chips, the two schemas, the descriptions of the tools.
- Prompt text, and what a model makes of it.
- The scripts but `reembed_catalogue.py`: run by hand against a stopped or a test
  system, one awaited call after the other; nothing reads what they keep while
  they run.

What could come next:

1. Sorting in `Store` as a choice that says how ties are broken, so that what is
   in a sorted list can be proved and with it the rest of `AnswersAreTrue`.
2. A second `send()` beside the first in `ChatPage`. Two logins make it possible
   today; what the log then shows is not modelled.
