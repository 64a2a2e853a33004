----------------------------- MODULE AgentTurn -----------------------------
(***************************************************************************)
(* One turn of conversation: app/agent/orchestrator.py.                    *)
(*                                                                         *)
(* run_conversation asks a model at most MaxToolIterations times, runs the *)
(* tools it calls, and then asks once more for words only                  *)
(* (_synthesize_final_answer).  Every question goes through                *)
(* _complete_with_failover: the providers in order, several attempts each  *)
(* for a malformed tool call, and no second attempt once a token has       *)
(* reached the user.                                                       *)
(***************************************************************************)
EXTENDS Messages, FiniteSets

CONSTANTS
    MaxProviders,       \* bound: length of get_providers()
    MaxToolIterations,  \* 3 in the code
    MaxRetries,         \* MAX_RETRIES_ON_MALFORMED_OUTPUT, 2 in the code
    MaxCalls,           \* bound: tool calls in one completion
    Histories           \* stored histories; <<>> stands for None

SynthesisAttempts == 2

ASSUME AgentAssumption ==
    /\ MaxProviders \in Nat
    /\ MaxToolIterations \in Nat \ {0}
    /\ MaxRetries \in Nat
    /\ MaxCalls \in Nat
    /\ Histories \subseteq Seq(Message)
    /\ \A h \in Histories : WholeExchanges(h)

VARIABLES
    pc,             \* where the turn is
    numProviders,   \* length of get_providers(); 0: it raises
    streaming,      \* on_event is given (/chat/stream)
    messages,       \* the list, mutated in place
    phase,          \* "loop", or "synthesis" after it
    round,          \* iterations of the current phase already used up
    position,       \* the provider being asked
    attempt,        \* its retries so far
    streamedAny,    \* a token of this question has reached the user
    batch,          \* tool calls of the open exchange
    answered,       \* how many of them have their result
    productShown,   \* product_shown
    products,       \* product events sent
    speakers,       \* attempts of this question that sent a token
    requests,       \* requests sent to providers in the whole turn
    reply           \* how the turn ended

question == <<phase, round>>
call == <<position, attempt, streamedAny, speakers>>
tools == <<batch, answered, productShown, products>>
setting == <<numProviders, streaming>>
vars == <<pc, setting, messages, question, call, tools, requests, reply>>

-----------------------------------------------------------------------------
Errors == {"rateLimited", "unavailable", "badRequest", "toolUseFailed"}
Fallbacks == {"busy", "unavailable", "generic"}

Fallback(error) ==
    CASE error = "rateLimited" -> "busy"
      [] error = "unavailable" -> "unavailable"
      [] OTHER -> "generic"

TypeOK ==
    /\ pc \in {"start", "asking", "tools", "running",
               "done", "raised", "cancelled"}
    /\ numProviders \in 0..MaxProviders
    /\ streaming \in BOOLEAN
    /\ messages \in Seq(Message)
    /\ phase \in {"loop", "synthesis"}
    /\ round \in Nat
    /\ position \in Nat
    /\ attempt \in 0..MaxRetries
    /\ streamedAny \in BOOLEAN
    /\ batch \in 0..MaxCalls
    /\ answered \in 0..MaxCalls
    /\ productShown \in BOOLEAN
    /\ products \in Nat
    /\ speakers \in SUBSET (Nat \X Nat)
    /\ requests \in Nat
    /\ reply \in {"none", "text"} \union Fallbacks

Init ==
    /\ pc = "start"
    /\ numProviders \in 0..MaxProviders
    /\ streaming \in BOOLEAN
    /\ messages \in Histories
    /\ phase = "loop"
    /\ round = 0
    /\ position = 1
    /\ attempt = 0
    /\ streamedAny = FALSE
    /\ batch = 0
    /\ answered = 0
    /\ productShown = FALSE
    /\ products = 0
    /\ speakers = {}
    /\ requests = 0
    /\ reply = "none"

-----------------------------------------------------------------------------
(***************************************************************************)
(* Entering _complete_with_failover, and leaving the turn.                 *)
(***************************************************************************)
\* A new question starts over at the first provider, with nothing streamed.
AskAgain ==
    /\ pc' = "asking"
    /\ position' = 1
    /\ attempt' = 0
    /\ streamedAny' = FALSE
    /\ speakers' = {}

\* Mutant: the loop ends and nobody puts the last results to a model.
GiveUpAfterLoop ==
    \/ /\ round + 1 < MaxToolIterations
       /\ round' = round + 1
       /\ AskAgain
       /\ UNCHANGED phase
    \/ /\ round + 1 >= MaxToolIterations
       /\ pc' = "done"
       /\ UNCHANGED <<question, call>>

\* The end of an iteration: another one, or the synthesis.
NextRound ==
    /\ AskAgain
    /\ \/ /\ round + 1 < MaxToolIterations
          /\ round' = round + 1
          /\ UNCHANGED phase
       \/ /\ round + 1 >= MaxToolIterations
          /\ round' = 0
          /\ phase' = "synthesis"

\* Mutant: the words are returned but not recorded.
ReplyUnrecorded(text) ==
    /\ pc' = "done"
    /\ reply' = text
    /\ UNCHANGED messages

\* _reply_with: the apology is kept in the history too.
ReplyWith(text) ==
    /\ pc' = "done"
    /\ reply' = text
    /\ messages' = Append(messages, Answer)

\* messages = history or a fresh prompt; append the user's message.
Begin ==
    /\ pc = "start"
    /\ messages' = (IF messages = <<>> THEN <<SystemPrompt>> ELSE messages)
                     \o <<UserTurn>>
    /\ AskAgain
    /\ UNCHANGED <<setting, question, tools, requests, reply>>

\* build_system_prompt reads the database, and is not guarded.
PromptFails ==
    /\ pc = "start"
    /\ messages = <<>>
    /\ pc' = "raised"
    /\ UNCHANGED <<setting, messages, question, call, tools, requests, reply>>

-----------------------------------------------------------------------------
(***************************************************************************)
(* One request to a provider.                                              *)
(***************************************************************************)
\* Mutant: every provider gets the history as recorded.
CallMessagesAsRecorded == messages

\* What is sent: only a fallback provider gets the history de-structured.
CallMessages ==
    IF position > 1 /\ HasToolHistory(messages)
    THEN Flatten(messages)
    ELSE messages

Asked == pc = "asking" /\ position <= numProviders

\* A fragment of text arrives while the answer is being streamed.
Token ==
    /\ Asked
    /\ streaming
    /\ streamedAny' = TRUE
    /\ speakers' = speakers \union {<<position, attempt>>}
    /\ UNCHANGED <<pc, setting, messages, question, position, attempt, tools,
                   requests, reply>>

\* Words, and in the loop no tool calls: the answer.
AnswerWords ==
    /\ Asked
    /\ streaming => streamedAny
    /\ ReplyWith("text")
    /\ requests' = requests + 1
    /\ UNCHANGED <<setting, question, call, tools>>

\* Mutant: an empty answer in the loop does not use up an iteration.
AnswerBlankForFree ==
    /\ Asked
    /\ phase = "loop"
    /\ requests' = requests + 1
    /\ AskAgain
    /\ UNCHANGED <<setting, messages, question, tools, reply>>

\* Neither words nor, in the loop, tool calls.  Blank text can be streamed.
AnswerBlank ==
    /\ Asked
    /\ requests' = requests + 1
    /\ \/ /\ phase = "loop"
          /\ NextRound
          /\ UNCHANGED <<messages, reply>>
       \/ /\ phase = "synthesis"
          /\ round + 1 < SynthesisAttempts
          /\ round' = round + 1
          /\ AskAgain
          /\ UNCHANGED <<messages, phase, reply>>
       \/ /\ phase = "synthesis"
          /\ round + 1 >= SynthesisAttempts
          /\ ReplyWith("generic")
          /\ UNCHANGED <<question, call>>
    /\ UNCHANGED <<setting, tools>>

\* Tool calls, with or without words.  The synthesis ignores tool calls.
AnswerCalls ==
    /\ Asked
    /\ phase = "loop"
    /\ \E n \in 1..MaxCalls, text \in BOOLEAN :
          /\ streaming => text = streamedAny
          /\ messages' = Append(messages, ToolCalls(n, text))
          /\ batch' = n
    /\ answered' = 0
    /\ pc' = "tools"
    /\ requests' = requests + 1
    /\ UNCHANGED <<setting, question, call, productShown, products, reply>>

\* The same provider is asked again, for a malformed tool call only.
Retries(error) == error = "toolUseFailed" /\ attempt < MaxRetries

\* Mutant: a token that has reached the user is forgotten.
MayGoOnRegardless == TRUE

MayGoOn == ~streamedAny

\* The request fails: retry it, fail over, or give up.  A status arrives
\* before any token; after one, only the connection can fail.
Fails(error) ==
    /\ Asked
    /\ streamedAny => error = "unavailable"
    /\ requests' = requests + 1
    /\ \/ /\ MayGoOn
          /\ Retries(error)
          /\ attempt' = attempt + 1
          /\ UNCHANGED <<pc, messages, position, reply>>
       \/ /\ MayGoOn
          /\ ~Retries(error)
          /\ position < numProviders
          /\ position' = position + 1
          /\ attempt' = 0
          /\ UNCHANGED <<pc, messages, reply>>
       \/ /\ ~MayGoOn \/ (~Retries(error) /\ position = numProviders)
          /\ ReplyWith(Fallback(error))
          /\ UNCHANGED <<position, attempt>>
    /\ UNCHANGED <<setting, question, streamedAny, speakers, tools>>

\* Mutant: the call waits for a provider to be configured.
NoProviderWaits ==
    /\ pc = "asking"
    /\ numProviders = 0
    /\ UNCHANGED vars

\* get_providers raises NoProviderConfigured, an LLMUnavailable.
NoProvider ==
    /\ pc = "asking"
    /\ numProviders = 0
    /\ ReplyWith("unavailable")
    /\ UNCHANGED <<setting, question, call, tools, requests>>

\* A reply of a shape nobody expects (a tool call without its id, a chunk
\* that is not an object): the KeyError or AttributeError is not caught.
Malformed ==
    /\ Asked
    /\ pc' = "raised"
    /\ requests' = requests + 1
    /\ UNCHANGED <<setting, messages, question, call, tools, reply>>

-----------------------------------------------------------------------------
(***************************************************************************)
(* The tool calls of one completion, in order.                             *)
(***************************************************************************)
GiveResult ==
    /\ messages' = Append(messages, ToolResult(answered + 1))
    /\ answered' = answered + 1
    /\ \/ /\ answered + 1 < batch
          /\ pc' = "tools"
          /\ UNCHANGED <<question, call>>
       \/ /\ answered + 1 = batch
          /\ NextRound

\* Arguments that are not a JSON object are answered with an error.
BadArguments ==
    /\ pc = "tools"
    /\ GiveResult
    /\ UNCHANGED <<setting, batch, productShown, products, requests, reply>>

\* The lookup is announced and awaited.
StartTool ==
    /\ pc = "tools"
    /\ pc' = "running"
    /\ UNCHANGED <<setting, messages, question, call, tools, requests, reply>>

\* Mutant: every product card is passed on.
FinishToolWithCard ==
    /\ pc = "running"
    /\ GiveResult
    /\ \E card \in BOOLEAN :
          /\ productShown' = (productShown \/ (streaming /\ card))
          /\ products' = IF streaming /\ card THEN products + 1 ELSE products
    /\ UNCHANGED <<setting, batch, requests, reply>>

\* It returns, perhaps with a product card; only the first one is passed on.
FinishTool ==
    /\ pc = "running"
    /\ GiveResult
    /\ \E card \in BOOLEAN :
          /\ productShown' = (productShown \/ (streaming /\ card))
          /\ products' = IF streaming /\ card /\ ~productShown
                         THEN products + 1 ELSE products
    /\ UNCHANGED <<setting, batch, requests, reply>>

\* The client of /chat/stream hangs up: CancelledError at the current await.
Cancel ==
    /\ streaming
    /\ pc \in {"asking", "running"} \/ (pc = "start" /\ messages = <<>>)
    /\ pc' = "cancelled"
    /\ UNCHANGED <<setting, messages, question, call, tools, requests, reply>>

-----------------------------------------------------------------------------
Over == pc \in {"done", "raised", "cancelled"}

\* A turn that is over stays so: the only stuttering allowed at the end.
Finished == Over /\ UNCHANGED vars

Outcome == AnswerWords \/ AnswerBlank \/ AnswerCalls \/ Malformed
             \/ \E error \in Errors : Fails(error)

Progress ==
    \/ Begin
    \/ Outcome
    \/ NoProvider
    \/ BadArguments
    \/ StartTool
    \/ FinishTool

Next == Progress \/ PromptFails \/ Token \/ Cancel \/ Finished

(***************************************************************************)
(* Every request ends: httpx has a timeout and raises when it expires, and *)
(* so do the database reads of a tool.  Nobody has to hang up or be heard. *)
(***************************************************************************)
Spec == Init /\ [][Next]_vars /\ WF_vars(Progress)

-----------------------------------------------------------------------------
(***************************************************************************)
(* Properties.                                                             *)
(***************************************************************************)

(* Every tool_call id is answered before the next request is sent, however *)
(* many rounds, bad arguments and failovers there were: an unanswered one  *)
(* makes the request invalid (run_conversation, lines 592-594).  And a     *)
(* fallback provider never receives structured tool calls or results made  *)
(* by another, nor a model turn last (_flatten_tool_exchanges).            *)
RequestsAreSound ==
    pc = "asking" =>
        /\ WholeExchanges(messages)
        /\ position > 1 => Portable(CallMessages)

(* A turn that ends normally leaves a history the next turn can send: all  *)
(* exchanges whole, and the words the user read as its last message.       *)
EndsWithTheReply ==
    pc = "done" => /\ WholeExchanges(messages)
                   /\ messages[Len(messages)] = Answer
                   /\ reply # "none"

(* Once a token has reached the user there is no going back: the tokens of *)
(* one question come from one attempt of one provider                      *)
(* (_complete_with_failover, streamed_any).                                *)
OneVoice == Cardinality(speakers) <= 1

(* One picture per answer, even across several tool rounds.                *)
OneProduct == products <= 1

(* The loops multiply but do not run away: a turn never sends more than    *)
(* this many requests, whatever the models and the network do.             *)
RequestBudget ==
    TypeOK /\ requests <= (MaxToolIterations + SynthesisAttempts)
                  * numProviders * (MaxRetries + 1)

Stage ==
    CASE pc = "start" -> "idle"
      [] pc = "asking" -> "open"
      [] pc \in {"tools", "running"} -> "owing"
      [] pc = "done" -> "closed"
      [] OTHER -> "broken"

Outline == INSTANCE TurnOutline WITH
    stage <- Stage,
    owed <- batch - answered

(* The turn does to the history only what TurnOutline allows: in           *)
(* particular it never ends right after a tool result, without having put  *)
(* what the tools found to a model (_synthesize_final_answer).             *)
KeepsTheOutline == Outline!Spec

(* Every turn comes to an end.                                             *)
TurnEnds == <>Over

(* The claim of test_streaming.py, lines 253-257: a failure after the      *)
(* first token is reported as an error, not as a finished reply.           *)
SeveredStreamIsAnError ==
    pc = "done" /\ reply \in {"busy", "unavailable"} => ~streamedAny
=============================================================================
