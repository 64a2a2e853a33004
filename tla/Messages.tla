------------------------------ MODULE Messages ------------------------------
(***************************************************************************)
(* The message lists that orchestrator.py builds, session_store.py keeps   *)
(* and the providers receive.  Content is abstracted to whether there is   *)
(* any.  The calls of one assistant message are its numbers 1..calls: this *)
(* is what llm_client.stream makes of ids a provider leaves out            *)
(* ("call_<index>"), so an id means nothing outside its own exchange.      *)
(***************************************************************************)
EXTENDS Naturals, Sequences

Roles == {"system", "user", "assistant", "tool"}

Message == [role: Roles, text: BOOLEAN, calls: Nat, id: Nat]

SystemPrompt == [role |-> "system", text |-> TRUE, calls |-> 0, id |-> 0]
UserTurn == [role |-> "user", text |-> TRUE, calls |-> 0, id |-> 0]
Answer == [role |-> "assistant", text |-> TRUE, calls |-> 0, id |-> 0]
ToolCalls(n, text) ==
    [role |-> "assistant", text |-> text, calls |-> n, id |-> 0]
ToolResult(j) == [role |-> "tool", text |-> TRUE, calls |-> 0, id |-> j]

-----------------------------------------------------------------------------
(***************************************************************************)
(* What makes a list acceptable to a provider.                             *)
(***************************************************************************)

\* Every tool call is answered, in order, right after the message making it.
EveryCallAnswered(ms) ==
    \A i \in DOMAIN ms : \A j \in 1..ms[i].calls :
        /\ i + j \in DOMAIN ms
        /\ ms[i + j] = ToolResult(j)

\* Every tool result answers a call.
EveryResultOwned(ms) ==
    \A i \in DOMAIN ms : ms[i].role = "tool" =>
        \E k \in DOMAIN ms : k + ms[i].id = i /\ ms[i].id \in 1..ms[k].calls

WholeExchanges(ms) == EveryCallAnswered(ms) /\ EveryResultOwned(ms)

LastRole(ms) == ms[Len(ms)].role

\* No tool structure at all and a user turn last: any provider takes it.
Portable(ms) ==
    /\ \A i \in DOMAIN ms : ms[i].role # "tool" /\ ms[i].calls = 0
    /\ LastRole(ms) = "user"

HasToolHistory(ms) == \E i \in DOMAIN ms : ms[i].calls > 0

-----------------------------------------------------------------------------
(***************************************************************************)
(* _flatten_tool_exchanges: tool calls are dropped (their words stay, if   *)
(* there are any), tool results become user turns, and a model turn left   *)
(* last is followed by a user turn.                                        *)
(***************************************************************************)
Dropped(m) == m.calls > 0 /\ ~m.text

Flattened(m) ==
    IF m.calls > 0 THEN Answer
    ELSE IF m.role = "tool" THEN UserTurn
    ELSE m

\* What the loop has collected after the first i messages.
Flatten(ms) ==
    LET flat[i \in 0..Len(ms)] ==
            IF i = 0 THEN <<>>
            ELSE IF Dropped(ms[i]) THEN flat[i - 1]
            ELSE Append(flat[i - 1], Flattened(ms[i]))
        all == flat[Len(ms)]
    IN  IF all # <<>> /\ LastRole(all) = "assistant"
        THEN Append(all, UserTurn)
        ELSE all
=============================================================================
