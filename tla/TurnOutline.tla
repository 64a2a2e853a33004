---------------------------- MODULE TurnOutline ----------------------------
(***************************************************************************)
(* What one turn of conversation may do to the message list, whatever the  *)
(* models, the tools and the network do: the promise run_conversation      *)
(* makes to the session store.  It asks, it opens any number of tool       *)
(* exchanges and answers each call of one in order before anything else    *)
(* is said, and it closes with words.  It may also break off anywhere.     *)
(***************************************************************************)
EXTENDS Messages

CONSTANTS
    Histories,      \* the lists a turn may start from
    MaxCalls        \* bound: tool calls in one assistant message

VARIABLES
    messages,       \* the list
    stage,          \* "idle", "open", "owing", "closed" or "broken"
    owed            \* results still to come of the open exchange

vars == <<messages, stage, owed>>

Init ==
    /\ messages \in Histories
    /\ stage = "idle"
    /\ owed = 0

Ask ==
    /\ stage = "idle"
    /\ stage' = "open"
    /\ messages' = (IF messages = <<>> THEN <<SystemPrompt>> ELSE messages)
                     \o <<UserTurn>>
    /\ UNCHANGED owed

CallTools ==
    /\ stage = "open"
    /\ stage' = "owing"
    /\ \E n \in 1..MaxCalls, text \in BOOLEAN :
          /\ messages' = Append(messages, ToolCalls(n, text))
          /\ owed' = n

\* The number of the next result is one more than those already given.
GiveResult ==
    /\ stage = "owing"
    /\ LET given == IF LastRole(messages) = "tool"
                    THEN messages[Len(messages)].id
                    ELSE 0
       IN  messages' = Append(messages, ToolResult(given + 1))
    /\ owed' = owed - 1
    /\ stage' = IF owed = 1 THEN "open" ELSE "owing"

Close ==
    /\ stage = "open"
    /\ stage' = "closed"
    /\ messages' = Append(messages, Answer)
    /\ UNCHANGED owed

BreakOff ==
    /\ stage \in {"idle", "open", "owing"}
    /\ stage' = "broken"
    /\ UNCHANGED <<messages, owed>>

Next == Ask \/ CallTools \/ GiveResult \/ Close \/ BreakOff

Spec == Init /\ [][Next]_vars
=============================================================================
