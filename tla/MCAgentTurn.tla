---------------------------- MODULE MCAgentTurn ----------------------------
(* A small instance of AgentTurn: a new conversation, and one whose history *)
(* already holds a tool exchange.                                           *)
EXTENDS AgentTurn

OldTurn ==
    <<SystemPrompt, UserTurn, ToolCalls(1, FALSE), ToolResult(1), Answer>>
SomeHistories == {<<>>, OldTurn}
=============================================================================
