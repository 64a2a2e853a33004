----------------------------- MODULE Trimming ------------------------------
(***************************************************************************)
(* What save_session keeps of a conversation: the system prompt and the    *)
(* most recent turns (_trim_to_recent_turns of session_store.py).          *)
(*                                                                         *)
(* TrimByTurns follows the code: it collects the turns and joins the last  *)
(* of them.  RecentTurns says the same without a loop, as Trimming_proofs  *)
(* shows; the models of the store use RecentTurns.                         *)
(***************************************************************************)
EXTENDS Messages, SequencesExt

HasSystem(ms) == ms # <<>> /\ ms[1].role = "system"

System(ms) == IF HasSystem(ms) THEN <<ms[1]>> ELSE <<>>

Rest(ms) == IF HasSystem(ms) THEN Tail(ms) ELSE ms

-----------------------------------------------------------------------------
\* One step of the loop over rest: a user message opens a new turn, and so
\* does the first message, whatever it is.
AddToTurns(turns, m) ==
    IF m.role = "user" \/ turns = <<>>
    THEN Append(turns, <<m>>)
    ELSE Front(turns) \o <<Append(Last(turns), m)>>

\* What it has collected after the first i messages.
Turns(ms) ==
    LET rest == Rest(ms)
        turns[i \in 0..Len(rest)] ==
            IF i = 0 THEN <<>> ELSE AddToTurns(turns[i - 1], rest[i])
    IN  turns[Len(rest)]

\* turns[-n:], for a positive n.
LastOf(s, n) == SubSeq(s, IF Len(s) > n THEN Len(s) - n + 1 ELSE 1, Len(s))

\* Mutant: the limit counts messages.
TrimByMessages(ms, n) == System(ms) \o LastOf(Rest(ms), n)

TrimByTurns(ms, n) == System(ms) \o FlattenSeq(LastOf(Turns(ms), n))

-----------------------------------------------------------------------------
\* Where the turns of a list without its system prompt begin.
Beginnings(rest) == {i \in DOMAIN rest : i = 1 \/ rest[i].role = "user"}

\* Where the last n of them begin.
Cut(rest, n) ==
    LET From(i) == {k \in Beginnings(rest) : k >= i}
    IN  IF Cardinality(Beginnings(rest)) <= n
        THEN 1
        ELSE CHOOSE i \in Beginnings(rest) : Cardinality(From(i)) = n

\* Mutant: the first turns are kept.
FirstTurns(ms, n) ==
    LET rest == Rest(ms)
        Within(i) == Cardinality({k \in Beginnings(rest) : k <= i}) <= n
        kept == {i \in DOMAIN rest : Within(i)}
    IN  System(ms) \o SubSeq(rest, 1, Cardinality(kept))

RecentTurns(ms, n) ==
    System(ms) \o SubSeq(Rest(ms), Cut(Rest(ms), n), Len(Rest(ms)))
=============================================================================
