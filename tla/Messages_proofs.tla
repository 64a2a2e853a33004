-------------------------- MODULE Messages_proofs --------------------------
(***************************************************************************)
(* What appending a message does to a list, and what a provider is sent    *)
(* once _flatten_tool_exchanges has rewritten it.                          *)
(***************************************************************************)
EXTENDS Messages, Integers, WellFoundedInduction, TLAPS

(* Induction over the natural numbers, for a set instead of a predicate:   *)
(* it says what a loop has computed after any number of steps.             *)
LEMMA SetInduction ==
    ASSUME NEW S, 0 \in S, \A n \in Nat : n \in S => n + 1 \in S
    PROVE  Nat \subseteq S
<1> SUFFICES ASSUME Nat \ S # {} PROVE FALSE
  OBVIOUS
<1>1. IsWellFoundedOn(OpToRel(<, Nat), Nat)
  BY NatLessThanWellFounded
<1>2. PICK x \in Nat \ S : \A y \in Nat \ S : ~ (<<y, x>> \in OpToRel(<, Nat))
  BY <1>1, WFMin
<1>3. \A y \in Nat \ S : ~(y < x)
  BY <1>2 DEF OpToRel
<1>4. x # 0 /\ x - 1 \in Nat
  OBVIOUS
<1>5. x - 1 \in S
  BY <1>3, <1>4
<1> QED BY <1>5, <1>4

(* The messages that orchestrator.py builds are messages.                  *)
LEMMA MessageTypes ==
    /\ SystemPrompt \in Message
    /\ UserTurn \in Message
    /\ Answer \in Message
    /\ \A n \in Nat, text \in BOOLEAN : ToolCalls(n, text) \in Message
    /\ \A j \in Nat : ToolResult(j) \in Message
BY DEF Message, Roles, SystemPrompt, UserTurn, Answer, ToolCalls, ToolResult

(* Words of the user, the model or the prompt leave whole exchanges whole. *)
LEMMA WordsKeepWhole ==
    ASSUME NEW ms \in Seq(Message), WholeExchanges(ms),
           NEW m \in Message, m.calls = 0, m.role # "tool"
    PROVE  WholeExchanges(Append(ms, m))
<1> DEFINE new == Append(ms, m)
<1>1. /\ DOMAIN ms = 1..Len(ms)
      /\ DOMAIN new = 1..(Len(ms) + 1)
      /\ \A i \in 1..Len(ms) : new[i] = ms[i]
      /\ new[Len(ms) + 1] = m
      /\ Len(ms) \in Nat
  OBVIOUS
<1>2. \A i \in DOMAIN ms : ms[i] \in Message
  OBVIOUS
<1> HIDE DEF new
<1>3. EveryCallAnswered(new)
  <2> SUFFICES ASSUME NEW i \in DOMAIN new, NEW j \in 1..new[i].calls
               PROVE  i + j \in DOMAIN new /\ new[i + j] = ToolResult(j)
    BY DEF EveryCallAnswered
  <2>1. i \in DOMAIN ms
    BY <1>1
  <2>2. i + j \in DOMAIN ms /\ ms[i + j] = ToolResult(j)
    BY <2>1, <1>1 DEF WholeExchanges, EveryCallAnswered
  <2> QED BY <2>2, <1>1
<1>4. EveryResultOwned(new)
  <2> SUFFICES ASSUME NEW i \in DOMAIN new, new[i].role = "tool"
               PROVE  \E k \in DOMAIN new :
                         k + new[i].id = i /\ new[i].id \in 1..new[k].calls
    BY DEF EveryResultOwned
  <2>1. i \in DOMAIN ms
    BY <1>1
  <2>2. PICK k \in DOMAIN ms :
             k + ms[i].id = i /\ ms[i].id \in 1..ms[k].calls
    BY <2>1, <1>1 DEF WholeExchanges, EveryResultOwned
  <2> QED BY <2>1, <2>2, <1>1
<1> QED BY <1>3, <1>4 DEF WholeExchanges, new

-----------------------------------------------------------------------------
(***************************************************************************)
(* An exchange: it is opened, answered call by call, and whole.            *)
(***************************************************************************)
(* The open exchange: a message with n calls, the last but given results.  *)
Owing(ms, n, given) ==
    LET k == Len(ms) - given
    IN  /\ k \in 1..Len(ms)
        /\ ms[k].role = "assistant" /\ ms[k].calls = n
        /\ \A j \in 1..given : ms[k + j] = ToolResult(j)
        /\ \A i \in 1..(k - 1) : \A j \in 1..ms[i].calls :
              i + j < k /\ ms[i + j] = ToolResult(j)
        /\ EveryResultOwned(ms)

LEMMA Appending ==
    ASSUME NEW ms \in Seq(Message), NEW m \in Message
    PROVE  /\ Append(ms, m) \in Seq(Message)
           /\ Append(ms, m) # <<>>
           /\ Len(ms) \in Nat
           /\ Len(Append(ms, m)) = Len(ms) + 1
           /\ DOMAIN ms = 1..Len(ms)
           /\ DOMAIN Append(ms, m) = 1..(Len(ms) + 1)
           /\ \A i \in 1..Len(ms) : Append(ms, m)[i] = ms[i]
           /\ Append(ms, m)[Len(ms) + 1] = m
           /\ \A i \in 1..Len(ms) : ms[i] \in Message
OBVIOUS

LEMMA ExchangeOpens ==
    ASSUME NEW ms \in Seq(Message), WholeExchanges(ms),
           NEW n \in Nat, NEW text \in BOOLEAN
    PROVE  Owing(Append(ms, ToolCalls(n, text)), n, 0)
<1> DEFINE m == ToolCalls(n, text)
           new == Append(ms, m)
<1>1. m \in Message /\ m.role = "assistant" /\ m.calls = n
  BY MessageTypes DEF ToolCalls
<1> HIDE DEF m
<1>2. /\ Len(new) - 0 = Len(ms) + 1
      /\ DOMAIN new = 1..(Len(ms) + 1) /\ DOMAIN ms = 1..Len(ms)
      /\ Len(ms) \in Nat /\ new[Len(ms) + 1] = m
      /\ \A i \in 1..Len(ms) : new[i] = ms[i] /\ ms[i] \in Message
  BY <1>1, Appending
<1> HIDE DEF new
<1>3. ASSUME NEW i \in 1..Len(ms), NEW j \in 1..new[i].calls
      PROVE  i + j < Len(ms) + 1 /\ new[i + j] = ToolResult(j)
  <2>1. new[i] = ms[i] /\ ms[i].calls \in Nat
    BY <1>2 DEF Message
  <2>2. i + j \in DOMAIN ms /\ ms[i + j] = ToolResult(j)
    BY <1>2, <2>1 DEF WholeExchanges, EveryCallAnswered
  <2> QED BY <1>2, <2>2
<1>4. EveryResultOwned(new)
  <2> SUFFICES ASSUME NEW i \in DOMAIN new, new[i].role = "tool"
               PROVE  \E k \in DOMAIN new :
                         k + new[i].id = i /\ new[i].id \in 1..new[k].calls
    BY DEF EveryResultOwned
  <2>1. i \in DOMAIN ms
    BY <1>1, <1>2
  <2>2. PICK k \in DOMAIN ms :
             k + ms[i].id = i /\ ms[i].id \in 1..ms[k].calls
    BY <2>1, <1>2 DEF WholeExchanges, EveryResultOwned
  <2> QED BY <2>1, <2>2, <1>2
<1>5. \A j \in 1..0 : new[(Len(ms) + 1) + j] = ToolResult(j)
  OBVIOUS
<1>6. (Len(ms) + 1) - 1 = Len(ms) /\ Len(ms) + 1 \in 1..(Len(ms) + 1)
  BY <1>2
<1>7. Len(new) = Len(ms) + 1
  BY <1>1, Appending DEF new
<1> QED BY <1>1, <1>2, <1>3, <1>4, <1>5, <1>6, <1>7 DEF Owing, new, m

LEMMA ExchangeGoesOn ==
    ASSUME NEW ms \in Seq(Message), NEW n \in Nat, NEW given \in Nat,
           given < n, Owing(ms, n, given)
    PROVE  Owing(Append(ms, ToolResult(given + 1)), n, given + 1)
<1> DEFINE m == ToolResult(given + 1)
           new == Append(ms, m)
           k == Len(ms) - given
<1>1. m \in Message /\ m.role = "tool" /\ m.id = given + 1 /\ m.calls = 0
  BY MessageTypes DEF ToolResult
<1>2. m = ToolResult(given + 1)
  OBVIOUS
<1> HIDE DEF m
<1>3. /\ Len(new) = Len(ms) + 1
      /\ DOMAIN new = 1..(Len(ms) + 1) /\ DOMAIN ms = 1..Len(ms)
      /\ Len(ms) \in Nat /\ new[Len(ms) + 1] = m
      /\ \A i \in 1..Len(ms) : new[i] = ms[i] /\ ms[i] \in Message
  BY <1>1, Appending
<1> HIDE DEF new
<1>4. /\ k \in 1..Len(ms) /\ k \in 1..(Len(ms) + 1)
      /\ Len(new) - (given + 1) = k
      /\ ms[k].role = "assistant" /\ ms[k].calls = n
  BY <1>3 DEF Owing
<1>5. new[k].role = "assistant" /\ new[k].calls = n
  BY <1>3, <1>4
<1>6. ASSUME NEW j \in 1..(given + 1) PROVE new[k + j] = ToolResult(j)
  <2>1. CASE j = given + 1
    BY <2>1, <1>2, <1>3
  <2>2. CASE j # given + 1
    <3>1. j \in 1..given /\ k + j \in 1..Len(ms)
      BY <2>2, <1>3, <1>4
    <3>2. ms[k + j] = ToolResult(j)
      BY <3>1 DEF Owing
    <3> QED BY <3>1, <3>2, <1>3
  <2> QED BY <2>1, <2>2
<1>7. ASSUME NEW i \in 1..(k - 1), NEW j \in 1..new[i].calls
      PROVE  i + j < k /\ new[i + j] = ToolResult(j)
  <2>0. i \in 1..Len(ms)
    BY <1>3, <1>4
  <2>1. i \in 1..Len(ms) /\ new[i] = ms[i] /\ ms[i].calls \in Nat
    BY <1>3, <2>0 DEF Message
  <2>2. i + j < k /\ ms[i + j] = ToolResult(j)
    BY <2>1 DEF Owing
  <2>3. i + j \in 1..Len(ms)
    BY <2>1, <2>2, <1>4
  <2> QED BY <2>2, <2>3, <1>3
<1>8. EveryResultOwned(new)
  <2> SUFFICES ASSUME NEW i \in DOMAIN new, new[i].role = "tool"
               PROVE  \E l \in DOMAIN new :
                         l + new[i].id = i /\ new[i].id \in 1..new[l].calls
    BY DEF EveryResultOwned
  <2>1. CASE i = Len(ms) + 1
    <3>1. k \in DOMAIN new /\ k + new[i].id = i
      BY <2>1, <1>1, <1>3, <1>4
    <3>2. new[i].id \in 1..new[k].calls
      BY <2>1, <1>1, <1>3, <1>5
    <3> QED BY <3>1, <3>2
  <2>2. CASE i # Len(ms) + 1
    <3>1. i \in DOMAIN ms
      BY <2>2, <1>3
    <3>2. PICK l \in DOMAIN ms :
               l + ms[i].id = i /\ ms[i].id \in 1..ms[l].calls
      BY <3>1, <1>3 DEF Owing, EveryResultOwned
    <3> QED BY <3>1, <3>2, <1>3
  <2> QED BY <2>1, <2>2
<1> HIDE DEF k
<1>9. Owing(new, n, given + 1)
  BY <1>3, <1>4, <1>5, <1>6, <1>7, <1>8 DEF Owing
<1> QED BY <1>2, <1>9 DEF new

LEMMA ExchangeIsWhole ==
    ASSUME NEW ms \in Seq(Message), NEW n \in Nat, Owing(ms, n, n)
    PROVE  WholeExchanges(ms)
<1> DEFINE k == Len(ms) - n
<1>1. /\ DOMAIN ms = 1..Len(ms) /\ Len(ms) \in Nat
      /\ k \in 1..Len(ms) /\ ms[k].calls = n
      /\ \A i \in 1..Len(ms) : ms[i] \in Message
  BY DEF Owing
<1>2. ASSUME NEW i \in DOMAIN ms, NEW j \in 1..ms[i].calls
      PROVE  i + j \in DOMAIN ms /\ ms[i + j] = ToolResult(j)
  <2>1. CASE i < k
    <3>1. i \in 1..(k - 1) /\ ms[i].calls \in Nat
      BY <2>1, <1>1 DEF Message
    <3>2. i + j < k /\ ms[i + j] = ToolResult(j)
      BY <3>1 DEF Owing
    <3> QED BY <3>1, <3>2, <1>1
  <2>2. CASE i = k
    <3>1. j \in 1..n
      BY <2>2, <1>1
    <3>2. ms[k + j] = ToolResult(j)
      BY <3>1 DEF Owing
    <3> QED BY <3>1, <3>2, <2>2, <1>1
  <2>3. CASE i > k
    <3>1. i - k \in 1..n /\ k + (i - k) = i
      BY <2>3, <1>1
    <3>2. ms[k + (i - k)] = ToolResult(i - k)
      BY <3>1 DEF Owing
    <3>3. ms[i].calls = 0
      BY <3>1, <3>2 DEF ToolResult
    <3> QED BY <3>3
  <2> QED BY <2>1, <2>2, <2>3, <1>1
<1>3. EveryResultOwned(ms)
  BY DEF Owing
<1> QED BY <1>2, <1>3 DEF WholeExchanges, EveryCallAnswered

-----------------------------------------------------------------------------
(***************************************************************************)
(* _flatten_tool_exchanges.                                                *)
(***************************************************************************)
NoTools == {m \in Message : m.role # "tool" /\ m.calls = 0}

\* One turn of its loop: f[i] is what it has collected after i messages.
Collects(ms, f) ==
    f = [i \in 0..Len(ms) |->
            IF i = 0 THEN <<>>
            ELSE IF Dropped(ms[i]) THEN f[i - 1]
            ELSE Append(f[i - 1], Flattened(ms[i]))]

LEMMA CollectsAt ==
    ASSUME NEW ms \in Seq(Message), NEW f, Collects(ms, f)
    PROVE  /\ f[0] = <<>>
           /\ \A i \in 1..Len(ms) :
                 f[i] = IF Dropped(ms[i]) THEN f[i - 1]
                        ELSE Append(f[i - 1], Flattened(ms[i]))
<1> DEFINE g == [i \in 0..Len(ms) |->
                    IF i = 0 THEN <<>>
                    ELSE IF Dropped(ms[i]) THEN f[i - 1]
                    ELSE Append(f[i - 1], Flattened(ms[i]))]
<1>1. f = g
  BY DEF Collects
<1>2. Len(ms) \in Nat
  OBVIOUS
<1>3. g[0] = <<>>
  BY <1>2
<1>4. \A i \in 1..Len(ms) :
         g[i] = IF Dropped(ms[i]) THEN f[i - 1]
                ELSE Append(f[i - 1], Flattened(ms[i]))
  BY <1>2
<1> HIDE DEF g
<1> QED BY <1>1, <1>3, <1>4

LEMMA FlattenedIsPlain ==
    ASSUME NEW m \in Message
    PROVE  Flattened(m) \in NoTools
BY MessageTypes DEF Flattened, NoTools, Answer, UserTurn, Message

(* The loop runs through: there is such an f.                              *)
LEMMA LoopRuns ==
    ASSUME NEW ms \in Seq(Message)
    PROVE  \E f : Collects(ms, f)
<1> DEFINE Step(f, i) == IF Dropped(ms[i]) THEN f[i - 1]
                         ELSE Append(f[i - 1], Flattened(ms[i]))
           Runs(n) == \E f \in [0..n -> Seq(NoTools)] :
                         f[0] = <<>> /\ \A i \in 1..n : f[i] = Step(f, i)
           S == {n \in Nat : n <= Len(ms) => Runs(n)}
<1>1. 0 \in S
  <2> DEFINE g == [i \in 0..0 |-> <<>>]
  <2>1. g \in [0..0 -> Seq(NoTools)]
    OBVIOUS
  <2>2. g[0] = <<>>
    OBVIOUS
  <2>3. \A i \in 1..0 : g[i] = Step(g, i)
    <3>1. 1..0 = {}
      OBVIOUS
    <3> QED BY <3>1
  <2> HIDE DEF g, Step
  <2>4. Runs(0)
    BY <2>1, <2>2, <2>3
  <2> HIDE DEF Runs
  <2> QED BY <2>4
<1>2. ASSUME NEW n \in Nat, n \in S
      PROVE  n + 1 \in S
  <2> SUFFICES ASSUME n + 1 <= Len(ms) PROVE Runs(n + 1)
    <3> HIDE DEF Runs
    <3> QED OBVIOUS
  <2>0. Runs(n)
    <3> HIDE DEF Runs
    <3> QED BY <1>2
  <2>1. PICK f \in [0..n -> Seq(NoTools)] :
             f[0] = <<>> /\ \A i \in 1..n : f[i] = Step(f, i)
    BY <2>0
  <2> DEFINE g == [i \in 0..(n + 1) |->
                      IF i = n + 1 THEN Step(f, n + 1) ELSE f[i]]
  <2>2. f[n] \in Seq(NoTools) /\ ms[n + 1] \in Message
    OBVIOUS
  <2>3. Flattened(ms[n + 1]) \in NoTools
    BY <2>2, FlattenedIsPlain
  <2>4. (n + 1) - 1 = n
    OBVIOUS
  <2>5. Step(f, n + 1) \in Seq(NoTools)
    BY <2>2, <2>3, <2>4
  <2>6. g \in [0..(n + 1) -> Seq(NoTools)]
    BY <2>5
  <2>7. g[0] = <<>>
    BY <2>1
  <2>8. \A i \in 0..n : g[i] = f[i]
    OBVIOUS
  <2>9. \A i \in 1..(n + 1) : g[i] = Step(g, i)
    <3> TAKE i \in 1..(n + 1)
    <3>1. CASE i = n + 1
      <4>1. g[i] = Step(f, i)
        BY <3>1
      <4>2. g[i - 1] = f[i - 1]
        BY <3>1, <2>8, <2>4
      <4> QED BY <4>1, <4>2
    <3>2. CASE i # n + 1
      <4>1. i \in 1..n /\ i \in 0..n /\ i - 1 \in 0..n
        BY <3>2
      <4>2. g[i] = f[i] /\ g[i - 1] = f[i - 1]
        BY <4>1, <2>8
      <4> QED BY <4>1, <4>2, <2>1
    <3> QED BY <3>1, <3>2
  <2> HIDE DEF g, Step
  <2> QED BY <2>6, <2>7, <2>9
<1>3. Len(ms) \in S
  <2> HIDE DEF S
  <2>1. Nat \subseteq S
    BY <1>1, <1>2, SetInduction
  <2> QED BY <2>1
<1>4. PICK f \in [0..Len(ms) -> Seq(NoTools)] :
           f[0] = <<>> /\ \A i \in 1..Len(ms) : f[i] = Step(f, i)
  BY <1>3
<1>5. Collects(ms, f)
  <2> DEFINE At(i) == IF i = 0 THEN <<>>
                      ELSE IF Dropped(ms[i]) THEN f[i - 1]
                      ELSE Append(f[i - 1], Flattened(ms[i]))
  <2>1. f = [i \in 0..Len(ms) |-> f[i]]
    BY <1>4
  <2>2. ASSUME NEW i \in 0..Len(ms) PROVE f[i] = At(i)
    <3>1. CASE i = 0
      BY <3>1, <1>4
    <3>2. CASE i # 0
      <4>1. i \in 1..Len(ms)
        BY <3>2
      <4> QED BY <4>1, <3>2, <1>4
    <3> QED BY <3>1, <3>2
  <2> HIDE DEF At
  <2>3. f = [i \in 0..Len(ms) |-> At(i)]
    BY <2>1, <2>2
  <2> QED BY <2>3 DEF Collects, At
<1> QED BY <1>5

(* Whatever it has collected has no structured tool call or result in it.  *)
LEMMA CollectsPlain ==
    ASSUME NEW ms \in Seq(Message), NEW f, Collects(ms, f)
    PROVE  \A i \in 0..Len(ms) : f[i] \in Seq(NoTools)
<1> DEFINE S == {n \in Nat : n <= Len(ms) => f[n] \in Seq(NoTools)}
<1>1. 0 \in S
  <2>1. f[0] = <<>>
    BY CollectsAt
  <2>2. f[0] \in Seq(NoTools)
    BY <2>1
  <2> QED BY <2>2
<1>2. ASSUME NEW n \in Nat, n \in S
      PROVE  n + 1 \in S
  <2> SUFFICES ASSUME n + 1 <= Len(ms) PROVE f[n + 1] \in Seq(NoTools)
    OBVIOUS
  <2>1. f[n] \in Seq(NoTools)
    BY <1>2
  <2>2. f[n + 1] = IF Dropped(ms[n + 1]) THEN f[n]
                   ELSE Append(f[n], Flattened(ms[n + 1]))
    <3>1. n + 1 \in 1..Len(ms) /\ (n + 1) - 1 = n
      OBVIOUS
    <3> QED BY <3>1, CollectsAt
  <2>3. Flattened(ms[n + 1]) \in NoTools
    BY FlattenedIsPlain
  <2> QED BY <2>1, <2>2, <2>3
<1> HIDE DEF S
<1>3. Nat \subseteq S
  BY <1>1, <1>2, SetInduction
<1> QED BY <1>3 DEF S

(* A list that ends with a user turn or a tool result is portable once it  *)
(* is flattened.                                                           *)
THEOREM FlattenIsPortable ==
    ASSUME NEW ms \in Seq(Message), ms # <<>>,
           ms[Len(ms)].role \in {"user", "tool"}, ms[Len(ms)].calls = 0
    PROVE  Portable(Flatten(ms))
<1> DEFINE flat == CHOOSE f : Collects(ms, f)
           all == flat[Len(ms)]
<1>1. Collects(ms, flat)
  BY LoopRuns
<1>2. Flatten(ms) = IF all # <<>> /\ LastRole(all) = "assistant"
                    THEN Append(all, UserTurn) ELSE all
  BY DEF Flatten, Collects
<1> HIDE DEF flat
<1>3. Len(ms) \in Nat \ {0} /\ ms[Len(ms)] \in Message
  OBVIOUS
<1>4. ~Dropped(ms[Len(ms)]) /\ Flattened(ms[Len(ms)]).role = "user"
  BY DEF Dropped, Flattened, UserTurn
<1>5. all = Append(flat[Len(ms) - 1], Flattened(ms[Len(ms)]))
  <2>1. Len(ms) \in 1..Len(ms)
    BY <1>3
  <2>2. all = IF Dropped(ms[Len(ms)]) THEN flat[Len(ms) - 1]
              ELSE Append(flat[Len(ms) - 1], Flattened(ms[Len(ms)]))
    BY <1>1, <2>1, CollectsAt
  <2> QED BY <2>2, <1>4
<1>6. flat[Len(ms) - 1] \in Seq(NoTools) /\ all \in Seq(NoTools)
  BY <1>1, <1>3, CollectsPlain
<1> HIDE DEF all
<1>7. LastRole(all) = "user"
  BY <1>4, <1>5, <1>6 DEF LastRole
<1>8. Flatten(ms) = all
  BY <1>2, <1>7
<1> QED BY <1>6, <1>7, <1>8 DEF Portable, NoTools
=============================================================================
