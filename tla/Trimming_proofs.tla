-------------------------- MODULE Trimming_proofs --------------------------
(***************************************************************************)
(* What _trim_to_recent_turns does to any list: it keeps the prompt and a  *)
(* suffix that begins with a turn, so no exchange is cut apart; and its    *)
(* loop does what RecentTurns says.                                        *)
(***************************************************************************)
EXTENDS Trimming, Messages_proofs, FiniteSetTheorems,
        SequenceTheorems

-----------------------------------------------------------------------------
(***************************************************************************)
(* The last n of a set of positions.                                       *)
(***************************************************************************)
LEMMA LeastOf ==
    ASSUME NEW S \in SUBSET Nat, S # {}
    PROVE  \E m \in S : \A k \in S : m <= k
<1>1. IsWellFoundedOn(OpToRel(<, Nat), Nat)
  BY NatLessThanWellFounded
<1>2. PICK m \in S : \A k \in S : ~ (<<k, m>> \in OpToRel(<, Nat))
  BY <1>1, WFMin
<1>3. \A k \in S : ~(k < m)
  BY <1>2 DEF OpToRel
<1> QED BY <1>3

LEMMA GreatestOf ==
    ASSUME NEW b \in Nat, NEW S \in SUBSET (0..b), S # {}
    PROVE  \E m \in S : \A k \in S : k <= m
<1> DEFINE D == {b - k : k \in S}
<1>1. D \in SUBSET Nat /\ D # {}
  <2>1. \A k \in S : k \in 0..b
    OBVIOUS
  <2>2. \A k \in S : b - k \in Nat
    BY <2>1
  <2> QED BY <2>2
<1>2. PICK d \in D : \A e \in D : d <= e
  BY <1>1, LeastOf
<1>3. PICK m \in S : d = b - m
  BY <1>2
<1>4. \A k \in S : b - m <= b - k
  BY <1>2, <1>3
<1> QED BY <1>4

LEMMA LastOnes ==
    ASSUME NEW b \in Nat, NEW S \in SUBSET (0..b), IsFiniteSet(S)
    PROVE  \A n \in Nat : n # 0 /\ n <= Cardinality(S) =>
              \E i \in S : Cardinality({k \in S : k >= i}) = n
<1> DEFINE Found(n) == \E i \in S : Cardinality({k \in S : k >= i}) = n
           T == {n \in Nat : n # 0 /\ n <= Cardinality(S) => Found(n)}
<1>1. 0 \in T
  OBVIOUS
<1>2. ASSUME NEW n \in Nat, n \in T
      PROVE  n + 1 \in T
  <2> SUFFICES ASSUME n + 1 <= Cardinality(S) PROVE Found(n + 1)
    <3> HIDE DEF Found
    <3> QED OBVIOUS
  <2>0. Cardinality(S) \in Nat
    BY FS_CardinalityType
  <2>1. PICK A \in SUBSET S :
             /\ Cardinality(A) = n
             /\ \A k \in A, j \in S \ A : j < k
    <3>1. CASE n = 0
      <4>1. Cardinality({}) = 0
        BY FS_EmptySet
      <4> QED BY <3>1, <4>1
    <3>2. CASE n # 0
      <4>1. Found(n)
        <5> HIDE DEF Found
        <5> QED BY <3>2, <1>2, <2>0
      <4>2. PICK i \in S : Cardinality({k \in S : k >= i}) = n
        BY <4>1
      <4>3. \A k \in {k \in S : k >= i}, j \in S \ {k \in S : k >= i} : j < k
        OBVIOUS
      <4> QED BY <4>2, <4>3
    <3> QED BY <3>1, <3>2
  <2>2. IsFiniteSet(A)
    BY FS_Subset
  <2>3. S \ A # {}
    <3> SUFFICES ASSUME S \ A = {} PROVE FALSE
      OBVIOUS
    <3>1. A = S
      OBVIOUS
    <3> QED BY <3>1, <2>0, <2>1
  <2>4. S \ A \in SUBSET (0..b)
    OBVIOUS
  <2>5. PICK m \in S \ A : \A k \in S \ A : k <= m
    BY <2>3, <2>4, GreatestOf
  <2>6. {k \in S : k >= m} = A \union {m}
    <3>1. \A k \in S : k \in Nat
      OBVIOUS
    <3>2. \A k \in A : k >= m
      BY <2>1, <2>5, <3>1
    <3>3. \A k \in S \ A : k >= m => k = m
      BY <2>5, <3>1
    <3> QED BY <2>5, <3>1, <3>2, <3>3
  <2>7. Cardinality(A \union {m}) = n + 1
    BY <2>1, <2>2, <2>5, FS_AddElement
  <2> QED BY <2>6, <2>7
<1> HIDE DEF T
<1>3. Nat \subseteq T
  BY <1>1, <1>2, SetInduction
<1> QED BY <1>3 DEF T

-----------------------------------------------------------------------------
(***************************************************************************)
(* Where the list is cut.                                                  *)
(***************************************************************************)
LEMMA BeginningsAreFinite ==
    ASSUME NEW rest \in Seq(Message)
    PROVE  /\ Beginnings(rest) \in SUBSET (1..Len(rest))
           /\ Beginnings(rest) \in SUBSET (0..Len(rest))
           /\ IsFiniteSet(Beginnings(rest))
           /\ Cardinality(Beginnings(rest)) \in Nat
<1>1. Beginnings(rest) \in SUBSET (1..Len(rest))
  BY DEF Beginnings
<1>2. IsFiniteSet(1..Len(rest))
  BY FS_Interval
<1>3. IsFiniteSet(Beginnings(rest))
  BY <1>1, <1>2, FS_Subset
<1> QED BY <1>1, <1>3, FS_CardinalityType

LEMMA CutIsABeginning ==
    ASSUME NEW rest \in Seq(Message), NEW n \in Nat \ {0}
    PROVE  /\ rest = <<>> => Cut(rest, n) = 1
           /\ rest # <<>> => Cut(rest, n) \in Beginnings(rest)
           /\ Cardinality({k \in Beginnings(rest) : k >= Cut(rest, n)}) <= n
<1> DEFINE B == Beginnings(rest)
           From(i) == {k \in B : k >= i}
<1>1. /\ B \in SUBSET (1..Len(rest)) /\ B \in SUBSET (0..Len(rest))
      /\ IsFiniteSet(B) /\ Cardinality(B) \in Nat /\ Len(rest) \in Nat
  BY BeginningsAreFinite
<1>2. rest # <<>> => 1 \in B
  BY DEF Beginnings
<1>3. rest = <<>> => B = {}
  BY <1>1
<1>4. CASE Cardinality(B) <= n
  <2>1. Cut(rest, n) = 1
    BY <1>4 DEF Cut
  <2> HIDE DEF B
  <2>2. {k \in B : k >= 1} = B
    <3>1. \A k \in B : k >= 1
      BY <1>1
    <3> QED BY <3>1
  <2> QED BY <1>2, <1>4, <2>1, <2>2 DEF B
<1>5. CASE ~(Cardinality(B) <= n)
  <2>1. Cut(rest, n) = CHOOSE i \in B : Cardinality(From(i)) = n
    BY <1>5 DEF Cut
  <2> HIDE DEF B
  <2>2. n <= Cardinality(B)
    BY <1>1, <1>5
  <2>3. \E i \in B : Cardinality(From(i)) = n
    BY <1>1, <2>2, LastOnes
  <2>4. Cut(rest, n) \in B /\ Cardinality(From(Cut(rest, n))) = n
    BY <2>1, <2>3
  <2>5. rest # <<>>
    BY <2>4, <1>3
  <2> QED BY <2>4, <2>5 DEF B
<1> QED BY <1>4, <1>5

-----------------------------------------------------------------------------
(***************************************************************************)
(* The trimmed list, message by message: the prompt stays where it is, and *)
(* what follows moves up over the messages that are dropped.               *)
(***************************************************************************)
Prompts(ms) == IF HasSystem(ms) THEN 1 ELSE 0
Missing(ms, n) == Cut(Rest(ms), n) - 1

LEMMA RestShape ==
    ASSUME NEW ms \in Seq(Message)
    PROVE  /\ Prompts(ms) \in 0..1 /\ Prompts(ms) <= Len(ms)
           /\ Rest(ms) \in Seq(Message)
           /\ Len(Rest(ms)) = Len(ms) - Prompts(ms)
           /\ \A i \in 1..Len(Rest(ms)) : Rest(ms)[i] = ms[i + Prompts(ms)]
<1>1. CASE HasSystem(ms)
  <2>1. ms # <<>> /\ Rest(ms) = Tail(ms) /\ Prompts(ms) = 1
    BY <1>1 DEF HasSystem, Rest, Prompts
  <2>2. /\ Tail(ms) \in Seq(Message) /\ Len(Tail(ms)) = Len(ms) - 1
        /\ \A i \in 1..Len(Tail(ms)) : Tail(ms)[i] = ms[i + 1]
        /\ Len(ms) >= 1
    BY <2>1
  <2> QED BY <2>1, <2>2
<1>2. CASE ~HasSystem(ms)
  <2>1. Rest(ms) = ms /\ Prompts(ms) = 0
    BY <1>2 DEF Rest, Prompts
  <2> QED BY <2>1
<1> QED BY <1>1, <1>2

LEMMA MissingShape ==
    ASSUME NEW ms \in Seq(Message), NEW n \in Nat \ {0}
    PROVE  /\ Missing(ms, n) \in Nat
           /\ Cut(Rest(ms), n) = Missing(ms, n) + 1
           /\ Missing(ms, n) # 0 =>
                 /\ Missing(ms, n) < Len(Rest(ms))
                 /\ Rest(ms)[Missing(ms, n) + 1].role = "user"
           /\ Rest(ms) # <<>> => Missing(ms, n) < Len(Rest(ms))
<1> DEFINE rest == Rest(ms)
           c == Cut(rest, n)
<1>1. rest \in Seq(Message)
  BY RestShape
<1> HIDE DEF rest
<1>2. /\ rest = <<>> => c = 1
      /\ rest # <<>> => c \in Beginnings(rest)
  BY <1>1, CutIsABeginning
<1>3. c \in Beginnings(rest) =>
         c \in 1..Len(rest) /\ (c = 1 \/ rest[c].role = "user")
  BY <1>1, BeginningsAreFinite DEF Beginnings
<1> HIDE DEF c
<1>4. /\ c - 1 \in Nat /\ c = (c - 1) + 1
      /\ c - 1 # 0 => c - 1 < Len(rest) /\ rest[(c - 1) + 1].role = "user"
      /\ rest # <<>> => c - 1 < Len(rest)
  <2>1. CASE rest = <<>>
    BY <2>1, <1>2
  <2>2. CASE rest # <<>>
    <3>1. c \in 1..Len(rest) /\ (c = 1 \/ rest[c].role = "user")
      BY <2>2, <1>2, <1>3
    <3>2. (c - 1) + 1 = c
      BY <3>1
    <3> QED BY <1>1, <2>2, <3>1, <3>2
  <2> QED BY <2>1, <2>2
<1> QED BY <1>4 DEF Missing, c, rest

LEMMA TrimmedShape ==
    ASSUME NEW ms \in Seq(Message), NEW n \in Nat \ {0}
    PROVE  /\ RecentTurns(ms, n) \in Seq(Message)
           /\ Len(RecentTurns(ms, n)) = Len(ms) - Missing(ms, n)
           /\ \A i \in 1..Prompts(ms) : RecentTurns(ms, n)[i] = ms[i]
           /\ \A i \in (Prompts(ms) + 1)..Len(RecentTurns(ms, n)) :
                 RecentTurns(ms, n)[i] = ms[i + Missing(ms, n)]
<1> DEFINE rest == Rest(ms)
           d == Missing(ms, n)
           p == Prompts(ms)
           tail == SubSeq(rest, d + 1, Len(rest))
           head == System(ms)
<1>1. /\ p \in 0..1 /\ p <= Len(ms) /\ rest \in Seq(Message)
      /\ Len(rest) = Len(ms) - p /\ Len(ms) \in Nat
      /\ \A i \in 1..Len(rest) : rest[i] = ms[i + p]
  BY RestShape
<1>2. d \in Nat /\ (rest # <<>> => d < Len(rest)) /\ (d # 0 => d < Len(rest))
  BY MissingShape
<1>3. RecentTurns(ms, n) = head \o tail
  <2>1. Cut(rest, n) = d + 1
    BY MissingShape
  <2> QED BY <2>1 DEF RecentTurns
<1>4. head \in Seq(Message) /\ Len(head) = p /\ \A i \in 1..p : head[i] = ms[i]
  <2>1. CASE HasSystem(ms)
    <3>1. head = <<ms[1]>> /\ p = 1 /\ ms # <<>>
      BY <2>1 DEF System, Prompts, HasSystem
    <3>2. ms[1] \in Message
      BY <3>1
    <3> HIDE DEF head, p
    <3> QED BY <3>1, <3>2
  <2>2. CASE ~HasSystem(ms)
    <3>1. head = <<>> /\ p = 0
      BY <2>2 DEF System, Prompts
    <3> HIDE DEF head, p
    <3> QED BY <3>1
  <2> QED BY <2>1, <2>2
<1> HIDE DEF rest, d, p, head
<1>5. /\ tail \in Seq(Message) /\ Len(tail) = Len(rest) - d
      /\ \A i \in 1..Len(tail) : tail[i] = rest[i + d]
  <2>1. CASE rest = <<>>
    <3>1. d = 0 /\ Len(rest) = 0
      BY <2>1, <1>2
    <3> QED BY <3>1
  <2>2. CASE rest # <<>>
    <3>1. d + 1 \in 1..Len(rest)
      BY <2>2, <1>1, <1>2
    <3> QED BY <3>1, <1>1, <1>2
  <2> QED BY <2>1, <2>2
<1> HIDE DEF tail
<1>6. /\ head \o tail \in Seq(Message)
      /\ Len(head \o tail) = Len(ms) - d
      /\ \A i \in 1..p : (head \o tail)[i] = ms[i]
  BY <1>1, <1>2, <1>4, <1>5
<1>7. ASSUME NEW i \in (p + 1)..(Len(ms) - d)
      PROVE  (head \o tail)[i] = ms[i + d]
  <2>1. i - p \in 1..Len(tail) /\ (i - p) + d \in 1..Len(rest)
    BY <1>1, <1>2, <1>5
  <2>2. (head \o tail)[i] = tail[i - p]
    <3>1. /\ i \in 1..(Len(head) + Len(tail)) /\ ~(i <= Len(head))
          /\ Len(head) = p /\ Len(head) \in Nat /\ Len(tail) \in Nat
      BY <1>1, <1>2, <1>4, <1>5
    <3>2. (head \o tail)[i] = tail[i - Len(head)]
      BY <3>1, <1>4, <1>5
    <3> QED BY <3>1, <3>2
  <2>3. tail[i - p] = rest[(i - p) + d]
    BY <2>1, <1>5
  <2>4. rest[(i - p) + d] = ms[((i - p) + d) + p]
    BY <2>1, <1>1
  <2>5. ((i - p) + d) + p = i + d
    BY <1>1, <1>2
  <2> QED BY <2>2, <2>3, <2>4, <2>5
<1> QED BY <1>3, <1>6, <1>7 DEF d, p

-----------------------------------------------------------------------------
(***************************************************************************)
(* What trimming keeps.                                                    *)
(***************************************************************************)
\* The prompt makes no tool calls.
QuietPrompt(ms) == HasSystem(ms) => ms[1].calls = 0

(* A turn that is kept is kept whole: what is cut off ends right before a  *)
(* user message, and no exchange reaches over one.                         *)
THEOREM TrimmedIsWhole ==
    ASSUME NEW ms \in Seq(Message), NEW n \in Nat \ {0},
           WholeExchanges(ms), QuietPrompt(ms)
    PROVE  WholeExchanges(RecentTurns(ms, n))
<1> DEFINE out == RecentTurns(ms, n)
           d == Missing(ms, n)
           p == Prompts(ms)
<1>1. /\ DOMAIN ms = 1..Len(ms) /\ Len(ms) \in Nat
      /\ \A i \in 1..Len(ms) : ms[i] \in Message
      /\ p \in 0..1 /\ p <= Len(ms)
  BY RestShape
<1>2. /\ DOMAIN out = 1..(Len(ms) - d) /\ d \in Nat
      /\ \A i \in 1..p : out[i] = ms[i]
      /\ \A i \in (p + 1)..(Len(ms) - d) : out[i] = ms[i + d]
  BY TrimmedShape, MissingShape
<1>3. p = 1 => ms[1].role = "system" /\ ms[1].calls = 0 /\ 1 \in DOMAIN ms
  BY DEF Prompts, QuietPrompt, HasSystem
<1>4. d # 0 => /\ (p + d) + 1 \in 1..Len(ms)
               /\ ms[(p + d) + 1].role = "user"
  <2> SUFFICES ASSUME d # 0
               PROVE  (p + d) + 1 \in 1..Len(ms) /\ ms[(p + d) + 1].role = "user"
    OBVIOUS
  <2>1. /\ d < Len(Rest(ms)) /\ Rest(ms)[d + 1].role = "user"
        /\ Len(Rest(ms)) = Len(ms) - p
        /\ \A i \in 1..Len(Rest(ms)) : Rest(ms)[i] = ms[i + p]
    BY MissingShape, RestShape
  <2> HIDE DEF d, p
  <2>2. d + 1 \in 1..Len(Rest(ms)) /\ (d + 1) + p = (p + d) + 1
    BY <1>1, <1>2, <2>1
  <2> QED BY <1>1, <2>1, <2>2
<1> HIDE DEF out, d, p
<1>5. ASSUME NEW i \in DOMAIN out, NEW j \in 1..out[i].calls
      PROVE  i + j \in DOMAIN out /\ out[i + j] = ToolResult(j)
  <2>1. i > p
    <3> SUFFICES ASSUME i <= p PROVE FALSE
      BY <1>1, <1>2
    <3>1. i = 1 /\ p = 1
      BY <1>1, <1>2
    <3> QED BY <1>2, <1>3, <3>1
  <2>2. out[i] = ms[i + d] /\ i + d \in DOMAIN ms
    BY <1>1, <1>2, <2>1
  <2>3. (i + d) + j \in DOMAIN ms /\ ms[(i + d) + j] = ToolResult(j)
    BY <2>2 DEF WholeExchanges, EveryCallAnswered
  <2>4. j \in Nat /\ j # 0
    BY <1>1, <2>2 DEF Message
  <2>5. i + j \in (p + 1)..(Len(ms) - d) /\ (i + j) + d = (i + d) + j
    BY <1>1, <1>2, <2>1, <2>3, <2>4
  <2>6. out[i + j] = ms[(i + d) + j]
    BY <1>2, <2>5
  <2> QED BY <1>1, <1>2, <2>3, <2>5, <2>6
<1>6. ASSUME NEW i \in DOMAIN out, out[i].role = "tool"
      PROVE  \E k \in DOMAIN out :
                k + out[i].id = i /\ out[i].id \in 1..out[k].calls
  <2>1. i > p
    <3> SUFFICES ASSUME i <= p PROVE FALSE
      BY <1>1, <1>2
    <3>1. i = 1 /\ p = 1
      BY <1>1, <1>2
    <3> QED BY <1>2, <1>3, <1>6, <3>1
  <2>2. out[i] = ms[i + d] /\ i + d \in DOMAIN ms /\ i \in Nat
    BY <1>1, <1>2, <2>1
  <2>3. PICK k \in DOMAIN ms :
             k + out[i].id = i + d /\ out[i].id \in 1..ms[k].calls
    BY <1>6, <2>2 DEF WholeExchanges, EveryResultOwned
  <2>4. k \in Nat /\ ms[k].calls \in Nat /\ out[i].id \in Nat /\ out[i].id # 0
    BY <1>1, <2>3 DEF Message
  <2>5. k > p + d
    <3> SUFFICES ASSUME k <= p + d PROVE FALSE
      BY <1>1, <1>2, <2>4
    <3>1. CASE d = 0
      <4>1. k = 1 /\ p = 1
        BY <3>1, <1>1, <2>3, <2>4
      <4> QED BY <4>1, <1>3, <2>3
    <3>2. CASE d # 0
      <4> DEFINE q == (p + d) + 1
                 j == q - k
      <4>1. q \in 1..Len(ms) /\ ms[q].role = "user"
        BY <3>2, <1>4
      <4>2. j \in 1..out[i].id /\ k + j = q
        BY <1>1, <1>2, <2>1, <2>2, <2>3, <2>4
      <4>3. j \in 1..ms[k].calls
        BY <4>2, <2>3, <2>4
      <4>4. ms[k + j] = ToolResult(j)
        BY <4>3 DEF WholeExchanges, EveryCallAnswered
      <4>5. ms[q].role = "tool"
        BY <4>2, <4>4 DEF ToolResult
      <4> QED BY <4>1, <4>5
    <3> QED BY <3>1, <3>2
  <2>6. k - d \in (p + 1)..(Len(ms) - d) /\ (k - d) + d = k
    BY <1>1, <1>2, <2>3, <2>4, <2>5
  <2>7. out[k - d] = ms[k] /\ k - d \in DOMAIN out
    BY <1>1, <1>2, <2>6
  <2>8. (k - d) + out[i].id = i
    BY <1>2, <2>2, <2>3, <2>4
  <2> QED BY <2>3, <2>7, <2>8
<1> QED BY <1>5, <1>6 DEF WholeExchanges, EveryCallAnswered, EveryResultOwned, out

LEMMA TrimmedFacts ==
    ASSUME NEW ms \in Seq(Message), NEW n \in Nat \ {0}
    PROVE  /\ Prompts(ms) \in 0..1 /\ Prompts(ms) <= Len(ms)
           /\ DOMAIN ms = 1..Len(ms) /\ Len(ms) \in Nat
           /\ Missing(ms, n) \in Nat
           /\ DOMAIN RecentTurns(ms, n) = 1..(Len(ms) - Missing(ms, n))
           /\ \A i \in 1..Prompts(ms) : RecentTurns(ms, n)[i] = ms[i]
           /\ \A i \in (Prompts(ms) + 1)..(Len(ms) - Missing(ms, n)) :
                 RecentTurns(ms, n)[i] = ms[i + Missing(ms, n)]
<1>1. /\ Prompts(ms) \in 0..1 /\ Prompts(ms) <= Len(ms)
      /\ DOMAIN ms = 1..Len(ms) /\ Len(ms) \in Nat
      /\ Missing(ms, n) \in Nat
  BY RestShape, MissingShape
<1>2. RecentTurns(ms, n) \in Seq(Message)
  BY TrimmedShape
<1>3. DOMAIN RecentTurns(ms, n) = 1..Len(RecentTurns(ms, n))
  BY <1>2
<1> QED BY <1>1, <1>3, TrimmedShape

(* Trimming invents no message.                                            *)
LEMMA TrimmedFromList ==
    ASSUME NEW ms \in Seq(Message), NEW n \in Nat \ {0}
    PROVE  \A i \in DOMAIN RecentTurns(ms, n) :
              \E k \in DOMAIN ms : RecentTurns(ms, n)[i] = ms[k]
<1> DEFINE out == RecentTurns(ms, n)
           d == Missing(ms, n)
           p == Prompts(ms)
<1>1. /\ p \in 0..1 /\ p <= Len(ms) /\ DOMAIN ms = 1..Len(ms)
      /\ Len(ms) \in Nat /\ d \in Nat
      /\ DOMAIN out = 1..(Len(ms) - d)
      /\ \A i \in 1..p : out[i] = ms[i]
      /\ \A i \in (p + 1)..(Len(ms) - d) : out[i] = ms[i + d]
  BY TrimmedFacts
<1> HIDE DEF out, d, p
<1>2. ASSUME NEW i \in DOMAIN out PROVE \E k \in DOMAIN ms : out[i] = ms[k]
  <2>1. CASE i <= p
    BY <2>1, <1>1
  <2>2. CASE i > p
    <3>1. i \in (p + 1)..(Len(ms) - d) /\ i + d \in DOMAIN ms
      BY <2>2, <1>1
    <3> QED BY <3>1, <1>1
  <2> QED BY <2>1, <2>2, <1>1
<1> QED BY <1>2 DEF out

(* The prompt stays first, and the last words stay last.                   *)
THEOREM TrimmedEnds ==
    ASSUME NEW ms \in Seq(Message), NEW n \in Nat \ {0},
           HasSystem(ms), LastRole(ms) = "assistant", QuietPrompt(ms)
    PROVE  /\ RecentTurns(ms, n) # <<>>
           /\ HasSystem(RecentTurns(ms, n))
           /\ LastRole(RecentTurns(ms, n)) = "assistant"
           /\ QuietPrompt(RecentTurns(ms, n))
<1> DEFINE out == RecentTurns(ms, n)
           d == Missing(ms, n)
<1>1. Prompts(ms) = 1 /\ ms # <<>> /\ ms[1].role = "system" /\ ms[1].calls = 0
  BY DEF Prompts, HasSystem, QuietPrompt
<1>2. Len(ms) \in Nat /\ Len(ms) >= 2
  BY <1>1 DEF LastRole
<1>3. d \in Nat /\ d < Len(ms) - 1
  <2>1. Len(Rest(ms)) = Len(ms) - 1 /\ Rest(ms) \in Seq(Message)
    BY <1>1, RestShape
  <2>2. Rest(ms) # <<>>
    BY <2>1, <1>2
  <2> QED BY <2>1, <2>2, MissingShape
<1>4. /\ out \in Seq(Message) /\ Len(out) = Len(ms) - d
      /\ out[1] = ms[1]
      /\ \A i \in 2..Len(out) : out[i] = ms[i + d]
  BY <1>1, TrimmedShape
<1> HIDE DEF out, d
<1>5. /\ Len(out) \in 2..Len(out) /\ Len(out) + d = Len(ms) /\ out # <<>>
  BY <1>2, <1>3, <1>4
<1>6. out[Len(out)] = ms[Len(ms)]
  BY <1>4, <1>5
<1> QED BY <1>1, <1>4, <1>5, <1>6 DEF out, HasSystem, LastRole, QuietPrompt

(* No more turns are kept than asked for.                                  *)
THEOREM TrimmedIsShort ==
    ASSUME NEW ms \in Seq(Message), NEW n \in Nat \ {0}
    PROVE  LET out == RecentTurns(ms, n)
           IN  Cardinality({i \in DOMAIN out : out[i].role = "user"}) <= n
<1> DEFINE out == RecentTurns(ms, n)
           d == Missing(ms, n)
           p == Prompts(ms)
           rest == Rest(ms)
           S == {i \in DOMAIN out : out[i].role = "user"}
           T == {k \in Beginnings(rest) : k >= Cut(rest, n)}
           f == [i \in S |-> (i + d) - p]
<1>1. /\ p \in 0..1 /\ p <= Len(ms)
      /\ Len(ms) \in Nat /\ d \in Nat
      /\ DOMAIN out = 1..(Len(ms) - d)
      /\ \A i \in 1..p : out[i] = ms[i]
      /\ \A i \in (p + 1)..(Len(ms) - d) : out[i] = ms[i + d]
  BY TrimmedFacts
<1>2. /\ rest \in Seq(Message) /\ Len(rest) = Len(ms) - p
      /\ DOMAIN rest = 1..Len(rest)
      /\ \A i \in 1..Len(rest) : rest[i] = ms[i + p]
      /\ Cut(rest, n) = d + 1
  BY RestShape, MissingShape
<1>3. p = 1 => ms[1].role = "system"
  BY DEF Prompts, HasSystem
<1>4. IsFiniteSet(T) /\ Cardinality(T) <= n
  <2>1. IsFiniteSet(Beginnings(rest)) /\ T \subseteq Beginnings(rest)
    BY <1>2, BeginningsAreFinite
  <2>2. IsFiniteSet(T)
    BY <2>1, FS_Subset
  <2> QED BY <2>2, <1>2, CutIsABeginning
<1> HIDE DEF out, d, p, rest
<1>5. ASSUME NEW i \in S PROVE i \in Nat /\ (i + d) - p \in T
  <2>1. i \in 1..(Len(ms) - d) /\ out[i].role = "user"
    BY <1>1
  <2>2. i > p
    <3> SUFFICES ASSUME i <= p PROVE FALSE
      BY <1>1, <2>1
    <3>1. i = 1 /\ p = 1
      BY <1>1, <2>1
    <3> QED BY <1>1, <1>3, <2>1, <3>1
  <2> DEFINE k == (i + d) - p
  <2>3. k \in 1..Len(rest) /\ k + p = i + d /\ k >= d + 1
    BY <1>1, <1>2, <2>1, <2>2
  <2>4. rest[k] = out[i]
    <3>1. i \in (p + 1)..(Len(ms) - d)
      BY <1>1, <2>1, <2>2
    <3>2. out[i] = ms[i + d]
      BY <1>1, <3>1
    <3>3. rest[k] = ms[k + p]
      BY <1>2, <2>3
    <3> QED BY <2>3, <3>2, <3>3
  <2> HIDE DEF k
  <2>5. k \in Beginnings(rest) /\ k >= Cut(rest, n)
    BY <1>2, <2>1, <2>3, <2>4 DEF Beginnings
  <2> QED BY <2>1, <2>5 DEF k
<1> HIDE DEF S, T
<1>6. f \in Injection(S, T)
  <2>1. f \in [S -> T]
    BY <1>5
  <2>2. \A a, b \in S : f[a] = f[b] => a = b
    <3>1. \A a \in S : a \in Nat /\ f[a] = (a + d) - p
      BY <1>5
    <3> HIDE DEF f
    <3> QED BY <1>1, <3>1
  <2>3. DOMAIN f = S
    OBVIOUS
  <2> HIDE DEF f
  <2> QED BY <2>1, <2>2, <2>3 DEF Injection, IsInjective
<1>7. Cardinality(S) <= Cardinality(T)
  <2> HIDE DEF f
  <2> QED BY <1>4, <1>6, FS_Injection
<1>8. Cardinality(S) \in Nat /\ Cardinality(T) \in Nat
  <2> HIDE DEF f
  <2> QED BY <1>4, <1>6, FS_Injection, FS_CardinalityType
<1>9. Cardinality(S) <= n
  BY <1>4, <1>7, <1>8
<1> QED BY <1>9 DEF S, out

(* Where something is cut off, exactly n turns are left.                   *)
LEMMA CutLeavesAll ==
    ASSUME NEW rest \in Seq(Message), NEW n \in Nat \ {0},
           Cut(rest, n) # 1
    PROVE  Cardinality({k \in Beginnings(rest) : k >= Cut(rest, n)}) = n
<1> DEFINE B == Beginnings(rest)
           From(i) == {k \in B : k >= i}
<1>1. /\ B \in SUBSET (0..Len(rest)) /\ IsFiniteSet(B)
      /\ Cardinality(B) \in Nat /\ Len(rest) \in Nat
  BY BeginningsAreFinite
<1>2. ~(Cardinality(B) <= n)
  BY DEF Cut
<1>3. Cut(rest, n) = CHOOSE i \in B : Cardinality(From(i)) = n
  BY <1>2 DEF Cut
<1> HIDE DEF B
<1>4. \E i \in B : Cardinality(From(i)) = n
  <2>1. n <= Cardinality(B)
    BY <1>1, <1>2
  <2> QED BY <1>1, <2>1, LastOnes
<1>5. Cardinality(From(Cut(rest, n))) = n
  BY <1>3, <1>4
<1> QED BY <1>5 DEF B

(* It cuts off no more than it has to: where it cuts, exactly n questions *)
(* are kept.                                                               *)
THEOREM TrimmedIsFull ==
    ASSUME NEW ms \in Seq(Message), NEW n \in Nat \ {0},
           HasSystem(ms), Len(ms) > 1, ms[2].role = "user",
           Missing(ms, n) # 0
    PROVE  LET out == RecentTurns(ms, n)
           IN  Cardinality({i \in DOMAIN out : out[i].role = "user"}) = n
<1> DEFINE out == RecentTurns(ms, n)
           d == Missing(ms, n)
           rest == Rest(ms)
           S == {i \in DOMAIN out : out[i].role = "user"}
           T == {k \in Beginnings(rest) : k >= Cut(rest, n)}
           f == [k \in T |-> (k + 1) - d]
<1>1. /\ Prompts(ms) = 1
      /\ Len(ms) \in Nat /\ d \in Nat
      /\ DOMAIN out = 1..(Len(ms) - d)
      /\ \A i \in 2..(Len(ms) - d) : out[i] = ms[i + d]
  <2>1. Prompts(ms) = 1
    BY DEF Prompts
  <2> QED BY <2>1, TrimmedFacts
<1>2. /\ rest \in Seq(Message) /\ Len(rest) = Len(ms) - 1
      /\ DOMAIN rest = 1..Len(rest)
      /\ \A i \in 1..Len(rest) : rest[i] = ms[i + 1]
      /\ Cut(rest, n) = d + 1
  <2>1. /\ rest \in Seq(Message) /\ Len(rest) = Len(ms) - Prompts(ms)
        /\ \A i \in 1..Len(rest) : rest[i] = ms[i + Prompts(ms)]
        /\ Cut(rest, n) = d + 1
    BY RestShape, MissingShape
  <2> HIDE DEF rest, d
  <2> QED BY <1>1, <2>1
<1>3. Cardinality(T) = n
  <2>1. Cut(rest, n) # 1
    BY <1>1, <1>2
  <2> HIDE DEF rest
  <2> QED BY <1>2, <2>1, CutLeavesAll
<1>4. IsFiniteSet(S) /\ Cardinality(S) \in Nat
  <2>1. S \in SUBSET (1..(Len(ms) - d))
    BY <1>1
  <2> DEFINE last == Len(ms) - d
  <2>2. IsFiniteSet(1..last)
    <3>1. last \in Int /\ 1 \in Int
      BY <1>1
    <3> HIDE DEF last
    <3> QED BY <3>1, FS_Interval
  <2> HIDE DEF S
  <2> QED BY <2>1, <2>2, FS_Subset, FS_CardinalityType
<1>5. Cardinality(S) <= n
  BY TrimmedIsShort
<1> HIDE DEF out, d, rest
<1>6. ASSUME NEW k \in T PROVE k \in Nat /\ (k + 1) - d \in S
  <2>1. k \in 1..Len(rest) /\ k >= d + 1 /\ (k = 1 \/ rest[k].role = "user")
    BY <1>2 DEF Beginnings
  <2>2. rest[k].role = "user"
    <3>1. 1 + 1 = 2
      OBVIOUS
    <3> QED BY <1>2, <2>1, <3>1
  <2> DEFINE i == (k + 1) - d
  <2>3. i \in 2..(Len(ms) - d) /\ i + d = k + 1
    BY <1>1, <1>2, <2>1
  <2> HIDE DEF i
  <2>4. out[i] = rest[k]
    BY <1>1, <1>2, <2>1, <2>3
  <2>5. i \in DOMAIN out
    BY <1>1, <2>3
  <2> QED BY <2>1, <2>2, <2>4, <2>5 DEF i
<1> HIDE DEF S, T
<1>7. f \in Injection(T, S)
  <2>1. f \in [T -> S]
    BY <1>6
  <2>2. \A a, b \in T : f[a] = f[b] => a = b
    <3>1. \A a \in T : a \in Nat /\ f[a] = (a + 1) - d
      BY <1>6
    <3> HIDE DEF f
    <3> QED BY <1>1, <3>1
  <2> HIDE DEF f
  <2> QED BY <2>1, <2>2 DEF Injection, IsInjective
<1>8. Cardinality(T) <= Cardinality(S)
  <2> HIDE DEF f
  <2> QED BY <1>4, <1>7, FS_Injection
<1>9. Cardinality(S) = n
  BY <1>3, <1>4, <1>5, <1>8
<1> QED BY <1>9 DEF S, out

-----------------------------------------------------------------------------
(***************************************************************************)
(* Trimming once is enough.                                                *)
(***************************************************************************)
\* A list is its prompt, if it has one, and the rest.
LEMMA PromptAndRest ==
    ASSUME NEW ms \in Seq(Message)
    PROVE  System(ms) \o Rest(ms) = ms
<1>1. CASE HasSystem(ms)
  <2>1. ms # <<>> /\ System(ms) = <<ms[1]>> /\ Rest(ms) = Tail(ms)
    BY <1>1 DEF HasSystem, System, Rest
  <2>2. /\ 1 \in 1..Len(ms) /\ Len(ms) \in 1..Len(ms)
        /\ Tail(ms) = SubSeq(ms, 2, Len(ms))
    BY <2>1, TailIsSubSeq
  <2>3. SubSeq(ms, 1, Len(ms)) = <<ms[1]>> \o SubSeq(ms, 1 + 1, Len(ms))
    BY <2>2, SubSeqRecursiveFirst
  <2>4. SubSeq(ms, 1, Len(ms)) = ms
    BY SubSeqFull
  <2> QED BY <2>1, <2>2, <2>3, <2>4
<1>2. CASE ~HasSystem(ms)
  BY <1>2, ConcatEmptySeq DEF System, Rest
<1> QED BY <1>1, <1>2

\* A list is the prompt and what is left of the rest, and is so taken apart.
LEMMA TakenApart ==
    ASSUME NEW ms \in Seq(Message), NEW left \in Seq(Message),
           HasSystem(ms) \/ (left # <<>> /\ left[1].role # "system")
    PROVE  LET out == System(ms) \o left
           IN  System(out) = System(ms) /\ Rest(out) = left
<1> DEFINE out == System(ms) \o left
<1>1. CASE HasSystem(ms)
  <2> DEFINE m == ms[1]
             one == <<m>>
  <2>1. m \in Message /\ m.role = "system" /\ System(ms) = one
    BY <1>1 DEF HasSystem, System
  <2> HIDE DEF m
  <2>2. one \in Seq(Message) /\ Len(one) = 1 /\ one[1] = m
    BY <2>1
  <2>3. Len(left) \in Nat
    OBVIOUS
  <2> DEFINE all == one \o left
  <2> HIDE DEF one
  <2>4. /\ all \in Seq(Message) /\ Len(all) = 1 + Len(left)
        /\ \A i \in 1..(1 + Len(left)) :
              all[i] = IF i <= 1 THEN one[i] ELSE left[i - 1]
    <3>1. /\ one \o left \in Seq(Message)
          /\ Len(one \o left) = Len(one) + Len(left)
          /\ \A i \in 1..(Len(one) + Len(left)) : (one \o left)[i] =
                IF i <= Len(one) THEN one[i] ELSE left[i - Len(one)]
      BY <2>2, ConcatProperties
    <3> QED BY <2>2, <3>1
  <2> HIDE DEF all
  <2>5. all # <<>> /\ all[1] = m
    BY <2>2, <2>3, <2>4
  <2>6. HasSystem(all) /\ System(all) = <<m>> /\ Rest(all) = Tail(all)
    BY <2>1, <2>5 DEF HasSystem, System, Rest
  <2>7. Tail(all) = left
    <3>1. /\ Tail(all) \in Seq(Message) /\ Len(Tail(all)) = Len(left)
          /\ \A i \in 1..Len(left) : Tail(all)[i] = all[i + 1]
      BY <2>3, <2>4, <2>5, HeadTailProperties
    <3>2. ASSUME NEW i \in 1..Len(left) PROVE Tail(all)[i] = left[i]
      <4>1. i + 1 \in 1..(1 + Len(left)) /\ ~(i + 1 <= 1) /\ (i + 1) - 1 = i
        BY <2>3
      <4> QED BY <2>4, <3>1, <4>1
    <3> QED BY <3>1, <3>2, SeqEqual
  <2>8. out = all
    BY <2>1 DEF all
  <2> QED BY <2>1, <2>6, <2>7, <2>8 DEF one
<1>2. CASE ~HasSystem(ms)
  <2>1. System(ms) = <<>> /\ left # <<>> /\ left[1].role # "system"
    BY <1>2 DEF System
  <2>2. out = left
    BY <2>1, ConcatEmptySeq
  <2> QED BY <2>1, <2>2 DEF HasSystem, System, Rest
<1> QED BY <1>1, <1>2

(* A list that was trimmed is not trimmed any further: saving again what   *)
(* was read changes nothing.                                               *)
THEOREM TrimmedStays ==
    ASSUME NEW ms \in Seq(Message), NEW n \in Nat \ {0}
    PROVE  RecentTurns(RecentTurns(ms, n), n) = RecentTurns(ms, n)
<1> DEFINE rest == Rest(ms)
           c == Cut(rest, n)
           left == SubSeq(rest, c, Len(rest))
           out == RecentTurns(ms, n)
<1>1. rest \in Seq(Message) /\ Len(rest) \in Nat
  BY RestShape
<1>2. out = System(ms) \o left
  BY DEF RecentTurns
<1>3. CASE c = 1
  <2>1. left = rest
    BY <1>1, <1>3, SubSeqFull
  <2>2. out = ms
    BY <1>2, <2>1, PromptAndRest
  <2> QED BY <2>2
<1>4. CASE c # 1
  <2> HIDE DEF rest
  <2>1. c \in 1..Len(rest) /\ c \in Nat /\ rest[c].role = "user"
    <3>1. rest # <<>> /\ c \in Beginnings(rest)
      BY <1>1, <1>4, CutIsABeginning
    <3> QED BY <1>4, <3>1 DEF Beginnings
  <2> HIDE DEF c
  <2>2. /\ left \in Seq(Message) /\ Len(left) = Len(rest) - c + 1
        /\ \A i \in 1..(Len(rest) - c + 1) : left[i] = rest[c + i - 1]
    <3>1. \A i \in c..Len(rest) : rest[i] \in Message
      BY <1>1, <2>1
    <3>2. c \in Int /\ Len(rest) \in Int /\ c <= Len(rest)
      BY <1>1, <2>1
    <3> QED BY <3>1, <3>2, SubSeqProperties
  <2> HIDE DEF left
  <2>3. left # <<>> /\ left[1].role # "system"
    <3>1. 1 \in 1..(Len(rest) - c + 1) /\ c + 1 - 1 = c
      BY <1>1, <2>1
    <3>2. left[1] = rest[c] /\ Len(left) # 0
      BY <1>1, <2>1, <2>2, <3>1
    <3> QED BY <2>1, <3>2
  <2>4. System(out) = System(ms) /\ Rest(out) = left
    <3> HIDE DEF out
    <3> QED BY <1>2, <2>2, <2>3, TakenApart
  <2>5. Cardinality(Beginnings(left)) <= n
    <3> DEFINE From == {k \in Beginnings(rest) : k >= c}
               A == Beginnings(left)
               f == [i \in A |-> c + i - 1]
    <3>1. IsFiniteSet(From) /\ Cardinality(From) = n
      <4>1. IsFiniteSet(Beginnings(rest)) /\ From \subseteq Beginnings(rest)
        BY <1>1, BeginningsAreFinite
      <4>2. IsFiniteSet(From)
        BY <4>1, FS_Subset
      <4>3. Cardinality(From) = n
        BY <1>1, <1>4, CutLeavesAll DEF c
      <4> QED BY <4>2, <4>3
    <3>2. ASSUME NEW i \in A PROVE i \in Nat /\ c + i - 1 \in From
      <4>1. i \in 1..Len(left) /\ (i = 1 \/ left[i].role = "user")
        BY DEF Beginnings
      <4>2. /\ i \in 1..(Len(rest) - c + 1) /\ c + i - 1 \in 1..Len(rest)
            /\ c + i - 1 >= c /\ (i = 1 => c + i - 1 = c)
        BY <1>1, <2>1, <2>2, <4>1
      <4>3. rest[c + i - 1].role = "user"
        BY <2>1, <2>2, <4>1, <4>2
      <4>4. c + i - 1 \in Beginnings(rest)
        BY <1>1, <4>2, <4>3 DEF Beginnings
      <4> QED BY <4>1, <4>2, <4>4
    <3> HIDE DEF A, From
    <3>3. f \in Injection(A, From)
      <4>1. f \in [A -> From] /\ DOMAIN f = A
        BY <3>2
      <4>2. ASSUME NEW i \in A, NEW j \in A, f[i] = f[j] PROVE i = j
        <5>1. c + i - 1 = c + j - 1 /\ i \in Nat /\ j \in Nat
          BY <3>2, <4>2
        <5> QED BY <2>1, <5>1
      <4> HIDE DEF f
      <4> QED BY <4>1, <4>2 DEF Injection, IsInjective
    <3> HIDE DEF f
    <3>4. Cardinality(A) <= Cardinality(From)
      BY <3>1, <3>3, FS_Injection
    <3> QED BY <3>1, <3>4 DEF A
  <2>6. Cut(left, n) = 1
    BY <2>5 DEF Cut
  <2>7. SubSeq(left, 1, Len(left)) = left
    BY <2>2, SubSeqFull
  <2>8. RecentTurns(out, n) =
            System(out) \o SubSeq(Rest(out), Cut(Rest(out), n), Len(Rest(out)))
    BY DEF RecentTurns
  <2> HIDE DEF out
  <2> QED BY <1>2, <2>4, <2>6, <2>7, <2>8 DEF out
<1> QED BY <1>3, <1>4

-----------------------------------------------------------------------------
(***************************************************************************)
(* The loop of _trim_to_recent_turns: it finds the same cut.               *)
(***************************************************************************)
(* A loop whose step is a function runs through.                           *)
LEMMA StepsRunThrough ==
    \A S : \A base \in S : \A n \in Nat : \A step \in [1..n -> [S -> S]] :
        \E f \in [0..n -> S] :
            f[0] = base /\ \A i \in 1..n : f[i] = step[i][f[i - 1]]
<1> SUFFICES ASSUME NEW S, NEW base \in S, NEW n \in Nat,
                    NEW step \in [1..n -> [S -> S]]
             PROVE  \E f \in [0..n -> S] :
                       f[0] = base /\ \A i \in 1..n : f[i] = step[i][f[i - 1]]
  OBVIOUS
<1> DEFINE Runs(k) == \E f \in [0..k -> S] :
                         f[0] = base /\ \A i \in 1..k : f[i] = step[i][f[i - 1]]
           R == {k \in Nat : k <= n => Runs(k)}
<1>1. 0 \in R
  <2> DEFINE g == [i \in 0..0 |-> base]
  <2>1. g \in [0..0 -> S] /\ g[0] = base /\ 1..0 = {}
    OBVIOUS
  <2> HIDE DEF g
  <2>2. Runs(0)
    BY <2>1
  <2> HIDE DEF Runs
  <2> QED BY <2>2
<1>2. ASSUME NEW k \in Nat, k \in R
      PROVE  k + 1 \in R
  <2> SUFFICES ASSUME k + 1 <= n PROVE Runs(k + 1)
    <3> HIDE DEF Runs
    <3> QED OBVIOUS
  <2>1. Runs(k)
    <3> HIDE DEF Runs
    <3> QED BY <1>2
  <2>2. PICK f \in [0..k -> S] :
             f[0] = base /\ \A i \in 1..k : f[i] = step[i][f[i - 1]]
    BY <2>1
  <2> DEFINE next == step[k + 1][f[k]]
             g == [i \in 0..(k + 1) |-> IF i = k + 1 THEN next ELSE f[i]]
  <2>3. next \in S
    <3>1. f[k] \in S /\ k + 1 \in 1..n
      OBVIOUS
    <3>2. step[k + 1] \in [S -> S]
      BY <3>1
    <3> QED BY <3>1, <3>2
  <2> HIDE DEF next
  <2>4. g \in [0..(k + 1) -> S] /\ g[0] = base
    BY <2>2, <2>3
  <2>5. g[k + 1] = next /\ \A i \in 0..k : g[i] = f[i]
    OBVIOUS
  <2> HIDE DEF g
  <2>6. ASSUME NEW i \in 1..(k + 1) PROVE g[i] = step[i][g[i - 1]]
    <3>1. CASE i = k + 1
      <4>1. i - 1 = k /\ k \in 0..k
        BY <3>1
      <4> QED BY <3>1, <4>1, <2>5 DEF next
    <3>2. CASE i # k + 1
      <4>1. i \in 1..k /\ i \in 0..k /\ i - 1 \in 0..k
        BY <3>2
      <4> QED BY <4>1, <2>2, <2>5
    <3> QED BY <3>1, <3>2
  <2> QED BY <2>4, <2>6
<1> HIDE DEF R
<1>3. Nat \subseteq R
  BY <1>1, <1>2, SetInduction
<1>4. n \in R
  BY <1>3
<1> QED BY <1>4 DEF R

(* Joining the parts s[1], s[2], ... of t: if the first j of them make     *)
(* up SubSeq(t, p[1], p[j + 1] - 1), all of them do.                       *)
LEMMA PartsJoined ==
    ASSUME NEW S, NEW t \in Seq(S), NEW s \in Seq(Seq(S)), s # <<>>,
           NEW p \in [1..(Len(s) + 1) -> 1..(Len(t) + 1)],
           \A j \in 1..Len(s) :
               p[j] < p[j + 1] /\ s[j] = SubSeq(t, p[j], p[j + 1] - 1)
    PROVE  FlattenSeq(s) = SubSeq(t, p[1], p[Len(s) + 1] - 1)
<1> DEFINE L == Len(s)
           part == [j \in 1..L |-> SubSeq(t, p[1], p[j + 1] - 1)]
           Join(f) == [i \in 1..L |-> IF i = 1 THEN s[i] ELSE f[i - 1] \o s[i]]
           joined == CHOOSE f : f = Join(f)
<1>1. L \in Nat /\ L # 0 /\ Len(t) \in Nat
  OBVIOUS
<1>0. \A j \in 1..(L + 1) : p[j] \in Nat /\ p[j] \in 1..(Len(t) + 1)
  <2>1. \A j \in 1..(L + 1) : p[j] \in 1..(Len(t) + 1)
    OBVIOUS
  <2> HIDE DEF L
  <2> QED BY <1>1, <2>1
<1>2. ASSUME NEW j \in 1..L
      PROVE  /\ p[1] \in 1..(Len(t) + 1) /\ p[j + 1] \in 1..(Len(t) + 1)
             /\ p[1] < p[j + 1]
  <2> DEFINE T == {k \in Nat : k \in 1..L => p[1] < p[k + 1]}
  <2>1. 0 \in T
    OBVIOUS
  <2>2. ASSUME NEW k \in Nat, k \in T PROVE k + 1 \in T
    <3> SUFFICES ASSUME k + 1 \in 1..L PROVE p[1] < p[(k + 1) + 1]
      OBVIOUS
    <3>1. p[k + 1] < p[(k + 1) + 1]
      OBVIOUS
    <3>2. /\ p[1] \in Nat /\ p[k + 1] \in Nat /\ p[(k + 1) + 1] \in Nat
      <4>1. /\ 1 \in 1..(L + 1) /\ k + 1 \in 1..(L + 1)
            /\ (k + 1) + 1 \in 1..(L + 1)
        BY <1>1
      <4> HIDE DEF L
      <4> QED BY <4>1, <1>0
    <3>3. p[1] <= p[k + 1]
      <4>1. CASE k = 0
        BY <4>1, <3>2
      <4>2. CASE k # 0
        BY <4>2, <2>2, <3>2
      <4> QED BY <4>1, <4>2
    <3> HIDE DEF L
    <3> QED BY <3>1, <3>2, <3>3
  <2> HIDE DEF T
  <2>3. Nat \subseteq T
    BY <2>1, <2>2, SetInduction
  <2>4. p[1] < p[j + 1]
    BY <2>3 DEF T
  <2>5. 1 \in 1..(L + 1) /\ j + 1 \in 1..(L + 1)
    BY <1>1
  <2> HIDE DEF L
  <2> QED BY <1>0, <2>4, <2>5
<1>3. part = Join(part)
  <2>1. ASSUME NEW i \in 1..L
        PROVE  part[i] = IF i = 1 THEN s[i] ELSE part[i - 1] \o s[i]
    <3>1. CASE i = 1
      BY <3>1
    <3>2. CASE i # 1
      <4>1. i - 1 \in 1..L /\ (i - 1) + 1 = i
        BY <1>1, <3>2
      <4>2. /\ part[i] = SubSeq(t, p[1], p[i + 1] - 1)
            /\ part[i - 1] = SubSeq(t, p[1], p[i] - 1)
            /\ s[i] = SubSeq(t, p[i], p[i + 1] - 1)
        BY <4>1
      <4>3. /\ p[1] \in Nat /\ p[i] \in Nat /\ p[i + 1] \in Nat
            /\ p[1] \in 1..(Len(t) + 1) /\ p[i] \in 1..(Len(t) + 1)
            /\ p[i + 1] \in 1..(Len(t) + 1)
            /\ p[1] < p[i] /\ p[i] < p[i + 1] /\ Len(t) \in Nat
        <5>1. p[1] < p[(i - 1) + 1]
          BY <4>1, <1>2
        <5>2. p[i] < p[i + 1]
          OBVIOUS
        <5>3. 1 \in 1..(L + 1) /\ i \in 1..(L + 1) /\ i + 1 \in 1..(L + 1)
          BY <1>1
        <5> HIDE DEF L
        <5> QED BY <4>1, <5>1, <5>2, <5>3, <1>0, <1>1
      <4> HIDE DEF part, L
      <4>4. SubSeq(t, p[1], p[i] - 1) \o SubSeq(t, (p[i] - 1) + 1, p[i + 1] - 1)
              = SubSeq(t, p[1], p[i + 1] - 1)
        <5>1. /\ p[i] - 1 \in (p[1] - 1)..Len(t)
              /\ p[i + 1] - 1 \in (p[i] - 1)..Len(t)
          <6>1. \A a, b, c, l \in Nat : a < b /\ b < c /\ c <= l + 1 =>
                   b - 1 \in (a - 1)..l /\ c - 1 \in (b - 1)..l
            OBVIOUS
          <6>2. p[i + 1] <= Len(t) + 1
            BY <4>3
          <6> QED BY <4>3, <6>1, <6>2
        <5> QED BY <4>3, <5>1, ConcatAdjacentSubSeq
      <4>5. (p[i] - 1) + 1 = p[i]
        BY <4>3
      <4> QED BY <3>2, <4>2, <4>4, <4>5
    <3> QED BY <3>1, <3>2
  <2> DEFINE At(i) == IF i = 1 THEN s[i] ELSE part[i - 1] \o s[i]
  <2>2. part = [i \in 1..L |-> part[i]]
    OBVIOUS
  <2>3. \A i \in 1..L : part[i] = At(i)
    BY <2>1
  <2> HIDE DEF At, part, L
  <2>4. part = [i \in 1..L |-> At(i)]
    BY <2>2, <2>3
  <2> QED BY <2>4 DEF At
<1>4. joined = Join(joined)
  <2> HIDE DEF part, Join
  <2> QED BY <1>3
<1>5. /\ joined[1] = s[1]
      /\ \A i \in 2..L : joined[i] = joined[i - 1] \o s[i]
  <2> DEFINE g == Join(joined)
  <2>1. g[1] = s[1] /\ \A i \in 2..L : g[i] = joined[i - 1] \o s[i]
    <3> HIDE DEF L, joined
    <3>1. 1 \in 1..L /\ \A i \in 2..L : i \in 1..L /\ i # 1
      BY <1>1
    <3> QED BY <3>1
  <2> HIDE DEF g, L, joined
  <2>2. joined = g
    BY <1>4 DEF g
  <2> QED BY <2>1, <2>2
<1>6. /\ part[1] = s[1]
      /\ \A i \in 2..L : part[i] = part[i - 1] \o s[i]
  <2> DEFINE g == Join(part)
  <2>1. g[1] = s[1] /\ \A i \in 2..L : g[i] = part[i - 1] \o s[i]
    <3> HIDE DEF L, part
    <3>1. 1 \in 1..L /\ \A i \in 2..L : i \in 1..L /\ i # 1
      BY <1>1
    <3> QED BY <3>1
  <2> HIDE DEF g, L, part
  <2>2. part = g
    BY <1>3 DEF g
  <2> QED BY <2>1, <2>2
<1>7. FlattenSeq(s) = joined[L]
  BY <1>1 DEF FlattenSeq
<1> HIDE DEF joined, part
<1>8. joined[L] = part[L]
  <2> DEFINE T == {k \in Nat : k \in 1..L => joined[k] = part[k]}
  <2> HIDE DEF L
  <2>1. 0 \in T
    OBVIOUS
  <2>2. ASSUME NEW k \in Nat, k \in T PROVE k + 1 \in T
    <3> SUFFICES ASSUME k + 1 \in 1..L PROVE joined[k + 1] = part[k + 1]
      OBVIOUS
    <3>1. CASE k = 0
      BY <3>1, <1>5, <1>6
    <3>2. CASE k # 0
      <4>1. k + 1 \in 2..L /\ k \in 1..L /\ (k + 1) - 1 = k
        BY <3>2, <1>1
      <4> QED BY <4>1, <2>2, <1>5, <1>6
    <3> QED BY <3>1, <3>2
  <2> HIDE DEF T
  <2>3. Nat \subseteq T
    BY <2>1, <2>2, SetInduction
  <2>4. L \in T /\ L \in 1..L
    BY <2>3, <1>1
  <2> QED BY <2>4 DEF T
<1>9. part[L] = SubSeq(t, p[1], p[L + 1] - 1)
  <2>1. L \in 1..L
    BY <1>1
  <2> HIDE DEF L
  <2> QED BY <2>1 DEF part
<1> QED BY <1>7, <1>8, <1>9

(* Where the turns t of the first i messages begin: at p[1], p[2], ..., and *)
(* the next one would at p[Len(t) + 1].                                    *)
Marks(rest, i, t, p) ==
    /\ t \in Seq(Seq(Message))
    /\ p \in [1..(Len(t) + 1) -> 1..(i + 1)]
    /\ p[1] = 1 /\ p[Len(t) + 1] = i + 1
    /\ \A j, k \in 1..(Len(t) + 1) : j < k => p[j] < p[k]
    /\ \A j \in 1..Len(t) : t[j] = SubSeq(rest, p[j], p[j + 1] - 1)
    /\ {p[j] : j \in 1..Len(t)} = {k \in Beginnings(rest) : k <= i}

\* What it says of one position at a time.
LEMMA MarksShape ==
    ASSUME NEW rest \in Seq(Message), NEW i \in Nat, NEW t, NEW p,
           Marks(rest, i, t, p)
    PROVE  /\ t \in Seq(Seq(Message)) /\ Len(t) \in Nat
           /\ p[1] = 1 /\ p[Len(t) + 1] = i + 1
           /\ \A j \in 1..(Len(t) + 1) : p[j] \in 1..(i + 1) /\ p[j] \in Nat
           /\ \A j, k \in 1..(Len(t) + 1) : j < k => p[j] < p[k]
           /\ \A j \in 1..Len(t) :
                 t[j] = SubSeq(rest, p[j], p[j + 1] - 1)
           /\ {p[j] : j \in 1..Len(t)} = {k \in Beginnings(rest) : k <= i}
<1>1. t \in Seq(Seq(Message)) /\ Len(t) \in Nat
  BY DEF Marks
<1>2. p \in [1..(Len(t) + 1) -> 1..(i + 1)]
  BY DEF Marks
<1>3. \A j \in 1..(Len(t) + 1) : p[j] \in 1..(i + 1) /\ p[j] \in Nat
  <2>1. \A j \in 1..(Len(t) + 1) : p[j] \in 1..(i + 1)
    BY <1>2
  <2> QED BY <2>1
<1> QED BY <1>1, <1>3 DEF Marks

\* A message that opens a turn.
LEMMA TurnOpened ==
    ASSUME NEW rest \in Seq(Message), NEW i \in Nat, i + 1 <= Len(rest),
           NEW t, NEW p, Marks(rest, i, t, p),
           rest[i + 1].role = "user" \/ t = <<>>
    PROVE  \E q : Marks(rest, i + 1, AddToTurns(t, rest[i + 1]), q)
<1> DEFINE m == rest[i + 1]
           L == Len(t)
           u == Append(t, <<m>>)
           q == [j \in 1..(L + 2) |-> IF j = L + 2 THEN i + 2 ELSE p[j]]
<1>0. m \in Message /\ Len(rest) \in Nat /\ L \in Nat
  BY MarksShape
<1>1. /\ t \in Seq(Seq(Message))
      /\ p[1] = 1 /\ p[L + 1] = i + 1
      /\ \A j \in 1..(L + 1) : p[j] \in 1..(i + 1) /\ p[j] \in Nat
      /\ \A j, k \in 1..(L + 1) : j < k => p[j] < p[k]
      /\ \A j \in 1..L : t[j] = SubSeq(rest, p[j], p[j + 1] - 1)
      /\ {p[j] : j \in 1..L} = {k \in Beginnings(rest) : k <= i}
  BY MarksShape
<1>2. AddToTurns(t, m) = u
  BY DEF AddToTurns
<1>3. /\ u \in Seq(Seq(Message)) /\ Len(u) = L + 1 /\ u[L + 1] = <<m>>
      /\ \A j \in 1..L : u[j] = t[j]
  BY <1>0, <1>1
<1> HIDE DEF u, L, m
<1>4. /\ q[L + 2] = i + 2
      /\ \A j \in 1..(L + 1) : q[j] = p[j]
  BY <1>0, <1>1
<1>5. q \in [1..((L + 1) + 1) -> 1..((i + 1) + 1)]
  <2>1. \A j \in 1..(L + 2) :
           (IF j = L + 2 THEN i + 2 ELSE p[j]) \in 1..((i + 1) + 1)
    BY <1>0, <1>1
  <2>2. (L + 1) + 1 = L + 2
    BY <1>0, <1>1
  <2> QED BY <2>1, <2>2
<1> HIDE DEF q
<1>6. ASSUME NEW j \in 1..((L + 1) + 1), NEW k \in 1..((L + 1) + 1), j < k
      PROVE  q[j] < q[k]
  <2>1. j \in 1..(L + 1) /\ (k = L + 2 \/ k \in 1..(L + 1))
    BY <1>0, <1>6
  <2>2. CASE k = L + 2
    BY <1>1, <1>4, <2>1, <2>2
  <2>3. CASE k \in 1..(L + 1)
    <3>1. p[j] < p[k]
      BY <1>1, <1>6, <2>1, <2>3
    <3> QED BY <1>4, <2>1, <2>3, <3>1
  <2> QED BY <2>1, <2>2, <2>3
<1>7. ASSUME NEW j \in 1..(L + 1)
      PROVE  u[j] = SubSeq(rest, q[j], q[j + 1] - 1)
  <2>1. CASE j = L + 1
    <3>1. q[j] = i + 1 /\ q[j + 1] = i + 2 /\ u[j] = <<m>>
      BY <1>0, <1>1, <1>3, <1>4, <2>1
    <3>2. SubSeq(rest, i + 1, (i + 2) - 1) = <<m>>
      <4>1. (i + 2) - 1 = i + 1 /\ i + 1 \in 1..Len(rest)
        BY <1>0, <1>1
      <4>2. SubSeq(rest, i + 1, i + 1) = SubSeq(rest, i + 1, (i + 1) - 1) \o <<m>>
        BY <4>1, SubSeqRecursiveSecond DEF m
      <4>3. SubSeq(rest, i + 1, (i + 1) - 1) = <<>>
        BY SubSeqEmpty
      <4>4. <<m>> \in Seq(Message)
        BY <1>0, <1>1
      <4> QED BY <4>1, <4>2, <4>3, <4>4, ConcatEmptySeq
    <3> QED BY <3>1, <3>2
  <2>2. CASE j # L + 1
    <3>1. j \in 1..L /\ j \in 1..(L + 1) /\ j + 1 \in 1..(L + 1)
      BY <1>0, <1>1, <2>2
    <3> QED BY <3>1, <1>0, <1>1, <1>3, <1>4
  <2> QED BY <2>1, <2>2
<1>8. {q[j] : j \in 1..(L + 1)} = {k \in Beginnings(rest) : k <= i + 1}
  <2>1. i + 1 \in Beginnings(rest)
    <3>1. i + 1 \in 1..Len(rest)
      BY <1>0, <1>1
    <3>2. t = <<>> => i + 1 = 1
      BY <1>0, <1>1 DEF L
    <3> QED BY <3>1, <3>2 DEF Beginnings
  <2>2. \A k \in Beginnings(rest) : k \in Nat
    BY DEF Beginnings
  <2>3. {k \in Beginnings(rest) : k <= i + 1}
          = {k \in Beginnings(rest) : k <= i} \union {i + 1}
    BY <2>1, <2>2
  <2>4. \A j \in 1..(L + 1) : q[j] = p[j]
    BY <1>4
  <2>5. {q[j] : j \in 1..(L + 1)} = {p[j] : j \in 1..L} \union {p[L + 1]}
    <3>1. 1..(L + 1) = 1..L \union {L + 1}
      BY <1>0, <1>1
    <3> QED BY <2>4, <3>1
  <2> QED BY <1>0, <1>1, <2>3, <2>5
<1>9. q[1] = 1 /\ q[(L + 1) + 1] = (i + 1) + 1
  <2>1. 1 \in 1..(L + 1) /\ (L + 1) + 1 = L + 2
    BY <1>0, <1>1
  <2> QED BY <1>0, <1>1, <1>4, <2>1
<1>10. Marks(rest, i + 1, u, q)
  BY <1>3, <1>5, <1>6, <1>7, <1>8, <1>9 DEF Marks
<1> QED BY <1>2, <1>10 DEF m

\* A message that goes on with the last turn.
LEMMA TurnGoesOn ==
    ASSUME NEW rest \in Seq(Message), NEW i \in Nat, i + 1 <= Len(rest),
           NEW t, NEW p, Marks(rest, i, t, p),
           rest[i + 1].role # "user", t # <<>>
    PROVE  \E q : Marks(rest, i + 1, AddToTurns(t, rest[i + 1]), q)
<1> DEFINE m == rest[i + 1]
           L == Len(t)
           last == Append(Last(t), m)
           u == Front(t) \o <<last>>
           q == [j \in 1..(L + 1) |-> IF j = L + 1 THEN i + 2 ELSE p[j]]
<1>0. m \in Message /\ Len(rest) \in Nat /\ L \in Nat \ {0}
  BY MarksShape
<1>1. /\ t \in Seq(Seq(Message))
      /\ p[1] = 1 /\ p[L + 1] = i + 1
      /\ \A j \in 1..(L + 1) : p[j] \in 1..(i + 1) /\ p[j] \in Nat
      /\ \A j, k \in 1..(L + 1) : j < k => p[j] < p[k]
      /\ \A j \in 1..L : t[j] = SubSeq(rest, p[j], p[j + 1] - 1)
      /\ {p[j] : j \in 1..L} = {k \in Beginnings(rest) : k <= i}
  BY MarksShape
<1>2. AddToTurns(t, m) = u
  BY DEF AddToTurns
<1>3. /\ u \in Seq(Seq(Message)) /\ Len(u) = L /\ u[L] = last
      /\ \A j \in 1..(L - 1) : u[j] = t[j]
  <2>1. /\ Last(t) \in Seq(Message) /\ Last(t) = t[L]
    BY <1>0, <1>1 DEF Last
  <2>2. last \in Seq(Message)
    BY <1>0, <1>1, <2>1
  <2> HIDE DEF last
  <2>3. /\ <<last>> \in Seq(Seq(Message)) /\ Len(<<last>>) = 1
        /\ <<last>>[1] = last
    BY <2>2
  <2>4. /\ Front(t) \in Seq(Seq(Message)) /\ Len(Front(t)) = L - 1
        /\ \A j \in 1..(L - 1) : Front(t)[j] = t[j]
    <3>1. \A j \in 1..(L - 1) : t[j] \in Seq(Message)
      BY <1>0, <1>1
    <3> HIDE DEF L
    <3>2. /\ SubSeq(t, 1, L - 1) \in Seq(Seq(Message))
          /\ Len(SubSeq(t, 1, L - 1)) = IF 1 <= L - 1 THEN (L - 1) - 1 + 1 ELSE 0
          /\ \A j \in 1..((L - 1) - 1 + 1) : SubSeq(t, 1, L - 1)[j] = t[1 + j - 1]
      <4> DEFINE M == Seq(Message)
      <4>1. \A j \in 1..(L - 1) : t[j] \in M
        BY <3>1
      <4>2. 1 \in Int /\ L - 1 \in Int
        BY <1>0, <1>1
      <4> HIDE DEF M
      <4>3. /\ SubSeq(t, 1, L - 1) \in Seq(M)
            /\ Len(SubSeq(t, 1, L - 1)) = IF 1 <= L - 1 THEN (L - 1) - 1 + 1 ELSE 0
            /\ \A j \in 1..((L - 1) - 1 + 1) : SubSeq(t, 1, L - 1)[j] = t[1 + j - 1]
        BY <4>1, <4>2, SubSeqProperties
      <4> QED BY <4>3 DEF M
    <3>3. Front(t) = SubSeq(t, 1, L - 1)
      BY DEF Front, L
    <3> QED BY <1>0, <1>1, <3>2, <3>3
  <2> DEFINE front == Front(t)
             M == Seq(Message)
  <2> HIDE DEF front, M, L
  <2>5. /\ front \in Seq(M) /\ <<last>> \in Seq(M)
        /\ Len(front) = L - 1 /\ Len(<<last>>) = 1 /\ <<last>>[1] = last
        /\ \A j \in 1..(L - 1) : front[j] = t[j]
    BY <2>3, <2>4 DEF front, M
  <2>6. /\ front \o <<last>> \in Seq(M)
        /\ Len(front \o <<last>>) = (L - 1) + 1
        /\ \A j \in 1..((L - 1) + 1) : (front \o <<last>>)[j] =
              IF j <= L - 1 THEN front[j] ELSE <<last>>[j - (L - 1)]
    <3> DEFINE one == <<last>>
    <3>1. /\ front \in Seq(M) /\ one \in Seq(M)
          /\ Len(front) = L - 1 /\ Len(one) = 1
      BY <2>5
    <3> HIDE DEF one
    <3>2. /\ front \o one \in Seq(M)
          /\ Len(front \o one) = Len(front) + Len(one)
          /\ \A j \in 1..(Len(front) + Len(one)) : (front \o one)[j] =
                IF j <= Len(front) THEN front[j] ELSE one[j - Len(front)]
      BY <3>1, ConcatProperties
    <3>3. /\ Len(front \o one) = (L - 1) + 1
          /\ \A j \in 1..((L - 1) + 1) : (front \o one)[j] =
                IF j <= L - 1 THEN front[j] ELSE one[j - (L - 1)]
      BY <3>1, <3>2
    <3> QED BY <3>2, <3>3 DEF one
  <2>7. /\ L \in 1..((L - 1) + 1) /\ L - (L - 1) = 1 /\ (L - 1) + 1 = L
        /\ ~(L <= L - 1)
        /\ \A j \in 1..(L - 1) : j \in 1..((L - 1) + 1) /\ j <= L - 1
    BY <1>0, <1>1
  <2>8. u = front \o <<last>>
    BY DEF front, u
  <2> HIDE DEF u
  <2>9. (front \o <<last>>)[L] = last
    BY <2>5, <2>6, <2>7
  <2>10. \A j \in 1..(L - 1) : (front \o <<last>>)[j] = t[j]
    BY <2>5, <2>6, <2>7
  <2> QED BY <2>6, <2>7, <2>8, <2>9, <2>10 DEF M
<1>4. /\ q[L + 1] = i + 2
      /\ \A j \in 1..L : q[j] = p[j]
  <2> HIDE DEF L
  <2> QED BY <1>0, <1>1
<1>5. q \in [1..(L + 1) -> 1..((i + 1) + 1)]
  <2> HIDE DEF L
  <2>1. \A j \in 1..(L + 1) :
           (IF j = L + 1 THEN i + 2 ELSE p[j]) \in 1..((i + 1) + 1)
    BY <1>0, <1>1
  <2> QED BY <2>1
<1> HIDE DEF q, u
<1>6. ASSUME NEW j \in 1..(L + 1), NEW k \in 1..(L + 1), j < k
      PROVE  q[j] < q[k]
  <2> HIDE DEF L
  <2>1. /\ j \in 1..L /\ j \in 1..(L + 1) /\ j < L + 1
        /\ k = L + 1 \/ k \in 1..L
    BY <1>0, <1>6
  <2>2. CASE k = L + 1
    <3>1. p[j] \in 1..(i + 1) /\ q[j] = p[j] /\ q[k] = i + 2
      BY <1>1, <1>4, <2>1, <2>2
    <3> QED BY <3>1
  <2>3. CASE k \in 1..L
    <3>1. p[j] < p[k]
      BY <1>1, <1>6, <2>1, <2>3
    <3> QED BY <1>4, <2>1, <2>3, <3>1
  <2> QED BY <2>1, <2>2, <2>3
<1>7. ASSUME NEW j \in 1..L
      PROVE  u[j] = SubSeq(rest, q[j], q[j + 1] - 1)
  <2>1. CASE j = L
    <3>1. q[j] = p[L] /\ q[j + 1] = i + 2 /\ u[j] = last
      BY <1>0, <1>1, <1>3, <1>4, <2>1
    <3>2. last = Append(SubSeq(rest, p[L], p[L + 1] - 1), m)
      <4>1. Last(t) = t[L]
        BY DEF Last
      <4>2. t[L] = SubSeq(rest, p[L], p[L + 1] - 1)
        <5>1. L \in 1..L
          BY <1>0
        <5> HIDE DEF L
        <5> QED BY <1>1, <5>1
      <4> QED BY <4>1, <4>2
    <3>3. /\ p[L] \in 1..i /\ p[L] \in 1..Len(rest)
          /\ i + 1 \in p[L]..Len(rest) /\ p[L + 1] - 1 = i
          /\ (i + 1) - 1 = i /\ (i + 2) - 1 = i + 1
      <4> HIDE DEF L
      <4>1. L \in 1..(L + 1) /\ L + 1 \in 1..(L + 1) /\ L < L + 1
        BY <1>0, <1>1
      <4>2. p[L] < p[L + 1]
        BY <1>0, <1>1, <4>1
      <4> QED BY <1>0, <1>1, <4>1, <4>2
    <3>4. SubSeq(rest, p[L], i + 1) = SubSeq(rest, p[L], (i + 1) - 1) \o <<m>>
      BY <3>3, SubSeqRecursiveSecond DEF m
    <3>5. SubSeq(rest, p[L], i) \in Seq(Message)
      <4> DEFINE a == p[L]
      <4>1. a \in Nat /\ a \in 1..i /\ i <= Len(rest)
        BY <1>0, <1>1, <3>3
      <4> HIDE DEF a
      <4>2. \A k \in a..i : rest[k] \in Message
        BY <4>1
      <4>3. SubSeq(rest, a, i) \in Seq(Message)
        BY <4>1, <4>2, SubSeqProperties
      <4> QED BY <4>3 DEF a
    <3>6. Append(SubSeq(rest, p[L], i), m) = SubSeq(rest, p[L], i) \o <<m>>
      <4> DEFINE w == SubSeq(rest, p[L], i)
      <4>1. w \in Seq(Message) /\ m \in Message
        BY <1>0, <1>1, <3>5
      <4> HIDE DEF w, m
      <4>2. Append(w, m) = w \o <<m>>
        BY <4>1
      <4> QED BY <4>2 DEF w
    <3> QED BY <3>1, <3>2, <3>3, <3>4, <3>6
  <2>2. CASE j # L
    <3> HIDE DEF L
    <3>1. j \in 1..L /\ j \in 1..(L - 1) /\ j + 1 \in 1..L
      BY <1>0, <1>1, <2>2
    <3> QED BY <3>1, <1>0, <1>1, <1>3, <1>4
  <2> QED BY <2>1, <2>2
<1>8. {q[j] : j \in 1..L} = {k \in Beginnings(rest) : k <= i + 1}
  <2>1. i + 1 \notin Beginnings(rest)
    <3> HIDE DEF L
    <3>1. 1 \in 1..(L + 1) /\ L + 1 \in 1..(L + 1) /\ 1 < L + 1
      BY <1>0, <1>1
    <3>2. p[1] < p[L + 1]
      BY <1>0, <1>1, <3>1
    <3>3. i + 1 # 1
      BY <1>0, <1>1, <3>2
    <3> QED BY <3>3 DEF Beginnings
  <2>2. \A k \in Beginnings(rest) : k \in Nat
    BY DEF Beginnings
  <2>3. {k \in Beginnings(rest) : k <= i + 1}
          = {k \in Beginnings(rest) : k <= i}
    BY <2>1, <2>2
  <2>4. {q[j] : j \in 1..L} = {p[j] : j \in 1..L}
    BY <1>4
  <2> QED BY <1>0, <1>1, <2>3, <2>4
<1>9. q[1] = 1
  <2> HIDE DEF L
  <2>1. 1 \in 1..L
    BY <1>0, <1>1
  <2> QED BY <1>0, <1>1, <1>4, <2>1
<1>10. Marks(rest, i + 1, u, q)
  <2>1. q[L + 1] = (i + 1) + 1
    BY <1>4
  <2> QED BY <1>3, <1>5, <1>6, <1>7, <1>8, <1>9, <2>1 DEF Marks
<1> QED BY <1>2, <1>10 DEF m

\* Turns are lists of messages.
LEMMA AddToTurnsType ==
    ASSUME NEW t \in Seq(Seq(Message)), NEW m \in Message
    PROVE  AddToTurns(t, m) \in Seq(Seq(Message))
<1> DEFINE M == Seq(Message)
<1>1. <<m>> \in M
  OBVIOUS
<1>2. CASE m.role = "user" \/ t = <<>>
  <2>1. Append(t, <<m>>) \in Seq(M)
    <3> DEFINE one == <<m>>
    <3>1. one \in M /\ t \in Seq(M)
      BY <1>1
    <3> HIDE DEF one, M
    <3> QED BY <3>1 DEF one
  <2> QED BY <1>2, <2>1 DEF AddToTurns
<1>3. CASE ~(m.role = "user" \/ t = <<>>)
  <2>1. Last(t) \in M /\ Len(t) \in Nat \ {0}
    <3> HIDE DEF M
    <3>1. t \in Seq(M) /\ t # <<>>
      BY <1>3 DEF M
    <3> QED BY <3>1 DEF Last
  <2> DEFINE last == Append(Last(t), m)
             one == <<last>>
  <2>2. last \in M
    <3> DEFINE w == Last(t)
    <3>1. w \in M
      BY <2>1
    <3> HIDE DEF w
    <3>2. Append(w, m) \in M
      BY <3>1
    <3> QED BY <3>2 DEF w
  <2> HIDE DEF last
  <2>3. one \in Seq(M)
    BY <2>2
  <2>4. Front(t) \in Seq(M)
    <3>1. \A j \in 1..(Len(t) - 1) : t[j] \in M
      BY <2>1
    <3> HIDE DEF M
    <3>2. SubSeq(t, 1, Len(t) - 1) \in Seq(M)
      BY <2>1, <3>1, SubSeqProperties
    <3> QED BY <3>2 DEF Front
  <2> HIDE DEF one, M
  <2>5. Front(t) \o one \in Seq(M)
    BY <2>3, <2>4, ConcatProperties
  <2> QED BY <1>3, <2>5 DEF AddToTurns, one, last, M
<1> QED BY <1>2, <1>3

(* The loop marks the turns of the whole list.                             *)
LEMMA TurnsAreMarked ==
    ASSUME NEW ms \in Seq(Message)
    PROVE  \E p : Marks(Rest(ms), Len(Rest(ms)), Turns(ms), p)
<1> DEFINE rest == Rest(ms)
           L == Len(rest)
           All == Seq(Seq(Message))
           step == [i \in 1..L |-> [t \in All |-> AddToTurns(t, rest[i])]]
           Loop(f) == [i \in 0..L |->
                          IF i = 0 THEN <<>> ELSE AddToTurns(f[i - 1], rest[i])]
           g == CHOOSE f : f = Loop(f)
<1>1. Turns(ms) = g[L]
  BY DEF Turns
<1>2. rest \in Seq(Message) /\ L \in Nat
  BY RestShape
<1> HIDE DEF rest
<1>3. <<>> \in All /\ step \in [1..L -> [All -> All]]
  <2>1. <<>> \in All
    OBVIOUS
  <2>2. ASSUME NEW i \in 1..L, NEW t \in All
        PROVE  AddToTurns(t, rest[i]) \in All
    <3>1. rest[i] \in Message
      BY <1>2
    <3> QED BY <3>1, AddToTurnsType
  <2> HIDE DEF All, L
  <2>3. \A i \in 1..L : [t \in All |-> AddToTurns(t, rest[i])] \in [All -> All]
    BY <2>2
  <2> QED BY <2>1, <2>3
<1>4. PICK f \in [0..L -> All] :
          f[0] = <<>> /\ \A i \in 1..L : f[i] = step[i][f[i - 1]]
  <2> DEFINE base == <<>>
  <2>1. base \in All
    BY <1>3
  <2> HIDE DEF base, L, All, step
  <2>2. \E f \in [0..L -> All] :
            f[0] = base /\ \A i \in 1..L : f[i] = step[i][f[i - 1]]
    <3>1. L \in Nat
      BY <1>2
    <3>2. step \in [1..L -> [All -> All]]
      BY <1>3
    <3>3. \A k \in Nat : \A st \in [1..k -> [All -> All]] :
              \E f \in [0..k -> All] :
                  f[0] = base /\ \A i \in 1..k : f[i] = st[i][f[i - 1]]
      BY <2>1, StepsRunThrough
    <3> QED BY <3>1, <3>2, <3>3
  <2> QED BY <2>2 DEF base
<1>5. ASSUME NEW i \in 1..L
      PROVE  f[i] = AddToTurns(f[i - 1], rest[i])
  <2>1. f[i] = step[i][f[i - 1]]
    BY <1>4
  <2>2. f[i - 1] \in All
    <3> HIDE DEF All
    <3>1. i - 1 \in 0..L
      BY <1>2
    <3> QED BY <3>1
  <2> HIDE DEF All, L
  <2> QED BY <2>1, <2>2
<1>6. f = Loop(f)
  <2> DEFINE At(i) == IF i = 0 THEN <<>> ELSE AddToTurns(f[i - 1], rest[i])
  <2>1. f = [i \in 0..L |-> f[i]]
    BY <1>4
  <2>2. \A i \in 0..L : f[i] = At(i)
    <3> TAKE i \in 0..L
    <3>1. CASE i = 0
      BY <3>1, <1>4
    <3>2. CASE i # 0
      <4>1. i \in 1..L
        BY <3>2, <1>2
      <4> HIDE DEF L
      <4> QED BY <4>1, <3>2, <1>5
    <3> QED BY <3>1, <3>2
  <2> HIDE DEF At, L
  <2>3. f = [i \in 0..L |-> At(i)]
    BY <2>1, <2>2
  <2> QED BY <2>3 DEF At
<1>7. g = Loop(g)
  <2> HIDE DEF Loop
  <2> QED BY <1>6
<1>8. /\ g[0] = <<>>
      /\ \A i \in 1..L : g[i] = AddToTurns(g[i - 1], rest[i])
  <2> DEFINE h == Loop(g)
  <2> HIDE DEF g, L
  <2>1. 0 \in 0..L /\ \A i \in 1..L : i \in 0..L /\ i # 0
    BY <1>2
  <2>2. /\ h[0] = <<>>
        /\ \A i \in 1..L : h[i] = AddToTurns(g[i - 1], rest[i])
    BY <2>1
  <2> HIDE DEF h
  <2>3. g = h
    BY <1>7 DEF h
  <2> QED BY <2>2, <2>3
<1> HIDE DEF g
<1> DEFINE T == {i \in Nat : i <= L => \E p : Marks(rest, i, g[i], p)}
<1>9. 0 \in T
  <2> DEFINE p == [j \in 1..1 |-> 1]
             none == <<>>
  <2>1. none \in Seq(Seq(Message)) /\ Len(none) = 0 /\ 1..0 = {}
    OBVIOUS
  <2> HIDE DEF none
  <2>2. p \in [1..(0 + 1) -> 1..(0 + 1)] /\ p[1] = 1 /\ p[0 + 1] = 0 + 1
    OBVIOUS
  <2>3. \A j, k \in 1..(0 + 1) : j < k => p[j] < p[k]
    OBVIOUS
  <2> HIDE DEF p
  <2>4. {p[j] : j \in 1..0} = {k \in Beginnings(rest) : k <= 0}
    <3>1. \A k \in Beginnings(rest) : k \in 1..L
      BY DEF Beginnings
    <3>2. {k \in Beginnings(rest) : k <= 0} = {}
      BY <3>1
    <3> QED BY <2>1, <3>2
  <2>5. Marks(rest, 0, none, p)
    BY <2>1, <2>2, <2>3, <2>4 DEF Marks
  <2> QED BY <1>8, <2>5 DEF none
<1>10. ASSUME NEW i \in Nat, i \in T PROVE i + 1 \in T
  <2> SUFFICES ASSUME i + 1 <= L
               PROVE  \E p : Marks(rest, i + 1, g[i + 1], p)
    OBVIOUS
  <2>1. PICK p : Marks(rest, i, g[i], p)
    BY <1>2, <1>10
  <2>2. g[i + 1] = AddToTurns(g[i], rest[i + 1])
    <3>1. i + 1 \in 1..L /\ (i + 1) - 1 = i
      BY <1>2
    <3> HIDE DEF L
    <3> QED BY <1>8, <3>1
  <2>3. CASE rest[i + 1].role = "user" \/ g[i] = <<>>
    <3>1. \E q : Marks(rest, i + 1, AddToTurns(g[i], rest[i + 1]), q)
      BY <1>2, <2>1, <2>3, TurnOpened
    <3> QED BY <2>2, <3>1
  <2>4. CASE ~(rest[i + 1].role = "user" \/ g[i] = <<>>)
    <3>1. \E q : Marks(rest, i + 1, AddToTurns(g[i], rest[i + 1]), q)
      BY <1>2, <2>1, <2>4, TurnGoesOn
    <3> QED BY <2>2, <3>1
  <2> QED BY <2>3, <2>4
<1> HIDE DEF T
<1>11. Nat \subseteq T
  BY <1>9, <1>10, SetInduction
<1>12. \E p : Marks(rest, L, g[L], p)
  BY <1>2, <1>11 DEF T
<1> QED BY <1>1, <1>12 DEF rest

\* The turns from the a-th on have as many beginnings.
LEMMA MarkedFrom ==
    ASSUME NEW rest \in Seq(Message), NEW t, NEW p,
           Marks(rest, Len(rest), t, p), NEW a \in 1..Len(t)
    PROVE  /\ p[a] \in Beginnings(rest)
           /\ Cardinality({k \in Beginnings(rest) : k >= p[a]})
                = Len(t) - a + 1
<1> DEFINE L == Len(t)
           B == Beginnings(rest)
           S == {k \in B : k >= p[a]}
           f == [j \in a..L |-> p[j]]
<1>1. /\ L \in Nat /\ a \in Nat /\ a <= L
      /\ \A j \in 1..(L + 1) : p[j] \in Nat
      /\ \A j, k \in 1..(L + 1) : j < k => p[j] < p[k]
  BY MarksShape
<1>2. {p[j] : j \in 1..L} = B
  <2>1. {p[j] : j \in 1..L} = {k \in B : k <= Len(rest)}
    BY MarksShape
  <2>2. \A k \in B : k <= Len(rest)
    BY DEF Beginnings
  <2> HIDE DEF B
  <2> QED BY <2>1, <2>2
<1> HIDE DEF B, L
<1>3. p[a] \in B
  BY <1>1, <1>2
<1>4. ASSUME NEW j \in a..L
      PROVE  j \in 1..L /\ j \in 1..(L + 1) /\ p[j] \in S
  <2>1. j \in 1..L /\ j \in 1..(L + 1) /\ a \in 1..(L + 1)
    BY <1>1
  <2>2. p[j] >= p[a]
    <3>1. CASE j = a
      BY <1>1, <2>1, <3>1
    <3>2. CASE j # a
      <4>1. a < j
        BY <1>1, <3>2
      <4>2. p[a] < p[j] /\ p[a] \in Nat /\ p[j] \in Nat
        BY <1>1, <2>1, <4>1
      <4> QED BY <4>2
    <3> QED BY <3>1, <3>2
  <2> QED BY <1>2, <2>1, <2>2
<1>5. ASSUME NEW k \in S PROVE \E j \in a..L : p[j] = k
  <2>1. PICK j \in 1..L : p[j] = k
    BY <1>2
  <2>2. j \in 1..(L + 1) /\ a \in 1..(L + 1)
    BY <1>1
  <2>3. ~(j < a)
    <3> SUFFICES ASSUME j < a PROVE FALSE
      OBVIOUS
    <3>1. p[j] < p[a] /\ p[j] >= p[a] /\ p[j] \in Nat /\ p[a] \in Nat
      BY <1>1, <2>1, <2>2
    <3> QED BY <3>1
  <2>4. j \in a..L
    BY <1>1, <2>1, <2>3
  <2> QED BY <2>1, <2>4
<1>6. f \in Bijection(a..L, S)
  <2>1. f \in [a..L -> S]
    BY <1>4
  <2>2. \A j \in a..L : f[j] = p[j]
    OBVIOUS
  <2>3. DOMAIN f = a..L
    OBVIOUS
  <2> HIDE DEF f, S
  <2>4. \A i, j \in a..L : f[i] = f[j] => i = j
    <3> SUFFICES ASSUME NEW i \in a..L, NEW j \in a..L, p[i] = p[j]
                 PROVE  i = j
      BY <2>2
    <3>1. /\ i \in 1..(L + 1) /\ j \in 1..(L + 1)
          /\ i \in Nat /\ j \in Nat /\ p[i] \in Nat
      BY <1>1, <1>4
    <3>2. ~(i < j) /\ ~(j < i)
      BY <1>1, <3>1
    <3> QED BY <3>1, <3>2
  <2>5. \A k \in S : \E j \in a..L : f[j] = k
    BY <1>5, <2>2
  <2>6. f \in Injection(a..L, S)
    BY <2>1, <2>3, <2>4 DEF Injection, IsInjective
  <2>7. f \in Surjection(a..L, S)
    BY <2>1, <2>5 DEF Surjection
  <2> QED BY <2>6, <2>7 DEF Bijection
<1>7. Cardinality(S) = Cardinality(a..L)
  <2>1. a \in Int /\ L \in Int
    BY <1>1
  <2>2. IsFiniteSet(a..L)
    BY <2>1, FS_Interval
  <2>3. ExistsBijection(a..L, S)
    BY <1>6 DEF ExistsBijection
  <2> HIDE DEF S
  <2> QED BY <2>2, <2>3, FS_Bijection
<1>8. Cardinality(a..L) = L - a + 1
  <2>1. a \in Int /\ L \in Int /\ ~(a > L)
    BY <1>1
  <2> QED BY <2>1, FS_Interval
<1> QED BY <1>3, <1>7, <1>8 DEF L, B

\* The cut is where the first of the last n turns begins.
LEMMA CutIsMarked ==
    ASSUME NEW rest \in Seq(Message), NEW t, NEW p,
           Marks(rest, Len(rest), t, p), t # <<>>, NEW n \in Nat \ {0}
    PROVE  Cut(rest, n) = p[IF Len(t) > n THEN Len(t) - n + 1 ELSE 1]
<1> DEFINE L == Len(t)
           B == Beginnings(rest)
           From(i) == {k \in B : k >= i}
<1>1. L \in Nat /\ L # 0
  <2>1. t \in Seq(Seq(Message))
    BY DEF Marks
  <2> DEFINE M == Seq(Message)
  <2> HIDE DEF M
  <2>2. t \in Seq(M)
    BY <2>1 DEF M
  <2> QED BY <2>2
<1>2. \A a \in 1..L : p[a] \in B /\ Cardinality(From(p[a])) = L - a + 1
  BY MarkedFrom
<1>3. {p[j] : j \in 1..L} = B
  <2>1. {p[j] : j \in 1..L} = {k \in B : k <= Len(rest)}
    BY DEF Marks
  <2>2. \A k \in B : k <= Len(rest)
    BY DEF Beginnings
  <2> HIDE DEF B
  <2> QED BY <2>1, <2>2
<1>4. p[1] = 1
  BY DEF Marks
<1>5. From(1) = B
  <2>1. \A k \in B : k \in Nat /\ k >= 1
    BY DEF Beginnings
  <2> HIDE DEF B
  <2> QED BY <2>1
<1>6. Cardinality(B) = L
  <2>1. 1 \in 1..L
    BY <1>1
  <2>2. Cardinality(From(p[1])) = L - 1 + 1
    <3> HIDE DEF L, From
    <3> QED BY <1>2, <2>1
  <2> HIDE DEF L, From
  <2> QED BY <1>1, <1>4, <1>5, <2>2
<1>7. CASE L <= n
  BY <1>1, <1>4, <1>6, <1>7 DEF Cut
<1>8. CASE ~(L <= n)
  <2> DEFINE a == L - n + 1
  <2>1. a \in 1..L /\ L - a + 1 = n
    BY <1>1, <1>8
  <2>2. p[a] \in B /\ Cardinality(From(p[a])) = n
    <3> HIDE DEF L, B, From, a
    <3> QED BY <1>2, <2>1
  <2>3. ASSUME NEW i \in B, Cardinality(From(i)) = n PROVE i = p[a]
    <3>1. PICK j \in 1..L : p[j] = i
      BY <1>3
    <3>2. Cardinality(From(p[j])) = L - j + 1
      <4> HIDE DEF L, B, From, a
      <4> QED BY <1>2
    <3>3. L - j + 1 = n
      BY <2>3, <3>1, <3>2
    <3>4. j = a
      BY <1>1, <3>3
    <3> QED BY <3>1, <3>4
  <2>4. Cut(rest, n) = CHOOSE i \in B : Cardinality(From(i)) = n
    BY <1>6, <1>8 DEF Cut
  <2> HIDE DEF B, From, a, L
  <2>5. Cut(rest, n) = p[a]
    BY <2>2, <2>3, <2>4
  <2> QED BY <1>1, <1>8, <2>5 DEF a, L
<1> QED BY <1>7, <1>8

\* The last turns joined are the list from where the first of them begins.
LEMMA LastTurnsJoined ==
    ASSUME NEW rest \in Seq(Message), NEW t, NEW p,
           Marks(rest, Len(rest), t, p), t # <<>>, NEW a \in 1..Len(t)
    PROVE  FlattenSeq(SubSeq(t, a, Len(t))) = SubSeq(rest, p[a], Len(rest))
<1> DEFINE L == Len(t)
           s == SubSeq(t, a, L)
           q == [j \in 1..(Len(s) + 1) |-> p[a + j - 1]]
           R == Len(rest) + 1
<1>1. L \in Nat /\ t \in Seq(Seq(Message)) /\ Len(rest) \in Nat /\ a \in Nat
  <2>1. Len(rest) \in Nat /\ a \in Nat
    OBVIOUS
  <2> QED BY <2>1, MarksShape
<1>2. /\ p[L + 1] = R
      /\ \A j \in 1..(L + 1) : p[j] \in 1..R /\ p[j] \in Nat
      /\ \A j, k \in 1..(L + 1) : j < k => p[j] < p[k]
      /\ \A j \in 1..L : t[j] = SubSeq(rest, p[j], p[j + 1] - 1)
  BY MarksShape
<1>3. /\ s \in Seq(Seq(Message))
      /\ Len(s) = L - a + 1
      /\ \A j \in 1..(L - a + 1) : s[j] = t[a + j - 1]
  <2> DEFINE M == Seq(Message)
  <2>1. \A j \in a..L : t[j] \in M
    BY <1>1
  <2>2. a \in Int /\ L \in Int /\ a <= L
    BY <1>1
  <2> HIDE DEF M, L
  <2>3. /\ SubSeq(t, a, L) \in Seq(M)
        /\ Len(SubSeq(t, a, L)) = IF a <= L THEN L - a + 1 ELSE 0
        /\ \A j \in 1..(L - a + 1) : SubSeq(t, a, L)[j] = t[a + j - 1]
    BY <2>1, <2>2, SubSeqProperties
  <2> QED BY <2>2, <2>3 DEF M
<1> HIDE DEF s
<1>4. s # <<>>
  <2>1. Len(s) # 0
    BY <1>1, <1>3
  <2> QED BY <2>1
<1>5. \A j \in 1..(Len(s) + 1) :
         a + j - 1 \in 1..(L + 1) /\ q[j] = p[a + j - 1]
  <2> HIDE DEF L
  <2>1. a <= L
    BY DEF L
  <2> QED BY <1>1, <1>3, <2>1
<1>6. q \in [1..(Len(s) + 1) -> 1..R]
  <2> HIDE DEF L, R
  <2>1. \A j \in 1..(Len(s) + 1) : p[a + j - 1] \in 1..R
    BY <1>2, <1>5
  <2> QED BY <2>1
<1> HIDE DEF q
<1>7. ASSUME NEW j \in 1..Len(s)
      PROVE  /\ q[j] < q[j + 1]
             /\ s[j] = SubSeq(rest, q[j], q[j + 1] - 1)
  <2> HIDE DEF L, R
  <2>0. Len(s) \in Nat /\ a <= L
    BY <1>1, <1>3 DEF L
  <2> DEFINE i == a + j - 1
  <2>1. /\ j \in 1..(Len(s) + 1) /\ j + 1 \in 1..(Len(s) + 1)
        /\ i \in 1..L /\ i \in 1..(L + 1) /\ i + 1 \in 1..(L + 1)
        /\ i < i + 1 /\ a + (j + 1) - 1 = i + 1
        /\ j \in 1..(L - a + 1)
    BY <2>0, <1>1, <1>3
  <2>2. q[j] = p[i] /\ q[j + 1] = p[i + 1]
    BY <1>5, <2>1
  <2>3. s[j] = t[i]
    BY <1>3, <2>1
  <2> HIDE DEF i
  <2>4. t[i] = SubSeq(rest, p[i], p[i + 1] - 1) /\ p[i] < p[i + 1]
    BY <1>2, <2>1
  <2> QED BY <2>2, <2>3, <2>4
<1>8. q[1] = p[a] /\ q[Len(s) + 1] = R
  <2> HIDE DEF L, R
  <2>0. Len(s) \in Nat /\ a <= L
    BY <1>1, <1>3 DEF L
  <2>1. /\ 1 \in 1..(Len(s) + 1) /\ Len(s) + 1 \in 1..(Len(s) + 1)
        /\ a + 1 - 1 = a /\ a + (Len(s) + 1) - 1 = L + 1
    BY <2>0, <1>1, <1>3
  <2> QED BY <1>2, <1>5, <2>1
<1>9. FlattenSeq(s) = SubSeq(rest, q[1], q[Len(s) + 1] - 1)
  BY <1>3, <1>4, <1>6, <1>7, PartsJoined
<1>10. R - 1 = Len(rest)
  BY <1>1
<1> QED BY <1>8, <1>9, <1>10 DEF s, L

(* The loop that collects the turns and joins the last n of them keeps     *)
(* what RecentTurns says: the code's _trim_to_recent_turns is the          *)
(* definition the store is modelled with.                                  *)
THEOREM TrimmingKeepsRecentTurns ==
    ASSUME NEW ms \in Seq(Message), NEW n \in Nat \ {0}
    PROVE  TrimByTurns(ms, n) = RecentTurns(ms, n)
<1> DEFINE rest == Rest(ms)
           t == Turns(ms)
           L == Len(t)
           a == IF L > n THEN L - n + 1 ELSE 1
<1>1. rest \in Seq(Message) /\ Len(rest) \in Nat
  BY RestShape
<1>2. PICK p : Marks(rest, Len(rest), t, p)
  BY TurnsAreMarked
<1> HIDE DEF rest, t
<1>3. t \in Seq(Seq(Message)) /\ L \in Nat
  BY <1>1, <1>2, MarksShape
<1>4. FlattenSeq(LastOf(t, n)) = SubSeq(rest, Cut(rest, n), Len(rest))
  <2>1. CASE t = <<>>
    <3>1. p[1] = 1 /\ p[Len(t) + 1] = Len(rest) + 1
      BY <1>2 DEF Marks
    <3>2. Len(t) = 0
      BY <2>1
    <3>3. Len(rest) = 0 /\ rest = <<>>
      BY <1>1, <3>1, <3>2
    <3>4. SubSeq(rest, Cut(rest, n), Len(rest)) = <<>>
      <4>1. Cut(rest, n) = 1
        BY <1>1, <3>3, CutIsABeginning
      <4> QED BY <3>3, <4>1, SubSeqEmpty
    <3>5. LastOf(t, n) = <<>>
      <4>1. LastOf(t, n) = SubSeq(t, 1, 0)
        BY <3>2 DEF LastOf
      <4> QED BY <4>1, SubSeqEmpty
    <3>6. FlattenSeq(<<>>) = <<>>
      <4> DEFINE none == <<>>
      <4>1. Len(none) = 0
        OBVIOUS
      <4> HIDE DEF none
      <4>2. FlattenSeq(none) = none
        BY <4>1 DEF FlattenSeq
      <4> QED BY <4>2 DEF none
    <3> QED BY <3>4, <3>5, <3>6
  <2>2. CASE t # <<>>
    <3>1. a \in 1..L
      <4>1. L # 0
        <5> DEFINE M == Seq(Message)
        <5> HIDE DEF M
        <5>1. t \in Seq(M)
          BY <1>3 DEF M
        <5> QED BY <2>2, <5>1
      <4> QED BY <1>3, <4>1
    <3>2. LastOf(t, n) = SubSeq(t, a, L)
      BY DEF LastOf
    <3>3. Cut(rest, n) = p[a]
      BY <1>1, <1>2, <2>2, CutIsMarked
    <3> HIDE DEF a
    <3>4. FlattenSeq(SubSeq(t, a, L)) = SubSeq(rest, p[a], Len(rest))
      BY <1>1, <1>2, <2>2, <3>1, LastTurnsJoined
    <3> QED BY <3>2, <3>3, <3>4
  <2> QED BY <2>1, <2>2
<1> QED BY <1>4 DEF TrimByTurns, RecentTurns, rest, t
=============================================================================
