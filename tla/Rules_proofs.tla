---------------------------- MODULE Rules_proofs -----------------------------
(***************************************************************************)
(* The rules that keep no state, for every question MCRules puts to them   *)
(* and, where a lemma says so, for lists, field lists and documents of any *)
(* size.                                                                   *)
(***************************************************************************)
EXTENDS MCRules, Trimming_proofs

UpTo(S, k) == {j \in S : j <= k}
Places(seq, S) == {k \in DOMAIN seq : seq[k] \in S}

\* Of a set of numbers, the later has more before it.
LEMMA LaterHasMore ==
    ASSUME NEW b \in Nat, NEW S \in SUBSET (1..b)
    PROVE  /\ IsFiniteSet(S) /\ Cardinality(S) \in Nat
           /\ \A k \in Nat : /\ IsFiniteSet(UpTo(S, k))
                             /\ Cardinality(UpTo(S, k)) \in Nat
                             /\ Cardinality(UpTo(S, k)) <= Cardinality(S)
           /\ \A k \in S : Cardinality(UpTo(S, k)) \in 1..Cardinality(S)
           /\ \A j, k \in S :
                 j < k => Cardinality(UpTo(S, j)) < Cardinality(UpTo(S, k))
<1>1. IsFiniteSet(S) /\ Cardinality(S) \in Nat
  <2>1. IsFiniteSet(1..b)
    BY FS_Interval
  <2>2. IsFiniteSet(S)
    BY <2>1, FS_Subset
  <2> QED BY <2>2, FS_CardinalityType
<1>2. \A k : UpTo(S, k) \in SUBSET S
  BY DEF UpTo
<1>3. \A k \in Nat : /\ IsFiniteSet(UpTo(S, k))
                     /\ Cardinality(UpTo(S, k)) \in Nat
                     /\ Cardinality(UpTo(S, k)) <= Cardinality(S)
  BY <1>1, <1>2, FS_Subset, FS_CardinalityType
<1>4. ASSUME NEW k \in S PROVE Cardinality(UpTo(S, k)) \in 1..Cardinality(S)
  <2>1. k \in Nat /\ k \in UpTo(S, k)
    BY DEF UpTo
  <2>2. Cardinality(UpTo(S, k)) # 0
    BY <2>1, <1>3, FS_EmptySet
  <2> QED BY <1>1, <1>3, <2>1, <2>2
<1>5. ASSUME NEW j \in S, NEW k \in S, j < k
      PROVE  Cardinality(UpTo(S, j)) < Cardinality(UpTo(S, k))
  <2>1. j \in Nat /\ k \in Nat
    OBVIOUS
  <2>2. UpTo(S, j) \in SUBSET UpTo(S, k)
    <3>1. \A i \in S : i \in Nat
      OBVIOUS
    <3>2. \A i \in S : i <= j => i <= k
      BY <1>5, <2>1, <3>1
    <3> QED BY <3>2 DEF UpTo
  <2>3. k \in UpTo(S, k) /\ k \notin UpTo(S, j)
    BY <1>5, <2>1 DEF UpTo
  <2>4. Cardinality(UpTo(S, j)) <= Cardinality(UpTo(S, k))
    BY <1>3, <2>1, <2>2, FS_Subset
  <2>5. Cardinality(UpTo(S, j)) # Cardinality(UpTo(S, k))
    BY <1>3, <2>1, <2>2, <2>3, FS_Subset
  <2> QED BY <1>3, <2>1, <2>4, <2>5
<1> QED BY <1>1, <1>3, <1>4, <1>5

\* Which member is the n-th is no choice.
LEMMA NthIsUnique ==
    ASSUME NEW b \in Nat, NEW S \in SUBSET (1..b), NEW k \in S
    PROVE  Nth(S, Cardinality(UpTo(S, k))) = k
<1> DEFINE n == Cardinality(UpTo(S, k))
<1>1. \A i \in S : Cardinality(UpTo(S, i)) = n => i = k
  <2> TAKE i \in S
  <2>1. i \in Int /\ k \in Int
    OBVIOUS
  <2>2. /\ i < k => Cardinality(UpTo(S, i)) < Cardinality(UpTo(S, k))
        /\ k < i => Cardinality(UpTo(S, k)) < Cardinality(UpTo(S, i))
    BY LaterHasMore
  <2>3. Cardinality(UpTo(S, i)) \in Int /\ Cardinality(UpTo(S, k)) \in Int
    <3>1. \A j \in S : Cardinality(UpTo(S, j)) \in 1..Cardinality(S)
      BY LaterHasMore
    <3> QED BY <3>1
  <2> QED BY <2>1, <2>2, <2>3
<1>2. Nth(S, n) = CHOOSE i \in S : Cardinality(UpTo(S, i)) = n
  BY DEF Nth, UpTo
<1> QED BY <1>1, <1>2

-----------------------------------------------------------------------------
\* What a comprehension has collected after each i members.
Selecting(f, seq, S) ==
    /\ f[0] = <<>>
    /\ \A i \in 1..Len(seq) :
          f[i] = IF seq[i] \in S THEN Append(f[i - 1], seq[i]) ELSE f[i - 1]

(* The loop of a comprehension runs through.                               *)
LEMMA OnlyRuns ==
    \A T : \A seq \in Seq(T) : \A S :
        \E f \in [0..Len(seq) -> Seq(T)] :
            Selecting(f, seq, S) /\ Only(seq, S) = f[Len(seq)]
<1> TAKE T
<1> TAKE seq \in Seq(T)
<1> TAKE S
<1> DEFINE L == Len(seq)
           All == Seq(T)
           Add(t, i) == IF seq[i] \in S THEN Append(t, seq[i]) ELSE t
           step == [i \in 1..L |-> [t \in All |-> Add(t, i)]]
           Loop(f) == [i \in 0..L |-> IF i = 0 THEN <<>> ELSE Add(f[i - 1], i)]
           g == CHOOSE f : f = Loop(f)
<1>1. Only(seq, S) = g[L]
  BY DEF Only
<1>2. L \in Nat /\ \A i \in 1..L : seq[i] \in T
  OBVIOUS
<1>3. <<>> \in All /\ \A t \in All, i \in 1..L : Add(t, i) \in All
  BY <1>2
<1>4. step \in [1..L -> [All -> All]]
  <2> HIDE DEF All, L, Add
  <2> QED BY <1>3
<1> HIDE DEF Add
<1>5. PICK f \in [0..L -> All] :
          f[0] = <<>> /\ \A i \in 1..L : f[i] = step[i][f[i - 1]]
  <2> DEFINE base == <<>>
  <2>1. base \in All
    BY <1>3
  <2> HIDE DEF base, L, All, step
  <2>2. \E f \in [0..L -> All] :
            f[0] = base /\ \A i \in 1..L : f[i] = step[i][f[i - 1]]
    <3>1. L \in Nat /\ step \in [1..L -> [All -> All]]
      BY <1>2, <1>4
    <3>2. \A k \in Nat : \A st \in [1..k -> [All -> All]] :
              \E f \in [0..k -> All] :
                  f[0] = base /\ \A i \in 1..k : f[i] = st[i][f[i - 1]]
      BY <2>1, StepsRunThrough
    <3> QED BY <3>1, <3>2
  <2> QED BY <2>2 DEF base
<1>6. \A i \in 1..L : f[i] = Add(f[i - 1], i)
  <2> HIDE DEF L, All
  <2> TAKE i \in 1..L
  <2>1. i - 1 \in 0..L
    BY <1>2
  <2>2. f[i - 1] \in All
    BY <2>1
  <2> QED BY <1>5, <2>2
<1>7. f = Loop(f)
  <2> HIDE DEF L, All
  <2>1. \A i \in 0..L : i # 0 => i \in 1..L
    BY <1>2
  <2> QED BY <1>5, <1>6, <2>1
<1>8. g = Loop(g)
  <2> HIDE DEF Loop
  <2> QED BY <1>7
<1>9. /\ g[0] = <<>>
      /\ \A i \in 1..L : g[i] = Add(g[i - 1], i)
      /\ DOMAIN g = 0..L /\ g = [i \in 0..L |-> g[i]]
  <2> DEFINE h == Loop(g)
  <2>1. 0 \in 0..L /\ \A i \in 1..L : i \in 0..L /\ i # 0
    BY <1>2
  <2> HIDE DEF g, L
  <2>2. /\ h[0] = <<>>
        /\ \A i \in 1..L : h[i] = Add(g[i - 1], i)
        /\ DOMAIN h = 0..L /\ h = [i \in 0..L |-> h[i]]
    BY <2>1
  <2> HIDE DEF h
  <2>3. g = h
    BY <1>8 DEF h
  <2> QED BY <2>2, <2>3
<1> HIDE DEF g
<1>10. \A i \in 0..L : g[i] \in All
  <2> DEFINE R == {i \in Nat : i <= L => g[i] \in All}
  <2> HIDE DEF All
  <2>1. 0 \in R
    BY <1>3, <1>9
  <2>2. ASSUME NEW i \in Nat, i \in R PROVE i + 1 \in R
    <3> SUFFICES ASSUME i + 1 <= L PROVE g[i + 1] \in All
      OBVIOUS
    <3>1. i + 1 \in 1..L /\ (i + 1) - 1 = i /\ g[i] \in All
      BY <1>2, <2>2
    <3> HIDE DEF L
    <3> QED BY <1>3, <1>9, <3>1
  <2> HIDE DEF R
  <2>3. Nat \subseteq R
    BY <2>1, <2>2, SetInduction
  <2> QED BY <2>3, <1>2 DEF R
<1>11. g \in [0..L -> All]
  <2> HIDE DEF L, All
  <2> QED BY <1>9, <1>10
<1>12. Selecting(g, seq, S)
  BY <1>9 DEF Add, Selecting
<1> QED BY <1>1, <1>11, <1>12

\* A comprehension has the members it asks for, each once and in order.
LEMMA OnlyPicks ==
    ASSUME NEW T, NEW seq \in Seq(T), NEW S
    PROVE  /\ Only(seq, S) \in Seq(T)
           /\ Len(Only(seq, S)) = Cardinality(Places(seq, S))
           /\ \A n \in 1..Len(Only(seq, S)) :
                 \E k \in Places(seq, S) :
                    /\ Cardinality(UpTo(Places(seq, S), k)) = n
                    /\ Only(seq, S)[n] = seq[k]
<1> DEFINE L == Len(seq)
           P == Places(seq, S)
           C(i) == Cardinality(UpTo(P, i))
<1>1. PICK f \in [0..L -> Seq(T)] :
              /\ f[0] = <<>>
              /\ \A i \in 1..L :
                    f[i] = IF seq[i] \in S THEN Append(f[i - 1], seq[i])
                           ELSE f[i - 1]
              /\ Only(seq, S) = f[L]
  <2>1. \E f \in [0..L -> Seq(T)] :
            Selecting(f, seq, S) /\ Only(seq, S) = f[L]
    BY OnlyRuns
  <2> QED BY <2>1 DEF Selecting
<1>2. L \in Nat /\ P \in SUBSET (1..L) /\ \A i \in 1..L : seq[i] \in T
  BY DEF Places
<1>3. \A k \in Nat : C(k) \in Nat /\ IsFiniteSet(UpTo(P, k))
  BY <1>2, LaterHasMore
<1>4. \A i \in Nat : /\ i + 1 \in P => C(i + 1) = C(i) + 1
                     /\ i + 1 \notin P => C(i + 1) = C(i)
  <2> TAKE i \in Nat
  <2>1. P \subseteq Nat
    BY <1>2
  <2> HIDE DEF P
  <2>2. /\ i + 1 \in P => UpTo(P, i + 1) = UpTo(P, i) \union {i + 1}
        /\ i + 1 \notin P => UpTo(P, i + 1) = UpTo(P, i)
        /\ i + 1 \notin UpTo(P, i)
    BY <2>1 DEF UpTo
  <2> QED BY <1>3, <2>2, FS_AddElement
<1>5. C(0) = 0
  <2>1. UpTo(P, 0) = {}
    BY <1>2 DEF UpTo
  <2> QED BY <2>1, FS_EmptySet
<1> DEFINE Inv(i) == /\ Len(f[i]) = C(i)
                     /\ \A n \in 1..Len(f[i]) :
                           \E k \in P : C(k) = n /\ f[i][n] = seq[k]
           R == {i \in Nat : i <= L => Inv(i)}
<1> HIDE DEF C
<1>6. 0 \in R
  <2>1. Len(<<>>) = 0 /\ 1..0 = {}
    OBVIOUS
  <2> QED BY <1>1, <1>5, <2>1
<1>7. ASSUME NEW i \in Nat, i \in R PROVE i + 1 \in R
  <2> SUFFICES ASSUME i + 1 <= L PROVE Inv(i + 1)
    OBVIOUS
  <2>1. /\ i + 1 \in 1..L /\ (i + 1) - 1 = i /\ i \in 0..L
        /\ i + 1 \in DOMAIN seq
    BY <1>2
  <2>2. Inv(i)
    BY <1>7, <1>2
  <2>3. f[i] \in Seq(T) /\ seq[i + 1] \in T
    BY <2>1
  <2>4. f[i + 1] = IF seq[i + 1] \in S THEN Append(f[i], seq[i + 1]) ELSE f[i]
    BY <1>1, <2>1
  <2>5. CASE i + 1 \in P
    <3>1. f[i + 1] = Append(f[i], seq[i + 1]) /\ C(i + 1) = C(i) + 1
      BY <1>4, <2>4, <2>5 DEF Places
    <3> HIDE DEF P, L
    <3>2. Len(f[i + 1]) = C(i + 1)
      BY <3>1, <2>2, <2>3
    <3>3. ASSUME NEW n \in 1..Len(f[i + 1])
          PROVE  \E k \in P : C(k) = n /\ f[i + 1][n] = seq[k]
      <4>1. CASE n = Len(f[i]) + 1
        <5>1. C(i + 1) = n /\ f[i + 1][n] = seq[i + 1]
          BY <4>1, <3>1, <2>2, <2>3
        <5> QED BY <5>1, <2>5
      <4>2. CASE n # Len(f[i]) + 1
        <5>1. n \in 1..Len(f[i]) /\ f[i + 1][n] = f[i][n]
          BY <4>2, <3>1, <2>3
        <5> QED BY <5>1, <2>2
      <4> QED BY <4>1, <4>2
    <3> QED BY <3>2, <3>3
  <2>6. CASE i + 1 \notin P
    <3>1. f[i + 1] = f[i] /\ C(i + 1) = C(i)
      BY <1>4, <2>1, <2>4, <2>6 DEF Places
    <3> HIDE DEF P, L
    <3> QED BY <3>1, <2>2
  <2> QED BY <2>5, <2>6
<1> HIDE DEF R
<1>8. Nat \subseteq R
  BY <1>6, <1>7, SetInduction
<1>9. Inv(L)
  BY <1>2, <1>8 DEF R
<1>10. C(L) = Cardinality(P)
  <2>1. UpTo(P, L) = P
    BY <1>2 DEF UpTo
  <2> QED BY <2>1 DEF C
<1>11. f[L] \in Seq(T)
  BY <1>2
<1> QED BY <1>1, <1>9, <1>10, <1>11 DEF C

\* The n-th of what is selected is the n-th place that is asked for.
LEMMA OnlyNth ==
    ASSUME NEW T, NEW seq \in Seq(T), NEW S
    PROVE  /\ Places(seq, S) \in SUBSET (1..Len(seq))
           /\ DOMAIN Only(seq, S) = 1..Cardinality(Places(seq, S))
           /\ \A n \in DOMAIN Only(seq, S) :
                 /\ Nth(Places(seq, S), n) \in Places(seq, S)
                 /\ Only(seq, S)[n] = seq[Nth(Places(seq, S), n)]
<1> DEFINE P == Places(seq, S)
<1>1. Len(seq) \in Nat /\ P \in SUBSET (1..Len(seq))
  BY DEF Places
<1>2. /\ Only(seq, S) \in Seq(T)
      /\ Len(Only(seq, S)) = Cardinality(P)
      /\ \A n \in 1..Len(Only(seq, S)) :
            \E k \in P : Cardinality(UpTo(P, k)) = n /\ Only(seq, S)[n] = seq[k]
  BY OnlyPicks
<1>3. \A k \in P : Nth(P, Cardinality(UpTo(P, k))) = k
  BY <1>1, NthIsUnique
<1> HIDE DEF P
<1>4. \A n \in 1..Len(Only(seq, S)) :
         Nth(P, n) \in P /\ Only(seq, S)[n] = seq[Nth(P, n)]
  BY <1>2, <1>3
<1>5. DOMAIN Only(seq, S) = 1..Len(Only(seq, S))
  BY <1>2
<1> QED BY <1>1, <1>2, <1>4, <1>5 DEF P

\* A comprehension loses no member it asks for and has no other.
LEMMA OnlyMembers ==
    ASSUME NEW T, NEW seq \in Seq(T), NEW S
    PROVE  ToSet(Only(seq, S)) = ToSet(seq) \intersect S
<1> DEFINE P == Places(seq, S)
           out == Only(seq, S)
<1>1. /\ P \in SUBSET (1..Len(seq)) /\ Len(seq) \in Nat
      /\ DOMAIN out = 1..Cardinality(P)
      /\ \A n \in DOMAIN out : Nth(P, n) \in P /\ out[n] = seq[Nth(P, n)]
  BY OnlyNth
<1>2. \A k \in P : /\ Nth(P, Cardinality(UpTo(P, k))) = k
                   /\ Cardinality(UpTo(P, k)) \in 1..Cardinality(P)
  BY <1>1, NthIsUnique, LaterHasMore
<1>3. P = {k \in DOMAIN seq : seq[k] \in S}
  BY DEF Places
<1> HIDE DEF P, out
<1>4. \A x \in ToSet(out) : x \in ToSet(seq) /\ x \in S
  BY <1>1, <1>3 DEF ToSet
<1>5. \A x \in ToSet(seq) : x \in S => x \in ToSet(out)
  <2> SUFFICES ASSUME NEW k \in DOMAIN seq, seq[k] \in S
               PROVE  seq[k] \in ToSet(out)
    BY DEF ToSet
  <2>1. k \in P
    BY <1>3
  <2>2. Cardinality(UpTo(P, k)) \in DOMAIN out
    BY <1>1, <1>2, <2>1
  <2>3. out[Cardinality(UpTo(P, k))] = seq[k]
    BY <1>1, <1>2, <2>1, <2>2
  <2> QED BY <2>2, <2>3 DEF ToSet
<1>6. ToSet(out) = ToSet(seq) \intersect S
  BY <1>4, <1>5
<1> QED BY <1>6 DEF out

\* What is there once is selected once.
LEMMA OnlyOnce ==
    ASSUME NEW T, NEW seq \in Seq(T), NEW S,
           \A i, j \in DOMAIN seq : seq[i] = seq[j] => i = j
    PROVE  \A m, n \in DOMAIN Only(seq, S) :
              Only(seq, S)[m] = Only(seq, S)[n] => m = n
<1> DEFINE P == Places(seq, S)
           out == Only(seq, S)
<1>1. /\ P \in SUBSET (1..Len(seq)) /\ Len(seq) \in Nat
      /\ out \in Seq(T)
      /\ \A n \in 1..Len(out) :
            \E k \in P : Cardinality(UpTo(P, k)) = n /\ out[n] = seq[k]
  BY OnlyPicks, OnlyNth
<1>2. P \subseteq DOMAIN seq
  BY DEF Places
<1> HIDE DEF P, out
<1>3. DOMAIN out = 1..Len(out)
  BY <1>1
<1>4. \A m, n \in DOMAIN out : out[m] = out[n] => m = n
  <2> SUFFICES ASSUME NEW m \in DOMAIN out, NEW n \in DOMAIN out,
                      out[m] = out[n]
               PROVE  m = n
    OBVIOUS
  <2>1. PICK k \in P : Cardinality(UpTo(P, k)) = m /\ out[m] = seq[k]
    BY <1>1, <1>3
  <2>2. PICK i \in P : Cardinality(UpTo(P, i)) = n /\ out[n] = seq[i]
    BY <1>1, <1>3
  <2>3. k = i
    BY <1>2, <2>1, <2>2
  <2> QED BY <2>1, <2>2, <2>3
<1> QED BY <1>4 DEF out

-----------------------------------------------------------------------------
(***************************************************************************)
(* The first and the last of a set of places.                              *)
(***************************************************************************)
LEMMA MinIsFirst ==
    ASSUME NEW S \in SUBSET Nat, S # {}
    PROVE  Min(S) \in S /\ \A k \in S : Min(S) <= k
<1>1. \E m \in S : \A k \in S : m <= k
  BY LeastOf
<1> QED BY <1>1 DEF Min

LEMMA MaxIsLast ==
    ASSUME NEW b \in Nat, NEW S \in SUBSET (0..b), S # {}
    PROVE  Max(S) \in S /\ \A k \in S : k <= Max(S)
<1>1. \E m \in S : \A k \in S : k <= m
  BY GreatestOf
<1>2. \E m \in S : \A k \in S : m >= k
  BY <1>1
<1>3. Max(S) \in S /\ \A k \in S : Max(S) >= k
  BY <1>2 DEF Max
<1>4. \A k \in S : k \in Int
  OBVIOUS
<1> QED BY <1>3, <1>4

-----------------------------------------------------------------------------
(***************************************************************************)
(* The name of the database.                                               *)
(***************************************************************************)
Shown(s) == {i \in DOMAIN s : s[i] # " "}

LEMMA OneLong ==
    ASSUME NEW T, NEW t \in Seq(T), Len(t) = 1
    PROVE  t = <<t[1]>>
OBVIOUS

\* Strip leaves one word where there is one.
LEMMA OneWordLeft ==
    ASSUME NEW T, NEW s \in Seq(T), NEW w
    PROVE  Strip(s) = <<w>> <=> \E i \in Shown(s) : Shown(s) = {i} /\ s[i] = w
<1> DEFINE S == Shown(s)
           first == Min(S)
           last == Max(S)
<1>1. Len(s) \in Nat /\ DOMAIN s = 1..Len(s) /\ S \in SUBSET (0..Len(s))
      /\ S \in SUBSET Nat /\ S \in SUBSET (1..Len(s))
  <2>1. Len(s) \in Nat /\ DOMAIN s = 1..Len(s)
    OBVIOUS
  <2>2. \A i \in S : i \in 1..Len(s)
    BY <2>1 DEF Shown
  <2> HIDE DEF S
  <2>3. \A i \in S : i \in Nat /\ i \in 0..Len(s)
    BY <2>1, <2>2
  <2> QED BY <2>1, <2>2, <2>3
<1>2. Strip(s) = IF S = {} THEN <<>> ELSE SubSeq(s, first, last)
  <2>1. {i \in 1..Len(s) : s[i] # " "} = S
    BY <1>1 DEF Shown
  <2>2. S # {} => first # 0
    <3> HIDE DEF S
    <3> QED BY <1>1, MinIsFirst
  <2> HIDE DEF S
  <2> QED BY <2>1, <2>2 DEF Strip, SelectInSeq, SelectLastInSeq
<1>3. CASE S = {}
  <2>1. <<>> # <<w>>
    OBVIOUS
  <2> QED BY <1>2, <1>3, <2>1
<1>4. CASE S # {}
  <2>1. /\ first \in S /\ \A k \in S : first <= k
        /\ last \in S /\ \A k \in S : k <= last
    BY <1>1, <1>4, MinIsFirst, MaxIsLast
  <2> HIDE DEF S, first, last
  <2>2. /\ first \in 1..Len(s) /\ last \in 1..Len(s) /\ first <= last
    BY <1>1, <2>1
  <2>3. /\ Len(SubSeq(s, first, last)) = last - first + 1
        /\ SubSeq(s, first, last)[1] = s[first]
        /\ SubSeq(s, first, last) \in Seq(T)
    <3>1. first \in Int /\ last \in Int /\ 1 <= first /\ last <= Len(s)
      BY <1>1, <2>2
    <3>2. \A i \in first..last : s[i] \in T
      BY <1>1, <3>1
    <3> QED BY <2>2, <3>1, <3>2, SubSeqProperties
  <2>4. ASSUME SubSeq(s, first, last) = <<w>>
        PROVE  S = {first} /\ s[first] = w
    <3>1. Len(<<w>>) = 1 /\ <<w>>[1] = w
      OBVIOUS
    <3>2. last = first
      BY <1>1, <2>2, <2>3, <2>4, <3>1
    <3>3. s[first] = w
      BY <2>3, <2>4, <3>1
    <3>4. \A k \in S : k = first
      <4>1. \A k \in S : k \in Int /\ first <= k /\ k <= first
        BY <1>1, <2>1, <3>2
      <4> QED BY <4>1, <1>1, <2>2
    <3> QED BY <2>1, <3>3, <3>4
  <2>5. ASSUME NEW i \in S, S = {i}, s[i] = w
        PROVE  SubSeq(s, first, last) = <<w>>
    <3>1. first = i /\ last = i
      BY <2>1, <2>5
    <3>2. /\ Len(SubSeq(s, i, i)) = 1 /\ SubSeq(s, i, i)[1] = w
          /\ SubSeq(s, i, i) \in Seq(T)
      BY <1>1, <2>2, <2>3, <2>5, <3>1
    <3>3. SubSeq(s, i, i) = <<SubSeq(s, i, i)[1]>>
      BY <3>2, OneLong
    <3> QED BY <3>1, <3>2, <3>3
  <2> QED BY <1>2, <1>4, <2>1, <2>4, <2>5 DEF S
<1> QED BY <1>3, <1>4

(* The name that the code cuts out of the line is the one a person reads,  *)
(* wherever the blanks and the comment are.                                *)
THEOREM DatabaseIsTheOneRead ==
    ASSUME NEW T, NEW line \in Seq(T)
    PROVE  Database(line) = <<"zatch">> <=> SaysReal(line)
<1> DEFINE H == {i \in 1..Len(line) : line[i] = "#"}
           sign == SelectInSeq(line, LAMBDA w : w = "#")
           s == IF sign = 0 THEN line ELSE SubSeq(line, 1, sign - 1)
           read == {i \in DOMAIN line :
                       line[i] # " " /\ \A j \in 1..i : line[j] # "#"}
<1>1. Len(line) \in Nat /\ DOMAIN line = 1..Len(line)
  OBVIOUS
<1>2. sign = IF H # {} THEN Min(H) ELSE 0
  BY DEF SelectInSeq
<1>3. H # {} => Min(H) \in H /\ \A k \in H : Min(H) <= k
  <2>1. H \in SUBSET Nat
    OBVIOUS
  <2> HIDE DEF H
  <2> QED BY <2>1, MinIsFirst
<1> HIDE DEF sign
<1>4. /\ s \in Seq(T)
      /\ DOMAIN s = {i \in 1..Len(line) : \A j \in 1..i : line[j] # "#"}
      /\ \A i \in DOMAIN s : s[i] = line[i]
  <2>1. CASE H = {}
    <3>1. sign = 0
      BY <2>1, <1>2
    <3>2. \A j \in 1..Len(line) : line[j] # "#"
      BY <2>1
    <3> QED BY <1>1, <3>1, <3>2
  <2>2. CASE H # {}
    <3>1. sign \in 1..Len(line) /\ line[sign] = "#"
          /\ \A k \in 1..Len(line) : line[k] = "#" => sign <= k
      BY <2>2, <1>2, <1>3
    <3>2. s = SubSeq(line, 1, sign - 1) /\ s \in Seq(T)
      BY <1>1, <3>1
    <3>3. DOMAIN s = 1..(sign - 1) /\ \A i \in DOMAIN s : s[i] = line[i]
      BY <1>1, <3>1, <3>2
    <3>4. 1..(sign - 1) = {i \in 1..Len(line) : \A j \in 1..i : line[j] # "#"}
      <4> HIDE DEF H
      <4>1. \A i \in 1..(sign - 1) : i \in 1..Len(line)
                                    /\ \A j \in 1..i : line[j] # "#"
        BY <1>1, <3>1
      <4>2. \A i \in 1..Len(line) : (\A j \in 1..i : line[j] # "#") =>
                                       i \in 1..(sign - 1)
        BY <1>1, <3>1
      <4> QED BY <4>1, <4>2
    <3> QED BY <3>2, <3>3, <3>4
  <2> QED BY <2>1, <2>2
<1> HIDE DEF s
<1>5. Database(line) = Strip(s)
  BY DEF Database, s, sign
<1>6. Shown(s) = read
  BY <1>1, <1>4 DEF Shown
<1>7. \A i \in read : s[i] = line[i]
  BY <1>4, <1>6 DEF Shown
<1>8. Strip(s) = <<"zatch">> <=>
         \E i \in Shown(s) : Shown(s) = {i} /\ s[i] = "zatch"
  BY <1>4, OneWordLeft
<1>9. SaysReal(line) <=> \E i \in read : read = {i} /\ line[i] = "zatch"
  BY DEF SaysReal
<1> HIDE DEF read
<1> QED BY <1>5, <1>6, <1>7, <1>8, <1>9

-----------------------------------------------------------------------------
(***************************************************************************)
(* How a subject comes about.                                              *)
(***************************************************************************)
\* The two kinds that grow.
Shape ==
    /\ About("list") =>
         subject = [of |-> "list", ms |-> subject.ms, n |-> subject.n]
    /\ About("stream") =>
         subject = [of |-> "stream", frames |-> subject.frames,
                    said |-> subject.said]

LEMMA GrownKeepsShape ==
    ASSUME Shape, GrowList
    PROVE  /\ subject'.of = "list" /\ Shape'
           /\ subject'.n = subject.n
           /\ \E m \in Kinds : subject'.ms = Append(subject.ms, m)
<1>1. About("list") /\ subject.of = "list"
  BY DEF GrowList, About
<1>2. PICK m \in Kinds : subject' = [subject EXCEPT !.ms = Append(@, m)]
  BY DEF GrowList
<1>3. subject' = [of |-> "list", ms |-> Append(subject.ms, m), n |-> subject.n]
  BY <1>1, <1>2 DEF Shape
<1> QED BY <1>3 DEF Shape, About

SendsSomething ==
    \/ SendNoise \/ SendWords \/ SendCall \/ SendMoreOfCalls

LEMMA SentKeepsShape ==
    ASSUME Shape, NEW frame, NEW said, Sends(frame, said)
    PROVE  /\ subject'.of = "stream" /\ Shape'
           /\ subject'.frames = Append(subject.frames, frame)
           /\ subject'.said = said
<1>1. About("stream") /\ subject.of = "stream"
  BY DEF Sends, About
<1>2. subject' = [subject EXCEPT !.frames = Append(@, frame), !.said = said]
  BY DEF Sends
<1>3. subject' = [of |-> "stream", frames |-> Append(subject.frames, frame),
                  said |-> said]
  BY <1>1, <1>2 DEF Shape
<1> QED BY <1>3 DEF Shape, About

LEMMA SendingKeepsShape ==
    ASSUME Shape, SendsSomething
    PROVE  /\ subject'.of = "stream" /\ Shape'
           /\ \E frame, said : Sends(frame, said)
<1>1. CASE SendNoise
  BY <1>1, SentKeepsShape DEF SendNoise
<1>2. CASE SendWords
  BY <1>2, SentKeepsShape DEF SendWords
<1>3. CASE SendCall
  BY <1>3, SentKeepsShape DEF SendCall
<1>4. CASE SendMoreOfCalls
  BY <1>4, SentKeepsShape DEF SendMoreOfCalls
<1> QED BY <1>1, <1>2, <1>3, <1>4 DEF SendsSomething

\* Which action a subject may come from.
Origin ==
    /\ subject'.of = "list" => BeginList \/ GrowList
    /\ subject'.of = "stream" => BeginStream \/ SendsSomething
    /\ subject'.of = "refusal" => Refusal
    /\ subject'.of = "embedding" => Embedding
    /\ subject'.of = "chain" => ChainQuestion
    /\ subject'.of = "login" => Login
    /\ subject'.of = "document" => Document
    /\ subject'.of = "collection" => Collection
    /\ subject'.of = "log" => LogLine
    /\ subject'.of = "call" => Call
    /\ subject'.of = "seller" => SellerQuestion
    /\ subject'.of = "coupon" => CouponQuestion

LEMMA EveryStepHasItsOrigin ==
    ASSUME Shape, Next
    PROVE  Origin /\ Shape'
<1>1. CASE BeginList
  <2>1. subject'.of = "list" /\ Shape'
    BY <1>1 DEF BeginList, Shape, About
  <2> QED BY <1>1, <2>1 DEF Origin
<1>2. CASE GrowList
  <2>1. subject'.of = "list" /\ Shape'
    BY <1>2, GrownKeepsShape
  <2> QED BY <1>2, <2>1 DEF Origin
<1>3. CASE BeginStream
  <2>1. subject'.of = "stream" /\ Shape'
    BY <1>3 DEF BeginStream, Silence, Shape, About
  <2> QED BY <1>3, <2>1 DEF Origin
<1>4. CASE SendsSomething
  <2>1. subject'.of = "stream" /\ Shape'
    BY <1>4, SendingKeepsShape
  <2> QED BY <1>4, <2>1 DEF Origin
<1>5. CASE Refusal
  <2>1. subject'.of = "refusal"
    BY <1>5 DEF Refusal
  <2> QED BY <1>5, <2>1 DEF Origin, Shape, About
<1>6. CASE Embedding
  <2>1. subject'.of = "embedding"
    BY <1>6 DEF Embedding
  <2> QED BY <1>6, <2>1 DEF Origin, Shape, About
<1>7. CASE ChainQuestion
  <2>1. subject'.of = "chain"
    BY <1>7 DEF ChainQuestion
  <2> QED BY <1>7, <2>1 DEF Origin, Shape, About
<1>8. CASE Login
  <2>1. \E e, h, a : subject' = [of |-> "login", env |-> e, header |-> h,
                                 allowed |-> a]
    BY <1>8, Zenon DEF Login
  <2>2. subject'.of = "login"
    BY <2>1
  <2> QED BY <1>8, <2>2 DEF Origin, Shape, About
<1>9. CASE Document
  <2>1. subject'.of = "document"
    BY <1>9 DEF Document
  <2> QED BY <1>9, <2>1 DEF Origin, Shape, About
<1>10. CASE Collection
  <2>1. subject'.of = "collection"
    BY <1>10 DEF Collection
  <2> QED BY <1>10, <2>1 DEF Origin, Shape, About
<1>11. CASE LogLine
  <2>1. \E k, ls : subject' = [of |-> "log", key |-> k, links |-> ls]
    BY <1>11, Zenon DEF LogLine
  <2>2. subject'.of = "log"
    BY <2>1
  <2> QED BY <1>11, <2>2 DEF Origin, Shape, About
<1>12. CASE Call
  <2>1. subject'.of = "call"
    BY <1>12 DEF Call
  <2> QED BY <1>12, <2>1 DEF Origin, Shape, About
<1>13. CASE SellerQuestion
  <2>1. subject'.of = "seller"
    BY <1>13 DEF SellerQuestion
  <2> QED BY <1>13, <2>1 DEF Origin, Shape, About
<1>14. CASE CouponQuestion
  <2>1. subject'.of = "coupon"
    BY <1>14 DEF CouponQuestion
  <2> QED BY <1>14, <2>1 DEF Origin, Shape, About
<1> QED
  BY <1>1, <1>2, <1>3, <1>4, <1>5, <1>6, <1>7, <1>8, <1>9, <1>10, <1>11,
     <1>12, <1>13, <1>14 DEF Next, SendsSomething

(* Every subject has its shape.                                            *)
LEMMA EverySubjectHasItsShape == Spec => []Shape
<1>1. Init => Shape
  BY DEF Init, Shape, About
<1>2. Shape /\ [Next]_subject => Shape'
  <2> SUFFICES ASSUME Shape, [Next]_subject PROVE Shape'
    OBVIOUS
  <2>1. CASE Next
    BY <2>1, EveryStepHasItsOrigin
  <2>2. CASE UNCHANGED subject
    BY <2>2 DEF Shape, About
  <2> QED BY <2>1, <2>2
<1> QED BY <1>1, <1>2, PTL DEF Spec

-----------------------------------------------------------------------------
(***************************************************************************)
(* Message lists.                                                          *)
(***************************************************************************)
\* Of the lists put to the test: a prompt makes no calls.
ListInv ==
    About("list") => /\ subject.ms \in Seq(Message) /\ QuietPrompt(subject.ms)
                     /\ subject.n \in Nat \ {0}

LEMMA KindsAreMessages ==
    /\ Kinds \subseteq Message
    /\ \A m \in Kinds : m.role = "system" => m.calls = 0
<1>1. SystemPrompt \in Message /\ SystemPrompt.calls = 0
  BY DEF SystemPrompt, Message, Roles
<1>2. UserTurn \in Message /\ Answer \in Message /\ ToolResult(1) \in Message
  BY DEF UserTurn, Answer, ToolResult, Message, Roles
<1>3. UserTurn.role # "system" /\ Answer.role # "system"
      /\ ToolResult(1).role # "system"
  BY DEF UserTurn, Answer, ToolResult
<1>4. \A k \in 1..2 : ToolCalls(k, FALSE) \in Message
                      /\ ToolCalls(k, FALSE).role # "system"
  BY DEF ToolCalls, Message, Roles
<1>5. \A m \in Kinds : \/ m = SystemPrompt \/ m = UserTurn \/ m = Answer
                       \/ m = ToolResult(1)
                       \/ \E k \in 1..2 : m = ToolCalls(k, FALSE)
  BY DEF Kinds
<1>6. ASSUME NEW m \in Kinds
      PROVE  m \in Message /\ (m.role = "system" => m.calls = 0)
  BY <1>1, <1>2, <1>3, <1>4, <1>5
<1> QED BY <1>6

LEMMA EveryListIsOne == Spec => []ListInv
<1>1. Init => ListInv
  BY DEF Init, ListInv, About
<1>2. Shape /\ ListInv /\ [Next]_subject => ListInv'
  <2> SUFFICES ASSUME Shape, ListInv, [Next]_subject, subject'.of = "list"
               PROVE  /\ subject'.ms \in Seq(Message)
                      /\ QuietPrompt(subject'.ms) /\ subject'.n \in Nat \ {0}
    BY DEF ListInv, About
  <2>1. CASE UNCHANGED subject
    BY <2>1 DEF ListInv, About
  <2>2. CASE BeginList
    <3>1. PICK n \in 1..MaxTurns :
              subject' = [of |-> "list", ms |-> <<>>, n |-> n]
      BY <2>2 DEF BeginList
    <3>2. subject'.ms = <<>> /\ subject'.n = n
      BY <3>1
    <3>3. ~HasSystem(<<>>)
      BY DEF HasSystem
    <3> QED BY <3>2, <3>3, BoundsAreNatural DEF QuietPrompt
  <2>3. CASE GrowList
    <3>1. PICK m \in Kinds : subject'.ms = Append(subject.ms, m)
      BY <2>3, GrownKeepsShape
    <3>2. subject'.n = subject.n
      BY <2>3, GrownKeepsShape
    <3>3. subject.ms \in Seq(Message) /\ QuietPrompt(subject.ms)
          /\ subject.n \in Nat \ {0}
      BY <2>3 DEF GrowList, ListInv
    <3>4. m \in Message /\ (m.role = "system" => m.calls = 0)
      BY KindsAreMessages
    <3>5. subject'.ms \in Seq(Message)
      BY <3>1, <3>3, <3>4
    <3>6. QuietPrompt(subject'.ms)
      <4> DEFINE s == subject.ms
      <4>1. s \in Seq(Message) /\ subject'.ms = Append(s, m)
        BY <3>1, <3>3
      <4>2. CASE s = <<>>
        <5>1. subject'.ms[1] = m
          BY <4>1, <4>2
        <5> QED BY <3>4, <5>1 DEF QuietPrompt, HasSystem
      <4>3. CASE s # <<>>
        <5>1. subject'.ms[1] = s[1]
          BY <4>1, <4>3
        <5> QED BY <3>3, <4>3, <5>1 DEF QuietPrompt, HasSystem
      <4> QED BY <4>2, <4>3
    <3> QED BY <3>2, <3>3, <3>5, <3>6
  <2>4. CASE Next
    BY <2>2, <2>3, <2>4, EveryStepHasItsOrigin DEF Origin
  <2> QED BY <2>1, <2>4
<1> QED BY <1>1, <1>2, EverySubjectHasItsShape, PTL DEF Spec

LEMMA RecentIsAList ==
    ASSUME NEW s \in Seq(Message), NEW n \in Nat \ {0}
    PROVE  RecentTurns(s, n) \in Seq(Message)
BY TrimmedShape

(* save_session keeps of any list its prompt and its most recent turns,    *)
(* splits no tool exchange, and trims what it has trimmed no further.      *)
THEOREM ListsAreTrimmedRight == Spec => []TrimsRight
<1>1. ListInv => TrimsRight
  <2> SUFFICES ASSUME About("list"), subject.ms \in Seq(Message),
                      QuietPrompt(subject.ms), subject.n \in Nat \ {0}
               PROVE  KeepsRecentTurns /\ NeverSplits /\ TrimsOnce
    BY DEF ListInv, TrimsRight
  <2>1. Trimmed = RecentTurns(subject.ms, subject.n)
    BY TrimmingKeepsRecentTurns DEF Trimmed, ms
  <2>2. KeepsRecentTurns
    BY <2>1 DEF KeepsRecentTurns, ms
  <2>3. NeverSplits
    BY <2>1, TrimmedIsWhole DEF NeverSplits, ms
  <2>4. TrimByTurns(Trimmed, subject.n) = RecentTurns(Trimmed, subject.n)
    BY <2>1, RecentIsAList, TrimmingKeepsRecentTurns
  <2>5. TrimsOnce
    BY <2>1, <2>4, TrimmedStays DEF TrimsOnce
  <2> QED BY <2>2, <2>3, <2>5
<1> QED BY <1>1, EveryListIsOne, PTL

-----------------------------------------------------------------------------
(***************************************************************************)
(* The chain of providers.                                                 *)
(***************************************************************************)
IsList(s) == \E T : s \in Seq(T)

LEMMA TuplesAreLists ==
    \A a, b, c, d : /\ IsList(<<a>>) /\ IsList(<<a, b>>)
                    /\ IsList(<<a, b, c>>) /\ IsList(<<a, b, c, d>>)
<1> TAKE a, b, c, d
<1>1. /\ <<a>> \in Seq({a}) /\ <<a, b>> \in Seq({a, b})
      /\ <<a, b, c>> \in Seq({a, b, c})
      /\ <<a, b, c, d>> \in Seq({a, b, c, d})
  OBVIOUS
<1> QED BY <1>1, Zenon DEF IsList

\* Which providers are in the chain; each is there once.
LEMMA ChainMembers ==
    ASSUME NEW e
    PROVE  /\ IsList(Chain(e)) /\ DOMAIN Chain(e) = 1..Len(Chain(e))
           /\ Len(Chain(e)) \in Nat
           /\ \A p : p \in ToSet(Chain(e)) <=>
                 /\ p \in {"azure", "backup", "groq", "gemini"}
                 /\ Configured(e, p)
                 /\ RealData(e) => ~TrainsOnPrompts(e, p)
           /\ \A i, j \in DOMAIN Chain(e) :
                 Chain(e)[i] = Chain(e)[j] => i = j
<1> DEFINE N == {"azure", "backup", "groq", "gemini"}
           E == {p \in ToSet(PROVIDERS) :
                    Configured(e, p) /\ (RealData(e) => ~TrainsOnPrompts(e, p))}
<1>1. PROVIDERS \in Seq(N) /\ ToSet(PROVIDERS) = N
      /\ \A i, j \in DOMAIN PROVIDERS : PROVIDERS[i] = PROVIDERS[j] => i = j
  <2>1. DOMAIN PROVIDERS = 1..4 /\ PROVIDERS \in Seq(N)
        /\ PROVIDERS[1] = "azure" /\ PROVIDERS[2] = "backup"
        /\ PROVIDERS[3] = "groq" /\ PROVIDERS[4] = "gemini"
    BY DEF PROVIDERS
  <2>2. \A i \in 1..4 : i = 1 \/ i = 2 \/ i = 3 \/ i = 4
    OBVIOUS
  <2>3. \A i, j \in DOMAIN PROVIDERS : PROVIDERS[i] = PROVIDERS[j] => i = j
    BY <2>1, <2>2
  <2>4. ToSet(PROVIDERS) = N
    BY <2>1, <2>2 DEF ToSet
  <2> QED BY <2>1, <2>3, <2>4
<1>2. Chain(e) = Only(PROVIDERS, E)
  BY DEF Chain
<1> HIDE DEF E, N
<1>3. Chain(e) \in Seq(N)
  BY <1>1, <1>2, OnlyPicks
<1>4. ToSet(Chain(e)) = ToSet(PROVIDERS) \intersect E
  BY <1>1, <1>2, OnlyMembers
<1>5. \A i, j \in DOMAIN Chain(e) : Chain(e)[i] = Chain(e)[j] => i = j
  BY <1>1, <1>2, OnlyOnce
<1>6. \A p : p \in ToSet(Chain(e)) <=>
                 /\ p \in N /\ Configured(e, p)
                 /\ RealData(e) => ~TrainsOnPrompts(e, p)
  BY <1>1, <1>4 DEF E
<1>7. IsList(Chain(e)) /\ DOMAIN Chain(e) = 1..Len(Chain(e))
      /\ Len(Chain(e)) \in Nat
  BY <1>3 DEF IsList
<1> QED BY <1>5, <1>6, <1>7 DEF N

ChainInv ==
    About("chain") =>
        /\ IsList(subject.env.database)
        /\ "credit" \in DOMAIN subject.env
        /\ subject.env = [x \in DOMAIN subject.env |-> subject.env[x]]

LEMMA CompleteHas ==
    /\ {"database", "credit", "claims"} \subseteq DOMAIN Complete
    /\ Complete = [x \in DOMAIN Complete |-> Complete[x]]
BY DEF Complete

LEMMA LinesAreLists == \A line \in DatabaseLines : IsList(line)
BY TuplesAreLists, Zenon DEF DatabaseLines

LEMMA ChainsHaveTheirFields == Spec => []ChainInv
<1>1. Init => ChainInv
  BY DEF Init, ChainInv, About
<1>2. Shape /\ ChainInv /\ [Next]_subject => ChainInv'
  <2> SUFFICES ASSUME Shape, ChainInv, [Next]_subject, subject'.of = "chain"
               PROVE  /\ IsList(subject'.env.database)
                      /\ "credit" \in DOMAIN subject'.env
                      /\ subject'.env = [x \in DOMAIN subject'.env |->
                                            subject'.env[x]]
    BY DEF ChainInv, About
  <2>1. CASE UNCHANGED subject
    BY <2>1 DEF ChainInv, About
  <2>2. CASE ChainQuestion
    <3>1. PICK line \in DatabaseLines, az \in SUBSET Keys \ {{}},
               b \in {{Raw("key")}, {Raw("key"), Absent}},
               g, m \in {Raw("key"), Absent}, t \in BOOLEAN,
               r \in BOOLEAN, d \in {-1, 0, 1, 3, 4, 14, 15} :
             subject' = [of |-> "chain", env |->
              [Complete EXCEPT !.database = line, !.azure = az,
                  !.backup = b, !.groq = g, !.gemini = m,
                  !.backup_trains = t,
                  !.credit = [readable |-> r, days |-> d]]]
      BY <2>2, Zenon DEF ChainQuestion
    <3>2. PICK c : c = [readable |-> r, days |-> d]
      OBVIOUS
    <3>3. subject'.env = [Complete EXCEPT !.database = line, !.azure = az,
                  !.backup = b, !.groq = g, !.gemini = m,
                  !.backup_trains = t, !.credit = c]
      BY <3>1, <3>2
    <3>4. DOMAIN subject'.env = DOMAIN Complete
      BY <3>3, CompleteHas
    <3>5. subject'.env.database = line
      BY <3>3, CompleteHas
    <3>6. subject'.env = [x \in DOMAIN subject'.env |-> subject'.env[x]]
      BY <3>3, CompleteHas
    <3> QED BY <3>4, <3>5, <3>6, LinesAreLists, CompleteHas
  <2>3. CASE Next
    BY <2>2, <2>3, EveryStepHasItsOrigin DEF Origin
  <2> QED BY <2>1, <2>3
<1> QED BY <1>1, <1>2, EverySubjectHasItsShape, PTL DEF Spec

(* On the real database no provider of the chain trains on prompts, and no *)
(* other that is configured is left out.                                   *)
THEOREM RealDataIsKeptPrivate == Spec => []RealDataStaysPrivate
<1>1. ChainInv => RealDataStaysPrivate
  <2> SUFFICES ASSUME IsList(subject.env.database),
                      NEW p \in {"azure", "backup", "groq", "gemini"}
               PROVE  p \in ToSet(Chain(env))
                         <=> /\ Configured(env, p)
                             /\ SaysReal(env.database) => Keeps(p)
    BY DEF ChainInv, RealDataStaysPrivate, env
  <2>1. RealData(env) <=> SaysReal(env.database)
    BY DatabaseIsTheOneRead DEF RealData, env, IsList
  <2>2. ~TrainsOnPrompts(env, p) <=> Keeps(p)
    BY DEF TrainsOnPrompts, Keeps
  <2> QED BY <2>1, <2>2, ChainMembers
<1> QED BY <1>1, ChainsHaveTheirFields, PTL

-----------------------------------------------------------------------------
\* A credit changes no provider.
LEMMA CreditChangesNoProvider ==
    ASSUME NEW e, NEW c, "credit" \in DOMAIN e,
           e = [x \in DOMAIN e |-> e[x]]
    PROVE  LET f == [e EXCEPT !.credit = c]
           IN  Chain(f) = Chain(e) /\ f.credit = c
<1> DEFINE f == [e EXCEPT !.credit = c]
<1>1. /\ f.database = e.database /\ f.azure = e.azure /\ f.backup = e.backup
      /\ f.groq = e.groq /\ f.gemini = e.gemini
      /\ f.backup_trains = e.backup_trains
      /\ f.credit = c
  BY DEF f
<1> HIDE DEF f
<1>2. RealData(f) <=> RealData(e)
  BY <1>1 DEF RealData
<1>3. \A p : TrainsOnPrompts(f, p) <=> TrainsOnPrompts(e, p)
  BY <1>1 DEF TrainsOnPrompts
<1>4. AzureConfigured(f) <=> AzureConfigured(e)
  BY <1>1 DEF AzureConfigured
<1>5. BackupConfigured(f) <=> BackupConfigured(e)
  BY <1>1 DEF BackupConfigured
<1>6. \A p : p \in {"azure", "backup", "groq", "gemini"} =>
                (Configured(f, p) <=> Configured(e, p))
  BY <1>1, <1>4, <1>5 DEF Configured
<1>7. ToSet(PROVIDERS) = {"azure", "backup", "groq", "gemini"}
  <2>1. DOMAIN PROVIDERS = 1..4
        /\ PROVIDERS[1] = "azure" /\ PROVIDERS[2] = "backup"
        /\ PROVIDERS[3] = "groq" /\ PROVIDERS[4] = "gemini"
    BY DEF PROVIDERS
  <2>2. \A i \in 1..4 : i = 1 \/ i = 2 \/ i = 3 \/ i = 4
    OBVIOUS
  <2> QED BY <2>1, <2>2 DEF ToSet
<1>8. {p \in ToSet(PROVIDERS) :
          Configured(f, p) /\ (RealData(f) => ~TrainsOnPrompts(f, p))}
      = {p \in ToSet(PROVIDERS) :
          Configured(e, p) /\ (RealData(e) => ~TrainsOnPrompts(e, p))}
  BY <1>2, <1>3, <1>6, <1>7
<1>9. Chain(f) = Chain(e)
  BY <1>8 DEF Chain
<1> QED BY <1>1, <1>9 DEF f

\* A provider on which all hangs is alone.
LEMMA LostAlone ==
    ASSUME NEW p, p \in ToSet(Chain(env)), ChainWithout(p) = <<>>
    PROVE  Chain(env) # <<>> /\ ~Redundant(Chain(env))
<1> DEFINE c == Chain(env)
<1>1. /\ IsList(c) /\ DOMAIN c = 1..Len(c) /\ Len(c) \in Nat
      /\ \A i, j \in DOMAIN c : c[i] = c[j] => i = j
  BY ChainMembers
<1>2. ChainWithout(p) = Only(c, ToSet(c) \ {p})
  BY DEF ChainWithout
<1> HIDE DEF c
<1>3. PICK T : c \in Seq(T)
  BY <1>1 DEF IsList
<1>4. ToSet(ChainWithout(p)) = ToSet(c) \ {p}
  BY <1>2, <1>3, OnlyMembers
<1>5. ToSet(<<>>) = {}
  BY DEF ToSet
<1>6. \A i \in DOMAIN c : c[i] = p
  BY <1>4, <1>5 DEF ToSet
<1>7. \A i, j \in 1..Len(c) : i = j
  BY <1>1, <1>6
<1>8. Len(c) <= 1
  <2>1. ~(1 \in 1..Len(c) /\ 2 \in 1..Len(c))
    BY <1>7
  <2> QED BY <1>1, <2>1
<1>9. c # <<>>
  BY <1>5 DEF c
<1> QED BY <1>1, <1>8, <1>9 DEF Redundant, c

\* What a readable date makes of the worry.
LEMMA WorryOfDays ==
    ASSUME "credit" \in DOMAIN env, env = [x \in DOMAIN env |-> env[x]],
           Chain(env) # <<>>, NEW d \in Int
    PROVE  WorryWith(d) =
             IF d < 0 \/ (d <= 3 /\ ~Redundant(Chain(env))) THEN 2
             ELSE IF d <= 14 THEN 1
             ELSE IF Redundant(Chain(env)) THEN 0 ELSE 1
<1> DEFINE c == [readable |-> TRUE, days |-> d]
           f == [env EXCEPT !.credit = c]
<1>1. Chain(f) = Chain(env) /\ f.credit = c
  BY CreditChangesNoProvider
<1>2. WorryWith(d) = Worry[Level(f)]
  BY DEF WorryWith
<1> HIDE DEF f
<1>3. CreditDays(f) = {d}
  BY <1>1 DEF CreditDays
<1>4. (CHOOSE x \in CreditDays(f) : TRUE) = d /\ CreditDays(f) # {}
  BY <1>3
<1>5. Level(f) = RaisedBy(IF Redundant(Chain(env)) THEN "ok" ELSE "at_risk",
                          Redundant(Chain(env)), d)
  BY <1>1, <1>4 DEF Level
<1>6. Worry["ok"] = 0 /\ Worry["at_risk"] = 1 /\ Worry["critical"] = 2
  BY DEF Worry
<1>7. Level(f) = IF d < 0 \/ (d <= 3 /\ ~Redundant(Chain(env)))
                 THEN "critical"
                 ELSE IF d <= 14 THEN "at_risk"
                 ELSE IF Redundant(Chain(env)) THEN "ok" ELSE "at_risk"
  BY <1>5 DEF RaisedBy, CREDIT_CRITICAL_DAYS, CREDIT_AT_RISK_DAYS
<1> QED BY <1>2, <1>6, <1>7

LEMMA FieldsChanged ==
    \A l, m, t, c, s :
        [[limits |-> l, tools |-> t, choice |-> c, streamed |-> s]
               EXCEPT !.limits = m]
             = [limits |-> m, tools |-> t, choice |-> c, streamed |-> s]
OBVIOUS

LEMMA StreamedChanged ==
    \A l, t, c : \A s, r \in BOOLEAN :
        [[limits |-> l, tools |-> t, choice |-> c, streamed |-> s]
               EXCEPT !.streamed = r]
             = [limits |-> l, tools |-> t, choice |-> c, streamed |-> r]
OBVIOUS

LEMMA BothAskTheSame == RequestsAgree
<1> SUFFICES ASSUME NEW tools \in SUBSET {"t"}, NEW p \in ToSet(Chain(env))
             PROVE  LET buffered == BuildRequest(Kind(env, p),
                                        Payload(tools, "auto", FALSE)).body
                        streamed == BuildRequest(Kind(env, p),
                                        Payload(tools, "auto", TRUE)).body
                    IN  /\ streamed = [buffered EXCEPT !.streamed = TRUE]
                        /\ Cardinality(streamed.limits) = 1
  BY DEF RequestsAgree
<1> DEFINE k == Kind(env, p)
           choice == IF tools = {} THEN {} ELSE {"auto"}
           Body(l, s) == [limits |-> l, tools |-> tools,
                          choice |-> choice, streamed |-> s]
           limit == IF k = "azure" THEN "max_completion_tokens"
                    ELSE "max_tokens"
<1>1. \A s : Payload(tools, "auto", s) = Body({"max_tokens"}, s)
  BY DEF Payload
<1>2. \A s : BuildRequest(k, Payload(tools, "auto", s)).body = Body({limit}, s)
  <2> TAKE s
  <2>1. CASE k = "azure"
    <3>1. BuildRequest(k, Payload(tools, "auto", s)).body
            = [Payload(tools, "auto", s) EXCEPT
                  !.limits = {"max_completion_tokens"}]
      BY <2>1 DEF BuildRequest, Renamed
    <3>2. limit = "max_completion_tokens"
      BY <2>1
    <3> HIDE DEF k, choice, limit
    <3> QED BY <1>1, <3>1, <3>2, FieldsChanged
  <2>2. CASE k # "azure"
    BY <1>1, <2>2 DEF BuildRequest
  <2> QED BY <2>1, <2>2
<1>3. Body({limit}, TRUE) = [Body({limit}, FALSE) EXCEPT !.streamed = TRUE]
  <2> HIDE DEF choice, limit
  <2> QED BY StreamedChanged, Zenon
<1>4. Body({limit}, TRUE).limits = {limit}
  OBVIOUS
<1>5. Cardinality({limit}) = 1
  BY FS_Singleton
<1> QED BY <1>2, <1>3, <1>4, <1>5

LEMMA HealthSaysIt == HealthIsTold
<1> SUFFICES ASSUME NEW client \in BOOLEAN, NEW pings \in BOOLEAN
             PROVE  LET health == Health(env, client, pings)
                    IN  /\ Chain(env) = <<>> \/ ~client \/ ~pings =>
                             health.status = "degraded"
                        /\ client /\ pings /\ Level(env) = "at_risk" =>
                             health.status = "ok" /\ health.llm = "warning"
  BY DEF HealthIsTold
<1>1. Chain(env) = <<>> => Level(env) = "critical"
  BY DEF Level
<1>2. DatabaseHealth(client, pings) = "connected" <=> client /\ pings
  BY DEF DatabaseHealth
<1>3. LLM_WIRE_STATUS["at_risk"] = "warning"
  BY DEF LLM_WIRE_STATUS
<1>4. /\ Health(env, client, pings).status
             = IF DatabaseHealth(client, pings) # "connected"
                    \/ Level(env) = "critical" THEN "degraded" ELSE "ok"
      /\ Health(env, client, pings).llm = LLM_WIRE_STATUS[Level(env)]
  BY DEF Health
<1> QED BY <1>1, <1>2, <1>3, <1>4

(* Whatever the settings, the chain is never said to be well while one     *)
(* provider that fails would take the service down; it is critical when    *)
(* nothing can answer or the credit is gone, and a shorter credit never    *)
(* looks better; and /health says so.                                      *)
THEOREM NoOutageIsQuiet == Spec => []NoQuietOutage
<1>1. ChainInv => NoQuietOutage
  <2> SUFFICES ASSUME "credit" \in DOMAIN env,
                      env = [x \in DOMAIN env |-> env[x]]
               PROVE  /\ (\E p \in ToSet(Chain(env)) : ChainWithout(p) = <<>>)
                            => Level(env) # "ok"
                      /\ Chain(env) = <<>> => Level(env) = "critical"
                      /\ Chain(env) # <<>> =>
                         /\ \A d \in -1..15 : WorryWith(d) <= WorryWith(d - 1)
                         /\ \A d \in -1..14 : WorryWith(d) >= 1
                         /\ WorryWith(-1) = 2
                         /\ Len(Chain(env)) = 1 =>
                               WorryWith(CREDIT_CRITICAL_DAYS) = 2
                      /\ RequestsAgree /\ HealthIsTold
    BY DEF ChainInv, NoQuietOutage, env
  <2>1. ASSUME NEW p \in ToSet(Chain(env)), ChainWithout(p) = <<>>
        PROVE  Level(env) # "ok"
    <3>1. Chain(env) # <<>> /\ ~Redundant(Chain(env))
      BY <2>1, LostAlone
    <3> QED BY <3>1 DEF Level, RaisedBy
  <2>2. Chain(env) = <<>> => Level(env) = "critical"
    BY DEF Level
  <2>3. ASSUME Chain(env) # <<>>
        PROVE  /\ \A d \in -1..15 : WorryWith(d) <= WorryWith(d - 1)
               /\ \A d \in -1..14 : WorryWith(d) >= 1
               /\ WorryWith(-1) = 2
               /\ Len(Chain(env)) = 1 => WorryWith(CREDIT_CRITICAL_DAYS) = 2
    <3> DEFINE R == Redundant(Chain(env))
    <3>1. \A d \in Int : WorryWith(d) =
             IF d < 0 \/ (d <= 3 /\ ~R) THEN 2
             ELSE IF d <= 14 THEN 1 ELSE IF R THEN 0 ELSE 1
      BY <2>3, WorryOfDays
    <3>2. Len(Chain(env)) = 1 => ~R
      BY DEF Redundant
    <3> HIDE DEF R
    <3>3. \A d \in -1..15 : WorryWith(d) <= WorryWith(d - 1)
      <4> TAKE d \in -1..15
      <4>1. d \in Int /\ d - 1 \in Int
        OBVIOUS
      <4> QED BY <3>1, <4>1
    <3>4. \A d \in -1..14 : WorryWith(d) >= 1
      BY <3>1
    <3>5. WorryWith(-1) = 2
      BY <3>1
    <3>6. ~R => WorryWith(3) = 2
      BY <3>1
    <3> QED BY <3>2, <3>3, <3>4, <3>5, <3>6 DEF CREDIT_CRITICAL_DAYS
  <2> QED BY <2>1, <2>2, <2>3, BothAskTheSame, HealthSaysIt
<1> QED BY <1>1, ChainsHaveTheirFields, PTL

-----------------------------------------------------------------------------
(***************************************************************************)
(* Requests and their users.                                               *)
(***************************************************************************)
LoginInv == About("login") => IsList(subject.env.claims)

ClaimSettings == {<<"">>, <<"sub", "", "user_id">>, <<"email">>, <<"", "">>}

LEMMA ClaimSettingsAreLists == \A c \in ClaimSettings : IsList(c)
BY TuplesAreLists, Zenon DEF ClaimSettings

LEMMA LoginsHaveTheirFields == Spec => []LoginInv
<1>1. Init => LoginInv
  BY DEF Init, LoginInv, About
<1>2. Shape /\ LoginInv /\ [Next]_subject => LoginInv'
  <2> SUFFICES ASSUME Shape, LoginInv, [Next]_subject, subject'.of = "login"
               PROVE  IsList(subject'.env.claims)
    BY DEF LoginInv, About
  <2>1. CASE UNCHANGED subject
    BY <2>1 DEF LoginInv, About
  <2>2. CASE Login
    <3>1. PICK algorithm \in {Absent, Untidy("HS512"), Raw("RS256"),
                              Raw("MD5")},
               claims \in {<<"">>, <<"sub", "", "user_id">>, <<"email">>,
                           <<"", "">>},
               audience \in {Absent, Raw("zatch")},
               issuer \in {Untidy(""), Untidy("zatch")},
               given \in BOOLEAN, token \in Tokens,
               allowed \in {{"ann"}, {"ann", "bob"}} :
            subject' = [of |-> "login",
              env |-> [Complete EXCEPT !.jwt_algorithm = algorithm,
                          !.claims = claims, !.audience = audience,
                          !.issuer = issuer],
              header |-> [given |-> given, token |-> token],
              allowed |-> allowed]
      BY <2>2, Zenon DEF Login
    <3>2. IsList(claims)
      BY ClaimSettingsAreLists, Zenon DEF ClaimSettings
    <3>3. subject'.env = [Complete EXCEPT !.jwt_algorithm = algorithm,
                          !.claims = claims, !.audience = audience,
                          !.issuer = issuer]
      <4> HIDE DEF Login
      <4> QED BY <3>1
    <3>4. subject'.env.claims = claims
      BY <3>3, CompleteHas
    <3> QED BY <3>2, <3>4
  <2>3. CASE Next
    BY <2>2, <2>3, EveryStepHasItsOrigin DEF Origin
  <2> QED BY <2>1, <2>3
<1> QED BY <1>1, <1>2, EverySubjectHasItsShape, PTL DEF Spec

LEMMA ClaimsAreAList ==
    ASSUME NEW names, IsList(names)
    PROVE  /\ IsList(Claims(names)) /\ Len(Claims(names)) \in Nat
           /\ DOMAIN Claims(names) = 1..Len(Claims(names))
<1>1. IsList(DefaultClaims)
  BY TuplesAreLists, Zenon DEF DefaultClaims
<1>2. IsList(ClaimList(names))
  BY OnlyPicks DEF ClaimList, IsList
<1>3. IsList(Claims(names))
  BY <1>1, <1>2 DEF Claims
<1> QED BY <1>3 DEF IsList

\* The unset values are the blank ones.
LEMMA BlankIsUnset ==
    \A v : /\ Unset(v) <=> Blank(v)
           /\ ~Blank(v) => BlankMeansUnset(v).word = v.word
<1> TAKE v
<1>1. Raw(v.word).word = v.word /\ Absent.word = "absent"
  BY DEF Raw, Absent
<1>2. Blank(v) => BlankMeansUnset(v) = Absent
  BY DEF BlankMeansUnset
<1>3. ~Blank(v) => BlankMeansUnset(v) = Raw(v.word) /\ v.word # "absent"
  BY DEF BlankMeansUnset, Clean, Blank
<1>4. ~Blank(v) => BlankMeansUnset(v) # Absent
  BY <1>1, <1>3
<1> QED BY <1>1, <1>2, <1>3, <1>4 DEF Unset

LEMMA AlgorithmIsTheWord ==
    \A v : Algorithm(v) = IF Blank(v) THEN "HS256" ELSE v.word
<1> TAKE v
<1>1. Raw("HS256").word = "HS256" /\ Raw(v.word).word = v.word
      /\ Raw(Raw("HS256").word).word = "HS256"
  BY DEF Raw
<1>2. CASE Blank(v)
  BY <1>1, <1>2 DEF Algorithm, BlankMeansDefault, Clean
<1>3. CASE ~Blank(v)
  BY <1>1, <1>3 DEF Algorithm, BlankMeansDefault, Clean
<1> QED BY <1>2, <1>3

LEMMA GenuineDecodes == Decodes(env, Token) <=> Genuine
BY BlankIsUnset, AlgorithmIsTheWord DEF Decodes, Genuine

\* What the first configured claim that says something says.
Naming(token, claim) ==
    claim \in DOMAIN token.claims /\ token.claims[claim] # ""
FirstNamed(token, names) ==
    {token.claims[names[i]]
        : i \in {k \in DOMAIN names :
                    /\ Naming(token, names[k])
                    /\ \A j \in 1..(k - 1) : ~Naming(token, names[j])}}

\* The user is the one that the first such claim names, where one does.
LEMMA UserIsNamed ==
    ASSUME IsList(env.claims), NEW token
    PROVE  LET named == FirstNamed(token, Claims(env.claims))
           IN  /\ named = {} => ExtractUserId(env, token) = Refused("unclaimed")
               /\ named # {} => \E u \in named :
                                   ExtractUserId(env, token) = User(u)
<1> DEFINE names == Claims(env.claims)
           S == {i \in 1..Len(names) : Present(token, names[i])}
           at == SelectInSeq(names, LAMBDA c : Present(token, c))
           F == {k \in DOMAIN names :
                    /\ Naming(token, names[k])
                    /\ \A j \in 1..(k - 1) : ~Naming(token, names[j])}
           named == FirstNamed(token, names)
<1>1. Len(names) \in Nat /\ DOMAIN names = 1..Len(names)
  BY ClaimsAreAList
<1>2. at = IF S # {} THEN Min(S) ELSE 0
  BY DEF SelectInSeq
<1>3. S # {} => at \in S /\ at # 0 /\ \A k \in S : at <= k
  <2>1. S \in SUBSET Nat /\ 0 \notin S
    BY <1>1
  <2> HIDE DEF S
  <2> QED BY <1>2, <2>1, MinIsFirst
<1>4. ExtractUserId(env, token) = IF at = 0 THEN Refused("unclaimed")
                                  ELSE User(token.claims[names[at]])
  BY DEF ExtractUserId
<1>5. named = {token.claims[names[i]] : i \in F}
  BY DEF FirstNamed
<1> HIDE DEF at
<1>6. \A k : k \in S <=> k \in DOMAIN names /\ Naming(token, names[k])
  BY <1>1 DEF Present, Naming
<1>7. S # {} => at \in F
  <2> HIDE DEF S
  <2> SUFFICES ASSUME S # {}, NEW j \in 1..(at - 1)
               PROVE  ~Naming(token, names[j])
    BY <1>3, <1>6
  <2>1. at \in 1..Len(names) /\ \A k \in S : at <= k
    BY <1>1, <1>3, <1>6
  <2> HIDE DEF names
  <2>2. j \in 1..Len(names) /\ ~(at <= j)
    BY <1>1, <2>1
  <2> QED BY <1>1, <1>6, <2>1, <2>2
<1>8. F # {} => S # {}
  BY <1>6
<1> HIDE DEF S, F, named
<1>9. CASE S = {}
  <2>1. at = 0 /\ named = {}
    BY <1>2, <1>5, <1>8, <1>9
  <2> QED BY <1>4, <2>1 DEF named
<1>10. CASE S # {}
  <2>1. token.claims[names[at]] \in named
    BY <1>5, <1>7, <1>10
  <2>2. ExtractUserId(env, token) = User(token.claims[names[at]])
    BY <1>3, <1>4, <1>10
  <2>3. named # {} /\ \E u \in named : ExtractUserId(env, token) = User(u)
    BY <2>1, <2>2
  <2> QED BY <2>3 DEF named
<1> QED BY <1>9, <1>10

LEMMA Verdicts ==
    /\ \A u : User(u).user = u /\ User(u).why = ""
    /\ \A w : Refused(w).why = w
    /\ "missing" # "" /\ "invalid" # "" /\ "unclaimed" # ""
BY DEF User, Refused

\* What create_test_token makes is verified.
LEMMA TestTokensAreGood ==
    ASSUME IsList(env.claims), Claims(env.claims) # <<>>
    PROVE  VerifyToken(env, CreateTestToken(env, "ann")) = User("ann")
<1> DEFINE t == CreateTestToken(env, "ann")
           names == Claims(env.claims)
<1>1. /\ t.alg = Algorithm(env.jwt_algorithm) /\ t.signed /\ t.exp = "later"
      /\ t.aud = BlankMeansUnset(env.audience).word
      /\ t.iss = BlankMeansUnset(env.issuer).word
      /\ t.claims = [c \in {Head(names)} |-> "ann"]
  BY DEF CreateTestToken
<1> HIDE DEF t
<1>2. Decodes(env, t)
  BY <1>1 DEF Decodes
<1>3. 1 \in DOMAIN names /\ Head(names) = names[1]
  <2>1. PICK T : names \in Seq(T)
    BY ClaimsAreAList DEF IsList
  <2> QED BY <2>1
<1>4. FirstNamed(t, names) = {"ann"}
  <2>1. \A c : Naming(t, c) <=> c = Head(names)
    BY <1>1 DEF Naming
  <2>2. 1 \in DOMAIN names /\ DOMAIN names = 1..Len(names)
        /\ Len(names) \in Nat /\ names[1] = Head(names)
    BY <1>3, ClaimsAreAList
  <2> DEFINE F == {k \in DOMAIN names :
                      /\ Naming(t, names[k])
                      /\ \A j \in 1..(k - 1) : ~Naming(t, names[j])}
  <2> HIDE DEF names
  <2>3. F = {1}
    <3>1. 1 \in F
      BY <2>1, <2>2
    <3>2. ASSUME NEW k \in F PROVE k = 1
      <4>1. k \in 1..Len(names) /\ \A j \in 1..(k - 1) : ~Naming(t, names[j])
        BY <2>2
      <4>2. Naming(t, names[1])
        BY <2>1, <2>2
      <4> QED BY <2>2, <4>1, <4>2
    <3> HIDE DEF F
    <3> QED BY <3>1, <3>2
  <2>4. FirstNamed(t, names) = {t.claims[names[k]] : k \in F}
    BY DEF FirstNamed
  <2>5. t.claims[names[1]] = "ann"
    BY <1>1, <2>2
  <2> HIDE DEF F
  <2> QED BY <2>3, <2>4, <2>5
<1>5. ExtractUserId(env, t) = User("ann")
  BY <1>4, UserIsNamed
<1> QED BY <1>2, <1>5 DEF VerifyToken, t

(* A request goes on exactly for a user whom a genuine token of this       *)
(* service names in a configured claim; that user is the one counted, a    *)
(* refused token counts nobody, and the tokens the code makes for its      *)
(* tests are admitted.                                                     *)
THEOREM OnlyVerifiedUsers == Spec => []VerifiedUserOnly
<1>1. LoginInv => VerifiedUserOnly
  <2> DEFINE good == subject.header.given /\ Genuine /\ Claimed # {}
  <2> SUFFICES ASSUME IsList(env.claims), Starts(env)
               PROVE  /\ Answered.status # 401 <=> good
                      /\ good => /\ Answered.user \in Claimed
                                 /\ Answered.counted = {Answered.user}
                                 /\ Answered.status = 200
                                      <=> Answered.user \in subject.allowed
                      /\ ~good => Answered.counted = {}
                      /\ Algorithm(env.jwt_algorithm) \in Symmetric =>
                           VerifyToken(env, CreateTestToken(env, "ann"))
                             = User("ann")
    BY DEF LoginInv, VerifiedUserOnly, env
  <2> DEFINE who == IF subject.header.given THEN VerifyToken(env, Token)
                    ELSE Refused("missing")
  <2>0. Claimed = FirstNamed(Token, Claims(env.claims))
    BY DEF Claimed, FirstNamed, Says, Naming
  <2>1. ~good => who.why # ""
    <3>1. ~subject.header.given => who.why # ""
      BY Verdicts
    <3>2. subject.header.given /\ ~Genuine => who.why # ""
      BY GenuineDecodes, Verdicts DEF VerifyToken
    <3>3. subject.header.given /\ Genuine /\ Claimed = {} =>
             who.why # ""
      BY <2>0, GenuineDecodes, UserIsNamed, Verdicts DEF VerifyToken
    <3> QED BY <3>1, <3>2, <3>3
  <2>2. ASSUME good
        PROVE  who.why = "" /\ who.user \in Claimed
    <3>1. who = ExtractUserId(env, Token)
      BY <2>2, GenuineDecodes DEF VerifyToken
    <3>2. PICK u \in Claimed : ExtractUserId(env, Token) = User(u)
      BY <2>0, <2>2, UserIsNamed
    <3> HIDE DEF who
    <3> QED BY <3>1, <3>2, Verdicts
  <2>3. Answered = IF who.why # ""
                   THEN [status |-> 401, user |-> "", counted |-> {}]
                   ELSE [status |-> IF who.user \in subject.allowed THEN 200
                                    ELSE 429,
                         user |-> who.user, counted |-> {who.user}]
    BY DEF Answered, Admit, Token
  <2> HIDE DEF who, good
  <2>4. ASSUME good
        PROVE  /\ Answered.status # 401
               /\ Answered.user \in Claimed
               /\ Answered.counted = {Answered.user}
               /\ Answered.status = 200 <=> Answered.user \in subject.allowed
    <3>1. Answered = [status |-> IF who.user \in subject.allowed THEN 200
                                 ELSE 429,
                      user |-> who.user, counted |-> {who.user}]
      BY <2>2, <2>3, <2>4
    <3>2. /\ Answered.user = who.user /\ Answered.counted = {who.user}
          /\ Answered.status = IF who.user \in subject.allowed THEN 200
                               ELSE 429
      BY <3>1
    <3>3. Answered.user \in Claimed
      BY <2>2, <2>4, <3>2
    <3>4. Answered.status = 200 <=> Answered.user \in subject.allowed
      BY <3>2
    <3>5. Answered.status # 401 /\ Answered.counted = {Answered.user}
      BY <3>2
    <3> QED BY <3>3, <3>4, <3>5, Zenon
  <2>5. ~good => Answered.status = 401 /\ Answered.counted = {}
    BY <2>1, <2>3
  <2> QED BY <2>4, <2>5, TestTokensAreGood DEF Starts, good
<1> QED BY <1>1, LoginsHaveTheirFields, PTL

-----------------------------------------------------------------------------
(***************************************************************************)
(* The allowlist tree.                                                     *)
(***************************************************************************)
\* Paths of one or of two names.
PathsOver(T) == {p \in Seq(T) : Len(p) = 1 \/ Len(p) = 2}
IsFieldList(fields) == \E T : fields \in Seq(PathsOver(T))

Nodes(T) == [open : BOOLEAN, subs : SUBSET T]
Trees(T) == UNION {[D -> Nodes(T)] : D \in SUBSET T}

\* What the loop over the fields has built after each.
Building(g, fields, T) ==
    /\ g \in [0..Len(fields) -> Trees(T)]
    /\ g[0] = <<>>
    /\ \A i \in 1..Len(fields) : g[i] = AddPath(g[i - 1], fields[i])
    /\ Tree(fields) = g[Len(fields)]

LEMMA TreesAre ==
    \A T : \A D \in SUBSET T : \A t \in [D -> Nodes(T)] : t \in Trees(T)
BY DEF Trees

LEMMA EmptyIsATree == \A T : <<>> \in Trees(T)
<1> TAKE T
<1>1. <<>> \in [{} -> Nodes(T)]
  OBVIOUS
<1> QED BY <1>1, TreesAre

\* The node a path begins in, and what the path makes of it.
NodeFor(t, p) ==
    IF p[1] \in DOMAIN t THEN t[p[1]]
    ELSE IF Len(p) = 1 THEN Open
    ELSE [open |-> FALSE, subs |-> {}]
NodeWith(n, p) ==
    IF Len(p) = 1 \/ n.open THEN n ELSE [n EXCEPT !.subs = @ \union {p[2]}]

LEMMA PathAddedFacts ==
    ASSUME NEW T, NEW t \in Trees(T), NEW p \in PathsOver(T)
    PROVE  /\ AddPath(t, p) \in Trees(T)
           /\ \A x : x \in DOMAIN AddPath(t, p) <=> x \in DOMAIN t \/ x = p[1]
           /\ \A f \in DOMAIN t \ {p[1]} : AddPath(t, p)[f] = t[f]
           /\ AddPath(t, p)[p[1]] = NodeWith(NodeFor(t, p), p)
<1> DEFINE top == p[1]
           node == IF top \in DOMAIN t THEN t[top]
                   ELSE IF Len(p) = 1 THEN Open
                   ELSE [open |-> FALSE, subs |-> {}]
           grown == IF Len(p) = 1 \/ node.open THEN node
                    ELSE [node EXCEPT !.subs = @ \union {p[2]}]
           D == DOMAIN t
           out == [x \in D \union {top} |-> IF x = top THEN grown ELSE t[x]]
<1>1. AddPath(t, p) = out
  BY DEF AddPath
<1>2. PICK E \in SUBSET T : t \in [E -> Nodes(T)]
  BY DEF Trees
<1>3. D = E
  BY <1>2
<1>4. top \in T /\ (Len(p) # 1 => p[2] \in T)
  BY DEF PathsOver
<1>5. node \in Nodes(T)
  BY <1>2 DEF Nodes, Open
<1>6. grown \in Nodes(T)
  <2>1. ASSUME NEW n \in Nodes(T), NEW x \in T
        PROVE  [n EXCEPT !.subs = @ \union {x}] \in Nodes(T)
    BY <2>1 DEF Nodes
  <2> HIDE DEF node
  <2> QED BY <1>4, <1>5, <2>1
<1> HIDE DEF grown
<1>7. out \in [D \union {top} -> Nodes(T)] /\ D \union {top} \in SUBSET T
  <2> HIDE DEF top
  <2>1. \A x \in D : t[x] \in Nodes(T)
    BY <1>2, <1>3
  <2> QED BY <1>2, <1>3, <1>4, <1>6, <2>1
<1>8. out \in Trees(T)
  <2> HIDE DEF out, D, top
  <2> QED BY <1>7, TreesAre
<1>9. /\ DOMAIN out = D \union {top}
      /\ \A f \in D \ {top} : out[f] = t[f]
      /\ out[top] = grown
  OBVIOUS
<1> HIDE DEF out
<1>10. grown = NodeWith(NodeFor(t, p), p)
  BY DEF grown, NodeWith, NodeFor
<1> QED BY <1>1, <1>8, <1>9, <1>10

LEMMA TreeIsBuilt ==
    ASSUME NEW T, NEW fields \in Seq(PathsOver(T))
    PROVE  \E g : Building(g, fields, T)
<1> DEFINE L == Len(fields)
           All == Trees(T)
           Add(t, i) == AddPath(t, fields[i])
           step == [i \in 1..L |-> [t \in All |-> Add(t, i)]]
           Loop(f) == [i \in 0..L |-> IF i = 0 THEN <<>> ELSE Add(f[i - 1], i)]
           g == CHOOSE f : f = Loop(f)
<1>1. Tree(fields) = g[L]
  BY DEF Tree
<1>2. L \in Nat /\ \A i \in 1..L : fields[i] \in PathsOver(T)
  OBVIOUS
<1>3. <<>> \in All /\ \A t \in All, i \in 1..L : Add(t, i) \in All
  BY <1>2, EmptyIsATree, PathAddedFacts
<1> HIDE DEF Add
<1>4. step \in [1..L -> [All -> All]]
  <2> HIDE DEF All, L
  <2> QED BY <1>3
<1>5. PICK f \in [0..L -> All] :
          f[0] = <<>> /\ \A i \in 1..L : f[i] = step[i][f[i - 1]]
  <2> DEFINE base == <<>>
  <2>1. base \in All
    BY <1>3
  <2> HIDE DEF base, L, All, step
  <2>2. \E f \in [0..L -> All] :
            f[0] = base /\ \A i \in 1..L : f[i] = step[i][f[i - 1]]
    <3>1. L \in Nat /\ step \in [1..L -> [All -> All]]
      BY <1>2, <1>4
    <3>2. \A k \in Nat : \A st \in [1..k -> [All -> All]] :
              \E f \in [0..k -> All] :
                  f[0] = base /\ \A i \in 1..k : f[i] = st[i][f[i - 1]]
      BY <2>1, StepsRunThrough
    <3> QED BY <3>1, <3>2
  <2> QED BY <2>2 DEF base
<1>6. \A i \in 1..L : f[i] = Add(f[i - 1], i)
  <2> HIDE DEF L, All
  <2> TAKE i \in 1..L
  <2>1. i - 1 \in 0..L
    BY <1>2
  <2>2. f[i - 1] \in All
    BY <2>1
  <2> QED BY <1>5, <2>2
<1>7. f = Loop(f)
  <2> HIDE DEF L, All
  <2>1. \A i \in 0..L : i # 0 => i \in 1..L
    BY <1>2
  <2> QED BY <1>5, <1>6, <2>1
<1>8. g = Loop(g)
  <2> HIDE DEF Loop
  <2> QED BY <1>7
<1>9. /\ g[0] = <<>>
      /\ \A i \in 1..L : g[i] = Add(g[i - 1], i)
      /\ DOMAIN g = 0..L /\ g = [i \in 0..L |-> g[i]]
  <2> DEFINE h == Loop(g)
  <2>1. 0 \in 0..L /\ \A i \in 1..L : i \in 0..L /\ i # 0
    BY <1>2
  <2> HIDE DEF g, L
  <2>2. /\ h[0] = <<>>
        /\ \A i \in 1..L : h[i] = Add(g[i - 1], i)
        /\ DOMAIN h = 0..L /\ h = [i \in 0..L |-> h[i]]
    BY <2>1
  <2> HIDE DEF h
  <2>3. g = h
    BY <1>8 DEF h
  <2> QED BY <2>2, <2>3
<1> HIDE DEF g
<1>10. \A i \in 0..L : g[i] \in All
  <2> DEFINE R == {i \in Nat : i <= L => g[i] \in All}
  <2> HIDE DEF All
  <2>1. 0 \in R
    BY <1>3, <1>9
  <2>2. ASSUME NEW i \in Nat, i \in R PROVE i + 1 \in R
    <3> SUFFICES ASSUME i + 1 <= L PROVE g[i + 1] \in All
      OBVIOUS
    <3>1. i + 1 \in 1..L /\ (i + 1) - 1 = i /\ g[i] \in All
      BY <1>2, <2>2
    <3> HIDE DEF L
    <3> QED BY <1>3, <1>9, <3>1
  <2> HIDE DEF R
  <2>3. Nat \subseteq R
    BY <2>1, <2>2, SetInduction
  <2> QED BY <2>3, <1>2 DEF R
<1>11. g \in [0..L -> All]
  <2> HIDE DEF L, All
  <2> QED BY <1>9, <1>10
<1>12. \A i \in 1..L : g[i] = AddPath(g[i - 1], fields[i])
  BY <1>9 DEF Add
<1>13. Building(g, fields, T)
  BY <1>1, <1>9, <1>11, <1>12 DEF Building
<1> QED BY <1>13

-----------------------------------------------------------------------------
\* What the first i fields list.
FirstListed(fields, i, f) == \E k \in 1..i : fields[k] = <<f>>
FirstListedIn(fields, i, f) ==
    {x \in {fields[k][2] : k \in 1..i} :
        \E k \in 1..i : fields[k] = <<f, x>>}
Tops(fields, i) == {fields[k][1] : k \in 1..i}

\* An open node is listed itself, a closed one holds what is listed in it.
TreeSays(fields, i, t) ==
    /\ DOMAIN t = Tops(fields, i)
    /\ \A f \in DOMAIN t :
         /\ t[f].open \in BOOLEAN
         /\ t[f].open => FirstListed(fields, i, f)
         /\ ~t[f].open => /\ t[f].subs = FirstListedIn(fields, i, f)
                          /\ t[f].subs # {}

LEMMA PathCases ==
    ASSUME NEW T, NEW p \in PathsOver(T)
    PROVE  /\ Len(p) = 1 => p = <<p[1]>>
           /\ Len(p) = 2 => p = <<p[1], p[2]>>
           /\ Len(p) = 1 \/ Len(p) = 2
BY DEF PathsOver

LEMMA OneMoreField ==
    ASSUME NEW T, NEW fields \in Seq(PathsOver(T)), NEW i \in Nat,
           i + 1 <= Len(fields), NEW t \in Trees(T), TreeSays(fields, i, t)
    PROVE  TreeSays(fields, i + 1, AddPath(t, fields[i + 1]))
<1> DEFINE p == fields[i + 1]
           u == AddPath(t, p)
           j == i + 1
<1>1. p \in PathsOver(T)
  OBVIOUS
<1>2. /\ Len(p) = 1 => p = <<p[1]>>
      /\ Len(p) = 2 => p = <<p[1], p[2]>>
      /\ Len(p) = 1 \/ Len(p) = 2
  BY <1>1, PathCases
<1>3. j \in Nat /\ \A k : k \in 1..j <=> k \in 1..i \/ k = j
  OBVIOUS
<1> HIDE DEF j
<1>4. p = fields[j]
  BY DEF j
<1> HIDE DEF p
<1>5. Tops(fields, j) = Tops(fields, i) \union {p[1]}
  BY <1>3, <1>4 DEF Tops
<1>6. \A f : FirstListed(fields, j, f) <=>
                FirstListed(fields, i, f) \/ p = <<f>>
  BY <1>3, <1>4 DEF FirstListed
<1>7. \A f, x : x \in FirstListedIn(fields, j, f) <=>
                   x \in FirstListedIn(fields, i, f) \/ p = <<f, x>>
  <2> TAKE f, x
  <2>1. \A n : x \in FirstListedIn(fields, n, f) <=>
                  \E k \in 1..n : fields[k] = <<f, x>>
    BY DEF FirstListedIn
  <2> QED BY <1>3, <1>4, <2>1
<1>8. \A f, x : (p = <<f>> => Len(p) = 1 /\ p[1] = f)
                /\ (p = <<f, x>> => Len(p) = 2 /\ p[1] = f /\ p[2] = x)
  OBVIOUS
<1>9. /\ DOMAIN t = Tops(fields, i)
      /\ \A f \in DOMAIN t :
           /\ t[f].open \in BOOLEAN
           /\ t[f].open => FirstListed(fields, i, f)
           /\ ~t[f].open => /\ t[f].subs = FirstListedIn(fields, i, f)
                            /\ t[f].subs # {}
  BY DEF TreeSays
<1> DEFINE top == p[1]
           node == NodeFor(t, p)
<1>10. /\ DOMAIN u = DOMAIN t \union {top}
       /\ \A f \in DOMAIN t \ {top} : u[f] = t[f]
       /\ u[top] = IF Len(p) = 1 \/ node.open THEN node
                   ELSE [node EXCEPT !.subs = @ \union {p[2]}]
  <2>1. /\ DOMAIN u = DOMAIN t \union {top}
        /\ \A f \in DOMAIN t \ {top} : u[f] = t[f]
        /\ u[top] = NodeWith(node, p)
    <3>1. t \in Trees(T) /\ p \in PathsOver(T)
      BY <1>1
    <3>2. DOMAIN AddPath(t, p) = DOMAIN t \union {p[1]}
      <4>1. \A x : x \in DOMAIN AddPath(t, p) <=> x \in DOMAIN t \/ x = p[1]
        BY <3>1, PathAddedFacts
      <4> QED BY <4>1
    <3>3. \A f \in DOMAIN t \ {p[1]} : AddPath(t, p)[f] = t[f]
      BY <3>1, PathAddedFacts
    <3>4. AddPath(t, p)[p[1]] = NodeWith(NodeFor(t, p), p)
      BY <3>1, PathAddedFacts
    <3> QED BY <3>2, <3>3, <3>4
  <2> HIDE DEF u, node, top
  <2> QED BY <2>1 DEF NodeWith
<1>15. p[1] = top
  OBVIOUS
<1> HIDE DEF u, node, top
<1>11. ASSUME NEW f \in DOMAIN t \ {top}
       PROVE  /\ u[f] = t[f]
              /\ FirstListed(fields, j, f) <=> FirstListed(fields, i, f)
              /\ FirstListedIn(fields, j, f) = FirstListedIn(fields, i, f)
  <2>1. p # <<f>> /\ \A x : p # <<f, x>>
    BY <1>8, <1>15
  <2>2. \A x : x \in FirstListedIn(fields, j, f) <=>
                  x \in FirstListedIn(fields, i, f)
    BY <2>1, <1>7
  <2> QED BY <2>1, <2>2, <1>6, <1>10
<1>12. /\ node.open \in BOOLEAN
       /\ node = [open |-> node.open, subs |-> node.subs]
       /\ node.open => FirstListed(fields, i, top) \/ Len(p) = 1
       /\ ~node.open => /\ node.subs = FirstListedIn(fields, i, top)
                        /\ node.subs # {} \/ Len(p) = 2
  <2>1. CASE top \in DOMAIN t
    <3>1. PICK E \in SUBSET T : t \in [E -> Nodes(T)]
      BY DEF Trees
    <3>2. t[top] \in Nodes(T)
      BY <2>1, <3>1
    <3>3. t[top] = [open |-> t[top].open, subs |-> t[top].subs]
      BY <3>2 DEF Nodes
    <3>4. node = t[top]
      BY <2>1 DEF node, NodeFor, top
    <3> QED BY <1>9, <2>1, <3>3, <3>4
  <2>2. CASE top \notin DOMAIN t
    <3>1. FirstListedIn(fields, i, top) = {}
      <4> SUFFICES ASSUME NEW k \in 1..i, NEW x, fields[k] = <<top, x>>
                   PROVE  FALSE
        BY DEF FirstListedIn
      <4>1. fields[k][1] = top
        BY DEF top
      <4> QED BY <1>9, <2>2, <4>1 DEF Tops
    <3>2. Len(p) = 1 => node = Open
      BY <2>2 DEF node, NodeFor, top
    <3>3. Len(p) # 1 => node = [open |-> FALSE, subs |-> {}]
      BY <2>2 DEF node, NodeFor, top
    <3>4. CASE Len(p) = 1
      <4>1. node.open = TRUE /\ node.subs = {}
        BY <3>2, <3>4 DEF Open
      <4> QED BY <3>2, <3>4, <4>1 DEF Open
    <3>5. CASE Len(p) # 1
      <4>1. node.open = FALSE /\ node.subs = {}
        BY <3>3, <3>5
      <4> QED BY <1>2, <3>1, <3>3, <3>5, <4>1
    <3> QED BY <3>4, <3>5
  <2> QED BY <2>1, <2>2, Zenon
<1>13. /\ u[top].open \in BOOLEAN
       /\ u[top].open => FirstListed(fields, j, top)
       /\ ~u[top].open => /\ u[top].subs = FirstListedIn(fields, j, top)
                          /\ u[top].subs # {}
  <2>1. CASE Len(p) = 1
    <3>1. u[top] = node
      BY <2>1, <1>10
    <3>2. FirstListed(fields, j, top)
      BY <2>1, <1>2, <1>6, <1>15
    <3>3. FirstListedIn(fields, j, top) = FirstListedIn(fields, i, top)
      <4>1. \A x : p # <<top, x>>
        BY <2>1, <1>8, <1>15
      <4>2. \A x : x \in FirstListedIn(fields, j, top) <=>
                      x \in FirstListedIn(fields, i, top)
        BY <4>1, <1>7
      <4> QED BY <4>2
    <3> QED BY <2>1, <3>1, <3>2, <3>3, <1>12
  <2>2. CASE Len(p) = 2 /\ node.open
    <3>1. u[top] = node /\ FirstListed(fields, i, top)
      BY <2>2, <1>10, <1>12
    <3> QED BY <2>2, <3>1, <1>6
  <2>3. CASE Len(p) = 2 /\ ~node.open
    <3>1. u[top] = [node EXCEPT !.subs = @ \union {p[2]}]
      BY <2>3, <1>10
    <3>2. /\ u[top].open = node.open
          /\ u[top].subs = node.subs \union {p[2]}
      BY <2>3, <3>1, <1>12
    <3>3. FirstListedIn(fields, j, top)
            = FirstListedIn(fields, i, top) \union {p[2]}
      <4>1. \A x : p = <<top, x>> <=> x = p[2]
        BY <2>3, <1>2, <1>8, <1>15
      <4> QED BY <1>7, <4>1
    <3> QED BY <2>3, <3>2, <3>3, <1>12
  <2> QED BY <2>1, <2>2, <2>3, <1>2, Zenon
<1>14. TreeSays(fields, j, u)
  <2>1. \A f \in DOMAIN u : f = top \/ f \in DOMAIN t \ {top}
    BY <1>10
  <2>2. DOMAIN u = Tops(fields, j)
    BY <1>5, <1>9, <1>10, <1>15
  <2> QED BY <1>9, <1>11, <1>13, <2>1, <2>2 DEF TreeSays
<1> QED BY <1>14 DEF u, p, j

(* The tree opens what is listed itself and holds of the rest what is      *)
(* listed in it.                                                           *)
LEMMA TreeIsRight ==
    ASSUME NEW fields, IsFieldList(fields)
    PROVE  LET t == Tree(fields)
           IN  /\ DOMAIN t = {p[1] : p \in ToSet(fields)}
               /\ \A f \in DOMAIN t :
                    /\ t[f].open \in BOOLEAN
                    /\ t[f].open => Listed(fields, f)
                    /\ ~t[f].open => /\ t[f].subs = ListedIn(fields, f)
                                     /\ t[f].subs # {}
<1>1. PICK T : fields \in Seq(PathsOver(T))
  BY DEF IsFieldList
<1> DEFINE L == Len(fields)
<1>2. PICK g : Building(g, fields, T)
  BY <1>1, TreeIsBuilt
<1>3. L \in Nat /\ DOMAIN fields = 1..L
  BY <1>1
<1> DEFINE R == {i \in Nat : i <= L => TreeSays(fields, i, g[i])}
<1>4. 0 \in R
  <2>1. g[0] = <<>> /\ 1..0 = {} /\ DOMAIN <<>> = {}
    BY <1>2 DEF Building
  <2>2. TreeSays(fields, 0, g[0])
    BY <2>1 DEF TreeSays, Tops
  <2> QED BY <2>2
<1>5. ASSUME NEW i \in Nat, i \in R PROVE i + 1 \in R
  <2> SUFFICES ASSUME i + 1 <= L PROVE TreeSays(fields, i + 1, g[i + 1])
    OBVIOUS
  <2>1. i + 1 \in 1..L /\ (i + 1) - 1 = i /\ i \in 0..L /\ i <= L
    BY <1>3
  <2>2. TreeSays(fields, i, g[i])
    BY <1>5, <2>1
  <2>3. g[i] \in Trees(T) /\ g[i + 1] = AddPath(g[i], fields[i + 1])
    BY <1>2, <2>1 DEF Building
  <2> QED BY <1>1, <2>2, <2>3, OneMoreField
<1> HIDE DEF R
<1>6. Nat \subseteq R
  BY <1>4, <1>5, SetInduction
<1>7. TreeSays(fields, L, Tree(fields))
  <2>1. TreeSays(fields, L, g[L])
    BY <1>3, <1>6 DEF R
  <2> QED BY <2>1, <1>2 DEF Building
<1>8. Tops(fields, L) = {p[1] : p \in ToSet(fields)}
  BY <1>3 DEF Tops, ToSet
<1>9. \A f : FirstListed(fields, L, f) <=> Listed(fields, f)
  BY <1>3 DEF FirstListed, Listed, ToSet
<1>10. \A k \in 1..L : fields[k] \in PathsOver(T)
  BY <1>1
<1>11. ASSUME NEW f PROVE FirstListedIn(fields, L, f) = ListedIn(fields, f)
  <2>1. \A x : x \in FirstListedIn(fields, L, f) <=>
                  \E k \in 1..L : fields[k] = <<f, x>>
    BY DEF FirstListedIn
  <2>2. \A x : x \in ListedIn(fields, f) <=>
                  \E k \in 1..L : /\ Len(fields[k]) = 2 /\ fields[k][1] = f
                                  /\ fields[k][2] = x
    BY <1>3 DEF ListedIn, ToSet
  <2>3. \A k \in 1..L : \A x :
           fields[k] = <<f, x>> <=> /\ Len(fields[k]) = 2 /\ fields[k][1] = f
                                    /\ fields[k][2] = x
    <3> TAKE k \in 1..L
    <3> TAKE x
    <3>1. Len(fields[k]) = 2 => fields[k] = <<fields[k][1], fields[k][2]>>
      BY <1>10, PathCases
    <3>2. Len(<<f, x>>) = 2 /\ <<f, x>>[1] = f /\ <<f, x>>[2] = x
      OBVIOUS
    <3> QED BY <3>1, <3>2
  <2>4. \A x : x \in FirstListedIn(fields, L, f) <=> x \in ListedIn(fields, f)
    <3> TAKE x
    <3>1. ASSUME NEW k \in 1..L, fields[k] = <<f, x>>
          PROVE  x \in ListedIn(fields, f)
      BY <2>2, <2>3, <3>1
    <3>2. ASSUME NEW k \in 1..L, Len(fields[k]) = 2, fields[k][1] = f,
                 fields[k][2] = x
          PROVE  fields[k] = <<f, x>>
      BY <2>3, <3>2
    <3>3. (\E k \in 1..L : /\ Len(fields[k]) = 2 /\ fields[k][1] = f
                            /\ fields[k][2] = x)
             <=> x \in ListedIn(fields, f)
      BY <2>2, Zenon
    <3>4. (\E k \in 1..L : fields[k] = <<f, x>>)
             <=> x \in FirstListedIn(fields, L, f)
      BY <2>1, Zenon
    <3> QED BY <3>1, <3>2, <3>3, <3>4
  <2> QED BY <2>4
<1> QED BY <1>7, <1>8, <1>9, <1>11 DEF TreeSays

\* A field is in the tree if it is listed or something in it is.
LEMMA ListedIsInTree ==
    ASSUME NEW fields, IsFieldList(fields), NEW f,
           Listed(fields, f) \/ ListedIn(fields, f) # {}
    PROVE  f \in DOMAIN Tree(fields)
<1>1. DOMAIN Tree(fields) = {p[1] : p \in ToSet(fields)}
  BY TreeIsRight
<1>2. CASE Listed(fields, f)
  <2>1. <<f>> \in ToSet(fields) /\ <<f>>[1] = f
    BY <1>2 DEF Listed
  <2> QED BY <1>1, <2>1
<1>3. CASE ListedIn(fields, f) # {}
  <2>1. PICK q \in ToSet(fields) : q[1] = f
    BY <1>3 DEF ListedIn
  <2> QED BY <1>1, <2>1
<1> QED BY <1>2, <1>3

\* What the sanitizer leaves of a field.
LEMMA SanitizedField ==
    ASSUME NEW fields, NEW doc
    PROVE  LET t == Tree(fields)
               left == Sanitize(fields, doc)
           IN  /\ DOMAIN left = DOMAIN doc \intersect (DOMAIN t \union {"_id"})
               /\ \A f \in DOMAIN left :
                    left[f] = IF f \in DOMAIN t
                              THEN SanitizeValue(doc[f], t[f]) ELSE doc[f]
BY DEF Sanitize

LEMMA LeftOfValue ==
    \A v, n : /\ n.open => SanitizeValue(v, n) = v
              /\ ~n.open /\ v.kind = "object" =>
                   SanitizeValue(v, n) = Object(v.subs \intersect n.subs)
              /\ ~n.open /\ v.kind # "object" => SanitizeValue(v, n) = Null
BY DEF SanitizeValue

LEMMA ObjectFields ==
    /\ \A S : Object(S).kind = "object" /\ Object(S).subs = S
    /\ Null.kind = "null" /\ Null.subs = {}
BY DEF Object, Null

(* Of any document and by any list of fields, nothing leaves that is not   *)
(* listed.                                                                 *)
LEMMA NothingUnlistedLeaves ==
    ASSUME NEW fields, IsFieldList(fields), NEW doc
    PROVE  NothingUnlisted(fields, doc)
<1> DEFINE t == Tree(fields)
           left == Sanitize(fields, doc)
<1> SUFFICES ASSUME NEW f \in DOMAIN left \ {"_id"}
             PROVE  \/ Listed(fields, f)
                    \/ /\ ListedIn(fields, f) # {}
                       /\ left[f].subs \subseteq ListedIn(fields, f)
                       /\ left[f].kind # "plain"
  BY DEF NothingUnlisted
<1>1. f \in DOMAIN t /\ left[f] = SanitizeValue(doc[f], t[f])
  <2>1. /\ DOMAIN left = DOMAIN doc \intersect (DOMAIN t \union {"_id"})
        /\ \A x \in DOMAIN left :
              left[x] = IF x \in DOMAIN t
                        THEN SanitizeValue(doc[x], t[x]) ELSE doc[x]
    BY SanitizedField, Zenon
  <2> HIDE DEF left, t
  <2> QED BY <2>1
<1>2. /\ t[f].open => Listed(fields, f)
      /\ ~t[f].open => t[f].subs = ListedIn(fields, f) /\ t[f].subs # {}
  BY <1>1, TreeIsRight
<1> HIDE DEF t, left
<1>3. CASE ~t[f].open /\ doc[f].kind = "object"
  <2>1. left[f] = Object(doc[f].subs \intersect t[f].subs)
    BY <1>1, <1>3, LeftOfValue
  <2>2. left[f].kind = "object"
        /\ left[f].subs = doc[f].subs \intersect t[f].subs
    BY <2>1, ObjectFields
  <2> QED BY <1>2, <1>3, <2>2
<1>4. CASE ~t[f].open /\ doc[f].kind # "object"
  <2>1. left[f] = Null
    BY <1>1, <1>4, LeftOfValue
  <2> QED BY <1>2, <1>4, <2>1, ObjectFields
<1> QED BY <1>2, <1>3, <1>4

(* And nothing that is listed is lost, whole or in part.                   *)
LEMMA WhatIsListedStays ==
    ASSUME NEW fields, IsFieldList(fields), NEW doc
    PROVE  ListedStays(fields, doc)
<1> DEFINE t == Tree(fields)
           left == Sanitize(fields, doc)
<1> SUFFICES ASSUME NEW f \in DOMAIN doc, OneWay(fields, f)
             PROVE  /\ Listed(fields, f) => f \in DOMAIN left
                                            /\ left[f] = doc[f]
                    /\ ListedIn(fields, f) # {} /\ doc[f].kind = "object" =>
                         /\ f \in DOMAIN left
                         /\ left[f].subs =
                              doc[f].subs \intersect ListedIn(fields, f)
  BY DEF ListedStays
<1>1. f \in DOMAIN t =>
         /\ f \in DOMAIN left /\ left[f] = SanitizeValue(doc[f], t[f])
         /\ t[f].open \in BOOLEAN
         /\ t[f].open => Listed(fields, f)
         /\ ~t[f].open => t[f].subs = ListedIn(fields, f) /\ t[f].subs # {}
  <2>1. /\ DOMAIN left = DOMAIN doc \intersect (DOMAIN t \union {"_id"})
        /\ \A x \in DOMAIN left :
              left[x] = IF x \in DOMAIN t
                        THEN SanitizeValue(doc[x], t[x]) ELSE doc[x]
    BY DEF Sanitize
  <2>2. \A x \in DOMAIN t :
           /\ t[x].open \in BOOLEAN
           /\ t[x].open => Listed(fields, x)
           /\ ~t[x].open => t[x].subs = ListedIn(fields, x) /\ t[x].subs # {}
    BY TreeIsRight
  <2> HIDE DEF left, t
  <2> QED BY <2>1, <2>2
<1>2. Listed(fields, f) \/ ListedIn(fields, f) # {} => f \in DOMAIN t
  BY ListedIsInTree
<1> HIDE DEF t, left
<1>3. ASSUME Listed(fields, f)
      PROVE  f \in DOMAIN left /\ left[f] = doc[f]
  <2>1. ListedIn(fields, f) = {}
    BY <1>3 DEF OneWay
  <2>2. f \in DOMAIN t /\ t[f].open
    BY <1>1, <1>2, <1>3, <2>1
  <2> QED BY <1>1, <2>2, LeftOfValue
<1>4. ASSUME ListedIn(fields, f) # {}, doc[f].kind = "object"
      PROVE  /\ f \in DOMAIN left
             /\ left[f].subs = doc[f].subs \intersect ListedIn(fields, f)
  <2>1. ~Listed(fields, f)
    BY <1>4 DEF OneWay
  <2>2. f \in DOMAIN t /\ ~t[f].open
    BY <1>1, <1>2, <1>4, <2>1
  <2>3. left[f] = Object(doc[f].subs \intersect t[f].subs)
    BY <1>1, <1>4, <2>2, LeftOfValue
  <2> QED BY <1>1, <2>2, <2>3, ObjectFields
<1> QED BY <1>3, <1>4

\* What MongoDB returns of a field that is asked for.
LEMMA ProjectedField ==
    ASSUME NEW fields, NEW doc
    PROVE  LET got == Project(fields, doc)
           IN  /\ \A f : f \in DOMAIN got <=>
                    /\ f \in DOMAIN doc
                    /\ \/ f = "_id" \/ Listed(fields, f)
                       \/ ListedIn(fields, f) # {} /\ doc[f].kind = "object"
               /\ \A f \in DOMAIN got :
                    got[f] = IF f = "_id" \/ Listed(fields, f) THEN doc[f]
                             ELSE Object(doc[f].subs
                                           \intersect ListedIn(fields, f))
<1> DEFINE listed == ToSet(fields)
           Subs(f) == {p[2] : p \in {q \in listed : Len(q) = 2 /\ q[1] = f}}
           Asked(f) == f = "_id" \/ <<f>> \in listed
           kept == {f \in DOMAIN doc :
                      Asked(f) \/ (Subs(f) # {} /\ doc[f].kind = "object")}
           got == [f \in kept |-> IF Asked(f) THEN doc[f]
                                  ELSE Object(doc[f].subs \intersect Subs(f))]
<1>1. Project(fields, doc) = got
  BY DEF Project, Projection
<1>2. \A f : Subs(f) = ListedIn(fields, f)
  BY DEF ListedIn
<1>3. \A f : Asked(f) <=> f = "_id" \/ Listed(fields, f)
  BY DEF Listed
<1> HIDE DEF Subs, Asked
<1>4. DOMAIN got = kept
      /\ \A f \in kept : got[f] = IF Asked(f) THEN doc[f]
                               ELSE Object(doc[f].subs \intersect Subs(f))
  OBVIOUS
<1>5. \A f : f \in kept <=>
         /\ f \in DOMAIN doc
         /\ \/ f = "_id" \/ Listed(fields, f)
            \/ ListedIn(fields, f) # {} /\ doc[f].kind = "object"
  BY <1>2, <1>3
<1> HIDE DEF got, kept
<1> QED BY <1>1, <1>2, <1>3, <1>4, <1>5
(* Asking the database for the listed fields only changes no answer.       *)
LEMMA NothingIsLostInProjection ==
    ASSUME NEW fields, IsFieldList(fields), NEW doc
    PROVE  ProjectionLosesNothing(fields, doc)
<1> DEFINE t == Tree(fields)
           got == Project(fields, doc)
           left == Sanitize(fields, doc)
           asked == Sanitize(fields, got)
<1> SUFFICES ASSUME \A f \in DOMAIN doc : OneWay(fields, f)
             PROVE  /\ \A f \in DOMAIN asked :
                          f \in DOMAIN left /\ asked[f] = left[f]
                    /\ \A f \in DOMAIN left \ DOMAIN asked : left[f] = Null
  BY DEF ProjectionLosesNothing
<1>1. /\ DOMAIN left = DOMAIN doc \intersect (DOMAIN t \union {"_id"})
      /\ \A x \in DOMAIN left :
            left[x] = IF x \in DOMAIN t
                      THEN SanitizeValue(doc[x], t[x]) ELSE doc[x]
  BY DEF Sanitize
<1>2. /\ DOMAIN asked = DOMAIN got \intersect (DOMAIN t \union {"_id"})
      /\ \A x \in DOMAIN asked :
            asked[x] = IF x \in DOMAIN t
                       THEN SanitizeValue(got[x], t[x]) ELSE got[x]
  <2> HIDE DEF got
  <2> QED BY DEF Sanitize
<1>3. \A x \in DOMAIN t :
         /\ t[x].open \in BOOLEAN
         /\ t[x].open => Listed(fields, x)
         /\ ~t[x].open => t[x].subs = ListedIn(fields, x) /\ t[x].subs # {}
  BY TreeIsRight
<1>4. /\ \A f : f \in DOMAIN got <=>
           /\ f \in DOMAIN doc
           /\ \/ f = "_id" \/ Listed(fields, f)
              \/ ListedIn(fields, f) # {} /\ doc[f].kind = "object"
      /\ \A f \in DOMAIN got :
           got[f] = IF f = "_id" \/ Listed(fields, f) THEN doc[f]
                    ELSE Object(doc[f].subs \intersect ListedIn(fields, f))
  BY ProjectedField, Zenon
<1>5. \A f \in DOMAIN doc : Listed(fields, f) => ListedIn(fields, f) = {}
  BY DEF OneWay
<1> HIDE DEF t, got, left, asked
<1>6. ASSUME NEW f \in DOMAIN asked
      PROVE  f \in DOMAIN left /\ asked[f] = left[f]
  <2>1. /\ f \in DOMAIN got /\ f \in DOMAIN doc
        /\ f \in DOMAIN t \union {"_id"} /\ f \in DOMAIN left
    BY <1>1, <1>2, <1>4
  <2>2. CASE f = "_id" \/ Listed(fields, f)
    <3>1. got[f] = doc[f]
      BY <1>4, <2>1, <2>2
    <3> QED BY <1>1, <1>2, <2>1, <3>1
  <2>3. CASE ~(f = "_id" \/ Listed(fields, f))
    <3>1. /\ f \in DOMAIN t /\ ~t[f].open
          /\ t[f].subs = ListedIn(fields, f)
      BY <1>3, <2>1, <2>3
    <3>2. /\ doc[f].kind = "object"
          /\ got[f] = Object(doc[f].subs \intersect t[f].subs)
      BY <1>4, <2>1, <2>3, <3>1
    <3>3. asked[f] = Object(got[f].subs \intersect t[f].subs)
      BY <1>2, <3>1, <3>2, LeftOfValue, ObjectFields
    <3>4. left[f] = Object(doc[f].subs \intersect t[f].subs)
      BY <1>1, <2>1, <3>1, <3>2, LeftOfValue
    <3>5. got[f].subs \intersect t[f].subs = doc[f].subs \intersect t[f].subs
      BY <3>2, ObjectFields
    <3> QED BY <2>1, <3>3, <3>4, <3>5
  <2> QED BY <2>2, <2>3
<1>7. ASSUME NEW f \in DOMAIN left \ DOMAIN asked
      PROVE  left[f] = Null
  <2>1. f \in DOMAIN doc /\ f \notin DOMAIN got
    BY <1>1, <1>2
  <2>2. f # "_id" /\ ~Listed(fields, f)
    BY <1>4, <2>1
  <2>3. /\ f \in DOMAIN t /\ ~t[f].open /\ ListedIn(fields, f) # {}
        /\ left[f] = SanitizeValue(doc[f], t[f])
    BY <1>1, <1>3, <2>2
  <2>4. doc[f].kind # "object"
    BY <1>4, <2>1, <2>3
  <2> QED BY <2>3, <2>4, LeftOfValue
<1> QED BY <1>6, <1>7

-----------------------------------------------------------------------------
(***************************************************************************)
(* Log lines.                                                              *)
(***************************************************************************)
\* Where the walk along the links ends, and with what.
EndsAt(links, d) ==
    \/ d >= MAX_REDACTION_DEPTH \/ d = Len(links)
    \/ links[d + 1].via = "object"
    \/ Named(links[d + 1]) /\ IsSensitiveKey(links[d + 1].name)
FateAt(links, d) ==
    IF d >= MAX_REDACTION_DEPTH THEN "truncated"
    ELSE IF d = Len(links) \/ links[d + 1].via = "object" THEN "shown"
    ELSE "redacted"
FirstEnd(links, d) == Min({j \in d..Len(links) : EndsAt(links, j)})

LEMMA FirstEndIs ==
    ASSUME NEW links, Len(links) \in Nat, NEW d \in 0..Len(links)
    PROVE  LET e == FirstEnd(links, d)
           IN  /\ e \in d..Len(links) /\ EndsAt(links, e)
               /\ \A j \in d..Len(links) : EndsAt(links, j) => e <= j
               /\ EndsAt(links, d) => e = d
               /\ ~EndsAt(links, d) =>
                    d + 1 \in 0..Len(links) /\ e = FirstEnd(links, d + 1)
<1> DEFINE n == Len(links)
           S(i) == {j \in i..n : EndsAt(links, j)}
<1>1. n \in Nat /\ EndsAt(links, n) /\ d \in Int /\ 0 <= d /\ d <= n
  BY DEF EndsAt
<1>2. ASSUME NEW i \in 0..n
      PROVE  Min(S(i)) \in S(i) /\ \A k \in S(i) : Min(S(i)) <= k
  <2>1. n \in S(i) /\ S(i) \in SUBSET Nat
    BY <1>1
  <2> HIDE DEF S
  <2> QED BY <2>1, MinIsFirst
<1>3. \A i : FirstEnd(links, i) = Min(S(i))
  BY DEF FirstEnd
<1> DEFINE e == Min(S(d))
<1>4. /\ e \in d..n /\ EndsAt(links, e)
      /\ \A j \in d..n : EndsAt(links, j) => e <= j
  BY <1>2
<1>5. ASSUME EndsAt(links, d) PROVE e = d
  <2>1. e <= d /\ e \in Int /\ d <= e
    BY <1>1, <1>4, <1>5
  <2> QED BY <1>1, <2>1
<1>6. ASSUME ~EndsAt(links, d)
      PROVE  d + 1 \in 0..n /\ S(d) = S(d + 1)
  <2>1. d # n
    BY <1>1, <1>6
  <2>2. d + 1 \in 0..n /\ \A j : j \in d..n <=> j = d \/ j \in (d + 1)..n
    BY <1>1, <2>1
  <2> QED BY <1>6, <2>2
<1> HIDE DEF S, e
<1>7. ~EndsAt(links, d) => d + 1 \in 0..n /\ e = FirstEnd(links, d + 1)
  BY <1>3, <1>6 DEF e
<1>8. e = FirstEnd(links, d)
  BY <1>3 DEF e
<1> QED BY <1>4, <1>5, <1>7, <1>8

\* The walk says what its first end says.
LEMMA FateIsOfFirstEnd ==
    ASSUME NEW links, Len(links) \in Nat
    PROVE  RedactValue(links) = FateAt(links, FirstEnd(links, 0))
<1> DEFINE n == Len(links)
           Next1(f, d) == IF EndsAt(links, d) THEN FateAt(links, d)
                          ELSE f[d + 1]
           Walk(f) == [d \in 0..n |->
                         LET link == links[d + 1]
                         IN  IF d >= MAX_REDACTION_DEPTH THEN "truncated"
                             ELSE IF d = n \/ link.via = "object" THEN "shown"
                             ELSE IF Named(link) /\ IsSensitiveKey(link.name)
                             THEN "redacted"
                             ELSE f[d + 1]]
           h == [d \in 0..n |-> FateAt(links, FirstEnd(links, d))]
           g == CHOOSE f : f = Walk(f)
<1>1. RedactValue(links) = g[0]
  BY DEF RedactValue
<1>2. n \in Nat
  OBVIOUS
<1>3. \A f : \A d \in 0..n : Walk(f)[d] = Next1(f, d)
  BY DEF EndsAt, FateAt
<1>4. \A f : Walk(f) = [d \in 0..n |-> Next1(f, d)]
  BY <1>3
<1> HIDE DEF Walk
<1>5. \A d \in 0..n : h[d] = FateAt(links, FirstEnd(links, d))
  OBVIOUS
<1>6. h = [d \in 0..n |-> h[d]]
  OBVIOUS
<1> HIDE DEF h, n
<1>7. \A d \in 0..n : h[d] = Next1(h, d)
  <2> TAKE d \in 0..n
  <2>1. /\ EndsAt(links, d) => FirstEnd(links, d) = d
        /\ ~EndsAt(links, d) =>
             d + 1 \in 0..n /\ FirstEnd(links, d) = FirstEnd(links, d + 1)
    BY <1>2, FirstEndIs DEF n
  <2> QED BY <1>5, <2>1
<1>8. h = Walk(h)
  BY <1>4, <1>6, <1>7
<1>9. g = Walk(g)
  BY <1>8
<1> HIDE DEF g
<1>10. \A d \in 0..n : g[d] = Next1(g, d)
  <2>1. g = [d \in 0..n |-> Next1(g, d)]
    BY <1>4, <1>9
  <2> DEFINE w == [d \in 0..n |-> Next1(g, d)]
  <2>2. \A d \in 0..n : w[d] = Next1(g, d)
    OBVIOUS
  <2> HIDE DEF w
  <2>3. g = w
    BY <2>1 DEF w
  <2> QED BY <2>2, <2>3
<1> DEFINE R == {k \in Nat : k <= n => g[n - k] = h[n - k]}
<1>11. 0 \in R
  <2>1. n \in 0..n /\ n - 0 = n
    BY <1>2
  <2>2. EndsAt(links, n)
    BY DEF EndsAt, n
  <2> QED BY <1>7, <1>10, <2>1, <2>2
<1>12. ASSUME NEW k \in Nat, k \in R PROVE k + 1 \in R
  <2> SUFFICES ASSUME k + 1 <= n PROVE g[n - (k + 1)] = h[n - (k + 1)]
    OBVIOUS
  <2>1. n - (k + 1) \in 0..n /\ (n - (k + 1)) + 1 = n - k
    BY <1>2
  <2>2. g[n - k] = h[n - k]
    BY <1>2, <1>12
  <2> QED BY <1>7, <1>10, <2>1, <2>2
<1> HIDE DEF R
<1>13. Nat \subseteq R
  BY <1>11, <1>12, SetInduction
<1>14. g[0] = h[0]
  <2>1. n \in R /\ n - n = 0 /\ n <= n
    BY <1>2, <1>13
  <2> QED BY <2>1 DEF R
<1> QED BY <1>1, <1>2, <1>5, <1>14

(* A value at the end of any chain of links: no secret is shown, unless    *)
(* inside an object that is not looked into, and nothing else is withheld  *)
(* but for its depth.                                                      *)
LEMMA SecretsDoStayOut ==
    ASSUME NEW key, NEW links, Len(links) \in Nat,
           DOMAIN links = 1..Len(links)
    PROVE  SecretsStayOut(key, links)
<1> DEFINE n == Len(links)
           e == FirstEnd(links, 0)
           Opaque(i) == \E j \in 1..i : links[j].via = "object"
           secret == IsSensitiveKey(key) \/
                       \E i \in DOMAIN links :
                          /\ ~Opaque(i) /\ Named(links[i])
                          /\ IsSensitiveKey(links[i].name)
           fate == RedactSensitiveData(key, links)
<1>1. n \in Nat /\ DOMAIN links = 1..n
  OBVIOUS
<1>2. /\ e \in 0..n /\ EndsAt(links, e)
      /\ \A j \in 0..n : EndsAt(links, j) => e <= j
  BY <1>1, FirstEndIs
<1>3. RedactValue(links) = FateAt(links, e)
  BY <1>1, FateIsOfFirstEnd
<1>4. fate = IF IsSensitiveKey(key) THEN "redacted" ELSE FateAt(links, e)
  BY <1>3 DEF RedactSensitiveData
<1> HIDE DEF e
<1>9. e \in Int /\ 0 <= e /\ e <= n
  BY <1>1, <1>2
<1>5. ASSUME secret, ~IsSensitiveKey(key) PROVE FateAt(links, e) # "shown"
  <2>1. PICK i \in 1..n : /\ ~Opaque(i) /\ Named(links[i])
                          /\ IsSensitiveKey(links[i].name)
    BY <1>1, <1>5
  <2>2. i - 1 \in 0..n /\ (i - 1) + 1 = i /\ EndsAt(links, i - 1)
    BY <1>1, <2>1 DEF EndsAt
  <2>3. e <= i - 1 /\ e # n /\ e + 1 \in 1..i
    <3>1. e <= i - 1
      BY <1>2, <2>2
    <3> HIDE DEF n
    <3> QED BY <1>1, <1>9, <3>1
  <2>4. links[e + 1].via # "object"
    BY <2>1, <2>3
  <2> QED BY <2>3, <2>4 DEF FateAt
<1>6. ASSUME FateAt(links, e) = "redacted" PROVE secret
  <2>1. /\ ~(e >= MAX_REDACTION_DEPTH) /\ e # n
        /\ links[e + 1].via # "object"
    BY <1>6 DEF FateAt
  <2>2. Named(links[e + 1]) /\ IsSensitiveKey(links[e + 1].name)
    BY <1>2, <2>1 DEF EndsAt
  <2>3. e + 1 \in 1..n
    <3>1. e # n
      BY <2>1
    <3> HIDE DEF n
    <3> QED BY <1>1, <1>9, <3>1
  <2>4. ~Opaque(e + 1)
    <3> SUFFICES ASSUME NEW j \in 1..(e + 1), links[j].via = "object"
                 PROVE  FALSE
      OBVIOUS
    <3>1. j - 1 \in 0..n /\ (j - 1) + 1 = j
      BY <1>1, <2>3
    <3>2. EndsAt(links, j - 1)
      BY <3>1 DEF EndsAt
    <3>3. j = e + 1
      BY <1>2, <3>1, <3>2
    <3> QED BY <2>1, <3>3
  <2> QED BY <1>1, <2>2, <2>3, <2>4
<1>7. ASSUME FateAt(links, e) = "truncated" PROVE n >= MAX_REDACTION_DEPTH
  <2>1. e >= MAX_REDACTION_DEPTH
    BY <1>7 DEF FateAt
  <2> QED BY <1>1, <1>2, <2>1, DepthIsNatural
<1>8. /\ secret => fate # "shown"
      /\ fate = "redacted" => secret
      /\ fate = "truncated" => n >= MAX_REDACTION_DEPTH
  <2> HIDE DEF fate, n
  <2> QED BY <1>4, <1>5, <1>6, <1>7
<1> QED BY <1>8 DEF SecretsStayOut

-----------------------------------------------------------------------------
(***************************************************************************)
(* The allowlists of the collections.                                      *)
(***************************************************************************)
\* What may not leave as a whole, and what holds such parts.
NeverWhole == {"password", "refreshToken", "phone", "email", "dob",
               "isAdmin", "searchHistory", "monthlyRevenue",
               "yearlyRevenue", "payoutDestination", "usedBy",
               "embeddingHash", "payment", "buyerNote", "sellerNote",
               "location", "stepData", "refreshTokenExpiry", "countryCode",
               "globalBargainSettings", "line1", "line2", "coordinates"}
NeverInside == {"sellerProfile", "deliveryAddress", "invoice"}
Reserved == NeverWhole \union NeverInside \union {"_id"}

\* The parts that are listed.
Parts == {<<"invoice", "url">>, <<"invoice", "generatedAt">>,
          <<"deliveryAddress", "city">>, <<"deliveryAddress", "state">>,
          <<"sellerProfile", "businessName">>}

Single(p) == p = <<p[1]>> /\ p[1] \notin Reserved
Blameless(list) ==
    /\ IsList(list)
    /\ \A i \in DOMAIN list : Single(list[i]) \/ list[i] \in Parts

LEMMA PartsAre ==
    \A p \in Parts : Len(p) = 2 /\ p = <<p[1], p[2]>> /\ p[1] \in NeverInside
BY DEF Parts, NeverInside

LEMMA BlamelessIsAList ==
    ASSUME NEW list, Blameless(list)
    PROVE  IsFieldList(list)
<1> DEFINE P == ToSet(list)
           T == {p[1] : p \in P} \union {p[2] : p \in P}
<1> DEFINE n == Len(list)
<1>1. /\ n \in Nat /\ DOMAIN list = 1..n
      /\ list = [i \in 1..n |-> list[i]]
  BY DEF Blameless, IsList
<1>2. ASSUME NEW i \in 1..n PROVE list[i] \in PathsOver(T)
  <2> DEFINE p == list[i]
  <2>1. p[1] \in T /\ p[2] \in T
    BY <1>1 DEF ToSet
  <2>2. p = <<p[1]>> \/ p = <<p[1], p[2]>>
    BY <1>1, PartsAre DEF Blameless, Single
  <2> HIDE DEF T, p
  <2>3. <<p[1]>> \in PathsOver(T) /\ <<p[1], p[2]>> \in PathsOver(T)
    BY <2>1 DEF PathsOver
  <2> QED BY <2>2, <2>3 DEF p
<1> HIDE DEF T
<1>3. list \in [1..n -> PathsOver(T)]
  <2> HIDE DEF n
  <2> QED BY <1>1, <1>2
<1>4. list \in Seq(PathsOver(T))
  BY <1>1, <1>3
<1> QED BY <1>4 DEF IsFieldList

LEMMA ListsAreBlameless ==
    /\ Blameless(ORDERS)
    /\ Blameless(PRODUCTS)
    /\ Blameless(BARGAINS)
    /\ Blameless(CARTS)
    /\ Blameless(COUPONS)
    /\ Blameless(LIVESESSIONS)
    /\ Blameless(BITS)
    /\ Blameless(REVIEWS)
    /\ Blameless(ADDRESSES)
    /\ Blameless(NOTIFICATIONS)
    /\ Blameless(USERS)
    /\ Blameless(PAYOUTS)
    /\ Blameless(CATEGORIES)
    /\ Blameless(PRODUCTVIEWS)
    /\ Blameless(PRODUCT_EMBEDDINGS)
<1>1. Blameless(ORDERS)
  <2>1. DOMAIN ORDERS = 1..18 /\ ORDERS \in Seq({ORDERS[i] : i \in 1..18})
    BY DEF ORDERS, Flat, Dates
  <2>2. \A i \in 1..14 : ORDERS[i] = <<ORDERS[i][1]>> /\ ORDERS[i][1] \notin Reserved
    BY DEF ORDERS, Flat, Dates, Reserved, NeverWhole, NeverInside
  <2>3. \A i \in 15..18 : ORDERS[i] \in Parts
    BY DEF ORDERS, Flat, Dates, Parts
  <2>4. \A i \in 1..18 : i \in 1..14 \/ i \in 15..18
    OBVIOUS
  <2> QED BY <2>1, <2>2, <2>3, <2>4 DEF Blameless, Single, IsList
<1>2. Blameless(PRODUCTS)
  <2>1. DOMAIN PRODUCTS = 1..28 /\ PRODUCTS \in Seq({PRODUCTS[i] : i \in 1..28})
    BY DEF PRODUCTS, Flat, Dates
  <2>2. \A i \in 1..28 : PRODUCTS[i] = <<PRODUCTS[i][1]>> /\ PRODUCTS[i][1] \notin Reserved
    BY DEF PRODUCTS, Flat, Dates, Reserved, NeverWhole, NeverInside
  <2> QED BY <2>1, <2>2 DEF Blameless, Single, IsList
<1>3. Blameless(BARGAINS)
  <2>1. DOMAIN BARGAINS = 1..18 /\ BARGAINS \in Seq({BARGAINS[i] : i \in 1..18})
    BY DEF BARGAINS, Flat, Dates
  <2>2. \A i \in 1..18 : BARGAINS[i] = <<BARGAINS[i][1]>> /\ BARGAINS[i][1] \notin Reserved
    BY DEF BARGAINS, Flat, Dates, Reserved, NeverWhole, NeverInside
  <2> QED BY <2>1, <2>2 DEF Blameless, Single, IsList
<1>4. Blameless(CARTS)
  <2>1. DOMAIN CARTS = 1..7 /\ CARTS \in Seq({CARTS[i] : i \in 1..7})
    BY DEF CARTS, Flat, Dates
  <2>2. \A i \in 1..7 : CARTS[i] = <<CARTS[i][1]>> /\ CARTS[i][1] \notin Reserved
    BY DEF CARTS, Flat, Dates, Reserved, NeverWhole, NeverInside
  <2> QED BY <2>1, <2>2 DEF Blameless, Single, IsList
<1>5. Blameless(COUPONS)
  <2>1. DOMAIN COUPONS = 1..16 /\ COUPONS \in Seq({COUPONS[i] : i \in 1..16})
    BY DEF COUPONS, Flat, Dates
  <2>2. \A i \in 1..16 : COUPONS[i] = <<COUPONS[i][1]>> /\ COUPONS[i][1] \notin Reserved
    BY DEF COUPONS, Flat, Dates, Reserved, NeverWhole, NeverInside
  <2> QED BY <2>1, <2>2 DEF Blameless, Single, IsList
<1>6. Blameless(LIVESESSIONS)
  <2>1. DOMAIN LIVESESSIONS = 1..23 /\ LIVESESSIONS \in Seq({LIVESESSIONS[i] : i \in 1..23})
    BY DEF LIVESESSIONS, Flat, Dates
  <2>2. \A i \in 1..23 : LIVESESSIONS[i] = <<LIVESESSIONS[i][1]>> /\ LIVESESSIONS[i][1] \notin Reserved
    BY DEF LIVESESSIONS, Flat, Dates, Reserved, NeverWhole, NeverInside
  <2> QED BY <2>1, <2>2 DEF Blameless, Single, IsList
<1>7. Blameless(BITS)
  <2>1. DOMAIN BITS = 1..13 /\ BITS \in Seq({BITS[i] : i \in 1..13})
    BY DEF BITS, Flat, Dates
  <2>2. \A i \in 1..13 : BITS[i] = <<BITS[i][1]>> /\ BITS[i][1] \notin Reserved
    BY DEF BITS, Flat, Dates, Reserved, NeverWhole, NeverInside
  <2> QED BY <2>1, <2>2 DEF Blameless, Single, IsList
<1>8. Blameless(REVIEWS)
  <2>1. DOMAIN REVIEWS = 1..5 /\ REVIEWS \in Seq({REVIEWS[i] : i \in 1..5})
    BY DEF REVIEWS, Flat, Dates
  <2>2. \A i \in 1..5 : REVIEWS[i] = <<REVIEWS[i][1]>> /\ REVIEWS[i][1] \notin Reserved
    BY DEF REVIEWS, Flat, Dates, Reserved, NeverWhole, NeverInside
  <2> QED BY <2>1, <2>2 DEF Blameless, Single, IsList
<1>9. Blameless(ADDRESSES)
  <2>1. DOMAIN ADDRESSES = 1..7 /\ ADDRESSES \in Seq({ADDRESSES[i] : i \in 1..7})
    BY DEF ADDRESSES, Flat, Dates
  <2>2. \A i \in 1..7 : ADDRESSES[i] = <<ADDRESSES[i][1]>> /\ ADDRESSES[i][1] \notin Reserved
    BY DEF ADDRESSES, Flat, Dates, Reserved, NeverWhole, NeverInside
  <2> QED BY <2>1, <2>2 DEF Blameless, Single, IsList
<1>10. Blameless(NOTIFICATIONS)
  <2>1. DOMAIN NOTIFICATIONS = 1..8 /\ NOTIFICATIONS \in Seq({NOTIFICATIONS[i] : i \in 1..8})
    BY DEF NOTIFICATIONS, Flat, Dates
  <2>2. \A i \in 1..8 : NOTIFICATIONS[i] = <<NOTIFICATIONS[i][1]>> /\ NOTIFICATIONS[i][1] \notin Reserved
    BY DEF NOTIFICATIONS, Flat, Dates, Reserved, NeverWhole, NeverInside
  <2> QED BY <2>1, <2>2 DEF Blameless, Single, IsList
<1>11. Blameless(USERS)
  <2>1. DOMAIN USERS = 1..15 /\ USERS \in Seq({USERS[i] : i \in 1..15})
    BY DEF USERS, Flat, Dates
  <2>2. \A i \in 1..14 : USERS[i] = <<USERS[i][1]>> /\ USERS[i][1] \notin Reserved
    BY DEF USERS, Flat, Dates, Reserved, NeverWhole, NeverInside
  <2>3. \A i \in 15..15 : USERS[i] \in Parts
    BY DEF USERS, Flat, Dates, Parts
  <2>4. \A i \in 1..15 : i \in 1..14 \/ i \in 15..15
    OBVIOUS
  <2> QED BY <2>1, <2>2, <2>3, <2>4 DEF Blameless, Single, IsList
<1>12. Blameless(PAYOUTS)
  <2>1. DOMAIN PAYOUTS = 1..9 /\ PAYOUTS \in Seq({PAYOUTS[i] : i \in 1..9})
    BY DEF PAYOUTS, Flat, Dates
  <2>2. \A i \in 1..9 : PAYOUTS[i] = <<PAYOUTS[i][1]>> /\ PAYOUTS[i][1] \notin Reserved
    BY DEF PAYOUTS, Flat, Dates, Reserved, NeverWhole, NeverInside
  <2> QED BY <2>1, <2>2 DEF Blameless, Single, IsList
<1>13. Blameless(CATEGORIES)
  <2>1. DOMAIN CATEGORIES = 1..4 /\ CATEGORIES \in Seq({CATEGORIES[i] : i \in 1..4})
    BY DEF CATEGORIES, Flat, Dates
  <2>2. \A i \in 1..4 : CATEGORIES[i] = <<CATEGORIES[i][1]>> /\ CATEGORIES[i][1] \notin Reserved
    BY DEF CATEGORIES, Flat, Dates, Reserved, NeverWhole, NeverInside
  <2> QED BY <2>1, <2>2 DEF Blameless, Single, IsList
<1>14. Blameless(PRODUCTVIEWS)
  <2>1. DOMAIN PRODUCTVIEWS = 1..5 /\ PRODUCTVIEWS \in Seq({PRODUCTVIEWS[i] : i \in 1..5})
    BY DEF PRODUCTVIEWS, Flat, Dates
  <2>2. \A i \in 1..5 : PRODUCTVIEWS[i] = <<PRODUCTVIEWS[i][1]>> /\ PRODUCTVIEWS[i][1] \notin Reserved
    BY DEF PRODUCTVIEWS, Flat, Dates, Reserved, NeverWhole, NeverInside
  <2> QED BY <2>1, <2>2 DEF Blameless, Single, IsList
<1>15. Blameless(PRODUCT_EMBEDDINGS)
  <2>1. DOMAIN PRODUCT_EMBEDDINGS = 1..1 /\ PRODUCT_EMBEDDINGS \in Seq({PRODUCT_EMBEDDINGS[i] : i \in 1..1})
    BY DEF PRODUCT_EMBEDDINGS, Flat, Dates
  <2>2. \A i \in 1..1 : PRODUCT_EMBEDDINGS[i] = <<PRODUCT_EMBEDDINGS[i][1]>> /\ PRODUCT_EMBEDDINGS[i][1] \notin Reserved
    BY DEF PRODUCT_EMBEDDINGS, Flat, Dates, Reserved, NeverWhole, NeverInside
  <2> QED BY <2>1, <2>2 DEF Blameless, Single, IsList
<1> QED
  BY <1>1, <1>2, <1>3, <1>4, <1>5, <1>6, <1>7, <1>8,
     <1>9, <1>10, <1>11, <1>12, <1>13, <1>14, <1>15

LEMMA AllowedIsBlameless == \A name \in DOMAIN Allowed : Blameless(Allowed[name])
<1> TAKE name \in DOMAIN Allowed
<1>1. \/ Allowed[name] = ORDERS \/ Allowed[name] = PRODUCTS
      \/ Allowed[name] = BARGAINS \/ Allowed[name] = CARTS
      \/ Allowed[name] = COUPONS \/ Allowed[name] = LIVESESSIONS
      \/ Allowed[name] = BITS \/ Allowed[name] = REVIEWS
      \/ Allowed[name] = ADDRESSES \/ Allowed[name] = NOTIFICATIONS
      \/ Allowed[name] = USERS \/ Allowed[name] = PAYOUTS
      \/ Allowed[name] = CATEGORIES \/ Allowed[name] = PRODUCTVIEWS
      \/ Allowed[name] = PRODUCT_EMBEDDINGS
  BY DEF Allowed
<1> QED BY <1>1, ListsAreBlameless

LEMMA NeverAre ==
    \A p \in NEVER :
        \/ Len(p) = 1 /\ p[1] \in NeverWhole
        \/ /\ Len(p) = 2 /\ p = <<p[1], p[2]>>
           /\ p[1] \in NeverInside /\ p \notin Parts
BY DEF NEVER, NeverWhole, NeverInside, Parts

LEMMA NeverApart == NeverWhole \intersect NeverInside = {}
                    /\ "_id" \notin NeverWhole \union NeverInside
BY DEF NeverWhole, NeverInside

(* By a blameless list no field goes out that the comments exclude, of any *)
(* document, and none is asked for along with a part of it.                *)
LEMMA ForbiddenDoesStayIn ==
    ASSUME NEW list, Blameless(list), NEW doc, NEW p \in NEVER,
           p[1] \in DOMAIN Sanitize(list, doc)
    PROVE  Len(p) = 2 /\ p[2] \notin Sanitize(list, doc)[p[1]].subs
<1> DEFINE t == Tree(list)
           f == p[1]
           left == Sanitize(list, doc)
<1>1. IsFieldList(list)
  BY BlamelessIsAList
<1>2. /\ DOMAIN left = DOMAIN doc \intersect (DOMAIN t \union {"_id"})
      /\ \A x \in DOMAIN left :
            left[x] = IF x \in DOMAIN t
                      THEN SanitizeValue(doc[x], t[x]) ELSE doc[x]
  BY DEF Sanitize
<1>3. /\ DOMAIN t = {q[1] : q \in ToSet(list)}
      /\ \A x \in DOMAIN t :
            /\ t[x].open \in BOOLEAN
            /\ t[x].open => Listed(list, x)
            /\ ~t[x].open => t[x].subs = ListedIn(list, x)
  BY <1>1, TreeIsRight
<1>4. \A q \in ToSet(list) : Single(q) \/ q \in Parts
  BY DEF Blameless, ToSet
<1>5. f \in NeverWhole \union NeverInside
  BY NeverAre
<1> HIDE DEF t, left
<1>6. f \in DOMAIN left
  BY DEF left
<1> HIDE DEF f
<1>7. f \in DOMAIN t /\ left[f] = SanitizeValue(doc[f], t[f])
  BY <1>2, <1>5, <1>6, NeverApart
<1>8. PICK q \in ToSet(list) : q[1] = f
  BY <1>3, <1>7
<1>9. q \in Parts /\ f \in NeverInside
  BY <1>4, <1>5, <1>8, PartsAre DEF Single, Reserved
<1>10. Len(p) = 2 /\ p = <<f, p[2]>> /\ p \notin Parts
  BY <1>9, NeverAre, NeverApart DEF f
<1>11. ~t[f].open
  <2> SUFFICES ASSUME Listed(list, f) PROVE FALSE
    BY <1>3, <1>7
  <2>1. <<f>> \in ToSet(list) /\ <<f>>[1] = f /\ Len(<<f>>) = 1
    BY DEF Listed
  <2>2. <<f>> \notin Parts
    BY <2>1, PartsAre
  <2> QED BY <1>4, <1>5, <2>1, <2>2 DEF Single, Reserved
<1>12. p[2] \notin t[f].subs
  <2> SUFFICES ASSUME p[2] \in ListedIn(list, f) PROVE FALSE
    BY <1>3, <1>7, <1>11
  <2>1. PICK r \in ToSet(list) : Len(r) = 2 /\ r[1] = f /\ r[2] = p[2]
    BY DEF ListedIn
  <2>2. r \in Parts
    BY <1>4, <1>5, <2>1 DEF Single, Reserved
  <2>3. r = <<f, p[2]>>
    BY <2>1, <2>2, PartsAre
  <2> QED BY <1>10, <2>2, <2>3
<1>13. p[2] \notin left[f].subs
  <2>1. CASE doc[f].kind = "object"
    <3>1. left[f] = Object(doc[f].subs \intersect t[f].subs)
      BY <1>7, <1>11, <2>1, LeftOfValue
    <3> QED BY <1>12, <3>1, ObjectFields
  <2>2. CASE doc[f].kind # "object"
    <3>1. left[f] = Null
      BY <1>7, <1>11, <2>2, LeftOfValue
    <3> QED BY <3>1, ObjectFields
  <2> QED BY <2>1, <2>2
<1> QED BY <1>10, <1>13 DEF f, left

LEMMA PartsDoNotCollide ==
    ASSUME NEW list, Blameless(list), NEW p \in ToSet(list),
           NEW q \in ToSet(list), p[1] = q[1]
    PROVE  Len(p) = Len(q)
<1>1. \A r \in ToSet(list) :
         \/ Len(r) = 1 /\ r[1] \notin NeverInside
         \/ Len(r) = 2 /\ r[1] \in NeverInside
  <2> TAKE r \in ToSet(list)
  <2>1. Single(r) \/ r \in Parts
    BY DEF Blameless, ToSet
  <2>2. ASSUME Single(r) PROVE Len(r) = 1 /\ r[1] \notin NeverInside
    <3>1. r = <<r[1]>>
      BY <2>2 DEF Single
    <3>2. Len(<<r[1]>>) = 1
      OBVIOUS
    <3> QED BY <2>2, <3>1, <3>2 DEF Single, Reserved
  <2> QED BY <2>1, <2>2, PartsAre
<1> QED BY <1>1

-----------------------------------------------------------------------------
PaperInv ==
    /\ About("document") => IsFieldList(subject.fields)
    /\ About("collection") => subject.name \in DOMAIN Allowed
    /\ About("log") => /\ Len(subject.links) \in Nat
                       /\ DOMAIN subject.links = 1..Len(subject.links)

LEMMA PathsAreFieldLists ==
    \A fields \in SeqOf(Paths, 3) : IsFieldList(fields)
<1> TAKE fields \in SeqOf(Paths, 3)
<1>1. PICK m \in 0..3 : fields \in [1..m -> Paths]
  BY DEF SeqOf
<1>2. Paths \subseteq PathsOver({"a", "b", "x", "y"})
  BY DEF Paths, PathsOver
<1> HIDE DEF Paths
<1>3. fields \in Seq(PathsOver({"a", "b", "x", "y"}))
  BY <1>1, <1>2
<1> QED BY <1>3 DEF IsFieldList

LEMMA PapersHaveTheirFields == Spec => []PaperInv
<1>1. Init => PaperInv
  BY DEF Init, PaperInv, About
<1>2. Shape /\ PaperInv /\ [Next]_subject => PaperInv'
  <2> SUFFICES ASSUME Shape, PaperInv, [Next]_subject
               PROVE  PaperInv'
    OBVIOUS
  <2>1. CASE UNCHANGED subject
    BY <2>1 DEF PaperInv, About
  <2>2. CASE Document
    <3>1. PICK fields \in SeqOf(Paths, 3) : \E doc :
            subject' = [of |-> "document", fields |-> fields, doc |-> doc]
      BY <2>2, Zenon DEF Document
    <3>3. PICK doc :
            subject' = [of |-> "document", fields |-> fields, doc |-> doc]
      BY <3>1
    <3>2. subject'.of = "document" /\ subject'.fields = fields
      BY <3>3
    <3> QED BY <3>2, PathsAreFieldLists DEF PaperInv, About
  <2>3. CASE Collection
    <3>1. PICK n \in DOMAIN Allowed :
             subject' = [of |-> "collection", name |-> n]
      BY <2>3 DEF Collection
    <3>2. subject'.of = "collection" /\ subject'.name \in DOMAIN Allowed
      BY <3>1
    <3> QED BY <3>2 DEF PaperInv, About
  <2>4. CASE LogLine
    <3>1. PICK k \in Names, ls \in SeqOf(Links, MAX_REDACTION_DEPTH + 1) :
             subject' = [of |-> "log", key |-> k, links |-> ls]
      BY <2>4, Zenon DEF LogLine
    <3>2. subject'.of = "log" /\ subject'.links = ls
      BY <3>1
    <3>3. PICK m \in 0..(MAX_REDACTION_DEPTH + 1) : ls \in [1..m -> Links]
      BY DEF SeqOf
    <3>4. m \in Nat /\ ls \in Seq(Links)
      BY <3>3, DepthIsNatural
    <3>5. Len(ls) \in Nat /\ DOMAIN ls = 1..Len(ls)
      BY <3>4
    <3> QED BY <3>2, <3>5 DEF PaperInv, About
  <2>5. CASE Next
    <3>1. Origin
      BY <2>5, EveryStepHasItsOrigin
    <3>2. /\ subject'.of = "document" => Document
          /\ subject'.of = "collection" => Collection
          /\ subject'.of = "log" => LogLine
      BY <3>1 DEF Origin
    <3> QED BY <2>2, <2>3, <2>4, <3>2 DEF PaperInv, About
  <2> QED BY <2>1, <2>5
<1> QED BY <1>1, <1>2, EverySubjectHasItsShape, PTL DEF Spec

(* No field leaves that is not listed, of any document and by any list;    *)
(* what is listed is not lost on the way; the fields the comments exclude  *)
(* leave no collection; and no secret goes into the log.                   *)
THEOREM ListedIsAllThatLeaves == Spec => []OnlyListedLeaves
<1>1. PaperInv => OnlyListedLeaves
  <2> SUFFICES ASSUME PaperInv PROVE OnlyListedLeaves
    OBVIOUS
  <2>1. ASSUME About("document")
        PROVE  /\ NothingUnlisted(subject.fields, subject.doc)
               /\ ListedStays(subject.fields, subject.doc)
               /\ ProjectionLosesNothing(subject.fields, subject.doc)
    <3>1. IsFieldList(subject.fields)
      BY <2>1 DEF PaperInv
    <3> QED BY <3>1, NothingUnlistedLeaves, WhatIsListedStays,
              NothingIsLostInProjection
  <2>2. ASSUME About("collection")
        PROVE  ForbiddenStaysIn /\ NoCollision
    <3>1. Blameless(Allowed[subject.name])
      BY <2>2, AllowedIsBlameless DEF PaperInv
    <3>2. ForbiddenStaysIn
      BY <3>1, ForbiddenDoesStayIn DEF ForbiddenStaysIn
    <3>3. NoCollision
      BY <3>1, PartsDoNotCollide DEF NoCollision
    <3> QED BY <3>2, <3>3
  <2>3. ASSUME About("log")
        PROVE  SecretsStayOut(subject.key, subject.links)
    BY <2>3, SecretsDoStayOut DEF PaperInv
  <2> QED BY <2>1, <2>2, <2>3 DEF OnlyListedLeaves
<1> QED BY <1>1, PapersHaveTheirFields, PTL

-----------------------------------------------------------------------------
(***************************************************************************)
(* A reply put together.                                                   *)
(***************************************************************************)
\* What a reply is after each of the first n frames.
FramesRun(f, frames, n) ==
    f[0] = NoReply /\ \A i \in 1..n : f[i] = AddFrame(f[i - 1], frames[i])

LEMMA FramesRunThrough ==
    ASSUME NEW frames
    PROVE  \A k \in Nat : \E f :
              f = [i \in 0..k |->
                     IF i = 0 THEN NoReply ELSE AddFrame(f[i - 1], frames[i])]
<1> DEFINE Loop(f, k) ==
               [i \in 0..k |->
                  IF i = 0 THEN NoReply ELSE AddFrame(f[i - 1], frames[i])]
           R == {k \in Nat : \E f : f = Loop(f, k)}
<1>1. 0 \in R
  <2> DEFINE g == [i \in 0..0 |-> NoReply]
  <2>1. g = Loop(g, 0)
    OBVIOUS
  <2> HIDE DEF g, Loop
  <2> QED BY <2>1
<1>2. ASSUME NEW k \in Nat, k \in R PROVE k + 1 \in R
  <2>1. PICK f : f = Loop(f, k)
    <3> HIDE DEF Loop
    <3> QED BY <1>2
  <2> DEFINE next == AddFrame(f[k], frames[k + 1])
             g == [i \in 0..(k + 1) |-> IF i = k + 1 THEN next ELSE f[i]]
  <2>2. f[0] = NoReply /\ \A i \in 1..k : f[i] = AddFrame(f[i - 1], frames[i])
    <3> DEFINE h == Loop(f, k)
    <3>1. h[0] = NoReply /\ \A i \in 1..k : h[i] = AddFrame(f[i - 1], frames[i])
      OBVIOUS
    <3> HIDE DEF h
    <3>2. f = h
      BY <2>1 DEF h
    <3> QED BY <3>1, <3>2
  <2> HIDE DEF next
  <2>3. /\ g[k + 1] = next /\ \A i \in 0..k : g[i] = f[i]
        /\ g = [i \in 0..(k + 1) |-> g[i]]
    OBVIOUS
  <2> HIDE DEF g
  <2>4. ASSUME NEW i \in 0..(k + 1)
        PROVE  g[i] = IF i = 0 THEN NoReply ELSE AddFrame(g[i - 1], frames[i])
    <3>1. CASE i = 0
      BY <3>1, <2>2, <2>3
    <3>2. CASE i # 0 /\ i # k + 1
      <4>1. i \in 1..k /\ i \in 0..k /\ i - 1 \in 0..k
        BY <3>2
      <4> QED BY <3>2, <4>1, <2>2, <2>3
    <3>3. CASE i = k + 1
      <4>1. i - 1 = k /\ i - 1 \in 0..k /\ i # 0
        BY <3>3
      <4> QED BY <3>3, <4>1, <2>3 DEF next
    <3> QED BY <3>1, <3>2, <3>3
  <2>5. g = Loop(g, k + 1)
    BY <2>3, <2>4
  <2> HIDE DEF Loop
  <2> QED BY <2>5
<1> HIDE DEF R
<1>3. Nat \subseteq R
  BY <1>1, <1>2, SetInduction
<1>4. \A k \in Nat : \E f : f = Loop(f, k)
  <2> HIDE DEF Loop
  <2> QED BY <1>3 DEF R
<1> QED BY <1>4

LEMMA AssembledRuns ==
    ASSUME NEW frames, Len(frames) \in Nat
    PROVE  \E f : /\ FramesRun(f, frames, Len(frames))
                  /\ Assembled(frames) = f[Len(frames)]
<1> DEFINE L == Len(frames)
           Loop(f) ==
               [i \in 0..L |->
                  IF i = 0 THEN NoReply ELSE AddFrame(f[i - 1], frames[i])]
           g == CHOOSE f : f = Loop(f)
<1>1. Assembled(frames) = g[L]
  BY DEF Assembled
<1>2. L \in Nat
  OBVIOUS
<1>3. \E f : f = Loop(f)
  <2> HIDE DEF L
  <2> QED BY <1>2, FramesRunThrough
<1>4. g = Loop(g)
  <2> HIDE DEF Loop
  <2> QED BY <1>3
<1> HIDE DEF L, g
<1>5. g[0] = NoReply /\ \A i \in 1..L : g[i] = AddFrame(g[i - 1], frames[i])
  <2> DEFINE h == Loop(g)
  <2>1. h[0] = NoReply /\ \A i \in 1..L : h[i] = AddFrame(g[i - 1], frames[i])
    BY <1>2
  <2> HIDE DEF h
  <2>2. g = h
    BY <1>4 DEF h
  <2> QED BY <2>1, <2>2
<1>6. FramesRun(g, frames, L)
  BY <1>5 DEF FramesRun
<1> QED BY <1>1, <1>6 DEF L

\* As long as the frames are the same, so is the reply.
LEMMA SameFramesSameReply ==
    ASSUME NEW n \in Nat, NEW f, NEW g, NEW frames, NEW more,
           FramesRun(f, frames, n), FramesRun(g, more, n),
           \A i \in 1..n : frames[i] = more[i]
    PROVE  f[n] = g[n]
<1> DEFINE R == {i \in Nat : i <= n => f[i] = g[i]}
<1>1. 0 \in R
  BY DEF FramesRun
<1>2. ASSUME NEW i \in Nat, i \in R PROVE i + 1 \in R
  <2> SUFFICES ASSUME i + 1 <= n PROVE f[i + 1] = g[i + 1]
    OBVIOUS
  <2>1. i + 1 \in 1..n /\ (i + 1) - 1 = i /\ f[i] = g[i]
    BY <1>2
  <2>2. /\ f[i + 1] = AddFrame(f[(i + 1) - 1], frames[i + 1])
        /\ g[i + 1] = AddFrame(g[(i + 1) - 1], more[i + 1])
    BY <2>1 DEF FramesRun
  <2>3. frames[i + 1] = more[i + 1]
    BY <2>1
  <2> QED BY <2>1, <2>2, <2>3
<1> HIDE DEF R
<1>3. Nat \subseteq R
  BY <1>1, <1>2, SetInduction
<1> QED BY <1>3 DEF R

\* One frame more is added to what the others have made.
LEMMA AssembledAppend ==
    ASSUME NEW T, NEW frames \in Seq(T), NEW x \in T
    PROVE  Assembled(Append(frames, x)) = AddFrame(Assembled(frames), x)
<1> DEFINE L == Len(frames)
           more == Append(frames, x)
<1>1. /\ L \in Nat /\ Len(more) = L + 1 /\ Len(more) \in Nat
      /\ more[L + 1] = x /\ \A i \in 1..L : frames[i] = more[i]
  OBVIOUS
<1> HIDE DEF more
<1>2. PICK f : FramesRun(f, frames, L) /\ Assembled(frames) = f[L]
  BY <1>1, AssembledRuns
<1>3. PICK g : FramesRun(g, more, L + 1) /\ Assembled(more) = g[L + 1]
  BY <1>1, AssembledRuns
<1> HIDE DEF L
<1>4. L + 1 \in 1..(L + 1) /\ (L + 1) - 1 = L /\ \A i \in 1..L : i \in 1..(L + 1)
  BY <1>1
<1>5. FramesRun(g, more, L) /\ g[L + 1] = AddFrame(g[(L + 1) - 1], more[L + 1])
  BY <1>3, <1>4 DEF FramesRun
<1>6. f[L] = g[L]
  BY <1>1, <1>2, <1>5, SameFramesSameReply
<1>7. Assembled(more) = AddFrame(Assembled(frames), x)
  BY <1>1, <1>2, <1>3, <1>4, <1>5, <1>6
<1> QED BY <1>7 DEF more

LEMMA NothingAssembled == Assembled(<<>>) = NoReply
<1>1. Len(<<>>) = 0 /\ Len(<<>>) \in Nat
  OBVIOUS
<1>2. PICK f : FramesRun(f, <<>>, 0) /\ Assembled(<<>>) = f[0]
  BY <1>1, AssembledRuns
<1> QED BY <1>2 DEF FramesRun

-----------------------------------------------------------------------------
\* One fragment and two.
LEMMA OneFragment ==
    ASSUME NEW calls, NEW f
    PROVE  AddFragments(calls, <<f>>) = AddFragment(calls, f)
<1> DEFINE Loop(h) ==
               [i \in 0..Len(<<f>>) |->
                  IF i = 0 THEN calls ELSE AddFragment(h[i - 1], <<f>>[i])]
           g == CHOOSE h : h = Loop(h)
           run == [i \in 0..1 |->
                     IF i = 0 THEN calls ELSE AddFragment(calls, f)]
<1>0. Len(<<f>>) = 1 /\ <<f>>[1] = f
  OBVIOUS
<1>1. AddFragments(calls, <<f>>) = g[1]
  BY <1>0 DEF AddFragments
<1>2. run = Loop(run)
  <2>1. \A i \in 0..1 :
           run[i] = IF i = 0 THEN calls ELSE AddFragment(run[i - 1], <<f>>[i])
    <3>1. run[0] = calls /\ run[1] = AddFragment(calls, f) /\ 1 - 1 = 0
      OBVIOUS
    <3> HIDE DEF run
    <3>2. \A i \in 0..1 : i = 0 \/ i = 1
      OBVIOUS
    <3> QED BY <1>0, <3>1, <3>2
  <2>2. run = [i \in 0..1 |-> run[i]]
    OBVIOUS
  <2> HIDE DEF run
  <2> QED BY <1>0, <2>1, <2>2
<1>3. g = Loop(g)
  <2> HIDE DEF Loop, run
  <2> QED BY <1>2
<1> HIDE DEF g
<1>4. g[0] = calls /\ g[1] = AddFragment(g[0], f)
  <2> DEFINE h == Loop(g)
  <2>1. 1 - 1 = 0 /\ 0 \in 0..1 /\ 1 \in 0..1
    OBVIOUS
  <2>2. h[0] = calls /\ h[1] = AddFragment(g[0], f)
    BY <1>0, <2>1
  <2> HIDE DEF h
  <2>3. g = h
    BY <1>3 DEF h
  <2> QED BY <2>2, <2>3
<1> QED BY <1>1, <1>4

LEMMA TwoFragments ==
    ASSUME NEW calls, NEW f1, NEW f2
    PROVE  AddFragments(calls, <<f1, f2>>)
              = AddFragment(AddFragment(calls, f1), f2)
<1> DEFINE fs == <<f1, f2>>
           Loop(h) ==
               [i \in 0..Len(fs) |->
                  IF i = 0 THEN calls ELSE AddFragment(h[i - 1], fs[i])]
           g == CHOOSE h : h = Loop(h)
           half == AddFragment(calls, f1)
           run == [i \in 0..2 |->
                     IF i = 0 THEN calls
                     ELSE IF i = 1 THEN half ELSE AddFragment(half, f2)]
<1>0. Len(fs) = 2 /\ fs[1] = f1 /\ fs[2] = f2
  OBVIOUS
<1>1. AddFragments(calls, fs) = g[2]
  BY <1>0 DEF AddFragments
<1> HIDE DEF fs
<1>2. run = Loop(run)
  <2>1. \A i \in 0..2 :
           run[i] = IF i = 0 THEN calls ELSE AddFragment(run[i - 1], fs[i])
    <3>1. /\ run[0] = calls /\ run[1] = AddFragment(calls, f1)
          /\ run[2] = AddFragment(run[1], f2) /\ 1 - 1 = 0 /\ 2 - 1 = 1
      OBVIOUS
    <3> HIDE DEF run
    <3>2. \A i \in 0..2 : i = 0 \/ i = 1 \/ i = 2
      OBVIOUS
    <3> QED BY <1>0, <3>1, <3>2
  <2>2. run = [i \in 0..2 |-> run[i]]
    OBVIOUS
  <2> HIDE DEF run
  <2> QED BY <1>0, <2>1, <2>2
<1>3. g = Loop(g)
  <2> HIDE DEF Loop, run
  <2> QED BY <1>2
<1> HIDE DEF g, half
<1>4. /\ g[0] = calls /\ g[1] = AddFragment(g[0], f1)
      /\ g[2] = AddFragment(g[1], f2)
  <2> DEFINE h == Loop(g)
  <2>1. 1 - 1 = 0 /\ 2 - 1 = 1 /\ 0 \in 0..2 /\ 1 \in 0..2 /\ 2 \in 0..2
    OBVIOUS
  <2>2. /\ h[0] = calls /\ h[1] = AddFragment(g[0], f1)
        /\ h[2] = AddFragment(g[1], f2)
    BY <1>0, <2>1
  <2> HIDE DEF h
  <2>3. g = h
    BY <1>3 DEF h
  <2> QED BY <2>2, <2>3
<1> QED BY <1>1, <1>4 DEF fs

-----------------------------------------------------------------------------
\* A comprehension over one member more.
LEMMA OnlyAppend ==
    \A T : \A seq \in Seq(T), x \in T : \A S, U :
        (\A y \in ToSet(seq) : y \in S <=> y \in U)
        => Only(Append(seq, x), U)
              = IF x \in U THEN Append(Only(seq, S), x) ELSE Only(seq, S)
<1> SUFFICES ASSUME NEW T, NEW seq \in Seq(T), NEW x \in T, NEW S, NEW U,
                    \A y \in ToSet(seq) : y \in S <=> y \in U
             PROVE  Only(Append(seq, x), U)
                       = IF x \in U THEN Append(Only(seq, S), x)
                         ELSE Only(seq, S)
  OBVIOUS
<1> DEFINE L == Len(seq)
           more == Append(seq, x)
<1>1. /\ L \in Nat /\ more \in Seq(T) /\ Len(more) = L + 1
      /\ more[L + 1] = x /\ \A i \in 1..L : seq[i] = more[i]
  OBVIOUS
<1>2. \A i \in 1..L : seq[i] \in S <=> seq[i] \in U
  BY DEF ToSet
<1>3. PICK f \in [0..L -> Seq(T)] :
          Selecting(f, seq, S) /\ Only(seq, S) = f[L]
  BY OnlyRuns
<1>4. PICK g \in [0..(L + 1) -> Seq(T)] :
          Selecting(g, more, U) /\ Only(more, U) = g[L + 1]
  <2> HIDE DEF more
  <2> QED BY <1>1, OnlyRuns
<1> HIDE DEF more
<1> DEFINE R == {i \in Nat : i <= L => f[i] = g[i]}
<1>5. 0 \in R
  BY <1>3, <1>4 DEF Selecting
<1>6. ASSUME NEW i \in Nat, i \in R PROVE i + 1 \in R
  <2> SUFFICES ASSUME i + 1 <= L PROVE f[i + 1] = g[i + 1]
    OBVIOUS
  <2>1. /\ i + 1 \in 1..L /\ i + 1 \in 1..(L + 1) /\ (i + 1) - 1 = i
        /\ f[i] = g[i]
    BY <1>1, <1>6
  <2>2. f[i + 1] = IF seq[i + 1] \in S THEN Append(f[(i + 1) - 1], seq[i + 1])
                   ELSE f[(i + 1) - 1]
    BY <1>3, <2>1 DEF Selecting
  <2>3. g[i + 1] = IF more[i + 1] \in U
                   THEN Append(g[(i + 1) - 1], more[i + 1])
                   ELSE g[(i + 1) - 1]
    BY <1>1, <1>4, <2>1 DEF Selecting
  <2> HIDE DEF L
  <2> QED BY <1>1, <1>2, <2>1, <2>2, <2>3
<1> HIDE DEF R
<1>7. Nat \subseteq R
  BY <1>5, <1>6, SetInduction
<1>8. f[L] = g[L]
  BY <1>1, <1>7 DEF R
<1>9. L + 1 \in 1..(L + 1) /\ (L + 1) - 1 = L
  BY <1>1
<1>10. g[L + 1] = IF more[L + 1] \in U
                  THEN Append(g[(L + 1) - 1], more[L + 1])
                  ELSE g[(L + 1) - 1]
  BY <1>1, <1>4, <1>9 DEF Selecting
<1> HIDE DEF L
<1>11. Only(more, U) = IF x \in U THEN Append(Only(seq, S), x) ELSE Only(seq, S)
  BY <1>1, <1>3, <1>4, <1>8, <1>9, <1>10
<1> QED BY <1>11 DEF more

\* The words that are heard grow by those of each frame that has any.
LEMMA HeardAppend ==
    ASSUME NEW T, NEW frames \in Seq(T), NEW x \in T,
           NEW W, Heard(frames) \in Seq(W), x.kind = "words" => x.text \in W
    PROVE  Heard(Append(frames, x))
              = IF x.kind = "words" THEN Append(Heard(frames), x.text)
                ELSE Heard(frames)
<1> DEFINE more == Append(frames, x)
           S == {f \in ToSet(frames) : f.kind = "words"}
           U == {f \in ToSet(more) : f.kind = "words"}
           old == Only(frames, S)
           new == Only(more, U)
<1>1. ToSet(more) = ToSet(frames) \union {x}
  <2>1. /\ Len(more) = Len(frames) + 1 /\ more \in Seq(T)
        /\ more[Len(frames) + 1] = x
        /\ \A i \in 1..Len(frames) : more[i] = frames[i]
        /\ Len(frames) \in Nat
    OBVIOUS
  <2> HIDE DEF more
  <2>2. DOMAIN more = 1..(Len(frames) + 1) /\ DOMAIN frames = 1..Len(frames)
    BY <2>1
  <2>3. \A i \in 1..(Len(frames) + 1) :
            i \in 1..Len(frames) \/ i = Len(frames) + 1
    BY <2>1
  <2>4. \A i \in 1..Len(frames) : i \in 1..(Len(frames) + 1)
    BY <2>1
  <2>5. Len(frames) + 1 \in 1..(Len(frames) + 1)
    BY <2>1
  <2>6. \A y : y \in ToSet(more) <=> y \in ToSet(frames) \union {x}
    BY <2>1, <2>2, <2>3, <2>4, <2>5 DEF ToSet
  <2> QED BY <2>6
<1>2. \A y \in ToSet(frames) : y \in S <=> y \in U
  BY <1>1
<1>3. x \in U <=> x.kind = "words"
  BY <1>1
<1> HIDE DEF S, U
<1>4. new = IF x \in U THEN Append(old, x) ELSE old
  <2>1. /\ frames \in Seq(T) /\ x \in T
        /\ \A y \in ToSet(frames) : y \in S <=> y \in U
    BY <1>2
  <2>2. Only(Append(frames, x), U)
           = IF x \in U THEN Append(Only(frames, S), x) ELSE Only(frames, S)
    BY <2>1, OnlyAppend
  <2> QED BY <2>2
<1>5. old \in Seq(T)
  BY OnlyPicks
<1>6. Heard(frames) = [i \in DOMAIN old |-> old[i].text]
  BY DEF Heard, S
<1>7. Heard(more) = [i \in DOMAIN new |-> new[i].text]
  BY DEF Heard, U
<1> HIDE DEF old, new, more
<1>8. CASE x.kind = "words"
  <2>1. new = Append(old, x)
    BY <1>3, <1>4, <1>8
  <2>2. /\ DOMAIN old = 1..Len(old) /\ Len(old) \in Nat
        /\ DOMAIN new = 1..(Len(old) + 1)
        /\ new[Len(old) + 1] = x
        /\ \A i \in 1..Len(old) : new[i] = old[i]
    BY <1>5, <2>1
  <2> DEFINE h == Heard(frames)
             w == x.text
  <2>3. w \in W /\ h \in Seq(W)
    BY <1>8
  <2>4. /\ DOMAIN h = 1..Len(old)
        /\ \A i \in 1..Len(old) : h[i] = old[i].text
    BY <1>6, <2>2
  <2> HIDE DEF h
  <2>5. Len(h) = Len(old)
    BY <2>2, <2>3, <2>4
  <2>6. /\ DOMAIN Append(h, w) = 1..(Len(old) + 1)
        /\ Append(h, w)[Len(old) + 1] = w
        /\ \A i \in 1..Len(old) : Append(h, w)[i] = h[i]
        /\ Append(h, w) = [i \in 1..(Len(old) + 1) |-> Append(h, w)[i]]
    <3> DEFINE t == Append(h, w)
    <3> HIDE DEF w
    <3>1. /\ t \in Seq(W) /\ Len(t) = Len(old) + 1
          /\ t[Len(old) + 1] = w
          /\ \A i \in 1..Len(old) : t[i] = h[i]
      BY <2>2, <2>3, <2>5
    <3> HIDE DEF t
    <3>2. DOMAIN t = 1..(Len(old) + 1) /\ t = [i \in DOMAIN t |-> t[i]]
      BY <3>1
    <3> QED BY <3>1, <3>2 DEF t
  <2>7. \A i \in 1..(Len(old) + 1) : new[i].text = Append(h, w)[i]
    <3> TAKE i \in 1..(Len(old) + 1)
    <3>1. CASE i = Len(old) + 1
      BY <3>1, <2>2, <2>6
    <3>2. CASE i # Len(old) + 1
      <4>1. i \in 1..Len(old)
        BY <2>2, <3>2
      <4> QED BY <4>1, <2>2, <2>4, <2>6
    <3> QED BY <3>1, <3>2
  <2> HIDE DEF w
  <2>8. Heard(more) = Append(h, w)
    BY <1>7, <2>2, <2>6, <2>7
  <2> QED BY <1>8, <2>8 DEF h, w, more
<1>9. CASE x.kind # "words"
  <2>1. new = old
    BY <1>3, <1>4, <1>9
  <2> QED BY <1>6, <1>7, <1>9, <2>1 DEF more
<1> QED BY <1>8, <1>9

LEMMA NothingHeard == Heard(<<>>) = <<>>
<1> DEFINE S == {f \in ToSet(<<>>) : f.kind = "words"}
           old == Only(<<>>, S)
<1>1. <<>> \in Seq({}) /\ Len(<<>>) = 0
  OBVIOUS
<1>2. old = <<>>
  <2>1. PICK f \in [0..0 -> Seq({})] :
            Selecting(f, <<>>, S) /\ Only(<<>>, S) = f[0]
    <3>1. \E f \in [0..Len(<<>>) -> Seq({})] :
             Selecting(f, <<>>, S) /\ Only(<<>>, S) = f[Len(<<>>)]
      <4> HIDE DEF S
      <4> QED BY <1>1, OnlyRuns, Zenon
    <3> QED BY <1>1, <3>1
  <2> QED BY <2>1 DEF Selecting
<1>3. Heard(<<>>) = [i \in DOMAIN old |-> old[i].text]
  BY DEF Heard
<1> HIDE DEF old
<1>4. DOMAIN <<>> = {}
  OBVIOUS
<1> QED BY <1>2, <1>3, <1>4

-----------------------------------------------------------------------------
\* Counting from nought and counting from one.
LEMMA NthFromNought ==
    \A b \in Nat : \A P \in SUBSET (1..b), Q \in SUBSET (0..(b - 1)) :
        (\A i \in 0..(b - 1) : i \in Q <=> i + 1 \in P)
        => /\ Cardinality(Q) = Cardinality(P)
           /\ \A k \in P : Nth(Q, Cardinality(UpTo(P, k))) = k - 1
<1> SUFFICES ASSUME NEW b \in Nat, NEW P \in SUBSET (1..b),
                    NEW Q \in SUBSET (0..(b - 1)),
                    \A i \in 0..(b - 1) : i \in Q <=> i + 1 \in P
             PROVE  /\ Cardinality(Q) = Cardinality(P)
                    /\ \A k \in P : Nth(Q, Cardinality(UpTo(P, k))) = k - 1
  OBVIOUS
<1>1. /\ IsFiniteSet(P) /\ \A k \in Nat : IsFiniteSet(UpTo(P, k))
  BY LaterHasMore
<1>2. ASSUME NEW k \in Nat
      PROVE  Cardinality({j \in Q : j <= k - 1}) = Cardinality(UpTo(P, k))
  <2> DEFINE A == UpTo(P, k)
             B == {j \in Q : j <= k - 1}
             f == [i \in A |-> i - 1]
  <2>1. f \in [A -> B]
    <3>1. \A i \in A : i \in 1..b /\ i \in P /\ i <= k
      BY DEF UpTo
    <3>2. \A i \in A : /\ i - 1 \in 0..(b - 1) /\ (i - 1) + 1 = i
                       /\ i - 1 <= k - 1
      BY <3>1
    <3>3. \A i \in A : i - 1 \in B
      BY <3>1, <3>2
    <3> HIDE DEF A, B
    <3> QED BY <3>3
  <2>2. \A i, j \in A : f[i] = f[j] => i = j
    <3>1. \A i \in A : i \in Int
      BY DEF UpTo
    <3> HIDE DEF A
    <3> QED BY <3>1
  <2>3. \A j \in B : \E i \in A : f[i] = j
    <3> TAKE j \in B
    <3>1. j \in 0..(b - 1) /\ j \in Q /\ j <= k - 1
      OBVIOUS
    <3>2. j + 1 \in P /\ j + 1 <= k /\ (j + 1) - 1 = j
      BY <3>1
    <3>3. j + 1 \in A
      BY <3>2 DEF UpTo
    <3> WITNESS j + 1 \in A
    <3> QED BY <3>2, <3>3
  <2> HIDE DEF f, A, B
  <2>4. f \in Bijection(A, B)
    BY <2>1, <2>2, <2>3 DEF Bijection, Injection, Surjection, IsInjective
  <2>5. ExistsBijection(A, B)
    BY <2>4 DEF ExistsBijection
  <2>6. Cardinality(B) = Cardinality(A)
    BY <1>1, <2>5, FS_Bijection DEF A
  <2> QED BY <2>6 DEF A, B
<1>3. Cardinality(Q) = Cardinality(P)
  <2>1. {j \in Q : j <= b - 1} = Q /\ UpTo(P, b) = P
    <3>1. (\A j \in Q : j <= b - 1) /\ (\A j \in P : j <= b)
      OBVIOUS
    <3> QED BY <3>1 DEF UpTo
  <2>2. Cardinality({j \in Q : j <= b - 1}) = Cardinality(UpTo(P, b))
    BY <1>2
  <2> QED BY <2>1, <2>2
<1>4. ASSUME NEW k \in P
      PROVE  Nth(Q, Cardinality(UpTo(P, k))) = k - 1
  <2> DEFINE m == Cardinality(UpTo(P, k))
  <2>1. Nth(P, m) = k
    BY NthIsUnique
  <2>2. k - 1 \in Q /\ k \in Nat
    <3>1. k \in 1..b /\ k - 1 \in 0..(b - 1) /\ (k - 1) + 1 = k
      OBVIOUS
    <3> QED BY <3>1
  <2>3. Cardinality({j \in Q : j <= k - 1}) = m
    BY <1>2, <2>2
  <2>4. \A i \in Q : Cardinality({j \in Q : j <= i}) = m => i = k - 1
    <3> TAKE i \in Q
    <3>1. i \in 0..(b - 1) /\ i + 1 \in P /\ i + 1 \in Nat /\ (i + 1) - 1 = i
      OBVIOUS
    <3>2. Cardinality({j \in Q : j <= (i + 1) - 1})
             = Cardinality(UpTo(P, i + 1))
      BY <1>2, <3>1
    <3>3. Nth(P, Cardinality(UpTo(P, i + 1))) = i + 1
      BY <3>1, NthIsUnique
    <3> HIDE DEF m
    <3>4. Cardinality({j \in Q : j <= i}) = m => i + 1 = k
      BY <2>1, <3>1, <3>2, <3>3
    <3> QED BY <3>1, <3>4
  <2>5. Nth(Q, m) = CHOOSE i \in Q : Cardinality({j \in Q : j <= i}) = m
    BY DEF Nth
  <2> HIDE DEF m
  <2>6. Nth(Q, m) = k - 1
    BY <2>2, <2>3, <2>4, <2>5
  <2> QED BY <2>6 DEF m
<1> QED BY <1>3, <1>4

-----------------------------------------------------------------------------
(***************************************************************************)
(* A reply and the frames it is sent in.                                   *)
(***************************************************************************)
Ids == {<<"id", 0>>, <<"id", 1>>}
CallNames == {None, <<"search">>}
SaidCalls == [id : Ids, name : CallNames, arguments : Seq(Nat),
              extra : SUBSET {"signature"}]
Fragments == [index : Nat, id : Ids \union {None}, name : CallNames,
              arguments : Seq(Nat), extra : SUBSET {"signature"}]

\* The partial calls are the ones said so far, counted from nought.
Match(partial, calls) ==
    /\ DOMAIN partial = 0..(Len(calls) - 1)
    /\ \A i \in 1..Len(calls) : partial[i - 1] = calls[i]

\* A fragment adds to the partial calls what the provider added to its own.
LEMMA FragmentFits ==
    ASSUME NEW calls \in Seq(SaidCalls), NEW partial, Match(partial, calls),
           NEW f \in Fragments, f.index \in 0..Len(calls),
           f.index = Len(calls) => f.id # None,
           f.index # Len(calls) => f.id = None
    PROVE  /\ Grown(calls, f) \in Seq(SaidCalls)
           /\ Len(Grown(calls, f)) =
                 IF f.index = Len(calls) THEN Len(calls) + 1 ELSE Len(calls)
           /\ Match(AddFragment(partial, f), Grown(calls, f))
<1> DEFINE n == Len(calls)
           j == f.index
           O == Opened(partial, j)
           R == AddFragment(partial, f)
           G == Grown(calls, f)
           new == [id |-> f.id, name |-> f.name, arguments |-> f.arguments,
                   extra |-> f.extra]
<1>1. /\ n \in Nat /\ j \in 0..n
      /\ f.id \in Ids \union {None} /\ f.name \in CallNames
      /\ f.arguments \in Seq(Nat) /\ f.extra \in SUBSET {"signature"}
      /\ DOMAIN partial = 0..(n - 1)
      /\ \A i \in 1..n : partial[i - 1] = calls[i] /\ calls[i] \in SaidCalls
  BY DEF Fragments, Match
<1>2. /\ DOMAIN O = DOMAIN partial \union {j}
      /\ \A i \in DOMAIN O :
            O[i] = IF i \in DOMAIN partial THEN partial[i] ELSE NewCall
  BY DEF Opened
<1>3. /\ DOMAIN R = DOMAIN O /\ R[j] = WithFragment(O[j], f)
      /\ \A i \in DOMAIN O : i # j => R[i] = O[i]
  <2>1. R = [O EXCEPT ![j] = WithFragment(@, f)]
    BY DEF AddFragment
  <2>2. j \in DOMAIN O
    BY <1>2
  <2> HIDE DEF O, R, j
  <2> QED BY <2>1, <2>2
<1> HIDE DEF n, j, O, R, G
<1>4. CASE j = n
  <2>1. j \notin DOMAIN partial /\ j \in DOMAIN O
    BY <1>1, <1>2, <1>4
  <2>2. WithFragment(NewCall, f) = new
    <3>1. <<>> \o f.arguments = f.arguments /\ {} \union f.extra = f.extra
      BY <1>1
    <3> QED BY <3>1, <1>1 DEF WithFragment, NewCall, Newer, None
  <2>3. new \in SaidCalls
    <3>1. f.id \in Ids
      BY <1>1, <1>4 DEF n, j
    <3> QED BY <3>1, <1>1 DEF SaidCalls
  <2>4. G = Append(calls, new)
    BY <1>4 DEF Grown, G, n, j
  <2> HIDE DEF new
  <2>5. /\ G \in Seq(SaidCalls) /\ Len(G) = n + 1 /\ G[n + 1] = new
        /\ \A i \in 1..n : G[i] = calls[i]
    BY <2>3, <2>4 DEF n
  <2>6. DOMAIN R = 0..(Len(G) - 1)
    <3>1. 0..(n - 1) \union {n} = 0..((n + 1) - 1)
      BY <1>1
    <3> QED BY <1>1, <1>2, <1>3, <1>4, <2>5, <3>1
  <2>7. ASSUME NEW i \in 1..Len(G) PROVE R[i - 1] = G[i]
    <3>1. CASE i = n + 1
      <4>1. i - 1 = j
        BY <1>1, <1>4, <3>1
      <4> QED BY <3>1, <4>1, <1>2, <1>3, <2>1, <2>2, <2>5
    <3>2. CASE i # n + 1
      <4>1. i \in 1..n /\ i - 1 \in 0..(n - 1) /\ i - 1 # j
        BY <1>1, <1>4, <2>5, <3>2
      <4> QED BY <4>1, <1>1, <1>2, <1>3, <2>5
    <3> QED BY <3>1, <3>2
  <2>8. Match(R, G)
    BY <2>6, <2>7 DEF Match
  <2> QED BY <1>4, <2>5, <2>8 DEF n, j, R, G
<1>5. CASE j # n
  <2> DEFINE old == calls[j + 1]
             joint == [id |-> old.id,
                       name |-> IF f.name = None THEN old.name ELSE f.name,
                       arguments |-> old.arguments \o f.arguments,
                       extra |-> old.extra \union f.extra]
  <2>1. /\ j \in 0..(n - 1) /\ j + 1 \in 1..n /\ (j + 1) - 1 = j
    BY <1>1, <1>5
  <2>2. old \in SaidCalls /\ O[j] = old
    BY <1>1, <1>2, <2>1
  <2>3. /\ old.id \in Ids /\ old.name \in CallNames
        /\ old.arguments \in Seq(Nat) /\ old.extra \in SUBSET {"signature"}
        /\ old = [id |-> old.id, name |-> old.name,
                  arguments |-> old.arguments, extra |-> old.extra]
    <3> HIDE DEF old
    <3> QED BY <2>2 DEF SaidCalls
  <2>4. f.id = None
    BY <1>5 DEF n, j
  <2>5. WithFragment(old, f) = joint
    <3> HIDE DEF old
    <3> QED BY <2>4 DEF WithFragment, Newer
  <2>6. joint \in SaidCalls
    <3> HIDE DEF old
    <3>1. /\ old.arguments \o f.arguments \in Seq(Nat)
          /\ old.extra \union f.extra \in SUBSET {"signature"}
          /\ (IF f.name = None THEN old.name ELSE f.name) \in CallNames
      BY <1>1, <2>3
    <3> QED BY <2>3, <3>1 DEF SaidCalls
  <2>7. [old EXCEPT !.name = IF f.name = None THEN @ ELSE f.name,
                    !.arguments = @ \o f.arguments,
                    !.extra = @ \union f.extra] = joint
    <3> DEFINE a == IF f.name = None THEN old.name ELSE f.name
               b == old.arguments \o f.arguments
               c == old.extra \union f.extra
    <3> SUFFICES ASSUME NEW s,
                        s = [old EXCEPT !.name = a, !.arguments = b, !.extra = c]
                 PROVE  s = joint
      BY Zenon
    <3>1. s = [id |-> old.id, name |-> a, arguments |-> b, extra |-> c]
      <4> HIDE DEF old, a, b, c
      <4> QED BY <2>3
    <3> QED BY <3>1
  <2>8. G = [calls EXCEPT ![j + 1] = joint]
    BY <1>5, <2>7 DEF Grown, G, n, j
  <2> HIDE DEF old, joint
  <2>9. /\ G \in Seq(SaidCalls) /\ Len(G) = n /\ G[j + 1] = joint
        /\ \A i \in 1..n : i # j + 1 => G[i] = calls[i]
    BY <2>1, <2>6, <2>8 DEF n
  <2>10. DOMAIN R = 0..(Len(G) - 1)
    <3>1. 0..(n - 1) \union {j} = 0..(n - 1)
      BY <2>1
    <3> QED BY <1>1, <1>2, <1>3, <2>9, <3>1
  <2>11. ASSUME NEW i \in 1..Len(G) PROVE R[i - 1] = G[i]
    <3>1. CASE i = j + 1
      <4>1. i - 1 = j
        BY <2>1, <3>1
      <4> QED BY <3>1, <4>1, <1>3, <2>2, <2>5, <2>9
    <3>2. CASE i # j + 1
      <4>1. i \in 1..n /\ i - 1 \in 0..(n - 1) /\ i - 1 # j
        BY <1>1, <2>1, <2>9, <3>2
      <4> QED BY <4>1, <3>2, <1>1, <1>2, <1>3, <2>9
    <3> QED BY <3>1, <3>2
  <2>12. Match(R, G)
    BY <2>10, <2>11 DEF Match
  <2> QED BY <1>5, <2>9, <2>12 DEF n, j, R, G
<1> QED BY <1>4, <1>5

-----------------------------------------------------------------------------
\* The frames say what the provider has said.
Reflects(frames, said) ==
    /\ IsList(frames)
    /\ said = [text |-> said.text, calls |-> said.calls]
    /\ said.text \in Seq(Nat)
    /\ said.calls \in Seq(SaidCalls)
    /\ Heard(frames) = said.text
    /\ LET reply == Assembled(frames)
       IN  /\ reply = [text |-> said.text, calls |-> reply.calls,
                       tokens |-> reply.tokens]
           /\ Match(reply.calls, said.calls)

LEMMA ListAppend ==
    ASSUME NEW frames, NEW x, IsList(frames)
    PROVE  \E T : /\ frames \in Seq(T) /\ x \in T
                  /\ Append(frames, x) \in Seq(T)
<1>1. PICK U : frames \in Seq(U)
  BY DEF IsList
<1> DEFINE T == U \union {x}
<1>2. U \subseteq T /\ x \in T
  OBVIOUS
<1> HIDE DEF T
<1>3. frames \in Seq(T)
  BY <1>1, <1>2
<1>4. Append(frames, x) \in Seq(T)
  BY <1>2, <1>3
<1> QED BY <1>2, <1>3, <1>4

LEMMA SilenceReflects ==
    LET said == [text |-> <<>>, calls |-> <<>>]
    IN  Reflects(<<>>, said)
<1> DEFINE said == [text |-> <<>>, calls |-> <<>>]
<1>1. <<>> \in Seq(Nat) /\ <<>> \in Seq(SaidCalls) /\ Len(<<>>) = 0
  OBVIOUS
<1>2. said.text = <<>> /\ said.calls = <<>>
  OBVIOUS
<1>3. IsList(<<>>)
  BY <1>1 DEF IsList
<1>4. Match(<<>>, <<>>)
  <2>1. DOMAIN <<>> = 0..(0 - 1) /\ 1..0 = {}
    OBVIOUS
  <2> QED BY <1>1, <2>1 DEF Match
<1>5. /\ NoReply = [text |-> <<>>, calls |-> NoReply.calls,
                    tokens |-> NoReply.tokens]
      /\ NoReply.calls = <<>>
  BY DEF NoReply
<1> QED BY <1>1, <1>2, <1>3, <1>4, <1>5, NothingAssembled, NothingHeard
        DEF Reflects

\* A frame more.
LEMMA FrameReflects ==
    ASSUME NEW frames, NEW said, Reflects(frames, said), NEW x,
           NEW text \in Seq(Nat), NEW calls \in Seq(SaidCalls),
           x.kind = "words" => x.text \in Nat /\ text = Append(said.text, x.text),
           x.kind # "words" => text = said.text,
           LET reply == AddFrame(Assembled(frames), x)
           IN  /\ reply = [text |-> text, calls |-> reply.calls,
                           tokens |-> reply.tokens]
               /\ Match(reply.calls, calls)
    PROVE  Reflects(Append(frames, x), [text |-> text, calls |-> calls])
<1> DEFINE more == Append(frames, x)
           new == [text |-> text, calls |-> calls]
           reply == Assembled(more)
<1>1. PICK T : frames \in Seq(T) /\ x \in T /\ more \in Seq(T)
  BY ListAppend DEF Reflects
<1>2. reply = AddFrame(Assembled(frames), x)
  BY <1>1, AssembledAppend
<1>3. Heard(frames) = said.text /\ said.text \in Seq(Nat)
  BY DEF Reflects
<1>4. Heard(more) = IF x.kind = "words" THEN Append(Heard(frames), x.text)
                    ELSE Heard(frames)
  BY <1>1, <1>3, HeardAppend
<1>5. Heard(more) = text
  BY <1>3, <1>4
<1>6. new.text = text /\ new.calls = calls
  OBVIOUS
<1>7. IsList(more)
  BY <1>1 DEF IsList
<1> HIDE DEF more
<1> QED BY <1>2, <1>5, <1>6, <1>7 DEF Reflects, more

StreamInv == About("stream") => Reflects(subject.frames, subject.said)

LEMMA NoiseReflects ==
    ASSUME NEW frames, NEW said, Reflects(frames, said),
           NEW kind \in {"unreadable", "usage"}
    PROVE  Reflects(Append(frames, [kind |-> kind, tokens |-> 7]), said)
<1> DEFINE x == [kind |-> kind, tokens |-> 7]
           old == Assembled(frames)
           reply == AddFrame(old, x)
<1>1. /\ said = [text |-> said.text, calls |-> said.calls]
      /\ said.text \in Seq(Nat) /\ said.calls \in Seq(SaidCalls)
      /\ old = [text |-> said.text, calls |-> old.calls, tokens |-> old.tokens]
      /\ Match(old.calls, said.calls)
  BY DEF Reflects
<1>2. x.kind = kind /\ x.tokens = 7 /\ kind # "words" /\ kind # "calls"
  OBVIOUS
<1> HIDE DEF old, x
<1>3. reply = IF kind = "usage" THEN [old EXCEPT !.tokens = 7] ELSE old
  BY <1>2 DEF AddFrame
<1> HIDE DEF reply
<1>4. /\ reply = [text |-> said.text, calls |-> reply.calls,
                  tokens |-> reply.tokens]
      /\ reply.calls = old.calls
  BY <1>1, <1>3
<1>5. Reflects(Append(frames, x), [text |-> said.text, calls |-> said.calls])
  BY <1>1, <1>2, <1>4, FrameReflects DEF reply, old
<1> QED BY <1>1, <1>5 DEF x

LEMMA WordsReflect ==
    ASSUME NEW frames, NEW said, Reflects(frames, said), NEW p \in Nat
    PROVE  Reflects(Append(frames, [kind |-> "words", text |-> p]),
                    [said EXCEPT !.text = Append(@, p)])
<1> DEFINE x == [kind |-> "words", text |-> p]
           old == Assembled(frames)
           text == Append(said.text, p)
           reply == AddFrame(old, x)
<1>1. /\ said = [text |-> said.text, calls |-> said.calls]
      /\ said.text \in Seq(Nat) /\ said.calls \in Seq(SaidCalls)
      /\ old = [text |-> said.text, calls |-> old.calls, tokens |-> old.tokens]
      /\ Match(old.calls, said.calls)
  BY DEF Reflects
<1>2. x.kind = "words" /\ x.text = p
  OBVIOUS
<1>3. text \in Seq(Nat)
  BY <1>1
<1>4. [said EXCEPT !.text = Append(@, p)] = [text |-> text, calls |-> said.calls]
  <2> SUFFICES ASSUME NEW s, s = [said EXCEPT !.text = text]
               PROVE  s = [text |-> text, calls |-> said.calls]
    BY Zenon
  <2> HIDE DEF text
  <2> QED BY <1>1
<1> HIDE DEF old, x
<1>5. reply = [old EXCEPT !.text = Append(@, p)]
  BY <1>2 DEF AddFrame
<1>6. old.text = said.text
  BY <1>1
<1>7. reply = [old EXCEPT !.text = text]
  BY <1>5, <1>6
<1> HIDE DEF text, reply
<1>8. /\ reply = [text |-> text, calls |-> reply.calls,
                  tokens |-> reply.tokens]
      /\ reply.calls = old.calls
  BY <1>1, <1>7
<1>9. Reflects(Append(frames, x), [text |-> text, calls |-> said.calls])
  BY <1>1, <1>2, <1>3, <1>8, FrameReflects DEF reply, old, text
<1> QED BY <1>4, <1>9 DEF x

LEMMA CallsReflect ==
    ASSUME NEW frames, NEW said, Reflects(frames, said), NEW fragments,
           NEW calls \in Seq(SaidCalls),
           Match(AddFragments(Assembled(frames).calls, fragments), calls)
    PROVE  Reflects(Append(frames, [kind |-> "calls", fragments |-> fragments]),
                    [said EXCEPT !.calls = calls])
<1> DEFINE x == [kind |-> "calls", fragments |-> fragments]
           old == Assembled(frames)
           added == AddFragments(old.calls, fragments)
           reply == AddFrame(old, x)
<1>1. /\ said = [text |-> said.text, calls |-> said.calls]
      /\ said.text \in Seq(Nat) /\ said.calls \in Seq(SaidCalls)
      /\ old = [text |-> said.text, calls |-> old.calls, tokens |-> old.tokens]
  BY DEF Reflects
<1>2. x.kind = "calls" /\ x.fragments = fragments
  OBVIOUS
<1>3. [said EXCEPT !.calls = calls] = [text |-> said.text, calls |-> calls]
  BY <1>1
<1> HIDE DEF old, x
<1>4. reply = [old EXCEPT !.calls = AddFragments(@, fragments)]
  BY <1>2 DEF AddFrame
<1>5. reply = [old EXCEPT !.calls = added]
  BY <1>4
<1>6. Match(added, calls)
  BY DEF old
<1> HIDE DEF added, reply
<1>7. /\ reply = [text |-> said.text, calls |-> reply.calls,
                  tokens |-> reply.tokens]
      /\ reply.calls = added
  BY <1>1, <1>5
<1>8. Reflects(Append(frames, x), [text |-> said.text, calls |-> calls])
  BY <1>1, <1>2, <1>6, <1>7, FrameReflects DEF reply, old
<1> QED BY <1>3, <1>8 DEF x

Opens(f, i) == f \in Fragments /\ f.index = i /\ f.id # None

LEMMA OpeningsAreFragments ==
    ASSUME NEW i \in 0..1, NEW p \in Nat, NEW name \in CallNames,
           NEW arguments \in {<<>>, <<p>>},
           NEW f, f = Fragment(i, <<"id", i>>, name, arguments, {})
    PROVE  Opens(f, i)
<1>1. i = 0 \/ i = 1
  OBVIOUS
<1>2. <<"id", i>> \in Ids /\ <<"id", i>> # <<>> /\ i \in Nat
  BY <1>1 DEF Ids
<1>3. arguments \in Seq(Nat)
  <2>1. <<>> \in Seq(Nat) /\ <<p>> \in Seq(Nat)
    OBVIOUS
  <2>2. arguments = <<>> \/ arguments = <<p>>
    OBVIOUS
  <2> QED BY <2>1, <2>2
<1> QED BY <1>2, <1>3 DEF Opens, Fragment, Fragments, None

LEMMA ContinuingsAreFragments ==
    ASSUME NEW i \in Nat, About("stream"), Len(subject.frames) \in Nat,
           NEW f \in Continuing(i)
    PROVE  f \in Fragments /\ f.index = i /\ f.id = None
<1>1. Piece \in Nat
  BY DEF Piece
<1>2. <<Piece>> \in Seq(Nat) /\ <<>> \in Seq(Nat)
  BY <1>1
<1> DEFINE a == Fragment(i, None, None, <<Piece>>, {})
           b == Fragment(i, None, <<"search">>, <<>>, {"signature"})
<1>3. a \in Fragments /\ a.index = i /\ a.id = None
  BY <1>2 DEF Fragment, Fragments, CallNames
<1>4. b \in Fragments /\ b.index = i /\ b.id = None
  BY <1>2 DEF Fragment, Fragments, CallNames
<1>5. f = a \/ f = b
  BY DEF Continuing
<1> HIDE DEF a, b
<1> QED BY <1>3, <1>4, <1>5

LEMMA SendingReflects ==
    ASSUME Shape, About("stream"), Reflects(subject.frames, subject.said),
           SendsSomething
    PROVE  Reflects(subject'.frames, subject'.said)
<1> DEFINE frames == subject.frames
           said == subject.said
           calls == subject.said.calls
           partial == Assembled(frames).calls
<1>1. /\ Len(frames) \in Nat /\ Piece \in Nat
      /\ calls \in Seq(SaidCalls) /\ Len(calls) \in Nat
      /\ Match(partial, calls)
  BY DEF Reflects, IsList, Piece
<1>2. CASE SendNoise
  <2>1. PICK kind \in {"unreadable", "usage"} :
           Sends([kind |-> kind, tokens |-> 7], said)
    BY <1>2 DEF SendNoise
  <2>2. /\ subject'.frames = Append(frames, [kind |-> kind, tokens |-> 7])
        /\ subject'.said = said
    BY <2>1, SentKeepsShape
  <2>3. Reflects(Append(frames, [kind |-> kind, tokens |-> 7]), said)
    BY NoiseReflects
  <2> QED BY <2>2, <2>3
<1>3. CASE SendWords
  <2> DEFINE x == [kind |-> "words", text |-> Piece]
             new == [said EXCEPT !.text = Append(@, Piece)]
  <2>1. Sends(x, new)
    BY <1>3 DEF SendWords
  <2>2. subject'.frames = Append(frames, x) /\ subject'.said = new
    <3> HIDE DEF x, new
    <3> QED BY <2>1, SentKeepsShape
  <2>3. Reflects(Append(frames, x), new)
    BY <1>1, WordsReflect
  <2> QED BY <2>2, <2>3
<1>4. CASE SendCall
  <2> DEFINE n == Len(calls)
  <2>1. n < 2
    BY <1>4 DEF SendCall
  <2>2. PICK f \in Opening(n) :
           Sends([kind |-> "calls", fragments |-> <<f>>],
                 [said EXCEPT !.calls = Grown(@, f)])
    BY <1>4, Zenon DEF SendCall
  <2>3. PICK name \in {None, <<"search">>}, arguments \in {<<>>, <<Piece>>} :
           f = Fragment(n, <<"id", n>>, name, arguments, {})
    BY DEF Opening
  <2>4. f \in Fragments /\ f.index = n /\ f.id # None
    <3>1. n \in 0..1
      <4>1. n \in Nat
        BY <1>1
      <4> HIDE DEF n
      <4> QED BY <2>1, <4>1
    <3>2. name \in CallNames
      BY DEF CallNames
    <3> HIDE DEF n
    <3>3. Piece \in Nat /\ arguments \in {<<>>, <<Piece>>}
      BY <1>1
    <3>4. Opens(f, n)
      BY <2>3, <3>1, <3>2, <3>3, OpeningsAreFragments
    <3> QED BY <3>4 DEF Opens
  <2> DEFINE grown == Grown(calls, f)
             x == [kind |-> "calls", fragments |-> <<f>>]
             new == [said EXCEPT !.calls = grown]
  <2>5. grown \in Seq(SaidCalls) /\ Match(AddFragment(partial, f), grown)
    <3>1. f.index \in 0..Len(calls)
      BY <1>1, <2>4
    <3> HIDE DEF partial, calls
    <3> QED BY <1>1, <2>4, <3>1, FragmentFits DEF calls
  <2>6. Sends(x, new)
    BY <2>2, Zenon
  <2>7. subject'.frames = Append(frames, x) /\ subject'.said = new
    <3> HIDE DEF x, new
    <3> QED BY <2>6, SentKeepsShape
  <2>8. Match(AddFragments(Assembled(frames).calls, <<f>>), grown)
    BY <2>5, OneFragment
  <2>9. Reflects(Append(frames, x), new)
    <3> HIDE DEF grown
    <3> QED BY <2>5, <2>8, CallsReflect
  <2> HIDE DEF x, new
  <2> QED BY <2>7, <2>9
<1>5. CASE SendMoreOfCalls
  <2>1. \E first, second \in 0..(Len(calls) - 1) :
        \E f \in Continuing(first), g \in Continuing(second) :
           Sends([kind |-> "calls", fragments |-> <<f, g>>],
                 [said EXCEPT !.calls = Grown(Grown(@, f), g)])
    BY <1>5, Zenon DEF SendMoreOfCalls
  <2>2. PICK first \in 0..(Len(calls) - 1), second \in 0..(Len(calls) - 1) :
        \E f \in Continuing(first), g \in Continuing(second) :
           Sends([kind |-> "calls", fragments |-> <<f, g>>],
                 [said EXCEPT !.calls = Grown(Grown(@, f), g)])
    BY <2>1, Zenon
  <2>3. PICK f \in Continuing(first), g \in Continuing(second) :
           Sends([kind |-> "calls", fragments |-> <<f, g>>],
                 [said EXCEPT !.calls = Grown(Grown(@, f), g)])
    BY <2>2, Zenon
  <2>4. /\ f \in Fragments /\ f.index = first /\ f.id = None
        /\ g \in Fragments /\ g.index = second /\ g.id = None
    <3>1. first \in Nat /\ second \in Nat
      OBVIOUS
    <3> QED BY <1>1, <3>1, ContinuingsAreFragments
  <2> DEFINE once == Grown(calls, f)
             grown == Grown(once, g)
             half == AddFragment(partial, f)
             x == [kind |-> "calls", fragments |-> <<f, g>>]
             new == [said EXCEPT !.calls = grown]
  <2>5. /\ once \in Seq(SaidCalls) /\ Len(once) = Len(calls)
        /\ Match(half, once)
    <3>1. f.index \in 0..Len(calls) /\ f.index # Len(calls)
      BY <1>1, <2>4
    <3> HIDE DEF partial, calls
    <3> QED BY <1>1, <2>4, <3>1, FragmentFits DEF calls
  <2>6. grown \in Seq(SaidCalls) /\ Match(AddFragment(half, g), grown)
    <3>1. g.index \in 0..Len(once) /\ g.index # Len(once)
      BY <1>1, <2>4, <2>5
    <3> HIDE DEF partial, calls, once, half
    <3> QED BY <2>4, <2>5, <3>1, FragmentFits
  <2>7. Sends(x, new)
    BY <2>3, Zenon
  <2>8. subject'.frames = Append(frames, x) /\ subject'.said = new
    <3> HIDE DEF x, new
    <3> QED BY <2>7, SentKeepsShape
  <2>9. Match(AddFragments(Assembled(frames).calls, <<f, g>>), grown)
    BY <2>6, TwoFragments
  <2>10. Reflects(Append(frames, x), new)
    <3> HIDE DEF grown
    <3> QED BY <2>6, <2>9, CallsReflect
  <2> HIDE DEF x, new
  <2> QED BY <2>8, <2>10
<1> QED BY <1>2, <1>3, <1>4, <1>5 DEF SendsSomething

LEMMA StreamsReflect == Spec => []StreamInv
<1>1. Init => StreamInv
  BY DEF Init, StreamInv, About
<1>2. Shape /\ StreamInv /\ [Next]_subject => StreamInv'
  <2> SUFFICES ASSUME Shape, StreamInv, [Next]_subject, subject'.of = "stream"
               PROVE  Reflects(subject'.frames, subject'.said)
    BY DEF StreamInv, About
  <2>1. CASE UNCHANGED subject
    BY <2>1 DEF StreamInv, About
  <2>2. CASE BeginStream
    <3>1. subject'.frames = <<>> /\ subject'.said = [text |-> <<>>, calls |-> <<>>]
      BY <2>2 DEF BeginStream, Silence
    <3> QED BY <3>1, SilenceReflects
  <2>3. CASE SendsSomething
    <3>1. About("stream")
      BY <2>3 DEF SendsSomething, SendNoise, SendWords, SendCall,
                  SendMoreOfCalls
    <3>2. Reflects(subject.frames, subject.said)
      BY <3>1 DEF StreamInv
    <3> QED BY <2>3, <3>1, <3>2, SendingReflects
  <2> QED BY <2>1, <2>2, <2>3, EveryStepHasItsOrigin DEF Origin
<1> QED BY <1>1, <1>2, EverySubjectHasItsShape, PTL DEF Spec

HasName(calls) == {c \in ToSet(calls) : c.name # None}
AsSent(c) == ToolCall(c.id, c.name, c.arguments, c.extra)

\* What stream() makes of the partial calls, complete() makes of the message.
LEMMA CallsAreAsSent ==
    ASSUME NEW calls \in Seq(SaidCalls), NEW partial, Match(partial, calls)
    PROVE  LET kept == Only(calls, HasName(calls))
           IN  CallsOf(partial) = [m \in DOMAIN kept |-> AsSent(kept[m])]
<1> DEFINE n == Len(calls)
           S == HasName(calls)
           kept == Only(calls, S)
           P == Places(calls, S)
           Q == {i \in DOMAIN partial : partial[i].name # None}
           C(k) == Cardinality(UpTo(P, k))
<1>1. /\ n \in Nat /\ DOMAIN calls = 1..n
      /\ DOMAIN partial = 0..(n - 1)
      /\ \A i \in 1..n : partial[i - 1] = calls[i] /\ calls[i] \in SaidCalls
  BY DEF Match
<1>2. \A i \in 1..n : calls[i] \in S <=> calls[i].name # None
  BY <1>1 DEF HasName, ToSet
<1>3. P \in SUBSET (1..n) /\ \A i \in 1..n : i \in P <=> calls[i].name # None
  BY <1>1, <1>2 DEF Places
<1>4. /\ Q \in SUBSET (0..(n - 1))
      /\ \A i \in 0..(n - 1) : i \in Q <=> i + 1 \in P
  <2>1. Q \in SUBSET (0..(n - 1))
    BY <1>1
  <2>2. ASSUME NEW i \in 0..(n - 1) PROVE i \in Q <=> i + 1 \in P
    <3>1. i + 1 \in 1..n /\ (i + 1) - 1 = i /\ i \in DOMAIN partial
      BY <1>1
    <3>2. partial[i] = calls[i + 1]
      BY <1>1, <3>1
    <3>3. i \in Q <=> calls[i + 1].name # None
      BY <3>1, <3>2
    <3> HIDE DEF P, Q
    <3> QED BY <1>3, <3>1, <3>3
  <2> QED BY <2>1, <2>2
<1>5. /\ kept \in Seq(SaidCalls) /\ Len(kept) = Cardinality(P)
      /\ \A m \in 1..Len(kept) :
            \E k \in P : C(k) = m /\ kept[m] = calls[k]
  <2> HIDE DEF S
  <2> QED BY OnlyPicks
<1> HIDE DEF n, S, kept, P, Q
<1>6. /\ Cardinality(Q) = Cardinality(P)
      /\ \A k \in P : Nth(Q, C(k)) = k - 1
  <2>1. /\ n \in Nat /\ P \in SUBSET (1..n) /\ Q \in SUBSET (0..(n - 1))
        /\ \A i \in 0..(n - 1) : i \in Q <=> i + 1 \in P
    BY <1>1, <1>3, <1>4
  <2> HIDE DEF C
  <2>2. /\ Cardinality(Q) = Cardinality(P)
        /\ \A k \in P : Nth(Q, Cardinality(UpTo(P, k))) = k - 1
    <3>1. \A A \in SUBSET (1..n), B \in SUBSET (0..(n - 1)) :
             (\A i \in 0..(n - 1) : i \in B <=> i + 1 \in A)
             => /\ Cardinality(B) = Cardinality(A)
                /\ \A k \in A : Nth(B, Cardinality(UpTo(A, k))) = k - 1
      BY <2>1, NthFromNought, Zenon
    <3> QED BY <2>1, <3>1, Zenon
  <2> QED BY <2>2 DEF C
<1> DEFINE Id(i) == IF partial[i].id = None THEN <<"call", i>>
                    ELSE partial[i].id
           At(i) == ToolCall(Id(i), partial[i].name, partial[i].arguments,
                             partial[i].extra)
<1>7. CallsOf(partial) = [m \in 1..Cardinality(Q) |-> At(Nth(Q, m))]
  BY DEF CallsOf, Q
<1>8. DOMAIN kept = 1..Cardinality(Q)
  BY <1>5, <1>6
<1>9. ASSUME NEW m \in 1..Cardinality(Q)
      PROVE  At(Nth(Q, m)) = AsSent(kept[m])
  <2>1. PICK k \in P : C(k) = m /\ kept[m] = calls[k]
    BY <1>5, <1>6
  <2>2. Nth(Q, m) = k - 1
    BY <1>6, <2>1
  <2>3. k \in 1..n /\ partial[k - 1] = calls[k] /\ calls[k] \in SaidCalls
    BY <1>1, <1>3
  <2>4. calls[k].id # None
    <3>1. calls[k].id \in Ids
      BY <2>3 DEF SaidCalls
    <3> QED BY <3>1 DEF Ids, None
  <2>5. Id(k - 1) = calls[k].id
    BY <2>3, <2>4
  <2> HIDE DEF Id
  <2>6. At(k - 1) = AsSent(calls[k])
    BY <2>3, <2>5 DEF AsSent
  <2> HIDE DEF At
  <2> QED BY <2>1, <2>2, <2>6
<1> HIDE DEF At
<1>10. CallsOf(partial) = [m \in DOMAIN kept |-> AsSent(kept[m])]
  BY <1>7, <1>8, <1>9
<1> QED BY <1>10 DEF kept, S

LEMMA StreamedIsBuffered ==
    ASSUME About("stream"), Reflects(subject.frames, subject.said)
    PROVE  /\ Streamed(subject.frames) = Buffered(Said)
           /\ Heard(subject.frames) = Said.text
           /\ ComesBack
<1> DEFINE frames == subject.frames
           said == subject.said
           reply == Assembled(frames)
           kept == Only(said.calls, HasName(said.calls))
<1>1. /\ said = [text |-> said.text, calls |-> said.calls]
      /\ said.calls \in Seq(SaidCalls)
      /\ Heard(frames) = said.text
      /\ reply.text = said.text
      /\ Match(reply.calls, said.calls)
  BY DEF Reflects
<1>2. Said = [said EXCEPT !.calls = kept]
  BY DEF Said, HasName
<1> HIDE DEF kept
<1>3. Said.text = said.text /\ Said.calls = kept
  BY <1>1, <1>2
<1>4. CallsOf(reply.calls) = [m \in DOMAIN kept |-> AsSent(kept[m])]
  BY <1>1, CallsAreAsSent DEF kept
<1>5. Streamed(frames) = Completion(reply.text, CallsOf(reply.calls))
  BY DEF Streamed
<1>6. Buffered(Said)
         = Completion(Said.text, [m \in DOMAIN Said.calls |->
                                     AsSent(Said.calls[m])])
  BY DEF Buffered, AsSent
<1>7. Streamed(frames) = Buffered(Said)
  BY <1>1, <1>3, <1>4, <1>5, <1>6
<1>8. ASSUME NEW i \in DOMAIN Said.calls
      PROVE  MessagePart(Streamed(frames).tool_calls[i]).extra
                = Said.calls[i].extra
  <2>1. Streamed(frames).tool_calls = [m \in DOMAIN kept |-> AsSent(kept[m])]
    BY <1>4, <1>5 DEF Completion
  <2>2. Streamed(frames).tool_calls[i] = AsSent(kept[i])
    BY <1>3, <2>1
  <2> QED BY <1>3, <2>2 DEF MessagePart, AsSent, ToolCall
<1> QED BY <1>1, <1>3, <1>7, <1>8 DEF ComesBack

-----------------------------------------------------------------------------
(***************************************************************************)
(* Embeddings.                                                             *)
(***************************************************************************)
\* The keys that put 1..n in the order o.
FromNought(o, n) == [i \in 1..n |-> o[i] - 1]

\* A permutation is sorted by its inverse.
IsOrder(o, n) ==
    o \in [1..n -> 1..n] /\ \A i, j \in 1..n : o[i] = o[j] => i = j
Inverts(order, o, n) ==
    \A m \in 1..n : order[m] \in 1..n /\ o[order[m]] = m

LEMMA SortedPermutation ==
    ASSUME NEW n \in Nat, NEW o, IsOrder(o, n)
    PROVE  Inverts(Sorted(FromNought(o, n)), o, n)
<1>0. /\ o \in [1..n -> 1..n]
      /\ \A i, j \in 1..n : o[i] = o[j] => i = j
  BY DEF IsOrder
<1> DEFINE keys == FromNought(o, n)
           D == 1..n
<1>1. DOMAIN keys = D /\ \A i \in D : keys[i] = o[i] - 1 /\ o[i] \in D
  BY <1>0 DEF FromNought
<1>2. D \subseteq Nat /\ IsFiniteSet(D)
  BY FS_Interval
<1>3. \A m \in D : \E i \in D : o[i] = m
  <2>1. o \in Injection(D, D)
    BY <1>0 DEF Injection, IsInjective
  <2>2. o \in Surjection(D, D)
    BY <1>2, <2>1, FS_Injection
  <2> QED BY <2>2 DEF Surjection
<1>4. ASSUME NEW i \in D PROVE Cardinality(Before(keys, i)) = o[i]
  <2> DEFINE A == 1..o[i]
             B == Before(keys, i)
             back == [m \in A |-> CHOOSE j \in D : o[j] = m]
  <2>1. o[i] \in D /\ o[i] \in Nat
    BY <1>1, <1>2
  <2>2. \A m \in A : m \in D
    BY <2>1
  <2>3. B = {j \in D : o[j] <= o[i]}
    <3> HIDE DEF keys
    <3>1. \A j \in D : (keys[j] < keys[i] \/ (keys[j] = keys[i] /\ j <= i))
                          <=> o[j] <= o[i]
      <4> TAKE j \in D
      <4>1. /\ keys[j] = o[j] - 1 /\ keys[i] = o[i] - 1
            /\ o[j] \in Int /\ o[i] \in Int /\ i \in Int /\ j \in Int
        BY <1>1, <1>2
      <4>2. o[j] = o[i] => j = i
        BY <1>0
      <4> HIDE DEF D
      <4> QED BY <4>1, <4>2
    <3> HIDE DEF D
    <3> QED BY <1>1, <3>1 DEF Before
  <2>4. \A m \in A : back[m] \in D /\ o[back[m]] = m
    BY <1>3, <2>2
  <2> HIDE DEF back
  <2>5. back \in [A -> B]
    <3>1. DOMAIN back = A /\ back = [m \in A |-> back[m]]
      BY DEF back
    <3>2. \A m \in A : m <= o[i]
      BY <2>1
    <3>3. \A m \in A : back[m] \in B
      BY <2>3, <2>4, <3>2
    <3> HIDE DEF A, B
    <3> QED BY <3>1, <3>3
  <2>6. \A l, m \in A : back[l] = back[m] => l = m
    BY <2>4
  <2>7. \A j \in B : \E m \in A : back[m] = j
    <3> TAKE j \in B
    <3>1. j \in D /\ o[j] <= o[i]
      BY <2>3
    <3>2. o[j] \in A
      <4>1. o[j] \in D
        BY <1>1, <3>1
      <4>2. o[j] \in Nat /\ o[j] >= 1 /\ o[i] \in Nat
        BY <2>1, <4>1
      <4> QED BY <3>1, <4>2
    <3>3. back[o[j]] \in D /\ o[back[o[j]]] = o[j]
      BY <2>4, <3>2
    <3>4. back[o[j]] = j
      BY <1>0, <3>1, <3>3
    <3> QED BY <3>2, <3>4
  <2> HIDE DEF A, B
  <2>8. back \in Bijection(A, B)
    BY <2>5, <2>6, <2>7 DEF Bijection, Injection, Surjection, IsInjective
  <2>9. ExistsBijection(1..o[i], B)
    BY <2>8 DEF ExistsBijection, A
  <2>10. Cardinality(B) = o[i]
    BY <2>1, <2>9, FS_CountingElements
  <2> QED BY <2>10 DEF B
<1>5. ASSUME NEW m \in D
      PROVE  Sorted(keys)[m] \in D /\ o[Sorted(keys)[m]] = m
  <2> HIDE DEF keys, D
  <2>1. Sorted(keys)[m]
           = CHOOSE i \in D : Cardinality(Before(keys, i)) = m
    BY <1>1 DEF Sorted
  <2>2. \E i \in D : Cardinality(Before(keys, i)) = m
    BY <1>3, <1>4
  <2>3. /\ Sorted(keys)[m] \in D
        /\ Cardinality(Before(keys, Sorted(keys)[m])) = m
    BY <2>1, <2>2
  <2> QED BY <1>4, <2>3
<1> QED BY <1>5 DEF Inverts

\* The vectors of one response.
VectorsIn(r) == [i \in DOMAIN r.items |-> Ordered(r.items)[i].embedding]

\* One that is not short has the vectors of its batch, in their order.
LEMMA VectorsOfABatch ==
    ASSUME NEW T, NEW batch \in Seq(T), NEW r \in Responses(batch)
    PROVE  /\ r.status \in {200, 429}
           /\ \E k \in {Len(batch), Len(batch) - 1} :
                 DOMAIN r.items = 1..k /\ DOMAIN VectorsIn(r) = 1..k
           /\ DOMAIN r.items = 1..Len(batch) => VectorsIn(r) = batch
<1> DEFINE n == Len(batch)
<1>1. n \in Nat
  OBVIOUS
<1>2. PICK status \in {200, 429}, o \in Orders(n), k \in {n, n - 1} :
         r = [status |-> status,
              items |-> [i \in 1..k |-> [index |-> o[i] - 1,
                                         embedding |-> batch[o[i]]]]]
  BY DEF Responses
<1>3. /\ o \in [1..n -> 1..n]
      /\ \A i, j \in 1..n : o[i] = o[j] => i = j
  BY DEF Orders
<1> DEFINE items == [i \in 1..k |-> [index |-> o[i] - 1,
                                     embedding |-> batch[o[i]]]]
<1>4. r.status = status /\ r.items = items /\ DOMAIN items = 1..k
  BY <1>2
<1>5. DOMAIN VectorsIn(r) = 1..k
  BY <1>4 DEF VectorsIn
<1>6. ASSUME 1..k = 1..n PROVE VectorsIn(r) = batch
  <2> DEFINE keys == FromNought(o, n)
             order == Sorted(keys)
  <2>1. \A i \in 1..n : /\ items[i].index = o[i] - 1
                        /\ items[i].embedding = batch[o[i]]
    BY <1>6
  <2>2. DOMAIN items = 1..n
    BY <1>4, <1>6
  <2> HIDE DEF items, n
  <2>3. [i \in DOMAIN items |-> items[i].index] = keys
    BY <2>1, <2>2 DEF FromNought
  <2>4. \A m \in 1..n : order[m] \in 1..n /\ o[order[m]] = m
    <3>1. n \in Nat
      BY <1>1
    <3>2. IsOrder(o, n)
      BY <1>3 DEF IsOrder
    <3>3. Inverts(order, o, n)
      BY <3>1, <3>2, SortedPermutation
    <3> QED BY <3>3 DEF Inverts
  <2> HIDE DEF keys
  <2>5. Ordered(items) = [m \in 1..n |-> items[order[m]]]
    BY <2>2, <2>3 DEF Ordered
  <2> HIDE DEF order
  <2>6. \A m \in 1..n : Ordered(items)[m].embedding = batch[m]
    BY <2>1, <2>4, <2>5
  <2>7. VectorsIn(r) = [m \in 1..n |-> batch[m]]
    BY <1>4, <2>2, <2>6 DEF VectorsIn
  <2> QED BY <2>7 DEF n
<1> HIDE DEF n, items
<1> QED BY <1>2, <1>4, <1>5, <1>6 DEF n

\* The loop of FlattenSeq, from left to right.
Joins(f, s) ==
    /\ f[1] = s[1]
    /\ \A i \in 2..Len(s) : f[i] = f[i - 1] \o s[i]

Growing(T, k) == [1..k -> [Seq(T) -> Seq(T)]]
Grows(f, step, T, k) ==
    /\ f \in [0..k -> Seq(T)]
    /\ f[0] = <<>>
    /\ \A i \in 1..k : f[i] = step[i][f[i - 1]]

LEMMA SequencesGrow ==
    \A T : \A k \in Nat : \A step \in Growing(T, k) :
        \E f : Grows(f, step, T, k)
<1> TAKE T
<1> DEFINE base == <<>>
           All == Seq(T)
<1>1. base \in All
  OBVIOUS
<1> HIDE DEF base, All
<1>2. \A k \in Nat : \A st \in [1..k -> [All -> All]] :
         \E f \in [0..k -> All] :
            f[0] = base /\ \A i \in 1..k : f[i] = st[i][f[i - 1]]
  BY <1>1, StepsRunThrough
<1> TAKE k \in Nat
<1> TAKE step \in Growing(T, k)
<1>3. step \in [1..k -> [All -> All]]
  BY DEF Growing, All
<1>4. \E f \in [0..k -> All] :
         f[0] = base /\ \A i \in 1..k : f[i] = step[i][f[i - 1]]
  BY <1>2, <1>3
<1> QED BY <1>4 DEF Grows, base, All

LEMMA FlattenRuns ==
    ASSUME NEW T, NEW s \in Seq(Seq(T)), s # <<>>
    PROVE  \E f \in [1..Len(s) -> Seq(T)] :
              Joins(f, s) /\ FlattenSeq(s) = f[Len(s)]
<1> DEFINE L == Len(s)
           Join(f) == [i \in 1..L |-> IF i = 1 THEN s[i] ELSE f[i - 1] \o s[i]]
           joined == CHOOSE f : f = Join(f)
           step == [i \in 1..L |-> [x \in Seq(T) |-> x \o s[i]]]
<1>1. L \in Nat /\ L # 0 /\ \A i \in 1..L : s[i] \in Seq(T)
  OBVIOUS
<1>2. \E f \in [0..L -> Seq(T)] :
         f[0] = <<>> /\ \A i \in 1..L : f[i] = f[i - 1] \o s[i]
  <2>1. <<>> \in Seq(T)
    OBVIOUS
  <2>2. step \in [1..L -> [Seq(T) -> Seq(T)]]
    <3> HIDE DEF L
    <3> QED BY <1>1
  <2>3. \A i \in 1..L : \A x \in Seq(T) : step[i][x] = x \o s[i]
    OBVIOUS
  <2> HIDE DEF step, L
  <2>4. PICK f \in [0..L -> Seq(T)] :
           f[0] = <<>> /\ \A i \in 1..L : f[i] = step[i][f[i - 1]]
    <3>1. step \in Growing(T, L)
      BY <2>2 DEF Growing
    <3>2. \E f : Grows(f, step, T, L)
      BY <1>1, <3>1, SequencesGrow
    <3> QED BY <3>2 DEF Grows
  <2>5. ASSUME NEW i \in 1..L PROVE f[i] = f[i - 1] \o s[i]
    <3>1. i - 1 \in 0..L
      BY <1>1
    <3>2. f[i - 1] \in Seq(T)
      BY <3>1
    <3> QED BY <2>3, <2>4, <3>2
  <2> QED BY <2>4, <2>5
<1>3. PICK f \in [0..L -> Seq(T)] :
         f[0] = <<>> /\ \A i \in 1..L : f[i] = f[i - 1] \o s[i]
  BY <1>2
<1> DEFINE g == [i \in 1..L |-> f[i]]
<1>4. /\ g \in [1..L -> Seq(T)] /\ g[1] = s[1]
      /\ \A i \in 2..L : g[i] = g[i - 1] \o s[i]
  <2> HIDE DEF L
  <2>1. f[1] = s[1]
    <3>1. 1 \in 1..L /\ 1 - 1 = 0
      BY <1>1
    <3>2. f[1] = f[0] \o s[1] /\ s[1] \in Seq(T)
      BY <1>1, <1>3, <3>1
    <3> QED BY <1>3, <3>2
  <2>2. \A i \in 2..L : i \in 1..L /\ i - 1 \in 1..L
    BY <1>1
  <2>3. 1 \in 1..L /\ \A i \in 1..L : f[i] \in Seq(T)
    BY <1>1
  <2> QED BY <1>3, <2>1, <2>2, <2>3
<1> HIDE DEF g
<1>5. g = Join(g)
  <2>1. ASSUME NEW i \in 1..L
        PROVE  g[i] = IF i = 1 THEN s[i] ELSE g[i - 1] \o s[i]
    <3>1. i # 1 => i \in 2..L
      BY <1>1
    <3> HIDE DEF L
    <3> QED BY <1>4, <3>1
  <2>2. g = [i \in 1..L |-> g[i]]
    BY <1>4
  <2> HIDE DEF L
  <2> QED BY <2>1, <2>2
<1>6. joined = Join(joined)
  <2> HIDE DEF Join
  <2> QED BY <1>5
<1>7. FlattenSeq(s) = joined[L]
  BY <1>1 DEF FlattenSeq
<1> HIDE DEF joined
<1>8. \A i \in 1..L : joined[i] = g[i]
  <2> DEFINE R == {k \in Nat : k \in 1..L => joined[k] = g[k]}
  <2>1. \A i \in 1..L :
           joined[i] = IF i = 1 THEN s[i] ELSE joined[i - 1] \o s[i]
    <3> DEFINE h == Join(joined)
    <3>1. \A i \in 1..L : h[i] = IF i = 1 THEN s[i] ELSE joined[i - 1] \o s[i]
      OBVIOUS
    <3>2. joined = h
      BY <1>6
    <3> HIDE DEF h, L
    <3> QED BY <3>1, <3>2
  <2> HIDE DEF L
  <2>2. 0 \in R
    OBVIOUS
  <2>3. ASSUME NEW k \in Nat, k \in R PROVE k + 1 \in R
    <3> SUFFICES ASSUME k + 1 \in 1..L PROVE joined[k + 1] = g[k + 1]
      OBVIOUS
    <3>1. CASE k = 0
      <4>1. 1 \in 1..L /\ k + 1 = 1
        BY <1>1, <3>1
      <4> QED BY <4>1, <1>4, <2>1
    <3>2. CASE k # 0
      <4>1. k + 1 \in 2..L /\ k \in 1..L /\ (k + 1) - 1 = k /\ k + 1 # 1
        BY <3>2, <1>1
      <4>2. joined[k] = g[k]
        BY <2>3, <4>1
      <4>3. joined[k + 1] = joined[k] \o s[k + 1]
        BY <4>1, <2>1
      <4>4. g[k + 1] = g[k] \o s[k + 1]
        BY <4>1, <1>4
      <4> QED BY <4>2, <4>3, <4>4
    <3> QED BY <3>1, <3>2
  <2> HIDE DEF R
  <2>4. Nat \subseteq R
    BY <2>2, <2>3, SetInduction
  <2> QED BY <1>1, <2>4 DEF R
<1>9. L \in 1..L
  BY <1>1
<1>10. Joins(g, s)
  BY <1>4 DEF Joins
<1>11. FlattenSeq(s) = g[L]
  BY <1>7, <1>8, <1>9
<1> QED BY <1>4, <1>10, <1>11

\* One short part makes the whole short.
LEMMA ShortPartShortWhole ==
    ASSUME NEW T, NEW s \in Seq(Seq(T)), NEW v \in Seq(Seq(T)), s # <<>>,
           Len(v) = Len(s),
           \A b \in 1..Len(s) : Len(v[b]) <= Len(s[b]),
           NEW short \in 1..Len(s), Len(v[short]) < Len(s[short])
    PROVE  Len(FlattenSeq(v)) < Len(FlattenSeq(s))
<1> DEFINE L == Len(s)
<1>1. L \in Nat /\ L # 0 /\ v # <<>>
  OBVIOUS
<1>2. PICK f \in [1..L -> Seq(T)] : Joins(f, s) /\ FlattenSeq(s) = f[L]
  BY FlattenRuns
<1>3. PICK g \in [1..L -> Seq(T)] : Joins(g, v) /\ FlattenSeq(v) = g[L]
  BY <1>1, FlattenRuns
<1>4. /\ f[1] = s[1] /\ g[1] = v[1]
      /\ \A i \in 2..L : f[i] = f[i - 1] \o s[i] /\ g[i] = g[i - 1] \o v[i]
  BY <1>2, <1>3 DEF Joins
<1> DEFINE Shorter(k) == /\ Len(g[k]) <= Len(f[k])
                         /\ short <= k => Len(g[k]) < Len(f[k])
           R == {k \in Nat : k \in 1..L => Shorter(k)}
<1>5. 0 \in R
  OBVIOUS
<1>6. ASSUME NEW k \in Nat, k \in R PROVE k + 1 \in R
  <2> SUFFICES ASSUME k + 1 \in 1..L PROVE Shorter(k + 1)
    OBVIOUS
  <2>1. /\ Len(v[k + 1]) <= Len(s[k + 1])
        /\ short = k + 1 => Len(v[k + 1]) < Len(s[k + 1])
        /\ v[k + 1] \in Seq(T) /\ s[k + 1] \in Seq(T)
        /\ Len(v[k + 1]) \in Nat /\ Len(s[k + 1]) \in Nat
        /\ short \in Nat /\ short >= 1
    OBVIOUS
  <2>2. CASE k = 0
    <3>1. short <= 1 => short = 1
      BY <2>1
    <3> HIDE DEF L
    <3> QED BY <1>4, <2>1, <2>2, <3>1
  <2>3. CASE k # 0
    <3>1. k + 1 \in 2..L /\ k \in 1..L /\ (k + 1) - 1 = k
      BY <1>1, <2>3
    <3> HIDE DEF L
    <3>2. Shorter(k)
      BY <1>6, <3>1
    <3>3. /\ f[k] \in Seq(T) /\ g[k] \in Seq(T)
          /\ Len(f[k]) \in Nat /\ Len(g[k]) \in Nat
      <4>1. f[k] \in Seq(T) /\ g[k] \in Seq(T)
        BY <3>1
      <4> QED BY <4>1
    <3>4. f[k + 1] = f[k] \o s[k + 1] /\ g[k + 1] = g[k] \o v[k + 1]
      BY <1>4, <3>1
    <3>5. /\ Len(f[k + 1]) = Len(f[k]) + Len(s[k + 1])
          /\ Len(g[k + 1]) = Len(g[k]) + Len(v[k + 1])
      BY <2>1, <3>3, <3>4
    <3>6. \A a, b, c, d, m \in Nat :
             /\ a <= b /\ (m <= k => a < b)
             /\ c <= d /\ (m = k + 1 => c < d)
             => /\ a + c <= b + d
                /\ m <= k + 1 => a + c < b + d
      OBVIOUS
    <3> QED BY <2>1, <3>2, <3>3, <3>5, <3>6
  <2> QED BY <2>2, <2>3
<1> HIDE DEF R
<1>7. Nat \subseteq R
  BY <1>5, <1>6, SetInduction
<1>8. Shorter(L)
  <2>1. L \in R /\ L \in 1..L
    BY <1>1, <1>7
  <2> QED BY <2>1 DEF R
<1>9. short <= L
  OBVIOUS
<1> QED BY <1>2, <1>3, <1>8, <1>9

\* Where the batches begin, and that they are as many as are needed.
LEMMA BatchArithmetic ==
    ASSUME NEW l \in Nat, l # 0
    PROVE  LET n == (l + BATCH_SIZE - 1) \div BATCH_SIZE
           IN  /\ n \in Nat /\ n >= 1
               /\ \A b \in 1..n : /\ (b - 1) * BATCH_SIZE \in Nat
                                  /\ b * BATCH_SIZE \in Nat
                                  /\ (b - 1) * BATCH_SIZE < l
                                  /\ (b - 1) * BATCH_SIZE < b * BATCH_SIZE
                                  /\ b < n => b * BATCH_SIZE < l
               /\ n * BATCH_SIZE >= l
<1> DEFINE B == BATCH_SIZE
           N == l + B - 1
           n == N \div B
           r == N % B
<1>1. B \in Nat /\ B # 0 /\ N \in Nat /\ N >= B
  BY BatchIsPositive
<1> HIDE DEF B, N
<1>2. n \in Nat /\ r \in 0..(B - 1) /\ N = B * n + r
  BY <1>1
<1> HIDE DEF n, r
<1>3. n >= 1
  <2>1. CASE n = 0
    <3>1. B * n = 0
      BY <1>1, <2>1
    <3> QED BY <1>1, <1>2, <3>1
  <2> QED BY <1>2, <2>1
<1>4. N = l + B - 1
  BY DEF N, B
<1>5. n * B >= l
  <2>1. n * B = B * n /\ B * n \in Nat
    BY <1>1, <1>2
  <2> QED BY <1>1, <1>2, <1>4, <2>1
<1>6. (n - 1) * B < l
  <2>1. (n - 1) * B = B * n - B /\ B * n \in Nat
    BY <1>1, <1>2
  <2> QED BY <1>1, <1>2, <1>4, <2>1
<1>7. ASSUME NEW b \in 1..n
      PROVE  /\ (b - 1) * B \in Nat /\ b * B \in Nat
             /\ (b - 1) * B < l /\ (b - 1) * B < b * B
             /\ b < n => b * B < l
  <2>1. b \in Nat /\ b - 1 \in Nat /\ b <= n
    BY <1>2
  <2>2. (b - 1) * B \in Nat /\ b * B \in Nat /\ b * B = (b - 1) * B + B
    BY <1>1, <2>1
  <2>3. \A i \in Nat : i <= n - 1 => i * B <= (n - 1) * B
    BY <1>1, <1>2
  <2>4. (n - 1) * B \in Nat
    BY <1>1, <1>2, <1>3
  <2>5. (b - 1) * B <= (n - 1) * B /\ (b < n => b * B <= (n - 1) * B)
    BY <2>1, <2>3, <1>2
  <2> QED BY <1>1, <1>6, <2>2, <2>4, <2>5
<1> QED BY <1>2, <1>3, <1>5, <1>7 DEF n, N, B

\* Put together, the batches are the texts.
LEMMA BatchesJoin ==
    ASSUME NEW T, NEW texts \in Seq(T), texts # <<>>
    PROVE  /\ Batches(texts) \in Seq(Seq(T)) /\ Batches(texts) # <<>>
           /\ FlattenSeq(Batches(texts)) = texts
<1> DEFINE B == BATCH_SIZE
           l == Len(texts)
           n == (l + B - 1) \div B
           s == Batches(texts)
           End(b) == IF b * B < l THEN b * B ELSE l
           p == [j \in 1..(n + 1) |-> End(j - 1) + 1]
<1>1. l \in Nat /\ l # 0
  OBVIOUS
<1>2. /\ n \in Nat /\ n >= 1 /\ n * B >= l /\ B \in Nat
      /\ \A b \in 1..n : /\ (b - 1) * B \in Nat /\ b * B \in Nat
                         /\ (b - 1) * B < l /\ (b - 1) * B < b * B
  <2> HIDE DEF l
  <2> QED BY <1>1, BatchArithmetic, BatchIsPositive
<1>3. s = [b \in 1..n |-> SubSeq(texts, (b - 1) * B + 1, End(b))]
  BY DEF Batches
<1> HIDE DEF s, B, n, l
<1>4. /\ End(0) = 0 /\ End(n) = l
      /\ \A b \in 1..n : End(b - 1) = (b - 1) * B /\ End(b - 1) < End(b)
                         /\ End(b) \in Nat /\ End(b) <= l
  <2>1. 0 * B = 0
    BY <1>2
  <2>2. \A b \in 1..n : End(b - 1) = (b - 1) * B
    BY <1>2
  <2>3. End(n) = l
    <3>1. n * B \in Nat
      BY <1>2
    <3> QED BY <1>1, <1>2, <3>1
  <2> QED BY <1>1, <1>2, <2>1, <2>2, <2>3
<1>5. \A j \in 1..(n + 1) : End(j - 1) \in Nat /\ End(j - 1) <= l
  <2> TAKE j \in 1..(n + 1)
  <2>1. CASE j = 1
    <3>1. j - 1 = 0
      BY <2>1
    <3> QED BY <1>1, <1>4, <3>1
  <2>2. CASE j # 1
    <3>1. j - 1 \in 1..n
      BY <1>2, <2>2
    <3> HIDE DEF End
    <3> QED BY <1>4, <3>1
  <2> QED BY <2>1, <2>2
<1> HIDE DEF End
<1>6. \A j \in 1..(n + 1) : p[j] = End(j - 1) + 1
  OBVIOUS
<1>7. p \in [1..(n + 1) -> 1..(l + 1)]
  BY <1>1, <1>5
<1> HIDE DEF p
<1>8. \A b \in 1..n : /\ p[b] = (b - 1) * B + 1 /\ p[b + 1] = End(b) + 1
                      /\ p[b + 1] - 1 = End(b)
                      /\ p[b] < p[b + 1]
  <2> TAKE b \in 1..n
  <2>1. b \in 1..(n + 1) /\ b + 1 \in 1..(n + 1) /\ (b + 1) - 1 = b
    BY <1>2
  <2>2. p[b] = End(b - 1) + 1 /\ p[b + 1] = End(b) + 1
    BY <1>6, <2>1
  <2>3. End(b - 1) = (b - 1) * B /\ End(b - 1) < End(b) /\ End(b) \in Nat
    BY <1>4
  <2>4. End(b - 1) \in Nat
    BY <1>5, <2>1
  <2> QED BY <2>2, <2>3, <2>4
<1>9. /\ s \in Seq(Seq(T)) /\ s # <<>> /\ Len(s) = n
      /\ \A b \in 1..n : s[b] = SubSeq(texts, p[b], p[b + 1] - 1)
  <2>1. \A b \in 1..n : s[b] = SubSeq(texts, (b - 1) * B + 1, End(b))
    BY <1>3
  <2>2. ASSUME NEW b \in 1..n PROVE s[b] \in Seq(T)
    <3>1. (b - 1) * B \in Nat /\ (b - 1) * B + 1 >= 1 /\ End(b) <= Len(texts)
      BY <1>2, <1>4 DEF l
    <3>2. End(b) \in Nat /\ Len(texts) \in Nat
      BY <1>4
    <3> DEFINE first == (b - 1) * B + 1
               last == End(b)
    <3>3. first \in Int /\ first >= 1 /\ last \in Int /\ last <= Len(texts)
      BY <3>1, <3>2
    <3>4. s[b] = SubSeq(texts, first, last)
      BY <2>1
    <3> HIDE DEF first, last
    <3>5. \A i \in first..last : i \in 1..Len(texts)
      BY <3>2, <3>3
    <3> QED BY <3>3, <3>4, <3>5, SubSeqProperties
  <2>3. s \in [1..n -> Seq(T)] /\ DOMAIN s = 1..n
    BY <1>3, <2>1, <2>2
  <2>4. s \in Seq(Seq(T)) /\ Len(s) = n
    BY <1>2, <2>3
  <2>5. \A b \in 1..n : s[b] = SubSeq(texts, p[b], p[b + 1] - 1)
    BY <1>8, <2>1
  <2> QED BY <1>2, <2>4, <2>5
<1>10. FlattenSeq(s) = SubSeq(texts, p[1], p[n + 1] - 1)
  <2>1. p \in [1..(Len(s) + 1) -> 1..(Len(texts) + 1)]
    BY <1>7, <1>9 DEF l
  <2>2. \A j \in 1..Len(s) :
           p[j] < p[j + 1] /\ s[j] = SubSeq(texts, p[j], p[j + 1] - 1)
    BY <1>8, <1>9
  <2>3. s \in Seq(Seq(T)) /\ s # <<>> /\ Len(s) = n
    BY <1>9
  <2>4. FlattenSeq(s) = SubSeq(texts, p[1], p[Len(s) + 1] - 1)
    BY <2>1, <2>2, <2>3, PartsJoined
  <2> QED BY <2>3, <2>4
<1>11. p[1] = 1 /\ p[n + 1] - 1 = Len(texts)
  <2>1. 1 \in 1..(n + 1) /\ n + 1 \in 1..(n + 1) /\ 1 - 1 = 0
        /\ (n + 1) - 1 = n
    BY <1>2
  <2> QED BY <1>1, <1>4, <1>6, <2>1 DEF l
<1>12. FlattenSeq(s) = texts
  BY <1>10, <1>11, SubSeqFull
<1> QED BY <1>9, <1>12 DEF s

LEMMA LengthOfList ==
    ASSUME NEW n \in Nat, NEW f, f = [i \in 1..n |-> f[i]]
    PROVE  f \in Seq({f[i] : i \in DOMAIN f}) /\ Len(f) = n
<1> DEFINE S == {f[i] : i \in DOMAIN f}
<1>1. DOMAIN f = 1..n
  OBVIOUS
<1>2. \A i \in 1..n : f[i] \in S
  BY <1>1
<1> HIDE DEF S
<1>3. f \in [1..n -> S]
  BY <1>2
<1>4. f \in Seq(S) /\ Len(f) = n
  BY <1>3
<1> QED BY <1>4 DEF S

AllOrTooFew(v, r, batch) ==
    /\ v \in Seq({v[i] : i \in DOMAIN v})
    /\ Len(r.items) = Len(batch) => v = batch
    /\ Len(r.items) # Len(batch) => Len(v) < Len(batch)

\* A response has the vectors of its batch, or too few.
LEMMA VectorsAreAllOrTooFew ==
    ASSUME NEW T, NEW batch \in Seq(T), NEW r \in Responses(batch)
    PROVE  AllOrTooFew(VectorsIn(r), r, batch)
<1> DEFINE n == Len(batch)
           v == VectorsIn(r)
<1>1. n \in Nat
  OBVIOUS
<1>2. PICK k \in {n, n - 1} : DOMAIN r.items = 1..k /\ DOMAIN v = 1..k
  BY VectorsOfABatch
<1>3. DOMAIN r.items = 1..n => v = batch
  BY VectorsOfABatch
<1>4. r.items = [i \in DOMAIN r.items |-> r.items[i]]
  <2>1. PICK status \in {200, 429}, o \in Orders(n), m \in {n, n - 1} :
           r = [status |-> status,
                items |-> [i \in 1..m |-> [index |-> o[i] - 1,
                                           embedding |-> batch[o[i]]]]]
    BY DEF Responses
  <2> DEFINE items == [i \in 1..m |-> [index |-> o[i] - 1,
                                       embedding |-> batch[o[i]]]]
  <2>2. items = [i \in DOMAIN items |-> items[i]]
    OBVIOUS
  <2>3. r.items = items
    BY <2>1
  <2> HIDE DEF items
  <2> QED BY <2>2, <2>3
<1>5. v = [i \in DOMAIN v |-> v[i]]
  <2>1. v = [i \in DOMAIN r.items |-> Ordered(r.items)[i].embedding]
    BY DEF VectorsIn
  <2> HIDE DEF v
  <2> QED BY <2>1
<1> DEFINE items == r.items
<1> HIDE DEF n, v, items
<1>6. CASE DOMAIN items = 1..n
  <2>1. items = [i \in 1..n |-> items[i]]
    BY <1>4, <1>6 DEF items
  <2>2. Len(items) = n
    BY <1>1, <2>1, LengthOfList
  <2>3. v = batch
    BY <1>3, <1>6 DEF items
  <2>4. v = [i \in 1..n |-> v[i]]
    <3>1. DOMAIN v = 1..n
      BY <1>2, <1>6 DEF items
    <3> QED BY <1>5, <3>1
  <2>5. v \in Seq({v[i] : i \in DOMAIN v})
    BY <1>1, <2>4, LengthOfList
  <2> QED BY <2>2, <2>3, <2>5 DEF n, v, items, AllOrTooFew
<1>7. CASE DOMAIN items # 1..n
  <2>1. k = n - 1 /\ n # 0
    <3>1. k = n - 1
      BY <1>2, <1>7 DEF items
    <3>2. n = 0 => 1..(n - 1) = 1..n
      OBVIOUS
    <3> QED BY <1>2, <1>7, <3>1, <3>2 DEF items
  <2>2. k \in Nat /\ k < n
    BY <1>1, <2>1
  <2>3. items = [i \in 1..k |-> items[i]] /\ v = [i \in 1..k |-> v[i]]
    BY <1>2, <1>4, <1>5 DEF items
  <2>4. Len(items) = k
    BY <2>2, <2>3, LengthOfList
  <2>5. Len(v) = k /\ v \in Seq({v[i] : i \in DOMAIN v})
    BY <2>2, <2>3, LengthOfList
  <2>6. Len(items) # n /\ Len(v) < n
    BY <1>1, <2>2, <2>4, <2>5
  <2> QED BY <2>5, <2>6 DEF n, v, items, AllOrTooFew
<1> QED BY <1>6, <1>7

\* A vector is the one of its own text, or none is used.
LEMMA AlignedOrNone ==
    ASSUME NEW T, NEW texts \in Seq(T), texts # <<>>,
           NEW responses \in Answers(Batches(texts))
    PROVE  EmbedTexts(texts, responses)
              = IF \A b \in DOMAIN responses :
                      /\ responses[b].status = 200
                      /\ Len(responses[b].items) = Len(Batches(texts)[b])
                THEN {texts} ELSE {}
<1> DEFINE s == Batches(texts)
           n == Len(s)
           v == [b \in DOMAIN responses |-> VectorsIn(responses[b])]
           Is200(b) == responses[b].status = 200
           IsFull(b) == Len(responses[b].items) = Len(s[b])
           vectors == VectorsOf(responses)
           U == T \union UNION {{v[b][i] : i \in DOMAIN v[b]} : b \in 1..n}
<1>1. /\ s \in Seq(Seq(T)) /\ s # <<>> /\ FlattenSeq(s) = texts
      /\ n \in Nat /\ DOMAIN s = 1..n
  <2>1. s \in Seq(Seq(T)) /\ s # <<>> /\ FlattenSeq(s) = texts
    BY BatchesJoin
  <2> HIDE DEF s
  <2> QED BY <2>1
<1>2. DOMAIN responses = 1..n /\ \A b \in 1..n : responses[b] \in Responses(s[b])
  BY <1>1 DEF Answers
<1>3. vectors = FlattenSeq(v)
  BY DEF VectorsOf, VectorsIn
<1>4. EmbedTexts(texts, responses)
         = IF (\E b \in 1..n : ~Is200(b)) \/ Len(vectors) # Len(texts)
           THEN {} ELSE {vectors}
  BY <1>2 DEF EmbedTexts
<1> HIDE DEF s, n, vectors
<1>5. \A b \in 1..n : s[b] \in Seq(T) /\ Len(s[b]) \in Nat
  BY <1>1
<1>6. DOMAIN v = 1..n /\ v = [b \in 1..n |-> VectorsIn(responses[b])]
  BY <1>2
<1> HIDE DEF v
<1>7. ASSUME NEW b \in 1..n
      PROVE  /\ v[b] \in Seq({v[b][i] : i \in DOMAIN v[b]})
             /\ IsFull(b) => v[b] = s[b]
             /\ ~IsFull(b) => Len(v[b]) < Len(s[b])
  <2>1. v[b] = VectorsIn(responses[b])
    BY <1>6
  <2>2. s[b] \in Seq(T) /\ responses[b] \in Responses(s[b])
    BY <1>2, <1>5
  <2>3. AllOrTooFew(v[b], responses[b], s[b])
    BY <2>1, <2>2, VectorsAreAllOrTooFew
  <2> QED BY <2>3 DEF AllOrTooFew
<1> HIDE DEF IsFull, Is200
<1>11. \A b \in 1..n : IsFull(b) => v[b] = s[b]
  BY <1>7, Zenon
<1>12. \A b \in 1..n : ~IsFull(b) => Len(v[b]) < Len(s[b])
  BY <1>7, Zenon
<1>8. CASE \E b \in 1..n : ~Is200(b)
  BY <1>2, <1>4, <1>8 DEF s, Is200
<1>9. CASE (\A b \in 1..n : Is200(b)) /\ (\A b \in 1..n : IsFull(b))
  <2>1. v = s
    <3>1. \A b \in 1..n : v[b] = s[b]
      BY <1>9, <1>11, Zenon
    <3>2. s = [b \in 1..n |-> s[b]] /\ v = [b \in 1..n |-> v[b]]
      BY <1>1, <1>6
    <3> QED BY <3>1, <3>2
  <2>2. vectors = texts
    BY <1>1, <1>3, <2>1
  <2> QED BY <1>2, <1>4, <1>9, <2>2 DEF s, Is200, IsFull
<1>10. CASE (\A b \in 1..n : Is200(b)) /\ (\E b \in 1..n : ~IsFull(b))
  <2>1. PICK b \in 1..n : ~IsFull(b)
    BY <1>10
  <2>2. v \in Seq(Seq(U)) /\ Len(v) = n
    <3>1. \A c \in 1..n : v[c] \in Seq(U)
      <4> TAKE c \in 1..n
      <4> DEFINE W == {v[c][i] : i \in DOMAIN v[c]}
      <4>1. v[c] \in Seq(W) /\ W \subseteq U
        BY <1>7
      <4> HIDE DEF W, U
      <4> QED BY <4>1
    <3> HIDE DEF U
    <3>2. v \in [1..n -> Seq(U)]
      BY <1>6, <3>1
    <3> QED BY <1>1, <3>2
  <2>3. s \in Seq(Seq(U)) /\ Len(s) = n
    <3>1. T \subseteq U
      OBVIOUS
    <3> HIDE DEF U
    <3>2. \A c \in 1..n : s[c] \in Seq(U)
      BY <1>5, <3>1
    <3>3. s \in [1..n -> Seq(U)]
      BY <1>1, <3>2
    <3> QED BY <1>1, <3>3
  <2> HIDE DEF U
  <2>4. ASSUME NEW c \in 1..n PROVE Len(v[c]) <= Len(s[c])
    <3>1. CASE IsFull(c)
      BY <1>5, <1>11, <3>1
    <3>2. CASE ~IsFull(c)
      <4>1. Len(v[c]) < Len(s[c]) /\ v[c] \in Seq(U)
        BY <1>12, <2>2, <3>2
      <4> QED BY <1>5, <4>1
    <3> QED BY <3>1, <3>2
  <2>5. Len(v[b]) < Len(s[b])
    BY <1>12, <2>1
  <2>6. Len(FlattenSeq(v)) < Len(FlattenSeq(s))
    BY <1>1, <2>2, <2>3, <2>4, <2>5, ShortPartShortWhole
  <2>7. Len(vectors) # Len(texts)
    BY <1>1, <1>3, <2>6
  <2> QED BY <1>2, <1>4, <2>1, <2>7 DEF s, IsFull, Is200
<1> QED BY <1>8, <1>9, <1>10

EmbeddingInv ==
    About("embedding") =>
        /\ subject.texts \in Seq(Nat) /\ subject.texts # <<>>
        /\ subject.responses \in Answers(Batches(subject.texts))

LEMMA EmbeddingsAreAnswered == Spec => []EmbeddingInv
<1>1. Init => EmbeddingInv
  BY DEF Init, EmbeddingInv, About
<1>2. Shape /\ EmbeddingInv /\ [Next]_subject => EmbeddingInv'
  <2> SUFFICES ASSUME Shape, EmbeddingInv, [Next]_subject,
                      subject'.of = "embedding"
               PROVE  /\ subject'.texts \in Seq(Nat) /\ subject'.texts # <<>>
                      /\ subject'.responses \in Answers(Batches(subject'.texts))
    BY DEF EmbeddingInv, About
  <2>1. CASE UNCHANGED subject
    BY <2>1 DEF EmbeddingInv, About
  <2>2. CASE Embedding
    <3>1. PICK n \in 1..3 :
             LET texts == [i \in 1..n |-> i]
             IN  \E responses \in Answers(Batches(texts)) :
                    subject' = [of |-> "embedding", texts |-> texts,
                                responses |-> responses]
      BY <2>2, Zenon DEF Embedding
    <3> DEFINE texts == [i \in 1..n |-> i]
    <3>2. PICK responses \in Answers(Batches(texts)) :
             subject' = [of |-> "embedding", texts |-> texts,
                         responses |-> responses]
      BY <3>1, Zenon
    <3>3. texts \in Seq(Nat) /\ texts # <<>>
      <4>1. texts \in [1..n -> Nat] /\ n \in Nat
        OBVIOUS
      <4>2. texts \in Seq(Nat) /\ Len(texts) = n
        <5> HIDE DEF texts
        <5> QED BY <4>1
      <4> HIDE DEF texts
      <4> QED BY <4>2
    <3> HIDE DEF texts
    <3>4. subject'.texts = texts /\ subject'.responses = responses
      BY <3>2
    <3> QED BY <3>2, <3>3, <3>4
  <2> QED BY <2>1, <2>2, EveryStepHasItsOrigin DEF Origin
<1> QED BY <1>1, <1>2, EverySubjectHasItsShape, PTL DEF Spec

RefusalInv ==
    About("refusal") =>
        /\ subject.response.body \in {"prose", "object", "list"}
        /\ subject.response.code = <<"tool_use_failed">>

LEMMA RefusalsHaveBodies == Spec => []RefusalInv
<1>1. Init => RefusalInv
  BY DEF Init, RefusalInv, About
<1>2. Shape /\ RefusalInv /\ [Next]_subject => RefusalInv'
  <2> SUFFICES ASSUME Shape, RefusalInv, [Next]_subject,
                      subject'.of = "refusal"
               PROVE  /\ subject'.response.body \in {"prose", "object", "list"}
                      /\ subject'.response.code = <<"tool_use_failed">>
    BY DEF RefusalInv, About
  <2>1. CASE UNCHANGED subject
    BY <2>1 DEF RefusalInv, About
  <2>2. CASE Refusal
    <3>1. PICK status \in {400, 401, 429, 500},
               body \in {"prose", "object", "list"}, named \in BOOLEAN :
             subject' = [of |-> "refusal",
                         response |-> [status |-> status, body |-> body,
                                       named |-> named,
                                       code |-> <<"tool_use_failed">>]]
      BY <2>2, Zenon DEF Refusal
    <3> DEFINE r == [status |-> status, body |-> body, named |-> named,
                     code |-> <<"tool_use_failed">>]
    <3>2. r.body = body /\ r.code = <<"tool_use_failed">>
      BY Zenon
    <3>3. subject'.response = r
      <4> HIDE DEF r
      <4>1. subject' = [of |-> "refusal", response |-> r]
        BY <3>1, Zenon DEF r
      <4> QED BY <4>1
    <3> HIDE DEF r
    <3> QED BY <3>2, <3>3
  <2> QED BY <2>1, <2>2, EveryStepHasItsOrigin DEF Origin
<1> QED BY <1>1, <1>2, EverySubjectHasItsShape, PTL DEF Spec

(* A reply cut into frames any way, with noise between them and the pieces *)
(* of its calls interleaved, is to stream() what it is whole to            *)
(* complete(), and the user has heard its words; a refusal has its code;   *)
(* a batch of embeddings has its vectors in order, or none is used.        *)
THEOREM EveryReplyIsWhole == Spec => []RepliesAreWhole
<1>1. StreamInv /\ EmbeddingInv /\ RefusalInv => RepliesAreWhole
  <2> SUFFICES ASSUME StreamInv, EmbeddingInv, RefusalInv
               PROVE  RepliesAreWhole
    OBVIOUS
  <2>1. ASSUME About("stream")
        PROVE  /\ Streamed(subject.frames) = Buffered(Said)
               /\ Heard(subject.frames) = Said.text
               /\ ComesBack
    BY <2>1, StreamedIsBuffered DEF StreamInv
  <2>2. ASSUME About("embedding") PROVE VectorsAligned
    <3> DEFINE texts == subject.texts
               responses == subject.responses
    <3>1. /\ texts \in Seq(Nat) /\ texts # <<>>
          /\ responses \in Answers(Batches(texts))
      BY <2>2 DEF EmbeddingInv
    <3>2. EmbedTexts(texts, responses)
             = IF \A b \in DOMAIN responses :
                     /\ responses[b].status = 200
                     /\ Len(responses[b].items) = Len(Batches(texts)[b])
               THEN {texts} ELSE {}
      <4> HIDE DEF texts, responses
      <4> QED BY <3>1, AlignedOrNone
    <3> QED BY <3>2, Zenon DEF VectorsAligned
  <2>3. ASSUME About("refusal"), subject.response.status = 400
        PROVE  LET known == subject.response.body # "prose"
                              /\ subject.response.named
               IN  Raised(subject.response).code
                      = IF known THEN <<"tool_use_failed">> ELSE None
    <3> DEFINE r == subject.response
    <3>1. r.body \in {"prose", "object", "list"}
          /\ r.code = <<"tool_use_failed">> /\ r.status = 400
      BY <2>3 DEF RefusalInv
    <3> HIDE DEF r
    <3>2. Raised(r).code = ErrorCode(r)
      <4>1. Raised(r) = [error |-> "LLMBadRequest", code |-> ErrorCode(r)]
        BY <3>1 DEF Raised
      <4> QED BY <4>1
    <3>3. r.body \in {"object", "list"} <=> r.body # "prose"
      BY <3>1
    <3>4. ErrorCode(r) = IF r.body # "prose" /\ r.named
                         THEN <<"tool_use_failed">> ELSE None
      BY <3>1, <3>3, Zenon DEF ErrorCode
    <3> QED BY <3>2, <3>4, Zenon DEF r
  <2> QED BY <2>1, <2>2, <2>3 DEF RepliesAreWhole
<1> QED BY <1>1, StreamsReflect, EmbeddingsAreAnswered, RefusalsHaveBodies, PTL

-----------------------------------------------------------------------------
(***************************************************************************)
(* What a tool's answer depends on, for any database.                      *)
(***************************************************************************)
\* A shop's collections; users have ids of their own, and no two coupons
\* were written at once.
IsDatabase(db) ==
    /\ DOMAIN db = {"products", "orders", "bargains", "coupons", "carts",
                    "addresses", "notifications", "users", "livesessions",
                    "bits", "reviews", "payouts", "ranking", "indexed",
                    "tagged", "vectors", "embedder"}
    /\ IsFiniteSet(db.users) /\ IsFiniteSet(db.coupons)
    /\ \A u \in db.users : {"id", "name", "rating", "seller"} \subseteq DOMAIN u
    /\ \A u, v \in db.users : u.id = v.id => u = v
    /\ \A c \in db.coupons :
          /\ {"code", "inCapitals", "at", "active", "start", "end",
              "minSpend", "maxUse", "usedBy"} \subseteq DOMAIN c
          /\ IsList(c.usedBy)
    /\ \A c, d \in db.coupons : c.at = d.at => c = d

\* What of a user or of a coupon is this shopper's or anyone's.
ShownTo(u, user) ==
    IF u.id = user THEN u
    ELSE [u EXCEPT !.saved = <<>>, !.liked = <<>>, !.savedBits = <<>>,
                   !.followers = <<>>, !.following = <<>>]
UsedBy(c, user) == [c EXCEPT !.usedBy = Only(@, {user})]

\* less is db as far as it is this shopper's or anyone's.
Hides(less, db, user) ==
    /\ less.products = db.products /\ less.livesessions = db.livesessions
    /\ less.bits = db.bits /\ less.reviews = db.reviews
    /\ less.ranking = db.ranking
    /\ less.indexed = db.indexed /\ less.tagged = db.tagged
    /\ less.vectors = db.vectors /\ less.embedder = db.embedder
    /\ less.orders = {o \in db.orders : o.buyer = user}
    /\ less.bargains = {b \in db.bargains : b.buyer = user}
    /\ less.carts = {c \in db.carts : c.user = user}
    /\ less.addresses = {a \in db.addresses : a.user = user}
    /\ less.notifications = {n \in db.notifications : n.user = user}
    /\ less.coupons = {UsedBy(c, user) : c \in db.coupons}
    /\ less.users = {ShownTo(u, user) : u \in db.users}

LEMMA VisibleHides ==
    ASSUME NEW db, NEW user, IsDatabase(db)
    PROVE  Hides(Visible(db, user), db, user)
<1> DEFINE orders == {o \in db.orders : o.buyer = user}
           bargains == {b \in db.bargains : b.buyer = user}
           carts == {c \in db.carts : c.user = user}
           addresses == {a \in db.addresses : a.user = user}
           notifications == {n \in db.notifications : n.user = user}
           coupons == {UsedBy(c, user) : c \in db.coupons}
           users == {ShownTo(u, user) : u \in db.users}
           less == [db EXCEPT !.orders = orders, !.bargains = bargains,
                       !.carts = carts, !.addresses = addresses,
                       !.notifications = notifications,
                       !.coupons = coupons, !.users = users]
<1>1. Visible(db, user) = less
  BY Zenon DEF Visible, ShownTo, UsedBy
<1> HIDE DEF orders, bargains, carts, addresses, notifications, coupons, users
<1>2. /\ less.products = db.products /\ less.livesessions = db.livesessions
      /\ less.bits = db.bits /\ less.reviews = db.reviews
      /\ less.ranking = db.ranking
      /\ less.indexed = db.indexed /\ less.tagged = db.tagged
      /\ less.vectors = db.vectors /\ less.embedder = db.embedder
      /\ less.orders = orders /\ less.bargains = bargains
      /\ less.carts = carts /\ less.addresses = addresses
      /\ less.notifications = notifications
      /\ less.coupons = coupons /\ less.users = users
  BY DEF IsDatabase
<1> HIDE DEF less
<1> QED BY <1>1, <1>2, Zenon
        DEF Hides, orders, bargains, carts, addresses, notifications, coupons,
            users

LEMMA ImageCounts ==
    ASSUME NEW S, IsFiniteSet(S), NEW f, DOMAIN f = S, f = [x \in S |-> f[x]],
           \A x, y \in S : f[x] = f[y] => x = y
    PROVE  Cardinality({f[x] : x \in S}) = Cardinality(S)
<1> DEFINE R == {f[x] : x \in S}
<1>1. \A x \in S : f[x] \in R
  OBVIOUS
<1>2. \A y \in R : \E x \in S : f[x] = y
  OBVIOUS
<1> HIDE DEF R
<1>3. f \in Bijection(S, R)
  BY <1>1, <1>2 DEF Bijection, Injection, Surjection, IsInjective
<1>4. IsFiniteSet(R) /\ Cardinality(R) = Cardinality(S)
  BY <1>3, FS_Bijection DEF ExistsBijection
<1> QED BY <1>4 DEF R

LEMMA ShownToIsTheSame ==
    ASSUME NEW db, NEW user, IsDatabase(db), NEW u \in db.users
    PROVE  LET v == ShownTo(u, user)
           IN  /\ v.id = u.id /\ v.name = u.name /\ v.rating = u.rating
               /\ v.seller = u.seller
               /\ u.id = user => v = u
<1>1. {"id", "name", "rating", "seller"} \subseteq DOMAIN u
  BY DEF IsDatabase
<1> QED BY <1>1 DEF ShownTo

LEMMA UsedByIsTheSame ==
    ASSUME NEW db, NEW user, IsDatabase(db), NEW c \in db.coupons
    PROVE  LET d == UsedBy(c, user)
           IN  /\ d.code = c.code /\ d.inCapitals = c.inCapitals
               /\ d.at = c.at /\ d.active = c.active /\ d.start = c.start
               /\ d.end = c.end /\ d.minSpend = c.minSpend
               /\ d.maxUse = c.maxUse
               /\ user \in ToSet(d.usedBy) <=> user \in ToSet(c.usedBy)
<1>1. /\ {"code", "inCapitals", "at", "active", "start", "end",
          "minSpend", "maxUse", "usedBy"} \subseteq DOMAIN c
      /\ IsList(c.usedBy)
  BY DEF IsDatabase
<1> DEFINE uses == Only(c.usedBy, {user})
<1>2. user \in ToSet(uses) <=> user \in ToSet(c.usedBy)
  <2>1. PICK T : c.usedBy \in Seq(T)
    BY <1>1 DEF IsList
  <2>2. ToSet(uses) = ToSet(c.usedBy) \intersect {user}
    BY <2>1, OnlyMembers
  <2> QED BY <2>2
<1> HIDE DEF uses
<1> DEFINE d == [c EXCEPT !.usedBy = uses]
<1>3. UsedBy(c, user) = d
  BY DEF UsedBy, uses
<1>4. /\ d.code = c.code /\ d.inCapitals = c.inCapitals
      /\ d.at = c.at /\ d.active = c.active /\ d.start = c.start
      /\ d.end = c.end /\ d.minSpend = c.minSpend
      /\ d.maxUse = c.maxUse /\ d.usedBy = uses
  BY <1>1
<1> HIDE DEF d
<1> QED BY <1>2, <1>3, <1>4

Whose(d, ids) == {v \in d.users : v.id \in ids}

LEMMA UsersAgree ==
    ASSUME NEW db, NEW less, NEW user, IsDatabase(db), Hides(less, db, user)
    PROVE  /\ FindUser(less, user) = FindUser(db, user)
           /\ \A id : {u.rating : u \in FindUser(less, id)}
                         = {u.rating : u \in FindUser(db, id)}
           /\ \A ids : /\ Cardinality(Whose(less, ids))
                              = Cardinality(Whose(db, ids))
                       /\ {v.name : v \in Whose(less, ids)}
                              = {v.name : v \in Whose(db, ids)}
<1>1. less.users = {ShownTo(u, user) : u \in db.users}
  BY DEF Hides
<1>2. \A u \in db.users :
         /\ ShownTo(u, user).id = u.id /\ ShownTo(u, user).name = u.name
         /\ ShownTo(u, user).rating = u.rating
         /\ u.id = user => ShownTo(u, user) = u
  BY ShownToIsTheSame
<1>3. FindUser(less, user) = FindUser(db, user)
  BY <1>1, <1>2 DEF FindUser
<1>4. ASSUME NEW id
      PROVE  {u.rating : u \in FindUser(less, id)}
                = {u.rating : u \in FindUser(db, id)}
  BY <1>1, <1>2 DEF FindUser
<1>5. ASSUME NEW ids
      PROVE  /\ Cardinality(Whose(less, ids)) = Cardinality(Whose(db, ids))
             /\ {v.name : v \in Whose(less, ids)}
                    = {v.name : v \in Whose(db, ids)}
  <2> DEFINE seen == {v \in less.users : v.id \in ids}
             all == {v \in db.users : v.id \in ids}
             f == [v \in all |-> ShownTo(v, user)]
  <2>1. seen = {f[v] : v \in all}
    BY <1>1, <1>2
  <2>2. \A u, v \in all : f[u] = f[v] => u = v
    <3> TAKE u, v \in all
    <3>1. u \in db.users /\ v \in db.users
      OBVIOUS
    <3>2. f[u] = f[v] => u.id = v.id
      BY <1>2, <3>1
    <3> QED BY <3>1, <3>2 DEF IsDatabase
  <2>3. IsFiniteSet(all)
    <3>1. IsFiniteSet(db.users) /\ all \subseteq db.users
      BY DEF IsDatabase
    <3> QED BY <3>1, FS_Subset
  <2>4. DOMAIN f = all /\ f = [v \in all |-> f[v]]
    OBVIOUS
  <2>5. {v.name : v \in seen} = {v.name : v \in all}
    BY <1>1, <1>2
  <2> HIDE DEF f, all, seen
  <2>6. Cardinality(seen) = Cardinality(all)
    BY <2>1, <2>2, <2>3, <2>4, ImageCounts
  <2> QED BY <2>5, <2>6 DEF all, seen, Whose
<1> QED BY <1>3, <1>4, <1>5, Zenon

LEMMA CouponsAgree ==
    ASSUME NEW db, NEW less, NEW user, IsDatabase(db), Hides(less, db, user),
           NEW code, NEW now, NEW total
    PROVE  CheckCoupon(less, code, user, now, total)
              = CheckCoupon(db, code, user, now, total)
<1> DEFINE H(c) == UsedBy(c, user)
           Of(d) == Earliest({c \in d.coupons : c.code = code})
           Judged(d, c) ==
               LET reason == CouponReason(d, c, user, now, total)
               IN  [valid |-> reason = "", reason |-> reason]
<1>1. less.coupons = {H(c) : c \in db.coupons}
  BY DEF Hides
<1>2. \A c \in db.coupons :
         /\ H(c).code = c.code /\ H(c).inCapitals = c.inCapitals
         /\ H(c).at = c.at /\ H(c).active = c.active /\ H(c).start = c.start
         /\ H(c).end = c.end /\ H(c).minSpend = c.minSpend
         /\ H(c).maxUse = c.maxUse
         /\ user \in ToSet(H(c).usedBy) <=> user \in ToSet(c.usedBy)
  BY UsedByIsTheSame
<1> HIDE DEF H
<1>3. Of(less) = {H(c) : c \in Of(db)}
  BY <1>1, <1>2 DEF Earliest
<1>4. ASSUME NEW c \in db.coupons
      PROVE  AlreadyUsed(less, H(c), user) = AlreadyUsed(db, c, user)
  <2> DEFINE all == {d \in db.coupons : /\ d.code = c.code
                                        /\ d.inCapitals = c.inCapitals
                                        /\ user \in ToSet(d.usedBy)}
             seen == {d \in less.coupons : /\ d.code = H(c).code
                                           /\ d.inCapitals = H(c).inCapitals
                                           /\ user \in ToSet(d.usedBy)}
             f == [d \in all |-> H(d)]
  <2>6. \A d \in db.coupons : H(d) \in seen <=> d \in all
    BY <1>1, <1>2
  <2>7. seen \subseteq less.coupons /\ all \subseteq db.coupons
    OBVIOUS
  <2>8. \A d \in all : f[d] = H(d)
    OBVIOUS
  <2>1. seen = {f[d] : d \in all}
    <3> HIDE DEF seen, all, f
    <3> QED BY <1>1, <2>6, <2>7, <2>8
  <2>2. \A d, e \in all : f[d] = f[e] => d = e
    <3> TAKE d, e \in all
    <3>1. d \in db.coupons /\ e \in db.coupons
      OBVIOUS
    <3>2. f[d] = f[e] => d.at = e.at
      BY <1>2, <3>1
    <3> QED BY <3>1, <3>2 DEF IsDatabase
  <2>3. IsFiniteSet(all)
    <3>1. IsFiniteSet(db.coupons) /\ all \subseteq db.coupons
      BY DEF IsDatabase
    <3> QED BY <3>1, FS_Subset
  <2>4. DOMAIN f = all /\ f = [d \in all |-> f[d]]
    OBVIOUS
  <2> HIDE DEF f, all, seen
  <2>5. Cardinality(seen) = Cardinality(all)
    BY <2>1, <2>2, <2>3, <2>4, ImageCounts
  <2> QED BY <2>5 DEF AlreadyUsed, seen, all
<1>5. ASSUME NEW c \in db.coupons
      PROVE  Judged(less, H(c)) = Judged(db, c)
  <2>1. CouponReason(less, H(c), user, now, total)
           = CouponReason(db, c, user, now, total)
    BY <1>2, <1>4 DEF CouponReason
  <2> QED BY <2>1
<1>6. Of(db) \subseteq db.coupons
  BY DEF Earliest
<1>7. \A d : CheckCoupon(d, code, user, now, total)
                = IF Of(d) = {} THEN {[valid |-> FALSE, reason |-> "not_found"]}
                  ELSE {Judged(d, c) : c \in Of(d)}
  BY Zenon DEF CheckCoupon
<1> HIDE DEF Of, Judged
<1>8. Of(less) = {} <=> Of(db) = {}
  BY <1>3
<1>9. {Judged(less, c) : c \in Of(less)} = {Judged(db, c) : c \in Of(db)}
  BY <1>3, <1>5, <1>6
<1> QED BY <1>7, <1>8, <1>9

LEMMA ResolvedAgree ==
    ASSUME NEW db, NEW less, NEW user, Hides(less, db, user), NEW ids
    PROVE  Resolved(less, ids) = Resolved(db, ids)
<1> DEFINE Of(products) ==
               LET forSale == {p.id : p \in {q \in products : ~q.sold}}
                   kept == Only(ids, forSale)
               IN  [n \in DOMAIN kept |->
                       CHOOSE p \in products : p.id = kept[n]]
<1>1. \A d : Resolved(d, ids) = Of(d.products)
  BY Zenon DEF Resolved
<1> HIDE DEF Of
<1>2. less.products = db.products
  BY DEF Hides
<1> QED BY <1>1, <1>2, Zenon

LEMMA BrowsedAgree ==
    ASSUME NEW db, NEW less, NEW user, IsDatabase(db), Hides(less, db, user),
           NEW tool \in BROWSING, NEW given,
           tool \in NeedsUser => given.user_id = user
    PROVE  Browsed(less, tool, given) = Browsed(db, tool, given)
<1> DEFINE limit == Limit(given, IF tool = "search_products" THEN 20 ELSE 5)
<1>1. /\ less.products = db.products /\ less.ranking = db.ranking
      /\ less.indexed = db.indexed /\ less.vectors = db.vectors
      /\ less.embedder = db.embedder
  BY DEF Hides
<1>2. \A q : SearchProducts(less, q, limit) = SearchProducts(db, q, limit)
  BY <1>1, Zenon DEF SearchProducts
<1>3. \A word, indexed : ByName(less, word, limit, indexed)
                            = ByName(db, word, limit, indexed)
  BY <1>1, Zenon DEF ByName, ByNameRegex
<1>4. \A query : SearchSemantically(less, query, limit)
                   = SearchSemantically(db, query, limit)
  <2>1. \A ids : Resolved(less, ids) = Resolved(db, ids)
    BY ResolvedAgree
  <2>2. TAKE query
  <2>3. /\ Resolved(less, First(limit, less.ranking))
              = Resolved(db, First(limit, db.ranking))
        /\ (query = "" \/ ~less.embedder \/ ~less.vectors)
              = (query = "" \/ ~db.embedder \/ ~db.vectors)
    BY <1>1, <2>1, Zenon
  <2> QED BY <2>3, Zenon DEF SearchSemantically
<1>5. \A id : FindSimilar(less, id, limit) = FindSimilar(db, id, limit)
  <2> DEFINE Unranked(d, id) == id \notin ToSet(d.ranking) \/ ~d.vectors
             Near(d, id) == First(limit, Only(First(limit + 1, d.ranking),
                                              ToSet(d.ranking) \ {id}))
  <2>1. \A d, id : FindSimilar(d, id, limit)
                     = IF Unranked(d, id) THEN <<>>
                       ELSE Resolved(d, Near(d, id))
    BY Zenon DEF FindSimilar
  <2>2. \A id : /\ Unranked(less, id) <=> Unranked(db, id)
                /\ Near(less, id) = Near(db, id)
    BY <1>1, Zenon
  <2>3. \A ids : Resolved(less, ids) = Resolved(db, ids)
    BY ResolvedAgree
  <2> HIDE DEF Unranked, Near
  <2> QED BY <2>1, <2>2, <2>3
<1>6. Trending(less, limit) = Trending(db, limit)
  BY <1>1, Zenon DEF Trending
<1>7. Recommendations(less, user, limit) = Recommendations(db, user, limit)
  <2>1. FindUser(less, user) = FindUser(db, user)
    BY UsersAgree
  <2> QED BY <1>1, <1>6, <2>1, Zenon DEF Recommendations
<1>8. tool = "get_recommendations" => given.user_id = user
  BY DEF NeedsUser
<1> HIDE DEF limit
<1> QED BY <1>1, <1>2, <1>3, <1>4, <1>5, <1>6, <1>7, <1>8
        DEF Browsed, BROWSING, limit

LEMMA OrdersAgree ==
    ASSUME NEW db, NEW less, NEW user, Hides(less, db, user), NEW tool,
           NEW ref, NEW now
    PROVE  OfOrder(less, tool, user, ref, now) = OfOrder(db, tool, user, ref, now)
<1>1. less.orders = {o \in db.orders : o.buyer = user}
  BY DEF Hides
<1>2. FindOrder(less, user, ref) = FindOrder(db, user, ref)
  BY <1>1 DEF FindOrder
<1> QED BY <1>2, Zenon
        DEF OfOrder, OrderStatus, DeliveryEstimate, OrderDetail, Invoice,
            Tracking, CancellationEligibility

LEMMA ProductsAgree ==
    ASSUME NEW db, NEW less, NEW user, IsDatabase(db), Hides(less, db, user),
           NEW tool, NEW id, NEW given
    PROVE  OfProduct(less, tool, id, given) = OfProduct(db, tool, id, given)
<1>1. less.products = db.products /\ less.reviews = db.reviews
  BY DEF Hides
<1>2. FindProduct(less, id) = FindProduct(db, id)
  BY <1>1, Zenon DEF FindProduct
<1>3. SellerInfo(less, id) = SellerInfo(db, id)
  <2> DEFINE Told(d, p) == {[product |-> id, rating |-> u.rating]
                               : u \in FindUser(d, p.seller)}
             Rated(ratings) == {[product |-> id, rating |-> r] : r \in ratings}
  <2>1. ASSUME NEW p PROVE Told(less, p) = Told(db, p)
    <3>1. {u.rating : u \in FindUser(less, p.seller)}
             = {u.rating : u \in FindUser(db, p.seller)}
      <4>1. \A i : {u.rating : u \in FindUser(less, i)}
                     = {u.rating : u \in FindUser(db, i)}
        BY UsersAgree
      <4> QED BY <4>1, Zenon
    <3>2. \A d : Told(d, p) = Rated({u.rating : u \in FindUser(d, p.seller)})
      OBVIOUS
    <3> HIDE DEF Told, Rated
    <3> QED BY <3>1, <3>2
  <2>2. \A d : SellerInfo(d, id) = UNION {Told(d, p) : p \in FindProduct(d, id)}
    BY Zenon DEF SellerInfo
  <2> HIDE DEF Told
  <2> QED BY <1>2, <2>1, <2>2
<1>4. \A n : ProductReviews(less, id, n) = ProductReviews(db, id, n)
  BY <1>1, Zenon DEF ProductReviews
<1> QED BY <1>2, <1>3, <1>4, Zenon
        DEF OfProduct, ProductDetail, BargainEligibility, SuggestOffer,
            VariantStock

\* The enriched results, on the same products.
LEMMA EnrichedAgree ==
    ASSUME NEW db, NEW less, NEW user, Hides(less, db, user)
    PROVE  /\ \A r : EnrichProducts(less, r) = EnrichProducts(db, r)
           /\ \A cart : EnrichCart(less, cart) = EnrichCart(db, cart)
           /\ \A saved : EnrichSaved(less, saved) = EnrichSaved(db, saved)
<1>1. less.products = db.products
  BY DEF Hides
<1>2. \A ids : ProductsByIds(less, ids) = ProductsByIds(db, ids)
  BY <1>1, Zenon DEF ProductsByIds
<1>3. \A id : NameOf(less, id) = NameOf(db, id)
  <2> DEFINE NameIn(found) == IF found = {} THEN "no longer available"
                             ELSE (CHOOSE p \in found : TRUE).name
  <2>1. \A id : FindProduct(less, id) = FindProduct(db, id)
    BY <1>1, Zenon DEF FindProduct
  <2>2. \A d, id : NameOf(d, id) = NameIn(FindProduct(d, id))
    BY Zenon DEF NameOf
  <2> HIDE DEF NameIn
  <2> QED BY <2>1, <2>2, Zenon
<1>4. ASSUME NEW cart PROVE EnrichCart(less, cart) = EnrichCart(db, cart)
  <2>1. \A items : CartLines(less, items) = CartLines(db, items)
    BY <1>3 DEF CartLines
  <2> QED BY <2>1, Zenon DEF EnrichCart
<1>5. \A r : EnrichProducts(less, r) = EnrichProducts(db, r)
  BY <1>2, Zenon DEF EnrichProducts
<1>6. \A saved : EnrichSaved(less, saved) = EnrichSaved(db, saved)
  BY <1>2, Zenon DEF EnrichSaved
<1> QED BY <1>4, <1>5, <1>6, Zenon

LEMMA ShopAgrees ==
    ASSUME NEW db, NEW less, NEW user, IsDatabase(db), Hides(less, db, user),
           NEW tool, NEW given
    PROVE  OfShop(less, tool, given) = OfShop(db, tool, given)
<1>1. less.livesessions = db.livesessions /\ less.bits = db.bits
  BY DEF Hides
<1>2. /\ \A n : LiveNow(less, n) = LiveNow(db, n)
      /\ \A n : TrendingBits(less, n) = TrendingBits(db, n)
      /\ \A tag, n : BitsByHashtag(less, tag, n) = BitsByHashtag(db, tag, n)
  BY <1>1, Zenon DEF LiveNow, TrendingBits, BitsByHashtag
<1>3. /\ \A id : SessionProducts(less, id) = SessionProducts(db, id)
      /\ \A id : SessionRecap(less, id) = SessionRecap(db, id)
      /\ \A id : TaggedProducts(less, id) = TaggedProducts(db, id)
  BY <1>1, Zenon DEF SessionProducts, SessionRecap, FindSession, TaggedProducts
<1>4. /\ \A r : EnrichProducts(less, r) = EnrichProducts(db, r)
      /\ \A S : {EnrichProducts(less, s) : s \in S}
                   = {EnrichProducts(db, s) : s \in S}
  BY EnrichedAgree
<1>5. ASSUME NEW id PROVE SellerTrust(less, id) = SellerTrust(db, id)
  <2> DEFINE Rated(ratings) == {[seller |-> id, rating |-> r] : r \in ratings}
  <2>1. {u.rating : u \in FindUser(less, id)}
           = {u.rating : u \in FindUser(db, id)}
    BY UsersAgree
  <2>2. \A d : SellerTrust(d, id) = Rated({u.rating : u \in FindUser(d, id)})
    BY DEF SellerTrust
  <2> HIDE DEF Rated
  <2> QED BY <2>1, <2>2
<1> QED BY <1>2, <1>3, <1>4, <1>5, Zenon DEF OfShop

LEMMA OwnDocumentsAgree ==
    ASSUME NEW db, NEW less, NEW user, Hides(less, db, user)
    PROVE  /\ \A n : OrderHistory(less, user, n) = OrderHistory(db, user, n)
           /\ \A id, p : BargainStatus(less, user, id, p)
                            = BargainStatus(db, user, id, p)
           /\ \A id, p : CounterOffer(less, user, id, p)
                            = CounterOffer(db, user, id, p)
           /\ Cart(less, user) = Cart(db, user)
           /\ \A n : UnreadNotifications(less, user, n)
                        = UnreadNotifications(db, user, n)
           /\ DefaultAddress(less, user) = DefaultAddress(db, user)
<1>1. /\ {o \in less.orders : o.buyer = user}
            = {o \in db.orders : o.buyer = user}
      /\ {b \in less.bargains : b.buyer = user}
            = {b \in db.bargains : b.buyer = user}
      /\ {c \in less.carts : c.user = user}
            = {c \in db.carts : c.user = user}
      /\ {a \in less.addresses : a.user = user}
            = {a \in db.addresses : a.user = user}
      /\ {n \in less.notifications : n.user = user /\ ~n.read}
            = {n \in db.notifications : n.user = user /\ ~n.read}
  BY DEF Hides
<1>2. \A n : OrderHistory(less, user, n) = OrderHistory(db, user, n)
  BY <1>1, Zenon DEF OrderHistory
<1>3. \A id, p : FindBargain(less, user, id, p) = FindBargain(db, user, id, p)
  BY <1>1, Zenon DEF FindBargain
<1>4. /\ \A id, p : BargainStatus(less, user, id, p)
                       = BargainStatus(db, user, id, p)
      /\ \A id, p : CounterOffer(less, user, id, p)
                       = CounterOffer(db, user, id, p)
  BY <1>3, Zenon DEF BargainStatus, CounterOffer
<1>5. Cart(less, user) = Cart(db, user)
  <2> DEFINE ItemsOf(found) ==
                 [items |-> IF found = {} THEN <<>>
                            ELSE (CHOOSE c \in found : TRUE).items]
  <2>1. \A d : Cart(d, user) = ItemsOf({c \in d.carts : c.user = user})
    BY Zenon DEF Cart
  <2> HIDE DEF ItemsOf
  <2> QED BY <1>1, <2>1, Zenon
<1>6. \A n : UnreadNotifications(less, user, n)
                = UnreadNotifications(db, user, n)
  BY <1>1, Zenon DEF UnreadNotifications
<1>7. DefaultAddress(less, user) = DefaultAddress(db, user)
  BY <1>1, Zenon DEF DefaultAddress
<1> QED BY <1>2, <1>4, <1>5, <1>6, <1>7, Zenon

LEMMA FollowListsAgree ==
    ASSUME NEW db, NEW less, NEW user, IsDatabase(db), Hides(less, db, user),
           NEW kind
    PROVE  FollowList(less, user, kind) = FollowList(db, user, kind)
<1> DEFINE ListOf(u) == IF kind = "followers" THEN u.followers ELSE u.following
           Seen(d, u) == {v \in d.users : v.id \in ToSet(ListOf(u))}
           Told(u, n, names) == [rawCount |-> Len(ListOf(u)),
                                   resolvedCount |-> n, users |-> names]
           Of(d, u) == Told(u, Cardinality(Seen(d, u)),
                              {v.name : v \in Seen(d, u)})
<1>1. \A d : FollowList(d, user, kind)
                = {Of(d, u) : u \in FindUser(d, user)}
  BY Zenon DEF FollowList
<1>2. ASSUME NEW u PROVE Of(less, u) = Of(db, u)
  <2>1. /\ Cardinality(Seen(less, u)) = Cardinality(Seen(db, u))
        /\ {v.name : v \in Seen(less, u)} = {v.name : v \in Seen(db, u)}
    <3>1. \A d : Seen(d, u) = Whose(d, ToSet(ListOf(u)))
      BY DEF Whose
    <3> HIDE DEF Seen, ListOf
    <3>2. \A ids : /\ Cardinality(Whose(less, ids)) = Cardinality(Whose(db, ids))
                   /\ {v.name : v \in Whose(less, ids)}
                          = {v.name : v \in Whose(db, ids)}
      BY UsersAgree
    <3> QED BY <3>1, <3>2, Zenon
  <2> HIDE DEF Told, Seen
  <2> QED BY <2>1
<1>3. FindUser(less, user) = FindUser(db, user)
  BY UsersAgree
<1> HIDE DEF Of
<1> QED BY <1>1, <1>2, <1>3

LEMMA UserAnswersAgree ==
    ASSUME NEW db, NEW less, NEW user, IsDatabase(db), Hides(less, db, user),
           NEW tool, NEW given, NEW now
    PROVE  OfUser(less, tool, user, given, now)
              = OfUser(db, tool, user, given, now)
<1>1. /\ \A n : OrderHistory(less, user, n) = OrderHistory(db, user, n)
      /\ \A id, p : BargainStatus(less, user, id, p)
                       = BargainStatus(db, user, id, p)
      /\ \A id, p : CounterOffer(less, user, id, p)
                       = CounterOffer(db, user, id, p)
      /\ Cart(less, user) = Cart(db, user)
      /\ \A n : UnreadNotifications(less, user, n)
                   = UnreadNotifications(db, user, n)
      /\ DefaultAddress(less, user) = DefaultAddress(db, user)
  BY OwnDocumentsAgree
<1>2. \A code, total : CheckCoupon(less, code, user, now, total)
                          = CheckCoupon(db, code, user, now, total)
  BY CouponsAgree
<1>3. \A kind : FollowList(less, user, kind) = FollowList(db, user, kind)
  BY FollowListsAgree
<1>4. /\ \A cart : EnrichCart(less, cart) = EnrichCart(db, cart)
      /\ \A S : {EnrichSaved(less, s) : s \in S} = {EnrichSaved(db, s) : s \in S}
  BY EnrichedAgree
<1>5. SavedItems(less, user) = SavedItems(db, user)
  <2>1. FindUser(less, user) = FindUser(db, user)
    BY UsersAgree
  <2> QED BY <2>1, Zenon DEF SavedItems
<1> QED BY <1>1, <1>2, <1>3, <1>4, <1>5, Zenon DEF OfUser

\* The argument is this shopper's, whatever the model wrote.
LEMMA TheirOwnId ==
    ASSUME NEW tool \in NeedsUser, NEW arguments, NEW user
    PROVE  WithUser(tool, arguments, user).user_id = user
BY DEF WithUser

(* Whatever tool is called, with whatever arguments, on whatever database, *)
(* the answer and the card depend on nothing another shopper keeps private *)
(* (tool_executor.py, lines 475-552, and the repositories it asks).        *)
THEOREM NothingPrivateIsTold ==
    ASSUME NEW db, IsDatabase(db), NEW tool, NEW arguments, NEW user, NEW now
    PROVE  ExecuteTool(db, tool, arguments, user, now)
              = ExecuteTool(Visible(db, user), tool, arguments, user, now)
<1> DEFINE less == Visible(db, user)
           given == WithUser(tool, arguments, user)
<1>1. Hides(less, db, user)
  BY VisibleHides
<1>2. tool \in NeedsUser => given.user_id = user
  BY TheirOwnId
<1> HIDE DEF less, given
<1>3. tool \in BROWSING => Browsed(less, tool, given) = Browsed(db, tool, given)
  BY <1>1, <1>2, BrowsedAgree
<1>4. AnswerFor(less, tool, given, now) = AnswerFor(db, tool, given, now)
  <2>1. \A ref : OfOrder(less, tool, user, ref, now)
                    = OfOrder(db, tool, user, ref, now)
    BY <1>1, OrdersAgree
  <2>2. \A id : OfProduct(less, tool, id, given) = OfProduct(db, tool, id, given)
    BY <1>1, ProductsAgree
  <2>3. OfUser(less, tool, user, given, now) = OfUser(db, tool, user, given, now)
    BY <1>1, UserAnswersAgree
  <2>4. OfShop(less, tool, given) = OfShop(db, tool, given)
    BY <1>1, ShopAgrees
  <2>5. tool \in ByOrder => tool \in NeedsUser
    BY DEF NeedsUser
  <2> QED BY <1>2, <1>3, <2>1, <2>2, <2>3, <2>4, <2>5 DEF AnswerFor
<1>5. Card(less, tool, given) = Card(db, tool, given)
  <2>1. less.products = db.products
    BY <1>1 DEF Hides
  <2>2. \A id : ProductDetail(less, id) = ProductDetail(db, id)
    BY <2>1, Zenon DEF ProductDetail, FindProduct
  <2> DEFINE ShownBy(d) ==
                 CASE tool \in BROWSING -> Browsed(d, tool, given)
                   [] tool = "get_product_detail" ->
                        SetToSeq(ProductDetail(d, given.product_id))
                   [] OTHER -> <<>>
             CardOf(shown) == IF Pictured(shown) = 0 THEN {}
                              ELSE {Line(shown[Pictured(shown)])}
  <2>3. \A d : Card(d, tool, given) = CardOf(ShownBy(d))
    BY Zenon DEF Card
  <2>4. ShownBy(less) = ShownBy(db)
    BY <1>3, <2>2
  <2> HIDE DEF ShownBy, CardOf
  <2> QED BY <2>3, <2>4, Zenon
<1>6. Raises(less, tool, given) = Raises(db, tool, given)
  <2>1. less.tagged = db.tagged /\ less.ranking = db.ranking
    BY <1>1 DEF Hides
  <2> QED BY <2>1, Zenon DEF Raises, Mismatched
<1> QED BY <1>4, <1>5, <1>6, Zenon DEF ExecuteTool, less, given

\* The collections a database has.
CollectionNames ==
    {"products", "orders", "bargains", "coupons", "carts", "addresses",
     "notifications", "users", "livesessions", "bits", "reviews", "payouts",
     "ranking", "indexed", "tagged", "vectors", "embedder"}

IsPerson(u) == {"id", "name", "rating", "seller"} \subseteq DOMAIN u
IsCoupon(c) ==
    /\ {"code", "inCapitals", "at", "active", "start", "end",
        "minSpend", "maxUse", "usedBy"} \subseteq DOMAIN c
    /\ IsList(c.usedBy)

LEMMA ShopHasCollections ==
    /\ DOMAIN DB = CollectionNames
    /\ DB.users = {Shopper("ann", <<"p1", "p9">>, <<"p4">>, <<"bob", "dan">>),
                   Shopper("bob", <<>>, <<"p5">>, <<>>),
                   Shopper("cat", <<>>, <<>>, <<"ann", "bob">>)}
    /\ DB.coupons = {Coupon("save", TRUE, 1, <<"ann", "ann">>),
                     [Coupon("save", FALSE, 2, <<"bob">>) EXCEPT
                         !.seller = "bob"],
                     Coupon("gift", TRUE, 3, <<"bob">>)}
<1>1. DOMAIN DB = CollectionNames
  BY DEF DB, CollectionNames
<1>2. DB.users = {Shopper("ann", <<"p1", "p9">>, <<"p4">>, <<"bob", "dan">>),
                  Shopper("bob", <<>>, <<"p5">>, <<>>),
                  Shopper("cat", <<>>, <<>>, <<"ann", "bob">>)}
  BY Zenon DEF DB
<1>3. DB.coupons = {Coupon("save", TRUE, 1, <<"ann", "ann">>),
                    [Coupon("save", FALSE, 2, <<"bob">>) EXCEPT
                        !.seller = "bob"],
                    Coupon("gift", TRUE, 3, <<"bob">>)}
  BY Zenon DEF DB
<1> QED BY <1>1, <1>2, <1>3, Zenon

LEMMA ShoppersArePersons ==
    ASSUME NEW id, NEW saved, NEW liked, NEW followers
    PROVE  /\ Shopper(id, saved, liked, followers).id = id
           /\ IsPerson(Shopper(id, saved, liked, followers))
BY DEF Shopper, IsPerson

CouponAt(c, at) == c.at = at /\ IsCoupon(c)

LEMMA CouponsAreCoupons ==
    ASSUME NEW code, NEW capitals, NEW at, NEW usedBy, IsList(usedBy)
    PROVE  CouponAt(Coupon(code, capitals, at, usedBy), at)
BY DEF Coupon, IsCoupon, CouponAt

LEMMA AnothersCoupon ==
    ASSUME NEW c, NEW at, CouponAt(c, at), NEW seller
    PROVE  CouponAt([c EXCEPT !.seller = seller], at)
BY DEF CouponAt, IsCoupon

LEMMA ThreeDocuments ==
    ASSUME NEW a, NEW b, NEW c
    PROVE  IsFiniteSet({a, b, c})
<1>1. IsFiniteSet({}) /\ IsFiniteSet({c})
  BY FS_EmptySet, FS_Singleton
<1>2. IsFiniteSet({c} \union {b}) /\ IsFiniteSet(({c} \union {b}) \union {a})
  BY <1>1, FS_AddElement
<1>3. {a, b, c} = ({c} \union {b}) \union {a}
  OBVIOUS
<1> QED BY <1>2, <1>3

LEMMA TheShopIsADatabase == IsDatabase(DB)
<1>1. /\ IsFiniteSet(DB.users)
      /\ \A u \in DB.users : IsPerson(u)
      /\ \A u, v \in DB.users : u.id = v.id => u = v
  <2> DEFINE ann == Shopper("ann", <<"p1", "p9">>, <<"p4">>, <<"bob", "dan">>)
             bob == Shopper("bob", <<>>, <<"p5">>, <<>>)
             cat == Shopper("cat", <<>>, <<>>, <<"ann", "bob">>)
  <2>1. /\ ann.id = "ann" /\ bob.id = "bob" /\ cat.id = "cat"
        /\ IsPerson(ann) /\ IsPerson(bob) /\ IsPerson(cat)
    BY ShoppersArePersons
  <2>2. DB.users = {ann, bob, cat}
    BY ShopHasCollections, Zenon
  <2> HIDE DEF ann, bob, cat
  <2>3. IsFiniteSet(DB.users)
    BY <2>2, ThreeDocuments
  <2>4. \A u \in DB.users : u = ann \/ u = bob \/ u = cat
    BY <2>2
  <2>5. \A u \in DB.users : IsPerson(u)
    BY <2>1, <2>4, Zenon
  <2>6. \A u, v \in DB.users : u.id = v.id => u = v
    BY <2>1, <2>4
  <2> QED BY <2>3, <2>5, <2>6
<1>2. /\ IsFiniteSet(DB.coupons)
      /\ \A c \in DB.coupons : IsCoupon(c)
      /\ \A c, d \in DB.coupons : c.at = d.at => c = d
  <2> DEFINE first == Coupon("save", TRUE, 1, <<"ann", "ann">>)
             second == [Coupon("save", FALSE, 2, <<"bob">>) EXCEPT
                           !.seller = "bob"]
             third == Coupon("gift", TRUE, 3, <<"bob">>)
  <2>1. IsList(<<"ann", "ann">>) /\ IsList(<<"bob">>)
    <3>1. <<"ann", "ann">> \in Seq({"ann"}) /\ <<"bob">> \in Seq({"bob"})
      OBVIOUS
    <3> QED BY <3>1 DEF IsList
  <2>2. CouponAt(first, 1) /\ CouponAt(second, 2) /\ CouponAt(third, 3)
    <3>1. CouponAt(first, 1)
      BY <2>1, CouponsAreCoupons
    <3>2. CouponAt(second, 2)
      <4> DEFINE c == Coupon("save", FALSE, 2, <<"bob">>)
      <4>1. CouponAt(c, 2)
        BY <2>1, CouponsAreCoupons
      <4> HIDE DEF c
      <4>2. CouponAt([c EXCEPT !.seller = "bob"], 2)
        BY <4>1, AnothersCoupon
      <4> QED BY <4>2 DEF c
    <3>3. CouponAt(third, 3)
      BY <2>1, CouponsAreCoupons
    <3> QED BY <3>1, <3>2, <3>3, Zenon
  <2>3. DB.coupons = {first, second, third}
    BY ShopHasCollections, Zenon
  <2> HIDE DEF first, second, third
  <2>4. IsFiniteSet(DB.coupons)
    <3>1. IsFiniteSet({first, second, third})
      BY ThreeDocuments
    <3> QED BY <2>3, <3>1, Zenon
  <2>5. \A c \in DB.coupons : c = first \/ c = second \/ c = third
    BY <2>3
  <2>6. \A c \in DB.coupons : IsCoupon(c)
    BY <2>2, <2>5, Zenon DEF CouponAt
  <2>7. \A c, d \in DB.coupons : c.at = d.at => c = d
    BY <2>2, <2>5 DEF CouponAt
  <2> QED BY <2>4, <2>6, <2>7
<1>3. DOMAIN DB = CollectionNames
  BY ShopHasCollections
<1> QED BY <1>1, <1>2, <1>3 DEF IsDatabase, IsPerson, IsCoupon, CollectionNames

LEMMA GapsLeaveADatabase ==
    ASSUME NEW gap \in Gaps
    PROVE  IsDatabase(DatabaseWithout(gap))
<1> DEFINE less == DatabaseWithout(gap)
<1>1. /\ DOMAIN less = DOMAIN DB /\ less.users = DB.users
      /\ less.coupons \subseteq DB.coupons
  <2>1. DOMAIN DB = CollectionNames
    BY ShopHasCollections
  <2>2. gap.in \in Services \union {"nothing", "ranking"}
          \/ gap.in \in Collections \ {"users"}
    <3>1. CASE gap \in {Whole} \union [in : Services \union {"ranking"},
                                      at : {0}]
      BY <3>1 DEF Whole
    <3>2. CASE gap \in UNION {{[in |-> c, at |-> d.at] : d \in DB[c]}
                                : c \in Collections \ {"users"}}
      BY <3>2
    <3> QED BY <3>1, <3>2 DEF Gaps
  <2>3. CASE gap.in = "nothing"
    BY <2>3 DEF DatabaseWithout
  <2>4. CASE gap.in \in Services
    <3>1. less = [DB EXCEPT ![gap.in] = FALSE]
      BY <2>4 DEF DatabaseWithout, Services
    <3> HIDE DEF less
    <3> QED BY <2>1, <2>4, <3>1 DEF CollectionNames, Services
  <2>6. CASE gap.in = "ranking"
    <3>1. less = [DB EXCEPT !.ranking = <<>>]
      BY <2>6 DEF DatabaseWithout
    <3> HIDE DEF less
    <3> QED BY <2>1, <3>1 DEF CollectionNames
  <2>5. CASE gap.in \in Collections \ {"users"}
    <3> DEFINE left == {d \in DB[gap.in] : d.at # gap.at}
    <3>1. less = [DB EXCEPT ![gap.in] = left]
      BY <2>5 DEF DatabaseWithout, Collections, Services
    <3>2. gap.in = "coupons" => left \subseteq DB.coupons
      OBVIOUS
    <3> HIDE DEF less, left
    <3> QED BY <2>1, <2>5, <3>1, <3>2 DEF CollectionNames, Collections
  <2> QED BY <2>2, <2>3, <2>4, <2>5, <2>6
<1> HIDE DEF less
<1>2. IsFiniteSet(less.coupons)
  BY <1>1, TheShopIsADatabase, FS_Subset DEF IsDatabase
<1>3. /\ DOMAIN DB = CollectionNames /\ IsFiniteSet(DB.users)
      /\ \A u \in DB.users : IsPerson(u)
      /\ \A u, v \in DB.users : u.id = v.id => u = v
      /\ \A c \in DB.coupons : IsCoupon(c)
      /\ \A c, d \in DB.coupons : c.at = d.at => c = d
  BY TheShopIsADatabase, Zenon DEF IsDatabase, IsPerson, IsCoupon, CollectionNames
<1>4. /\ \A c \in less.coupons : IsCoupon(c)
      /\ \A c, d \in less.coupons : c.at = d.at => c = d
  BY <1>1, <1>3, Zenon
<1>5. /\ DOMAIN less = CollectionNames /\ IsFiniteSet(less.users)
      /\ \A u \in less.users : IsPerson(u)
      /\ \A u, v \in less.users : u.id = v.id => u = v
  BY <1>1, <1>3, Zenon
<1>6. IsDatabase(less)
  BY <1>2, <1>4, <1>5, Zenon DEF IsDatabase, IsPerson, IsCoupon, CollectionNames
<1> QED BY <1>6 DEF less

(* What a seller is told of the business depends on nothing of another     *)
(* seller's, on any database (seller_repo.py).                             *)
THEOREM NoOtherBusinessIsTold ==
    ASSUME NEW db, IsDatabase(db), NEW seller
    PROVE  LET less == Business(db, seller)
           IN  /\ IsSeller(less, seller) = IsSeller(db, seller)
               /\ \A ref : PayoutStatus(less, seller, ref)
                              = PayoutStatus(db, seller, ref)
               /\ \A code : CouponPerformance(less, seller, code)
                               = CouponPerformance(db, seller, code)
               /\ PendingBargains(less, seller) = PendingBargains(db, seller)
<1> DEFINE payouts == {p \in db.payouts : p.seller = seller}
           coupons == {c \in db.coupons : c.seller = seller}
           bargains == {b \in db.bargains : b.seller = seller}
           less == Business(db, seller)
<1>1. /\ less.users = db.users /\ less.payouts = payouts
      /\ less.coupons = coupons /\ less.bargains = bargains
  <2>1. less = [db EXCEPT !.payouts = payouts, !.coupons = coupons,
                          !.bargains = bargains]
    BY Zenon DEF Business
  <2> HIDE DEF less, payouts, coupons, bargains
  <2> QED BY <2>1 DEF IsDatabase
<1> HIDE DEF less
<1>2. IsSeller(less, seller) = IsSeller(db, seller)
  BY <1>1, Zenon DEF IsSeller, FindUser
<1>3. ASSUME NEW ref
      PROVE  PayoutStatus(less, seller, ref) = PayoutStatus(db, seller, ref)
  <2>1. {q \in less.payouts : q.seller = seller /\ q.ref = ref}
           = {q \in db.payouts : q.seller = seller /\ q.ref = ref}
    BY <1>1
  <2> QED BY <2>1, Zenon DEF PayoutStatus
<1>4. ASSUME NEW code
      PROVE  CouponPerformance(less, seller, code)
                = CouponPerformance(db, seller, code)
  <2>1. {c \in less.coupons : c.seller = seller /\ c.code = code}
           = {c \in db.coupons : c.seller = seller /\ c.code = code}
    BY <1>1
  <2> QED BY <2>1, Zenon DEF CouponPerformance
<1>5. PendingBargains(less, seller) = PendingBargains(db, seller)
  <2>1. {b \in less.bargains : b.seller = seller /\ b.pending}
           = {b \in db.bargains : b.seller = seller /\ b.pending}
    BY <1>1
  <2> QED BY <2>1, Zenon DEF PendingBargains
<1> QED BY <1>2, <1>3, <1>4, <1>5, Zenon DEF less

GapInv == About("call") \/ About("seller") => subject.gap \in Gaps

LEMMA QuestionsHaveGaps == Spec => []GapInv
<1>1. Init => GapInv
  BY DEF Init, GapInv, About
<1>2. Shape /\ GapInv /\ [Next]_subject => GapInv'
  <2> SUFFICES ASSUME Shape, GapInv, [Next]_subject,
                      subject'.of = "call" \/ subject'.of = "seller"
               PROVE  subject'.gap \in Gaps
    BY DEF GapInv, About
  <2>1. CASE UNCHANGED subject
    BY <2>1 DEF GapInv, About
  <2>2. CASE Call
    <3>1. PICK tool \in TOOLS \union {"drop_tables"}, gap \in Gaps,
               user \in Shoppers :
             \E given \in ArgumentsOf(tool) :
                subject' = [of |-> "call", tool |-> tool, gap |-> gap,
                            user |-> user, args |-> given]
      BY <2>2, Zenon DEF Call
    <3> QED BY <3>1
  <2>3. CASE SellerQuestion
    <3>1. PICK user \in Shoppers \union {"cat"}, gap \in Gaps,
               ref \in {"o1", "o2"}, code \in {"save", "gift"} :
             subject' = [of |-> "seller", user |-> user, gap |-> gap,
                         ref |-> ref, code |-> code]
      BY <2>3, Zenon DEF SellerQuestion
    <3> QED BY <3>1
  <2> QED BY <2>1, <2>2, <2>3, EveryStepHasItsOrigin DEF Origin
<1> QED BY <1>1, <1>2, EverySubjectHasItsShape, PTL DEF Spec

(* Whatever the model calls, and whatever document is missing, the answer  *)
(* depends on nothing that another shopper keeps private, nor a seller's   *)
(* on another's business (tool_executor.py, lines 475-493, and the         *)
(* repositories).                                                          *)
THEOREM OnlyOwnAnswers == Spec => []OwnAnswersOnly
<1>1. GapInv => OwnAnswersOnly
  <2> SUFFICES ASSUME GapInv PROVE OwnAnswersOnly
    OBVIOUS
  <2>1. ASSUME About("call")
        PROVE  Outcome(Data) = Outcome(Visible(Data, subject.user))
    <3>1. IsDatabase(Data)
      BY <2>1, GapsLeaveADatabase DEF GapInv, Data
    <3> QED BY <3>1, NothingPrivateIsTold DEF Outcome
  <2>2. ASSUME About("seller")
        PROVE  Performance(Data) = Performance(Business(Data, subject.user))
    <3>1. IsDatabase(Data)
      BY <2>2, GapsLeaveADatabase DEF GapInv, Data
    <3> DEFINE less == Business(Data, subject.user)
    <3>2. /\ IsSeller(less, subject.user) = IsSeller(Data, subject.user)
          /\ \A ref : PayoutStatus(less, subject.user, ref)
                         = PayoutStatus(Data, subject.user, ref)
          /\ \A code : CouponPerformance(less, subject.user, code)
                          = CouponPerformance(Data, subject.user, code)
          /\ PendingBargains(less, subject.user)
                = PendingBargains(Data, subject.user)
      BY <3>1, NoOtherBusinessIsTold
    <3> HIDE DEF less
    <3>3. Performance(less) = Performance(Data)
      BY <3>2, Zenon DEF Performance
    <3> QED BY <3>3 DEF less
  <2> QED BY <2>1, <2>2, Zenon DEF OwnAnswersOnly
<1> QED BY <1>1, QuestionsHaveGaps, PTL

-----------------------------------------------------------------------------
(***************************************************************************)
(* Coupons.                                                                *)
(***************************************************************************)
\* A coupon with its numbers, as coupons_repo.py reads it.
CanBeJudged(c) ==
    /\ c.active \in BOOLEAN
    /\ c.at \in Int /\ c.start \in Int /\ c.end \in Int /\ c.minSpend \in Int
    /\ c.maxUse \in Int
    /\ \E T : c.usedBy \in Seq(T)

\* What stands against a coupon, used so often.
Against(c, now, total, uses) ==
    LET When(fails, reason) == IF fails THEN {reason} ELSE {}
    IN  When(~c.active, "inactive")
          \union When(now < c.start, "not_started_yet")
          \union When(c.end >= 0 /\ c.end < now, "expired")
          \union When(total >= 0 /\ c.minSpend > total, "min_spend_not_met")
          \union When(c.maxUse >= 0 /\ uses >= c.maxUse,
                      "usage_limit_reached")

\* What may stand against one that is said to be good.
Overlooked(c) == IF c.maxUse < 2 THEN {} ELSE {"usage_limit_reached"}

LEMMA UsesAreCounted ==
    ASSUME NEW T, NEW usedBy \in Seq(T), NEW user
    PROVE  /\ Len(Only(usedBy, {user})) \in Nat
           /\ Len(Only(usedBy, {user})) > 0 <=> user \in ToSet(usedBy)
<1> DEFINE out == Only(usedBy, {user})
<1>1. ToSet(out) = ToSet(usedBy) \intersect {user}
  BY OnlyMembers
<1>2. out \in Seq(T)
  BY OnlyPicks
<1> HIDE DEF out
<1>3. Len(out) > 0 <=> ToSet(out) # {}
  <2>1. Len(out) > 0 => out[1] \in ToSet(out)
    BY <1>2 DEF ToSet
  <2>2. Len(out) = 0 => ToSet(out) = {}
    BY <1>2 DEF ToSet
  <2>3. Len(out) \in Nat
    BY <1>2
  <2> QED BY <2>1, <2>2, <2>3
<1>4. ToSet(out) # {} <=> user \in ToSet(usedBy)
  BY <1>1
<1>5. Len(out) \in Nat /\ (Len(out) > 0 <=> user \in ToSet(usedBy))
  BY <1>2, <1>3, <1>4
<1> QED BY <1>5 DEF out

LEMMA OneCouponIsCountedOnce ==
    ASSUME NEW db, NEW c, {d \in db.coupons : d.code = c.code} = {c}, NEW user
    PROVE  AlreadyUsed(db, c, user)
              = IF user \in ToSet(c.usedBy) THEN 1 ELSE 0
<1> DEFINE used == {d \in db.coupons : /\ d.code = c.code
                                       /\ d.inCapitals = c.inCapitals
                                       /\ user \in ToSet(d.usedBy)}
<1>1. AlreadyUsed(db, c, user) = Cardinality(used)
  BY DEF AlreadyUsed
<1>2. used = IF user \in ToSet(c.usedBy) THEN {c} ELSE {}
  <2>1. \A d \in db.coupons : d.code = c.code => d = c
    OBVIOUS
  <2>2. c \in db.coupons
    OBVIOUS
  <2>3. CASE user \in ToSet(c.usedBy)
    BY <2>1, <2>2, <2>3
  <2>4. CASE user \notin ToSet(c.usedBy)
    BY <2>1, <2>2, <2>4
  <2> QED BY <2>3, <2>4
<1> HIDE DEF used
<1>3. Cardinality({c}) = 1 /\ Cardinality({}) = 0
  BY FS_Singleton, FS_EmptySet
<1> QED BY <1>1, <1>2, <1>3

LEMMA ReasonsHold ==
    ASSUME NEW db, NEW c, {d \in db.coupons : d.code = c.code} = {c},
           CanBeJudged(c), NEW user, NEW now \in Int, NEW total \in Int
    PROVE  LET reason == CouponReason(db, c, user, now, total)
               against == Against(c, now, total, Len(Only(c.usedBy, {user})))
           IN  /\ reason = "" => against \subseteq Overlooked(c)
               /\ reason # "" => reason \in against
<1> DEFINE uses == Len(Only(c.usedBy, {user}))
           counted == AlreadyUsed(db, c, user)
           reason == CouponReason(db, c, user, now, total)
<1>1. /\ uses \in Nat /\ counted \in Nat
      /\ c.maxUse >= 0 /\ counted >= c.maxUse
            => c.maxUse >= 0 /\ uses >= c.maxUse
      /\ c.maxUse >= 0 /\ uses >= c.maxUse /\ c.maxUse < 2
            => c.maxUse >= 0 /\ counted >= c.maxUse
  <2>1. PICK T : c.usedBy \in Seq(T)
    BY DEF CanBeJudged
  <2>2. uses \in Nat /\ uses > 0 <=> user \in ToSet(c.usedBy)
    BY <2>1, UsesAreCounted
  <2>3. uses \in Nat
    BY <2>1, UsesAreCounted
  <2>4. counted = IF user \in ToSet(c.usedBy) THEN 1 ELSE 0
    BY OneCouponIsCountedOnce
  <2>5. c.maxUse \in Int
    BY DEF CanBeJudged
  <2> HIDE DEF uses, counted
  <2> QED BY <2>2, <2>3, <2>4, <2>5
<1>2. reason = IF ~c.active THEN "inactive"
               ELSE IF now < c.start THEN "not_started_yet"
               ELSE IF c.end >= 0 /\ now > c.end THEN "expired"
               ELSE IF total >= 0 /\ total < c.minSpend
               THEN "min_spend_not_met"
               ELSE IF c.maxUse >= 0 /\ counted >= c.maxUse
               THEN "usage_limit_reached" ELSE ""
  BY DEF CouponReason
<1>3. /\ c.active \in BOOLEAN /\ c.start \in Int /\ c.end \in Int
      /\ c.minSpend \in Int /\ c.maxUse \in Int
  BY DEF CanBeJudged
<1> HIDE DEF uses, counted, reason
<1> DEFINE A == ~c.active
           B == now < c.start
           C == c.end >= 0 /\ now > c.end
           D == total >= 0 /\ total < c.minSpend
           E == c.maxUse >= 0 /\ counted >= c.maxUse
           G == c.maxUse >= 0 /\ uses >= c.maxUse
           against == Against(c, now, total, uses)
<1>4. against = (IF A THEN {"inactive"} ELSE {})
                  \union (IF B THEN {"not_started_yet"} ELSE {})
                  \union (IF C THEN {"expired"} ELSE {})
                  \union (IF D THEN {"min_spend_not_met"} ELSE {})
                  \union (IF G THEN {"usage_limit_reached"} ELSE {})
  <2>1. /\ C <=> c.end >= 0 /\ c.end < now
        /\ D <=> total >= 0 /\ c.minSpend > total
    BY <1>3
  <2> HIDE DEF C, D
  <2> QED BY <2>1 DEF Against
<1>5. reason = IF A THEN "inactive" ELSE IF B THEN "not_started_yet"
               ELSE IF C THEN "expired" ELSE IF D THEN "min_spend_not_met"
               ELSE IF E THEN "usage_limit_reached" ELSE ""
  BY <1>2
<1>6. (E => G) /\ (G /\ c.maxUse < 2 => E)
  BY <1>1
<1> HIDE DEF A, B, C, D, E, G, against
<1>7. /\ reason = "" => against \subseteq Overlooked(c)
      /\ reason # "" => reason \in against
  BY <1>4, <1>5, <1>6 DEF Overlooked
<1> QED BY <1>7 DEF against, reason, uses

(* Whatever coupon it is, as long as its code is its own, check_coupon_    *)
(* validity refuses it only for a reason that holds, and says it is good   *)
(* only when nothing stands against it, except that it may overlook a      *)
(* limit of two or more (coupons_repo.py, lines 59-113).                   *)
THEOREM VerdictsHold ==
    ASSUME NEW db, NEW c, {d \in db.coupons : d.code = c.code} = {c},
           CanBeJudged(c), NEW user, NEW now \in Int, NEW total \in Int,
           NEW verdict \in CheckCoupon(db, c.code, user, now, total)
    PROVE  LET against == Against(c, now, total, Len(Only(c.usedBy, {user})))
           IN  /\ ~verdict.valid => verdict.reason \in against
               /\ verdict.valid => against \subseteq Overlooked(c)
<1> DEFINE reason == CouponReason(db, c, user, now, total)
           against == Against(c, now, total, Len(Only(c.usedBy, {user})))
<1>1. CheckCoupon(db, c.code, user, now, total)
         = {[valid |-> reason = "", reason |-> reason]}
  <2> DEFINE found == Earliest({d \in db.coupons : d.code = c.code})
             Told(d) == LET r == CouponReason(db, d, user, now, total)
                        IN  [valid |-> r = "", reason |-> r]
  <2>1. found = {c}
    <3>1. c.at \in Int
      BY DEF CanBeJudged
    <3>2. \A d \in {c} : d.at <= c.at
      BY <3>1
    <3> QED BY <3>2 DEF Earliest
  <2>2. CheckCoupon(db, c.code, user, now, total)
           = IF found = {} THEN {[valid |-> FALSE, reason |-> "not_found"]}
             ELSE {Told(d) : d \in found}
    BY Zenon DEF CheckCoupon
  <2> HIDE DEF Told, found
  <2>3. CheckCoupon(db, c.code, user, now, total) = {Told(c)}
    BY <2>1, <2>2
  <2> QED BY <2>3, Zenon DEF Told
<1>2. /\ reason = "" => against \subseteq Overlooked(c)
      /\ reason # "" => reason \in against
  BY ReasonsHold
<1> HIDE DEF reason, against
<1>3. verdict = [valid |-> reason = "", reason |-> reason]
  BY <1>1
<1>4. (verdict.valid <=> reason = "") /\ verdict.reason = reason
  BY <1>3, Zenon
<1> QED BY <1>2, <1>4 DEF against

JudgeInv ==
    About("coupon") =>
        /\ subject.now \in Int /\ subject.total \in Int
        /\ CanBeJudged(subject.coupon)
        /\ subject.coupon.code = "late"

LEMMA CouponsCanBeJudged == Spec => []JudgeInv
<1>1. Init => JudgeInv
  BY DEF Init, JudgeInv, About
<1>2. Shape /\ JudgeInv /\ [Next]_subject => JudgeInv'
  <2> SUFFICES ASSUME Shape, JudgeInv, [Next]_subject,
                      subject'.of = "coupon"
               PROVE  /\ subject'.now \in Int /\ subject'.total \in Int
                      /\ CanBeJudged(subject'.coupon)
                      /\ subject'.coupon.code = "late"
    BY Zenon DEF JudgeInv, About, CanBeJudged
  <2>1. CASE UNCHANGED subject
    BY <2>1 DEF JudgeInv, About
  <2>2. CASE CouponQuestion
    <3>1. PICK active \in BOOLEAN, end \in {-1, 4}, minSpend \in {0, 10},
               maxUse \in -1..2,
               usedBy \in {<<>>, <<"bob">>, <<"ann">>, <<"ann", "ann">>},
               now \in {1, 2, 4, 5}, total \in {-1, 9, 10} :
             subject' = [of |-> "coupon", now |-> now, total |-> total,
                 coupon |-> [Coupon("late", TRUE, 9, usedBy) EXCEPT
                                !.active = active, !.end = end,
                                !.minSpend = minSpend, !.maxUse = maxUse]]
      BY <2>2, Zenon DEF CouponQuestion
    <3> DEFINE c == [Coupon("late", TRUE, 9, usedBy) EXCEPT
                        !.active = active, !.end = end,
                        !.minSpend = minSpend, !.maxUse = maxUse]
    <3>2. usedBy \in Seq({"ann", "bob"})
      <4>1. /\ <<>> \in Seq({"ann", "bob"}) /\ <<"bob">> \in Seq({"ann", "bob"})
            /\ <<"ann">> \in Seq({"ann", "bob"})
            /\ <<"ann", "ann">> \in Seq({"ann", "bob"})
        OBVIOUS
      <4> QED BY <4>1, Zenon
    <3>3. /\ c.code = "late" /\ c.at = 9 /\ c.active = active /\ c.start = 2
          /\ c.end = end /\ c.minSpend = minSpend /\ c.maxUse = maxUse
          /\ c.usedBy = usedBy
      <4> DEFINE d == Coupon("late", TRUE, 9, usedBy)
      <4>1. /\ {"active", "end", "minSpend", "maxUse"} \subseteq DOMAIN d
            /\ {"code", "at", "start", "usedBy"} \subseteq DOMAIN d
            /\ d.code = "late" /\ d.at = 9 /\ d.start = 2
            /\ d.usedBy = usedBy
        BY DEF Coupon
      <4> HIDE DEF d
      <4>2. LET e == [d EXCEPT !.active = active, !.end = end,
                               !.minSpend = minSpend, !.maxUse = maxUse]
            IN  /\ e.code = "late" /\ e.at = 9 /\ e.active = active
                /\ e.start = 2 /\ e.end = end /\ e.minSpend = minSpend
                /\ e.maxUse = maxUse /\ e.usedBy = usedBy
        BY <4>1
      <4> QED BY <4>2, Zenon DEF d
    <3> HIDE DEF c
    <3>4. CanBeJudged(c) /\ c.code = "late"
      <4>1. active \in BOOLEAN /\ end \in Int /\ minSpend \in Int /\ maxUse \in Int
        OBVIOUS
      <4> QED BY <3>2, <3>3, <4>1 DEF CanBeJudged
    <3>5. subject' = [of |-> "coupon", now |-> now, total |-> total,
                      coupon |-> c]
      BY <3>1, Zenon DEF c
    <3>6. subject'.now = now /\ subject'.total = total /\ subject'.coupon = c
      BY <3>5
    <3>7. now \in Int /\ total \in Int
      OBVIOUS
    <3> QED BY <3>4, <3>6, <3>7
  <2> QED BY <2>1, <2>2, EveryStepHasItsOrigin DEF Origin
<1> QED BY <1>1, <1>2, EverySubjectHasItsShape, PTL DEF Spec

\* No coupon of the shop has the code of the one in question.
LEMMA NoCouponIsLate == \A c \in DB.coupons : c.code # "late"
<1> DEFINE one == Coupon("save", TRUE, 1, <<"ann", "ann">>)
           c == Coupon("save", FALSE, 2, <<"bob">>)
           two == [c EXCEPT !.seller = "bob"]
           three == Coupon("gift", TRUE, 3, <<"bob">>)
<1>1. /\ one.code = "save" /\ three.code = "gift"
      /\ c.code = "save" /\ "code" \in DOMAIN c
  BY DEF Coupon
<1>2. two.code = "save"
  <2> HIDE DEF c
  <2> QED BY <1>1
<1>3. DB.coupons = {one, two, three}
  BY ShopHasCollections, Zenon
<1> HIDE DEF one, two, three
<1> QED BY <1>1, <1>2, <1>3

(* A coupon is refused only for a reason that holds, and said to be good   *)
(* only when nothing stands against it but a limit of two or more that it  *)
(* may have passed (coupons_repo.py, lines 59-113).                        *)
THEOREM EveryCouponIsJudged == Spec => []CouponsAreJudged
<1>1. JudgeInv => CouponsAreJudged
  <2> SUFFICES ASSUME JudgeInv, About("coupon")
               PROVE  /\ ~Verdict.valid => Verdict.reason \in Objections
                      /\ Verdict.valid =>
                           Objections \subseteq Overlooked(subject.coupon)
    BY DEF CouponsAreJudged, Overlooked
  <2> DEFINE c == subject.coupon
             coupons == DB.coupons \union {c}
             db == [DB EXCEPT !.coupons = coupons]
             judged == CheckCoupon(db, c.code, "ann", subject.now,
                                   subject.total)
  <2>1. /\ subject.now \in Int /\ subject.total \in Int
        /\ CanBeJudged(c) /\ c.code = "late"
    BY DEF JudgeInv
  <2>2. {d \in db.coupons : d.code = c.code} = {c}
    <3>1. db.coupons = coupons
      <4> HIDE DEF coupons
      <4> QED BY ShopHasCollections DEF CollectionNames
    <3> HIDE DEF db
    <3>2. \A d \in db.coupons : d.code = c.code <=> d = c
      BY <2>1, <3>1, NoCouponIsLate
    <3> QED BY <3>1, <3>2
  <2>3. Verdict = CHOOSE v \in judged : TRUE
    BY <2>1, Zenon DEF Verdict
  <2>4. judged # {}
    <3> HIDE DEF db, c
    <3> QED BY Zenon DEF CheckCoupon
  <2>5. Verdict \in judged
    <3> HIDE DEF judged
    <3> QED BY <2>3, <2>4
  <2> DEFINE against == Against(c, subject.now, subject.total,
                                Len(Only(c.usedBy, {"ann"})))
  <2>6. /\ ~Verdict.valid => Verdict.reason \in against
        /\ Verdict.valid => against \subseteq Overlooked(c)
    <3> HIDE DEF db, c
    <3> QED BY <2>1, <2>2, <2>5, VerdictsHold
  <2>7. against = Objections
    BY Zenon DEF Against, Objections, Uses
  <2> HIDE DEF against
  <2> QED BY <2>6, <2>7, Zenon
<1> QED BY <1>1, CouponsCanBeJudged, PTL

-----------------------------------------------------------------------------
(***************************************************************************)
(* The lists of products the model is shown.                               *)
(***************************************************************************)
\* lines come from the products at these places, in their order.
Placed(lines, products, at) ==
    /\ \A n \in 1..Len(lines) : lines[n] = Line(products[at[n]])
    /\ \A m, n \in 1..Len(lines) : m < n => at[m] < at[n]

\* lines is what a list of products is cut down to, of which the first k
\* have been read.
CutDown(lines, products, k) ==
    /\ Len(lines) <= LLM_LIST_LIMIT_CAP
    /\ \A m, n \in 1..Len(lines) : Alike(lines[m], lines[n]) => m = n
    /\ \E at \in [1..Len(lines) -> 1..k] : Placed(lines, products, at)
    /\ \A i \in 1..k :
          \/ Len(lines) = LLM_LIST_LIMIT_CAP
          \/ \E n \in 1..Len(lines) : Alike(lines[n], products[i])

LinesOf(products) == {Line(products[i]) : i \in DOMAIN products}

LEMMA AddedLine ==
    ASSUME NEW T, NEW products \in Seq(T), NEW k \in Nat, k + 1 <= Len(products),
           NEW lines \in Seq(LinesOf(products)), CutDown(lines, products, k)
    PROVE  CutDown(AddLine(lines, products[k + 1]), products, k + 1)
<1> DEFINE p == products[k + 1]
           L == Len(lines)
<1>1. /\ L \in Nat /\ k \in Nat /\ LLM_LIST_LIMIT_CAP \in Nat
      /\ DOMAIN lines = 1..L
  BY CapsArePositive
<1>2. /\ L <= LLM_LIST_LIMIT_CAP
      /\ \A m, n \in 1..L : Alike(lines[m], lines[n]) => m = n
      /\ \A i \in 1..k : \/ L = LLM_LIST_LIMIT_CAP
                         \/ \E n \in 1..L : Alike(lines[n], products[i])
  BY DEF CutDown
<1>3. PICK at \in [1..L -> 1..k] : Placed(lines, products, at)
  BY DEF CutDown
<1>4. (\E l \in ToSet(lines) : Alike(l, p)) <=> \E n \in 1..L : Alike(lines[n], p)
  <2> HIDE DEF p, L
  <2> QED BY <1>1 DEF ToSet
<1>5. CASE L = LLM_LIST_LIMIT_CAP \/ \E n \in 1..L : Alike(lines[n], p)
  <2>1. AddLine(lines, p) = lines
    <3>1. L = LLM_LIST_LIMIT_CAP => L >= LLM_LIST_LIMIT_CAP
      BY <1>1
    <3> QED BY <1>4, <1>5, <3>1, Zenon DEF AddLine
  <2>2. at \in [1..L -> 1..(k + 1)]
    <3>1. 1..k \subseteq 1..(k + 1)
      BY <1>1
    <3> HIDE DEF L
    <3> QED BY <3>1
  <2>3. \A i \in 1..(k + 1) : \/ L = LLM_LIST_LIMIT_CAP
                              \/ \E n \in 1..L : Alike(lines[n], products[i])
    <3>1. \A i \in 1..(k + 1) : i \in 1..k \/ i = k + 1
      BY <1>1
    <3> HIDE DEF L
    <3> QED BY <3>1, <1>2, <1>5
  <2>4. CutDown(lines, products, k + 1)
    BY <1>2, <1>3, <2>2, <2>3, Zenon DEF CutDown
  <2> QED BY <2>1, <2>4
<1>6. CASE ~(L = LLM_LIST_LIMIT_CAP \/ \E n \in 1..L : Alike(lines[n], p))
  <2> DEFINE out == AddLine(lines, p)
             line == Line(p)
             to == [n \in 1..(L + 1) |-> IF n = L + 1 THEN k + 1 ELSE at[n]]
  <2>0. L + 1 <= LLM_LIST_LIMIT_CAP /\ ~(L >= LLM_LIST_LIMIT_CAP)
    <3>1. L # LLM_LIST_LIMIT_CAP /\ L <= LLM_LIST_LIMIT_CAP
      BY <1>2, <1>6, Zenon
    <3> HIDE DEF L
    <3> QED BY <1>1, <3>1
  <2>1. out = Append(lines, line)
    <3>1. ~(L >= LLM_LIST_LIMIT_CAP)
      BY <2>0
    <3> QED BY <1>4, <1>6, <3>1, Zenon DEF AddLine
  <2>2. \A x : /\ Alike(x, line) <=> Alike(x, p)
               /\ Alike(line, x) <=> Alike(x, p)
               /\ Alike(line, p)
    BY DEF Alike, Line
  <2> HIDE DEF out, line
  <2>3. /\ Len(out) = L + 1 /\ out[L + 1] = line
        /\ \A n \in 1..L : out[n] = lines[n]
    <3> HIDE DEF p
    <3> QED BY <2>1
  <2>4. \A n \in 1..(L + 1) : n \in 1..L \/ n = L + 1
    BY <1>1
  <2>5. L + 1 <= LLM_LIST_LIMIT_CAP
    BY <2>0
  <2>6. \A m, n \in 1..(L + 1) : Alike(out[m], out[n]) => m = n
    <3> HIDE DEF L, p
    <3> QED BY <1>2, <1>6, <2>2, <2>3, <2>4
  <2>7. to \in [1..(L + 1) -> 1..(k + 1)]
    <3>1. k + 1 \in 1..(k + 1) /\ 1..k \subseteq 1..(k + 1)
      BY <1>1
    <3> HIDE DEF L
    <3> QED BY <2>4, <3>1
  <2>8. Placed(out, products, to)
    <3>1. /\ \A n \in 1..L : lines[n] = Line(products[at[n]])
          /\ \A m, n \in 1..L : m < n => at[m] < at[n]
      BY <1>3 DEF Placed
    <3>2. to[L + 1] = k + 1 /\ \A n \in 1..L : to[n] = at[n] /\ at[n] \in 1..k
      BY <1>1
    <3>3. \A n \in 1..(L + 1) : out[n] = Line(products[to[n]])
      <4>1. out[L + 1] = Line(products[to[L + 1]])
        BY <2>3, <3>2 DEF line
      <4>2. \A n \in 1..L : out[n] = Line(products[to[n]])
        <5> HIDE DEF to, L
        <5> QED BY <2>3, <3>1, <3>2
      <4> HIDE DEF to, L
      <4> QED BY <2>4, <4>1, <4>2
    <3>4. \A m, n \in 1..(L + 1) : m < n => to[m] < to[n]
      <4> HIDE DEF to
      <4> TAKE m, n \in 1..(L + 1)
      <4> HAVE m < n
      <4>1. m \in 1..L
        BY <1>1
      <4>2. CASE n = L + 1
        BY <3>2, <4>1, <4>2, <1>1
      <4>3. CASE n # L + 1
        BY <2>4, <3>1, <3>2, <4>1, <4>3
      <4> QED BY <4>2, <4>3
    <3> QED BY <2>3, <3>3, <3>4 DEF Placed
  <2>9. \A i \in 1..(k + 1) : \/ L + 1 = LLM_LIST_LIMIT_CAP
                              \/ \E n \in 1..(L + 1) : Alike(out[n], products[i])
    <3> TAKE i \in 1..(k + 1)
    <3>1. L + 1 \in 1..(L + 1) /\ 1..L \subseteq 1..(L + 1)
      BY <1>1
    <3>2. CASE i = k + 1
      <4>1. Alike(out[L + 1], products[i])
        BY <2>2, <2>3, <3>2
      <4> HIDE DEF L
      <4> QED BY <3>1, <4>1
    <3>3. CASE i # k + 1
      <4>1. i \in 1..k
        BY <3>3, <1>1
      <4>2. PICK n \in 1..L : Alike(lines[n], products[i])
        BY <1>2, <1>6, <4>1
      <4> HIDE DEF L
      <4> QED BY <2>3, <3>1, <4>2
    <3> QED BY <3>2, <3>3
  <2> HIDE DEF to, L
  <2>10. CutDown(out, products, k + 1)
    BY <2>3, <2>5, <2>6, <2>7, <2>8, <2>9, Zenon DEF CutDown
  <2> QED BY <2>10 DEF out
<1> QED BY <1>5, <1>6

\* The loop of _trim_product_list, read so far.
CuttingDown(f, products) ==
    /\ f[0] = <<>>
    /\ \A i \in 1..Len(products) : f[i] = AddLine(f[i - 1], products[i])

LEMMA CuttingRuns ==
    ASSUME NEW T, NEW products \in Seq(T)
    PROVE  \E f \in [0..Len(products) -> Seq(LinesOf(products))] :
              /\ CuttingDown(f, products)
              /\ TrimProductList(products) = f[Len(products)]
<1> DEFINE L == Len(products)
           All == Seq(LinesOf(products))
           Add(t, i) == AddLine(t, products[i])
           step == [i \in 1..L |-> [t \in All |-> Add(t, i)]]
           Loop(f) == [i \in 0..L |-> IF i = 0 THEN <<>> ELSE Add(f[i - 1], i)]
           g == CHOOSE f : f = Loop(f)
<1>1. TrimProductList(products) = g[L]
  BY DEF TrimProductList
<1>2. L \in Nat /\ DOMAIN products = 1..L
  OBVIOUS
<1>3. <<>> \in All /\ \A t \in All, i \in 1..L : Add(t, i) \in All
  <2>1. <<>> \in All
    OBVIOUS
  <2>2. ASSUME NEW t \in All, NEW i \in 1..L PROVE Add(t, i) \in All
    <3> DEFINE line == Line(products[i])
    <3>1. line \in LinesOf(products)
      BY <1>2 DEF LinesOf
    <3>2. Add(t, i) = t \/ Add(t, i) = Append(t, line)
      BY Zenon DEF AddLine
    <3> HIDE DEF line, Add
    <3> QED BY <3>1, <3>2
  <2> QED BY <2>1, <2>2
<1> HIDE DEF Add
<1>4. step \in [1..L -> [All -> All]]
  <2> HIDE DEF All, L
  <2> QED BY <1>3
<1>5. PICK f \in [0..L -> All] :
          f[0] = <<>> /\ \A i \in 1..L : f[i] = step[i][f[i - 1]]
  <2> DEFINE base == <<>>
  <2>1. base \in All
    BY <1>3
  <2> HIDE DEF base, L, All, step
  <2>2. \E f \in [0..L -> All] :
            f[0] = base /\ \A i \in 1..L : f[i] = step[i][f[i - 1]]
    <3>1. L \in Nat /\ step \in [1..L -> [All -> All]]
      BY <1>2, <1>4
    <3>2. \A k \in Nat : \A st \in [1..k -> [All -> All]] :
              \E f \in [0..k -> All] :
                  f[0] = base /\ \A i \in 1..k : f[i] = st[i][f[i - 1]]
      BY <2>1, StepsRunThrough
    <3> QED BY <3>1, <3>2
  <2> QED BY <2>2 DEF base
<1>6. \A i \in 1..L : f[i] = Add(f[i - 1], i)
  <2> HIDE DEF L, All
  <2> TAKE i \in 1..L
  <2>1. i - 1 \in 0..L
    BY <1>2
  <2>2. f[i - 1] \in All
    BY <2>1
  <2> QED BY <1>5, <2>2
<1>7. f = Loop(f)
  <2> HIDE DEF L, All
  <2>1. \A i \in 0..L : i # 0 => i \in 1..L
    BY <1>2
  <2> QED BY <1>5, <1>6, <2>1
<1>8. g = Loop(g)
  <2> HIDE DEF Loop
  <2> QED BY <1>7
<1>9. /\ g[0] = <<>>
      /\ \A i \in 1..L : g[i] = Add(g[i - 1], i)
      /\ DOMAIN g = 0..L /\ g = [i \in 0..L |-> g[i]]
  <2> DEFINE h == Loop(g)
  <2>1. 0 \in 0..L /\ \A i \in 1..L : i \in 0..L /\ i # 0
    BY <1>2
  <2> HIDE DEF g, L
  <2>2. /\ h[0] = <<>>
        /\ \A i \in 1..L : h[i] = Add(g[i - 1], i)
        /\ DOMAIN h = 0..L /\ h = [i \in 0..L |-> h[i]]
    BY <2>1
  <2> HIDE DEF h
  <2>3. g = h
    BY <1>8 DEF h
  <2> QED BY <2>2, <2>3
<1> HIDE DEF g
<1>10. \A i \in 0..L : g[i] \in All
  <2> DEFINE R == {i \in Nat : i <= L => g[i] \in All}
  <2> HIDE DEF All
  <2>1. 0 \in R
    BY <1>3, <1>9
  <2>2. ASSUME NEW i \in Nat, i \in R PROVE i + 1 \in R
    <3> SUFFICES ASSUME i + 1 <= L PROVE g[i + 1] \in All
      OBVIOUS
    <3>1. i + 1 \in 1..L /\ (i + 1) - 1 = i /\ g[i] \in All
      BY <1>2, <2>2
    <3> HIDE DEF L
    <3> QED BY <1>3, <1>9, <3>1
  <2> HIDE DEF R
  <2>3. Nat \subseteq R
    BY <2>1, <2>2, SetInduction
  <2> QED BY <2>3, <1>2 DEF R
<1>11. g \in [0..L -> All]
  <2> HIDE DEF L, All
  <2> QED BY <1>9, <1>10
<1>12. CuttingDown(g, products)
  BY <1>9, Zenon DEF Add, CuttingDown
<1> QED BY <1>1, <1>11, <1>12

(* However many products a tool finds, the model is shown at most the cap  *)
(* of them, in their order, no two alike, and none is left out but for one *)
(* like it or for the cap (tool_executor.py, lines 147-178).               *)
THEOREM ShownListsAreSound ==
    ASSUME NEW T, NEW products \in Seq(T)
    PROVE  CutDown(TrimProductList(products), products, Len(products))
<1> DEFINE L == Len(products)
<1>1. PICK f \in [0..L -> Seq(LinesOf(products))] :
              /\ f[0] = <<>>
              /\ \A i \in 1..L : f[i] = AddLine(f[i - 1], products[i])
              /\ TrimProductList(products) = f[L]
  <2>1. \E f \in [0..L -> Seq(LinesOf(products))] :
           /\ CuttingDown(f, products)
           /\ TrimProductList(products) = f[L]
    BY CuttingRuns
  <2> QED BY <2>1, Zenon DEF CuttingDown
<1>2. L \in Nat
  OBVIOUS
<1> DEFINE R == {i \in Nat : i <= L => CutDown(f[i], products, i)}
<1>3. 0 \in R
  <2> DEFINE none == <<>>
             at == [n \in {} |-> 0]
  <2>1. Len(none) = 0 /\ 1..0 = {} /\ LLM_LIST_LIMIT_CAP >= 0
    BY CapsArePositive
  <2>2. at \in [1..0 -> 1..0]
    BY <2>1
  <2> HIDE DEF none, at
  <2>3. Placed(none, products, at)
    BY <2>1 DEF Placed
  <2>4. CutDown(none, products, 0)
    BY <2>1, <2>2, <2>3 DEF CutDown
  <2> QED BY <1>1, <2>4 DEF none
<1>4. ASSUME NEW i \in Nat, i \in R PROVE i + 1 \in R
  <2> SUFFICES ASSUME i + 1 <= L PROVE CutDown(f[i + 1], products, i + 1)
    OBVIOUS
  <2>1. CutDown(f[i], products, i) /\ i \in 0..L
    BY <1>2, <1>4
  <2>2. f[i + 1] = AddLine(f[i], products[i + 1])
    <3>1. i + 1 \in 1..L /\ (i + 1) - 1 = i
      BY <1>2
    <3> HIDE DEF L
    <3> QED BY <1>1, <3>1
  <2>3. f[i] \in Seq(LinesOf(products))
    BY <2>1
  <2>4. CutDown(AddLine(f[i], products[i + 1]), products, i + 1)
    <3> DEFINE lines == f[i]
    <3>1. lines \in Seq(LinesOf(products)) /\ CutDown(lines, products, i)
      BY <2>1, <2>3
    <3> HIDE DEF lines
    <3>2. CutDown(AddLine(lines, products[i + 1]), products, i + 1)
      BY <3>1, AddedLine
    <3> QED BY <3>2 DEF lines
  <2> QED BY <2>2, <2>4
<1> HIDE DEF R
<1>5. Nat \subseteq R
  BY <1>3, <1>4, SetInduction
<1>6. L \in R
  BY <1>2, <1>5
<1>7. CutDown(f[L], products, L)
  BY <1>6, <1>2 DEF R
<1> QED BY <1>1, <1>7

(* A call as its schema has it reaches its tool, on any database that has  *)
(* the model's tag, and a user_id the model adds does no harm where the    *)
(* tool has one (tool_executor.py, lines 475-518, and tools.py).  The kind *)
(* of list is one that the schema's enum has.                              *)
THEOREM SchemasAreAccepted ==
    ASSUME NEW db, db.tagged, NEW tool \in TOOLS, NEW arguments,
           Required(tool) \subseteq DOMAIN arguments,
           \A a \in DOMAIN arguments \ Required(tool) :
              a \in Optional(tool) \/ (a = "user_id" /\ tool \in NeedsUser),
           "kind" \in DOMAIN arguments => arguments.kind \in FollowKinds,
           NEW user, NEW now
    PROVE  ~ExecuteTool(db, tool, arguments, user, now).error
<1> DEFINE given == WithUser(tool, arguments, user)
           answer == AnswerFor(db, tool, given, now)
           card == Card(db, tool, given)
<1>0. ~Raises(db, tool, given)
  <2>1. ~Mismatched(db, given.query)
    BY DEF Mismatched
  <2>2. tool = "get_followers_or_following" => given.kind \in FollowKinds
    <3> SUFFICES ASSUME tool = "get_followers_or_following"
                 PROVE  given.kind \in FollowKinds
      OBVIOUS
    <3>1. "kind" \in Required(tool)
      BY DEF Required, ByOrder, ByProduct, Sessions
    <3>2. "kind" \in DOMAIN arguments
      BY <3>1
    <3>3. given.kind = arguments.kind
      BY <3>2 DEF WithUser
    <3> QED BY <3>2, <3>3
  <2> QED BY <2>1, <2>2, Zenon DEF Raises
<1>1. DOMAIN given = IF tool \in NeedsUser
                     THEN DOMAIN arguments \union {"user_id"}
                     ELSE DOMAIN arguments
  BY DEF WithUser
<1> HIDE DEF given, answer, card
<1>2. Accepts(tool, given)
  <2> DEFINE needed == Required(tool)
             allowed == Optional(tool)
             written == DOMAIN arguments
             owned == IF tool \in NeedsUser THEN {"user_id"} ELSE {}
  <2>1. /\ needed \subseteq written
        /\ \A a \in written : a \in needed \/ a \in allowed \/ a \in owned
    OBVIOUS
  <2>2. DOMAIN given = written \union owned
    BY <1>1
  <2> HIDE DEF needed, allowed, written, owned
  <2>3. /\ needed \union owned \subseteq DOMAIN given
        /\ DOMAIN given \subseteq needed \union allowed \union owned
    BY <2>1, <2>2
  <2> QED BY <2>3, Zenon DEF Accepts, needed, allowed, owned
<1>3. ExecuteTool(db, tool, arguments, user, now)
         = [error |-> FALSE, answer |-> answer, card |-> card]
  BY <1>0, <1>2, Zenon DEF ExecuteTool, given, answer, card
<1> QED BY <1>3

LEMMA RoundIsNearest ==
    ASSUME NEW x \in Int
    PROVE  100 * Round(x) - x \in -50..50
<1> DEFINE down == x \div 100
           rest == x % 100
<1>1. x = 100 * down + rest /\ rest \in 0..99 /\ down \in Int
  OBVIOUS
<1>2. Round(x) = IF rest < 50 \/ (rest = 50 /\ down % 2 = 0)
                 THEN down ELSE down + 1
  BY DEF Round
<1> HIDE DEF down, rest
<1> QED BY <1>1, <1>2

(* The amount the model may suggest is within half a unit of the deepest   *)
(* discount the seller allows (bargains_repo.py, suggest_offer_amount).    *)
THEOREM OffersAreClose ==
    ASSUME NEW db, NEW id, NEW p, FindProduct(db, id) = {p},
           p.price \in Int, p.maxDiscount \in Int,
           NEW offer \in SuggestOffer(db, id), offer.available
    PROVE  100 * offer.offer - p.price * (100 - p.maxDiscount) \in -50..50
<1> DEFINE x == p.price * (100 - p.maxDiscount)
           Offer(q) == [product |-> id, available |-> q.maxDiscount >= 0,
                        offer |-> IF q.maxDiscount >= 0
                                  THEN Round(q.price * (100 - q.maxDiscount))
                                  ELSE 0]
<1>1. SuggestOffer(db, id) = {Offer(q) : q \in FindProduct(db, id)}
  BY Zenon DEF SuggestOffer
<1>2. offer = Offer(p)
  <2> HIDE DEF Offer
  <2> QED BY <1>1
<1>3. x \in Int
  OBVIOUS
<1>4. /\ offer.available <=> p.maxDiscount >= 0
      /\ offer.offer = IF p.maxDiscount >= 0 THEN Round(x) ELSE 0
  BY <1>2, Zenon
<1>5. offer.offer = Round(x)
  BY <1>4
<1> HIDE DEF x
<1>6. 100 * offer.offer - x \in -50..50
  BY <1>3, <1>5, RoundIsNearest
<1> QED BY <1>6 DEF x

(* An order is called so many days late only if it is still to come and    *)
(* was due that many whole days ago, and not a day too few is counted      *)
(* (tool_executor.py, lines 236-243).                                      *)
THEOREM LateOrdersAreLate ==
    ASSUME Day \in Nat \ {0}, NEW order, order.expected \in Int,
           NEW now \in Int
    PROVE  /\ DaysLate(order, now) \in Nat
           /\ DaysLate(order, now) > 0 =>
                 /\ order.status \notin DELIVERED_OR_DONE
                 /\ order.expected >= 0
                 /\ now - order.expected >= DaysLate(order, now) * Day
                 /\ now - order.expected < (DaysLate(order, now) + 1) * Day
<1> DEFINE late == now - order.expected
           days == late \div Day
<1>1. CASE order.expected < 0 \/ order.status \in DELIVERED_OR_DONE
             \/ now < order.expected
  <2>1. DaysLate(order, now) = 0
    BY <1>1 DEF DaysLate
  <2> QED BY <2>1
<1>2. CASE ~(order.expected < 0 \/ order.status \in DELIVERED_OR_DONE
               \/ now < order.expected)
  <2>1. DaysLate(order, now) = days
    BY <1>2, Zenon DEF DaysLate
  <2>2. late \in Nat /\ order.expected >= 0
    BY <1>2
  <2>3. days \in Nat /\ days * Day <= late /\ late < (days + 1) * Day
    <3>1. Day \in Nat /\ Day > 0
      OBVIOUS
    <3> HIDE DEF late
    <3> DEFINE rest == late % Day
    <3>2. late = Day * days + rest /\ rest \in 0..(Day - 1) /\ days \in Int
      BY <2>2, <3>1
    <3> HIDE DEF days, rest
    <3>3. (days + 1) * Day = Day * days + Day /\ days * Day = Day * days
      BY <3>1, <3>2
    <3>4. days >= 0
      <4> SUFFICES ASSUME days <= -1 PROVE FALSE
        BY <3>2
      <4>1. Day * days <= -Day
        BY <3>1, <3>2
      <4> QED BY <2>2, <3>1, <3>2, <4>1
    <3> QED BY <3>1, <3>2, <3>3, <3>4
  <2> QED BY <1>2, <2>1, <2>2, <2>3
<1> QED BY <1>1, <1>2
==============================================================================
