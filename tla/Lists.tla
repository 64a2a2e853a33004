------------------------------- MODULE Lists -------------------------------
(***************************************************************************)
(* List comprehensions and sorting, of which the other modules make        *)
(* theirs.  They are recursive functions and choices, not operators with   *)
(* an operator for a parameter: so what holds of them can be proved once.  *)
(***************************************************************************)
EXTENDS Naturals, Sequences, FiniteSets

\* [x for x in seq if x in S]
Only(seq, S) ==
    LET only[i \in 0..Len(seq)] ==
            IF i = 0 THEN <<>>
            ELSE IF seq[i] \in S THEN Append(only[i - 1], seq[i])
            ELSE only[i - 1]
    IN  only[Len(seq)]

\* The n-th of a set of numbers.
Nth(S, n) == CHOOSE i \in S : Cardinality({j \in S : j <= i}) = n

\* sorted(range(len(keys)), key=keys): what is equal keeps its order.
Before(keys, i) ==
    {j \in DOMAIN keys : keys[j] < keys[i] \/ (keys[j] = keys[i] /\ j <= i)}
Sorted(keys) ==
    [n \in DOMAIN keys |->
        CHOOSE i \in DOMAIN keys : Cardinality(Before(keys, i)) = n]
=============================================================================
