---------------------------- MODULE MCRateLimit ----------------------------
(* Small instances of RateLimit for TLC: requests, users and workers are    *)
(* model values that the specification only compares for equality.          *)
EXTENDS RateLimit, TLC

Interchangeable ==
    Permutations(Request) \union Permutations(User) \union Permutations(Worker)
=============================================================================
