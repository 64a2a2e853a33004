-------------------------------- MODULE Auth --------------------------------
(***************************************************************************)
(* auth.py and the dependencies that guard /chat: whose request it is, and *)
(* whether it may go on.  A token says how it was signed, when it expires, *)
(* for whom and by whom it was issued, and maps claim names to users; ""   *)
(* is an empty claim.                                                      *)
(***************************************************************************)
EXTENDS Settings

Refused(why) == [user |-> "", why |-> why]
User(u) == [user |-> u, why |-> ""]

Unset(v) == BlankMeansUnset(v) = Absent

\* jwt.decode as it is called: one algorithm, exp required, the audience and
\* the issuer only when they are set.
Decodes(env, token) ==
    /\ token.alg = Algorithm(env.jwt_algorithm)
    /\ token.signed
    /\ token.exp = "later"
    /\ Unset(env.audience) \/ token.aud = BlankMeansUnset(env.audience).word
    /\ Unset(env.issuer) \/ token.iss = BlankMeansUnset(env.issuer).word

Present(token, claim) ==
    claim \in DOMAIN token.claims /\ token.claims[claim] # ""

\* _extract_user_id: the first configured claim that says something.
\* Mutant: the first one that is there, empty or not.
ExtractAnyPresent(env, token) ==
    LET names == Claims(env.claims)
        at == SelectInSeq(names, LAMBDA c : c \in DOMAIN token.claims)
    IN  IF at = 0 THEN Refused("unclaimed") ELSE User(token.claims[names[at]])
ExtractUserId(env, token) ==
    LET names == Claims(env.claims)
        at == SelectInSeq(names, LAMBDA c : Present(token, c))
    IN  IF at = 0 THEN Refused("unclaimed") ELSE User(token.claims[names[at]])

VerifyToken(env, token) ==
    IF Decodes(env, token) THEN ExtractUserId(env, token)
    ELSE Refused("invalid")

\* create_test_token, for the algorithms that sign with the shared secret.
CreateTestToken(env, user) ==
    [alg |-> Algorithm(env.jwt_algorithm), signed |-> TRUE, exp |-> "later",
     aud |-> BlankMeansUnset(env.audience).word,
     iss |-> BlankMeansUnset(env.issuer).word,
     claims |-> [c \in {Head(Claims(env.claims))} |-> user]]

\* get_current_user_id, then rate_limited_user_id: the status of a request,
\* whom it is for, and the users the limiter was asked about.
Admit(env, header, allowed) ==
    LET who == IF header.given THEN VerifyToken(env, header.token)
               ELSE Refused("missing")
    IN  IF who.why # ""
        THEN [status |-> 401, user |-> "", counted |-> {}]
        ELSE [status |-> IF who.user \in allowed THEN 200 ELSE 429,
              user |-> who.user, counted |-> {who.user}]
=============================================================================
