------------------------------ MODULE Settings ------------------------------
(***************************************************************************)
(* settings.py: what the values of a .env file become, and whether the     *)
(* service starts with them.  A value is the word it spells and whether it *)
(* is tidy: no blanks around it and the case the code compares with.  The  *)
(* untidy word "" is white space only.                                     *)
(***************************************************************************)
EXTENDS Integers, Sequences, SequencesExt, Lists

Raw(word) == [word |-> word, tidy |-> TRUE]
Untidy(word) == [word |-> word, tidy |-> FALSE]
Absent == Raw("absent")

Blank(v) == v.word \in {"absent", ""}
Clean(v) == Raw(v.word)

\* A Python truth test: white space only counts as a value.
Given(v) == v \notin {Absent, Raw("")}

-----------------------------------------------------------------------------
(***************************************************************************)
(* The validators.                                                         *)
(***************************************************************************)
BlankMeansUnset(v) == IF Blank(v) THEN Absent ELSE Clean(v)

BlankMeansDefault(v, default) == IF Blank(v) THEN Raw(default) ELSE v

AllowedAlgorithms == {"HS256", "HS384", "HS512", "RS256", "RS384", "RS512",
                      "ES256", "ES384"}
Symmetric == {"HS256", "HS384", "HS512"}

Algorithm(v) == Clean(BlankMeansDefault(v, "HS256")).word

\* The claim names of a comma-separated value, blank ones left out.
ClaimList(names) == Only(names, ToSet(names) \ {""})

DefaultClaims == <<"user_id", "userId", "sub", "_id">>
Claims(names) == IF ClaimList(names) = <<>> /\ Len(names) <= 1
                 THEN DefaultClaims
                 ELSE ClaimList(names)

\* value.strip() of a sequence of words and blanks.
Strip(line) ==
    LET Word(w) == w # " "
        first == SelectInSeq(line, Word)
    IN  IF first = 0 THEN <<>>
        ELSE SubSeq(line, first, SelectLastInSeq(line, Word))

\* Mutant: the comment is taken for a part of the name.
DatabaseWithComment(line) == Strip(line)
\* The name before an inline comment.
Database(line) ==
    LET sign == SelectInSeq(line, LAMBDA w : w = "#")
    IN  Strip(IF sign = 0 THEN line ELSE SubSeq(line, 1, sign - 1))

BackupKind(v) == IF Given(v) THEN Clean(v).word ELSE "openai"

Starts(env) ==
    /\ ~Blank(env.mongodb_uri)
    /\ ~Blank(env.jwt_secret)
    /\ Database(env.database) # <<>>
    /\ Algorithm(env.jwt_algorithm) \in AllowedAlgorithms
    /\ Claims(env.claims) # <<>>
    /\ BackupKind(env.backup_kind) \in {"openai", "azure"}
    /\ env.window > 0

-----------------------------------------------------------------------------
(***************************************************************************)
(* What the other modules ask of the settings.                             *)
(***************************************************************************)
AzureConfigured(env) == \A v \in env.azure : Given(BlankMeansUnset(v))

BackupConfigured(env) == \A v \in env.backup : Given(v)

\* credit_days_remaining: empty for a date that is missing or unreadable.
CreditDays(env) == IF env.credit.readable THEN {env.credit.days} ELSE {}
=============================================================================
