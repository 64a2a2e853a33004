------------------------------ MODULE Logging ------------------------------
(***************************************************************************)
(* logging.py: what becomes of one value in a log line.  The value lies at *)
(* the end of a chain of links: into a dict, a namedtuple or a dataclass   *)
(* by a name, into a list or tuple, or into an object that is only shown   *)
(* by its repr.  Of a name it matters whether it has one of SENSITIVE_KEYS *)
(* in it and whether it is one of SAFE_KEYS.                               *)
(***************************************************************************)
EXTENDS Naturals, Sequences

CONSTANT MAX_REDACTION_DEPTH

ASSUME DepthIsNatural == MAX_REDACTION_DEPTH \in Nat

IsSensitiveKey(name) == ~name.safe /\ name.blocked

Named(link) == link.via \in {"dict", "namedtuple", "dataclass"}

\* _redact_value, after so many links.
RedactValue(links) ==
    LET Fate[depth \in 0..Len(links)] ==
            LET link == links[depth + 1]
            IN  IF depth >= MAX_REDACTION_DEPTH THEN "truncated"
                ELSE IF depth = Len(links) \/ link.via = "object" THEN "shown"
                ELSE IF Named(link) /\ IsSensitiveKey(link.name)
                THEN "redacted"
                ELSE Fate[depth + 1]
    IN  Fate[0]

RedactSensitiveData(key, links) ==
    IF IsSensitiveKey(key) THEN "redacted" ELSE RedactValue(links)
=============================================================================
