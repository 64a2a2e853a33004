---------------------------- MODULE RedisClient -----------------------------
(***************************************************************************)
(* db/redis_client.py: the one place that decides whether there is a Redis.*)
(* get_redis() answers from two variables.  The first caller marks the     *)
(* question as settled BEFORE it awaits the ping, and everybody who asks   *)
(* during that await is told what client holds by then: None.              *)
(*                                                                         *)
(* These are the steps of get_redis and close_redis, for the modules of    *)
(* their callers to build actions from.                                    *)
(***************************************************************************)
CONSTANT Url        \* REDIS_URL: "unset", "rest" (an https:// one) or "redis"

ASSUME UrlAssumption == Url \in {"unset", "rest", "redis"}

VARIABLES
    checked,        \* _checked
    client          \* _client: "none" or "redis"

ClientTypeOK ==
    /\ checked \in BOOLEAN
    /\ client \in {"none", "redis"}

\* if _checked: return _client
Cached ==
    /\ checked
    /\ UNCHANGED <<checked, client>>

\* No usable URL: the answer is None, at once and for good.
LookInVain ==
    /\ ~checked
    /\ Url # "redis"
    /\ checked' = TRUE
    /\ UNCHANGED client

\* Mutant: the question is settled only when the ping returns.
LookUnmarked ==
    /\ ~checked
    /\ Url = "redis"
    /\ UNCHANGED <<checked, client>>

\* from_url and ping: the caller waits.
Look ==
    /\ ~checked
    /\ Url = "redis"
    /\ checked' = TRUE
    /\ UNCHANGED client

PingOk ==
    /\ client' = "redis"
    /\ UNCHANGED checked

PingFails ==
    /\ client' = "none"
    /\ UNCHANGED checked
=============================================================================
