----------------------------- MODULE Providers -----------------------------
(***************************************************************************)
(* The provider chain of llm_client.py: which providers may be asked, in   *)
(* which order, how worried to be about it, and what a request to each of  *)
(* them looks like.  An env is a record of settings (module Settings).     *)
(***************************************************************************)
EXTENDS Settings

RealData(env) == Database(env.database) = <<"zatch">>

TrainsOnPrompts(env, p) ==
    p \in {"groq", "gemini"} \/ (p = "backup" /\ env.backup_trains)

Configured(env, p) == CASE p = "azure" -> AzureConfigured(env)
                        [] p = "backup" -> BackupConfigured(env)
                        [] p = "groq" -> Given(env.groq)
                        [] p = "gemini" -> Given(env.gemini)

PROVIDERS == <<"azure", "backup", "groq", "gemini">>

\* get_providers; the empty chain is NoProviderConfigured.
Chain(env) ==
    LET Eligible(p) == /\ Configured(env, p)
                       /\ RealData(env) => ~TrainsOnPrompts(env, p)
    IN  Only(PROVIDERS, {p \in ToSet(PROVIDERS) : Eligible(p)})

-----------------------------------------------------------------------------
(***************************************************************************)
(* assess_chain.                                                           *)
(***************************************************************************)
CREDIT_AT_RISK_DAYS == 14
CREDIT_CRITICAL_DAYS == 3

Redundant(chain) == Len(chain) > 1

\* What the days left make of a level.
\* Mutant: no days left is taken for no date given.
RaisedByTruthOf(level, redundant, days) ==
    IF days < 0 \/ (days \in 1..CREDIT_CRITICAL_DAYS /\ ~redundant)
    THEN "critical"
    ELSE IF days \in 1..CREDIT_AT_RISK_DAYS THEN "at_risk" ELSE level
RaisedBy(level, redundant, days) ==
    IF days < 0 \/ (days <= CREDIT_CRITICAL_DAYS /\ ~redundant)
    THEN "critical"
    ELSE IF days <= CREDIT_AT_RISK_DAYS THEN "at_risk" ELSE level

Level(env) ==
    LET chain == Chain(env)
        alone == IF Redundant(chain) THEN "ok" ELSE "at_risk"
    IN  IF chain = <<>> THEN "critical"
        ELSE IF CreditDays(env) = {} THEN alone
        ELSE RaisedBy(alone, Redundant(chain),
                      CHOOSE d \in CreditDays(env) : TRUE)

-----------------------------------------------------------------------------
(***************************************************************************)
(* One request: the payload both transports share, and the three things    *)
(* Azure wants otherwise.  Fields that are always there are left out.      *)
(***************************************************************************)
Kind(env, p) == IF p = "azure" THEN "azure"
                ELSE IF p = "backup" THEN BackupKind(env.backup_kind)
                ELSE "openai"

Payload(tools, choice, streamed) ==
    [limits |-> {"max_tokens"},
     tools |-> tools,
     choice |-> IF tools = {} THEN {} ELSE {choice},
     streamed |-> streamed]

Renamed(limits) == {"max_completion_tokens"}

BuildRequest(kind, body) ==
    IF kind = "azure"
    THEN [auth |-> "api-key", addressed |-> "deployment",
          body |-> [body EXCEPT !.limits = Renamed(@)]]
    ELSE [auth |-> "bearer", addressed |-> "model", body |-> body]

-----------------------------------------------------------------------------
(***************************************************************************)
(* check_database_health and GET /health.                                  *)
(***************************************************************************)
DatabaseHealth(client, pings) ==
    IF ~client THEN "disconnected" ELSE IF pings THEN "connected" ELSE "error"

LLM_WIRE_STATUS == [ok |-> "ok", at_risk |-> "warning",
                    critical |-> "unavailable"]

Health(env, client, pings) ==
    LET database == DatabaseHealth(client, pings)
        degraded == database # "connected" \/ Level(env) = "critical"
    IN  [status |-> IF degraded THEN "degraded" ELSE "ok",
         database |-> database, llm |-> LLM_WIRE_STATUS[Level(env)]]
=============================================================================
