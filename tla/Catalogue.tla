----------------------------- MODULE Catalogue -----------------------------
(***************************************************************************)
(* The embedded catalogue: reembed_catalogue.py, which moves it from the   *)
(* model nobody recorded ("old") to one of our own ("new"), against the    *)
(* searches of products_repo.py that rank by it meanwhile.  The database   *)
(* may go away, the script may be killed between any two of its steps, and *)
(* the service may be stopped.  Atlas drops and builds an index in its own *)
(* time.                                                                   *)
(*                                                                         *)
(* Zatch's own pipeline writes an old embedding for an edited product.  On *)
(* the live cluster the script asks that it be stopped first.              *)
(***************************************************************************)
EXTENDS Naturals, FiniteSets

CONSTANTS Product,
          Widths,     \* what the vectors of the old and new model may measure
          Live,       \* this is the cluster with the pipeline
          MaxEdits, MaxFaults   \* bounds: edited products; kills and outages

Models == {"old", "new"}

ASSUME CatalogueAssumption ==
    /\ Product # {}
    /\ Widths \subseteq [Models -> Nat \ {0}]
    /\ Live \in BOOLEAN
    /\ MaxEdits \in Nat /\ MaxFaults \in Nat

VARIABLES
    up,        \* the database answers
    width,     \* of either model: AZURE_EMBEDDING_DIMENSIONS is a setting
    pipeline,  \* Zatch's pipeline is running
    edits,     \* products edited so far
    stale,     \* edited, and the pipeline has not got to them yet
    docs,      \* the model of the embedding of each product that has one
    index,     \* what the index is: the width, and how far it is
    script,    \* the step the script has come to
    faults,    \* kills and outages so far
    service,   \* "off" or "serving"
    search,    \* the step a search has come to
    query,     \* the model of the vector it searches with
    answer     \* what the last search answered: the embeddings it ranked

data == <<docs, index>>
source == <<width, pipeline, edits, stale>>
searching == <<search, query, answer>>
vars == <<up, source, data, script, faults, service, searching>>

Missing == [width |-> 0, state |-> "none"]
Steps == {"off", "embedding", "deleting", "inserting", "dropping",
          "creating", "done"}

\* What a search found: how it ended, and the models of what it ranked.
Ended(how) == [how |-> how, models |-> {}, query |-> "none"]

Init ==
    /\ up = TRUE
    /\ width \in Widths
    /\ pipeline = Live
    /\ edits = 0
    /\ stale = {}
    /\ docs \in [Product -> {"old"}]
    /\ index = [width |-> width["old"], state |-> "ready"]
    /\ script = "off"
    /\ faults = 0
    /\ service = "off"
    /\ search = "idle"
    /\ query = "none"
    /\ answer = Ended("none")

-----------------------------------------------------------------------------
(***************************************************************************)
(* The script, with --apply.  Each step is one command to the database or  *)
(* one call of the embedding endpoint; a failed one ends it.               *)
(***************************************************************************)
ScriptStep(from, to) ==
    /\ script = from
    /\ script' = to
    /\ UNCHANGED <<source, faults, service, searching>>

\* The checks before it, the ping and the reading of the products.
StartScript ==
    /\ ~Live \/ ~pipeline
    /\ up
    /\ ScriptStep("off", "embedding")
    /\ UNCHANGED <<up, data>>

EmbedTexts ==
    /\ \/ ScriptStep("embedding", "deleting")
       \/ ScriptStep("embedding", "off")
    /\ UNCHANGED <<up, data>>

\* Mutant: the new embeddings are written over the old ones.
DeleteNothing ==
    /\ up
    /\ ScriptStep("deleting", "inserting")
    /\ UNCHANGED <<up, data>>

\* delete_many
Delete ==
    /\ up
    /\ docs' = <<>>
    /\ ScriptStep("deleting", "inserting")
    /\ UNCHANGED <<up, index>>

\* insert_many takes one document after the other.
Insert ==
    /\ up
    /\ \E p \in Product :
          docs' = [q \in DOMAIN docs \union {p} |->
                      IF q = p THEN "new" ELSE docs[q]]
    /\ docs' # docs
    /\ UNCHANGED <<up, source, index, script, faults, service, searching>>
    /\ script = "inserting"

Inserted ==
    /\ \A p \in Product : p \in DOMAIN docs /\ docs[p] = "new"
    /\ ScriptStep("inserting", "dropping")
    /\ UNCHANGED <<up, data>>

\* Mutant: an index that is not there cannot be dropped.
DropStrictly ==
    /\ IF up /\ index.state \in {"ready", "building"}
       THEN /\ ScriptStep("dropping", "creating")
            /\ index' = [index EXCEPT !.state = "dropped"]
       ELSE ScriptStep("dropping", "off") /\ UNCHANGED index
    /\ UNCHANGED <<up, docs>>

\* drop_search_index; whatever it raises is taken for there being none.
Drop ==
    /\ index' = IF up /\ index.state \in {"ready", "building"}
                THEN [index EXCEPT !.state = "dropped"] ELSE index
    /\ ScriptStep("dropping", "creating")
    /\ UNCHANGED <<up, docs>>

\* create_search_index, ten seconds later: Atlas refuses it while the
\* dropped index is still there.
Create ==
    /\ up
    /\ IF index.state = "none"
       THEN /\ ScriptStep("creating", "done")
            /\ index' = [width |-> width["new"], state |-> "building"]
       ELSE /\ ScriptStep("creating", "off")
            /\ UNCHANGED index
    /\ UNCHANGED <<up, docs>>

\* The database is gone in the middle, or somebody stops the script.
Killed ==
    /\ script \notin {"off", "done"}
    /\ faults < MaxFaults
    /\ faults' = faults + 1
    /\ script' = "off"
    /\ UNCHANGED <<up, source, data, service, searching>>

-----------------------------------------------------------------------------
(***************************************************************************)
(* Outside: Atlas, the pipeline, and the network.                          *)
(***************************************************************************)
Outside == UNCHANGED <<script, service, searching>>

\* Atlas gets round to it.
Atlas ==
    /\ index' \in (CASE index.state = "dropped" -> {Missing}
                     [] index.state = "building" ->
                          {[index EXCEPT !.state = "ready"]}
                     [] OTHER -> {})
    /\ Outside /\ UNCHANGED <<up, source, docs, faults>>

Edit ==
    /\ pipeline
    /\ edits < MaxEdits
    /\ edits' = edits + 1
    /\ \E p \in Product : stale' = stale \union {p}
    /\ Outside /\ UNCHANGED <<up, width, pipeline, data, faults>>

Embeds ==
    /\ pipeline /\ up
    /\ \E p \in stale :
          /\ stale' = stale \ {p}
          /\ docs' = [q \in DOMAIN docs \union {p} |->
                         IF q = p THEN "old" ELSE docs[q]]
    /\ Outside /\ UNCHANGED <<up, width, pipeline, edits, index, faults>>

StopPipeline ==
    /\ pipeline
    /\ pipeline' = FALSE
    /\ stale' = {}
    /\ Outside /\ UNCHANGED <<up, width, edits, data, faults>>

Outage ==
    /\ up
    /\ faults < MaxFaults
    /\ faults' = faults + 1
    /\ up' = FALSE
    /\ Outside /\ UNCHANGED <<source, data>>

Back ==
    /\ ~up
    /\ up' = TRUE
    /\ Outside /\ UNCHANGED <<source, data, faults>>

-----------------------------------------------------------------------------
(***************************************************************************)
(* The service.  A start without the database fails: connect_to_mongo      *)
(* raises what its ping raises.                                            *)
(***************************************************************************)
Serving == UNCHANGED <<up, source, data, script, faults>>

StartService ==
    /\ service = "off"
    /\ up
    /\ service' = "serving"
    /\ Serving /\ UNCHANGED searching

StopService ==
    /\ service = "serving"
    /\ service' = "off"
    /\ search' = "idle"
    /\ query' = "none"
    /\ answer' = Ended("none")
    /\ Serving

Answers(result) ==
    /\ search' = "idle"
    /\ query' = "none"
    /\ answer' = result

\* search_products_semantically: whichever document find_one comes across
\* says whether the catalogue is ours.
Sample ==
    /\ service = "serving" /\ search = "idle"
    /\ IF ~up THEN Answers(Ended("failed"))
       ELSE IF docs = <<>> THEN Answers(Ended("nothing"))
       ELSE \E p \in DOMAIN docs :
               IF docs[p] = "new"
               THEN search' = "embedding" /\ UNCHANGED <<query, answer>>
               ELSE Answers(Ended("refused"))
    /\ Serving /\ UNCHANGED service

\* embed_query; without it nothing is found.
EmbedQuery ==
    /\ search = "embedding"
    /\ \/ search' = "ranking" /\ query' = "new" /\ UNCHANGED answer
       \/ Answers(Ended("nothing"))
    /\ Serving /\ UNCHANGED service

\* find_similar_products: the stored vector is the query.
Seed ==
    /\ service = "serving" /\ search = "idle"
    /\ \E p \in Product :
          IF ~up THEN Answers(Ended("failed"))
          ELSE IF p \notin DOMAIN docs THEN Answers(Ended("nothing"))
          ELSE search' = "ranking" /\ query' = docs[p] /\ UNCHANGED answer
    /\ Serving /\ UNCHANGED service

\* What the index holds: the vectors of its own width.
Indexed == {p \in DOMAIN docs : width[docs[p]] = index.width}

\* $vectorSearch: without its index, or with a vector of another width, it
\* fails, which is caught; without the database it fails, which is not.
Rank ==
    /\ search = "ranking"
    /\ IF ~up THEN Answers(Ended("failed"))
       ELSE IF index.state # "ready" \/ width[query] # index.width
               \/ Indexed = {}
       THEN Answers(Ended("nothing"))
       ELSE Answers([how |-> "results", query |-> query,
                     models |-> {docs[p] : p \in Indexed}])
    /\ Serving /\ UNCHANGED service

-----------------------------------------------------------------------------
Migrate == EmbedTexts \/ Delete \/ Insert \/ Inserted \/ Drop \/ Create
Ask == Sample \/ Seed
Look == EmbedQuery \/ Rank

Next ==
    \/ StartScript \/ Migrate \/ Killed
    \/ Atlas \/ Edit \/ Embeds \/ StopPipeline \/ Outage \/ Back
    \/ StartService \/ StopService \/ Ask \/ Look

(***************************************************************************)
(* The operator stops the pipeline and starts the script again until it is *)
(* done, Atlas gets round to its work, and an outage ends.  The script     *)
(* cannot be relied on to get every reply of the embedding endpoint, only  *)
(* one in the end.                                                         *)
(***************************************************************************)
Spec ==
    /\ Init
    /\ [][Next]_vars
    /\ WF_vars(StopPipeline)
    /\ WF_vars(StartScript)
    /\ SF_vars(ScriptStep("embedding", "deleting") /\ UNCHANGED <<up, data>>)
    /\ WF_vars(Migrate)
    /\ WF_vars(Atlas)
    /\ WF_vars(Back)

-----------------------------------------------------------------------------
(***************************************************************************)
(* Properties.                                                             *)
(***************************************************************************)
TypeOK ==
    /\ up \in BOOLEAN /\ pipeline \in BOOLEAN
    /\ edits \in 0..MaxEdits /\ faults \in 0..MaxFaults
    /\ stale \subseteq Product
    /\ DOMAIN docs \subseteq Product
    /\ \A p \in DOMAIN docs : docs[p] \in Models
    /\ index.state \in {"none", "building", "ready", "dropped"}
    /\ script \in Steps
    /\ service \in {"off", "serving"}
    /\ search \in {"idle", "embedding", "ranking"}
    /\ query \in Models \union {"none"}

(* A query of our own model never ranks vectors of the other, also where   *)
(* both are of one width so that nothing would fail: wherever the script   *)
(* is killed it leaves a catalogue of one model or none, and an old one is *)
(* refused (embeddings.py, "THE RULE THAT GOVERNS EVERYTHING HERE").  A    *)
(* stored vector never does where the widths differ; where they do not, it *)
(* may have been read before the migration and ranked after it.            *)
NoRankedNoise ==
    /\ TypeOK
    /\ answer.how = "results" /\ answer.models # {answer.query} =>
         answer.query = "old" /\ width["old"] = width["new"]

\* All of it is of the new model, and the index for it is there.
Migrated ==
    /\ \A p \in Product : p \in DOMAIN docs /\ docs[p] = "new"
    /\ index = [width |-> width["new"], state |-> "ready"]

(* A migration that keeps being started again comes to its end, also from  *)
(* the state a kill between delete and insert or between drop and create   *)
(* left behind, and from an index Atlas had not dropped in time: from then *)
(* on a search finds the whole catalogue (reembed_catalogue.py, 209-268).  *)
MigrationCompletes == <>[]Migrated
=============================================================================
