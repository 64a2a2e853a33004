-------------------------- MODULE Catalogue_proofs --------------------------
(***************************************************************************)
(* What holds of the embedded catalogue for any products, any widths, any  *)
(* number of edits, kills and outages, on the live cluster or another.     *)
(***************************************************************************)
EXTENDS Catalogue, TLAPS

All(model) == \A p \in DOMAIN docs : docs[p] = model

(* Where the script has come to, what is stored is of one model; what a    *)
(* search has made sure of stays so; and the pipeline is not running from  *)
(* the first step of the script on, so that nothing undoes it.             *)
OneModel ==
    /\ All("old") \/ All("new")
    /\ script \in {"inserting", "dropping", "creating", "done"} => All("new")
    /\ search = "embedding" \/ query = "new" => All("new")
    /\ search = "ranking" => query \in Models
    /\ pipeline => /\ Live
                   /\ script = "off"
                   /\ All("old")
                   /\ search # "embedding"
                   /\ query # "new"

IInv ==
    /\ TypeOK
    /\ width \in Widths
    /\ index \in [width : Nat, state : {"none", "building", "ready", "dropped"}]
    /\ OneModel
    /\ NoRankedNoise

-----------------------------------------------------------------------------
LEMMA Constants ==
    /\ Product # {} /\ MaxEdits \in Nat /\ MaxFaults \in Nat
    /\ Live \in BOOLEAN
    /\ \A w \in Widths : w["old"] \in Nat /\ w["new"] \in Nat
BY CatalogueAssumption DEF Models

LEMMA InitInv == Init => IInv
<1> SUFFICES ASSUME Init PROVE IInv
  OBVIOUS
<1>1. docs \in [Product -> {"old"}] /\ width \in Widths
  BY DEF Init
<1>2. TypeOK
  BY <1>1, Constants DEF Init, TypeOK, Models, Steps
<1>3. index \in [width : Nat, state : {"none", "building", "ready", "dropped"}]
  BY <1>1, Constants DEF Init
<1>4. OneModel
  BY <1>1 DEF Init, OneModel, All
<1>5. NoRankedNoise
  BY <1>2 DEF Init, NoRankedNoise, Ended
<1> QED BY <1>1, <1>2, <1>3, <1>4, <1>5 DEF IInv

\* A step that leaves the searches alone cannot disturb an answer.
LEMMA AnswerStays ==
    ASSUME NoRankedNoise, TypeOK', UNCHANGED <<width, answer>>
    PROVE  NoRankedNoise'
BY DEF NoRankedNoise

-----------------------------------------------------------------------------
(***************************************************************************)
(* The script.                                                             *)
(***************************************************************************)
LEMMA MigrateInv ==
    ASSUME IInv, Migrate
    PROVE  IInv'
<1> USE DEF IInv, ScriptStep, source, searching, data
<1>1. CASE EmbedTexts
  <2>1. TypeOK' /\ OneModel'
    BY <1>1 DEF EmbedTexts, TypeOK, OneModel, All, Steps
  <2> QED BY <1>1, <2>1, AnswerStays DEF EmbedTexts
<1>2. CASE Delete
  <2>1. docs' = <<>> /\ DOMAIN docs' = {}
    BY <1>2 DEF Delete
  <2>2. TypeOK' /\ OneModel'
    BY <1>2, <2>1 DEF Delete, TypeOK, OneModel, All, Steps
  <2> QED BY <1>2, <2>2, AnswerStays DEF Delete
<1>3. CASE Insert
  <2>1. PICK p \in Product :
           docs' = [q \in DOMAIN docs \union {p} |->
                       IF q = p THEN "new" ELSE docs[q]]
    BY <1>3 DEF Insert
  <2>2. /\ DOMAIN docs' = DOMAIN docs \union {p}
        /\ \A q \in DOMAIN docs' : docs'[q] = IF q = p THEN "new" ELSE docs[q]
    BY <2>1
  <2>3. TypeOK'
    BY <1>3, <2>2 DEF Insert, TypeOK, Models
  <2>4. OneModel'
    BY <1>3, <2>2 DEF Insert, OneModel, All
  <2> QED BY <1>3, <2>3, <2>4, AnswerStays DEF Insert
<1>4. CASE Inserted
  <2>1. TypeOK' /\ OneModel'
    BY <1>4 DEF Inserted, TypeOK, OneModel, All, Steps
  <2> QED BY <1>4, <2>1, AnswerStays DEF Inserted
<1>5. CASE Drop
  <2>1. index' \in [width : Nat,
                    state : {"none", "building", "ready", "dropped"}]
    BY <1>5 DEF Drop
  <2>2. TypeOK' /\ OneModel'
    BY <1>5, <2>1 DEF Drop, TypeOK, OneModel, All, Steps
  <2> QED BY <1>5, <2>1, <2>2, AnswerStays DEF Drop
<1>6. CASE Create
  <2>1. index' \in [width : Nat,
                    state : {"none", "building", "ready", "dropped"}]
    BY <1>6, Constants DEF Create
  <2>2. TypeOK' /\ OneModel'
    BY <1>6, <2>1 DEF Create, TypeOK, OneModel, All, Steps
  <2> QED BY <1>6, <2>1, <2>2, AnswerStays DEF Create
<1> QED BY <1>1, <1>2, <1>3, <1>4, <1>5, <1>6 DEF Migrate

LEMMA StartAndKillInv ==
    ASSUME IInv, StartScript \/ Killed
    PROVE  IInv'
<1> USE DEF IInv, ScriptStep, source, searching, data
<1>1. CASE StartScript
  <2>1. ~pipeline
    BY <1>1 DEF StartScript, OneModel
  <2>2. TypeOK' /\ OneModel'
    BY <1>1, <2>1 DEF StartScript, TypeOK, OneModel, All, Steps
  <2> QED BY <1>1, <2>2, AnswerStays DEF StartScript
<1>2. CASE Killed
  <2>1. TypeOK' /\ OneModel'
    BY <1>2, Constants DEF Killed, TypeOK, OneModel, All, Steps
  <2> QED BY <1>2, <2>1, AnswerStays DEF Killed
<1> QED BY <1>1, <1>2

-----------------------------------------------------------------------------
(***************************************************************************)
(* Outside, and the searches.                                              *)
(***************************************************************************)
LEMMA OutsideInv ==
    ASSUME IInv, Atlas \/ Edit \/ Embeds \/ StopPipeline \/ Outage \/ Back
    PROVE  IInv'
<1> USE DEF IInv, Outside, source, searching, data
<1>1. CASE Atlas
  <2>1. index' \in [width : Nat,
                    state : {"none", "building", "ready", "dropped"}]
    BY <1>1 DEF Atlas, Missing
  <2>2. UNCHANGED <<up, source, docs, script, faults, service, searching>>
    BY <1>1 DEF Atlas
  <2>3. index'.state \in {"none", "building", "ready", "dropped"}
    BY <2>1
  <2>4. TypeOK'
    BY <2>2, <2>3 DEF TypeOK
  <2>5. OneModel'
    BY <2>2 DEF OneModel, All
  <2> QED BY <2>1, <2>2, <2>4, <2>5, AnswerStays
<1>2. CASE Edit
  <2>0. edits' \in 0..MaxEdits /\ stale' \subseteq Product
    BY <1>2, Constants DEF Edit, TypeOK
  <2>1. UNCHANGED <<up, width, pipeline, data, faults, script, service,
                    searching>>
    BY <1>2 DEF Edit
  <2>2. TypeOK'
    BY <2>0, <2>1 DEF TypeOK
  <2>3. OneModel'
    BY <2>1 DEF OneModel, All
  <2> QED BY <2>1, <2>2, <2>3, AnswerStays
<1>3. CASE Embeds
  <2>1. PICK p \in stale :
           /\ stale' = stale \ {p}
           /\ docs' = [q \in DOMAIN docs \union {p} |->
                          IF q = p THEN "old" ELSE docs[q]]
    BY <1>3 DEF Embeds
  <2>2. /\ DOMAIN docs' = DOMAIN docs \union {p}
        /\ \A q \in DOMAIN docs' : docs'[q] = IF q = p THEN "old" ELSE docs[q]
    BY <2>1
  <2>3. TypeOK'
    BY <1>3, <2>1, <2>2 DEF Embeds, TypeOK, Models
  <2>4. OneModel'
    BY <1>3, <2>2 DEF Embeds, OneModel, All
  <2> QED BY <1>3, <2>3, <2>4, AnswerStays DEF Embeds
<1>4. CASE StopPipeline
  <2>1. TypeOK' /\ OneModel'
    BY <1>4 DEF StopPipeline, TypeOK, OneModel, All
  <2> QED BY <1>4, <2>1, AnswerStays DEF StopPipeline
<1>5. CASE Outage \/ Back
  <2>1. /\ UNCHANGED <<source, data, script, service, searching>>
        /\ up' \in BOOLEAN /\ (faults' = faults \/ faults' = faults + 1)
        /\ faults' # faults => faults < MaxFaults
    BY <1>5 DEF Outage, Back
  <2>2. faults' \in 0..MaxFaults
    BY <2>1, Constants DEF TypeOK
  <2>3. TypeOK'
    BY <2>1, <2>2 DEF TypeOK
  <2>4. OneModel'
    BY <2>1 DEF OneModel, All
  <2> QED BY <2>1, <2>3, <2>4, AnswerStays
<1> QED BY <1>1, <1>2, <1>3, <1>4, <1>5

LEMMA SearchInv ==
    ASSUME IInv,
           StartService \/ StopService \/ Sample \/ EmbedQuery \/ Seed \/ Rank
    PROVE  IInv'
<1> USE DEF IInv, Serving, source, searching, data
<1>0. CASE Serving /\ (\E how \in {"none", "failed", "nothing", "refused"} :
                          Answers(Ended(how)))
           /\ service' \in {"off", "serving"}
  <2>1. TypeOK' /\ OneModel'
    BY <1>0 DEF Answers, TypeOK, OneModel, All, Models
  <2>2. answer'.how # "results"
    BY <1>0 DEF Answers, Ended
  <2> QED BY <1>0, <2>1, <2>2 DEF NoRankedNoise
<1>1. CASE StartService
  <2>1. TypeOK' /\ OneModel'
    BY <1>1 DEF StartService, TypeOK, OneModel, All
  <2> QED BY <1>1, <2>1, AnswerStays DEF StartService
<1>2. CASE StopService
  BY <1>0, <1>2 DEF StopService, Answers
<1>3. CASE Sample
  <2>1. service' \in {"off", "serving"}
    BY <1>3 DEF Sample, TypeOK
  <2>2. CASE Answers(Ended("failed")) \/ Answers(Ended("nothing"))
               \/ Answers(Ended("refused"))
    BY <1>0, <1>3, <2>1, <2>2 DEF Sample
  <2>3. ASSUME NEW p \in DOMAIN docs, docs[p] = "new",
               search' = "embedding", UNCHANGED <<query, answer>>
        PROVE  IInv'
    <3>1. All("new") /\ ~pipeline
      BY <2>3 DEF OneModel, All
    <3>2. TypeOK' /\ OneModel'
      BY <1>3, <2>1, <2>3, <3>1 DEF Sample, TypeOK, OneModel, All
    <3> QED BY <1>3, <2>3, <3>2, AnswerStays DEF Sample
  <2> QED BY <1>3, <2>2, <2>3 DEF Sample
<1>4. CASE EmbedQuery
  <2>1. service' \in {"off", "serving"}
    BY <1>4 DEF EmbedQuery, TypeOK
  <2>2. CASE Answers(Ended("nothing"))
    BY <1>0, <1>4, <2>1, <2>2 DEF EmbedQuery
  <2>3. CASE search' = "ranking" /\ query' = "new" /\ UNCHANGED answer
    <3>1. TypeOK' /\ OneModel'
      BY <1>4, <2>1, <2>3 DEF EmbedQuery, TypeOK, OneModel, All, Models
    <3> QED BY <1>4, <2>3, <3>1, AnswerStays DEF EmbedQuery
  <2> QED BY <1>4, <2>2, <2>3 DEF EmbedQuery
<1>5. CASE Seed
  <2>1. service' \in {"off", "serving"}
    BY <1>5 DEF Seed, TypeOK
  <2>2. CASE Answers(Ended("failed")) \/ Answers(Ended("nothing"))
    BY <1>0, <1>5, <2>1, <2>2 DEF Seed
  <2>3. ASSUME NEW p \in DOMAIN docs,
               search' = "ranking", query' = docs[p], UNCHANGED answer
        PROVE  IInv'
    <3>1. docs[p] = "new" => All("new") /\ ~pipeline
      BY DEF OneModel, All
    <3>2. docs[p] \in Models
      BY DEF TypeOK
    <3>3. TypeOK' /\ OneModel'
      BY <1>5, <2>1, <2>3, <3>1, <3>2 DEF Seed, TypeOK, OneModel, All
    <3> QED BY <1>5, <2>3, <3>3, AnswerStays DEF Seed
  <2> QED BY <1>5, <2>2, <2>3 DEF Seed
<1>6. CASE Rank
  <2>1. service' \in {"off", "serving"}
    BY <1>6 DEF Rank, TypeOK
  <2>2. CASE Answers(Ended("failed")) \/ Answers(Ended("nothing"))
    BY <1>0, <1>6, <2>1, <2>2 DEF Rank
  <2> DEFINE ranked == {docs[p] : p \in Indexed}
             found == [how |-> "results", query |-> query, models |-> ranked]
  <2>3. CASE Answers(found) /\ width[query] = index.width /\ Indexed # {}
    <3>1. query \in Models /\ (query = "new" => All("new"))
      BY <1>6 DEF Rank, OneModel
    <3>2. query = "new" => ranked = {"new"}
      BY <2>3, <3>1 DEF Indexed, All
    <3>3. query = "old" /\ All("old") => ranked = {"old"}
      BY <2>3 DEF Indexed, All
    <3>4. query = "old" /\ ranked # {"old"} => width["old"] = width["new"]
      <4>1. SUFFICES ASSUME query = "old", All("new")
                     PROVE  width["old"] = width["new"]
        BY <3>3 DEF OneModel
      <4>2. PICK p \in Indexed : TRUE
        BY <2>3
      <4>3. docs[p] = "new" /\ width[docs[p]] = index.width
        BY <4>1, <4>2 DEF Indexed, All
      <4> QED BY <2>3, <4>1, <4>3
    <3>5. TypeOK' /\ OneModel'
      BY <1>6, <2>1, <2>3 DEF Rank, Answers, TypeOK, OneModel, All, Models
    <3>6. answer' = found /\ width' = width
      BY <1>6, <2>3 DEF Rank, Answers
    <3> HIDE DEF ranked
    <3>7. answer'.query = query /\ answer'.models = ranked
      BY <3>6
    <3>8. answer'.models # {answer'.query} =>
             query = "old" /\ width["old"] = width["new"]
      BY <3>1, <3>2, <3>4, <3>7 DEF Models
    <3>9. NoRankedNoise'
      BY <3>5, <3>6, <3>7, <3>8 DEF NoRankedNoise
    <3> QED BY <1>6, <3>5, <3>9 DEF Rank
  <2> QED BY <1>6, <2>2, <2>3 DEF Rank
<1> QED BY <1>1, <1>2, <1>3, <1>4, <1>5, <1>6

-----------------------------------------------------------------------------
LEMMA NextInv == IInv /\ [Next]_vars => IInv'
<1>1. CASE UNCHANGED vars
  BY <1>1 DEF IInv, TypeOK, OneModel, All, NoRankedNoise, vars, source, data,
              searching
<1>2. ASSUME IInv, Next PROVE IInv'
  BY <1>2, MigrateInv, StartAndKillInv, OutsideInv, SearchInv
     DEF Next, Ask, Look
<1> QED BY <1>1, <1>2

(* A query of our own model never ranks another model's vectors, and a     *)
(* stored vector only where nothing would have failed, for any catalogue,  *)
(* however often the script is killed and wherever, and however the        *)
(* pipeline, the outages and the searches fall (reembed_catalogue.py and   *)
(* search_products_semantically).                                          *)
THEOREM NoNoiseIsRanked == Spec => []NoRankedNoise
<1>1. Spec => []IInv
  BY InitInv, NextInv, PTL DEF Spec
<1>2. IInv => NoRankedNoise
  BY DEF IInv
<1> QED BY <1>1, <1>2, PTL
=============================================================================
