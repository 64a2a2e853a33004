-------------------------- MODULE AgentTurn_proofs --------------------------
(***************************************************************************)
(* What holds of a turn of conversation for any number of providers, tool  *)
(* rounds, retries and tool calls, and after any stored history.           *)
(***************************************************************************)
EXTENDS AgentTurn, Messages_proofs, FiniteSetTheorems

(* Everything has its type, the places in the loops are inside their       *)
(* bounds, and tools run only in the loop, never in the synthesis.         *)
InPlace ==
    /\ TypeOK
    /\ round < IF phase = "loop" THEN MaxToolIterations ELSE SynthesisAttempts
    /\ position \in 1..(IF numProviders = 0 THEN 1 ELSE numProviders)
    /\ pc \in {"tools", "running"} => phase = "loop"

(* The tokens of a question come from the attempt that is under way.       *)
VoiceInv ==
    /\ speakers \subseteq {<<position, attempt>>}
    /\ ~streamedAny => speakers = {}

(* The flag counts the product cards.                                      *)
CardInv == products = IF productShown THEN 1 ELSE 0

\* Questions put to a model and done with.
Used == IF phase = "loop" THEN round ELSE MaxToolIterations + round

\* The most requests one question may take.
PerQuestion == numProviders * (MaxRetries + 1)

(* A question spends one request per attempt.                              *)
BudgetInv ==
    /\ pc = "start" => requests = 0
    /\ pc = "asking" =>
          requests <= Used * PerQuestion
                        + ((position - 1) * (MaxRetries + 1) + attempt)
    /\ requests <= (Used + 1) * PerQuestion

(* The list is whole whenever a model is asked, and owes exactly the calls *)
(* of its open exchange while the tools run.                               *)
ListInv ==
    /\ pc = "start" => messages \in Histories
    /\ pc \in {"asking", "done"} => WholeExchanges(messages)
    /\ pc = "asking" => /\ messages # <<>>
                        /\ messages[Len(messages)].role \in {"user", "tool"}
                        /\ messages[Len(messages)].calls = 0
    /\ pc \in {"tools", "running"} => /\ answered < batch
                                      /\ Owing(messages, batch, answered)
    /\ pc = "done" => /\ messages # <<>>
                      /\ messages[Len(messages)] = Answer
                      /\ reply # "none"

IInv == InPlace /\ VoiceInv /\ CardInv /\ BudgetInv /\ ListInv

-----------------------------------------------------------------------------
(***************************************************************************)
(* Types and places.                                                       *)
(***************************************************************************)
LEMMA AskedOnce ==
    /\ UserTurn \in Message
    /\ \A ms \in Seq(Message) :
          (IF ms = <<>> THEN <<SystemPrompt>> ELSE ms) \o <<UserTurn>>
             \in Seq(Message)
BY MessageTypes

LEMMA NobodySpoke == {} \in SUBSET (Nat \X Nat)
OBVIOUS

LEMMA InitInPlace == Init => InPlace
<1> SUFFICES ASSUME Init PROVE InPlace
  OBVIOUS
<1>1. messages \in Seq(Message)
  BY AgentAssumption DEF Init
<1>2. speakers \in SUBSET (Nat \X Nat)
  BY NobodySpoke DEF Init
<1>3. position \in 1..(IF numProviders = 0 THEN 1 ELSE numProviders)
  BY AgentAssumption DEF Init
<1>4. TypeOK
  <2>1. /\ attempt \in 0..MaxRetries
        /\ batch \in 0..MaxCalls
        /\ answered \in 0..MaxCalls
        /\ round \in Nat /\ position \in Nat
        /\ products \in Nat /\ requests \in Nat
    BY AgentAssumption DEF Init
  <2>2. pc = "start" /\ phase = "loop" /\ reply = "none"
    BY DEF Init
  <2>3. /\ streamedAny \in BOOLEAN /\ productShown \in BOOLEAN
        /\ streaming \in BOOLEAN /\ numProviders \in 0..MaxProviders
    BY DEF Init
  <2> QED BY <1>1, <1>2, <2>1, <2>2, <2>3 DEF TypeOK
<1>5. round < IF phase = "loop" THEN MaxToolIterations ELSE SynthesisAttempts
  BY AgentAssumption DEF Init
<1>6. pc \in {"tools", "running"} => phase = "loop"
  BY DEF Init
<1> QED BY <1>3, <1>4, <1>5, <1>6 DEF InPlace

(* Each question starts in place again.                                    *)
LEMMA AskAgainInPlace ==
    ASSUME InPlace, AskAgain
    PROVE  /\ pc' = "asking"
           /\ position' = 1
           /\ attempt' \in 0..MaxRetries
           /\ streamedAny' \in BOOLEAN
           /\ speakers' \in SUBSET (Nat \X Nat)
<1>1. speakers' \in SUBSET (Nat \X Nat)
  BY NobodySpoke DEF AskAgain
<1>2. attempt' \in 0..MaxRetries
  BY AgentAssumption DEF AskAgain
<1> QED BY <1>1, <1>2 DEF AskAgain

LEMMA NextRoundInPlace ==
    ASSUME InPlace, NextRound, phase = "loop"
    PROVE  /\ phase' \in {"loop", "synthesis"}
           /\ round' \in Nat
           /\ round' < IF phase' = "loop" THEN MaxToolIterations
                       ELSE SynthesisAttempts
           /\ AskAgain
BY AgentAssumption DEF NextRound, InPlace, TypeOK, SynthesisAttempts

(* An answer in words, or an apology, extends the list by one message.     *)
LEMMA ReplyInPlace ==
    ASSUME InPlace, NEW text \in {"text"} \union Fallbacks, ReplyWith(text)
    PROVE  /\ pc' = "done"
           /\ messages' \in Seq(Message)
           /\ reply' \in {"none", "text"} \union Fallbacks
BY MessageTypes DEF ReplyWith, InPlace, TypeOK

LEMMA NextInPlace ==
    ASSUME InPlace, [Next]_vars
    PROVE  InPlace'
<1> USE AgentAssumption DEF setting, question, call, tools
<1>1. CASE Begin
  <2>1. AskAgain
    BY <1>1 DEF Begin
  <2>2. messages' \in Seq(Message)
    BY <1>1, AskedOnce DEF Begin, InPlace, TypeOK
  <2> QED BY <1>1, <2>1, <2>2, AskAgainInPlace DEF Begin, InPlace, TypeOK
<1>2. CASE PromptFails
  BY <1>2 DEF PromptFails, InPlace, TypeOK
<1>3. CASE Token
  BY <1>3 DEF Token, Asked, InPlace, TypeOK
<1>4. CASE AnswerWords
  BY <1>4, ReplyInPlace DEF AnswerWords, InPlace, TypeOK
<1>5. CASE AnswerBlank
  <2>1. requests' \in Nat /\ UNCHANGED <<setting, tools>>
    BY <1>5 DEF AnswerBlank, InPlace, TypeOK
  <2>2. CASE phase = "loop" /\ NextRound /\ UNCHANGED <<messages, reply>>
    BY <2>1, <2>2, NextRoundInPlace, AskAgainInPlace DEF InPlace, TypeOK
  <2>3. CASE /\ phase = "synthesis"
             /\ round + 1 < SynthesisAttempts
             /\ round' = round + 1
             /\ AskAgain
             /\ UNCHANGED <<messages, phase, reply>>
    BY <2>1, <2>3, AskAgainInPlace DEF InPlace, TypeOK
  <2>4. CASE ReplyWith("generic") /\ UNCHANGED <<question, call>>
    BY <2>1, <2>4, ReplyInPlace DEF InPlace, TypeOK, Fallbacks
  <2> QED BY <1>5, <2>2, <2>3, <2>4 DEF AnswerBlank
<1>6. CASE AnswerCalls
  <2>1. PICK n \in 1..MaxCalls, text \in BOOLEAN :
             messages' = Append(messages, ToolCalls(n, text)) /\ batch' = n
    BY <1>6 DEF AnswerCalls
  <2>2. messages' \in Seq(Message)
    BY <2>1, MessageTypes DEF InPlace, TypeOK
  <2> QED BY <1>6, <2>1, <2>2 DEF AnswerCalls, InPlace, TypeOK
<1>7. CASE Malformed
  BY <1>7 DEF Malformed, InPlace, TypeOK
<1>8. ASSUME NEW error \in Errors, Fails(error) PROVE InPlace'
  <2>1. /\ requests' \in Nat
        /\ Asked
        /\ UNCHANGED <<setting, question, streamedAny, speakers, tools>>
    BY <1>8 DEF Fails, InPlace, TypeOK
  <2>2. CASE /\ attempt < MaxRetries
             /\ attempt' = attempt + 1
             /\ UNCHANGED <<pc, messages, position, reply>>
    BY <2>1, <2>2 DEF InPlace, TypeOK
  <2>3. CASE /\ position < numProviders
             /\ position' = position + 1
             /\ attempt' = 0
             /\ UNCHANGED <<pc, messages, reply>>
    BY <2>1, <2>3 DEF InPlace, TypeOK
  <2>4. CASE ReplyWith(Fallback(error)) /\ UNCHANGED <<position, attempt>>
    <3>1. Fallback(error) \in Fallbacks
      BY DEF Fallback, Fallbacks
    <3> QED BY <2>1, <2>4, <3>1, ReplyInPlace DEF InPlace, TypeOK
  <2> QED BY <1>8, <2>2, <2>3, <2>4 DEF Fails, Retries
<1>9. CASE NoProvider
  BY <1>9, ReplyInPlace DEF NoProvider, InPlace, TypeOK, Fallbacks
<1>10. ASSUME GiveResult, phase = "loop", batch' = batch, setting' = setting,
              pc \in {"tools", "running"},
              reply' = reply, requests' = requests,
              productShown' \in BOOLEAN, products' \in Nat
       PROVE  InPlace'
  <2>1. messages' \in Seq(Message)
    BY <1>10, MessageTypes DEF GiveResult, InPlace, TypeOK
  <2>2. CASE /\ answered + 1 < batch
             /\ pc' = "tools"
             /\ UNCHANGED <<question, call>>
    BY <1>10, <2>1, <2>2 DEF GiveResult, InPlace, TypeOK
  <2>3. CASE answered + 1 = batch /\ NextRound
    BY <1>10, <2>1, <2>3, NextRoundInPlace, AskAgainInPlace
       DEF GiveResult, InPlace, TypeOK
  <2> QED BY <1>10, <2>2, <2>3 DEF GiveResult
<1>11. CASE BadArguments
  BY <1>10, <1>11 DEF BadArguments, InPlace, TypeOK
<1>12. CASE StartTool
  BY <1>12 DEF StartTool, InPlace, TypeOK
<1>13. CASE FinishTool
  <2>1. productShown' \in BOOLEAN /\ products' \in Nat
    BY <1>13 DEF FinishTool, InPlace, TypeOK
  <2> QED BY <1>10, <1>13, <2>1 DEF FinishTool, InPlace
<1>14. CASE Cancel
  BY <1>14 DEF Cancel, InPlace, TypeOK
<1>15. CASE UNCHANGED vars
  BY <1>15 DEF vars, InPlace, TypeOK
<1> QED BY <1>1, <1>2, <1>3, <1>4, <1>5, <1>6, <1>7, <1>8, <1>9, <1>11,
           <1>12, <1>13, <1>14, <1>15
        DEF Next, Progress, Outcome, Finished

-----------------------------------------------------------------------------
(***************************************************************************)
(* One voice, and one product card.                                        *)
(***************************************************************************)
LEMMA NewQuestionIsSilent ==
    ASSUME AskAgain
    PROVE  VoiceInv'
BY DEF AskAgain, VoiceInv

(* A new iteration, a new question.                                        *)
LEMMA NextRoundAsks == NextRound => AskAgain
BY DEF NextRound

LEMMA SameQuestionSameVoice ==
    ASSUME VoiceInv, UNCHANGED call
    PROVE  VoiceInv'
BY DEF VoiceInv, call

LEMMA NextVoice ==
    ASSUME VoiceInv, [Next]_vars
    PROVE  VoiceInv'
<1> USE NewQuestionIsSilent, NextRoundAsks, SameQuestionSameVoice
<1>1. CASE Begin
  BY <1>1 DEF Begin
<1>2. CASE PromptFails
  BY <1>2 DEF PromptFails
<1>3. CASE Token
  BY <1>3 DEF Token, VoiceInv
<1>4. CASE AnswerWords
  BY <1>4 DEF AnswerWords
<1>5. CASE AnswerBlank
  BY <1>5 DEF AnswerBlank
<1>6. CASE AnswerCalls
  BY <1>6 DEF AnswerCalls
<1>7. CASE Malformed
  BY <1>7 DEF Malformed
<1>8. ASSUME NEW error \in Errors, Fails(error) PROVE VoiceInv'
  <2>1. UNCHANGED <<streamedAny, speakers>>
    BY <1>8 DEF Fails
  <2>2. CASE MayGoOn
    BY <2>1, <2>2 DEF MayGoOn, VoiceInv
  <2>3. CASE UNCHANGED <<position, attempt>>
    BY <2>1, <2>3 DEF VoiceInv
  <2> QED BY <1>8, <2>2, <2>3 DEF Fails
<1>9. CASE NoProvider
  BY <1>9 DEF NoProvider
<1>10. CASE BadArguments
  BY <1>10 DEF BadArguments, GiveResult
<1>11. CASE StartTool
  BY <1>11 DEF StartTool
<1>12. CASE FinishTool
  BY <1>12 DEF FinishTool, GiveResult
<1>13. CASE Cancel
  BY <1>13 DEF Cancel
<1>14. CASE UNCHANGED vars
  BY <1>14 DEF vars
<1> QED BY <1>1, <1>2, <1>3, <1>4, <1>5, <1>6, <1>7, <1>8, <1>9, <1>10,
           <1>11, <1>12, <1>13, <1>14
        DEF Next, Progress, Outcome, Finished

LEMMA NextCard ==
    ASSUME InPlace, CardInv, [Next]_vars
    PROVE  CardInv'
<1>1. CASE UNCHANGED <<productShown, products>>
  BY <1>1 DEF CardInv
<1>2. CASE FinishTool
  <2>1. PICK card \in BOOLEAN :
           /\ productShown' = (productShown \/ (streaming /\ card))
           /\ products' = IF streaming /\ card /\ ~productShown
                          THEN products + 1 ELSE products
    BY <1>2 DEF FinishTool
  <2>2. productShown \in BOOLEAN /\ streaming \in BOOLEAN
    BY DEF InPlace, TypeOK
  <2>3. CASE streaming /\ card /\ ~productShown
    <3>1. productShown' = TRUE
      BY <2>1, <2>3
    <3>2. products = 0 /\ products' = 0 + 1
      BY <2>1, <2>3 DEF CardInv
    <3> QED BY <3>1, <3>2 DEF CardInv
  <2>4. CASE ~(streaming /\ card /\ ~productShown)
    <3>1. productShown' = productShown /\ products' = products
      BY <2>1, <2>2, <2>4
    <3> QED BY <3>1 DEF CardInv
  <2> QED BY <2>3, <2>4
<1> QED BY <1>1, <1>2
        DEF Next, Progress, Outcome, Finished, Begin, PromptFails, Token,
            AnswerWords, AnswerBlank, AnswerCalls, Malformed, Fails,
            NoProvider, BadArguments, StartTool, Cancel, vars, tools

-----------------------------------------------------------------------------
(***************************************************************************)
(* The budget: a request is one attempt of one provider for one question.  *)
(***************************************************************************)
LEMMA ProductType == \A a \in Nat, b \in Nat : a * b \in Nat
OBVIOUS

LEMMA OneMore == \A u \in Nat, q \in Nat : (u + 1) * q = u * q + q
OBVIOUS

LEMMA Longer ==
    ASSUME NEW u \in Nat, NEW v \in Nat, NEW q \in Nat, u <= v
    PROVE  u * q <= v * q
<1>1. v * q = u * q + (v - u) * q
  OBVIOUS
<1>2. (v - u) * q \in Nat
  BY ProductType
<1>3. u * q \in Nat
  BY ProductType
<1> QED BY <1>1, <1>2, <1>3

(* An attempt of one of n providers fits into the question's share.        *)
LEMMA AttemptFits ==
    ASSUME NEW n \in Nat, NEW p \in 1..n, NEW tries \in Nat,
           NEW a \in 0..(tries - 1)
    PROVE  ((p - 1) * tries + a) + 1 <= n * tries
<1>1. (p - 1) * tries <= (n - 1) * tries
  BY Longer
<1>2. n * tries = (n - 1) * tries + tries
  BY OneMore
<1>3. (p - 1) * tries \in Nat /\ (n - 1) * tries \in Nat
  BY ProductType
<1> QED BY <1>1, <1>2, <1>3

LEMMA Counts ==
    ASSUME InPlace
    PROVE  /\ MaxRetries + 1 \in Nat
           /\ PerQuestion \in Nat
           /\ Used \in Nat
           /\ Used * PerQuestion \in Nat
           /\ (Used + 1) * PerQuestion = Used * PerQuestion + PerQuestion
           /\ Used + 1 <= MaxToolIterations + SynthesisAttempts
<1>1. MaxRetries + 1 \in Nat /\ numProviders \in Nat
  BY AgentAssumption DEF InPlace, TypeOK
<1>2. PerQuestion \in Nat
  BY <1>1, ProductType DEF PerQuestion
<1>3. Used \in Nat /\ Used + 1 <= MaxToolIterations + SynthesisAttempts
  BY AgentAssumption DEF InPlace, TypeOK, Used, SynthesisAttempts
<1> QED BY <1>1, <1>2, <1>3, ProductType, OneMore

(* One more request fits, while a provider is left to be asked.            *)
LEMMA RequestFits ==
    ASSUME InPlace, BudgetInv, Asked
    PROVE  requests + 1 <= (Used + 1) * PerQuestion
<1> DEFINE tries == MaxRetries + 1
           mine == (position - 1) * tries + attempt
<1>1. numProviders \in Nat /\ position \in 1..numProviders
  BY AgentAssumption DEF Asked, InPlace, TypeOK
<1>2. tries \in Nat /\ attempt \in 0..(tries - 1)
  BY AgentAssumption DEF InPlace, TypeOK
<1> HIDE DEF tries
<1>3. mine + 1 <= PerQuestion
  BY <1>1, <1>2, AttemptFits DEF PerQuestion, tries
<1>4. requests <= Used * PerQuestion + mine
  BY DEF BudgetInv, Asked, tries
<1>5. mine \in Nat /\ requests \in Nat
  BY <1>1, <1>2, ProductType DEF InPlace, TypeOK
<1> HIDE DEF mine
<1> QED BY <1>3, <1>4, <1>5, Counts

(* A new question starts with an untouched share.                          *)
LEMMA NewQuestionBudget ==
    ASSUME InPlace, InPlace', AskAgain, requests' \in Nat,
           UNCHANGED setting, Used' = Used + 1,
           requests' <= (Used + 1) * PerQuestion
    PROVE  BudgetInv'
<1>1. PerQuestion' = PerQuestion
  BY DEF PerQuestion, setting
<1>2. Used' * PerQuestion' = (Used + 1) * PerQuestion
  BY <1>1
<1>3. /\ Used' * PerQuestion' \in Nat
      /\ PerQuestion' \in Nat
      /\ (Used' + 1) * PerQuestion' = Used' * PerQuestion' + PerQuestion'
  <2>1. PerQuestion \in Nat /\ Used + 1 \in Nat
    BY Counts
  <2> QED BY <2>1, <1>1, ProductType, OneMore
<1>4. (position - 1)' * (MaxRetries + 1) + attempt' = 0
  BY AgentAssumption DEF AskAgain
<1>5. pc' = "asking"
  BY DEF AskAgain
<1> QED BY <1>2, <1>3, <1>4, <1>5 DEF BudgetInv

LEMMA NextRoundUsesOne ==
    ASSUME InPlace, NextRound, phase = "loop"
    PROVE  Used' = Used + 1
<1>1. CASE round' = round + 1 /\ phase' = phase
  BY <1>1 DEF Used, InPlace, TypeOK
<1>2. CASE round + 1 >= MaxToolIterations /\ round' = 0 /\ phase' = "synthesis"
  BY <1>2, AgentAssumption DEF Used, InPlace, TypeOK
<1> QED BY <1>1, <1>2 DEF NextRound

LEMMA QuestionEnds ==
    ASSUME InPlace, BudgetInv, UNCHANGED <<setting, question>>,
           pc' \notin {"start", "asking"},
           requests' = requests \/ (Asked /\ requests' = requests + 1)
    PROVE  BudgetInv'
<1>1. Used' = Used /\ PerQuestion' = PerQuestion
  BY DEF Used, PerQuestion, setting, question
<1>2. (Used' + 1) * PerQuestion' = (Used + 1) * PerQuestion
  BY <1>1
<1>3. requests' <= (Used + 1) * PerQuestion
  BY RequestFits DEF BudgetInv
<1> QED BY <1>2, <1>3 DEF BudgetInv

LEMMA RoundEnds ==
    ASSUME InPlace, InPlace', BudgetInv, phase = "loop", NextRound,
           UNCHANGED setting,
           requests' = requests \/ (Asked /\ requests' = requests + 1)
    PROVE  BudgetInv'
<1>1. requests' <= (Used + 1) * PerQuestion
  BY RequestFits DEF BudgetInv
<1>2. requests' \in Nat
  BY DEF InPlace, TypeOK
<1> QED BY <1>1, <1>2, NextRoundUsesOne, NextRoundAsks, NewQuestionBudget

LEMMA NextBudget ==
    ASSUME InPlace, InPlace', BudgetInv, [Next]_vars
    PROVE  BudgetInv'
<1> USE DEF setting, question, call, tools
<1>1. CASE Begin
  <2>1. requests' = 0 /\ Used' = Used /\ PerQuestion' = PerQuestion
    BY <1>1 DEF Begin, BudgetInv, Used, PerQuestion
  <2>2. (position - 1)' * (MaxRetries + 1) + attempt' = 0
    BY <1>1, AgentAssumption DEF Begin, AskAgain
  <2>3. pc' = "asking"
    BY <1>1 DEF Begin, AskAgain
  <2>4. /\ Used' * PerQuestion' = Used * PerQuestion
        /\ (Used' + 1) * PerQuestion' = (Used + 1) * PerQuestion
    BY <2>1
  <2> QED BY <2>1, <2>2, <2>3, <2>4, Counts DEF BudgetInv
<1>2. CASE PromptFails
  BY <1>2, QuestionEnds DEF PromptFails
<1>3. CASE Token
  BY <1>3 DEF Token, BudgetInv, Used, PerQuestion
<1>4. CASE AnswerWords
  BY <1>4, QuestionEnds DEF AnswerWords, ReplyWith
<1>5. CASE AnswerBlank
  <2>1. Asked /\ requests' = requests + 1 /\ UNCHANGED setting
    BY <1>5 DEF AnswerBlank
  <2>2. CASE phase = "loop" /\ NextRound
    BY <2>1, <2>2, RoundEnds
  <2>3. CASE /\ phase = "synthesis" /\ round' = round + 1
             /\ AskAgain /\ UNCHANGED phase
    <3>1. Used' = Used + 1
      BY <2>3, AgentAssumption DEF Used, InPlace, TypeOK
    <3>2. requests' <= (Used + 1) * PerQuestion /\ requests' \in Nat
      BY <2>1, RequestFits DEF InPlace, TypeOK
    <3> QED BY <2>1, <2>3, <3>1, <3>2, NewQuestionBudget
  <2>4. CASE ReplyWith("generic") /\ UNCHANGED <<question, call>>
    BY <2>1, <2>4, QuestionEnds DEF ReplyWith
  <2> QED BY <1>5, <2>2, <2>3, <2>4 DEF AnswerBlank
<1>6. CASE AnswerCalls
  BY <1>6, QuestionEnds DEF AnswerCalls
<1>7. CASE Malformed
  BY <1>7, QuestionEnds DEF Malformed
<1>8. ASSUME NEW error \in Errors, Fails(error) PROVE BudgetInv'
  <2> DEFINE tries == MaxRetries + 1
             mine == (position - 1) * tries + attempt
  <2>1. /\ Asked /\ requests' = requests + 1
        /\ UNCHANGED <<setting, question>>
    BY <1>8 DEF Fails
  <2>2. /\ Used' = Used /\ PerQuestion' = PerQuestion
        /\ Used' * PerQuestion' = Used * PerQuestion
        /\ (Used' + 1) * PerQuestion' = (Used + 1) * PerQuestion
    BY <2>1 DEF Used, PerQuestion
  <2>3. requests' <= (Used + 1) * PerQuestion
    BY <2>1, RequestFits
  <2>4. /\ requests \in Nat /\ Used * PerQuestion \in Nat
        /\ requests <= Used * PerQuestion + mine
    BY <2>1, Counts DEF BudgetInv, Asked, InPlace, TypeOK
  <2>5. tries \in Nat /\ attempt \in 0..(tries - 1) /\ position \in Nat \ {0}
    BY AgentAssumption DEF InPlace, TypeOK
  <2>6. position - 1 \in Nat /\ (position - 1) * tries \in Nat
    BY <2>5, ProductType
  <2>7. ASSUME mine' >= mine + 1, UNCHANGED pc, mine' \in Nat
        PROVE  BudgetInv'
    <3>1. mine \in Nat
      BY <2>5, <2>6
    <3> HIDE DEF mine
    <3>2. requests' <= Used * PerQuestion + mine'
      BY <2>1, <2>4, <2>7, <3>1
    <3>3. pc' = "asking"
      BY <2>1, <2>7 DEF Asked
    <3>4. requests' <= Used' * PerQuestion' + mine'
      BY <3>2, <2>2
    <3>5. requests' <= (Used' + 1) * PerQuestion'
      BY <2>2, <2>3
    <3> QED BY <3>3, <3>4, <3>5 DEF BudgetInv, mine
  <2>8. CASE attempt' = attempt + 1 /\ UNCHANGED <<pc, position>>
    <3>1. mine' = (position - 1) * tries + (attempt + 1)
      BY <2>8
    <3>2. mine' = mine + 1 /\ mine' \in Nat
      BY <3>1, <2>5, <2>6
    <3> QED BY <3>2, <2>5, <2>6, <2>7, <2>8
  <2>9. CASE position' = position + 1 /\ attempt' = 0 /\ UNCHANGED pc
    <3>1. mine' = ((position - 1) + 1) * tries + 0
      BY <2>9, <2>5
    <3>2. mine' = (position - 1) * tries + tries
      BY <3>1, <2>5, <2>6, OneMore
    <3>3. mine' >= mine + 1 /\ mine' \in Nat
      BY <3>2, <2>5, <2>6
    <3> QED BY <3>3, <2>7, <2>9
  <2>10. CASE ReplyWith(Fallback(error))
    BY <2>1, <2>10, QuestionEnds DEF ReplyWith
  <2> QED BY <1>8, <2>8, <2>9, <2>10 DEF Fails
<1>9. CASE NoProvider
  BY <1>9, QuestionEnds DEF NoProvider, ReplyWith
<1>10. ASSUME GiveResult, pc \in {"tools", "running"},
              UNCHANGED <<setting, requests>>
       PROVE  BudgetInv'
  <2>1. CASE pc' = "tools" /\ UNCHANGED <<question, call>>
    BY <1>10, <2>1, QuestionEnds
  <2>2. CASE NextRound
    BY <1>10, <2>2, RoundEnds DEF InPlace
  <2> QED BY <1>10, <2>1, <2>2 DEF GiveResult
<1>11. CASE BadArguments
  BY <1>10, <1>11 DEF BadArguments
<1>12. CASE StartTool
  BY <1>12, QuestionEnds DEF StartTool
<1>13. CASE FinishTool
  BY <1>10, <1>13 DEF FinishTool
<1>14. CASE Cancel
  BY <1>14, QuestionEnds DEF Cancel
<1>15. CASE UNCHANGED vars
  BY <1>15 DEF vars, BudgetInv, Used, PerQuestion
<1> QED BY <1>1, <1>2, <1>3, <1>4, <1>5, <1>6, <1>7, <1>8, <1>9, <1>11,
           <1>12, <1>13, <1>14, <1>15
        DEF Next, Progress, Outcome, Finished

-----------------------------------------------------------------------------
(***************************************************************************)
(* The list: whole, or owing the calls of its open exchange.               *)
(***************************************************************************)
(* What a turn starts with is whole, and ends with the user's message.     *)
LEMMA BeginsWhole ==
    ASSUME NEW ms \in Seq(Message), WholeExchanges(ms)
    PROVE  LET start == (IF ms = <<>> THEN <<SystemPrompt>> ELSE ms)
                          \o <<UserTurn>>
           IN  /\ start # <<>>
               /\ WholeExchanges(start)
               /\ start[Len(start)] = UserTurn
<1> DEFINE first == IF ms = <<>> THEN <<SystemPrompt>> ELSE ms
<1>1. first \in Seq(Message) /\ WholeExchanges(first)
  <2>1. CASE ms # <<>>
    <3>1. first = ms
      BY <2>1
    <3> HIDE DEF first
    <3> QED BY <3>1
  <2>2. CASE ms = <<>>
    <3>1. first = Append(ms, SystemPrompt)
      BY <2>2
    <3>2. SystemPrompt.calls = 0 /\ SystemPrompt.role # "tool"
      BY DEF SystemPrompt
    <3> HIDE DEF first
    <3> QED BY <3>1, <3>2, WordsKeepWhole, Appending, MessageTypes
  <2> HIDE DEF first
  <2> QED BY <2>1, <2>2
<1> HIDE DEF first
<1>2. first \o <<UserTurn>> = Append(first, UserTurn)
  BY <1>1
<1>3. UserTurn.calls = 0 /\ UserTurn.role # "tool"
  BY DEF UserTurn
<1>4. WholeExchanges(Append(first, UserTurn))
  BY <1>1, <1>3, WordsKeepWhole, MessageTypes
<1> DEFINE new == first \o <<UserTurn>>
<1>5. /\ new # <<>> /\ WholeExchanges(new)
      /\ new[Len(new)] = UserTurn
  <2>1. new = Append(first, UserTurn) /\ UserTurn \in Message
    BY <1>2, MessageTypes
  <2> HIDE DEF new
  <2>2. /\ new # <<>> /\ Len(new) = Len(first) + 1
        /\ new[Len(first) + 1] = UserTurn
    BY <1>1, <2>1, Appending
  <2> QED BY <1>4, <2>1, <2>2
<1> QED BY <1>5 DEF first

LEMMA ReplyKeepsList ==
    ASSUME InPlace, ListInv, pc = "asking",
           NEW text \in {"text"} \union Fallbacks, ReplyWith(text)
    PROVE  ListInv'
<1>1. messages \in Seq(Message) /\ WholeExchanges(messages)
  BY DEF InPlace, TypeOK, ListInv
<1>2. Answer.calls = 0 /\ Answer.role # "tool" /\ Answer \in Message
  BY MessageTypes DEF Answer
<1>3. WholeExchanges(messages')
  BY <1>1, <1>2, WordsKeepWhole DEF ReplyWith
<1>4. messages' # <<>> /\ messages'[Len(messages')] = Answer
  BY <1>1, <1>2, Appending DEF ReplyWith
<1>5. pc' = "done" /\ reply' # "none"
  BY DEF ReplyWith, Fallbacks
<1> QED BY <1>3, <1>4, <1>5 DEF ListInv

LEMMA SameListSameQuestion ==
    ASSUME ListInv, pc = "asking", pc' = "asking", UNCHANGED messages
    PROVE  ListInv'
BY DEF ListInv

LEMMA BrokenOff ==
    ASSUME pc' \in {"raised", "cancelled"}
    PROVE  ListInv'
BY DEF ListInv

LEMMA ResultKeepsList ==
    ASSUME InPlace, ListInv, pc \in {"tools", "running"},
           GiveResult, batch' = batch
    PROVE  ListInv'
<1>1. /\ messages \in Seq(Message) /\ batch \in Nat /\ answered \in Nat
      /\ answered < batch /\ Owing(messages, batch, answered)
  BY AgentAssumption DEF InPlace, TypeOK, ListInv
<1>2. messages' = Append(messages, ToolResult(answered + 1))
  BY DEF GiveResult
<1>3. ToolResult(answered + 1) \in Message
  BY <1>1, MessageTypes
<1>4. /\ messages' \in Seq(Message) /\ messages' # <<>>
      /\ messages'[Len(messages')] = ToolResult(answered + 1)
  BY <1>1, <1>2, <1>3, Appending
<1>5. Owing(messages', batch, answered + 1)
  BY <1>1, <1>2, ExchangeGoesOn
<1>6. CASE answered + 1 < batch /\ pc' = "tools"
  BY <1>5, <1>6 DEF GiveResult, ListInv
<1>7. CASE answered + 1 = batch /\ NextRound
  <2>1. WholeExchanges(messages')
    BY <1>1, <1>4, <1>5, <1>7, ExchangeIsWhole
  <2>2. pc' = "asking"
    BY <1>7 DEF NextRound, AskAgain
  <2>3. /\ messages'[Len(messages')].role = "tool"
        /\ messages'[Len(messages')].calls = 0
    BY <1>4 DEF ToolResult
  <2> QED BY <1>4, <2>1, <2>2, <2>3 DEF ListInv
<1> QED BY <1>6, <1>7 DEF GiveResult

LEMMA NextList ==
    ASSUME InPlace, ListInv, [Next]_vars
    PROVE  ListInv'
<1>1. CASE Begin
  <2>1. messages \in Seq(Message) /\ WholeExchanges(messages)
    BY <1>1, AgentAssumption DEF Begin, InPlace, TypeOK, ListInv
  <2>2. /\ messages' # <<>> /\ WholeExchanges(messages')
        /\ messages'[Len(messages')] = UserTurn
    BY <1>1, <2>1, BeginsWhole DEF Begin
  <2>3. pc' = "asking"
    BY <1>1 DEF Begin, AskAgain
  <2>4. UserTurn.role = "user" /\ UserTurn.calls = 0
    BY DEF UserTurn
  <2> QED BY <2>2, <2>3, <2>4 DEF ListInv
<1>2. CASE PromptFails
  BY <1>2, BrokenOff DEF PromptFails
<1>3. CASE Token
  BY <1>3, SameListSameQuestion DEF Token, Asked
<1>4. CASE AnswerWords
  BY <1>4, ReplyKeepsList DEF AnswerWords, Asked
<1>5. CASE AnswerBlank
  <2>1. pc = "asking"
    BY <1>5 DEF AnswerBlank, Asked
  <2>2. CASE AskAgain /\ UNCHANGED messages
    BY <2>1, <2>2, SameListSameQuestion DEF AskAgain
  <2>3. CASE ReplyWith("generic")
    BY <2>1, <2>3, ReplyKeepsList DEF Fallbacks
  <2> QED BY <1>5, <2>2, <2>3, NextRoundAsks DEF AnswerBlank
<1>6. CASE AnswerCalls
  <2>1. PICK n \in 1..MaxCalls, text \in BOOLEAN :
             messages' = Append(messages, ToolCalls(n, text)) /\ batch' = n
    BY <1>6 DEF AnswerCalls
  <2>2. messages \in Seq(Message) /\ WholeExchanges(messages)
    BY <1>6 DEF AnswerCalls, Asked, InPlace, TypeOK, ListInv
  <2>3. Owing(messages', n, 0)
    BY <2>1, <2>2, ExchangeOpens
  <2>4. pc' = "tools" /\ answered' = 0
    BY <1>6 DEF AnswerCalls
  <2>5. answered' < batch' /\ Owing(messages', batch', answered')
    BY <2>1, <2>3, <2>4
  <2> QED BY <2>4, <2>5 DEF ListInv
<1>7. CASE Malformed
  BY <1>7, BrokenOff DEF Malformed
<1>8. ASSUME NEW error \in Errors, Fails(error) PROVE ListInv'
  <2>1. pc = "asking"
    BY <1>8 DEF Fails, Asked
  <2>2. CASE UNCHANGED <<pc, messages>>
    BY <2>1, <2>2, SameListSameQuestion
  <2>3. CASE ReplyWith(Fallback(error))
    <3>1. Fallback(error) \in Fallbacks
      BY DEF Fallback, Fallbacks
    <3> QED BY <2>1, <2>3, <3>1, ReplyKeepsList
  <2> QED BY <1>8, <2>2, <2>3 DEF Fails
<1>9. CASE NoProvider
  BY <1>9, ReplyKeepsList DEF NoProvider, Fallbacks
<1>10. CASE BadArguments
  BY <1>10, ResultKeepsList DEF BadArguments
<1>11. CASE StartTool
  BY <1>11 DEF StartTool, ListInv, tools
<1>12. CASE FinishTool
  BY <1>12, ResultKeepsList DEF FinishTool
<1>13. CASE Cancel
  BY <1>13, BrokenOff DEF Cancel
<1>14. CASE UNCHANGED vars
  BY <1>14 DEF vars, tools, ListInv
<1> QED BY <1>1, <1>2, <1>3, <1>4, <1>5, <1>6, <1>7, <1>8, <1>9, <1>10,
           <1>11, <1>12, <1>13, <1>14
        DEF Next, Progress, Outcome, Finished

-----------------------------------------------------------------------------
(***************************************************************************)
(* The theorems.                                                           *)
(***************************************************************************)
LEMMA InitIInv == Init => IInv
<1> SUFFICES ASSUME Init PROVE IInv
  OBVIOUS
<1>1. InPlace
  BY InitInPlace
<1>2. VoiceInv /\ CardInv /\ ListInv
  BY DEF Init, VoiceInv, CardInv, ListInv
<1>3. pc = "start" /\ requests = 0
  BY DEF Init
<1>4. requests <= (Used + 1) * PerQuestion
  BY <1>1, <1>3, Counts
<1> QED BY <1>1, <1>2, <1>3, <1>4 DEF IInv, BudgetInv

LEMMA Invariance == Spec => []IInv
<1>1. IInv /\ [Next]_vars => IInv'
  BY NextInPlace, NextVoice, NextCard, NextBudget, NextList DEF IInv
<1> QED BY InitIInv, <1>1, PTL DEF Spec

(* One voice (_complete_with_failover): with any number of providers and   *)
(* retries, the tokens of a question come from a single attempt.           *)
THEOREM OneVoiceSpeaks == Spec => []OneVoice
<1>1. IInv => OneVoice
  <2> SUFFICES ASSUME IInv PROVE Cardinality(speakers) <= 1
    BY DEF OneVoice
  <2> DEFINE mine == <<position, attempt>>
  <2>1. speakers \subseteq {mine}
    BY DEF IInv, VoiceInv
  <2> HIDE DEF mine
  <2>2. IsFiniteSet({mine}) /\ Cardinality({mine}) = 1
    BY FS_Singleton
  <2>3. Cardinality(speakers) <= Cardinality({mine})
    BY <2>1, <2>2, FS_Subset
  <2> QED BY <2>2, <2>3
<1> QED BY Invariance, <1>1, PTL

(* One product card per turn (run_conversation, product_shown), however    *)
(* many tools and rounds return one.                                       *)
THEOREM OneProductShown == Spec => []OneProduct
<1>1. IInv => OneProduct
  BY DEF IInv, CardInv, OneProduct
<1> QED BY Invariance, <1>1, PTL

(* The three nested loops together: rounds and synthesis, providers,       *)
(* retries.  A turn sends at most their product.                           *)
THEOREM BudgetKept == Spec => []RequestBudget
<1>1. IInv => RequestBudget
  <2> SUFFICES ASSUME IInv PROVE RequestBudget
    OBVIOUS
  <2> DEFINE questions == MaxToolIterations + SynthesisAttempts
             tries == MaxRetries + 1
  <2>1. TypeOK /\ InPlace
    BY DEF IInv, InPlace
  <2>2. /\ Used + 1 \in Nat /\ questions \in Nat /\ tries \in Nat
        /\ numProviders \in Nat /\ PerQuestion \in Nat /\ requests \in Nat
        /\ Used + 1 <= questions
    BY <2>1, Counts, AgentAssumption DEF TypeOK, SynthesisAttempts
  <2> HIDE DEF questions, tries
  <2>3. (Used + 1) * PerQuestion <= questions * PerQuestion
    BY <2>2, Longer
  <2>4. questions * PerQuestion = questions * numProviders * tries
    BY <2>2 DEF PerQuestion, tries
  <2>5. requests <= (Used + 1) * PerQuestion
    BY DEF IInv, BudgetInv
  <2>6. (Used + 1) * PerQuestion \in Nat /\ questions * PerQuestion \in Nat
    BY <2>2, ProductType
  <2>7. requests <= questions * numProviders * tries
    BY <2>2, <2>3, <2>4, <2>5, <2>6
  <2> QED BY <2>1, <2>7 DEF RequestBudget, questions, tries
<1> QED BY Invariance, <1>1, PTL

(* run_conversation leaves every history ready for the next turn.          *)
THEOREM RepliesAreKept == Spec => []EndsWithTheReply
<1>1. IInv => EndsWithTheReply
  BY DEF IInv, ListInv, EndsWithTheReply
<1> QED BY Invariance, <1>1, PTL

(* No request holds an unanswered tool call, and what a fallback provider  *)
(* is sent has no tool structure of another's making.                      *)
THEOREM RequestsStaySound == Spec => []RequestsAreSound
<1>1. ASSUME IInv, pc = "asking", position > 1
      PROVE  Portable(CallMessages)
  <2>1. /\ messages \in Seq(Message) /\ messages # <<>>
        /\ messages[Len(messages)].role \in {"user", "tool"}
        /\ messages[Len(messages)].calls = 0
        /\ WholeExchanges(messages)
    BY <1>1 DEF IInv, InPlace, TypeOK, ListInv
  <2>2. CASE HasToolHistory(messages)
    <3>1. CallMessages = Flatten(messages)
      BY <1>1, <2>2 DEF CallMessages
    <3> QED BY <2>1, <3>1, FlattenIsPortable
  <2>3. CASE ~HasToolHistory(messages)
    <3>1. CallMessages = messages
      BY <2>3 DEF CallMessages
    <3>2. \A i \in DOMAIN messages :
             messages[i].calls \in Nat /\ messages[i].calls = 0
      <4>1. \A i \in DOMAIN messages : messages[i] \in Message
        BY <2>1
      <4> QED BY <4>1, <2>3 DEF HasToolHistory, Message
    <3>3. ASSUME NEW i \in DOMAIN messages PROVE messages[i].role # "tool"
      BY <2>1, <3>2 DEF WholeExchanges, EveryResultOwned
    <3>4. LastRole(messages) = "user"
      <4>1. Len(messages) \in DOMAIN messages
        BY <2>1
      <4> QED BY <2>1, <3>3, <4>1 DEF LastRole
    <3> QED BY <3>1, <3>2, <3>3, <3>4 DEF Portable
  <2> QED BY <2>2, <2>3
<1>2. IInv => RequestsAreSound
  BY <1>1 DEF RequestsAreSound, IInv, ListInv
<1> QED BY Invariance, <1>2, PTL

-----------------------------------------------------------------------------
(***************************************************************************)
(* The turn implements TurnOutline.                                        *)
(***************************************************************************)
LEMMA InitOutline == Init => Outline!Init
<1> SUFFICES ASSUME Init PROVE Outline!Init
  OBVIOUS
<1>1. Stage = "idle"
  BY DEF Init, Stage
<1> QED BY <1>1 DEF Init, Outline!Init

LEMMA Stages ==
    /\ pc = "start" => Stage = "idle"
    /\ pc = "asking" => Stage = "open"
    /\ pc \in {"tools", "running"} => Stage = "owing"
    /\ pc = "done" => Stage = "closed"
    /\ pc \in {"raised", "cancelled"} => Stage = "broken"
BY DEF Stage

LEMMA NextStages ==
    /\ pc' = "start" => Stage' = "idle"
    /\ pc' = "asking" => Stage' = "open"
    /\ pc' \in {"tools", "running"} => Stage' = "owing"
    /\ pc' = "done" => Stage' = "closed"
    /\ pc' \in {"raised", "cancelled"} => Stage' = "broken"
BY DEF Stage

(* The outline speaks of the same messages.                                *)
LEMMA SameMessages ==
    /\ Outline!SystemPrompt = SystemPrompt
    /\ Outline!UserTurn = UserTurn
    /\ Outline!Answer = Answer
    /\ \A n, text : Outline!ToolCalls(n, text) = ToolCalls(n, text)
    /\ \A j : Outline!ToolResult(j) = ToolResult(j)
    /\ \A ms : Outline!LastRole(ms) = LastRole(ms)
BY DEF Outline!SystemPrompt, SystemPrompt, Outline!UserTurn, UserTurn,
       Outline!Answer, Answer, Outline!ToolCalls, ToolCalls,
       Outline!ToolResult, ToolResult, Outline!LastRole, LastRole

\* The last result given in the open exchange is the one counted.
LEMMA LastResult ==
    ASSUME NEW ms \in Seq(Message), NEW n \in Nat, NEW given \in Nat,
           Owing(ms, n, given)
    PROVE  given = IF LastRole(ms) = "tool" THEN ms[Len(ms)].id ELSE 0
<1> DEFINE k == Len(ms) - given
<1>1. CASE given = 0
  <2>1. ms[Len(ms)].role = "assistant"
    BY <1>1 DEF Owing
  <2> QED BY <1>1, <2>1 DEF LastRole
<1>2. CASE given # 0
  <2>1. given \in 1..given /\ k + given = Len(ms)
    BY <1>2 DEF Owing
  <2>2. ms[k + given] = ToolResult(given)
    BY <2>1 DEF Owing
  <2> QED BY <2>1, <2>2 DEF LastRole, ToolResult
<1> QED BY <1>1, <1>2

LEMMA ReplyCloses ==
    ASSUME InPlace, ListInv, pc = "asking", UNCHANGED tools,
           NEW text, ReplyWith(text)
    PROVE  Outline!Close
BY Stages, NextStages, SameMessages DEF ReplyWith, Outline!Close, tools

LEMMA AskingGoesOn ==
    ASSUME pc = "asking", pc' = "asking", UNCHANGED messages, UNCHANGED tools
    PROVE  UNCHANGED Outline!vars
BY Stages, NextStages DEF Outline!vars, tools

LEMMA BreaksOff ==
    ASSUME pc \in {"start", "asking", "tools", "running"},
           pc' \in {"raised", "cancelled"}, UNCHANGED <<messages, tools>>
    PROVE  Outline!BreakOff
BY Stages, NextStages DEF Outline!BreakOff, tools

LEMMA ResultIsGiven ==
    ASSUME InPlace, ListInv, pc \in {"tools", "running"},
           GiveResult, batch' = batch
    PROVE  Outline!GiveResult
<1>1. /\ messages \in Seq(Message) /\ batch \in Nat /\ answered \in Nat
      /\ answered < batch /\ Owing(messages, batch, answered)
  BY AgentAssumption DEF InPlace, TypeOK, ListInv
<1>2. Stage = "owing"
  BY Stages
<1>3. messages' = Append(messages, ToolResult(answered + 1))
  BY DEF GiveResult
<1>4. answered = IF LastRole(messages) = "tool"
                 THEN messages[Len(messages)].id ELSE 0
  BY <1>1, LastResult
<1>5. batch' - answered' = (batch - answered) - 1
  BY <1>1 DEF GiveResult
<1>6. Stage' = IF batch - answered = 1 THEN "open" ELSE "owing"
  <2>1. CASE answered + 1 < batch /\ pc' = "tools"
    BY <2>1, <1>1, NextStages
  <2>2. CASE answered + 1 = batch /\ NextRound
    BY <2>2, <1>1, NextStages DEF NextRound, AskAgain
  <2> QED BY <2>1, <2>2 DEF GiveResult
<1> QED BY <1>2, <1>3, <1>4, <1>5, <1>6, SameMessages DEF Outline!GiveResult

LEMMA NextOutline ==
    ASSUME InPlace, ListInv, [Next]_vars
    PROVE  [Outline!Next]_(Outline!vars)
<1> USE DEF Outline!Next
<1>1. CASE Begin
  <2>1. Stage = "idle" /\ Stage' = "open"
    BY <1>1, Stages, NextStages DEF Begin, AskAgain
  <2> QED BY <1>1, <2>1, SameMessages DEF Begin, Outline!Ask, tools
<1>2. CASE PromptFails
  BY <1>2, BreaksOff DEF PromptFails
<1>3. CASE Token
  BY <1>3, AskingGoesOn DEF Token, Asked
<1>4. CASE AnswerWords
  BY <1>4, ReplyCloses DEF AnswerWords, Asked
<1>5. CASE AnswerBlank
  <2>1. pc = "asking" /\ UNCHANGED tools
    BY <1>5 DEF AnswerBlank, Asked
  <2>2. CASE AskAgain /\ UNCHANGED messages
    BY <2>1, <2>2, AskingGoesOn DEF AskAgain
  <2>3. CASE ReplyWith("generic")
    BY <2>1, <2>3, ReplyCloses
  <2> QED BY <1>5, <2>2, <2>3, NextRoundAsks DEF AnswerBlank
<1>6. CASE AnswerCalls
  <2>1. PICK n \in 1..MaxCalls, text \in BOOLEAN :
             messages' = Append(messages, ToolCalls(n, text)) /\ batch' = n
    BY <1>6 DEF AnswerCalls
  <2>2. Stage = "open" /\ Stage' = "owing"
    BY <1>6, Stages, NextStages DEF AnswerCalls, Asked
  <2>3. batch' - answered' = n
    BY <1>6, <2>1, AgentAssumption DEF AnswerCalls
  <2>4. Outline!CallTools
    BY <2>1, <2>2, <2>3, SameMessages DEF Outline!CallTools
  <2> QED BY <2>4
<1>7. CASE Malformed
  BY <1>7, BreaksOff DEF Malformed, Asked
<1>8. ASSUME NEW error \in Errors, Fails(error)
      PROVE  [Outline!Next]_(Outline!vars)
  <2>1. pc = "asking" /\ UNCHANGED tools
    BY <1>8 DEF Fails, Asked
  <2>2. CASE UNCHANGED <<pc, messages>>
    BY <2>1, <2>2, AskingGoesOn
  <2>3. CASE ReplyWith(Fallback(error))
    BY <2>1, <2>3, ReplyCloses
  <2> QED BY <1>8, <2>2, <2>3 DEF Fails
<1>9. CASE NoProvider
  BY <1>9, ReplyCloses DEF NoProvider
<1>10. CASE BadArguments
  BY <1>10, ResultIsGiven DEF BadArguments
<1>11. CASE StartTool
  <2>1. Stage = "owing" /\ Stage' = "owing"
    BY <1>11, Stages, NextStages DEF StartTool
  <2> QED BY <1>11, <2>1 DEF StartTool, Outline!vars, tools
<1>12. CASE FinishTool
  BY <1>12, ResultIsGiven DEF FinishTool
<1>13. CASE Cancel
  BY <1>13, BreaksOff DEF Cancel
<1>14. CASE UNCHANGED vars
  <2>1. UNCHANGED <<pc, messages, batch, answered>>
    BY <1>14 DEF vars, tools
  <2>2. Stage' = Stage
    BY <2>1 DEF Stage
  <2> QED BY <2>1, <2>2 DEF Outline!vars
<1> QED BY <1>1, <1>2, <1>3, <1>4, <1>5, <1>6, <1>7, <1>8, <1>9, <1>10,
           <1>11, <1>12, <1>13, <1>14
        DEF Next, Progress, Outcome, Finished

(* run_conversation keeps the promise of TurnOutline, step by step: it     *)
(* asks, opens an exchange, answers each of its calls in order and closes  *)
(* with words; everything else it does leaves the list alone.              *)
THEOREM OutlineKept == Spec => KeepsTheOutline
<1>1. IInv /\ [Next]_vars => [Outline!Next]_(Outline!vars)
  BY NextOutline DEF IInv
<1> QED BY InitOutline, Invariance, <1>1, PTL
        DEF Spec, KeepsTheOutline, Outline!Spec
=============================================================================
