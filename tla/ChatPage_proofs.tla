--------------------------- MODULE ChatPage_proofs ---------------------------
(***************************************************************************)
(* Safety of one streamed turn (types, a single ending, the save before    *)
(* done, nothing left running after a hang-up) and of the demo page in     *)
(* front of it, for any number of events, new chats and taps.              *)
(***************************************************************************)
EXTENDS ChatPage, SequenceTheorems, TLAPS

Item == Frames \union {"end"}

\* No ending is followed by anything but the sentinel.
Ordered(p) ==
    \A i, j \in DOMAIN p :
        i < j /\ p[i] \in Endings \union {"end"} => p[i] # "end" /\ p[j] = "end"

-----------------------------------------------------------------------------
(* What stands in a joined sequence.                                       *)
LEMMA JoinedRange ==
    ASSUME NEW s \in Seq(Item), NEW t \in Seq(Item)
    PROVE  Range(s \o t) = Range(s) \union Range(t)
<1>1. /\ Len(s) \in Nat /\ Len(t) \in Nat
      /\ DOMAIN s = 1..Len(s) /\ DOMAIN t = 1..Len(t)
  BY LenProperties
<1>2. /\ DOMAIN (s \o t) = 1..(Len(s) + Len(t))
      /\ \A i \in 1..(Len(s) + Len(t)) :
            (s \o t)[i] = IF i <= Len(s) THEN s[i] ELSE t[i - Len(s)]
  BY ConcatProperties, LenProperties
<1>3. Range(s \o t) \subseteq Range(s) \union Range(t)
  BY <1>1, <1>2 DEF Range
<1>4. Range(s) \subseteq Range(s \o t)
  BY <1>1, <1>2 DEF Range
<1>5. ASSUME NEW j \in 1..Len(t) PROVE t[j] \in Range(s \o t)
  <2>1. /\ Len(s) + j \in 1..(Len(s) + Len(t))
        /\ ~(Len(s) + j <= Len(s))
        /\ (Len(s) + j) - Len(s) = j
    BY <1>1
  <2>2. (s \o t)[Len(s) + j] = t[j]
    BY <1>2, <2>1
  <2>3. QED
    BY <1>2, <2>1, <2>2 DEF Range
<1>6. Range(t) \subseteq Range(s \o t)
  BY <1>1, <1>5 DEF Range
<1>7. QED
  BY <1>3, <1>4, <1>6

(* An ordered ending may follow events.                                    *)
LEMMA OrderedAfterEvents ==
    ASSUME NEW s \in Seq(Item), NEW t \in Seq(Item),
           Range(s) \subseteq {"event"}, Ordered(t)
    PROVE  Ordered(s \o t)
<1>1. /\ Len(s) \in Nat /\ Len(t) \in Nat
      /\ DOMAIN s = 1..Len(s) /\ DOMAIN t = 1..Len(t)
  BY LenProperties
<1>2. /\ DOMAIN (s \o t) = 1..(Len(s) + Len(t))
      /\ \A i \in 1..(Len(s) + Len(t)) :
            (s \o t)[i] = IF i <= Len(s) THEN s[i] ELSE t[i - Len(s)]
  BY ConcatProperties, LenProperties
<1>3. SUFFICES ASSUME NEW i \in 1..(Len(s) + Len(t)),
                      NEW j \in 1..(Len(s) + Len(t)),
                      i < j, (s \o t)[i] \in Endings \union {"end"}
               PROVE  (s \o t)[i] # "end" /\ (s \o t)[j] = "end"
  BY <1>2 DEF Ordered
<1>4. i > Len(s)
  <2>1. SUFFICES ASSUME i <= Len(s) PROVE FALSE
    BY <1>1
  <2>2. (s \o t)[i] = s[i] /\ i \in DOMAIN s
    BY <1>1, <1>2, <2>1
  <2>3. s[i] = "event"
    BY <2>2 DEF Range
  <2>4. QED
    BY <1>3, <2>2, <2>3 DEF Endings
<1>5. /\ i - Len(s) \in 1..Len(t) /\ j - Len(s) \in 1..Len(t)
      /\ i - Len(s) < j - Len(s) /\ ~(i <= Len(s)) /\ ~(j <= Len(s))
  BY <1>1, <1>3, <1>4
<1>6. (s \o t)[i] = t[i - Len(s)] /\ (s \o t)[j] = t[j - Len(s)]
  BY <1>2, <1>5
<1>7. QED
  BY <1>1, <1>3, <1>5, <1>6 DEF Ordered

(* Leaving out a stretch keeps the order.                                  *)
LEMMA OrderedWithout ==
    ASSUME NEW a \in Seq(Item), NEW b \in Seq(Item), NEW c \in Seq(Item),
           Ordered((a \o b) \o c)
    PROVE  Ordered(a \o c)
<1> DEFINE la == Len(a)
           lb == Len(b)
           lc == Len(c)
           abc == (a \o b) \o c
           from(i) == IF i <= la THEN i ELSE i + lb
<1>1. la \in Nat /\ lb \in Nat /\ lc \in Nat
  BY LenProperties
<1>2. /\ a \o b \in Seq(Item) /\ Len(a \o b) = la + lb
      /\ \A i \in 1..(la + lb) :
            (a \o b)[i] = IF i <= la THEN a[i] ELSE b[i - la]
  BY ConcatProperties
<1>3. /\ abc \in Seq(Item) /\ Len(abc) = (la + lb) + lc
      /\ \A i \in 1..((la + lb) + lc) :
            abc[i] = IF i <= la + lb THEN (a \o b)[i] ELSE c[i - (la + lb)]
  BY <1>2, ConcatProperties
<1>4. /\ a \o c \in Seq(Item) /\ Len(a \o c) = la + lc
      /\ \A i \in 1..(la + lc) :
            (a \o c)[i] = IF i <= la THEN a[i] ELSE c[i - la]
  BY ConcatProperties
<1>5. DOMAIN (a \o c) = 1..(la + lc) /\ DOMAIN abc = 1..((la + lb) + lc)
  BY <1>3, <1>4, LenProperties
<1> HIDE DEF la, lb, lc, abc
<1>6. ASSUME NEW i \in 1..(la + lc)
      PROVE  from(i) \in 1..((la + lb) + lc) /\ abc[from(i)] = (a \o c)[i]
  <2>1. CASE i <= la
    <3>1. i \in 1..((la + lb) + lc) /\ i \in 1..(la + lb) /\ i <= la + lb
      BY <1>1, <2>1
    <3>2. abc[i] = a[i] /\ (a \o c)[i] = a[i]
      BY <1>2, <1>3, <1>4, <2>1, <3>1
    <3>3. QED
      BY <2>1, <3>1, <3>2
  <2>2. CASE ~(i <= la)
    <3>1. /\ i + lb \in 1..((la + lb) + lc) /\ ~(i + lb <= la + lb)
          /\ (i + lb) - (la + lb) = i - la
      BY <1>1, <2>2
    <3>2. abc[i + lb] = c[i - la] /\ (a \o c)[i] = c[i - la]
      BY <1>3, <1>4, <2>2, <3>1
    <3>3. QED
      BY <2>2, <3>1, <3>2
  <2>3. QED
    BY <2>1, <2>2
<1>7. ASSUME NEW i \in 1..(la + lc), NEW j \in 1..(la + lc), i < j
      PROVE  from(i) < from(j)
  BY <1>1, <1>7
<1>8. Ordered(abc)
  BY DEF abc
<1> HIDE DEF from
<1>9. SUFFICES ASSUME NEW i \in 1..(la + lc), NEW j \in 1..(la + lc), i < j,
                      (a \o c)[i] \in Endings \union {"end"}
               PROVE  (a \o c)[i] # "end" /\ (a \o c)[j] = "end"
  BY <1>5 DEF Ordered
<1>10. /\ from(i) \in DOMAIN abc /\ from(j) \in DOMAIN abc /\ from(i) < from(j)
       /\ abc[from(i)] = (a \o c)[i] /\ abc[from(j)] = (a \o c)[j]
  BY <1>5, <1>6, <1>7, <1>9
<1>11. QED
  BY <1>8, <1>9, <1>10 DEF Ordered

-----------------------------------------------------------------------------
(* Every variable keeps its type, for any number of events.                *)
LEMMA TypeStep == TypeOK /\ [Next]_vars => TypeOK'
<1> SUFFICES ASSUME TypeOK, [Next]_vars PROVE TypeOK'
  OBVIOUS
<1> USE DEF TypeOK, Runs, tasks, frames, saving
<1>1. Item = Frames \union {"end"} /\ queue \in Seq(Item)
  BY DEF Item
<1>2. ASSUME NEW e \in Item PROVE Append(queue, e) \in Seq(Item)
  BY <1>1, AppendProperties
<1>3. /\ <<"done", "end">> \in Seq(Item)
      /\ <<"error", "end">> \in Seq(Item)
  BY DEF Item, Frames, Endings
<1>4. /\ queue \o <<"done", "end">> \in Seq(Item)
      /\ queue \o <<"error", "end">> \in Seq(Item)
  BY <1>1, <1>3, ConcatProperties
<1>5. "event" \in Item /\ "end" \in Item
  BY DEF Item, Frames
<1>6. sending \in Seq(Frames)
  <2>1. CASE sending = <<>>
    BY <2>1, EmptySeq
  <2>2. ASSUME NEW f \in Frames, sending = <<f>> PROVE sending \in Seq(Frames)
    BY <2>2
  <2>3. QED
    BY <2>1, <2>2
<1>7. received \o sending \in Seq(Frames)
  BY <1>6, ConcatProperties
<1>8. ASSUME queue # <<>>
      PROVE  Tail(queue) \in Seq(Item) /\ Head(queue) \in Item
  BY <1>1, <1>8, HeadTailProperties
<1>9. CASE Begin
  BY <1>9 DEF Begin
<1>10. CASE Event
  BY <1>10, <1>1, <1>2, <1>5, StreamAssumption DEF Event
<1>11. CASE Reply
  BY <1>11 DEF Reply
<1>12. CASE Store
  BY <1>12 DEF Store
<1>13. CASE Saved \/ SaveFails
  BY <1>13 DEF Saved, SaveFails
<1>14. CASE Done
  BY <1>14, <1>1, <1>4 DEF Done
<1>15. CASE Raises
  BY <1>15, <1>1, <1>4 DEF Raises
<1>16. CASE Cancelled
  BY <1>16, <1>1, <1>2, <1>5 DEF Cancelled
<1>17. CASE Start
  BY <1>17 DEF Start
<1>18. CASE Take
  <2>1. Head(queue) \in Frames /\ Tail(queue) \in Seq(Item)
    BY <1>18, <1>8 DEF Take, Item
  <2>2. QED
    BY <1>18, <1>1, <2>1 DEF Take
<1>19. CASE Sent
  BY <1>19, <1>7 DEF Sent
<1>20. CASE TakeEnd
  BY <1>20, <1>1, <1>8 DEF TakeEnd, Close
<1>21. CASE HangUp
  BY <1>21 DEF HangUp
<1>22. CASE Notice
  BY <1>22 DEF Notice, Close
<1>23. CASE UNCHANGED vars
  BY <1>23 DEF vars
<1>24. QED
  BY <1>9, <1>10, <1>11, <1>12, <1>13, <1>14, <1>15, <1>16, <1>17, <1>18,
     <1>19, <1>20, <1>21, <1>22, <1>23
     DEF Next, Converse, Save, Drain, Write

LEMMA TypeInit == Init => TypeOK
<1>1. <<>> \in Seq(Frames) /\ <<>> \in Seq(Frames \union {"end"})
  BY EmptySeq
<1>2. 0 \in 0..MaxEvents
  BY StreamAssumption
<1>3. QED
  BY <1>1, <1>2 DEF Init, TypeOK

(* The types of ChatStream, for any number of events.                      *)
THEOREM TypeCorrect == Spec => []TypeOK
  BY TypeInit, TypeStep, PTL DEF Spec

(* A queue is its head and then its tail.                                  *)
LEMMA HeadThenTail ==
    ASSUME NEW q \in Seq(Item), q # <<>>
    PROVE  q = <<Head(q)>> \o Tail(q)
<1>1. Len(q) \in Nat /\ Len(q) >= 1
  BY EmptySeq
<1>2. Tail(q) = SubSeq(q, 2, Len(q)) /\ Head(q) = q[1]
  BY TailIsSubSeq
<1>3. SubSeq(q, 1, Len(q)) = <<q[1]>> \o SubSeq(q, 1 + 1, Len(q))
  BY <1>1, SubSeqRecursiveFirst
<1>4. SubSeq(q, 1, Len(q)) = q
  BY SubSeqFull
<1>5. QED
  BY <1>2, <1>3, <1>4

-----------------------------------------------------------------------------
(***************************************************************************)
(* What is on its way only loses items in front, or gains some at the end. *)
(***************************************************************************)
OnlyEvents == Range(Pipeline) \subseteq {"event"}

\* The task exists from the start of the stream and has been told of its end;
\* a save it is past was taken or has failed.
Control ==
    /\ stream = "idle" => task = "none"
    /\ task = "saved" => stored \/ saveFailed
    /\ stream = "closed" => cancelled \/ task = "over"

StreamInv ==
    /\ TypeOK
    /\ Ordered(Pipeline)
    /\ task # "over" => OnlyEvents
    /\ "done" \in Range(Pipeline) => stored \/ saveFailed
    /\ Control

(* The three parts of the pipeline are sequences of items.                 *)
LEMMA Parts ==
    ASSUME TypeOK
    PROVE  /\ received \in Seq(Item) /\ sending \in Seq(Item) /\ queue \in Seq(Item)
           /\ received \o sending \in Seq(Item)
           /\ Pipeline \in Seq(Item)
<1>1. Frames \subseteq Item /\ queue \in Seq(Item)
  BY DEF TypeOK, Item
<1>2. received \in Seq(Item)
  BY <1>1, SeqMonotonic DEF TypeOK
<1>3. sending \in Seq(Item)
  <2>1. CASE sending = <<>>
    BY <2>1, EmptySeq
  <2>2. ASSUME NEW f \in Frames, sending = <<f>> PROVE sending \in Seq(Item)
    BY <1>1, <2>2
  <2>3. QED
    BY <2>1, <2>2 DEF TypeOK
<1>4. received \o sending \in Seq(Item)
  BY <1>2, <1>3, ConcatProperties
<1>5. QED
  BY <1>1, <1>2, <1>3, <1>4, ConcatProperties DEF Pipeline

(* Putting items in the queue puts them at the end of the pipeline.        *)
LEMMA PutAtEnd ==
    ASSUME TypeOK, NEW t \in Seq(Item), queue' = queue \o t,
           UNCHANGED <<received, sending>>
    PROVE  Pipeline' = Pipeline \o t
<1>1. Pipeline' = (received \o sending) \o (queue \o t)
  BY DEF Pipeline
<1>2. received \o sending \in Seq(Item) /\ queue \in Seq(Item)
  BY Parts
<1>3. ((received \o sending) \o queue) \o t = (received \o sending) \o (queue \o t)
  BY <1>2, ConcatAssociative, SMTT(30)
<1>4. QED
  BY <1>1, <1>3 DEF Pipeline

(* A step that puts nothing in the queue and saves nothing keeps the       *)
(* invariant if it keeps the pipeline or leaves out a stretch of it.       *)
LEMMA NothingPut ==
    ASSUME StreamInv, TypeOK',
           NEW a \in Seq(Item), NEW b \in Seq(Item), NEW c \in Seq(Item),
           Pipeline = (a \o b) \o c,
           Pipeline' = a \o c \/ Pipeline' = Pipeline,
           task' # "over" => task # "over",
           stored \/ saveFailed => stored' \/ saveFailed',
           Control'
    PROVE  StreamInv'
<1>1. Range(a \o c) \subseteq Range(Pipeline)
  <2>1. a \o b \in Seq(Item)
    BY ConcatProperties
  <2>2. Range(Pipeline) = (Range(a) \union Range(b)) \union Range(c)
    BY <2>1, JoinedRange
  <2>3. Range(a \o c) = Range(a) \union Range(c)
    BY JoinedRange
  <2>4. QED
    BY <2>2, <2>3
<1>2. Range(Pipeline') \subseteq Range(Pipeline)
  BY <1>1
<1>3. Ordered(Pipeline')
  <2>1. Ordered((a \o b) \o c)
    BY DEF StreamInv
  <2>2. Ordered(a \o c)
    BY <2>1, OrderedWithout
  <2>3. QED
    BY <2>2 DEF StreamInv
<1>4. (task # "over" => OnlyEvents)'
  BY <1>2 DEF StreamInv, OnlyEvents
<1>5. ("done" \in Range(Pipeline) => stored \/ saveFailed)'
  BY <1>2 DEF StreamInv
<1>6. QED
  BY <1>3, <1>4, <1>5 DEF StreamInv

(* A step that leaves the pipeline alone.                                  *)
LEMMA Untouched ==
    ASSUME StreamInv, TypeOK', UNCHANGED <<queue, received, sending>>,
           task' # "over" => task # "over",
           stored \/ saveFailed => stored' \/ saveFailed',
           Control'
    PROVE  StreamInv'
<1>1. Pipeline' = Pipeline
  BY DEF Pipeline
<1>2. TypeOK
  BY DEF StreamInv
<1>3. Pipeline = (received \o sending) \o queue
  BY DEF Pipeline
<1>4. QED
  BY <1>1, <1>2, <1>3, Parts, NothingPut

(* A step of the running task that puts an event or ends the stream.       *)
LEMMA Put ==
    ASSUME StreamInv, TypeOK', NEW t \in Seq(Item),
           queue' = queue \o t, UNCHANGED <<received, sending, stream, cancelled, stored, saveFailed>>,
           task \notin {"none", "over"},
           task' \in {task, "over"},
           Ordered(t),
           task' # "over" => Range(t) \subseteq {"event"},
           "done" \in Range(t) => stored \/ saveFailed
    PROVE  StreamInv'
<1>1. Pipeline \in Seq(Item) /\ Pipeline' = Pipeline \o t
  BY Parts, PutAtEnd DEF StreamInv
<1>2. Range(Pipeline') = Range(Pipeline) \union Range(t)
  BY <1>1, JoinedRange
<1>3. OnlyEvents
  BY DEF StreamInv
<1>4. Ordered(Pipeline')
  BY <1>1, <1>3, OrderedAfterEvents DEF OnlyEvents
<1>5. (task # "over" => OnlyEvents)'
  BY <1>2, <1>3 DEF OnlyEvents
<1>6. ("done" \in Range(Pipeline) => stored \/ saveFailed)'
  BY <1>2 DEF StreamInv
<1>7. Control'
  BY DEF StreamInv, Control
<1>8. QED
  BY <1>4, <1>5, <1>6, <1>7 DEF StreamInv

-----------------------------------------------------------------------------
(* Each step of the task, the store, the generator and the client.         *)
LEMMA StreamStep == StreamInv /\ [Next]_vars => StreamInv'
<1> SUFFICES ASSUME StreamInv, [Next]_vars PROVE StreamInv'
  OBVIOUS
<1> USE DEF tasks, frames, saving
<1>1. TypeOK /\ TypeOK'
  BY TypeStep DEF StreamInv
<1>2. Control
  BY DEF StreamInv
<1>3. CASE Begin
  BY <1>1, <1>2, <1>3, Untouched DEF Begin, Runs, Control
<1>4. CASE Event
  <2>1. <<"event">> \in Seq(Item) /\ "event" \in Item
    BY DEF Item, Frames
  <2>2. queue' = queue \o <<"event">>
    <3>1. queue \in Seq(Item) /\ queue' = Append(queue, "event")
      BY <1>1, <1>4, Parts DEF Event
    <3>2. QED
      BY <2>1, <3>1, AppendIsConcat
  <2>3. Ordered(<<"event">>) /\ Range(<<"event">>) \subseteq {"event"}
    BY DEF Ordered, Range
  <2>4. UNCHANGED <<received, sending, stream, cancelled, stored, saveFailed, task>>
        /\ task \notin {"none", "over"}
    BY <1>4 DEF Event, Runs
  <2>5. "done" \notin Range(<<"event">>)
    BY <2>3
  <2>6. QED
    BY <1>1, <2>1, <2>2, <2>3, <2>4, <2>5, Put
<1>5. CASE Reply
  BY <1>1, <1>2, <1>5, Untouched DEF Reply, Runs, Control
<1>6. CASE Store
  BY <1>1, <1>2, <1>6, Untouched DEF Store, Control
<1>7. CASE Saved \/ SaveFails
  <2>1. /\ UNCHANGED <<queue, received, sending, stream, cancelled, stored>>
        /\ task = "saving" /\ task' = "saved"
        /\ saveFailed => saveFailed'
        /\ stored' \/ saveFailed'
    BY <1>1, <1>7 DEF Saved, SaveFails, Runs, TypeOK
  <2>2. QED
    BY <1>1, <1>2, <2>1, Untouched DEF Control
<1>8. ASSUME NEW e \in Endings, task \notin {"none", "over"}, task' = "over",
             queue' = queue \o <<e, "end">>,
             e = "done" => stored \/ saveFailed,
             UNCHANGED <<received, sending, stream, cancelled, stored, saveFailed>>
      PROVE  StreamInv'
  <2>1. <<e, "end">> \in Seq(Item)
    BY DEF Item, Frames
  <2>2. Ordered(<<e, "end">>)
    BY DEF Ordered, Endings
  <2>3. "done" \in Range(<<e, "end">>) => e = "done"
    BY DEF Range
  <2>4. QED
    BY <1>1, <1>8, <2>1, <2>2, <2>3, Put
<1>9. CASE Done
  BY <1>2, <1>8, <1>9 DEF Done, Runs, Endings, Control
<1>10. CASE Raises
  BY <1>8, <1>10 DEF Raises, Runs, Endings
<1>11. CASE Cancelled
  <2>1. /\ task \notin {"none", "over"} /\ task' = "over"
        /\ UNCHANGED <<received, sending, stream, cancelled, stored, saveFailed>>
        /\ queue' = queue \/ queue' = Append(queue, "end")
    BY <1>11 DEF Cancelled
  <2>2. CASE queue' = queue
    BY <1>1, <1>2, <2>1, <2>2, Untouched DEF Control
  <2>3. CASE queue' = Append(queue, "end")
    <3>1. <<"end">> \in Seq(Item) /\ "end" \in Item
      BY DEF Item
    <3>2. queue \in Seq(Item)
      BY <1>1, Parts
    <3>3. queue' = queue \o <<"end">>
      BY <2>3, <3>1, <3>2, AppendIsConcat
    <3>4. Ordered(<<"end">>) /\ "done" \notin Range(<<"end">>)
      BY DEF Ordered, Range
    <3>5. QED
      BY <1>1, <2>1, <3>1, <3>3, <3>4, Put
  <2>4. QED
    BY <2>1, <2>2, <2>3
<1>12. CASE Start
  BY <1>1, <1>2, <1>12, Untouched DEF Start, Control
<1>13. CASE Take
  <2>1. /\ sending' = <<Head(queue)>> /\ queue' = Tail(queue) /\ queue # <<>>
        /\ UNCHANGED <<received, task, cancelled, stored, saveFailed>>
        /\ stream' = "sending"
    BY <1>13 DEF Take
  <2>2. /\ received \in Seq(Item) /\ sending \in Seq(Item) /\ queue \in Seq(Item)
    BY <1>1, Parts
  <2>3. /\ Head(queue) \in Item /\ Tail(queue) \in Seq(Item)
        /\ <<Head(queue)>> \in Seq(Item)
    BY <2>1, <2>2, HeadTailProperties
  <2>4. queue = <<Head(queue)>> \o Tail(queue)
    BY <2>1, <2>2, HeadThenTail
  <2>5. (received \o <<Head(queue)>>) \o Tail(queue) = received \o queue
    <3>1. (received \o <<Head(queue)>>) \o Tail(queue)
            = received \o (<<Head(queue)>> \o Tail(queue))
      BY <2>2, <2>3, ConcatAssociative, SMTT(30)
    <3>2. QED
      BY <2>4, <3>1
  <2>6. Pipeline' = received \o queue
    BY <2>1, <2>5 DEF Pipeline
  <2>7. Pipeline = (received \o sending) \o queue
    BY DEF Pipeline
  <2>8. QED
    BY <1>1, <1>2, <2>1, <2>2, <2>6, <2>7, NothingPut DEF Control
<1>14. CASE Sent
  <2>1. /\ sending' = <<>> /\ UNCHANGED <<queue, task, cancelled, stored, saveFailed>>
        /\ received' = received \o sending \/ received' = received
        /\ stream' = "waiting"
    BY <1>14 DEF Sent
  <2>2. /\ received \in Seq(Item) /\ sending \in Seq(Item) /\ queue \in Seq(Item)
        /\ received \o sending \in Seq(Item)
    BY <1>1, Parts
  <2>3. received' \o <<>> = received'
    BY <2>1, <2>2, ConcatEmptySeq
  <2>4. Pipeline' = received' \o queue
    BY <2>1, <2>3 DEF Pipeline
  <2>5. Pipeline = (received \o sending) \o queue
    BY DEF Pipeline
  <2>6. Pipeline' = received \o queue \/ Pipeline' = Pipeline
    BY <2>1, <2>4, <2>5
  <2>7. QED
    BY <1>1, <1>2, <2>1, <2>2, <2>5, <2>6, NothingPut DEF Control
<1>15. CASE TakeEnd
  <2>1. /\ queue # <<>> /\ queue' = Tail(queue)
        /\ UNCHANGED <<received, sending, task, stored, saveFailed>>
        /\ cancelled' = (cancelled \/ task # "over") /\ stream' = "closed"
    BY <1>15 DEF TakeEnd, Close
  <2>2. received \o sending \in Seq(Item) /\ queue \in Seq(Item)
    BY <1>1, Parts
  <2>3. /\ Head(queue) \in Item /\ Tail(queue) \in Seq(Item)
        /\ <<Head(queue)>> \in Seq(Item)
    BY <2>1, <2>2, HeadTailProperties
  <2>4. queue = <<Head(queue)>> \o Tail(queue)
    BY <2>1, <2>2, HeadThenTail
  <2>5. Pipeline = ((received \o sending) \o <<Head(queue)>>) \o Tail(queue)
    <3>1. ((received \o sending) \o <<Head(queue)>>) \o Tail(queue)
            = (received \o sending) \o (<<Head(queue)>> \o Tail(queue))
      BY <2>2, <2>3, ConcatAssociative, SMTT(30)
    <3>2. QED
      BY <2>4, <3>1 DEF Pipeline
  <2>6. Pipeline' = (received \o sending) \o Tail(queue)
    BY <2>1 DEF Pipeline
  <2>7. Control'
    BY <1>1, <1>2, <2>1 DEF Control, TypeOK
  <2>8. QED
    BY <1>1, <2>1, <2>2, <2>3, <2>5, <2>6, <2>7, NothingPut
<1>16. CASE HangUp
  BY <1>1, <1>2, <1>16, Untouched DEF HangUp, Control
<1>17. CASE Notice
  BY <1>1, <1>2, <1>17, Untouched DEF Notice, Close, Control
<1>18. CASE UNCHANGED vars
  BY <1>1, <1>2, <1>18, Untouched DEF vars, Control
<1>19. QED
  BY <1>3, <1>4, <1>5, <1>6, <1>7, <1>9, <1>10, <1>11, <1>12, <1>13, <1>14,
     <1>15, <1>16, <1>17, <1>18
     DEF Next, Converse, Save, Drain, Write

LEMMA StreamInit == Init => StreamInv
<1> SUFFICES ASSUME Init PROVE StreamInv
  OBVIOUS
<1>1. TypeOK
  BY TypeInit
<1>2. Pipeline = <<>>
  <2>1. Pipeline = (<<>> \o <<>>) \o <<>>
    BY DEF Init, Pipeline
  <2>2. <<>> \in Seq(Item)
    BY EmptySeq
  <2>3. QED
    BY <2>1, <2>2, ConcatEmptySeq
<1>3. DOMAIN <<>> = {}
  OBVIOUS
<1>4. Ordered(<<>>) /\ Range(<<>>) = {}
  BY <1>3 DEF Ordered, Range
<1>5. QED
  BY <1>1, <1>2, <1>4 DEF Init, StreamInv, Control, OnlyEvents

LEMMA StreamInvariant == Spec => []StreamInv
  BY StreamInit, StreamStep, PTL DEF Spec

-----------------------------------------------------------------------------
(* However the task, the generator and a hang-up interleave, the client is *)
(* sent one done or one error, never both and nothing after it.            *)
THEOREM OneEndingOnly == Spec => []OneEnding
<1>1. StreamInv => OneEnding
  BY DEF StreamInv, Ordered, OneEnding
<1>2. QED
  BY <1>1, StreamInvariant, PTL

(* done is never under way before the session store has taken the turn or  *)
(* given up.                                                               *)
THEOREM DoneAfterSave == Spec => []DoneMeansSaved
<1>1. StreamInv => DoneMeansSaved
  BY DEF StreamInv, DoneMeansSaved, Range
<1>2. QED
  BY <1>1, StreamInvariant, PTL

LEMMA StoppedTask ==
    StreamInv /\ [Next]_vars =>
        [stream = "closed" =>
           /\ task' \in {task, "over"}
           /\ produced' = produced
           /\ Len(queue') > Len(queue) => queue' = Append(queue, "end")]_vars
<1> SUFFICES ASSUME StreamInv, Next, stream = "closed"
             PROVE  /\ task' \in {task, "over"}
                    /\ produced' = produced
                    /\ Len(queue') > Len(queue) => queue' = Append(queue, "end")
  OBVIOUS
<1>1. cancelled \/ task = "over"
  BY DEF StreamInv, Control
<1>2. queue' = queue => ~(Len(queue') > Len(queue))
  <2>1. Len(queue) \in Nat
    BY Parts, LenProperties DEF StreamInv
  <2>2. QED
    BY <2>1
<1>3. CASE Cancelled
  BY <1>2, <1>3 DEF Cancelled
<1>4. CASE Store \/ HangUp
  BY <1>2, <1>4 DEF Store, HangUp, tasks
<1>5. ~Begin /\ ~Reply /\ ~Done /\ ~Raises /\ ~Event /\ ~Saved /\ ~SaveFails
  BY <1>1 DEF Begin, Reply, Done, Raises, Event, Saved, SaveFails, Runs
<1>6. ~Start /\ ~Take /\ ~TakeEnd /\ ~Sent /\ ~Notice
  BY DEF Start, Take, TakeEnd, Sent, Notice
<1>7. QED
  BY <1>3, <1>4, <1>5, <1>6 DEF Next, Converse, Save, Drain, Write

(* Once the generator has closed, the task only stops: it puts no event,   *)
(* starts no save and asks no model any more.                              *)
THEOREM TaskStopsWithStream == Spec => NothingLeftRunning
  BY StreamInvariant, StoppedTask, PTL DEF Spec, NothingLeftRunning

-----------------------------------------------------------------------------
(***************************************************************************)
(* The end of the stream.                                                  *)
(***************************************************************************)
\* Before the sentinel the client is told how the turn ended.
Announced(p) ==
    \A i \in DOMAIN p : p[i] = "end" => \E j \in 1..(i - 1) : p[j] \in Endings

(* A client that is still there when the stream closes has been told.      *)
EndInv ==
    /\ stream = "idle" => received = <<>>
    /\ stream \in {"idle", "waiting"} => sending = <<>>
    /\ stream # "closed" => ~cancelled
    /\ connected /\ stream # "closed" => Announced(Pipeline)
    /\ connected /\ stream = "closed" =>
          \E i \in DOMAIN received : received[i] \in Endings

-----------------------------------------------------------------------------
(***************************************************************************)
(* The page.                                                               *)
(***************************************************************************)
Element == {"none", "here", "gone"}

PageTyped ==
    /\ gate \in [begun : 0..MaxLogins, pending : 0..MaxLogins,
                passed : BOOLEAN, again : BOOLEAN]
    /\ busy \in BOOLEAN
    /\ asking \in {"rest", "fetching", "reading"}
    /\ request \in {"none", "limiting", "loading", "ready"}
    /\ parsed \in 0..Len(received)
    /\ log \in [question : BOOLEAN, dots : Element, status : Element,
                bubble : Element, card : BOOLEAN, failure : BOOLEAN]
    /\ writing \in BOOLEAN
    /\ chats \in 0..(MaxChats + 1)
    /\ sheet \in [shown : [tap : Nat,
                           says : {"nothing", "loading", "product", "sorry"}],
                  pending : SUBSET Nat,
                  taps : Nat]

Scaffolding == log.dots = "here" \/ log.status = "here"

\* All frames so far were events; or the last one was done, and cleaned up.
SoFar ==
    \/ \A i \in 1..parsed : received[i] = "event"
    \/ /\ parsed > 0 /\ received[parsed] = "done"
       /\ ~Scaffolding /\ ~writing
       /\ log.bubble # "none"

(* The composer is disabled only while send() is under way, and all that   *)
(* time unless another login comes back into the open chat.                *)
Tidy ==
    /\ gate.pending <= gate.begun
    /\ ~gate.passed => asking = "rest"
    /\ busy => asking # "rest"
    /\ asking # "rest" /\ ~gate.again => busy
    /\ asking = "fetching" => stream = "idle"
    /\ asking = "reading" => SoFar
    /\ log.bubble = "gone" => ~log.question
    /\ asking = "rest" =>
          /\ ~Scaffolding
          /\ log.bubble = "here" /\ writing => log.failure
          /\ log.question => log.failure \/ log.bubble = "here"
    /\ sheet.shown.says = "loading" => sheet.shown.tap \in sheet.pending

PageInv == StreamInv /\ EndInv /\ PageTyped /\ Tidy

-----------------------------------------------------------------------------
LEMMA AnnouncedJoin ==
    ASSUME NEW s \in Seq(Item), NEW t \in Seq(Item), Announced(s), Announced(t)
    PROVE  Announced(s \o t)
<1> DEFINE n == Len(s)
           m == Len(t)
           p == s \o t
<1>1. n \in Nat /\ m \in Nat
  BY LenProperties
<1>2. /\ DOMAIN s = 1..n /\ DOMAIN t = 1..m /\ DOMAIN p = 1..(n + m)
      /\ \A i \in 1..n : p[i] = s[i]
      /\ \A i \in 1..m : p[n + i] = t[i]
  OBVIOUS
<1> HIDE DEF n, m, p
<1>3. SUFFICES ASSUME NEW i \in 1..(n + m), p[i] = "end"
               PROVE  \E j \in 1..(i - 1) : p[j] \in Endings
  BY <1>2 DEF Announced, p
<1>4. CASE i <= n
  <2>1. i \in 1..n /\ s[i] = "end"
    BY <1>1, <1>2, <1>3, <1>4
  <2>2. PICK j \in 1..(i - 1) : s[j] \in Endings
    BY <1>2, <2>1 DEF Announced
  <2>3. j \in 1..n /\ p[j] = s[j]
    BY <1>1, <1>2, <2>1
  <2> QED BY <2>2, <2>3
<1>5. CASE ~(i <= n)
  <2>1. i - n \in 1..m /\ i = n + (i - n)
    BY <1>1, <1>5
  <2>2. t[i - n] = "end"
    BY <1>2, <1>3, <2>1
  <2>3. PICK k \in 1..((i - n) - 1) : t[k] \in Endings
    BY <1>2, <2>1, <2>2 DEF Announced
  <2>4. k \in 1..m /\ n + k \in 1..(i - 1)
    BY <1>1, <2>1
  <2>5. p[n + k] \in Endings
    BY <1>2, <2>3, <2>4
  <2> QED BY <2>4, <2>5
<1> QED BY <1>4, <1>5

\* Putting an event, or an ending and the sentinel.
LEMMA PutAnnounced ==
    ASSUME StreamInv, EndInv, NEW t \in Seq(Item), Announced(t),
           queue' = queue \o t,
           UNCHANGED <<received, sending, stream, cancelled, connected>>
    PROVE  EndInv'
<1>1. Pipeline \in Seq(Item) /\ Pipeline' = Pipeline \o t
  BY Parts, PutAtEnd DEF StreamInv
<1>2. Announced(Pipeline) => Announced(Pipeline')
  BY <1>1, AnnouncedJoin
<1> QED BY <1>2 DEF EndInv

LEMMA EndStep ==
    ASSUME StreamInv, EndInv, [Next]_vars
    PROVE  EndInv'
<1> USE DEF tasks, frames, saving
<1>0. TypeOK
  BY DEF StreamInv
<1>1. CASE UNCHANGED <<received, sending, queue, stream, cancelled, connected>>
  BY <1>1 DEF EndInv, Pipeline, Announced
<1>2. CASE Start
  BY <1>2 DEF Start, EndInv, Pipeline
<1>3. CASE Event
  <2>1. <<"event">> \in Seq(Item) /\ "event" \in Item
    BY DEF Item, Frames
  <2>2. queue' = queue \o <<"event">>
    <3>1. queue \in Seq(Item) /\ queue' = Append(queue, "event")
      BY <1>0, <1>3, Parts DEF Event
    <3> QED BY <2>1, <3>1, AppendIsConcat
  <2>3. Announced(<<"event">>)
    BY DEF Announced
  <2> QED BY <1>3, <2>1, <2>2, <2>3, PutAnnounced DEF Event
<1>4. CASE Done \/ Raises
  <2>1. PICK e \in Endings : queue' = queue \o <<e, "end">>
    BY <1>4 DEF Done, Raises, Endings
  <2> DEFINE t == <<e, "end">>
  <2>2. t \in Seq(Item)
    BY DEF Item, Frames
  <2>3. DOMAIN t = 1..2 /\ t[1] = e /\ t[2] = "end" /\ e # "end"
    BY DEF Endings
  <2>4. queue' = queue \o t
    BY <2>1
  <2> HIDE DEF t
  <2>5. Announced(t)
    BY <2>3 DEF Announced
  <2> QED BY <1>4, <2>2, <2>4, <2>5, PutAnnounced DEF Done, Raises
<1>5. CASE Cancelled
  <2>1. stream = "closed"
    BY <1>5 DEF Cancelled, EndInv
  <2> QED BY <1>5, <2>1 DEF Cancelled, EndInv
<1>6. CASE Take
  <2>1. /\ sending = <<>> /\ sending' = <<Head(queue)>>
        /\ queue' = Tail(queue) /\ queue # <<>>
        /\ UNCHANGED <<received, cancelled, connected>>
        /\ stream = "waiting" /\ stream' = "sending"
    BY <1>6 DEF Take, EndInv
  <2>2. received \in Seq(Item) /\ queue \in Seq(Item)
    BY <1>0, Parts
  <2>3. <<Head(queue)>> \in Seq(Item) /\ Tail(queue) \in Seq(Item)
    BY <2>1, <2>2, HeadTailProperties
  <2>4. queue = <<Head(queue)>> \o Tail(queue)
    BY <2>1, <2>2, HeadThenTail
  <2>5. (received \o <<Head(queue)>>) \o Tail(queue)
           = received \o (<<Head(queue)>> \o Tail(queue))
    BY <2>2, <2>3, ConcatAssociative, SMTT(30)
  <2>6. received \o <<>> = received
    BY <2>2, ConcatEmptySeq
  <2>7. Pipeline' = Pipeline
    BY <2>1, <2>4, <2>5, <2>6 DEF Pipeline
  <2> QED BY <2>1, <2>7 DEF EndInv
<1>7. CASE Sent
  <2>1. /\ sending' = <<>> /\ UNCHANGED <<queue, cancelled, connected>>
        /\ stream = "sending" /\ stream' = "waiting"
        /\ connected => received' = received \o sending
    BY <1>7 DEF Sent
  <2>2. received \o sending \in Seq(Item)
    BY <1>0, Parts
  <2>3. connected => Pipeline' = Pipeline
    BY <2>1, <2>2, ConcatEmptySeq DEF Pipeline
  <2> QED BY <2>1, <2>3 DEF EndInv
<1>8. CASE TakeEnd
  <2>1. /\ stream = "waiting" /\ stream' = "closed" /\ sending = <<>>
        /\ queue # <<>> /\ Head(queue) = "end"
        /\ UNCHANGED <<received, sending, connected>>
    BY <1>8 DEF TakeEnd, Close, EndInv
  <2>2. received \in Seq(Item) /\ queue \in Seq(Item)
    BY <1>0, Parts
  <2>3. received \o <<>> = received
    BY <2>2, ConcatEmptySeq
  <2>4. Pipeline = received \o queue
    BY <2>1, <2>3 DEF Pipeline
  <2> DEFINE n == Len(received)
  <2>5. /\ n \in Nat /\ DOMAIN received = 1..n
        /\ n + 1 \in DOMAIN Pipeline /\ Pipeline[n + 1] = "end"
        /\ \A i \in 1..n : Pipeline[i] = received[i]
    BY <2>1, <2>2, <2>4
  <2> HIDE DEF n
  <2>6. ASSUME connected
        PROVE  \E i \in DOMAIN received : received[i] \in Endings
    <3>1. PICK j \in 1..((n + 1) - 1) : Pipeline[j] \in Endings
      BY <2>1, <2>5, <2>6 DEF EndInv, Announced
    <3>2. j \in 1..n
      BY <2>5
    <3> QED BY <2>5, <3>1, <3>2
  <2> QED BY <2>1, <2>6 DEF EndInv
<1>9. CASE HangUp
  BY <1>9 DEF HangUp, EndInv
<1>10. CASE Notice
  BY <1>10 DEF Notice, Close, EndInv
<1>11. CASE Begin \/ Reply \/ Save
  BY <1>1, <1>11 DEF Begin, Reply, Save, Store, Saved, SaveFails
<1> QED BY <1>1, <1>2, <1>3, <1>4, <1>5, <1>6, <1>7, <1>8, <1>9, <1>10, <1>11
        DEF Next, Converse, Drain, Write, vars

-----------------------------------------------------------------------------
\* Nothing is received after an ending.
LEMMA EndingIsLast ==
    ASSUME StreamInv, NEW i \in DOMAIN received, received[i] \in Endings
    PROVE  i = Len(received)
<1> DEFINE n == Len(received)
           rest == sending \o queue
<1>1. received \in Seq(Frames) /\ "end" \notin Frames
  BY DEF StreamInv, TypeOK, Frames, Endings
<1>2. received \in Seq(Item) /\ sending \in Seq(Item) /\ queue \in Seq(Item)
  BY Parts DEF StreamInv
<1>3. Pipeline = received \o rest
  BY <1>2, ConcatAssociative DEF Pipeline
<1>4. rest \in Seq(Item)
  BY <1>2
<1> HIDE DEF rest
<1>5. /\ n \in Nat /\ DOMAIN received = 1..n
      /\ 1..n \subseteq DOMAIN Pipeline
      /\ \A k \in 1..n : Pipeline[k] = received[k] /\ received[k] \in Frames
  BY <1>1, <1>2, <1>3, <1>4
<1> HIDE DEF n
<1>6. SUFFICES ASSUME i < n PROVE FALSE
  BY <1>5 DEF n
<1>7. n \in DOMAIN Pipeline /\ i \in DOMAIN Pipeline
  BY <1>5, <1>6
<1>8. Pipeline[n] = "end"
  BY <1>5, <1>6, <1>7 DEF StreamInv, Ordered
<1> QED BY <1>1, <1>5, <1>6, <1>8

\* What has been received stays.
LEMMA ReceivedStays ==
    ASSUME StreamInv, [Next]_vars
    PROVE  /\ Len(received) \in Nat /\ Len(received') \in Nat
           /\ Len(received) <= Len(received')
           /\ \A i \in 1..Len(received) : received'[i] = received[i]
<1>1. received \in Seq(Item) /\ sending \in Seq(Item)
  BY Parts DEF StreamInv
<1>2. received' = received \/ received' = received \o sending
  BY DEF Next, vars, frames, Start, Converse, Begin, Reply, Done, Raises,
         Cancelled, Event, Save, Store, Saved, SaveFails, Drain, Take, TakeEnd,
         Write, Sent, Notice, HangUp
<1> QED BY <1>1, <1>2

LEMMA IdleStays ==
    ASSUME Serves, stream = "idle"
    PROVE  stream' = "idle"
BY DEF Serves, Converse, Begin, Reply, Done, Raises, Cancelled, Event, Save,
       Store, Saved, SaveFails, Drain, Take, TakeEnd, Write, Sent, Notice, HangUp

LEMMA PageStepIsAStep ==
    ASSUME [PageNext]_all
    PROVE  [Next]_vars
BY DEF PageNext, all, Login, LoggedIn, NotLoggedIn, NewSession, Send,
       Answered, Respond, Refuse, Lost, Reading, ShowStatus, AddProductCard,
       AppendToken, Finish, Error, Reads, EndOfStream, Admit, Load, OpenProduct,
       RenderSheet, CloseSheet, Browsing, Server, Serves, Next

-----------------------------------------------------------------------------
LogType == [question : BOOLEAN, dots : Element, status : Element,
            bubble : Element, card : BOOLEAN, failure : BOOLEAN]

LEMMA LogKeepsType ==
    ASSUME NEW l \in LogType
    PROVE  /\ Cleared(l) \in LogType /\ Failed(l) \in LogType
           /\ Cleared(l) = [l EXCEPT !.dots = "none", !.status = "none"]
           /\ Cleared(l).dots = "none" /\ Cleared(l).status = "none"
           /\ Cleared(l).bubble = l.bubble /\ Cleared(l).question = l.question
           /\ Failed(l).dots = "none" /\ Failed(l).status = "none"
           /\ Failed(l).bubble = l.bubble /\ Failed(l).question = l.question
           /\ Failed(l).failure = TRUE
           /\ EmptyLog \in LogType
BY DEF LogType, Cleared, Failed, EmptyLog, Element

LEMMA ServerInv ==
    ASSUME PageInv, StreamInv', Server(Serves)
    PROVE  (PageTyped /\ Tidy)'
<1>1. [Next]_vars /\ UNCHANGED page
  BY DEF Server, Serves, Next
<1>2. UNCHANGED <<gate, busy, asking, request, parsed, log, writing, chats, sheet>>
  BY <1>1 DEF page, composer
<1>3. /\ Len(received) \in Nat /\ Len(received') \in Nat
      /\ Len(received) <= Len(received')
      /\ \A i \in 1..Len(received) : received'[i] = received[i]
  BY <1>1, ReceivedStays DEF PageInv
<1>4. parsed' \in 0..Len(received') /\ parsed \in 0..Len(received)
  BY <1>2, <1>3 DEF PageInv, PageTyped
<1>5. PageTyped'
  BY <1>2, <1>4 DEF PageInv, PageTyped
<1>6. SoFar => SoFar'
  <2>1. \A i \in 1..parsed : received'[i] = received[i]
    BY <1>3, <1>4
  <2>2. parsed > 0 => received'[parsed] = received[parsed]
    BY <1>3, <1>4
  <2> QED BY <1>2, <2>1, <2>2 DEF SoFar, Scaffolding
<1>7. stream = "idle" => stream' = "idle"
  BY IdleStays DEF Server
<1>8. Tidy'
  BY <1>2, <1>6, <1>7 DEF PageInv, Tidy, Scaffolding
<1> QED BY <1>5, <1>8

-----------------------------------------------------------------------------
(***************************************************************************)
(* The gate, New chat and the sheet.                                       *)
(***************************************************************************)
\* The steps of the page that the server does not see.
LEMMA SoFarStays ==
    ASSUME SoFar, UNCHANGED <<parsed, received, log, writing>>
    PROVE  SoFar'
BY DEF SoFar, Scaffolding

LEMMA GateInv ==
    ASSUME PageInv, Login \/ LoggedIn \/ NotLoggedIn
    PROVE  (PageTyped /\ Tidy)'
<1> USE DEF PageInv, vars, frames, composer
<1> DEFINE GateType == [begun : 0..MaxLogins, pending : 0..MaxLogins,
                        passed : BOOLEAN, again : BOOLEAN]
<1>1. /\ gate \in GateType
      /\ gate.begun \in 0..MaxLogins /\ gate.pending \in 0..MaxLogins
      /\ gate.passed \in BOOLEAN
      /\ gate.pending <= gate.begun
      /\ MaxLogins \in Nat
  BY PageAssumption DEF PageTyped, Tidy
<1>2. CASE Login
  <2>1. /\ gate' = [gate EXCEPT !.begun = gate.begun + 1,
                                !.pending = gate.pending + 1]
        /\ ~gate.passed /\ gate.begun < MaxLogins
        /\ UNCHANGED <<received, stream, busy, asking, request, parsed, log, writing,
                       chats, sheet>>
    BY <1>2 DEF Login
  <2>2. /\ gate.begun + 1 \in 0..MaxLogins
        /\ gate.pending + 1 \in 0..MaxLogins
        /\ gate.pending + 1 <= gate.begun + 1
    BY <1>1, <2>1
  <2>3. /\ gate' \in GateType /\ gate'.pending <= gate'.begun /\ ~gate'.passed
        /\ gate'.again = gate.again
    BY <1>1, <2>1, <2>2
  <2>4. PageTyped'
    BY <2>1, <2>3 DEF PageTyped
  <2>5. Tidy'
    BY <2>1, <2>3, SoFarStays DEF Tidy, Scaffolding
  <2> QED BY <2>4, <2>5
<1>3. CASE LoggedIn
  <2>1. /\ gate' = [gate EXCEPT !.pending = gate.pending - 1, !.passed = TRUE,
                                !.again = gate.passed]
        /\ gate.pending > 0 /\ busy' = FALSE
        /\ chats' = IF chats = 0 THEN 1 ELSE chats
        /\ UNCHANGED <<received, stream, asking, request, parsed, log, writing,
                       sheet>>
    BY <1>3 DEF LoggedIn
  <2>2. gate.pending - 1 \in 0..MaxLogins /\ gate.pending - 1 <= gate.begun
    BY <1>1, <2>1
  <2>3. /\ gate' \in GateType /\ gate'.pending <= gate'.begun
        /\ gate'.passed /\ gate'.again = gate.passed
    BY <1>1, <2>1, <2>2
  <2>4. ~gate'.again => asking = "rest"
    BY <1>1, <2>3 DEF Tidy
  <2>5. chats' \in 0..(MaxChats + 1)
    BY <2>1, PageAssumption DEF PageTyped
  <2>6. PageTyped'
    BY <2>1, <2>3, <2>5 DEF PageTyped
  <2>7. SoFar => SoFar'
    BY <2>1, SoFarStays
  <2>8. Scaffolding' <=> Scaffolding
    BY <2>1 DEF Scaffolding
  <2>9. Tidy'
    BY <2>1, <2>3, <2>4, <2>7, <2>8 DEF Tidy
  <2> QED BY <2>6, <2>9
<1>4. CASE NotLoggedIn
  <2>1. /\ gate' = [gate EXCEPT !.pending = gate.pending - 1,
                                !.begun = gate.begun - 1]
        /\ gate.pending > 0
        /\ UNCHANGED <<received, stream, busy, asking, request, parsed, log, writing,
                       chats, sheet>>
    BY <1>4 DEF NotLoggedIn
  <2>2. /\ gate.pending - 1 \in 0..MaxLogins /\ gate.begun - 1 \in 0..MaxLogins
        /\ gate.pending - 1 <= gate.begun - 1
    BY <1>1, <2>1
  <2>3. /\ gate' \in GateType /\ gate'.passed = gate.passed
        /\ gate'.again = gate.again /\ gate'.pending <= gate'.begun
    BY <1>1, <2>1, <2>2
  <2>4. PageTyped'
    BY <2>1, <2>3 DEF PageTyped
  <2>5. Tidy'
    BY <2>1, <2>3, SoFarStays DEF Tidy, Scaffolding
  <2> QED BY <2>4, <2>5
<1> QED BY <1>2, <1>3, <1>4

\* New chat takes everything off the log, whatever send() still holds.
LEMMA NewSessionInv ==
    ASSUME PageInv, NewSession
    PROVE  (PageTyped /\ Tidy)'
<1> USE DEF PageInv, vars, frames, composer
<1>1. /\ UNCHANGED <<received, stream, gate, busy, asking, request, parsed,
                     writing, sheet>>
      /\ chats < MaxChats /\ chats' = chats + 1
  BY DEF NewSession
<1>2. log' \in LogType /\ log \in LogType
  BY DEF NewSession, EmptyLog, PageTyped, LogType, Element
<1>3. /\ log'.dots # "here" /\ log'.status # "here" /\ log'.bubble # "here"
      /\ (log'.bubble = "none" <=> log.bubble = "none")
      /\ ~log'.question
  BY DEF NewSession, EmptyLog
<1>4. PageTyped'
  BY <1>1, <1>2, PageAssumption DEF PageTyped, LogType
<1>5. SoFar => SoFar'
  BY <1>1, <1>3 DEF SoFar, Scaffolding
<1>6. Tidy'
  BY <1>1, <1>3, <1>5 DEF Tidy, Scaffolding
<1> QED BY <1>4, <1>6

LEMMA SheetInv ==
    ASSUME PageInv, OpenProduct \/ RenderSheet \/ CloseSheet
    PROVE  (PageTyped /\ Tidy)'
<1> USE DEF PageInv, vars, frames, composer, Browsing
<1>1. UNCHANGED <<received, stream, gate, busy, asking, request, parsed, log, writing,
                  chats>>
  BY DEF OpenProduct, RenderSheet, CloseSheet
<1> DEFINE SheetType == [shown : [tap : Nat,
                              says : {"nothing", "loading", "product", "sorry"}],
                         pending : SUBSET Nat, taps : Nat]
<1>2. sheet \in SheetType
      /\ (sheet.shown.says = "loading" => sheet.shown.tap \in sheet.pending)
  BY DEF PageTyped, Tidy
<1>3. SUFFICES sheet' \in SheetType
               /\ (sheet'.shown.says = "loading"
                      => sheet'.shown.tap \in sheet'.pending)
  <2>1. SoFar => SoFar'
    BY <1>1, SoFarStays
  <2> QED BY <1>1, <2>1 DEF PageTyped, Tidy, Scaffolding
<1>4. CASE OpenProduct
  BY <1>2, <1>4 DEF OpenProduct
<1>5. CASE RenderSheet
  <2>1. PICK tap \in sheet.pending, says \in {"product", "sorry"} :
           sheet' = [sheet EXCEPT
                        !.pending = sheet.pending \ {tap},
                        !.shown = IF sheet.shown.tap = tap
                                  THEN [sheet.shown EXCEPT !.says = says]
                                  ELSE sheet.shown]
    BY <1>5 DEF RenderSheet
  <2> QED BY <1>2, <2>1
<1>6. CASE CloseSheet
  BY <1>2, <1>6 DEF CloseSheet, NoSheet
<1> QED BY <1>4, <1>5, <1>6

-----------------------------------------------------------------------------
(***************************************************************************)
(* send().                                                                 *)
(***************************************************************************)
\* fail() and the finally clause leave nothing moving.
LEMMA FailInv ==
    ASSUME PageInv, Fail, parsed' \in 0..Len(received'),
           request' \in {request, "none"},
           UNCHANGED <<gate, writing, chats, sheet>>, gate.passed
    PROVE  (PageTyped /\ Tidy)'
<1> USE DEF PageInv, Fail
<1>1. log \in LogType
  BY DEF PageTyped, LogType
<1>2. /\ log' \in LogType
      /\ log'.dots = "none" /\ log'.status = "none" /\ log'.failure = TRUE
      /\ log'.bubble = log.bubble /\ log'.question = log.question
  BY <1>1, LogKeepsType
<1>3. PageTyped'
  BY <1>2 DEF PageTyped, LogType
<1>4. Tidy'
  BY <1>2 DEF Tidy, Scaffolding
<1> QED BY <1>3, <1>4

LEMMA PassedWhenAsking ==
    ASSUME PageInv, asking # "rest"
    PROVE  gate.passed
BY DEF PageInv, Tidy, PageTyped

LEMMA SendInv ==
    ASSUME PageInv, Send \/ Admit \/ Load \/ Respond \/ Refuse \/ Lost
    PROVE  (PageTyped /\ Tidy)'
<1> USE DEF PageInv, vars, frames, composer
<1>1. CASE Send
  <2>1. /\ gate.passed /\ stream = "idle" /\ busy' = TRUE
        /\ asking' = "fetching" /\ request' = "limiting"
        /\ log' = [EmptyLog EXCEPT !.question = TRUE, !.dots = "here"]
        /\ UNCHANGED <<received, stream, gate, parsed, writing, chats, sheet>>
    BY <1>1 DEF Send
  <2>2. log' \in LogType /\ log'.bubble = "none"
    BY <2>1 DEF EmptyLog, LogType, Element
  <2>3. PageTyped'
    BY <2>1, <2>2 DEF PageTyped, LogType
  <2>4. Tidy'
    BY <2>1, <2>2 DEF Tidy
  <2> QED BY <2>3, <2>4
<1>2. CASE Respond
  <2>1. /\ stream = "idle" /\ asking = "fetching" /\ asking' = "reading"
        /\ request' = "none"
        /\ UNCHANGED <<received, gate, busy, parsed, log, writing, chats, sheet>>
    BY <1>2 DEF Respond, Start
  <2>2. received = <<>> /\ parsed \in 0..Len(received)
    BY <2>1 DEF EndInv, PageTyped
  <2>3. parsed' = 0
    BY <2>1, <2>2
  <2>4. SoFar'
    BY <2>3 DEF SoFar
  <2>5. PageTyped'
    BY <2>1 DEF PageTyped
  <2>6. Tidy'
    BY <2>1, <2>4, PassedWhenAsking DEF Tidy
  <2> QED BY <2>5, <2>6
<1>3. CASE Refuse
  <2>1. asking # "rest" /\ Fail /\ request' \in {request, "none"}
        /\ UNCHANGED <<received, gate, parsed, writing, chats, sheet>>
    BY <1>3 DEF Refuse
  <2>2. parsed' \in 0..Len(received')
    BY <2>1 DEF PageTyped
  <2> QED BY <2>1, <2>2, PassedWhenAsking, FailInv
<1>4. CASE Lost
  <2>1. asking # "rest" /\ Fail /\ request' \in {request, "none"}
        /\ UNCHANGED <<received, gate, parsed, writing, chats, sheet>>
    BY <1>4 DEF Lost
  <2>2. parsed' \in 0..Len(received')
    BY <2>1 DEF PageTyped
  <2> QED BY <2>1, <2>2, PassedWhenAsking, FailInv
<1>5. CASE Admit \/ Load
  <2>1. /\ UNCHANGED <<received, stream, gate, busy, asking, parsed, log,
                       writing, chats, sheet>>
        /\ request' \in {"loading", "ready"}
    BY <1>5 DEF Admit, Load
  <2>2. PageTyped'
    BY <2>1 DEF PageTyped
  <2>3. Tidy'
    BY <2>1, SoFarStays DEF Tidy, Scaffolding
  <2> QED BY <2>2, <2>3
<1> QED BY <1>1, <1>2, <1>3, <1>4, <1>5

\* What a frame finds: only events came before it.
LEMMA ReadingAFrame ==
    ASSUME PageInv, NEW frame, Reads(frame)
    PROVE  /\ asking = "reading" /\ gate.passed
           /\ \A i \in 1..parsed : received[i] = "event"
           /\ parsed' = parsed + 1 /\ parsed' \in 1..Len(received)
           /\ parsed \in Nat
           /\ received[parsed'] = frame
           /\ UNCHANGED <<received, stream, gate, request, chats, sheet>>
<1>1. /\ asking = "reading" /\ parsed < Len(received)
      /\ received[parsed + 1] = frame /\ parsed' = parsed + 1
      /\ UNCHANGED <<received, stream, gate, request, chats, sheet>>
  BY DEF Reads, vars, frames
<1>2. /\ Len(received) \in Nat /\ parsed \in 0..Len(received)
      /\ DOMAIN received = 1..Len(received)
  BY DEF PageInv, PageTyped, StreamInv, TypeOK
<1>3. ~(parsed > 0 /\ received[parsed] = "done")
  <2>1. SUFFICES ASSUME parsed > 0, received[parsed] \in Endings PROVE FALSE
    BY DEF Endings
  <2>2. parsed \in DOMAIN received
    BY <1>2, <2>1
  <2>3. parsed = Len(received)
    BY <2>1, <2>2, EndingIsLast DEF PageInv
  <2> QED BY <1>1, <1>2, <2>3
<1>4. \A i \in 1..parsed : received[i] = "event"
  BY <1>1, <1>3 DEF PageInv, Tidy, SoFar
<1> QED BY <1>1, <1>2, <1>4, PassedWhenAsking

LEMMA ReadingInv ==
    ASSUME PageInv, Reading
    PROVE  (PageTyped /\ Tidy)'
<1>1. log \in LogType /\ Len(received) \in Nat
  BY DEF PageInv, PageTyped, LogType, StreamInv, TypeOK
<1>2. ASSUME Reads("event"), log' \in LogType, writing' \in BOOLEAN,
             UNCHANGED <<busy, asking>>,
             log'.question = log.question,
             log'.bubble = log.bubble \/ log'.bubble = "here"
      PROVE  (PageTyped /\ Tidy)'
  <2>1. SoFar'
    BY <1>2, ReadingAFrame DEF SoFar
  <2>2. PageTyped'
    BY <1>1, <1>2, ReadingAFrame DEF PageInv, PageTyped, LogType
  <2>3. Tidy'
    BY <1>2, <2>1, ReadingAFrame DEF PageInv, Tidy
  <2> QED BY <2>2, <2>3
<1>3. CASE ShowStatus
  <2>1. /\ log' = [log EXCEPT !.status = IF log.status = "none" THEN "here"
                                         ELSE log.status]
        /\ Reads("event") /\ UNCHANGED <<busy, asking, writing>>
    BY <1>3 DEF ShowStatus
  <2>2. log' \in LogType /\ log'.question = log.question
        /\ log'.bubble = log.bubble
    BY <1>1, <2>1 DEF LogType, Element
  <2> QED BY <1>2, <2>1, <2>2 DEF PageInv, PageTyped
<1>4. CASE AddProductCard
  <2>1. /\ log' = [log EXCEPT !.card = TRUE]
        /\ Reads("event") /\ UNCHANGED <<busy, asking, writing>>
    BY <1>4 DEF AddProductCard
  <2>2. log' \in LogType /\ log'.question = log.question
        /\ log'.bubble = log.bubble
    BY <1>1, <2>1 DEF LogType
  <2> QED BY <1>2, <2>1, <2>2 DEF PageInv, PageTyped
<1>5. CASE AppendToken
  <2>1. /\ log' = IF log.bubble = "none"
                  THEN [Cleared(log) EXCEPT !.bubble = "here"] ELSE log
        /\ writing' = TRUE
        /\ Reads("event") /\ UNCHANGED <<busy, asking>>
    BY <1>5 DEF AppendToken
  <2>2. log' \in LogType /\ log'.question = log.question
        /\ (log'.bubble = log.bubble \/ log'.bubble = "here")
    BY <1>1, <2>1 DEF LogType, Element, Cleared
  <2> QED BY <1>2, <2>1, <2>2
<1>6. CASE Finish
  <2>1. /\ log' = [Cleared(log) EXCEPT
                      !.bubble = IF log.bubble = "none" THEN "here"
                                 ELSE log.bubble]
        /\ writing' = FALSE
        /\ Reads("done") /\ UNCHANGED <<busy, asking>>
    BY <1>6 DEF Finish, Cleared
  <2>2. /\ log' \in LogType /\ log'.question = log.question
        /\ log'.dots = "none" /\ log'.status = "none"
        /\ log'.bubble # "none"
        /\ log'.bubble = "gone" => log.bubble = "gone"
    BY <1>1, <2>1 DEF LogType, Element, Cleared
  <2>3. SoFar'
    BY <2>1, <2>2, ReadingAFrame DEF SoFar, Scaffolding
  <2>4. PageTyped'
    <3>1. PageTyped
      BY DEF PageInv
    <3>2. parsed' \in 0..Len(received')
      BY <1>1, <2>1, ReadingAFrame
    <3>3. writing' \in BOOLEAN /\ UNCHANGED <<busy, asking, request, gate, chats, sheet>>
      BY <2>1, ReadingAFrame
    <3> QED BY <2>2, <3>1, <3>2, <3>3 DEF PageTyped, LogType
  <2>5. Tidy'
    BY <2>1, <2>2, <2>3, ReadingAFrame DEF PageInv, Tidy
  <2> QED BY <2>4, <2>5
<1>7. CASE Error
  <2>1. Reads("error") /\ Fail /\ UNCHANGED writing
    BY <1>7 DEF Error
  <2>2. parsed' \in 0..Len(received')
    BY <1>1, <2>1, ReadingAFrame
  <2> QED BY <2>1, <2>2, ReadingAFrame, FailInv
<1>8. CASE EndOfStream
  <2>1. /\ asking = "reading" /\ connected /\ stream = "closed"
        /\ parsed = Len(received)
        /\ busy' = FALSE /\ asking' = "rest"
        /\ UNCHANGED <<received, stream, gate, request, parsed, log, writing,
                       chats, sheet>>
    BY <1>8 DEF EndOfStream, vars, frames
  <2>2. PICK i \in DOMAIN received : received[i] \in Endings
    BY <2>1 DEF PageInv, EndInv
  <2>3. i = parsed /\ DOMAIN received = 1..Len(received)
    BY <2>1, <2>2, EndingIsLast DEF PageInv, StreamInv, TypeOK
  <2>4. ~(\A j \in 1..parsed : received[j] = "event")
    BY <2>1, <2>2, <2>3 DEF Endings
  <2>5. ~Scaffolding /\ ~writing /\ log.bubble # "none"
    BY <2>1, <2>4 DEF PageInv, Tidy, SoFar
  <2>6. log.question => log.bubble = "here"
    BY <1>1, <2>5 DEF PageInv, Tidy, LogType, Element
  <2>7. PageTyped'
    <3>1. PageTyped
      BY DEF PageInv
    <3>2. parsed' \in 0..Len(received')
      BY <2>1, <3>1 DEF PageTyped
    <3>3. busy' \in BOOLEAN /\ asking' \in {"rest", "fetching", "reading"}
      BY <2>1
    <3> QED BY <2>1, <3>1, <3>2, <3>3 DEF PageTyped
  <2>8. Tidy'
    BY <2>1, <2>5, <2>6 DEF PageInv, Tidy, Scaffolding
  <2> QED BY <2>7, <2>8
<1> QED BY <1>3, <1>4, <1>5, <1>6, <1>7, <1>8 DEF Reading

-----------------------------------------------------------------------------
LEMMA PageStart == PageInit => PageInv
<1> SUFFICES ASSUME PageInit PROVE PageInv
  OBVIOUS
<1>1. StreamInv
  BY StreamInit DEF PageInit
<1>2. EndInv
  <2>1. Pipeline = <<>>
    <3>1. <<>> \in Seq(Item) /\ Pipeline = (<<>> \o <<>>) \o <<>>
      BY EmptySeq DEF PageInit, Init, Pipeline
    <3> QED BY <3>1, ConcatEmptySeq
  <2>2. DOMAIN Pipeline = {}
    BY <2>1
  <2> QED BY <2>2 DEF PageInit, Init, EndInv, Announced
<1>3. PageTyped
  <2>1. Len(received) = 0 /\ 0 \in 0..MaxLogins /\ 0 \in 0..(MaxChats + 1)
    BY PageAssumption DEF PageInit, Init
  <2>2. gate \in [begun : 0..MaxLogins, pending : 0..MaxLogins,
                 passed : BOOLEAN, again : BOOLEAN]
    BY <2>1 DEF PageInit
  <2>3. log \in LogType
    BY DEF PageInit, EmptyLog, LogType, Element
  <2>4. sheet \in [shown : [tap : Nat,
                           says : {"nothing", "loading", "product", "sorry"}],
                  pending : SUBSET Nat, taps : Nat]
    BY DEF PageInit, NoSheet
  <2>5. busy \in BOOLEAN /\ writing \in BOOLEAN
    BY DEF PageInit
  <2>6. /\ asking \in {"rest", "fetching", "reading"}
        /\ request \in {"none", "limiting", "loading", "ready"}
        /\ parsed \in 0..Len(received) /\ chats \in 0..(MaxChats + 1)
    BY <2>1 DEF PageInit
  <2> QED BY <2>2, <2>3, <2>4, <2>5, <2>6 DEF PageTyped, LogType
<1>4. Tidy
  BY DEF PageInit, EmptyLog, NoSheet, Tidy, Scaffolding
<1> QED BY <1>1, <1>2, <1>3, <1>4 DEF PageInv

LEMMA PageStep == PageInv /\ [PageNext]_all => PageInv'
<1> SUFFICES ASSUME PageInv, [PageNext]_all PROVE PageInv'
  OBVIOUS
<1>1. StreamInv' /\ EndInv'
  BY PageStepIsAStep, StreamStep, EndStep DEF PageInv
<1>2. CASE UNCHANGED all
  <2>1. UNCHANGED <<received, stream, gate, busy, asking, request, parsed, log, writing,
                    chats, sheet>>
    BY <1>2 DEF all, vars, frames, page, composer
  <2>2. PageTyped'
    BY <2>1 DEF PageInv, PageTyped
  <2>3. Tidy'
    BY <2>1, SoFarStays DEF PageInv, Tidy, Scaffolding
  <2> QED BY <1>1, <2>2, <2>3 DEF PageInv
<1>3. CASE PageNext
  <2>1. (PageTyped /\ Tidy)'
    BY <1>1, <1>3, GateInv, NewSessionInv, SheetInv, SendInv, ReadingInv,
       ServerInv
       DEF PageNext, Answered
  <2> QED BY <1>1, <2>1 DEF PageInv
<1> QED BY <1>2, <1>3

(* When send() is over the composer is free, nothing on the page is still  *)
(* moving and the question has its answer or its failure, wherever the     *)
(* stream breaks, New chat is pressed, a sheet is opened or a login comes  *)
(* back; and before it is over only a login that comes back into the open  *)
(* chat frees the composer (send(), start(), newSession() and              *)
(* openProduct() of demo_ui.py).                                           *)
THEOREM PageIsLeftClean == PageSpec => []NoLooseEnds
<1>1. PageInv => NoLooseEnds
  <2> SUFFICES ASSUME PageInv PROVE NoLooseEnds
    OBVIOUS
  <2>1. PageTypeOK
    BY DEF PageInv, PageTyped, PageTypeOK, Element
  <2> QED BY <2>1 DEF PageInv, Tidy, PageTyped, Scaffolding, NoLooseEnds
<1> QED BY PageStart, PageStep, <1>1, PTL DEF PageSpec

(* In front of the page the stream is still the stream of ChatStream: each *)
(* of its steps is one of converse(), events(), the store or the client,   *)
(* or leaves them alone, however many logins are under way.                *)
THEOREM PageKeepsTheStream ==
    PageSpec => [](OneEnding /\ DoneMeansSaved) /\ NothingLeftRunning
<1>1. PageInit => Init
  BY DEF PageInit
<1>2. [PageNext]_all => [Next]_vars
  BY PageStepIsAStep
<1>3. StreamInv => OneEnding /\ DoneMeansSaved
  BY DEF StreamInv, Ordered, OneEnding, DoneMeansSaved, Range
<1>4. StreamInv /\ [Next]_vars =>
        [stream = "closed" =>
           /\ task' \in {task, "over"}
           /\ produced' = produced
           /\ Len(queue') > Len(queue) => queue' = Append(queue, "end")]_vars
  BY StoppedTask
<1> QED BY <1>1, <1>2, <1>3, <1>4, StreamInit, StreamStep, PTL
        DEF PageSpec, NothingLeftRunning
==============================================================================
