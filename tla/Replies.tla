------------------------------ MODULE Replies ------------------------------
(***************************************************************************)
(* What llm_client.py makes of a provider's answer: the error a response   *)
(* that is not 200 becomes, the reply of a buffered call, and the reply    *)
(* reassembled from the frames of a streamed one.  Text and arguments are  *)
(* sequences of pieces; what a JSON text says is left out.                 *)
(***************************************************************************)
EXTENDS Naturals, Sequences, SequencesExt, FiniteSetsExt,
        Lists

\* No code, no id, no name: these are tuples.
None == <<>>

-----------------------------------------------------------------------------
(***************************************************************************)
(* _raise_for_status.  An error body is prose, or an object, or Google's   *)
(* list of one object; its code is a string or it is not.                  *)
(***************************************************************************)
ErrorCode(response) ==
    IF response.body \in {"object", "list"} /\ response.named
    THEN response.code
    ELSE None

Raised(response) ==
    CASE response.status = 429 -> [error |-> "LLMRateLimited", code |-> None]
      [] response.status = 400 -> [error |-> "LLMBadRequest",
                                   code |-> ErrorCode(response)]
      [] OTHER -> [error |-> "LLMUnavailable", code |-> None]

-----------------------------------------------------------------------------
(***************************************************************************)
(* complete: a buffered message, read as it is.                            *)
(***************************************************************************)
EmptyObject == <<"{}">>
Arguments(pieces) == IF pieces = <<>> THEN EmptyObject ELSE pieces

ToolCall(id, name, pieces, extra) ==
    [id |-> id, name |-> name, arguments |-> Arguments(pieces),
     extra |-> extra]

\* ToolCall.to_message_part: every field of the call goes back.
MessagePart(call) == call

Completion(text, calls) == [content |-> text, tool_calls |-> calls]

Buffered(message) ==
    Completion(message.text,
               [i \in DOMAIN message.calls |->
                    LET c == message.calls[i]
                    IN  ToolCall(c.id, c.name, c.arguments, c.extra)])

-----------------------------------------------------------------------------
(***************************************************************************)
(* stream: frames are folded into the text and the partial calls, kept by  *)
(* index.  A frame is unreadable, or carries the token count, or words, or *)
(* fragments of calls.                                                     *)
(***************************************************************************)
NoReply == [text |-> <<>>, calls |-> <<>>, tokens |-> 0]
NewCall == [id |-> None, name |-> None, arguments |-> <<>>, extra |-> {}]

Newer(old, new) == IF new = None THEN old ELSE new

WithFragment(call, fragment) ==
    [id |-> Newer(call.id, fragment.id),
     name |-> Newer(call.name, fragment.name),
     arguments |-> call.arguments \o fragment.arguments,
     extra |-> call.extra \union fragment.extra]

\* The partial calls with one index more, when it is new (setdefault).
Opened(calls, index) ==
    [i \in DOMAIN calls \union {index} |->
        IF i \in DOMAIN calls THEN calls[i] ELSE NewCall]

\* Mutant: a fragment goes to the call begun last.
AddToLast(calls, fragment) ==
    LET all == Opened(calls, fragment.index)
        last == IF calls = <<>> \/ fragment.id # None THEN fragment.index
                ELSE Max(DOMAIN calls)
    IN  [all EXCEPT ![last] = WithFragment(@, fragment)]
AddFragment(calls, fragment) ==
    [Opened(calls, fragment.index) EXCEPT
        ![fragment.index] = WithFragment(@, fragment)]

AddFragments(calls, fragments) ==
    LET added[i \in 0..Len(fragments)] ==
            IF i = 0 THEN calls ELSE AddFragment(added[i - 1], fragments[i])
    IN  added[Len(fragments)]

AddFrame(reply, frame) ==
    CASE frame.kind \in {"unreadable", "done"} -> reply
      [] frame.kind = "usage" -> [reply EXCEPT !.tokens = frame.tokens]
      [] frame.kind = "words" -> [reply EXCEPT !.text = Append(@, frame.text)]
      [] frame.kind = "calls" ->
            [reply EXCEPT !.calls = AddFragments(@, frame.fragments)]

Assembled(frames) ==
    LET reply[i \in 0..Len(frames)] ==
            IF i = 0 THEN NoReply ELSE AddFrame(reply[i - 1], frames[i])
    IN  reply[Len(frames)]

\* The calls that ever carried a name, by index; an id left out is made up.
CallsOf(calls) ==
    LET named == {i \in DOMAIN calls : calls[i].name # None}
    IN  [n \in 1..Cardinality(named) |->
            LET i == Nth(named, n)
                id == IF calls[i].id = None THEN <<"call", i>>
                      ELSE calls[i].id
            IN  ToolCall(id, calls[i].name, calls[i].arguments,
                         calls[i].extra)]

Streamed(frames) ==
    LET reply == Assembled(frames)
    IN  Completion(reply.text, CallsOf(reply.calls))

\* What on_text was called with while the frames came in.
Heard(frames) ==
    LET words == Only(frames, {f \in ToSet(frames) : f.kind = "words"})
    IN  [i \in DOMAIN words |-> words[i].text]

-----------------------------------------------------------------------------
(***************************************************************************)
(* embeddings.py, embed_texts: one request per batch.  A response that is  *)
(* not 200 ends it; the items of one that is come in any order, each with  *)
(* its index in the batch.  The result is {} where the code raises.        *)
(***************************************************************************)
CONSTANT BATCH_SIZE

ASSUME BatchIsPositive == BATCH_SIZE \in Nat \ {0}

Batches(texts) ==
    [b \in 1..((Len(texts) + BATCH_SIZE - 1) \div BATCH_SIZE) |->
        SubSeq(texts, (b - 1) * BATCH_SIZE + 1,
               IF b * BATCH_SIZE < Len(texts) THEN b * BATCH_SIZE
               ELSE Len(texts))]

Ordered(items) ==
    LET order == Sorted([i \in DOMAIN items |-> items[i].index])
    IN  [n \in DOMAIN items |-> items[order[n]]]

VectorsOf(responses) ==
    FlattenSeq([b \in DOMAIN responses |->
                   [i \in DOMAIN responses[b].items |->
                       Ordered(responses[b].items)[i].embedding]])

EmbedTexts(texts, responses) ==
    LET vectors == VectorsOf(responses)
    IN  IF \/ \E b \in DOMAIN responses : responses[b].status # 200
           \/ Len(vectors) # Len(texts)
        THEN {}
        ELSE {vectors}
=============================================================================
