----------------------------- MODULE ChatStream -----------------------------
(***************************************************************************)
(* POST /chat/stream: chat_stream of app/api/routes/chat.py.               *)
(*                                                                         *)
(* converse() runs as a task and puts events in an unbounded queue; the    *)
(* generator events() takes them out and yields them as frames.  Both run  *)
(* on one event loop, so a step here is the code between two awaits.       *)
(* task.cancel() only asks: CancelledError is raised when the task runs    *)
(* next, in place of whatever it was awaiting.                             *)
(***************************************************************************)
EXTENDS Naturals, Sequences

CONSTANT MaxEvents      \* bound: status, product and token events of a turn

ASSUME StreamAssumption == MaxEvents \in Nat

Endings == {"done", "error"}
Frames == {"event"} \union Endings

VARIABLES
    task,       \* converse(): "none", "ready", "talking", "saving", "saved" or "over"
    cancelled,  \* task.cancel() has been called
    stream,     \* events(): "idle", "waiting", "sending" or "closed"
    queue,      \* the events, and the sentinel "end"
    sending,    \* the frame yielded last, <<>> if the client has it
    received,   \* the frames the client has
    connected,  \* the client is still there
    produced,   \* events put in the queue by the turn
    stored,     \* the turn is in the session store
    saveFailed  \* save_session gave up and logged it

tasks == <<task, cancelled>>
frames == <<sending, received>>
saving == <<stored, saveFailed>>
vars == <<tasks, stream, queue, frames, connected, produced, saving>>

TypeOK ==
    /\ task \in {"none", "ready", "talking", "saving", "saved", "over"}
    /\ cancelled \in BOOLEAN
    /\ stream \in {"idle", "waiting", "sending", "closed"}
    /\ queue \in Seq(Frames \union {"end"})
    /\ sending \in {<<>>} \union {<<f>> : f \in Frames}
    /\ received \in Seq(Frames)
    /\ connected \in BOOLEAN
    /\ produced \in 0..MaxEvents
    /\ stored \in BOOLEAN
    /\ saveFailed \in BOOLEAN

Init ==
    /\ task = "none"
    /\ cancelled = FALSE
    /\ stream = "idle"
    /\ queue = <<>>
    /\ sending = <<>>
    /\ received = <<>>
    /\ connected = TRUE
    /\ produced = 0
    /\ stored = FALSE
    /\ saveFailed = FALSE

-----------------------------------------------------------------------------
(***************************************************************************)
(* converse().                                                             *)
(***************************************************************************)
Runs(at) == task = at /\ ~cancelled

Begin ==
    /\ Runs("ready")
    /\ task' = "talking"
    /\ UNCHANGED <<cancelled, stream, queue, frames, connected, produced, saving>>

\* on_event, called from inside run_conversation.
Event ==
    /\ Runs("talking")
    /\ produced < MaxEvents
    /\ produced' = produced + 1
    /\ queue' = Append(queue, "event")
    /\ UNCHANGED <<tasks, stream, frames, connected, saving>>

\* Mutant: done is sent as soon as the reply is there.
ReplyAtOnce ==
    /\ Runs("talking")
    /\ task' = "saving"
    /\ queue' = Append(queue, "done")
    /\ UNCHANGED <<cancelled, stream, frames, connected, produced, saving>>

\* run_conversation returns; the session is being saved.
Reply ==
    /\ Runs("talking")
    /\ task' = "saving"
    /\ UNCHANGED <<cancelled, stream, queue, frames, connected, produced, saving>>

\* The store takes the turn; the task has not heard of it yet.
Store ==
    /\ task = "saving"
    /\ ~stored
    /\ stored' = TRUE
    /\ UNCHANGED <<tasks, stream, queue, frames, connected, produced, saveFailed>>

\* save_session returns.
Saved ==
    /\ Runs("saving")
    /\ stored
    /\ task' = "saved"
    /\ UNCHANGED <<cancelled, stream, queue, frames, connected, produced, saving>>

\* The call fails, with the turn in the store or not: save_session logs it
\* and returns all the same.
SaveFails ==
    /\ Runs("saving")
    /\ saveFailed' = TRUE
    /\ task' = "saved"
    /\ UNCHANGED <<cancelled, stream, queue, frames, connected, produced, stored>>

\* Mutant: the session is saved in the background.
DoneUnsaved ==
    /\ Runs("saving")
    /\ task' = "over"
    /\ queue' = queue \o <<"done", "end">>
    /\ UNCHANGED <<cancelled, stream, frames, connected, produced, saving>>

\* done, and from the finally clause the sentinel.
Done ==
    /\ Runs("saved")
    /\ task' = "over"
    /\ queue' = queue \o <<"done", "end">>
    /\ UNCHANGED <<cancelled, stream, frames, connected, produced, saving>>

\* Mutant: no finally clause.
RaisesUnended ==
    /\ Runs("talking") \/ Runs("saving")
    /\ task' = "over"
    /\ queue' = Append(queue, "error")
    /\ UNCHANGED <<cancelled, stream, frames, connected, produced, saving>>

\* Mutant: only the sentinel.
RaisesSilently ==
    /\ Runs("talking") \/ Runs("saving")
    /\ task' = "over"
    /\ queue' = Append(queue, "end")
    /\ UNCHANGED <<cancelled, stream, frames, connected, produced, saving>>

\* Something unexpected is raised, by the turn or by save_session.
Raises ==
    /\ Runs("talking") \/ Runs("saving")
    /\ task' = "over"
    /\ queue' = queue \o <<"error", "end">>
    /\ UNCHANGED <<cancelled, stream, frames, connected, produced, saving>>

\* CancelledError.  A task that has not begun never enters its try.
Cancelled ==
    /\ cancelled
    /\ task \in {"ready", "talking", "saving", "saved"}
    /\ task' = "over"
    /\ queue' = IF task = "ready" THEN queue ELSE Append(queue, "end")
    /\ UNCHANGED <<cancelled, stream, frames, connected, produced, saving>>

-----------------------------------------------------------------------------
(***************************************************************************)
(* events(), and the client.                                               *)
(***************************************************************************)
\* The response starts: create_task, then the first queue.get().
Start ==
    /\ stream = "idle"
    /\ connected
    /\ stream' = "waiting"
    /\ task' = "ready"
    /\ UNCHANGED <<cancelled, queue, frames, connected, produced, saving>>

\* Mutant: the sentinel is taken for an event.
TakeAnything ==
    /\ stream = "waiting"
    /\ queue # <<>>
    /\ stream' = "sending"
    /\ sending' = <<Head(queue)>>
    /\ queue' = Tail(queue)
    /\ UNCHANGED <<tasks, received, connected, produced, saving>>

Take ==
    /\ stream = "waiting"
    /\ queue # <<>>
    /\ Head(queue) # "end"
    /\ stream' = "sending"
    /\ sending' = <<Head(queue)>>
    /\ queue' = Tail(queue)
    /\ UNCHANGED <<tasks, received, connected, produced, saving>>

\* The frame is written; without a client it goes nowhere.
Sent ==
    /\ stream = "sending"
    /\ stream' = "waiting"
    /\ sending' = <<>>
    /\ received' = IF connected THEN received \o sending ELSE received
    /\ UNCHANGED <<tasks, queue, connected, produced, saving>>

\* Mutant: the finally clause is left out.
CloseOnly ==
    /\ stream' = "closed"
    /\ UNCHANGED tasks

\* The finally clause.
Close ==
    /\ stream' = "closed"
    /\ cancelled' = (cancelled \/ task # "over")
    /\ UNCHANGED task

TakeEnd ==
    /\ stream = "waiting"
    /\ queue # <<>>
    /\ Head(queue) = "end"
    /\ queue' = Tail(queue)
    /\ Close
    /\ UNCHANGED <<frames, connected, produced, saving>>

HangUp ==
    /\ connected
    /\ connected' = FALSE
    /\ UNCHANGED <<tasks, stream, queue, frames, produced, saving>>

\* The server learns of it and ends the generator at its await or yield.
Notice ==
    /\ ~connected
    /\ stream \in {"waiting", "sending"}
    /\ Close
    /\ UNCHANGED <<queue, frames, connected, produced, saving>>

-----------------------------------------------------------------------------
Converse == Begin \/ Reply \/ Done \/ Cancelled
Save == Store \/ Saved \/ SaveFails
Drain == Take \/ TakeEnd
Write == Sent \/ Notice

Next == Start \/ Converse \/ Raises \/ Event \/ Save \/ Drain \/ Write \/ HangUp

(***************************************************************************)
(* A turn ends (TurnEnds of AgentTurn), the event loop gets round to both  *)
(* coroutines, and a frame is written or the connection is found dead.     *)
(* Nobody has to hang up and nothing has to be raised.  Nothing is assumed *)
(* of the store either, whose client has no timeout: a save that hangs     *)
(* hangs until the task is cancelled.                                      *)
(***************************************************************************)
Spec ==
    /\ Init
    /\ [][Next]_vars
    /\ WF_vars(Converse)
    /\ WF_vars(Drain)
    /\ WF_vars(Write)

-----------------------------------------------------------------------------
(***************************************************************************)
(* Properties.                                                             *)
(***************************************************************************)
\* Everything on its way to the client, the oldest first.
Pipeline == received \o sending \o queue

(* The client sees events and then one done or one error, never both and   *)
(* nothing after it (chat_stream, "in the order a client sees them").      *)
OneEnding ==
    \A i, j \in DOMAIN Pipeline :
        i < j /\ Pipeline[i] \in Endings \union {"end"} =>
            Pipeline[i] # "end" /\ Pipeline[j] = "end"

(* done comes after the save: a client that asks its next question when it *)
(* sees done is answered with this turn in its history, unless the store   *)
(* failed.                                                                 *)
DoneMeansSaved ==
    \A i \in DOMAIN Pipeline :
        Pipeline[i] = "done" => stored \/ saveFailed

(* A client that has gone leaves no LLM call and no session write running  *)
(* behind it: from the moment the generator closes, the task does nothing  *)
(* but stop (events(), the finally clause).                                *)
NothingLeftRunning ==
    [][stream = "closed" =>
         /\ task' \in {task, "over"}
         /\ produced' = produced
         /\ Len(queue') > Len(queue) => queue' = Append(queue, "end")]_vars

\* The task has not heard from the store.
AwaitsStore == task = "saving"

(* A stream that has started ends, and the task with it, unless the store  *)
(* never answers; and even then it ends once the client has gone (events() *)
(* cancels the task on every way out).                                     *)
StreamEnds ==
    []<>(~AwaitsStore) \/ <>(~connected) =>
        (stream = "waiting" ~> stream = "closed" /\ task = "over")

(* A client that stays is told how its turn ended, also when the turn or   *)
(* the save raises (converse(), except Exception and finally).             *)
ClientIsAnswered ==
    []<>(~AwaitsStore) =>
        (stream = "waiting" ~>
            ~connected \/ \E i \in DOMAIN received : received[i] \in Endings)
=============================================================================
