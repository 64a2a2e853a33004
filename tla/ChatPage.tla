------------------------------ MODULE ChatPage ------------------------------
(***************************************************************************)
(* The page of demo_ui.py in front of one streamed turn (ChatStream): the  *)
(* login gate, the log, the composer and the product sheet.  The page has  *)
(* one thread; send() is left at its awaits, and in between the user may   *)
(* press New chat, tap a card or close the sheet.                          *)
(*                                                                         *)
(* An element is "here", or "gone" from the log while the code still holds *)
(* it, or "none".                                                          *)
(***************************************************************************)
EXTENDS ChatStream

CONSTANTS MaxLogins, MaxChats, MaxTaps   \* bounds: what the user does

ASSUME PageAssumption ==
    MaxLogins \in Nat /\ MaxChats \in Nat /\ MaxTaps \in Nat

VARIABLES
    gate,     \* logins begun, the ones under way, whether one came back, and
              \* whether another came back into the open chat
    busy,     \* the composer is disabled
    asking,   \* send() is at "rest", "fetching" or "reading"
    request,  \* on the server: "none", "limiting", "loading" or "ready"
    parsed,   \* frames of the stream send() has dealt with
    log,      \* the elements in it
    writing,  \* the bubble is marked as being written
    chats,    \* sessions the user has had
    sheet     \* the tap it was opened for, what it says, and open requests

composer == <<busy, asking, request, parsed>>
page == <<gate, composer, log, writing, chats, sheet>>
all == <<vars, page>>

EmptyLog == [question |-> FALSE, dots |-> "none", status |-> "none",
             bubble |-> "none", card |-> FALSE, failure |-> FALSE]
NoSheet == [tap |-> 0, says |-> "nothing"]

PageInit ==
    /\ Init
    /\ gate = [begun |-> 0, pending |-> 0, passed |-> FALSE, again |-> FALSE]
    /\ busy = FALSE
    /\ asking = "rest"
    /\ request = "none"
    /\ parsed = 0
    /\ log = EmptyLog
    /\ writing = FALSE
    /\ chats = 0
    /\ sheet = [shown |-> NoSheet, pending |-> {}, taps |-> 0]

-----------------------------------------------------------------------------
(***************************************************************************)
(* start(): the field takes Enter while a login is under way.  A login     *)
(* that came back opens the chat, and frees the composer.                  *)
(***************************************************************************)
Login ==
    /\ ~gate.passed
    /\ gate.begun < MaxLogins
    /\ gate' = [gate EXCEPT !.begun = @ + 1, !.pending = @ + 1]
    /\ UNCHANGED <<vars, composer, log, writing, chats, sheet>>

LoggedIn ==
    /\ gate.pending > 0
    /\ gate' = [gate EXCEPT !.pending = @ - 1, !.passed = TRUE,
                            !.again = gate.passed]
    /\ busy' = FALSE
    /\ chats' = IF chats = 0 THEN 1 ELSE chats
    /\ UNCHANGED <<vars, asking, request, parsed, log, writing, sheet>>

\* No such user, no server: the gate says so.
NotLoggedIn ==
    /\ gate.pending > 0
    /\ gate' = [gate EXCEPT !.pending = @ - 1, !.begun = @ - 1]
    /\ UNCHANGED <<vars, composer, log, writing, chats, sheet>>

\* newSession(), which the button calls whatever goes on.
NewSession ==
    /\ gate.passed
    /\ chats < MaxChats
    /\ chats' = chats + 1
    /\ log' = LET Detached(e) == IF e = "here" THEN "gone" ELSE e
              IN  [EmptyLog EXCEPT !.dots = Detached(log.dots),
                                   !.status = Detached(log.status),
                                   !.bubble = Detached(log.bubble)]
    /\ UNCHANGED <<vars, gate, composer, writing, sheet>>

-----------------------------------------------------------------------------
(***************************************************************************)
(* send(): the request, and what its answer does to the log.  One question *)
(* is streamed; questions that were refused may be asked again.  A second  *)
(* send() beside the first, which takes a login that came back into the    *)
(* chat (gate.again), is not modelled.                                     *)
(***************************************************************************)
Cleared(l) == [l EXCEPT !.dots = "none", !.status = "none"]
Failed(l) == [Cleared(l) EXCEPT !.failure = TRUE]

Send ==
    /\ gate.passed
    /\ ~busy
    /\ asking = "rest"
    /\ stream = "idle" /\ connected
    /\ busy' = TRUE
    /\ asking' = "fetching"
    /\ request' = "limiting"
    /\ log' = [EmptyLog EXCEPT !.question = TRUE, !.dots = "here"]
    /\ UNCHANGED <<vars, gate, parsed, writing, chats, sheet>>

\* fail(), then the finally clause.
Fail ==
    /\ log' = Failed(log)
    /\ busy' = FALSE
    /\ asking' = "rest"

\* The store answers rate_limited_user_id, or fails, and the request is let
\* through.
Admit ==
    /\ request = "limiting"
    /\ request' = "loading"
    /\ UNCHANGED <<vars, gate, busy, asking, parsed, log, writing, chats, sheet>>

\* get_session returns, with the history or without.
Load ==
    /\ request = "loading"
    /\ request' = "ready"
    /\ UNCHANGED <<vars, gate, busy, asking, parsed, log, writing, chats, sheet>>

Respond ==
    /\ asking = "fetching"
    /\ request = "ready"
    /\ Start
    /\ asking' = "reading"
    /\ request' = "none"
    /\ UNCHANGED <<gate, busy, parsed, log, writing, chats, sheet>>

\* 401, 429 or another status that is not ok: nothing is streamed.
Refuse ==
    /\ asking = "fetching"
    /\ Fail
    /\ request' = "none"
    /\ UNCHANGED <<vars, gate, parsed, writing, chats, sheet>>

\* fetch() or read() rejects.
Lost ==
    /\ asking \in {"fetching", "reading"}
    /\ ~connected
    /\ Fail
    /\ UNCHANGED <<vars, gate, request, parsed, writing, chats, sheet>>

\* The next frame, whatever chunks it came in.
Reads(frame) ==
    /\ asking = "reading"
    /\ parsed < Len(received)
    /\ received[parsed + 1] = frame
    /\ parsed' = parsed + 1
    /\ UNCHANGED <<vars, gate, request, chats, sheet>>

ShowStatus ==
    /\ Reads("event")
    /\ log' = [log EXCEPT !.status = IF @ = "none" THEN "here" ELSE @]
    /\ UNCHANGED <<busy, asking, writing>>

AddProductCard ==
    /\ Reads("event")
    /\ log' = [log EXCEPT !.card = TRUE]
    /\ UNCHANGED <<busy, asking, writing>>

AppendToken ==
    /\ Reads("event")
    /\ log' = IF log.bubble = "none"
              THEN [Cleared(log) EXCEPT !.bubble = "here"] ELSE log
    /\ writing' = TRUE
    /\ UNCHANGED <<busy, asking>>

\* Mutant: the scaffolding went when the first token came.
FinishBubble ==
    /\ Reads("done")
    /\ log' = IF log.bubble = "none"
              THEN [Cleared(log) EXCEPT !.bubble = "here"] ELSE log
    /\ writing' = FALSE
    /\ UNCHANGED <<busy, asking>>

Finish ==
    /\ Reads("done")
    /\ log' = [Cleared(log) EXCEPT !.bubble = IF @ = "none" THEN "here" ELSE @]
    /\ writing' = FALSE
    /\ UNCHANGED <<busy, asking>>

\* Mutant: it returns without the finally clause.
ErrorAndReturn ==
    /\ Reads("error")
    /\ log' = Failed(log)
    /\ asking' = "rest"
    /\ UNCHANGED <<busy, writing>>

Error ==
    /\ Reads("error")
    /\ Fail
    /\ UNCHANGED writing

\* read() says the stream is over.
EndOfStream ==
    /\ asking = "reading"
    /\ connected /\ stream = "closed" /\ parsed = Len(received)
    /\ busy' = FALSE
    /\ asking' = "rest"
    /\ UNCHANGED <<vars, gate, request, parsed, log, writing, chats, sheet>>

-----------------------------------------------------------------------------
(***************************************************************************)
(* openProduct and closeSheet.  An answer is written into the sheet it was *)
(* asked for, which may have been closed.                                  *)
(***************************************************************************)
Browsing == UNCHANGED <<vars, gate, composer, log, writing, chats>>

OpenProduct ==
    /\ log.card
    /\ sheet.taps < MaxTaps
    /\ LET tap == sheet.taps + 1
       IN  sheet' = [shown |-> [tap |-> tap, says |-> "loading"],
                     pending |-> sheet.pending \union {tap}, taps |-> tap]
    /\ Browsing

\* A product, or that it could not be loaded.
RenderSheet ==
    /\ \E tap \in sheet.pending, says \in {"product", "sorry"} :
          sheet' = [sheet EXCEPT
                       !.pending = @ \ {tap},
                       !.shown = IF @.tap = tap THEN [@ EXCEPT !.says = says]
                                 ELSE @]
    /\ Browsing

CloseSheet ==
    /\ sheet.shown # NoSheet
    /\ sheet' = [sheet EXCEPT !.shown = NoSheet]
    /\ Browsing

-----------------------------------------------------------------------------
Answered == Respond \/ Lost
Reading == ShowStatus \/ AddProductCard \/ AppendToken \/ Finish \/ Error
             \/ EndOfStream
Server(step) == step /\ UNCHANGED page
Serves == Converse \/ Raises \/ Event \/ Save \/ Drain \/ Write \/ HangUp

PageNext ==
    \/ Login \/ LoggedIn \/ NotLoggedIn \/ NewSession
    \/ Send \/ Admit \/ Load \/ Refuse \/ Answered \/ Reading
    \/ OpenProduct \/ RenderSheet \/ CloseSheet
    \/ Server(Serves)

(***************************************************************************)
(* The server as in ChatStream; it starts a response it is ready to start, *)
(* and the browser runs send() on when a frame is there or the connection  *)
(* is known to be lost.  Nobody has to refuse, and as before nothing is    *)
(* assumed of the store: Admit and Load, like Save, may never come.        *)
(***************************************************************************)
PageSpec ==
    /\ PageInit
    /\ [][PageNext]_all
    /\ WF_all(Server(Converse))
    /\ WF_all(Server(Drain))
    /\ WF_all(Server(Write))
    /\ WF_all(Answered)
    /\ WF_all(Reading)

-----------------------------------------------------------------------------
(***************************************************************************)
(* Properties.                                                             *)
(***************************************************************************)
PageTypeOK ==
    /\ gate.pending \in 0..MaxLogins /\ chats \in 0..(MaxChats + 1)
    /\ asking \in {"rest", "fetching", "reading"}
    /\ request \in {"none", "limiting", "loading", "ready"}
    /\ parsed \in 0..Len(received)
    /\ {log.dots, log.status, log.bubble} \subseteq {"none", "here", "gone"}

(* When send() is over the composer takes a question again, nothing on the *)
(* page is still moving, a half answer is marked by a failure, and a       *)
(* question that is still there has an answer or a failure, also where New *)
(* chat, a lost connection or a tool call after the first words came in    *)
(* between.  Before it is over only a login that comes back into the open  *)
(* chat frees the composer.  A sheet loads only while its own answer is on *)
(* its way (send, start, newSession, openProduct of demo_ui.py).           *)
NoLooseEnds ==
    /\ PageTypeOK
    /\ asking = "rest" =>
        /\ ~busy
        /\ log.dots # "here" /\ log.status # "here"
        /\ log.bubble = "here" /\ writing => log.failure
        /\ log.question => log.failure \/ log.bubble = "here"
    /\ ~busy /\ ~gate.again => asking = "rest"
    /\ sheet.shown.says = "loading" => sheet.shown.tap \in sheet.pending

\* The request or its task has not heard from the store.
RequestAwaitsStore == AwaitsStore \/ request \in {"limiting", "loading"}

(* The composer does not stay disabled, unless the store never answers the *)
(* limiter, get_session or save_session for a client that stays (send(),   *)
(* the finally clause; the request waits for each of the three calls).     *)
PageIsFree ==
    []<>(~RequestAwaitsStore) \/ <>(~connected) => (busy ~> ~busy)
=============================================================================
