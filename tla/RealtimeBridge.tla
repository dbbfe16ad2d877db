---------------------------- MODULE RealtimeBridge ----------------------------
(***************************************************************************)
(* A voice call bridged to the OpenAI Realtime model (realtime.py): the    *)
(* pump that reads the model's events, a task per tool call, the consults  *)
(* whose answers must be read out, and the hangup the model asks for,      *)
(* which waits for those answers and ends the call by a stop frame.        *)
(*                                                                         *)
(* An action is the code from one await to the next.  The model's server   *)
(* is external: it takes requests for a response in order, has one active  *)
(* response at a time, and makes responses of its own (the greeting, an    *)
(* answer to what the caller says).  The pump reads an event as it occurs. *)
(***************************************************************************)
EXTENDS Naturals, Sequences, FiniteSets, SequencesExt

CONSTANTS
  ToolCalls,    \* tool calls of the model
  Tool,         \* "consult", "hangup" or "action" (register, edit, delete, unknown)
  Scenes        \* of one behaviour: sequences of calls, each made in its order, and at
                \* most how many responses the server makes of its own and sends fail

Consults == {c \in ToolCalls : Tool[c] = "consult"}
Other == "other"                \* a response that reads out no consult

ASSUME BridgeAssumption ==
  /\ Tool \in [ToolCalls -> {"consult", "hangup", "action"}]
  /\ Other \notin ToolCalls
  /\ \A s \in Scenes :
       (\A q \in s.calls : q \in Seq(ToolCalls)) /\ s.talk \in Nat /\ s.faults \in Nat

VARIABLES
  dispatched,   \* calls given to a task
  task,         \* of each call: where its task is
  results,      \* outputs submitted for each call
  pending,      \* pending_consults: the entry of each consult, NoConsult without one
  awaiting,     \* awaiting_consult_responses
  armed, deferred, hanging, stopped,  \* hangup_armed_at, deferred_hangup,
                \* who is in _perform_deferred_hangup, hangup_sent
  closed,       \* "opening", "opened" (to the model), "no" (the bridge runs), "closed"
                \* (state.closed), "torn", "over"; "refused" if it never ran
  requests, speaking,   \* of the server: response.create frames, the active response
  scene,        \* chosen initially
  \* history
  fate,         \* why a consult is pending no more
  late,         \* consults called while a hangup was in progress
  talks, faults

consulting == <<pending, awaiting, fate>>
hangup == <<armed, deferred, hanging, stopped>>
server == <<requests, speaking>>
bounds == <<scene, talks, faults>>
bridgeVars == <<dispatched, task, results, consulting, hangup, closed, server, late, bounds>>

NoConsult == [response |-> "none", audio |-> FALSE, transcript |-> FALSE, timer |-> FALSE,
              owned |-> FALSE]
NewConsult == [NoConsult EXCEPT !.owned = TRUE]
Pending == {c \in Consults : pending[c].owned}

BridgeTypeOK ==
  /\ dispatched \subseteq ToolCalls /\ late \subseteq Consults
  /\ task \in [ToolCalls -> {"none", "started", "consulting", "submitting", "requesting",
                         "answering", "confirming", "over"}]
  /\ results \in [ToolCalls -> Nat]
  /\ pending \in [Consults -> [response : {"none", "active", "past"}, audio : BOOLEAN,
                               transcript : BOOLEAN, timer : BOOLEAN, owned : BOOLEAN]]
  /\ awaiting \in Seq(Consults)
  /\ armed \in BOOLEAN /\ deferred \in BOOLEAN /\ stopped \in BOOLEAN
  /\ hanging \in {"none", "pump", "task"}
  /\ closed \in {"opening", "opened", "no", "closed", "torn", "over", "refused"}
  /\ requests \in Seq(ToolCalls \cup {Other})
  /\ speaking \in ToolCalls \cup {Other, "none"}
  /\ scene \in Scenes
  /\ fate \in [Consults -> {"none", "read", "mistaken", "expired", "failed"}]
  /\ talks \in Nat /\ faults \in Nat

BridgeInit ==
  /\ dispatched = {} /\ task = [c \in ToolCalls |-> "none"] /\ results = [c \in ToolCalls |-> 0]
  /\ pending = [c \in Consults |-> NoConsult] /\ awaiting = <<>>
  /\ armed = FALSE /\ deferred = FALSE /\ hanging = "none" /\ stopped = FALSE
  /\ closed = "opening" /\ requests = <<>> /\ speaking = "none"
  /\ scene \in Scenes
  /\ fate = [c \in Consults |-> "none"] /\ late = {} /\ talks = 0 /\ faults = 0
-----------------------------------------------------------------------------
(* The start of the call *)

Phase(from, to) ==
  /\ closed = from /\ closed' = to
  /\ UNCHANGED <<dispatched, task, results, consulting, hangup, server, late, bounds>>

\* The model is connected before the call is accepted as raw media.
Opens == Phase("opening", "opened")
\* The connection fails: the call is refused, or goes on without the model.
OpenFails == Phase("opening", "refused")
Accepts == Phase("opened", "no")
\* The caller is gone before the socket is ready: the bridge never runs.
AcceptFails == Phase("opened", "refused")
-----------------------------------------------------------------------------
(* The hangup, and the consults it waits for *)

\* _perform_deferred_hangup, run by the pump or by a task, with the consults that are
\* pending then: it begins to wait for the last audio.
BlockedByHangup(owned, wanted) ==                     \* slip: consults are not waited for
  ~wanted \/ hanging # "none" \/ stopped \/ closed # "no"
Blocked(owned, wanted) ==
  \/ ~wanted \/ owned # {} \/ hanging # "none" \/ stopped \/ closed # "no"
Perform(by, owned, wanted) ==
  hanging' = IF Blocked(owned, wanted) THEN hanging ELSE by

\* The queue of awaited responses without a consult.  Its task awaits one response, so the
\* comprehension over the queue drops one entry at most.
Without(c) ==
  IF \A i \in DOMAIN awaiting : awaiting[i] # c THEN awaiting
  ELSE RemoveAt(awaiting, CHOOSE i \in DOMAIN awaiting : awaiting[i] = c)

\* _finish_pending_consult: the consult is released, its timer cancelled, and a
\* hangup that waited for the last one performed.
Finish(c, by, why) ==
  /\ pending' = [pending EXCEPT ![c] = NoConsult]
  /\ awaiting' = Without(c)
  /\ fate' = IF pending[c].owned THEN [fate EXCEPT ![c] = why] ELSE fate
  /\ Perform(by, Pending \ {c}, deferred)
  /\ UNCHANGED <<armed, deferred, stopped>>

\* _expire_pending_consult, CONSULT_RESPONSE_TIMEOUT_S after the result was submitted.
Expires(c) ==
  /\ pending[c].timer /\ closed # "torn" /\ closed # "over"
  /\ Finish(c, "task", "expired")
  /\ UNCHANGED <<dispatched, task, results, closed, server, late, bounds>>

\* After HANGUP_CLOSE_DELAY_S the stop frame is sent; if that fails the call ends too.
StopFrame ==
  /\ hanging # "none" /\ hanging' = "none"
  /\ IF closed # "no" THEN UNCHANGED <<stopped, closed, faults>>
     ELSE /\ closed' = "closed"
          /\ \/ stopped' = TRUE /\ UNCHANGED faults
             \/ faults < scene.faults /\ faults' = faults + 1 /\ UNCHANGED stopped
  /\ UNCHANGED <<dispatched, task, results, consulting, armed, deferred, server, late,
                 scene, talks>>

\* HANGUP_CONFIRM_WINDOW_S pass.
WindowCloses ==
  /\ armed /\ armed' = FALSE
  /\ UNCHANGED <<dispatched, task, results, consulting, deferred, hanging, stopped,
                 closed, server, late, bounds>>
-----------------------------------------------------------------------------
(* Tool calls *)

\* The pump reads that a call is complete, from whichever of the events that say so
\* comes first: a consult is pending before its task runs.
Made(c) == \E q \in scene.calls : \E i \in DOMAIN q :
  q[i] = c /\ \A j \in 1 .. i - 1 : q[j] \in dispatched
Reading == closed = "no" /\ hanging # "pump"
Seen(c) == c \in dispatched
Registered(c) == IF Tool[c] # "consult" \/ pending[c].owned THEN pending
                 ELSE [pending EXCEPT ![c] = NewConsult]
Dispatch(c) ==
  /\ Reading /\ Made(c) /\ ~Seen(c)
  /\ dispatched' = dispatched \cup {c}
  /\ pending' = Registered(c)
  /\ task' = [task EXCEPT ![c] = "started"]
  /\ late' = IF Tool[c] = "consult" /\ hanging # "none" THEN late \cup {c} ELSE late
  /\ UNCHANGED <<results, awaiting, fate, hangup, closed, server, bounds>>

\* A send of a task fails, or a request for a response is taken by the server.
Fails == faults < scene.faults /\ faults' = faults + 1 /\ UNCHANGED requests
Requests(for) == requests' = Append(requests, for) /\ UNCHANGED faults

\* The interim cue is asked for, whether or not that succeeds.
ConsultStarts(c) ==
  /\ Tool[c] = "consult" /\ task[c] = "started"
  /\ task' = [task EXCEPT ![c] = "consulting"]
  /\ pending' = [pending EXCEPT ![c].owned = TRUE]
  /\ Requests(Other) \/ Fails
  /\ UNCHANGED <<dispatched, results, awaiting, fate, hangup, closed, speaking, late, scene, talks>>

\* The consult's turn answers, raises or takes too long: the output is submitted.
ConsultEnds(c) ==
  /\ task[c] = "consulting"
  /\ task' = [task EXCEPT ![c] = "submitting"]
  /\ pending' = [pending EXCEPT ![c].owned = TRUE]
  /\ UNCHANGED <<dispatched, results, awaiting, fate, hangup, closed, server, late, bounds>>

NoTimer(c) == pending                                 \* slip: an answer may be awaited forever
Timed(c) == [pending EXCEPT ![c].timer = TRUE]
Submits(c) ==
  /\ task[c] = "submitting"
  /\ \/ /\ task' = [task EXCEPT ![c] = "requesting"]
        /\ results' = [results EXCEPT ![c] = @ + 1]
        /\ awaiting' = Append(awaiting, c) /\ pending' = Timed(c)
        /\ UNCHANGED <<fate, hangup, requests, faults>>
     \/ /\ Fails /\ UNCHANGED results
        /\ task' = [task EXCEPT ![c] = "over"]
        /\ Finish(c, "task", "failed")
  /\ UNCHANGED <<dispatched, closed, speaking, late, scene, talks>>

RequestsAnswer(c) ==
  /\ task[c] = "requesting"
  /\ task' = [task EXCEPT ![c] = "over"]
  /\ \/ Requests(c) /\ UNCHANGED <<consulting, hangup>>
     \/ Fails /\ Finish(c, "task", "failed")
  /\ UNCHANGED <<dispatched, results, closed, speaking, late, scene, talks>>

\* hang_up_call: the first call asks for a goodbye, one within the window hangs up.
HangUpStarts(c) ==
  /\ Tool[c] = "hangup" /\ task[c] = "started"
  /\ task' = [task EXCEPT ![c] = IF armed THEN "confirming" ELSE "answering"]
  /\ armed' = TRUE
  /\ UNCHANGED <<dispatched, results, consulting, deferred, hanging, stopped, closed,
                 server, late, bounds>>

\* The post-call tools change the list of actions and answer; so does an unknown tool.
ActionStarts(c) ==
  /\ Tool[c] = "action" /\ task[c] = "started"
  /\ task' = [task EXCEPT ![c] = "answering"]
  /\ UNCHANGED <<dispatched, results, consulting, hangup, closed, server, late, bounds>>

Answers(c) ==
  /\ task[c] = "answering"
  /\ task' = [task EXCEPT ![c] = "over"]
  /\ \/ Requests(Other) /\ results' = [results EXCEPT ![c] = @ + 1]
     \/ Fails /\ results' \in {results, [results EXCEPT ![c] = @ + 1]}
  /\ UNCHANGED <<dispatched, consulting, hangup, closed, speaking, late, scene, talks>>

Ending == stopped \/ hanging # "none"
HangUpConfirmed(c) ==
  /\ task[c] = "confirming"
  /\ task' = [task EXCEPT ![c] = "over"]
  /\ \/ results' = [results EXCEPT ![c] = @ + 1] /\ UNCHANGED faults
     \/ faults < scene.faults /\ faults' = faults + 1 /\ UNCHANGED results
  /\ IF Ending THEN UNCHANGED <<deferred, hanging>>
     ELSE deferred' = TRUE /\ Perform("task", Pending, TRUE)
  /\ UNCHANGED <<dispatched, consulting, armed, stopped, closed, server, late, scene, talks>>
-----------------------------------------------------------------------------
(* Responses *)

\* response.created: the longest awaited consult takes the response for its answer.
Bound(for) ==
  IF awaiting = <<>> THEN UNCHANGED <<pending, awaiting, fate>>
  ELSE /\ pending' = [pending EXCEPT ![Head(awaiting)].response = "active"]
       /\ awaiting' = Tail(awaiting)
       /\ fate' = IF for = Head(awaiting) THEN fate
                  ELSE [fate EXCEPT ![Head(awaiting)] = "mistaken"]
Creates ==
  /\ Reading /\ requests # <<>> /\ speaking = "none"
  /\ speaking' = Head(requests) /\ requests' = Tail(requests)
  /\ Bound(speaking')
  /\ UNCHANGED <<dispatched, task, results, hangup, closed, late, bounds>>
\* A request while a response is active is refused by an error frame.
Refuses ==
  /\ closed = "no" /\ requests # <<>> /\ speaking # "none"
  /\ requests' = Tail(requests)
  /\ UNCHANGED <<dispatched, task, results, consulting, hangup, closed, speaking, late, bounds>>
Talks ==
  /\ Reading /\ speaking = "none" /\ talks < scene.talk /\ talks' = talks + 1
  /\ speaking' = Other /\ Bound(Other)
  /\ UNCHANGED <<dispatched, task, results, hangup, closed, requests, late, scene, faults>>

Matching == {c \in Consults : pending[c].owned /\ pending[c].response = "active"}
AudioDone == \E c \in Matching :
  /\ Reading /\ ~pending[c].audio
  /\ pending' = [pending EXCEPT ![c].audio = TRUE]
  /\ UNCHANGED <<dispatched, task, results, awaiting, fate, hangup, closed, server, late, bounds>>
\* An empty transcript is not recorded.
TranscriptDone == \E c \in Matching :
  /\ Reading /\ ~pending[c].transcript
  /\ pending' = [pending EXCEPT ![c].transcript = TRUE]
  /\ UNCHANGED <<dispatched, task, results, awaiting, fate, hangup, closed, server, late, bounds>>

\* response.done: a response that failed or was interrupted answers the consult, one
\* that completed when its audio and its transcript were read.
Why(c) == IF fate[c] = "mistaken" THEN "mistaken" ELSE "read"
Completed(c) == pending[c].audio /\ pending[c].transcript
ResponseDone ==
  /\ Reading /\ speaking # "none" /\ speaking' = "none"
  /\ \/ \E c \in Matching, completed \in BOOLEAN :
          IF completed => Completed(c) THEN Finish(c, "pump", Why(c))
          ELSE /\ pending' = [pending EXCEPT ![c].response = "past"]
               /\ UNCHANGED <<awaiting, fate, hangup>>
     \/ Matching = {} /\ UNCHANGED <<consulting, hangup>>
  /\ UNCHANGED <<dispatched, task, results, closed, requests, late, bounds>>
-----------------------------------------------------------------------------
(* The end of the call *)

\* The caller hangs up, or a socket closes.
Ends == Phase("no", "closed")

\* The pumps are cancelled, then the tasks and the timers.
Tear ==
  /\ closed = "closed" /\ closed' = "torn"
  /\ task' = [c \in ToolCalls |-> IF task[c] = "none" THEN "none" ELSE "over"]
  /\ pending' = [c \in Consults |-> NoConsult] /\ awaiting' = <<>>
  /\ hanging' = "none" /\ requests' = <<>> /\ speaking' = "none"
  /\ UNCHANGED <<dispatched, results, fate, armed, deferred, stopped, late, bounds>>

\* One follow-up turn: the queued actions, or a reflection.
FollowsUp == Phase("torn", "over")
-----------------------------------------------------------------------------
Runs(c) == HangUpStarts(c) \/ ActionStarts(c) \/ Answers(c) \/ HangUpConfirmed(c)
Asks(c) == ConsultStarts(c) \/ ConsultEnds(c) \/ Submits(c) \/ RequestsAnswer(c) \/ Expires(c)
GoesOn ==
  \/ \E c \in ToolCalls : Runs(c)
  \/ \E c \in Consults : Asks(c)
  \/ StopFrame \/ Tear \/ FollowsUp
BridgeNext ==
  \/ GoesOn
  \/ \E c \in ToolCalls : Dispatch(c)
  \/ Creates \/ Refuses \/ Talks \/ AudioDone \/ TranscriptDone \/ ResponseDone
  \/ WindowCloses \/ Ends \/ Opens \/ OpenFails \/ Accepts \/ AcceptFails

\* The tasks, timers and teardown of the event loop do not all stand still for ever;
\* neither the model nor the caller need do anything.
BridgeSpec == BridgeInit /\ [][BridgeNext]_bridgeVars /\ WF_bridgeVars(GoesOn)
-----------------------------------------------------------------------------
(* Properties *)

\* A call is answered once, though several events say that it is complete.
AnsweredOnce == \A c \in ToolCalls : results[c] <= 1

\* A hangup of the model waits for the answers: when the stop frame goes out, each
\* consult called before the hangup was under way has been read out (or another
\* response was taken for its answer), has waited its time, or could not be sent.
AnswersBeforeStop ==
  stopped => \A c \in (Consults \cap dispatched) \ late :
               c \notin Pending /\ fate[c] # "none"

\* Every consult is answered once, and heard before the model hangs up.
AnswersAreHeard == AnsweredOnce /\ AnswersBeforeStop

\* A hangup that the model asked for ends the call, whatever the model does next
\* and however its responses fail to come.
HangupEndsTheCall == deferred ~> closed = "over"
==============================================================================
