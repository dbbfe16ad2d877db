---------------------------- MODULE CodexClient ----------------------------
(***************************************************************************)
(* The JSON-RPC client of a codex app-server (codex_client.py) and the     *)
(* authority file that its tool processes read (turn_authority.py), as one *)
(* conversation uses them: the session's worker connects, runs one turn    *)
(* after another and replaces a dead client; a Stop or a /clear arrives in *)
(* between; the app-server answers, streams and asks in its own order, may *)
(* start a turn's work before it acknowledges the turn, may garble its     *)
(* output or exit; tools of a turn act late.                               *)
(*                                                                         *)
(* An action is the code from one await to the next.  Lines of the host's  *)
(* output wait in a pipe; the reader handles one at a time.                *)
(***************************************************************************)
EXTENDS Naturals, Sequences, SequencesExt, FiniteSets

CONSTANTS
  Turns,        \* turns of the conversation
  Shell,        \* turns whose tool is a shell command, which carries no turn metadata
  Contexts,     \* turns before which background context is injected
  ItemKinds,    \* "final": a final message, "delta": streamed text, "tool": an MCP tool call
  MaxItems,     \* items of one turn, a bound of the model
  MaxHosts,     \* app-server processes, a bound of the model
  MaxStops,     \* Stops, a bound of the model
  Scenes        \* what may happen in one behaviour: subsets of Features, to keep each small

Features == {"tool", "ask", "stop", "close", "death", "error"}

ASSUME ClientAssumption ==
  /\ Scenes \subseteq SUBSET Features
  /\ Shell \subseteq Turns /\ Contexts \subseteq Turns
  /\ ItemKinds \subseteq {"final", "delta", "tool"}
  /\ MaxItems \in Nat /\ MaxHosts \in Nat /\ MaxStops \in Nat
  /\ Turns \cap {"none", "initialize", "thread", "inject", "interrupt"} = {}

Calls == Turns \cup {"initialize", "thread", "inject", "interrupt"}

VARIABLES
  worker,    \* the session's worker: what it awaits, and the turn it is at
  epoch,     \* the client, numbered; its app-server's host epoch
  proc,      \* the app-server: "none", "running" or "gone"
  pipe,      \* its output, not yet read
  host,      \* what the app-server does with each turn
  reader,    \* _reader_task
  closing,   \* disconnect()
  reply,     \* the future of each request; the pending ones are "sent"
  starting,  \* _starting_turns
  bound,     \* _turns
  current,   \* _current_turn_id
  early,     \* _early_notifications
  finished,  \* _finished_turns
  got,       \* items captured for each turn
  result,    \* the future of each turn's capture
  call,      \* run_detailed for each turn
  ask,       \* the server request of each turn
  stop,      \* interrupt(): what it awaits, and the turns it found
  auth,      \* the authority file
  tool,      \* the tool call of each turn, and the record it captured
  scene,     \* the features of this behaviour
  sent,      \* ghost: the items of each turn, as the host sent them
  present,   \* ghost: turns under way when the last Stop arrived
  late,      \* ghost: turns submitted while the reader no longer read
  unbound    \* ghost: turns whose acknowledgement could not be recorded

conn == <<proc, reader, closing, epoch>>
rpc == <<reply, starting, bound, current, early, finished, got, result>>
ghost == <<scene, present, late, unbound>>
vars == <<worker, conn, pipe, host, rpc, call, ask, stop, auth, tool, sent, ghost>>

Line(type, t, body) == [type |-> type, turn |-> t, body |-> body]
NoResult == [kind |-> "none", text |-> <<>>, tools |-> <<>>]
Failed == [NoResult EXCEPT !.kind = "failed"]
NoTool == [at |-> "none", token |-> "none", seen |-> "none"]
Pending == {c \in Calls : reply[c] = "sent"}
InFlight(t) == call[t] \in {"starting", "waiting"}
\* _proc is set, and _request finds neither it nor the reader gone.
Accepts == proc # "none" /\ reader # "done"
-----------------------------------------------------------------------------
(* The authority file *)

\* begin: only for the host of the record.
Begun(t) == [host |-> epoch, turn |-> t, state |-> "active", bound |-> FALSE]
\* bind: a source that was stopped is not revived.
Bind(t) == IF auth.host = epoch /\ auth.turn = t /\ auth.state = "active"
           THEN [auth EXCEPT !.bound = TRUE] ELSE auth
Closed == [auth EXCEPT !.state = "closed"]
\* retire: only the source it was given.
Retired(t) == IF auth.host = epoch /\ auth.turn = t THEN Closed ELSE auth
\* retire_host
HostRetired == IF auth.host = epoch THEN Closed ELSE auth
NewHost(e) == [host |-> e, turn |-> "none", state |-> "idle", bound |-> FALSE]

\* capture: the record of this process's host, active, and of the turn that the
\* request's metadata name; a shell command has no metadata.
OwnSource(t) ==
  /\ auth.host = tool[t].token /\ auth.state = "active"
  /\ t \notin Shell => auth.bound /\ auth.turn = t
\* validate: the captured record is still that of a live source.
StillActive(t) == auth.state = "active"                 \* slip: another source will do
Valid(t) == auth.state = "active" /\ [host |-> auth.host, turn |-> auth.turn] = tool[t].seen

\* The tool is called by a turn that works, acts at some later time, if at all.
CallTool(t) ==
  /\ "tool" \in scene /\ proc = "running" /\ host[t] = "working" /\ tool[t].at = "none"
  /\ tool' = [tool EXCEPT ![t] = [at |-> "called", token |-> epoch, seen |-> "none"]]
  /\ UNCHANGED <<worker, conn, pipe, host, rpc, call, ask, stop, auth, sent, ghost>>
Capture(t) ==
  /\ tool[t].at = "called"
  /\ tool' = [tool EXCEPT ![t].at = IF OwnSource(t) THEN "captured" ELSE "refused",
                          ![t].seen = [host |-> auth.host, turn |-> auth.turn]]
  /\ UNCHANGED <<worker, conn, pipe, host, rpc, call, ask, stop, auth, sent, ghost>>
Act(t) ==
  /\ tool[t].at = "captured"
  /\ tool' = [tool EXCEPT ![t].at = IF Valid(t) THEN "acted" ELSE "refused"]
  /\ UNCHANGED <<worker, conn, pipe, host, rpc, call, ask, stop, auth, sent, ghost>>
-----------------------------------------------------------------------------
(* The app-server, external *)

Emits(line) == pipe' = Append(pipe, line)
HostUnchanged == UNCHANGED <<worker, conn, rpc, call, ask, stop, auth, tool, ghost>>

HostItem(t, k) ==
  /\ proc = "running" /\ host[t] = "working" /\ Len(sent[t]) < MaxItems
  /\ sent' = [sent EXCEPT ![t] = Append(@, k)]
  /\ Emits(Line("item", t, k)) /\ UNCHANGED host /\ HostUnchanged
HostEnds(t, status) ==
  /\ status = "failed" => "error" \in scene
  /\ proc = "running" /\ host[t] = "working" /\ host' = [host EXCEPT ![t] = "ended"]
  /\ Emits(Line("ended", t, status)) /\ UNCHANGED sent /\ HostUnchanged
HostAsks(t) ==
  /\ "ask" \in scene /\ proc = "running" /\ host[t] \in {"working", "ended"} /\ ask[t] = "none"
  /\ ask' = [ask EXCEPT ![t] = "sent"] /\ Emits(Line("ask", t, "none"))
  /\ UNCHANGED <<host, sent, worker, conn, rpc, call, stop, auth, tool, ghost>>
HostResolves(t) ==
  /\ proc = "running" /\ ask[t] = "open" /\ Line("resolved", t, "none") \notin ToSet(pipe)
  /\ Emits(Line("resolved", t, "none")) /\ UNCHANGED <<host, sent>> /\ HostUnchanged

\* A response to a request: a turn is acknowledged before, in or after its work.
Answered(c) == \E b \in {"ok", "error"} : Line("reply", c, b) \in ToSet(pipe)
HostReplies(c, body) ==
  /\ proc = "running" /\ reply[c] = "sent" /\ ~Answered(c)
  /\ body = "error" => "error" \in scene /\ (c \in Turns => host[c] = "working" /\ ask[c] = "none")
  /\ host' = IF c \in Turns /\ body = "error" THEN [host EXCEPT ![c] = "rejected"] ELSE host
  /\ Emits(Line("reply", c, body)) /\ UNCHANGED sent /\ HostUnchanged
HostExits ==
  /\ "death" \in scene /\ proc = "running" /\ proc' = "gone"
  /\ UNCHANGED <<worker, reader, closing, epoch, pipe, host, rpc, call, ask, stop, auth, tool,
                 sent, ghost>>
-----------------------------------------------------------------------------
(* The reader *)

ReaderUnchanged == UNCHANGED <<worker, epoch, proc, closing, host, call, stop, tool, sent, scene, present, late>>

\* _cancel_server_requests: the handlers unwind, which may await a message to a human.
Cancelled(S) == [t \in Turns |-> IF t \in S /\ ask[t] = "open" THEN "unwinding" ELSE ask[t]]
Handlers == {t \in Turns : ask[t] \in {"open", "unwinding"}}

\* _final_message and the result of a completed turn.
Of(items, kind) == SelectSeq(items, LAMBDA k : k = kind)
FinalMessage(items) ==
  IF Of(items, "final") # <<>> THEN Of(items, "final") ELSE Of(items, "delta")
ResultOf(items, status) ==
  IF status = "failed" THEN Failed
  ELSE [kind |-> "answer", text |-> FinalMessage(items), tools |-> Of(items, "tool")]

\* The notifications of a bound turn: its items, and its end at most once, at the end.
Deliver(t, lines) ==
  LET body == [i \in DOMAIN lines |-> lines[i].body]
      isEnd == lines # <<>> /\ Last(lines).type = "ended"
      items == got[t] \o (IF isEnd THEN Front(body) ELSE body)
  IN /\ got' = [got EXCEPT ![t] = items]
     /\ finished' = IF isEnd THEN finished \cup {t} ELSE finished
     /\ ask' = IF isEnd THEN Cancelled({t}) ELSE ask
     /\ result' = IF isEnd /\ result[t] = NoResult
                  THEN [result EXCEPT ![t] = ResultOf(items, Last(body))] ELSE result

\* _handle_response.  A turn is bound before the next line is read.
Acknowledged(t, records) ==
  /\ starting' = starting \ {t} /\ bound' = bound \cup {t} /\ current' = t
  /\ IF records
     THEN /\ reply' = [reply EXCEPT ![t] = "ok"] /\ auth' = Bind(t)
          /\ Deliver(t, early[t]) /\ early' = [early EXCEPT ![t] = <<>>]
          /\ UNCHANGED unbound
     ELSE /\ reply' = [reply EXCEPT ![t] = "failed"] /\ unbound' = unbound \cup {t}
          /\ UNCHANGED <<auth, got, finished, ask, result, early>>
HandleResponse(line, records) ==
  LET c == line.turn IN
  /\ line.type = "reply"
  /\ IF reply[c] = "sent" /\ line.body = "ok" /\ c \in Turns THEN Acknowledged(c, records)
     ELSE /\ reply' = IF reply[c] # "sent" THEN reply
                      ELSE [reply EXCEPT ![c] = IF line.body = "ok" THEN "ok" ELSE "failed"]
          /\ UNCHANGED <<starting, bound, current, early, finished, got, result, ask, auth, unbound>>

\* _handle_notification: notifications of an unknown turn wait while a start is outstanding.
EarlyOf(t) == t \notin bound /\ starting # {}
HandleNotification(line) ==
  LET t == line.turn IN
  /\ line.type \in {"item", "ended"}
  /\ CASE EarlyOf(t) -> /\ early' = [early EXCEPT ![t] = Append(@, line)]
                        /\ UNCHANGED <<finished, got, result, ask>>
       [] ~EarlyOf(t) /\ t \in bound -> Deliver(t, <<line>>) /\ UNCHANGED early
       [] OTHER -> /\ finished' = IF line.type = "ended" THEN finished \cup {t} ELSE finished
                   /\ ask' = IF line.type = "ended" THEN Cancelled({t}) ELSE ask
                   /\ UNCHANGED <<early, got, result>>
  /\ UNCHANGED <<reply, starting, bound, current, auth, unbound>>

\* A server request starts a handler, unless its turn has finished.
AsksAnyway(t) == "open"                         \* slip: the turn may be over
Asked(t) == IF t \in finished THEN "over" ELSE "open"
HandleServerRequest(line) ==
  /\ line.type \in {"ask", "resolved"}
  /\ ask' = IF line.type = "ask" THEN [ask EXCEPT ![line.turn] = Asked(line.turn)]
            ELSE Cancelled({line.turn})
  /\ UNCHANGED <<rpc, auth, unbound>>

\* _read_messages, one line
Read ==
  /\ reader = "reading" /\ pipe # <<>> /\ pipe' = Tail(pipe)
  /\ \/ \E records \in {TRUE} \cup {"error" \notin scene} : HandleResponse(Head(pipe), records)
     \/ HandleNotification(Head(pipe))
     \/ HandleServerRequest(Head(pipe))
  /\ UNCHANGED reader /\ ReaderUnchanged

\* _fail_all
FailAll ==
  /\ reply' = [c \in Calls |-> IF reply[c] = "sent" THEN "failed" ELSE reply[c]]
  /\ result' = [t \in Turns |-> IF t \in bound /\ result[t] = NoResult THEN Failed ELSE result[t]]

\* _reader_loop: the output ended, or could not be read.  The reader is done when the
\* handlers it cancelled are.
ReaderFails ==
  /\ reader = "reading" /\ (IF proc = "gone" THEN pipe = <<>> ELSE "death" \in scene)
  /\ FailAll
  /\ ask' = Cancelled(Turns)
  /\ reader' = IF Handlers = {} THEN "done" ELSE "closing"
  /\ UNCHANGED <<pipe, starting, bound, current, early, finished, got, auth, unbound>> /\ ReaderUnchanged
ReaderEnds ==
  /\ reader \in {"closing", "cancelled"} /\ Handlers = {}
  /\ reader' = "done"
  /\ UNCHANGED <<pipe, rpc, ask, auth, unbound>> /\ ReaderUnchanged

\* _handle_server_request: the human's answer is written, or the handler was cancelled.
HandlerEnds(t) ==
  /\ ask[t] = "unwinding" /\ ask' = [ask EXCEPT ![t] = "over"]
  /\ UNCHANGED <<worker, conn, pipe, host, rpc, call, stop, auth, tool, sent, ghost>>
HumanAnswers(t) ==
  /\ ask[t] = "open" /\ ask' = [ask EXCEPT ![t] = "over"]
  /\ UNCHANGED <<worker, conn, pipe, host, rpc, call, stop, auth, tool, sent, ghost>>
-----------------------------------------------------------------------------
(* The caller of a turn *)

\* The end of a request: no start outstanding, no notification kept.
Kept(still) == IF still = {} THEN [t \in Turns |-> <<>>] ELSE early
\* The end of run_detailed.
Finish(t) ==
  /\ call' = [call EXCEPT ![t] = "done"]
  /\ bound' = bound \ {t} /\ current' = IF current = t THEN "none" ELSE current

\* run_detailed resumes with the response to turn/start.
Resume(t) ==
  /\ call[t] = "starting" /\ reply[t] \in {"ok", "failed"}
  /\ starting' = starting \ {t} /\ early' = Kept(starting \ {t})
  /\ IF reply[t] = "failed"
     THEN Finish(t) /\ result' = [result EXCEPT ![t] = Failed]
     ELSE IF result[t] # NoResult THEN Finish(t) /\ UNCHANGED result
     ELSE call' = [call EXCEPT ![t] = "waiting"] /\ UNCHANGED <<bound, current, result>>
  /\ reply' = [reply EXCEPT ![t] = "none"]
  /\ UNCHANGED <<worker, conn, pipe, host, finished, got, ask, stop, auth, tool, sent, ghost>>
Collect(t) ==
  /\ call[t] = "waiting" /\ result[t] # NoResult /\ Finish(t)
  /\ UNCHANGED <<worker, conn, pipe, host, reply, starting, early, finished, got, result, ask,
                 stop, auth, tool, sent, ghost>>
-----------------------------------------------------------------------------
(* disconnect() *)

\* The waiters fail at once when no handler has to unwind first.
Disconnect(cancels) ==
  /\ reader' = IF reader \in {"reading", "closing"} THEN "cancelled" ELSE reader
  /\ ask' = Cancelled(Turns)
  /\ IF Handlers = {} THEN closing' = "stopping" /\ FailAll /\ bound' = {}
     ELSE closing' = "waiting" /\ UNCHANGED <<result, bound>>
          /\ reply' = IF cancels THEN [reply EXCEPT !["interrupt"] = "none"] ELSE reply

\* ContactSession.close: /clear, /resume, a timeout
Close ==
  /\ "close" \in scene /\ closing = "open" /\ proc # "none" /\ Disconnect(FALSE) /\ auth' = HostRetired
  /\ UNCHANGED <<worker, epoch, proc, pipe, host, starting, current, early, finished, got, call,
                 stop, tool, sent, ghost>>
FailWaiters ==
  /\ closing = "waiting" /\ Handlers = {} /\ closing' = "stopping" /\ FailAll /\ bound' = {}
  /\ UNCHANGED <<worker, epoch, proc, reader, pipe, host, starting, current, early, finished, got,
                 call, ask, stop, auth, tool, sent, ghost>>
ProcessStops ==
  /\ closing = "stopping" /\ reader = "done"
  /\ closing' = "closed" /\ proc' = "none" /\ pipe' = <<>>
  /\ host' = [t \in Turns |-> IF host[t] = "none" THEN "none" ELSE "gone"]
  /\ UNCHANGED <<worker, epoch, reader, rpc, call, ask, stop, auth, tool, sent, ghost>>
-----------------------------------------------------------------------------
(* interrupt() *)

\* The turns present when Stop arrives, those being started included.
Found == (bound \cap {current}) \cup starting
\* _interrupt_client: the source is retired first.
Stop ==
  /\ "stop" \in scene /\ worker.at = "turn" /\ closing = "open" /\ stop.at = "idle" /\ stop.count < MaxStops
  /\ auth' = Retired(worker.turn)
  /\ stop' = [at |-> "waiting", found |-> Found, awaited |-> starting \cap Pending,
              to |-> "none", count |-> stop.count + 1]
  /\ present' = {t \in Turns : InFlight(t)}
  /\ UNCHANGED <<worker, conn, pipe, host, rpc, call, ask, tool, sent, scene, late, unbound>>
LatestTurn == bound \cap {current}              \* slip: whatever runs by now
Targets == {t \in stop.found \cap bound : result[t] = NoResult}
Resolved == \A t \in stop.awaited : reply[t] # "sent"
StopSends(t) ==
  /\ stop.at = "waiting" /\ Resolved /\ t \in Targets
  /\ IF Accepts
     THEN /\ reply' = [reply EXCEPT !["interrupt"] = "sent"]
          /\ stop' = [stop EXCEPT !.at = "sent", !.to = t, !.found = @ \ {t}, !.awaited = {}]
     ELSE stop' = [stop EXCEPT !.at = "idle"] /\ UNCHANGED reply
  /\ UNCHANGED <<worker, conn, pipe, host, starting, bound, current, early, finished, got, result,
                 call, ask, auth, tool, sent, ghost>>
StopEnds ==
  /\ stop.at = "waiting" /\ Resolved /\ Targets = {}
  /\ stop' = [stop EXCEPT !.at = "idle"]
  /\ UNCHANGED <<worker, conn, pipe, host, rpc, call, ask, auth, tool, sent, ghost>>
StopResumes ==
  /\ stop.at = "sent" /\ reply["interrupt"] \in {"ok", "failed"}
  /\ stop' = [stop EXCEPT !.at = IF reply["interrupt"] = "ok" THEN "waiting" ELSE "idle"]
  /\ reply' = [reply EXCEPT !["interrupt"] = "none"] /\ early' = Kept(starting)
  /\ UNCHANGED <<worker, conn, pipe, host, starting, bound, current, finished, got, result, call,
                 ask, auth, tool, sent, ghost>>
\* The session closes a client that does not confirm the interrupt in time.
StopTimesOut ==
  /\ stop.at # "idle" /\ closing = "open" /\ Disconnect(TRUE) /\ auth' = HostRetired
  /\ stop' = [stop EXCEPT !.at = "idle"] /\ early' = Kept(starting)
  /\ UNCHANGED <<worker, epoch, proc, pipe, host, starting, current, finished, got, call, tool,
                 sent, ghost>>
-----------------------------------------------------------------------------
(* The session's worker *)

At(step, t) == worker' = [at |-> step, turn |-> t]
Sends(c) == /\ reply' = [reply EXCEPT ![c] = "sent"]
            /\ late' = IF reader = "reading" THEN late ELSE late \cup {c}
WorkerUnchanged == UNCHANGED <<pipe, tool, sent, scene, present, unbound>>
Alive == proc = "running" /\ reader # "done"
\* The turn fails before it is submitted.
Fails(t) == /\ worker' = [at |-> "idle", turn |-> "none"]
            /\ call' = [call EXCEPT ![t] = "done"]

\* _ensure_process and the first request of connect()
Launch(t) ==
  /\ worker.at = "idle" /\ call[t] = "idle" /\ closing = "closed" /\ stop.at = "idle"
  /\ epoch < MaxHosts /\ epoch' = epoch + 1
  /\ proc' = "running" /\ reader' = "reading" /\ closing' = "open"
  /\ reply' = [c \in Calls |-> IF c = "initialize" THEN "sent" ELSE "none"]
  /\ starting' = {} /\ bound' = {} /\ current' = "none" /\ finished' = {}
  /\ early' = [u \in Turns |-> <<>>] /\ auth' = NewHost(epoch + 1)
  /\ At("initialize", t)
  /\ UNCHANGED <<got, result, call, ask, host, stop, late>> /\ WorkerUnchanged
Reuse(t) ==
  /\ worker.at = "idle" /\ call[t] = "idle" /\ closing = "open" /\ Alive /\ At("ready", t)
  /\ UNCHANGED <<conn, rpc, call, ask, host, stop, auth, late>> /\ WorkerUnchanged
\* A dead client is disconnected before the next is launched.
Discard ==
  /\ worker.at = "idle" /\ closing = "open" /\ ~Alive /\ Disconnect(FALSE)
  /\ UNCHANGED <<worker, epoch, proc, starting, current, early, finished, got, call, host, stop,
                 auth, late>> /\ WorkerUnchanged

\* connect(), step by step; a failure of it, or a close meanwhile, disposes the client.
Opens(from, next, c, t) ==
  /\ worker = [at |-> from, turn |-> t] /\ reply[c] = "ok" /\ Accepts
  /\ At(next, t) /\ Sends(next)
  /\ UNCHANGED <<conn, starting, bound, current, early, finished, got, result, call, ask, host, stop,
                 auth>> /\ WorkerUnchanged
Opened(t) ==
  /\ worker = [at |-> "thread", turn |-> t] /\ reply["thread"] = "ok" /\ closing = "open"
  /\ At("ready", t)
  /\ UNCHANGED <<conn, rpc, call, ask, host, stop, auth, late>> /\ WorkerUnchanged
Unopened(c) ==
  \/ reply[c] = "failed"
  \/ c = "initialize" /\ (reply[c] = "sent" \/ ~Accepts)   \* STARTUP_TIMEOUT_SECONDS
  \/ c = "thread" /\ reply[c] = "ok" /\ closing # "open"
ConnectFails(t) ==
  /\ worker.turn = t /\ worker.at \in {"initialize", "thread"} /\ Unopened(worker.at) /\ Fails(t)
  /\ IF closing = "open" THEN Disconnect(FALSE)
     ELSE UNCHANGED <<reader, ask, closing, reply, result, bound>>
  /\ UNCHANGED <<epoch, proc, starting, current, early, finished, got, host, stop, auth, late>>
  /\ WorkerUnchanged

\* append_context
Injects(t) ==
  /\ worker = [at |-> "ready", turn |-> t] /\ t \in Contexts /\ closing = "open" /\ Accepts
  /\ reply["inject"] = "none" /\ At("inject", t) /\ Sends("inject")
  /\ UNCHANGED <<conn, starting, bound, current, early, finished, got, result, call, ask, host, stop,
                 auth>> /\ WorkerUnchanged
Injected(t) ==
  /\ worker = [at |-> "inject", turn |-> t] /\ reply["inject"] \in {"ok", "failed"}
  /\ IF reply["inject"] = "ok" THEN At("ready", t) /\ UNCHANGED call ELSE Fails(t)
  /\ early' = Kept(starting)
  /\ UNCHANGED <<conn, reply, starting, bound, current, finished, got, result, ask, host, stop, auth,
                 late>> /\ WorkerUnchanged

\* submit(): the source is published, then the turn is requested.  A client that is being
\* closed is given nothing: its turn was interrupted.
Submit(t) ==
  /\ worker = [at |-> "ready", turn |-> t]
  /\ t \in Contexts => reply["inject"] # "none" \/ closing # "open" \/ ~Accepts
  /\ IF closing = "open" /\ Accepts
     THEN /\ At("turn", t) /\ auth' = Begun(t) /\ Sends(t)
          /\ starting' = starting \cup {t} /\ call' = [call EXCEPT ![t] = "starting"]
          /\ host' = IF proc = "running" THEN [host EXCEPT ![t] = "working"] ELSE host
     ELSE Fails(t) /\ UNCHANGED <<auth, reply, late, starting, host>>
  /\ UNCHANGED <<conn, bound, current, early, finished, got, result, ask, stop>> /\ WorkerUnchanged

\* The end of _run_turn: the source is retired, questions of its turn are withdrawn.
TurnOver ==
  /\ worker.at = "turn" /\ call[worker.turn] = "done"
  /\ auth' = Retired(worker.turn) /\ worker' = [at |-> "idle", turn |-> "none"]
  /\ ask' = [t \in Turns |-> IF ask[t] = "open" THEN "over" ELSE ask[t]]
  /\ UNCHANGED <<conn, rpc, call, host, stop, late>> /\ WorkerUnchanged
-----------------------------------------------------------------------------
Init ==
  /\ scene \in Scenes /\ worker = [at |-> "idle", turn |-> "none"]
  /\ epoch = 0 /\ proc = "none" /\ reader = "done" /\ closing = "closed"
  /\ pipe = <<>> /\ host = [t \in Turns |-> "none"]
  /\ reply = [c \in Calls |-> "none"] /\ starting = {} /\ bound = {} /\ current = "none"
  /\ early = [t \in Turns |-> <<>>] /\ finished = {} /\ got = [t \in Turns |-> <<>>]
  /\ result = [t \in Turns |-> NoResult] /\ call = [t \in Turns |-> "idle"]
  /\ ask = [t \in Turns |-> "none"]
  /\ stop = [at |-> "idle", found |-> {}, awaited |-> {}, to |-> "none", count |-> 0]
  /\ auth = NewHost(0) /\ tool = [t \in Turns |-> NoTool]
  /\ sent = [t \in Turns |-> <<>>] /\ present = {} /\ late = {} /\ unbound = {}

Host ==
  \/ \E t \in Turns : HostAsks(t) \/ HostResolves(t)
  \/ \E t \in Turns, k \in ItemKinds : HostItem(t, k)
  \/ \E t \in Turns, s \in {"completed", "failed"} : HostEnds(t, s)
  \/ \E c \in Calls, b \in {"ok", "error"} : HostReplies(c, b)
  \/ HostExits
Tool == \E t \in Turns : CallTool(t) \/ Capture(t) \/ Act(t)
Reader == Read \/ ReaderEnds \/ (\E t \in Turns : HandlerEnds(t))
Caller == \E t \in Turns : Resume(t) \/ Collect(t)
Interrupts == (\E t \in Turns : StopSends(t)) \/ StopEnds \/ StopResumes
Closing == FailWaiters \/ ProcessStops
Worker ==
  \/ \E t \in Turns : \/ Launch(t) \/ Reuse(t) \/ Opened(t) \/ ConnectFails(t)
                      \/ Opens("initialize", "thread", "initialize", t)
                      \/ Injects(t) \/ Injected(t) \/ Submit(t)
  \/ Discard \/ TurnOver

Next ==
  \/ Host \/ Tool \/ Reader \/ Caller \/ Interrupts \/ Closing \/ Worker
  \/ ReaderFails \/ Stop \/ StopTimesOut \/ Close
  \/ \E t \in Turns : HumanAnswers(t)

Spec == Init /\ [][Next]_vars
-----------------------------------------------------------------------------
TypeOK ==
  /\ worker.at \in {"idle", "initialize", "thread", "ready", "inject", "turn"}
  /\ proc \in {"none", "running", "gone"} /\ reader \in {"reading", "closing", "cancelled", "done"}
  /\ closing \in {"open", "waiting", "stopping", "closed"}
  /\ reply \in [Calls -> {"none", "sent", "ok", "failed"}]
  /\ starting \subseteq Turns /\ bound \subseteq Turns /\ current \in Turns \cup {"none"}
  /\ auth.state \in {"idle", "active", "closed"} /\ epoch \in 0 .. MaxHosts

\* A turn's answer is the whole of what the app-server sent for that turn and for no
\* other, also when notifications overtake the acknowledgement, share its buffer, or
\* belong to a turn whose start failed (_handle_response, _handle_notification).
AnswerIsWhole ==
  \A t \in Turns : call[t] = "done" /\ result[t].kind = "answer" =>
    /\ result[t].text = FinalMessage(sent[t])
    /\ result[t].tools = Of(sent[t], "tool")

\* A human is asked only for a turn that its caller still waits for: not for one that
\* ended, failed or lost its transport.  Turns whose acknowledgement could not be
\* recorded are excepted: the app-server goes on with them.
QuestionsOfLiveTurns ==
  \A t \in Turns : ask[t] = "open" => InFlight(t) \/ t \in unbound

\* An interrupt is sent only to a turn that was under way when Stop arrived, never to
\* its successor ("Interrupt only work present when Stop arrived").
StopHitsItsTurns ==
  [][stop.at = "waiting" /\ stop'.at = "sent" => stop'.to \in present]_vars

\* A tool acts only while its own turn is the one the gateway runs, and neither stopped
\* nor closed: a late call of an earlier turn does not act under the next one's source.
ToolsActForTheirTurn ==
  [][\A t \in Turns \ Shell : tool[t].at # "acted" /\ tool'[t].at = "acted" =>
        auth.turn = t /\ worker.turn = t /\ ~(t \in present /\ stop.count > 0)]_vars

\* Whoever waits for a response or for a turn stops waiting once the app-server's output
\* ended, could not be read, or the client was closed: nobody waits for a reader that is
\* done ("A dead reader must reject waiters, not leave thread/resume or a model turn
\* waiting forever").  Requests made after it stopped reading are excepted.
Unanswered == Pending \cup {t \in Turns : call[t] = "waiting" /\ result[t] = NoResult}
DeadReaderRejects == reader = "done" /\ closing # "waiting" => Unanswered \subseteq late

\* What turns and their callers are owed: the whole answer, questions only while somebody
\* waits for the turn, and no waiting for an app-server that is gone.
TurnsAreServed == AnswerIsWhole /\ QuestionsOfLiveTurns /\ DeadReaderRejects
=============================================================================
