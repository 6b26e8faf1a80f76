---------------------------- MODULE CallSession ----------------------------
(***************************************************************************)
(* One call session of rvoip-sip: its record in the session store and the  *)
(* tasks that drive it through the state table.  The worker takes the      *)
(* dialog layer's events one at a time, the application calls the API, a   *)
(* watchdog is spawned for each wait it is asked to bound, and a release   *)
(* task ends the session.  No lock is held while an event is processed, so *)
(* every read of the store and every write to it is a step of its own; on  *)
(* a runtime with one thread, a task that does not await is not interrupted *)
(* between the two that merge the record at the end.                       *)
(***************************************************************************)
EXTENDS CallTable, Naturals, FiniteSets

CONSTANTS
  Scripts,   \* for each scenario, the API calls the application may make, each
             \* once, and the number of re-INVITEs the peer may send
  Refused,   \* the requests and responses the transport may refuse
  Threads    \* the threads of the runtime

Sends == {"INVITE", "180", "183", "200", "487", "491", "refusal", "re-200",
          "BYE", "CANCEL", "builder-CANCEL", "re-INVITE", "builder-re-INVITE"}

\* The requests an application builds itself, and the other calls of the API.
Builders == {"SendOutboundInvite", "SendOutboundReInvite", "SendOutboundBye", "SendOutboundCancel"}
ApiCalls == Builders \cup {"AcceptCall", "RejectCall", "SendEarlyMedia",
                           "HangupCall", "HoldCall", "ResumeCall"}

ASSUME ScriptsAssumption ==
  /\ \A s \in Scripts : s.calls \subseteq ApiCalls /\ s.reinvites \in Nat
  /\ Refused \subseteq Sends /\ Threads \in Nat \ {0}

VARIABLES
  role,        \* SessionState.role
  present,     \* the store has the session
  rec,         \* its record: call_state, entered_state_at, pending_reinvite.is_some()
  task,        \* where each task stands in its call of process_event
  watch,       \* the entered_state_at each armed watchdog remembers
  release,     \* the release tasks, by the end they publish, if any
  told,        \* the call and its ends as published to the application
  wire,        \* what the session has sent
  calls,       \* the API calls not made yet
  heard,       \* what the peer has done
  reinvites,   \* the re-INVITEs the peer may still send
  inFlight     \* a re-INVITE of ours has no final response yet

storeVars == <<present, rec>>
peerVars == <<heard, reinvites, inFlight>>
vars == <<role, storeVars, task, watch, release, told, wire, calls, peerVars>>

None == "none"
Watches == {"outbound", "inbound", "accept", "hangup"}
Tasks == {"worker", "app"} \cup Watches
Terminal == {"Ended", "Failed", "Cancelled"}

\* Faulty variant: the wait for the ACK itself is forgotten.
WatchedButAnswering(w) ==
  CASE w = "outbound" -> {"Initiating"}
    [] w = "inbound"  -> {"Ringing", "AnsweringHangupPending"}
    [] w = "accept"   -> {"AnsweringHangupPending"}
    [] w = "hangup"   -> {"CancelPending", "Cancelling"}

\* The states each watchdog is armed for.
Watched(w) ==
  CASE w = "outbound" -> {"Initiating"}
    [] w = "inbound"  -> {"Ringing", "Answering", "AnsweringHangupPending"}
    [] w = "accept"   -> {"Answering", "AnsweringHangupPending"}
    [] w = "hangup"   -> {"CancelPending", "Cancelling"}

\* An instant of entered_state_at is named by the event that was processed:
\* no watched state is entered twice for one event.
Fresh == [state |-> "Idle", since |-> None, pending |-> FALSE]

\* A task: its place, its event, the state it saw before process_event where
\* it looks, its copy of the record, and the result: success and next_state.
Rest == [at |-> "rest", on |-> None, seen |-> None, copy |-> Fresh,
         ok |-> TRUE, to |-> None, acts |-> <<>>]

Places == {"rest", "stage", "load", "commit", "act", "save", "after"}

Events == {r.on : r \in Table}
Acts == UNION {{r.acts[i] : i \in DOMAIN r.acts} : r \in Table}
Record == [state : CallState, since : Events \cup {None}, pending : BOOLEAN]

Heard == {"INVITE", "180", "183", "200", "refusal", "ACK", "BYE", "CANCEL", "end"}

\* Types of the variables.
TypeOK ==
  /\ role \in Roles /\ present \in BOOLEAN /\ rec \in Record
  /\ \A t \in Tasks :
       /\ task[t].at \in Places /\ task[t].on \in Events \cup {None}
       /\ task[t].copy \in Record /\ task[t].ok \in BOOLEAN
       /\ task[t].seen \in CallState \cup {None}
       /\ task[t].to \in CallState \cup {None, Same}
       /\ \A i \in DOMAIN task[t].acts : task[t].acts[i] \in Acts
  /\ watch \in [Watches -> Events \cup {None}]
  /\ release \subseteq Terminal \cup {None}
  /\ told \subseteq Terminal \cup {"Incoming"} /\ wire \subseteq Acts /\ calls \subseteq ApiCalls
  /\ heard \subseteq Heard /\ reinvites \in Nat /\ inFlight \in BOOLEAN

Init ==
  /\ role \in Roles /\ present = TRUE /\ rec = Fresh
  /\ task = [t \in Tasks |-> Rest] /\ watch = [w \in Watches |-> None]
  /\ release = {} /\ told = {} /\ wire = {}
  /\ \E s \in Scripts : calls = s.calls /\ reinvites = s.reinvites
  /\ heard = {} /\ inFlight = FALSE

-----------------------------------------------------------------------------
(* process_one_event, step by step.                                        *)

\* The events after which the task does nothing more.
Quiet == {"Dialog180Ringing", "Dialog183SessionProgress", "Dialog200OK", "DialogACK",
          "ReinviteReceived", "RejectCall", "SendEarlyMedia", "HoldCall", "ResumeCall",
          "SendOutboundReInvite", "SendOutboundCancel"}

\* process_event returns, and the task's own code goes on.
Return(t, ok) ==
  task' = [task EXCEPT ![t] =
             IF @.on \in Quiet THEN Rest
             ELSE [@ EXCEPT !.at = "after", !.ok = ok, !.acts = <<>>, !.copy = Fresh]]

\* The row for the session's role, state and event whose guard holds.
Lookup(r, e) ==
  {x \in Table : /\ x.role = role /\ x.from = r.state /\ x.on = e
                 /\ x.guarded => r.pending}

\* The peer's re-INVITE meets one of ours sent by the builder.
Glare(r, e) == e = "ReinviteReceived" /\ r.state = "Active" /\ r.pending

\* get_session, the glare short-circuit, the lookup and the guards.  An event
\* without a row is recorded in the session's history, which saves the record.
Load(t) ==
  LET e == task[t].on IN
  /\ task[t].at = "load"
  /\ \/ /\ ~present /\ Return(t, FALSE) /\ UNCHANGED wire
     \/ present /\ Glare(rec, e) /\ wire' = wire \cup {"491"} /\ Return(t, TRUE)
     \/ /\ present /\ ~Glare(rec, e) /\ Lookup(rec, e) = {} /\ UNCHANGED wire
        /\ task' = [task EXCEPT ![t].at = "save", ![t].copy = rec]
     \/ /\ present /\ ~Glare(rec, e) /\ UNCHANGED wire
        /\ \E row \in Lookup(rec, e) :
             task' = [task EXCEPT ![t].at = IF row.to = Same THEN "act" ELSE "commit",
                                  ![t].copy = rec, ![t].to = row.to, ![t].acts = row.acts]
  /\ UNCHANGED <<role, storeVars, watch, release, told, calls, peerVars>>

\* update_session with the next state, before any action runs; it inserts the
\* session if it is gone.
Commit(t) ==
  LET r == [task[t].copy EXCEPT !.state = task[t].to, !.since = task[t].on] IN
  /\ task[t].at = "commit"
  /\ present' = TRUE /\ rec' = r
  /\ task' = [task EXCEPT ![t].at = "act", ![t].copy = r]
  /\ UNCHANGED <<role, watch, release, told, wire, calls, peerVars>>

Reinvites == {"re-INVITE", "builder-re-INVITE"}

\* What pending_reinvite is after an action.
PendingAfter(a, p) == IF a = "ClearPendingReinvite" THEN FALSE ELSE p \/ a \in Reinvites

\* execute_action for the next action.  A send needs the dialog mapping, which
\* INVITE makes, and the transport may refuse it: then the history is saved, and
\* with it the task's copy of the record, whatever the store has by now.
\* SendReINVITE writes the record with pending_reinvite before it sends.
Act(t) ==
  LET a == Head(task[t].acts)
      r == [task[t].copy EXCEPT !.pending = PendingAfter(a, @)] IN
  /\ task[t].at = "act" /\ task[t].acts # <<>>
  /\ \/ /\ wire' = wire \cup ({a} \cap Sends)
        /\ inFlight' = (inFlight \/ a \in Reinvites)
        /\ task' = [task EXCEPT ![t].acts = Tail(@), ![t].copy = r]
        /\ IF a = "re-INVITE" THEN present' = TRUE /\ rec' = r ELSE UNCHANGED <<present, rec>>
     \/ /\ a \in Refused /\ Return(t, FALSE) /\ UNCHANGED <<wire, inFlight>>
        /\ present' = TRUE /\ rec' = r
  /\ UNCHANGED <<role, watch, release, told, calls, heard, reinvites>>

\* Faulty variant: the task's copy is kept whatever the store has by now.
MergeNothing(t) ==
  /\ task[t].at = "act" /\ task[t].acts = <<>>
  /\ task' = [task EXCEPT ![t].at = "save"]
  /\ UNCHANGED <<role, storeVars, watch, release, told, wire, calls, peerVars>>

\* The actions done, the store is read again: a state another task has
\* committed since is kept, with the instant it was entered.
Merge(t) ==
  LET r == task[t].copy IN
  /\ task[t].at = "act" /\ task[t].acts = <<>>
  /\ task' = [task EXCEPT ![t].at = "save", ![t].copy =
       IF present /\ rec.state # r.state THEN [r EXCEPT !.state = rec.state, !.since = rec.since]
       ELSE r]
  /\ UNCHANGED <<role, storeVars, watch, release, told, wire, calls, peerVars>>

\* update_session with the copy; it too inserts a session that is gone.
Save(t) ==
  /\ task[t].at = "save" /\ Return(t, TRUE)
  /\ present' = TRUE /\ rec' = task[t].copy
  /\ UNCHANGED <<role, watch, release, told, wire, calls, peerVars>>

\* stage_outbound_options: a builder first writes its options into the session
\* it has read (AppCalls).
Stage(t) ==
  /\ task[t].at = "stage"
  /\ task' = [task EXCEPT ![t].at = "load", ![t].copy = Fresh]
  /\ present' = TRUE /\ rec' = task[t].copy
  /\ UNCHANGED <<role, watch, release, told, wire, calls, peerVars>>

\* The result of process_event: the session is read once more after a row, and
\* the call fails if it is gone.
Succeeded(t) == task[t].ok /\ (task[t].to # None => present)

Process(t) == Stage(t) \/ Load(t) \/ Commit(t) \/ Act(t) \/ Merge(t) \/ Save(t)

-----------------------------------------------------------------------------
(* The watchdogs and the release tasks.                                    *)

\* schedule_setup_teardown_timeout_if_current
Armed(w) ==
  IF present /\ rec.state \in Watched(w) THEN [watch EXCEPT ![w] = rec.since] ELSE watch

\* After its sleep a watchdog acts only if the state is a watched one and was
\* not entered again since.
WatchFires(w) ==
  /\ watch[w] # None /\ task[w].at = "rest" /\ watch' = [watch EXCEPT ![w] = None]
  /\ IF present /\ rec.state \in Watched(w) /\ rec.since = watch[w]
     THEN task' = [task EXCEPT ![w].at = "load", ![w].on = "DialogTimeout"]
     ELSE UNCHANGED task
  /\ UNCHANGED <<role, storeVars, release, told, wire, calls, peerVars>>

Spawn(event) == release' = release \cup {event}

\* It releases the session if the timeout left it in a final state.
WatchEnds(w) ==
  /\ task[w].at = "after" /\ task' = [task EXCEPT ![w] = Rest]
  /\ IF Succeeded(w) /\ present /\ rec.state \in Final
     THEN Spawn(IF w = "hangup" THEN "Cancelled" ELSE "Failed")
     ELSE UNCHANGED release
  /\ UNCHANGED <<role, storeVars, watch, told, wire, calls, peerVars>>

\* remove_session
Remove == present' = FALSE /\ rec' = Fresh

\* publish_and_release_session, finalize_local_bye and
\* release_after_observed_terminal: the end is published, if it was not yet, and
\* the session leaves the store.
ReleaseStep ==
  \E e \in release :
    /\ release' = release \ {e} /\ told' = told \cup ({e} \cap Terminal)
    /\ Remove
    /\ UNCHANGED <<role, task, watch, wire, calls, peerVars>>

-----------------------------------------------------------------------------
(* The worker: SessionCrossCrateEventHandler.                              *)

\* A handler ignores an event for a session the store does not have.  The dialog
\* layer reports nothing of a dialog it has ended.
Handle(e) ==
  /\ task["worker"].at = "rest" /\ heard \cap {"BYE", "CANCEL", "end", "refusal"} = {}
  /\ task' = IF present \/ e = "IncomingCall"
             THEN [task EXCEPT !["worker"] = [Rest EXCEPT !.at = "load", !.on = e,
                             !.seen = IF e \in Failures THEN rec.state ELSE None]]
             ELSE task
  /\ UNCHANGED <<role, storeVars, watch, release, told, wire, calls>>

Hears(m) == m \notin heard /\ heard' = heard \cup {m}
Unanswered == role = "UAC" /\ "INVITE" \in wire /\ heard \cap {"200", "refusal"} = {}
Up == IF role = "UAC" THEN "200" \in heard ELSE "ACK" \in heard

IncomingCall ==
  /\ role = "UAS" /\ Hears("INVITE") /\ Handle("IncomingCall")
  /\ UNCHANGED <<reinvites, inFlight>>

CallProgress ==
  /\ Unanswered /\ heard \cap {"180", "183"} = {} /\ UNCHANGED <<reinvites, inFlight>>
  /\ \/ Hears("180") /\ Handle("Dialog180Ringing")
     \/ Hears("183") /\ Handle("Dialog183SessionProgress")

CallEstablished ==
  /\ Handle("Dialog200OK") /\ UNCHANGED reinvites
  /\ \/ Unanswered /\ Hears("200") /\ UNCHANGED inFlight
     \/ inFlight /\ inFlight' = FALSE /\ UNCHANGED heard

CallFailed ==
  /\ Handle("Dialog4xxFailure") /\ UNCHANGED reinvites
  /\ \/ Unanswered /\ Hears("refusal") /\ UNCHANGED inFlight
     \/ inFlight /\ inFlight' = FALSE /\ UNCHANGED heard

\* The 487 to our INVITE, or a CANCEL of the peer's own.
CallCancelled ==
  /\ Handle("Dialog487RequestTerminated") /\ UNCHANGED <<reinvites, inFlight>>
  /\ \/ Unanswered /\ {"CANCEL", "builder-CANCEL"} \cap wire # {} /\ Hears("refusal")
     \/ role = "UAS" /\ "INVITE" \in heard /\ "ACK" \notin heard /\ Hears("CANCEL")

CallTerminated ==
  /\ "BYE" \in wire /\ Hears("end") /\ Handle("DialogTerminated")
  /\ UNCHANGED <<reinvites, inFlight>>

ByeReceived ==
  /\ "200" \in wire \cup heard /\ Hears("BYE") /\ Handle("DialogBYE")
  /\ UNCHANGED <<reinvites, inFlight>>

AckReceived ==
  /\ "200" \in wire /\ Hears("ACK") /\ Handle("DialogACK")
  /\ UNCHANGED <<reinvites, inFlight>>

ReinviteReceived ==
  /\ Up /\ reinvites > 0 /\ reinvites' = reinvites - 1 /\ UNCHANGED <<heard, inFlight>>
  /\ Handle("ReinviteReceived")

Deliver == \/ IncomingCall \/ CallProgress \/ CallEstablished \/ CallFailed \/ CallCancelled
           \/ CallTerminated \/ ByeReceived \/ AckReceived \/ ReinviteReceived

\* The failure of a re-INVITE leaves the call up; the state was read before.
MidCall(w) == w.seen \in {"HoldPending", "Resuming"}

\* DialogTerminated ended the cancellation of a call.
CancelEnded(w) ==
  IF Succeeded("worker") THEN w.to = "Cancelled"
          ELSE present /\ rec.state \in {"Cancelling", "Cancelled"}

\* Faulty variant: a failure without a row is taken for a re-INVITE's.
AfterFailureWithRow(w) ==
  /\ w.on = "Dialog4xxFailure" /\ UNCHANGED <<storeVars, watch, told>>
  /\ IF w.to = None THEN UNCHANGED release
     ELSE Spawn(IF w.to = "Cancelled" THEN "Cancelled" ELSE "Failed")

\* What each handler does once process_event has returned.
AfterFailure(w) ==
  /\ w.on = "Dialog4xxFailure" /\ UNCHANGED <<storeVars, watch, told>>
  /\ IF MidCall(w) THEN UNCHANGED release
     ELSE Spawn(IF Succeeded("worker") /\ w.to = "Cancelled" THEN "Cancelled" ELSE "Failed")

AfterEnd(w) ==
  /\ UNCHANGED <<storeVars, watch, told>>
  /\ \/ w.on = "Dialog487RequestTerminated" /\ Spawn("Cancelled")
     \/ w.on = "DialogBYE" /\ Spawn("Ended")
     \/ /\ w.on = "DialogTerminated"
        /\ Spawn(IF CancelEnded(w) THEN "Cancelled" ELSE "Ended")

AfterIncoming(w) ==
  /\ w.on = "IncomingCall" /\ UNCHANGED release
  /\ IF Succeeded("worker")
     THEN watch' = Armed("inbound") /\ told' = told \cup {"Incoming"}
          /\ UNCHANGED storeVars
     ELSE Remove /\ UNCHANGED <<watch, told>>

WorkerEnds ==
  LET w == task["worker"] IN
  /\ w.at = "after" /\ task' = [task EXCEPT !["worker"] = Rest]
  /\ AfterFailure(w) \/ AfterEnd(w) \/ AfterIncoming(w)
  /\ UNCHANGED <<role, wire, calls, peerVars>>

-----------------------------------------------------------------------------
(* The application: UnifiedCoordinator and the request builders.           *)

\* The application knows the call: it made it, or was told of it.
Known == IF role = "UAC" THEN "SendOutboundInvite" \notin calls ELSE "Incoming" \in told

AppCalls(c) ==
  /\ task["app"].at = "rest" /\ c \in calls /\ calls' = calls \ {c}
  /\ IF c = "SendOutboundInvite" THEN role = "UAC" ELSE Known
  /\ c \in {"AcceptCall", "RejectCall", "SendEarlyMedia"} => role = "UAS"
  /\ task' = IF c \in Builders \cup {"HangupCall"} /\ ~present THEN task
             ELSE [task EXCEPT !["app"] =
                     [Rest EXCEPT !.at = IF c \in Builders THEN "stage" ELSE "load", !.on = c,
                                  !.copy = IF c \in Builders THEN rec ELSE Fresh,
                                  !.seen = IF c = "HangupCall" THEN rec.state ELSE None]]
  /\ UNCHANGED <<role, storeVars, watch, release, told, wire, peerVars>>

\* hangup: an end already published, or the watchdog and the local BYE.
AfterHangup(a) ==
  /\ a.on = "HangupCall"
  /\ IF ~Succeeded("app") THEN UNCHANGED <<watch, release>>
     ELSE IF told \cap Terminal # {} THEN Spawn(None) /\ UNCHANGED watch
     ELSE /\ watch' = Armed("hangup")
          /\ IF a.seen = "Active" /\ present THEN Spawn("Ended")
             ELSE UNCHANGED release

AppEnds ==
  LET a == task["app"] IN
  /\ a.at = "after" /\ task' = [task EXCEPT !["app"] = Rest]
  /\ \/ AfterHangup(a)
     \/ /\ a.on = "SendOutboundInvite" /\ UNCHANGED release
        /\ IF Succeeded("app") THEN watch' = Armed("outbound") ELSE UNCHANGED watch
     \/ /\ a.on = "SendOutboundBye" /\ UNCHANGED watch   \* finalize_local_bye
        /\ IF Succeeded("app") /\ present THEN Spawn("Ended") ELSE UNCHANGED release
     \/ a.on = "AcceptCall" /\ watch' = Armed("accept") /\ UNCHANGED release
  /\ UNCHANGED <<role, storeVars, told, wire, calls, peerVars>>

-----------------------------------------------------------------------------
\* No other task than those in T is inside a stretch without an await.
Free(T) == Threads > 1 \/ \A t \in Tasks \ T : task[t].at \notin {"stage", "save"}

TaskStep(t) ==
  /\ Free({t})
  /\ \/ Process(t)
     \/ t \in Watches /\ (WatchFires(t) \/ WatchEnds(t))
     \/ t = "worker" /\ WorkerEnds
     \/ t = "app" /\ AppEnds

Releases == Free({}) /\ ReleaseStep

Next ==
  \/ \E t \in Tasks : TaskStep(t)
  \/ Releases
  \/ Free({}) /\ (Deliver \/ \E c \in ApiCalls : AppCalls(c))

Spec == Init /\ [][Next]_vars

\* Every task of the runtime runs on, and every sleep ends; the peer and the
\* application owe nothing.
FairSpec ==
  /\ Spec
  /\ \A t \in Tasks : WF_vars(TaskStep(t))
  /\ WF_vars(Releases)

-----------------------------------------------------------------------------
(* Properties.                                                             *)

\* The called side never sends BYE before it has the caller's ACK, whatever
\* the order of hangups, ACKs and timeouts (AnsweringHangupPending).
ByeAfterAck == role = "UAS" /\ "BYE" \in wire => "ACK" \in heard

\* The CANCEL of a hangup goes out only once the peer has sent a provisional
\* response, also when the hangup came before it (CancelPending).
CancelAfterProvisional == "CANCEL" \in wire => heard \cap {"180", "183"} # {}

\* So does the CANCEL an application builds itself, says the wiring manifest:
\* "Only legal after an INVITE provisional response."  (It does not.)
BuilderCancelAfterProvisional == "builder-CANCEL" \in wire => heard \cap {"180", "183"} # {}

\* A call the application knows of and the peer ends or refuses is reported
\* to it as ended.
EndReported ==
  Known /\ heard \cap {"BYE", "CANCEL", "refusal"} # {} ~> told \cap Terminal # {}

\* An accepted call never waits for its ACK for ever.
AnsweringBounded == rec.state = "Answering" /\ present ~> ~(rec.state = "Answering" /\ present)

\* Nothing is being processed.
Resting == release = {} /\ \A t \in Tasks : task[t] = Rest

\* In a call that goes on, once the answer to our re-INVITE has been
\* processed, the hold or the resume is no longer pending, although the
\* sender saves its own copy of the session after the answer's (the merge
\* before the save in process_one_event).
HoldSettles ==
  Resting /\ present /\ told \cap Terminal = {} /\ ~inFlight
    => rec.state \notin {"HoldPending", "Resuming"}
=============================================================================
