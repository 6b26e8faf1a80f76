---------------------------- MODULE ServerInvite ----------------------------
(***************************************************************************)
(* The INVITE server transaction (server/invite.rs): the TransactionLogic  *)
(* of ServerInviteLogic as tables over the generic runner, its             *)
(* send_response, and the detached task behind Timer 100.                  *)
(***************************************************************************)
EXTENDS ServerTransaction

CONSTANTS
  Requests,   \* what the peer may send: "INVITE" again, "ACK", "CANCEL"
  MaxEvents   \* bound: requests and calls by the retransmitter, together

ASSUME MaxEventsAssumption == MaxEvents \in Nat
ASSUME RequestsAssumption == Requests \subseteq {"INVITE", "ACK", "CANCEL"}

VARIABLE trying     \* the task behind Timer 100

vars == <<runnerVars, serverVars, trying>>

Kind == "InviteServer"
TimerNames == {"G", "H", "I"}
Outputs == Event \cup Response

-----------------------------------------------------------------------------
(* ServerInviteLogic.                                                      *)

\* on_enter_state; entering Terminated leaves the timer manager alone.
OnEnter(s) ==
  CASE s = "Completed"  -> {Entry(Arming({"G", "H"}), {})}
    [] s = "Confirmed"  -> {Entry(Arming({"I"}), {})}
    [] s = "Terminated" -> {Entry(Recv, {})}
    [] OTHER            -> {Entry(Rest, {})}

Cached == IF last = None THEN {} ELSE {last}

\* Faulty variant: Timer G retransmits in every state.
HandleTimerGUnguarded == {Effect(None, {"G"}, {}, Cached \cup {"TimerTriggered"})}

\* handle_timer_g_trigger: retransmit whatever last_response holds.
HandleTimerG ==
  IF state = "Completed"
  THEN {Effect(None, {"G"}, {}, Cached \cup {"TimerTriggered"})}
       \cup (IF last = None THEN {}
             ELSE {Effect("Terminated", {}, {}, {"TransportError", "TimerTriggered"})})
  ELSE OnlyTriggered

\* Faulty variants: the missing ACK is not reported; it is not acted on.
HandleTimerHUnreported ==
  {Effect(IF state = "Completed" THEN "Terminated" ELSE None, {}, {}, {"TimerTriggered"})}
HandleTimerHIgnored == OnlyTriggered

\* handle_timer_h_trigger.
HandleTimerH ==
  IF state = "Completed"
  THEN {Effect("Terminated", {}, {}, {"TransactionTimeout", "TimerTriggered"})}
  ELSE OnlyTriggered

\* handle_timer; Timer I only reports, its task sends the transition.
HandleTimer(t) ==
  CASE t = "G" -> HandleTimerG
    [] t = "H" -> HandleTimerH
    [] OTHER   -> OnlyTriggered

\* process_invite_retransmission; a failure to resend is only logged.
ProcessInvite ==
  CASE state = "Proceeding" -> {Effect(None, {}, {}, Cached), Effect(None, {}, {}, {})}
    [] state = "Terminated" -> {Effect(None, {}, {}, Cached \cap {"2xx"}),
                                Effect(None, {}, {}, {})}
    [] OTHER                -> Nothing

\* process_ack.
ProcessAck ==
  {IF state = "Completed" THEN Effect("Confirmed", {}, {}, {"AckReceived"})
   ELSE Effect(None, {}, {}, {})}

\* process_cancel.
ProcessCancel ==
  {Effect(None, {}, {}, IF state = "Proceeding" THEN {"CancelReceived"} ELSE {})}

\* process_message.
ProcessMessageOf(m) ==
  CASE m = "INVITE" -> ProcessInvite
    [] m = "ACK"    -> ProcessAck
    [] OTHER        -> ProcessCancel

-----------------------------------------------------------------------------
(* send_response.                                                          *)

\* After the response is stored.
AfterStore(saw) == IF saw = "Proceeding" THEN "cancel" ELSE "wire"

\* The state a sent response leads to: a 2xx always terminates.
Target(r, saw) ==
  CASE r = "2xx" -> "Terminated"
    [] r = "failure" /\ saw = "Proceeding" -> "Completed"
    [] OTHER -> None

-----------------------------------------------------------------------------
(* Timer 100: a task of its own.  Its handle is dropped with the temporary *)
(* handles it was started with, so nothing can abort it.                   *)

tryingFrame == <<state, lifecycle, queue, runner, tasks, registered, grace, tu,
                 held, dispatch, arrivals, calls, answers, responses, reliable, repeats>>

TryingChecks ==
  /\ trying = "asleep"
  /\ trying' = IF state = "Proceeding" /\ last = None THEN "checked" ELSE "done"
  /\ Silent /\ UNCHANGED last /\ UNCHANGED tryingFrame

TryingSends ==
  /\ trying = "checked"
  /\ \/ Emit({"100"}) /\ trying' = "sent"
     \/ Emit({"TransportError"}) /\ trying' = "done"
  /\ UNCHANGED last /\ UNCHANGED tryingFrame

\* Faulty variant: the 100 replaces whatever the TU stored meanwhile.
TryingOverwrites ==
  /\ trying = "sent" /\ trying' = "done"
  /\ last' = "100"
  /\ Silent /\ UNCHANGED tryingFrame

TryingStores ==
  /\ trying = "sent" /\ trying' = "done"
  /\ last' = IF last = None THEN "100" ELSE last
  /\ Silent /\ UNCHANGED tryingFrame

-----------------------------------------------------------------------------
(* The specification.                                                      *)

\* A zero timer_100_interval disables Timer 100.
Init == ServerInit("Proceeding", TimerNames) /\ trying \in {"asleep", "done"}

\* handle_request and handle_ack_request; a Confirmed transaction gets no ACK.
Request == /\ arrivals + repeats < MaxEvents
           /\ \E m \in Requests : (m = "ACK" => state # "Confirmed") /\ Accept(m)

Loop == /\ \/ LoopStep(Kind) \/ RunCancelTimer100
           \/ \E s \in State : EnterState(Kind, s, OnEnter(s))
           \/ \E t \in TimerNames : RunTimer(t, HandleTimer(t))
           \/ \E m \in Requests : RunMessage(m, ProcessMessageOf(m))
        /\ UNCHANGED serverVars /\ UNCHANGED trying
Tasks == /\ TimerStep \/ GraceExpires \/ DrainExpires
         /\ UNCHANGED serverVars /\ UNCHANGED trying
Timer100 == TryingChecks \/ TryingSends \/ TryingStores
Manager == /\ Request \/ Deliver \/ DeliverClosed({}) \/ StopRequested \/ TuCloses
           /\ UNCHANGED serverVars /\ UNCHANGED trying
SendStep(c) == CallStep(c, AfterStore(calls[c].saw),
                        Target(calls[c].response, calls[c].saw))
Responding == /\ \/ \E c \in TuTasks : TuBegins(c)
                 \/ (RetransmitterBegins /\ arrivals + repeats < MaxEvents) \/ RetransmitterStops
                 \/ \E c \in Caller : SendStep(c)
              /\ UNCHANGED trying

Next == Loop \/ Tasks \/ Timer100 \/ Manager \/ Responding

Spec == Init /\ [][Next]_vars

FairSpec ==
  /\ Spec
  /\ WF_vars(Loop) /\ WF_vars(Timer100)
  /\ \A t \in TimerNames :
       WF_vars((FireManaged(t) \/ Unblock(t) \/ FireTransition(t) \/ SendTransition(t))
               /\ UNCHANGED serverVars /\ UNCHANGED trying)
  /\ WF_vars((GraceExpires \/ DrainExpires) /\ UNCHANGED serverVars /\ UNCHANGED trying)
  /\ WF_vars((Deliver \/ DeliverClosed({})) /\ UNCHANGED serverVars
             /\ UNCHANGED trying)
  /\ \A c \in Caller : WF_vars(SendStep(c) /\ UNCHANGED trying)

TypeOK == /\ RunnerType(TimerNames, Requests, Outputs) /\ ServerType
          /\ trying \in {"asleep", "checked", "sent", "done"}

-----------------------------------------------------------------------------
(* Properties.                                                             *)

\* A transaction only moves forward, though responses sent by two callers and
\* requests of the peer ask for state changes in any order.
StatesAdvance == [][Rank(state') >= Rank(state)]_vars

\* What Timer G retransmits was given to send_response, by whichever caller
\* stored last: the 100 of Timer 100, whose task looks at last_response, sends
\* and stores between the awaits of the callers, never takes its place.  (That
\* it is the refusal itself does not hold: a task that answers at the same
\* time, or a repeated provisional response, replaces it in last_response.)
RetransmitsAnswer == state = "Completed" => last \notin {None, "100"}

\* Once the ACK is in, the transaction retransmits nothing: Timer G commands
\* and repeated INVITEs that are still queued put no final response on the
\* wire.  Only a call of send_response that is under way then still does.
QuietAfterAck ==
  [][state = "Confirmed" /\ calls' = calls => out' \cap Final = {}]_vars

\* A refused call does not vanish, however the calls of two tasks of the TU are
\* interleaved: when it ends by itself, and no 2xx ended it, the TU has been
\* told of the ACK, of its absence, or of a transport error.
RefusalSettled ==
  state = "Terminated" /\ tu /\ held /\ answers = {"failure"} =>
    told \cap {"AckReceived", "TransactionTimeout", "TransportError"} # {}

\* Something will end Completed and Confirmed: Timer H or I is running, its
\* command is queued, or a state change is on its way.
NeverStranded ==
  /\ state = "Completed" /\ runner \in {Recv, Arming({"G"})} =>
       \/ tasks["H"] \in {"asleep", "blocked"} \/ Queued(Timer("H"))
       \/ \E s \in {"Confirmed", "Terminated"} : Queued(TransitionTo(s))
  /\ state = "Confirmed" /\ runner = Recv =>
       tasks["I"] \in {"asleep", "second"} \/ Queued(TransitionTo("Terminated"))

\* Timers H and I bound the wait for the ACK, up to the end of the runner.
CompletedEnds == state = "Completed" ~> Closed

\* A successful 2xx ends the transaction, and its runner reports it.
SuccessEnds == "2xx" \in answers ~> (Closed /\ (tu => "TransactionTerminated" \in told))
=============================================================================
