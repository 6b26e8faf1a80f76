---------------------------- MODULE ClientInvite ----------------------------
(***************************************************************************)
(* The INVITE client transaction (client/invite.rs): the TransactionLogic  *)
(* of ClientInviteLogic as tables over the generic runner, and the calls   *)
(* the transaction manager makes on it.                                    *)
(***************************************************************************)
EXTENDS ClientTransaction

Kind == "InviteClient"
TimerNames == {"A", "B", "D"}
Outputs == Event \cup {"INVITE", "ACK"}

-----------------------------------------------------------------------------
(* ClientInviteLogic.                                                      *)

\* Faulty variant: Timer B is forgotten.
OnEnterWithoutB(s) ==
  CASE s = "Calling"    -> {Entry(Arming({"A"}), {"INVITE"})}
    [] s = "Completed"  -> {Entry(Arming({"D"}), {})}
    [] s = "Terminated" -> {Entry(Unregistering, {})}
    [] OTHER            -> {Entry(Rest, {})}

\* handle_calling_state: the INVITE goes out; if it cannot be sent the handler
\* reports it, asks for Terminated and returns an error.
EnterCalling == {Entry(Arming({"A", "B"}), {"INVITE"}),
                 Entry(SendingFailed("Terminated"), {"TransportError"})}

\* on_enter_state.
OnEnter(s) ==
  CASE s = "Calling"    -> EnterCalling
    [] s = "Completed"  -> {Entry(Arming({"D"}), {})}
    [] s = "Terminated" -> {Entry(Unregistering, {})}
    [] OTHER            -> {Entry(Rest, {})}

\* Faulty variant: Timer A retransmits in every state.
HandleTimerAUnguarded == {Effect(None, {"A"}, {}, {"INVITE", "TimerTriggered"})}

\* handle_timer_a_trigger: retransmit and restart in Calling only.
HandleTimerA ==
  IF state = "Calling"
  THEN {Effect(None, {"A"}, {}, {"INVITE", "TimerTriggered"}),
        Effect("Terminated", {}, {}, {"TransportError", "TimerTriggered"})}
  ELSE OnlyTriggered

\* Faulty variant: the timeout is not reported.
HandleTimerBUnreported ==
  {Effect(IF state = "Calling" THEN "Terminated" ELSE None, {}, {}, {"TimerTriggered"})}

\* handle_timer_b_trigger.
HandleTimerB ==
  IF state = "Calling"
  THEN {Effect("Terminated", {}, {}, {"TransactionTimeout", "TimerTriggered"})}
  ELSE OnlyTriggered

\* handle_timer; Timer D only reports, its task sends the transition.
HandleTimer(t) ==
  CASE t = "A" -> HandleTimerA
    [] t = "B" -> HandleTimerB
    [] OTHER   -> OnlyTriggered

\* process_response while no final response has been acted on; `stop` is
\* Timer A in Calling and nothing in Proceeding.
Answered(m, stop) ==
  CASE m = "1xx"     -> {Effect(IF state = "Calling" THEN "Proceeding" ELSE None,
                                {}, stop, {"ProvisionalResponse"})}
    [] m = "2xx"     -> {Effect("Terminated", {}, stop, {"SuccessResponse"})}
    [] m = "failure" -> {Effect("Completed", {}, stop, {"ACK", "FailureResponse"}),
                         Effect("Terminated", {}, stop, {"TransportError"})}
    [] OTHER         -> {Effect("Terminated", {}, stop, {})}

\* process_response: in Completed a repeated failure is acknowledged again.
ProcessResponse(m) ==
  CASE state = "Calling"    -> Answered(m, {"A"})
    [] state = "Proceeding" -> Answered(m, {})
    [] state = "Completed" /\ m = "failure" ->
         {Effect(None, {}, {}, {"ACK"}), Effect(None, {}, {}, {"TransportError"})}
    [] OTHER                -> Nothing

-----------------------------------------------------------------------------
(* The specification.                                                      *)

Init == Init0(TimerNames)

Loop == /\ \/ LoopStep(Kind)
           \/ \E s \in State : EnterState(Kind, s, OnEnter(s))
           \/ \E t \in TimerNames : RunTimer(t, HandleTimer(t))
           \/ \E m \in Responses : RunMessage(m, ProcessResponse(m))
        /\ UNCHANGED initiated
Next == Loop \/ Tasks \/ Manager \/ User \/ Initiate("Calling")

Spec == Init /\ [][Next]_vars

FairSpec == Spec /\ WF_vars(Loop) /\ TaskFairness(TimerNames)

TypeOK == RunnerType(TimerNames, Responses, Outputs) /\ initiated \in BOOLEAN

-----------------------------------------------------------------------------
(* Properties.                                                             *)

\* Stale timer and response commands read after the transaction has moved on
\* put nothing on the wire: no INVITE once Calling is left, no ACK once
\* Terminated is entered.
WireDiscipline ==
  [][/\ "INVITE" \in out' => state \in {"Initial", "Calling"}
     /\ "ACK" \in out' => state # "Terminated"]_vars

\* The transaction's end is on its way: it is in its last two states, or will
\* ask for one, or has a command queued, a Timer D or a grace period that
\* leads there.
EndCommand == {TransitionTo("Completed"), TransitionTo("Terminated"), Terminate}
Ending ==
  \/ state \in {"Completed", "Terminated"} \/ runner.to \in {"Completed", "Terminated"}
  \/ \E i \in 1..Len(queue) : queue[i] \in EndCommand
  \/ grace # "none" \/ tasks["D"] # "idle" \/ "D" \in runner.arm

\* No handler sets the end in motion before it has told the TU why; the
\* inductive form of OutcomeReported.
EndingSettled == tu /\ held /\ Ending => told \cap Outcome # {}

\* Something will end Calling and Completed: Timer B or D is running or its
\* command is queued, or a state change is on its way.
NeverStranded ==
  /\ state = "Calling" /\ runner \in {Recv, Arming({"A"})} =>
       \/ tasks["B"] \in {"asleep", "blocked"} \/ Queued(Timer("B"))
       \/ \E s \in State \ {"Initial", "Calling"} : Queued(TransitionTo(s))
  /\ state = "Completed" /\ runner = Recv =>
       tasks["D"] \in {"asleep", "second"} \/ Queued(TransitionTo("Terminated"))

\* Timer B bounds the wait for a first answer.
CallingEnds == state = "Calling" ~> state # "Calling"
=============================================================================
