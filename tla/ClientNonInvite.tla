-------------------------- MODULE ClientNonInvite --------------------------
(***************************************************************************)
(* The non-INVITE client transaction (client/non_invite.rs): the           *)
(* TransactionLogic of ClientNonInviteLogic as tables over the generic     *)
(* runner.  Its responses are handled by common_logic.rs.                  *)
(***************************************************************************)
EXTENDS ClientTransaction

Kind == "NonInviteClient"
TimerNames == {"E", "F", "K"}
Outputs == Event \cup {"REQUEST"}

-----------------------------------------------------------------------------
(* ClientNonInviteLogic.                                                   *)

\* handle_trying_state: the request goes out; if it cannot be sent the handler
\* reports it, asks for Terminated and returns an error.
EnterTrying == {Entry(Arming({"E", "F"}), {"REQUEST"}),
                Entry(SendingFailed("Terminated"), {"TransportError"})}

\* on_enter_state.  Proceeding starts nothing: its comment says Timers E and F
\* continue, but the runner has aborted them.
OnEnter(s) ==
  CASE s = "Trying"     -> EnterTrying
    [] s = "Completed"  -> {Entry(Arming({"K"}), {})}
    [] s = "Terminated" -> {Entry(Unregistering, {})}
    [] OTHER            -> {Entry(Rest, {})}

Unanswered == state \in {"Trying", "Proceeding"}

\* handle_timer_e_trigger: retransmit and restart.
HandleTimerE ==
  IF Unanswered
  THEN {Effect(None, {"E"}, {}, {"REQUEST", "TimerTriggered"}),
        Effect("Terminated", {}, {}, {"TransportError", "TimerTriggered"})}
  ELSE OnlyTriggered

\* Faulty variants: the timeout is not reported; it is not acted on.
HandleTimerFUnreported ==
  {Effect(IF Unanswered THEN "Terminated" ELSE None, {}, {}, {"TimerTriggered"})}
HandleTimerFIgnored == OnlyTriggered

\* handle_timer_f_trigger.
HandleTimerF ==
  IF Unanswered
  THEN {Effect("Terminated", {}, {}, {"TransactionTimeout", "TimerTriggered"})}
  ELSE OnlyTriggered

\* handle_timer; Timer K only reports, its task sends the transition.
HandleTimer(t) ==
  CASE t = "E" -> HandleTimerE
    [] t = "F" -> HandleTimerF
    [] OTHER   -> OnlyTriggered

\* process_response and handle_response_by_status: a final response aborts
\* Timer E; outside Trying and Proceeding a response is ignored.
ProcessResponse(m) ==
  CASE ~Unanswered -> Nothing
    [] Unanswered /\ m = "1xx" ->
         {Effect(IF state = "Trying" THEN "Proceeding" ELSE None, {}, {},
                 {"ProvisionalResponse"})}
    [] Unanswered /\ m = "2xx" -> {Effect("Completed", {}, {"E"}, {"SuccessResponse"})}
    [] OTHER -> {Effect("Completed", {}, {"E"}, {"FailureResponse"})}

-----------------------------------------------------------------------------
(* The specification.                                                      *)

Init == Init0(TimerNames)

Loop == /\ \/ LoopStep(Kind)
           \/ \E s \in State : EnterState(Kind, s, OnEnter(s))
           \/ \E t \in TimerNames : RunTimer(t, HandleTimer(t))
           \/ \E m \in Responses : RunMessage(m, ProcessResponse(m))
        /\ UNCHANGED initiated

Next == Loop \/ Tasks \/ Manager \/ User \/ Initiate("Trying")

Spec == Init /\ [][Next]_vars

FairSpec == Spec /\ WF_vars(Loop) /\ TaskFairness(TimerNames)

TypeOK == RunnerType(TimerNames, Responses, Outputs) /\ initiated \in BOOLEAN

-----------------------------------------------------------------------------
(* Properties.                                                             *)

\* A Timer E command that was queued before the final response was acted on
\* retransmits nothing once Completed is entered (handle_timer_e_trigger).
WireDiscipline ==
  [][ "REQUEST" \in out' => state \in {"Initial", "Trying", "Proceeding"}]_vars

\* Something will end Trying and Completed: Timer F or K is running or its
\* command is queued, or a state change is on its way.
NeverStranded ==
  /\ state = "Trying" /\ runner \in {Recv, Arming({"E"})} =>
       \/ tasks["F"] \in {"asleep", "blocked"} \/ Queued(Timer("F"))
       \/ \E s \in State \ {"Initial", "Trying"} : Queued(TransitionTo(s))
  /\ state = "Completed" /\ runner = Recv =>
       tasks["K"] \in {"asleep", "second"} \/ Queued(TransitionTo("Terminated"))

\* Timer F bounds the wait in Trying.
TryingEnds == state = "Trying" ~> state # "Trying"
=============================================================================
