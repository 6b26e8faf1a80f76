-------------------------- MODULE ServerNonInvite --------------------------
(***************************************************************************)
(* The non-INVITE server transaction (server/non_invite.rs): the           *)
(* TransactionLogic of ServerNonInviteLogic as tables over the generic     *)
(* runner, and its send_response.                                          *)
(***************************************************************************)
EXTENDS ServerTransaction

vars == <<runnerVars, serverVars>>

Kind == "NonInviteServer"
TimerNames == {"J"}
Requests == {"REQUEST"}
Outputs == Event \cup Response

-----------------------------------------------------------------------------
(* ServerNonInviteLogic.                                                   *)

\* on_enter_state.
OnEnter(s) ==
  CASE s = "Completed"  -> {Entry(Arming({"J"}), {})}
    [] s = "Terminated" -> {Entry(Unregistering, {})}
    [] OTHER            -> {Entry(Rest, {})}

\* handle_timer; Timer J only reports, its task sends the transition.
HandleTimer(t) == OnlyTriggered

\* Faulty variant: the response is repeated whatever the state.
ProcessRequestUnguarded(m) ==
  {Effect(None, {}, {}, IF last = None THEN {} ELSE {last})}

\* process_request_retransmission: only Completed repeats the response, and a
\* failure to do so is only logged.
ProcessRequest(m) ==
  IF state = "Completed" /\ last # None
  THEN {Effect(None, {}, {}, {last}), Effect(None, {}, {}, {})}
  ELSE Nothing

-----------------------------------------------------------------------------
(* send_response.                                                          *)

AfterStore(saw) == "wire"

\* Faulty variant: a final response is only acted on in Trying.
TargetFromTrying(r, saw) ==
  IF saw = "Trying" THEN (IF r \in Final THEN "Completed" ELSE "Proceeding") ELSE None

\* The state a sent response leads to.
Target(r, saw) ==
  CASE r \in Final /\ saw \in {"Trying", "Proceeding"} -> "Completed"
    [] r \in Provisional /\ saw = "Trying"             -> "Proceeding"
    [] OTHER                                           -> None

-----------------------------------------------------------------------------
(* The specification.                                                      *)

Init == ServerInit("Trying", TimerNames)

Loop == /\ \/ LoopStep(Kind)
           \/ \E s \in State : EnterState(Kind, s, OnEnter(s))
           \/ \E t \in TimerNames : RunTimer(t, HandleTimer(t))
           \/ \E m \in Requests : RunMessage(m, ProcessRequest(m))
        /\ UNCHANGED serverVars
Tasks == (TimerStep \/ GraceExpires \/ DrainExpires) /\ UNCHANGED serverVars
Manager == /\ \/ \E m \in Requests : Accept(m)
              \/ Deliver \/ DeliverClosed({}) \/ StopRequested \/ TuCloses
           /\ UNCHANGED serverVars
SendStep(c) == CallStep(c, AfterStore(calls[c].saw),
                        Target(calls[c].response, calls[c].saw))
\* The handler that was given the request answers it: one call of
\* send_response after the other, up to its final response.
Answer(c) ==
  /\ answers = {} /\ \A d \in Caller : calls[d] = Idle
  /\ TuBegins(c)

Responding == \E c \in TuTasks : Answer(c) \/ SendStep(c)

Next == Loop \/ Tasks \/ Manager \/ Responding

Spec == Init /\ [][Next]_vars

FairSpec ==
  /\ Spec
  /\ WF_vars(Loop)
  /\ WF_vars(TimerStep /\ UNCHANGED serverVars)
  /\ WF_vars((GraceExpires \/ DrainExpires) /\ UNCHANGED serverVars)
  /\ WF_vars((Deliver \/ DeliverClosed({})) /\ UNCHANGED serverVars)
  /\ \A c \in TuTasks : WF_vars(SendStep(c))

TypeOK == RunnerType(TimerNames, Requests, Outputs) /\ ServerType

-----------------------------------------------------------------------------
(* Properties.                                                             *)

\* A retransmitted request is answered with the final response: the cached
\* response is final by the time the runner enters Completed.
RetransmitsFinal == state = "Completed" => last \in Final

\* The runner repeats nothing the TU has not answered for good: a repeated
\* response is never provisional and never follows Terminated.
RepeatsOnlyFinal ==
  [][out' \cap Response # {} /\ calls' = calls =>
       out' \subseteq Final /\ state = "Completed"]_vars

\* Something will end Completed: Timer J is running or the change is queued.
NeverStranded ==
  state = "Completed" /\ runner = Recv =>
    tasks["J"] \in {"asleep", "second"} \/ Queued(TransitionTo("Terminated"))

\* An answered request's transaction ends, and its runner reports it so that
\* the manager cleans up; one the manager has removed need not be reported.
AnsweredEnds ==
  answers # {} ~> (Closed /\ (tu /\ held => "TransactionTerminated" \in told))
=============================================================================
