------------------------- MODULE ClientTransaction -------------------------
(***************************************************************************)
(* What the two client transactions share: how the transaction manager     *)
(* starts one (send_request -> initiate), how it hands responses over      *)
(* (handle_response -> process_response), and what the TU may rely on.     *)
(***************************************************************************)
EXTENDS TransactionRunner

CONSTANT Responses   \* classes of response the peer may send

\* "unackable": a 300-699 response no ACK can be built from (no To header).
ASSUME ResponsesAssumption ==
  Responses \subseteq {"1xx", "2xx", "failure", "unackable"}

VARIABLE initiated   \* send_request has called initiate()

vars == <<runnerVars, initiated>>

-----------------------------------------------------------------------------
\* send_request -> initiate(): the state is read, then the command sent.
Initiate(first) ==
  /\ held /\ ~initiated /\ ~Closed
  /\ state = "Initial"
  /\ Send(TransitionTo(first))
  /\ initiated' = TRUE
  /\ Silent
  /\ UNCHANGED <<state, lifecycle, runner, tasks, registered, grace, tu, held,
                 dispatch, arrivals>>

\* The event handle_response sends for a response it could not hand over.
Reported(m) ==
  {CASE m = "1xx" -> "ProvisionalResponse"
     [] m = "2xx" -> "SuccessResponse"
     [] OTHER     -> "FailureResponse"}

\* A response answers a request: it arrives after the request was first sent.
Respond == state # "Initial" /\ \E m \in Responses : Accept(m)

Init0(timers) == RunnerInit("Initial", timers) /\ initiated = FALSE

Tasks == (TimerStep \/ GraceExpires \/ DrainExpires) /\ UNCHANGED initiated
Manager == (Respond \/ Deliver \/ DeliverClosed(Reported(dispatch)) \/ StopRequested)
           /\ UNCHANGED initiated
User == TuCloses /\ UNCHANGED initiated

\* tokio polls a runnable task eventually, and a sleep ends.
TaskFairness(timers) ==
  /\ \A t \in timers :
       WF_vars((FireManaged(t) \/ Unblock(t) \/ FireTransition(t) \/ SendTransition(t))
               /\ UNCHANGED initiated)
  /\ WF_vars((GraceExpires \/ DrainExpires) /\ UNCHANGED initiated)
  /\ WF_vars((Deliver \/ DeliverClosed(Reported(dispatch))) /\ UNCHANGED initiated)

-----------------------------------------------------------------------------
(* Properties of both clients.                                             *)

Queued(c) == \E i \in 1..Len(queue) : queue[i] = c

\* A transaction only moves forward, whatever order stale TransitionTo
\* commands are read in; Terminated is left by none (validate_transition).
StatesAdvance == [][Rank(state') >= Rank(state)]_vars

\* The TU never loses a transaction: one that ends by itself has reported a
\* final response, a timeout or a transport error before it is Terminated.
OutcomeReported ==
  state = "Terminated" /\ tu /\ held => told \cap Outcome # {}

\* The transaction implements the contract of RequestContract: the outcomes
\* reported are only added to, Terminated is final, and it is not reached
\* unreported while the TU listens (the event stream as the TU reads it).
Contract == INSTANCE RequestContract
            WITH Outcomes <- Outcome, reported <- told \cap Outcome,
                 ended <- (state = "Terminated"), attended <- (tu /\ held)
KeepsContract == Contract!Spec

\* A timer is only started when its previous task is gone: start_timer_a
\* overwrites the JoinHandle, and a task without a handle cannot be aborted.
NoOrphanTimer ==
  runner.at = "arm" => \A t \in runner.arm : tasks[t] = "idle" /\ ~Queued(Timer(t))

\* A terminated transaction's runner leaves its loop and tells the manager to
\* clean up (run_transaction_loop, after the loop).
RunnerExits == state = "Terminated" ~> (Closed /\ (tu => "TransactionTerminated" \in told))

\* Timer D or K bounds the time in Completed, up to the end of the runner.
CompletedEnds == state = "Completed" ~> Closed
=============================================================================
