------------------------ MODULE ServerNonInviteProofs ------------------------
(***************************************************************************)
(* Theorems about the non-INVITE server transaction, for every capacity of *)
(* the channel and any number of requests and responses: its state has its *)
(* type and only moves forward, what it repeats is the final response the  *)
(* TU gave, it repeats nothing else, and Completed does not last for ever. *)
(*                                                                         *)
(* Completed is reached over a command that only a final response of the   *)
(* TU puts into the channel, after it has stored the response and sent it; *)
(* the handler that was given the request answers no more after that.      *)
(***************************************************************************)
EXTENDS ServerNonInvite, TransactionRunnerProofs

Places == {"idle", "store", "cancel", "wire", "transition"}
CallRecord == [at : Places, response : Response \cup {None}, saw : State \cup {None}]

\* A call has its response and is the only one; it sends no CancelTimer100, and
\* asks for a state when its response leads to one.
CallsOK ==
  \A c \in Caller :
    /\ calls[c].at # "cancel"
    /\ calls[c].at # "idle" => /\ calls[c].response \in Response
                              /\ \A d \in Caller \ {c} : calls[d].at = "idle"
    /\ calls[c].at = "transition" => Target(calls[c].response, calls[c].saw) # None

\* The request is answered for good once, and last_response is what is sent.
Serving ==
  /\ answers # {} => last \in Final /\ \A c \in Caller : calls[c].at = "idle"
  /\ \A c \in Caller : calls[c].at \in {"wire", "transition"} => last = calls[c].response

\* Whoever is in Completed, or will be, has an answer.
Answers == state = "Completed" \/ Queued(TransitionTo("Completed")) => answers # {}

\* No handler of this transaction asks for a state.
Unasking == runner.at \notin {"send", "sendFailed"}

\* Timer J is about to be started, running, or has asked for the end, or the
\* runner is on its way out of the loop.
Lasting ==
  state = "Completed" =>
    \/ runner \in {Arming({"J"}), Exiting, Stopped}
    \/ tasks["J"] \in {"asleep", "second"} \/ Queued(TransitionTo("Terminated"))

Typed == TypeOK /\ CallsOK /\ Serving /\ Unasking

-----------------------------------------------------------------------------
(* The tables of ServerNonInviteLogic.                                     *)

\* on_enter_state.
LEMMA OnEnterForms ==
  ASSUME NEW s \in State, NEW e \in OnEnter(s)
  PROVE  /\ e \in EntryType(TimerNames, Outputs) /\ e.sent = {}
         /\ e.then.at \notin {"send", "sendFailed"}
         /\ s = "Completed" => e.then = Arming({"J"})
<1>1. \/ e = Entry(Arming({"J"}), {})
      \/ e = Entry(Unregistering, {}) /\ s # "Completed"
      \/ e = Entry(Rest, {}) /\ s # "Completed"
  BY DEF OnEnter, State
<1>2. /\ Arming({"J"}) \in Place(TimerNames) /\ Unregistering \in Place(TimerNames)
      /\ Rest \in Place(TimerNames)
  BY RestPlace DEF Place, Arming, At, TimerNames
<1>3. e \in EntryType(TimerNames, Outputs) /\ e.sent = {}
  BY <1>1, <1>2 DEF Entry, EntryType
<1>4. e.then.at \notin {"send", "sendFailed"} /\ (s = "Completed" => e.then = Arming({"J"}))
  BY <1>1 DEF Entry, Arming, Rest, Recv, Exiting, Unregistering, At
<1> QED
  BY <1>3, <1>4

\* What a handler may do: it asks for no state, starts and stops no timer, and
\* sends a response only when it is the cached one and the state Completed.
Handled(e) ==
  /\ e \in EffectType(TimerNames, Outputs)
  /\ e.next = None /\ e.arm = {} /\ e.abort = {}
  /\ e.sent \cap Response # {} => e.sent = {last} /\ state = "Completed"

\* handle_timer.
LEMMA HandleTimerForms ==
  ASSUME NEW t \in TimerNames, NEW e \in HandleTimer(t)
  PROVE  Handled(e)
<1>1. e = Effect(None, {}, {}, {"TimerTriggered"})
  BY DEF HandleTimer, OnlyTriggered
<1> QED
  BY <1>1 DEF Handled, Effect, EffectType, Outputs, Event, Response, Provisional, Final

\* process_request_retransmission.
LEMMA ProcessRequestForms ==
  ASSUME TypeOK, NEW m \in Requests, NEW e \in ProcessRequest(m)
  PROVE  Handled(e)
<1>1. \/ state = "Completed" /\ last # None /\ e = Effect(None, {}, {}, {last})
      \/ e = Effect(None, {}, {}, {})
  BY DEF ProcessRequest, Nothing
<1>2. last # None => last \in Response
  BY DEF TypeOK, ServerType
<1> QED
  BY <1>1, <1>2 DEF Handled, Effect, EffectType, Outputs

\* A handler leaves the runner resting.
LEMMA HandledRests ==
  ASSUME NEW e, Handled(e), Apply(e)
  PROVE  runner' \in {Recv, Exiting} /\ Abort({}) /\ Emit(e.sent)
BY DEF Handled, Apply, Rest

-----------------------------------------------------------------------------
(* send_response.                                                          *)

\* Where a call goes next.
LEMMA CallMoves ==
  ASSUME ServerType, NEW c \in Caller
  PROVE  /\ \A where \in Places : Advance(c, where) =>
              /\ calls' \in [Caller -> CallRecord] /\ calls'[c].at = where
              /\ calls'[c].response = calls[c].response /\ calls'[c].saw = calls[c].saw
              /\ \A d \in Caller \ {c} : calls'[d] = calls[d]
         /\ Return(c) => /\ calls' \in [Caller -> CallRecord] /\ calls'[c].at = "idle"
                         /\ \A d \in Caller \ {c} : calls'[d] = calls[d]
<1>1. calls \in [Caller -> CallRecord]
  BY DEF ServerType, CallRecord, Places
<1>2. ASSUME NEW where \in Places, Advance(c, where)
      PROVE  /\ calls' \in [Caller -> CallRecord] /\ calls'[c].at = where
             /\ calls'[c].response = calls[c].response /\ calls'[c].saw = calls[c].saw
             /\ \A d \in Caller \ {c} : calls'[d] = calls[d]
  <2>1. /\ calls'[c] = [calls[c] EXCEPT !.at = where]
        /\ \A d \in Caller \ {c} : calls'[d] = calls[d]
        /\ DOMAIN calls' = Caller /\ calls' = [d \in Caller |-> calls'[d]]
    BY <1>1, <1>2 DEF Advance
  <2>2. /\ calls'[c] \in CallRecord /\ calls'[c].at = where
        /\ calls'[c].response = calls[c].response /\ calls'[c].saw = calls[c].saw
    BY <1>1, <2>1 DEF CallRecord
  <2> QED
    BY <1>1, <2>1, <2>2
<1>3. Idle \in CallRecord /\ Idle.at = "idle"
  BY DEF CallRecord, Places, Idle, Call
<1> QED
  BY <1>1, <1>2, <1>3 DEF Return

\* What a call may do to the channel and the answers.
Sends ==
  \/ UNCHANGED queue
  \/ Send(TransitionTo("Proceeding"))
  \/ Send(TransitionTo("Completed")) /\ answers' # {}

\* A call keeps what it must, and says what it did.
Served ==
  /\ ServerType' /\ CallsOK' /\ Serving' /\ Sends /\ (answers # {} => answers' # {})
  /\ out' \subseteq Outputs /\ told' \subseteq Notable
  /\ out' \cap Response # {} => calls' # calls
  /\ UNCHANGED callFrame

\* A call that ends: with an error, or well, when a final response is the answer.
LEMMA ReturnServed ==
  ASSUME TypeOK, CallsOK, Serving, NEW c \in Caller, calls[c].at \in {"wire", "transition"},
         Fail(c) \/ Succeed(c), UNCHANGED <<last, responses, repeats>>
  PROVE  /\ ServerType' /\ CallsOK' /\ Serving' /\ (answers # {} => answers' # {})
         /\ Succeed(c) /\ calls[c].response \in Final => answers' # {}
         /\ calls' # calls
<1>0. ServerType /\ Return(c) /\ calls[c].response \in Response /\ last = calls[c].response
  BY DEF TypeOK, Fail, Succeed, CallsOK, Serving
<1>1. /\ calls' \in [Caller -> CallRecord] /\ calls'[c].at = "idle"
      /\ \A d \in Caller \ {c} : calls'[d] = calls[d]
  BY <1>0, CallMoves
<1>2. /\ answers = {}
      /\ answers' = {} \/ (calls[c].response \in Final /\ answers' = {calls[c].response})
  BY DEF Fail, Succeed, Serving
<1>3. reliable' \in {"off", "on", "stopped"}
  BY <1>0 DEF Fail, Succeed, ServerType
<1>4. ServerType'
  BY <1>0, <1>1, <1>2, <1>3 DEF ServerType, CallRecord, Places
<1>5. CallsOK' /\ calls' # calls /\ \A d \in Caller : calls'[d].at = "idle"
  BY <1>1 DEF CallsOK
<1>6. Serving'
  BY <1>0, <1>2, <1>5 DEF Serving
<1>7. Succeed(c) /\ calls[c].response \in Final => answers' # {}
  BY DEF Succeed
<1> QED
  BY <1>2, <1>4, <1>5, <1>6, <1>7

\* A call that goes on.
LEMMA AdvanceServed ==
  ASSUME TypeOK, CallsOK, Serving, NEW c \in Caller, NEW where \in {"wire", "transition"},
         calls[c].at # "idle", Advance(c, where), last' = calls[c].response,
         where = "transition" => Target(calls[c].response, calls[c].saw) # None,
         UNCHANGED <<answers, responses, reliable, repeats>>
  PROVE  ServerType' /\ CallsOK' /\ Serving'
<1>0. ServerType /\ calls[c].response \in Response /\ \A d \in Caller \ {c} : calls[d].at = "idle"
  BY DEF TypeOK, CallsOK
<1>1. /\ calls' \in [Caller -> CallRecord] /\ calls'[c].at = where
      /\ calls'[c].response = calls[c].response /\ calls'[c].saw = calls[c].saw
      /\ \A d \in Caller \ {c} : calls'[d] = calls[d]
  BY <1>0, CallMoves DEF Places
<1>2. ServerType'
  BY <1>0, <1>1 DEF ServerType, CallRecord, Places
<1>3. CallsOK'
  BY <1>0, <1>1 DEF CallsOK
<1>4. Serving'
  BY <1>0, <1>1 DEF Serving
<1> QED
  BY <1>2, <1>3, <1>4

\* Everything send_response and its caller do.
LEMMA RespondingServed ==
  ASSUME TypeOK, CallsOK, Serving, Responding
  PROVE  Served
<1>0. ServerType /\ out \subseteq Outputs /\ told \subseteq Notable
  BY DEF TypeOK, RunnerType
<1>s. Silent => out' \subseteq Outputs /\ told' \subseteq Notable /\ out' \cap Response = {}
  BY <1>0 DEF Silent
<1>c. PICK c \in Caller : Answer(c) \/ SendStep(c)
  BY DEF Responding, Caller
<1> DEFINE target == Target(calls[c].response, calls[c].saw)
<1>1. CASE Answer(c)
  <2>0. /\ answers = {} /\ responses < MaxResponses /\ responses' = responses + 1 /\ Silent
        /\ UNCHANGED <<queue, last, answers, reliable, repeats>> /\ UNCHANGED callFrame
        /\ \A d \in Caller : calls[d].at = "idle"
    BY <1>1 DEF Answer, TuBegins, Idle, Call
  <2>1. PICK r \in Response \ {"100"} : calls' = [calls EXCEPT ![c] = Call("store", r, state)]
    BY <1>1 DEF Answer, TuBegins, Begin
  <2>2. /\ calls' \in [Caller -> CallRecord] /\ calls'[c].at = "store" /\ calls'[c].response = r
        /\ \A d \in Caller \ {c} : calls'[d] = calls[d]
    <3>1. calls \in [Caller -> CallRecord]
      BY <1>0 DEF ServerType, CallRecord, Places
    <3>2. /\ Call("store", r, state) \in CallRecord /\ Call("store", r, state).at = "store"
          /\ Call("store", r, state).response = r
      BY DEF TypeOK, RunnerType, CallRecord, Places, Call
    <3> QED
      BY <2>1, <3>1, <3>2
  <2>3. responses' \in 0..MaxResponses
    BY <1>0, <2>0, MaxResponsesAssumption DEF ServerType
  <2>4. ServerType'
    BY <1>0, <2>0, <2>2, <2>3 DEF ServerType, CallRecord, Places
  <2>5. CallsOK'
    BY <2>0, <2>2 DEF CallsOK
  <2>6. Serving'
    BY <2>0, <2>2 DEF Serving
  <2> QED
    BY <2>0, <2>4, <2>5, <2>6, <1>s DEF Served, Sends
<1>2. CASE Store(c, AfterStore(calls[c].saw))
  <2>0. /\ calls[c].at = "store" /\ last' = calls[c].response /\ Advance(c, "wire") /\ Silent
        /\ UNCHANGED <<queue, answers, responses, reliable, repeats>> /\ UNCHANGED callFrame
    BY <1>2 DEF Store, AfterStore
  <2>1. ServerType' /\ CallsOK' /\ Serving'
    BY <2>0, AdvanceServed
  <2> QED
    BY <2>0, <2>1, <1>s DEF Served, Sends
<1>3. CASE SendCancel(c)
  BY <1>3 DEF SendCancel, CallsOK
<1>4. CASE PutOnWire(c, target)
  <2>0. /\ calls[c].at = "wire" /\ UNCHANGED <<queue, last, responses, repeats>> /\ UNCHANGED callFrame
        /\ calls[c].response \in Response /\ last' = calls[c].response
    BY <1>4 DEF PutOnWire, CallsOK, Serving
  <2>1. out' \subseteq Outputs /\ told' \subseteq Notable
    <3>1. Emit({calls[c].response}) \/ Silent
      BY <1>4 DEF PutOnWire
    <3>2. {calls[c].response} \subseteq Outputs
      BY <2>0 DEF Outputs
    <3> QED
      BY <1>0, <1>s, <3>1, <3>2, EmitLemma
  <2>2. CASE Fail(c) \/ Succeed(c)
    BY <2>0, <2>1, <2>2, ReturnServed DEF Served, Sends
  <2>3. CASE target # None /\ Advance(c, "transition") /\ UNCHANGED <<answers, reliable>>
    <3>1. ServerType' /\ CallsOK' /\ Serving'
      BY <2>0, <2>3, AdvanceServed
    <3>2. calls'[c].at = "transition"
      BY <1>0, <2>3, CallMoves DEF Places
    <3> QED
      BY <2>0, <2>1, <2>3, <3>1, <3>2 DEF Served, Sends
  <2> QED
    BY <1>4, <2>2, <2>3 DEF PutOnWire
<1>5. CASE SendTarget(c, target)
  <2>0. /\ calls[c].at = "transition" /\ Silent /\ UNCHANGED <<last, responses, repeats>>
        /\ UNCHANGED callFrame
    BY <1>5 DEF SendTarget
  <2>1. CASE Closed
    BY <1>5, <2>0, <2>1, <1>s, ReturnServed DEF SendTarget, Served, Sends
  <2>2. CASE ~Closed
    <3>1. target # None /\ Send(TransitionTo(target)) /\ Succeed(c)
      BY <1>5, <2>0, <2>2 DEF SendTarget, CallsOK
    <3>2. \/ calls[c].response \in Final /\ target = "Completed"
          \/ target = "Proceeding"
      BY <3>1 DEF Target
    <3>3. Sends
      BY <2>0, <3>1, <3>2, ReturnServed DEF Sends
    <3> QED
      BY <2>0, <3>1, <3>3, <1>s, ReturnServed DEF Served
  <2> QED
    BY <2>1, <2>2
<1> QED
  BY <1>c, <1>1, <1>2, <1>3, <1>4, <1>5 DEF SendStep, CallStep

-----------------------------------------------------------------------------
(* Type correctness, with the calls.                                       *)

\* The transaction as create_server_transaction leaves it.
LEMMA TypedInit == Init => Typed
<1> SUFFICES ASSUME Init PROVE Typed
  OBVIOUS
<1>1. queue \in Seq(Command(TimerNames, Requests)) /\ Len(queue) <= Capacity
  <2>1. TransitionTo("Trying") \in Command(TimerNames, Requests)
    BY DEF Command, TransitionTo, State
  <2>2. queue = <<TransitionTo("Trying")>>
    BY DEF Init, ServerInit
  <2>3. <<TransitionTo("Trying")>> \in Seq(Command(TimerNames, Requests))
        /\ Len(<<TransitionTo("Trying")>>) = 1
    BY <2>1
  <2> QED
    BY <2>2, <2>3, CapacityAssumption
<1>2. tasks \in [TimerNames -> TaskPhase]
  BY DEF Init, ServerInit, TaskPhase
<1>3. runner \in Place(TimerNames) /\ arrivals \in 0..MaxArrivals /\ Unasking
  BY MaxArrivalsAssumption DEF Init, ServerInit, Place, Unasking, Recv, At
<1>4. RunnerType(TimerNames, Requests, Outputs)
  BY <1>1, <1>2, <1>3 DEF Init, ServerInit, RunnerType, State, Lifecycle
<1>5. calls \in [Caller -> CallRecord] /\ \A c \in Caller : calls[c].at = "idle"
  BY DEF Init, ServerInit, Idle, Call, CallRecord, Places
<1>6. responses \in 0..MaxResponses /\ repeats \in 0..MaxRepeats
  BY MaxResponsesAssumption, MaxRepeatsAssumption DEF Init, ServerInit
<1>7. ServerType
  BY <1>5, <1>6 DEF Init, ServerInit, ServerType, CallRecord, Places
<1>8. CallsOK /\ Serving
  BY <1>5 DEF Init, ServerInit, CallsOK, Serving
<1> QED
  BY <1>3, <1>4, <1>7, <1>8 DEF Typed, TypeOK

\* The runner's steps keep its type, and none of them asks for a state.
LEMMA LoopType ==
  ASSUME TypeOK, Unasking, Loop
  PROVE  RunnerType(TimerNames, Requests, Outputs)' /\ Unasking'
<1>t. RunnerType(TimerNames, Requests, Outputs) /\ Event \subseteq Outputs
  BY DEF TypeOK, Outputs
<1>r. \A r \in {Recv, Exiting, Stopped, Rest} : r.at \notin {"send", "sendFailed"}
  BY DEF Rest, Recv, Exiting, Stopped, At
<1>1. CASE IgnoreTransition \/ RejectTransition(Kind) \/ EnterStateUnheard(Kind) \/ RunTerminate
  <2>1. runner' \in {runner, Exiting}
    BY <1>1 DEF IgnoreTransition, RejectTransition, EnterStateUnheard, RunTerminate
  <2> QED
    BY <1>t, <1>1, <1>r, <2>1, RefusalType DEF Unasking
<1>2. CASE SelfSend \/ SelfSendFailed \/ ArmTimers \/ Unregister \/ LoopEnd
  <2>1. runner' \in {Rest, Stopped}
    BY <1>2 DEF SelfSend, SelfSendFailed, ArmTimers, Unregister, LoopEnd, Unasking
  <2> QED
    BY <1>t, <1>2, <1>r, <2>1, BetweenCommandsType DEF Unasking
<1>3. CASE \E s \in State : EnterState(Kind, s, OnEnter(s))
  <2>1. PICK s \in State : \E e \in OnEnter(s) :
          /\ Receive(TransitionTo(s)) /\ Abort(Timers) /\ state' = s
          /\ lifecycle' = IF s = "Terminated" THEN "Terminating" ELSE lifecycle
          /\ grace' = IF s = "Terminated" THEN "waiting" ELSE grace
          /\ runner' = e.then /\ Emit(e.sent) /\ UNCHANGED loopFrame
    BY <1>3 DEF EnterState
  <2>2. \A e \in OnEnter(s) : e \in EntryType(TimerNames, Outputs) /\ e.then.at \notin {"send", "sendFailed"}
    BY OnEnterForms
  <2> QED
    BY <1>t, <2>1, <2>2, EntryTypeLemma DEF Unasking
<1>4. ASSUME NEW c, NEW e, Handled(e), Receive(c), Apply(e),
             UNCHANGED <<state, lifecycle, grace>>, UNCHANGED loopFrame
      PROVE  RunnerType(TimerNames, Requests, Outputs)' /\ Unasking'
  <2>1. e \in EffectType(TimerNames, Outputs) /\ runner' \in {Recv, Exiting}
    BY <1>4, HandledRests DEF Handled
  <2> QED
    BY <1>t, <1>r, <1>4, <2>1, ApplyType DEF Unasking
<1>5. CASE \E t \in TimerNames : RunTimer(t, HandleTimer(t))
  BY <1>4, <1>5, HandleTimerForms DEF RunTimer
<1>6. CASE \E m \in Requests : RunMessage(m, ProcessRequest(m))
  BY <1>4, <1>6, ProcessRequestForms DEF RunMessage
<1> QED
  BY <1>1, <1>2, <1>3, <1>5, <1>6 DEF Loop, LoopStep

\* Every step keeps the types.
LEMMA TypedStep ==
  ASSUME Typed, [Next]_vars
  PROVE  Typed'
<1>t. RunnerType(TimerNames, Requests, Outputs)
  BY DEF Typed, TypeOK
<1>1. ASSUME UNCHANGED serverVars, RunnerType(TimerNames, Requests, Outputs)', Unasking'
      PROVE  Typed'
  BY <1>1 DEF Typed, TypeOK, ServerType, CallsOK, Serving, serverVars
<1>2. CASE Loop
  <2>1. UNCHANGED serverVars
    BY <1>2 DEF Loop
  <2> QED
    BY <1>1, <1>2, <2>1, LoopType DEF Typed
<1>3. CASE Tasks
  <2>1. UNCHANGED serverVars /\ UNCHANGED runner
    BY <1>3 DEF Tasks, TimerStep, FireManaged, Unblock, FireTransition, SendTransition, taskFrame,
                GraceExpires, DrainExpires, graceFrame
  <2>2. RunnerType(TimerNames, Requests, Outputs)'
    BY <1>t, <1>3, TimerStepType, GraceType DEF Tasks
  <2> QED
    BY <1>1, <2>1, <2>2 DEF Typed, Unasking
<1>4. CASE Manager
  <2>1. UNCHANGED serverVars /\ UNCHANGED runner
    BY <1>4 DEF Manager, Accept, Deliver, DeliverClosed, StopRequested, TuCloses, envFrame
  <2>2. RunnerType(TimerNames, Requests, Outputs)'
    <3>1. CASE (\E m \in Requests : Accept(m)) \/ Deliver \/ StopRequested \/ TuCloses
      BY <1>t, <3>1, ManagerType
    <3>2. CASE DeliverClosed({})
      BY <1>t, <3>2, DeliverClosedType DEF DeliverClosed
    <3> QED
      BY <1>4, <3>1, <3>2 DEF Manager
  <2> QED
    BY <1>1, <2>1, <2>2 DEF Typed, Unasking
<1>5. CASE Responding
  <2>1. Served
    BY <1>5, RespondingServed DEF Typed
  <2>2. queue' \in Seq(Command(TimerNames, Requests)) /\ Len(queue') <= Capacity
    <3>1. \A s \in State : TransitionTo(s) \in Command(TimerNames, Requests)
      BY DEF Command, TransitionTo
    <3>2. UNCHANGED queue \/ \E d \in Command(TimerNames, Requests) : Send(d)
      BY <2>1, <3>1 DEF Served, Sends, State
    <3> QED
      BY <1>t, <3>2, SendLemma DEF RunnerType
  <2>3. RunnerType(TimerNames, Requests, Outputs)' /\ Unasking'
    BY <1>t, <2>1, <2>2 DEF Served, callFrame, RunnerType, Typed, Unasking
  <2> QED
    BY <2>1, <2>3 DEF Served, Typed, TypeOK
<1>6. CASE UNCHANGED vars
  BY <1>1, <1>t, <1>6 DEF vars, runnerVars, RunnerType, Typed, Unasking
<1> QED
  BY <1>2, <1>3, <1>4, <1>5, <1>6 DEF Next

\* Type correctness of the transaction, its channel and the call beside it.
THEOREM TypedTheorem == Spec => []Typed
<1>1. Typed /\ [Next]_vars => Typed'
  BY TypedStep
<1> QED
  BY <1>1, TypedInit, PTL DEF Spec

-----------------------------------------------------------------------------
(* The transaction only moves forward.                                     *)

\* What the loop does to the channel and the state: it takes a command, and
\* enters no state but the one the command asks for, or Terminated.
LEMMA LoopChannel ==
  ASSUME Typed, Loop
  PROVE  \/ \E c : Receive(c) /\ state' \in {state, "Terminated"}
         \/ \E s \in State : Receive(TransitionTo(s)) /\ state' = s /\ ValidTransition(Kind, state, s)
         \/ UNCHANGED <<queue, state>>
         \/ queue' = <<>> /\ UNCHANGED state
<1>1. CASE LoopStep(Kind)
  BY <1>1 DEF LoopStep, IgnoreTransition, RejectTransition, EnterStateUnheard, RunTerminate, SelfSend,
              SelfSendFailed, ArmTimers, Unregister, LoopEnd, Typed, Unasking
<1>2. CASE \E s \in State : EnterState(Kind, s, OnEnter(s))
  BY <1>2 DEF EnterState, Accepts
<1>3. CASE \/ \E t \in TimerNames : RunTimer(t, HandleTimer(t))
           \/ \E m \in Requests : RunMessage(m, ProcessRequest(m))
  BY <1>3 DEF RunTimer, RunMessage
<1> QED
  BY <1>1, <1>2, <1>3 DEF Loop

\* The tasks, the manager and the TU change neither the state nor the runner,
\* and only a final response asks for Completed.
LEMMA BesideChannel ==
  ASSUME Typed, Tasks \/ Manager \/ Responding
  PROVE  /\ UNCHANGED <<state, runner>> /\ (answers # {} => answers' # {})
         /\ \/ UNCHANGED queue
            \/ \E c \in Command(TimerNames, Requests) :
                 Send(c) /\ (c = TransitionTo("Completed") => answers' # {})
<1>t. dispatch \in Requests \cup {None} /\ Timers = TimerNames
  BY DEF Typed, TypeOK, RunnerType, Timers
<1>c. /\ \A t \in TimerNames : Timer(t) \in Command(TimerNames, Requests)
      /\ \A m \in Requests : ProcessMessage(m) \in Command(TimerNames, Requests)
      /\ \A s \in State : TransitionTo(s) \in Command(TimerNames, Requests)
      /\ Terminate \in Command(TimerNames, Requests)
  BY DEF Command, Timer, ProcessMessage, TransitionTo
<1>d. /\ \A t : Timer(t) # TransitionTo("Completed")
      /\ \A m : ProcessMessage(m) # TransitionTo("Completed")
      /\ Terminate # TransitionTo("Completed")
      /\ TransitionTo("Terminated") # TransitionTo("Completed")
      /\ TransitionTo("Proceeding") # TransitionTo("Completed")
  BY DEF Timer, ProcessMessage, TransitionTo, Terminate
<1>1. CASE TimerStep /\ UNCHANGED serverVars
  <2>1. PICK t \in TimerNames : \/ FireManaged(t) \/ Unblock(t)
                                \/ FireTransition(t) \/ SendTransition(t)
    BY <1>1, <1>t DEF TimerStep
  <2>2. UNCHANGED <<state, runner, answers>>
    BY <1>1, <2>1 DEF FireManaged, Unblock, FireTransition, SendTransition, taskFrame, serverVars
  <2>3. UNCHANGED queue \/ Send(Timer(t)) \/ Send(TransitionTo("Terminated"))
    BY <2>1 DEF FireManaged, Unblock, FireTransition, SendTransition
  <2> QED
    BY <2>2, <2>3, <1>c, <1>d DEF State
<1>2. CASE (GraceExpires \/ DrainExpires) /\ UNCHANGED serverVars
  BY <1>2, <1>c, <1>d DEF GraceExpires, DrainExpires, graceFrame, serverVars
<1>3. CASE Manager
  <2>1. UNCHANGED <<state, runner, answers>>
    BY <1>3 DEF Manager, Accept, Deliver, DeliverClosed, StopRequested, TuCloses, envFrame, serverVars
  <2>2. UNCHANGED queue \/ Send(Terminate) \/ (dispatch \in Requests /\ Send(ProcessMessage(dispatch)))
    BY <1>3, <1>t DEF Manager, Accept, Deliver, DeliverClosed, StopRequested, TuCloses
  <2> QED
    BY <2>1, <2>2, <1>c, <1>d
<1>4. CASE Responding
  <2>1. Served
    BY <1>4, RespondingServed DEF Typed
  <2> QED
    BY <2>1, <1>c, <1>d DEF Served, Sends, callFrame, State
<1> QED
  BY <1>1, <1>2, <1>3, <1>4 DEF Tasks

\* Responses of the TU, repeated requests and Timer J ask for states in any
\* order; none of them takes the transaction back (validate_transition).
THEOREM AdvanceTheorem == Spec => [][Rank(state') >= Rank(state)]_vars
<1>1. ASSUME Typed, [Next]_vars PROVE Rank(state') >= Rank(state)
  <2>1. state \in State
    BY <1>1 DEF Typed, TypeOK, RunnerType
  <2>2. state' \in {state, "Terminated"} \/ \E s \in State : state' = s /\ ValidTransition(Kind, state, s)
    BY <1>1, LoopChannel, BesideChannel DEF Next, vars, runnerVars
  <2>3. CASE state' \in {state, "Terminated"}
    BY <2>1, <2>3 DEF State, Rank
  <2>4. CASE \E s \in State : state' = s /\ ValidTransition(Kind, state, s)
    BY <2>1, <2>4, TransitionsAdvance DEF Kind, TransactionKind
  <2> QED
    BY <2>2, <2>3, <2>4
<1>2. Typed /\ [Next]_vars => [Rank(state') >= Rank(state)]_vars
  BY <1>1
<1> QED
  BY <1>2, TypedTheorem, PTL DEF Spec

-----------------------------------------------------------------------------
(* Only the final response of the TU is repeated.                          *)

\* Answers is inductive.
LEMMA AnswersStep ==
  ASSUME Typed, Answers, [Next]_vars
  PROVE  Answers'
<1> DEFINE E == {TransitionTo("Completed")}
<1>q. queue \in Seq(Command(TimerNames, Requests)) /\ Len(queue) <= Capacity
  BY DEF Typed, TypeOK, RunnerType
<1>0. answers # {} => answers' # {}
  BY BesideChannel DEF Next, Loop, serverVars, vars
<1> SUFFICES ASSUME answers' = {} PROVE state' # "Completed" /\ \A i \in 1..Len(queue') : queue'[i] \notin E
  BY DEF Answers, Queued
<1>1. state # "Completed" /\ \A i \in 1..Len(queue) : queue[i] \notin E
  BY <1>0 DEF Answers, Queued
<1> HIDE DEF E
<1>2. CASE Loop
  <2>1. CASE \E c : Receive(c) /\ state' \in {state, "Terminated"}
    BY <1>q, <1>1, <2>1, ReceiveAvoids
  <2>2. CASE \E s \in State : Receive(TransitionTo(s)) /\ state' = s
    <3>1. PICK s \in State : Receive(TransitionTo(s)) /\ state' = s
      BY <2>2
    <3>2. TransitionTo(s) \notin E /\ \A i \in 1..Len(queue') : queue'[i] \notin E
      BY <1>q, <1>1, <3>1, ReceiveAvoids
    <3> QED
      BY <3>1, <3>2 DEF E
  <2>3. CASE UNCHANGED <<queue, state>>
    BY <1>1, <2>3
  <2>4. CASE queue' = <<>> /\ UNCHANGED state
    BY <1>1, <2>4
  <2> QED
    BY <1>2, <2>1, <2>2, <2>3, <2>4, LoopChannel
<1>3. CASE Tasks \/ Manager \/ Responding
  <2>1. /\ UNCHANGED state
        /\ UNCHANGED queue \/ \E c \in Command(TimerNames, Requests) : Send(c) /\ c \notin E
    BY <1>3, BesideChannel DEF E
  <2> QED
    BY <1>q, <1>1, <2>1, SendAvoids
<1>4. CASE UNCHANGED vars
  BY <1>1, <1>4 DEF vars, runnerVars
<1> QED
  BY <1>2, <1>3, <1>4 DEF Next

\* Nobody is in Completed without an answer.
LEMMA AnswersInit == Init => Answers
<1>1. ASSUME Init PROVE state # "Completed" /\ ~Queued(TransitionTo("Completed"))
  <2>1. queue = <<TransitionTo("Trying")>> /\ state = "Trying"
    BY <1>1 DEF Init, ServerInit
  <2>2. TransitionTo("Trying") # TransitionTo("Completed")
    BY DEF TransitionTo
  <2>3. \A i \in 1..Len(queue) : queue[i] = TransitionTo("Trying")
    BY <2>1
  <2> QED
    BY <2>1, <2>2, <2>3 DEF Queued
<1> QED
  BY <1>1 DEF Answers

\* The final response that led to Completed is in last_response for as long as
\* the transaction is Completed.
THEOREM RetransmitTheorem == Spec => []RetransmitsFinal
<1>1. Typed /\ Answers /\ [Next]_vars => Answers'
  BY AnswersStep
<1>2. Typed /\ Answers => RetransmitsFinal
  BY DEF Typed, TypeOK, ServerType, Serving, Answers, RetransmitsFinal
<1> QED
  BY <1>1, <1>2, AnswersInit, TypedTheorem, PTL DEF Spec

\* A response that leaves the transaction in a step that is not one of
\* send_response is the final one, and the transaction is Completed.
LEMMA RepeatsStep ==
  ASSUME Typed, RetransmitsFinal, Next, out' \cap Response # {}, calls' = calls
  PROVE  out' \subseteq Final /\ state = "Completed"
<1>r. Event \cap Response = {}
  BY DEF Event, Response, Provisional, Final
<1>s. /\ ~Silent
      /\ \A o : Emit(o) => o \cap Response # {} /\ out' \subseteq o
  BY DEF Silent, Emit
<1>1. ASSUME NEW e, Handled(e), Emit(e.sent) PROVE out' \subseteq Final /\ state = "Completed"
  BY <1>1, <1>s DEF Handled, RetransmitsFinal
<1>2. CASE Loop
  <2>1. CASE LoopStep(Kind)
    <3>1. \E o \in SUBSET Event : Silent \/ Emit(o)
      BY <2>1 DEF LoopStep, IgnoreTransition, RejectTransition, EnterStateUnheard, RunTerminate, SelfSend,
                  SelfSendFailed, ArmTimers, Unregister, LoopEnd, Event
    <3> QED
      BY <3>1, <1>r, <1>s
  <2>2. CASE \E s \in State : EnterState(Kind, s, OnEnter(s))
    BY <2>2, <1>s, OnEnterForms DEF EnterState
  <2>3. CASE \E t \in TimerNames : RunTimer(t, HandleTimer(t))
    BY <1>1, <2>3, HandleTimerForms, HandledRests DEF RunTimer
  <2>4. CASE \E m \in Requests : RunMessage(m, ProcessRequest(m))
    BY <1>1, <2>4, ProcessRequestForms, HandledRests DEF RunMessage, Typed
  <2> QED
    BY <1>2, <2>1, <2>2, <2>3, <2>4 DEF Loop
<1>3. CASE Tasks \/ Manager
  <2>1. Silent \/ Emit({})
    BY <1>3 DEF Tasks, TimerStep, FireManaged, Unblock, FireTransition, SendTransition, GraceExpires,
                DrainExpires, Manager, Accept, Deliver, DeliverClosed, StopRequested, TuCloses
  <2> QED
    BY <2>1, <1>s
<1>4. CASE Responding
  BY <1>4, RespondingServed DEF Served, Typed
<1> QED
  BY <1>2, <1>3, <1>4 DEF Next

\* A request that arrives again is answered with the final response or not at
\* all: never with a provisional one, never after the end
\* (process_request_retransmission).
THEOREM RepeatsTheorem == Spec => RepeatsOnlyFinal
<1>1. Typed /\ RetransmitsFinal /\ [Next]_vars =>
        [out' \cap Response # {} /\ calls' = calls => out' \subseteq Final /\ state = "Completed"]_vars
  BY RepeatsStep
<1> QED
  BY <1>1, TypedTheorem, RetransmitTheorem, PTL DEF Spec, RepeatsOnlyFinal

-----------------------------------------------------------------------------
(* Completed does not last for ever.                                       *)

\* The loop does not lose Timer J or what it asked for.
LEMMA LoopLasts ==
  ASSUME Typed, Lasting, Loop, state' = "Completed"
  PROVE  Lasting'
<1> DEFINE end == TransitionTo("Terminated")
<1>q. /\ queue \in Seq(Command(TimerNames, Requests)) /\ Len(queue) <= Capacity
      /\ tasks \in [TimerNames -> TaskPhase] /\ "J" \in TimerNames /\ Timers = TimerNames
  BY DEF Typed, TypeOK, RunnerType, TimerNames, Timers
<1>r. Recv \notin {Arming({"J"}), Exiting, Stopped}
  BY DEF Recv, Arming, Exiting, Stopped, At
<1>1. ASSUME NEW c, Receive(c), c # end, UNCHANGED state, tasks'["J"] = tasks["J"]
      PROVE  Lasting'
  <2>1. tasks["J"] \in {"asleep", "second"} \/ Queued(end)
    BY <1>1, <1>r DEF Receive, Lasting
  <2>2. Queued(end) => Queued(end)'
    BY <1>q, <1>1, ReceiveKeeps DEF Queued
  <2> QED
    BY <1>1, <2>1, <2>2 DEF Lasting
<1>2. ASSUME NEW c, Receive(c), c # end, UNCHANGED state, NEW e, Handled(e), Apply(e)
      PROVE  Lasting'
  <2>1. tasks'["J"] = tasks["J"]
    BY <1>q, <1>2, HandledRests, AbortLeaves
  <2> QED
    BY <1>1, <1>2, <2>1
<1>3. CASE IgnoreTransition
  <2>1. TransitionTo(state) # end
    BY <1>3 DEF IgnoreTransition, TransitionTo
  <2> QED
    BY <1>1, <1>3, <2>1 DEF IgnoreTransition
<1>4. CASE RejectTransition(Kind)
  <2>1. PICK s \in State : ~ValidTransition(Kind, state, s) /\ Receive(TransitionTo(s))
    BY <1>4 DEF RejectTransition
  <2>2. TransitionTo(s) # end
    BY <2>1 DEF ValidTransition, TransitionTo
  <2> QED
    BY <1>1, <1>4, <2>1, <2>2 DEF RejectTransition
<1>5. CASE EnterStateUnheard(Kind) \/ RunTerminate
  BY <1>5 DEF EnterStateUnheard, RunTerminate
<1>6. CASE SelfSend \/ SelfSendFailed
  BY <1>6 DEF SelfSend, SelfSendFailed, Typed, Unasking
<1>7. CASE ArmTimers
  <2>1. runner.at = "arm" /\ UNCHANGED <<state, queue>>
    BY <1>7 DEF ArmTimers
  <2>2. tasks'["J"] = IF "J" \in runner.arm THEN "asleep" ELSE tasks["J"]
    BY <1>7, <1>q DEF ArmTimers
  <2>3. \/ "J" \in runner.arm \/ tasks["J"] \in {"asleep", "second"} \/ Queued(end)
    BY <2>1 DEF Lasting, Arming, Exiting, Stopped, At
  <2> QED
    BY <2>1, <2>2, <2>3 DEF Lasting, Queued
<1>8. CASE Unregister
  <2>1. runner.at = "unregister" /\ UNCHANGED <<state, queue, tasks>>
    BY <1>8 DEF Unregister
  <2>2. tasks["J"] \in {"asleep", "second"} \/ Queued(end)
    BY <2>1 DEF Lasting, Arming, Exiting, Stopped, At
  <2> QED
    BY <2>1, <2>2 DEF Lasting, Queued
<1>9. CASE LoopEnd
  BY <1>9 DEF LoopEnd, Lasting
<1>10. CASE \E s \in State : EnterState(Kind, s, OnEnter(s))
  BY <1>10, OnEnterForms DEF EnterState, Lasting
<1>11. CASE \E t \in TimerNames : RunTimer(t, HandleTimer(t))
  <2>1. \A t \in TimerNames : Timer(t) # end
    BY DEF Timer, TransitionTo
  <2> QED
    BY <1>2, <1>11, <2>1, HandleTimerForms DEF RunTimer
<1>12. CASE \E m \in Requests : RunMessage(m, ProcessRequest(m))
  <2>1. \A m \in Requests : ProcessMessage(m) # end
    BY DEF ProcessMessage, TransitionTo
  <2> QED
    BY <1>2, <1>12, <2>1, ProcessRequestForms DEF RunMessage, Typed
<1> QED
  BY <1>3, <1>4, <1>5, <1>6, <1>7, <1>8, <1>9, <1>10, <1>11, <1>12 DEF Loop, LoopStep

\* Neither do the steps beside it: Timer J sends before it is gone.
LEMMA BesideLasts ==
  ASSUME Typed, Lasting, Tasks \/ Manager \/ Responding
  PROVE  Lasting'
<1> DEFINE end == TransitionTo("Terminated")
<1>q. /\ queue \in Seq(Command(TimerNames, Requests)) /\ Len(queue) <= Capacity
      /\ tasks \in [TimerNames -> TaskPhase] /\ TimerNames = {"J"} /\ Timers = TimerNames
      /\ end \in Command(TimerNames, Requests)
  BY DEF Typed, TypeOK, RunnerType, TimerNames, Timers, Command, TransitionTo, State
<1>b. /\ UNCHANGED <<state, runner>>
      /\ UNCHANGED queue \/ \E c \in Command(TimerNames, Requests) : Send(c)
  BY BesideChannel
<1>k. Queued(end) => Queued(end)'
  BY <1>q, <1>b, SendKeeps DEF Queued
<1>1. CASE TimerStep
  <2>1. FireTransition("J") \/ SendTransition("J")
    BY <1>1, <1>q DEF TimerStep, FireManaged, Unblock, ManagedTimer
  <2>2. CASE FireTransition("J")
    <3>1. Closed \/ tasks'["J"] = "second" \/ tasks["J"] = "late"
      BY <2>2, <1>q DEF FireTransition, SetTask
    <3> QED
      BY <3>1, <1>b, <1>k DEF Lasting, Closed
  <2>3. CASE SendTransition("J")
    <3>1. Closed \/ Send(end)
      BY <2>3 DEF SendTransition
    <3>2. Closed \/ Queued(end)'
      BY <3>1, <1>q, SendKeeps DEF Queued
    <3> QED
      BY <3>2, <1>b DEF Lasting, Closed
  <2> QED
    BY <2>1, <2>2, <2>3
<1>2. CASE UNCHANGED tasks
  BY <1>2, <1>b, <1>k DEF Lasting
<1>3. UNCHANGED tasks \/ TimerStep
  BY RespondingServed DEF Tasks, GraceExpires, DrainExpires, graceFrame, Manager, Accept, Deliver,
        DeliverClosed, StopRequested, TuCloses, envFrame, Served, callFrame, Typed
<1> QED
  BY <1>1, <1>2, <1>3

\* Timer J ends Completed: while the runner waits for a command in Completed,
\* Timer J is running or its TransitionTo(Terminated) is queued, and nothing
\* that happens meanwhile takes either away.
THEOREM StrandedTheorem == Spec => []NeverStranded
<1>1. Init => Lasting
  BY DEF Init, ServerInit, Lasting
<1>2. ASSUME Typed, Lasting, [Next]_vars PROVE Lasting'
  <2>1. CASE Loop
    BY <1>2, <2>1, LoopLasts DEF Lasting
  <2>2. CASE Tasks \/ Manager \/ Responding
    BY <1>2, <2>2, BesideLasts
  <2>3. CASE UNCHANGED vars
    BY <1>2, <2>3 DEF Lasting, Queued, vars, runnerVars
  <2> QED
    BY <1>2, <2>1, <2>2, <2>3 DEF Next
<1>3. Lasting => NeverStranded
  BY DEF Lasting, NeverStranded, Recv, Arming, Exiting, Stopped, At
<1>4. Typed /\ Lasting /\ [Next]_vars => Lasting'
  BY <1>2
<1> QED
  BY <1>1, <1>3, <1>4, TypedTheorem, PTL DEF Spec

=============================================================================
