------------------------- MODULE ClientInviteProofs -------------------------
(***************************************************************************)
(* Theorems about the INVITE client transaction, for every capacity of the *)
(* command channel, every number of responses and every mix of them: its   *)
(* state has its type, it only moves forward, it never ends without having *)
(* told the TU how, and it implements RequestContract.                     *)
(***************************************************************************)
EXTENDS ClientInvite, TransactionRunnerProofs

-----------------------------------------------------------------------------
(* The tables of ClientInviteLogic have the types the runner expects.      *)

\* on_enter_state.
LEMMA OnEnterTyped ==
  ASSUME NEW s \in State, NEW e \in OnEnter(s)
  PROVE  e \in EntryType(TimerNames, Outputs)
<1>1. \/ e = Entry(Arming({"A", "B"}), {"INVITE"})
      \/ e = Entry(SendingFailed("Terminated"), {"TransportError"})
      \/ e = Entry(Arming({"D"}), {})
      \/ e = Entry(Unregistering, {})
      \/ e = Entry(Rest, {})
  BY DEF OnEnter, EnterCalling, State
<1>2. /\ Arming({"A", "B"}) \in Place(TimerNames) /\ Arming({"D"}) \in Place(TimerNames)
      /\ SendingFailed("Terminated") \in Place(TimerNames)
      /\ Unregistering \in Place(TimerNames) /\ Rest \in Place(TimerNames)
  BY RestPlace DEF Place, Arming, SendingFailed, At, TimerNames, State
<1> QED
  BY <1>1, <1>2 DEF Entry, EntryType, Outputs, Event

\* handle_timer.
LEMMA HandleTimerTyped ==
  ASSUME NEW t \in TimerNames, NEW e \in HandleTimer(t)
  PROVE  e \in EffectType(TimerNames, Outputs)
<1>1. \/ e = Effect(None, {"A"}, {}, {"INVITE", "TimerTriggered"})
      \/ e = Effect("Terminated", {}, {}, {"TransportError", "TimerTriggered"})
      \/ e = Effect("Terminated", {}, {}, {"TransactionTimeout", "TimerTriggered"})
      \/ e = Effect(None, {}, {}, {"TimerTriggered"})
  BY DEF HandleTimer, HandleTimerA, HandleTimerB, OnlyTriggered, TimerNames
<1> QED
  BY <1>1 DEF Effect, EffectType, Outputs, Event, State, TimerNames

\* process_response, in every state and for every class of response.
LEMMA ProcessResponseTyped ==
  ASSUME NEW m \in Responses, NEW e \in ProcessResponse(m)
  PROVE  /\ e \in EffectType(TimerNames, Outputs)
         /\ e.arm = {}
         /\ e.next \in {"Completed", "Terminated"} /\ m # "unackable" =>
              e.sent \cap Outcome # {}
<1>1. m \in {"1xx", "2xx", "failure", "unackable"}
  BY ResponsesAssumption
<1>2. \A stop \in {{}, {"A"}} : \A f \in Answered(m, stop) :
        \/ m = "1xx" /\ f = Effect("Proceeding", {}, stop, {"ProvisionalResponse"})
        \/ m = "1xx" /\ f = Effect(None, {}, stop, {"ProvisionalResponse"})
        \/ m = "2xx" /\ f = Effect("Terminated", {}, stop, {"SuccessResponse"})
        \/ m = "failure" /\ f = Effect("Completed", {}, stop, {"ACK", "FailureResponse"})
        \/ m = "failure" /\ f = Effect("Terminated", {}, stop, {"TransportError"})
        \/ m = "unackable" /\ f = Effect("Terminated", {}, stop, {})
  BY <1>1 DEF Answered
<1>3. \/ \E stop \in {{}, {"A"}} : e \in Answered(m, stop)
      \/ e = Effect(None, {}, {}, {"ACK"})
      \/ e = Effect(None, {}, {}, {"TransportError"})
      \/ e = Effect(None, {}, {}, {})
  BY DEF ProcessResponse, Nothing
<1>4. CASE \E stop \in {{}, {"A"}} : e \in Answered(m, stop)
  <2>1. PICK stop \in {{}, {"A"}} : e \in Answered(m, stop)
    BY <1>4
  <2>2. stop \subseteq TimerNames
    BY DEF TimerNames
  <2>3. CASE m = "1xx"
    <3>1. \E n \in {"Proceeding", None} : e = Effect(n, {}, stop, {"ProvisionalResponse"})
      BY <1>2, <2>1, <2>3
    <3> QED
      BY <2>2, <3>1 DEF Effect, EffectType, Outputs, Event, State, None
  <2>4. CASE m = "2xx"
    <3>1. e = Effect("Terminated", {}, stop, {"SuccessResponse"})
      BY <1>2, <2>1, <2>4
    <3> QED
      BY <2>2, <3>1 DEF Effect, EffectType, Outputs, Event, State, Outcome
  <2>5. CASE m = "failure"
    <3>1. \/ e = Effect("Completed", {}, stop, {"ACK", "FailureResponse"})
          \/ e = Effect("Terminated", {}, stop, {"TransportError"})
      BY <1>2, <2>1, <2>5
    <3> QED
      BY <2>2, <3>1 DEF Effect, EffectType, Outputs, Event, State, Outcome
  <2>6. CASE m = "unackable"
    <3>1. e = Effect("Terminated", {}, stop, {})
      BY <1>2, <2>1, <2>6
    <3> QED
      BY <2>2, <2>6, <3>1 DEF Effect, EffectType, State
  <2> QED
    BY <1>1, <2>3, <2>4, <2>5, <2>6
<1>5. CASE e.next = None /\ e \in {Effect(None, {}, {}, {"ACK"}),
                                   Effect(None, {}, {}, {"TransportError"}),
                                   Effect(None, {}, {}, {})}
  BY <1>5 DEF Effect, EffectType, Outputs, Event, State, TimerNames, Outcome, None
<1> QED
  BY <1>3, <1>4, <1>5 DEF Effect

-----------------------------------------------------------------------------
(* Type correctness.                                                       *)

\* A transaction is created with an empty channel and idle timers.
LEMMA TypeInit == Init => TypeOK
<1> SUFFICES ASSUME Init PROVE TypeOK
  OBVIOUS
<1>1. queue \in Seq(Command(TimerNames, Responses)) /\ Len(queue) <= Capacity
  BY EmptySeq, CapacityAssumption DEF Init, Init0, RunnerInit
<1>2. tasks \in [TimerNames -> TaskPhase]
  BY DEF Init, Init0, RunnerInit, TaskPhase
<1>3. runner \in Place(TimerNames)
  BY DEF Init, Init0, RunnerInit, Place
<1>4. arrivals \in 0..MaxArrivals
  BY MaxArrivalsAssumption DEF Init, Init0, RunnerInit
<1> QED
  BY <1>1, <1>2, <1>3, <1>4
     DEF Init, Init0, RunnerInit, TypeOK, RunnerType, State, Lifecycle

\* Every step of the runner, the timer tasks and the manager keeps the types.
LEMMA TypeStep == TypeOK /\ [Next]_vars => TypeOK'
<1> SUFFICES ASSUME TypeOK, [Next]_vars PROVE TypeOK'
  OBVIOUS
<1>t. RunnerType(TimerNames, Responses, Outputs) /\ initiated \in BOOLEAN
  BY DEF TypeOK
<1>o. Event \subseteq Outputs
  BY DEF Outputs
<1>1. CASE Loop
  <2>1. UNCHANGED initiated
    BY <1>1 DEF Loop
  <2>2. CASE IgnoreTransition \/ RejectTransition(Kind) \/ EnterStateUnheard(Kind) \/ RunTerminate
    BY <1>t, <1>o, <2>1, <2>2, RefusalType DEF TypeOK
  <2>3. CASE SelfSend \/ SelfSendFailed \/ ArmTimers \/ Unregister \/ LoopEnd
    BY <1>t, <1>o, <2>1, <2>3, BetweenCommandsType DEF TypeOK
  <2>4. CASE \E s \in State : EnterState(Kind, s, OnEnter(s))
    <3>1. PICK s \in State : \E e \in OnEnter(s) :
            /\ Receive(TransitionTo(s)) /\ Abort(Timers) /\ state' = s
            /\ lifecycle' = IF s = "Terminated" THEN "Terminating" ELSE lifecycle
            /\ grace' = IF s = "Terminated" THEN "waiting" ELSE grace
            /\ runner' = e.then /\ Emit(e.sent) /\ UNCHANGED loopFrame
      BY <2>4 DEF EnterState
    <3>2. \A e \in OnEnter(s) : e \in EntryType(TimerNames, Outputs)
      BY OnEnterTyped
    <3> QED
      BY <1>t, <2>1, <3>1, <3>2, EntryTypeLemma DEF TypeOK
  <2>5. CASE \E t \in TimerNames : RunTimer(t, HandleTimer(t))
    <3>1. PICK t \in TimerNames : \E e \in HandleTimer(t) :
            /\ Receive(Timer(t)) /\ Apply(e)
            /\ UNCHANGED <<state, lifecycle, grace>> /\ UNCHANGED loopFrame
      BY <2>5 DEF RunTimer
    <3>2. \A e \in HandleTimer(t) : e \in EffectType(TimerNames, Outputs)
      BY HandleTimerTyped
    <3> QED
      BY <1>t, <2>1, <3>1, <3>2, ApplyType DEF TypeOK
  <2>6. CASE \E m \in Responses : RunMessage(m, ProcessResponse(m))
    <3>1. PICK m \in Responses : \E e \in ProcessResponse(m) :
            /\ Receive(ProcessMessage(m)) /\ Apply(e)
            /\ UNCHANGED <<state, lifecycle, grace>> /\ UNCHANGED loopFrame
      BY <2>6 DEF RunMessage
    <3>2. \A e \in ProcessResponse(m) : e \in EffectType(TimerNames, Outputs)
      BY ProcessResponseTyped
    <3> QED
      BY <1>t, <2>1, <3>1, <3>2, ApplyType DEF TypeOK
  <2> QED
    BY <1>1, <2>2, <2>3, <2>4, <2>5, <2>6 DEF Loop, LoopStep
<1>2. CASE Tasks
  BY <1>2, <1>t, TimerStepType, GraceType DEF Tasks, TypeOK
<1>3. CASE Manager
  <2>1. CASE Respond \/ Deliver \/ StopRequested
    BY <1>3, <2>1, <1>t, ManagerType DEF Manager, Respond, TypeOK
  <2>2. CASE DeliverClosed(Reported(dispatch))
    <3>1. Reported(dispatch) \subseteq Outputs
      BY DEF Reported, Outputs, Event
    <3> QED
      BY <1>3, <2>2, <3>1, <1>t, DeliverClosedType DEF Manager, DeliverClosed, TypeOK
  <2> QED
    BY <1>3, <2>1, <2>2 DEF Manager
<1>4. CASE User
  BY <1>4, <1>t, ManagerType DEF User, TypeOK
<1>5. CASE Initiate("Calling")
  <2>1. TransitionTo("Calling") \in Command(TimerNames, Responses)
    BY DEF Command, TransitionTo, State
  <2>2. queue' \in Seq(Command(TimerNames, Responses)) /\ Len(queue') <= Capacity
    BY <1>5, <1>t, <2>1, SendLemma DEF Initiate, RunnerType
  <2> QED
    BY <1>5, <1>t, <2>2 DEF Initiate, RunnerType, TypeOK, Silent
<1>6. CASE UNCHANGED vars
  BY <1>6 DEF vars, runnerVars, TypeOK, RunnerType
<1> QED
  BY <1>1, <1>2, <1>3, <1>4, <1>5, <1>6 DEF Next

\* Type correctness: every command in the channel is one the runner knows, the
\* channel never exceeds its capacity, and the runner never asks itself for a
\* state that does not exist.
THEOREM TypeCorrect == Spec => []TypeOK
BY TypeInit, TypeStep, PTL DEF Spec

-----------------------------------------------------------------------------
(* The transaction only moves forward.                                     *)

\* Terminated is the last state, and every state has a rank.
LEMMA Ranks ==
  ASSUME NEW s \in State
  PROVE  Rank(s) \in Nat /\ Rank("Terminated") >= Rank(s)
BY DEF State, Rank

\* No step lowers the rank of the state.
LEMMA AdvanceStep ==
  ASSUME TypeOK, [Next]_vars
  PROVE  Rank(state') >= Rank(state)
<1>1. state \in State
  BY DEF TypeOK, RunnerType
<1>2. CASE state' = state
  BY <1>1, <1>2, Ranks
<1>3. CASE state' = "Terminated"
  BY <1>1, <1>3, Ranks
<1>4. CASE \E s \in State : EnterState(Kind, s, OnEnter(s))
  <2>1. state' \in State /\ ValidTransition(Kind, state, state')
    BY <1>4 DEF EnterState, Accepts
  <2> QED
    BY <1>1, <2>1, TransitionsAdvance DEF Kind, TransactionKind
<1>5. CASE Loop
  <2>1. \/ UNCHANGED state \/ state' = "Terminated"
        \/ \E s \in State : EnterState(Kind, s, OnEnter(s))
    BY <1>5 DEF Loop, LoopStep, IgnoreTransition, RejectTransition, EnterStateUnheard,
                RunTimer, RunMessage, RunTerminate, SelfSend, SelfSendFailed, ArmTimers,
                Unregister, LoopEnd
  <2> QED
    BY <2>1, <1>2, <1>3, <1>4
<1>6. CASE Tasks \/ Manager \/ User \/ Initiate("Calling") \/ UNCHANGED vars
  <2>1. UNCHANGED state
    BY <1>6 DEF Tasks, TimerStep, FireManaged, Unblock, FireTransition, SendTransition,
                taskFrame, GraceExpires, DrainExpires, graceFrame, Manager, Respond, Accept,
                Deliver, DeliverClosed, StopRequested, envFrame, User, TuCloses, Initiate,
                vars, runnerVars
  <2> QED
    BY <2>1, <1>2
<1> QED
  BY <1>5, <1>6 DEF Next

\* A transaction never goes back to a state it has left, in whatever order
\* stale TransitionTo commands reach the runner.
THEOREM AdvanceTheorem == Spec => StatesAdvance
<1>1. TypeOK /\ [Next]_vars => [Rank(state') >= Rank(state)]_vars
  BY AdvanceStep
<1> QED
  BY <1>1, TypeCorrect, PTL DEF Spec, StatesAdvance

-----------------------------------------------------------------------------
(* The TU learns how the transaction ends.                                 *)
(*                                                                         *)
(* OutcomeReported is not inductive: Terminated is entered by a command    *)
(* that was queued long before, by a timer task that was started before    *)
(* that, or by the grace period.  EndingSettled says the TU knew already   *)
(* when the first of these was set in motion.                              *)

\* The command the runner takes off the channel, and those it leaves there,
\* were queued: if none of them ends the transaction, none of the rest does.
LEMMA ReceiveCalm ==
  ASSUME TypeOK, NEW c, Receive(c), \A i \in 1..Len(queue) : queue[i] \notin EndCommand
  PROVE  c \notin EndCommand /\ \A i \in 1..Len(queue') : queue'[i] \notin EndCommand
BY ReceiveAvoids DEF TypeOK, RunnerType

\* A send of any other command leaves the channel without an ending command.
LEMMA SendCalm ==
  ASSUME TypeOK, NEW c \in Command(TimerNames, Responses), Send(c), c \notin EndCommand,
         \A i \in 1..Len(queue) : queue[i] \notin EndCommand
  PROVE  \A i \in 1..Len(queue') : queue'[i] \notin EndCommand
BY SendAvoids DEF TypeOK, RunnerType

\* Timer commands, responses and the first TransitionTo end nothing.
LEMMA CalmCommands ==
  /\ \A t \in TimerNames : /\ Timer(t) \in Command(TimerNames, Responses)
                           /\ Timer(t) \notin EndCommand
  /\ \A m \in Responses : /\ ProcessMessage(m) \in Command(TimerNames, Responses)
                          /\ ProcessMessage(m) \notin EndCommand
  /\ TransitionTo("Calling") \in Command(TimerNames, Responses)
  /\ TransitionTo("Calling") \notin EndCommand
BY DEF Timer, ProcessMessage, TransitionTo, Terminate, EndCommand, Command, State

\* An outcome that is sent while the TU listens is remembered.
LEMMA EmitOutcome ==
  ASSUME tu, NEW o, Emit(o), o \cap Outcome # {}
  PROVE  told' \cap Outcome # {}
BY DEF Emit, Notable

\* Nothing the TU was told is forgotten, and neither the TU's receiver nor
\* the manager's reference comes back.
LEMMA NothingForgotten ==
  ASSUME TypeOK, [Next]_vars
  PROVE  told \subseteq told' /\ (tu' => tu) /\ (held' => held)
<1>1. \/ \E o : Emit(o)
      \/ Silent
      \/ UNCHANGED told
  BY DEF Next, Loop, LoopStep, IgnoreTransition, RejectTransition, EnterState,
         EnterStateUnheard, RunTimer, RunMessage, Apply, RunTerminate, SelfSend,
         SelfSendFailed, ArmTimers, Unregister, LoopEnd, Tasks, TimerStep, FireManaged,
         Unblock, FireTransition, SendTransition, GraceExpires, DrainExpires, Manager,
         Respond, Accept, Deliver, DeliverClosed, StopRequested, User, TuCloses,
         Initiate, vars, runnerVars
<1>2. told \subseteq told'
  BY <1>1 DEF Emit, Silent
<1>3. (tu' => tu) /\ (held' => held)
  BY DEF Next, Loop, LoopStep, IgnoreTransition, RejectTransition, EnterState,
         EnterStateUnheard, RunTimer, RunMessage, RunTerminate, SelfSend,
         SelfSendFailed, ArmTimers, Unregister, LoopEnd, Tasks, TimerStep, FireManaged,
         Unblock, FireTransition, SendTransition, GraceExpires, DrainExpires, Manager,
         Respond, Accept, Deliver, DeliverClosed, StopRequested, User, TuCloses,
         Initiate, vars, runnerVars, loopFrame, taskFrame, graceFrame, envFrame
<1> QED
  BY <1>2, <1>3

\* Wherever the runner rests it asks for no state and arms no timer.
LEMMA RestCalm ==
  \A r \in {Recv, Exiting, Stopped, Unregistering, Rest} :
    r.to \notin {"Completed", "Terminated"} /\ "D" \notin r.arm
BY DEF Rest, Recv, Exiting, Stopped, Unregistering, At, None

\* A handler of the logic sets the end in motion only together with a report
\* of an outcome, provided every failure response can be acknowledged.
LEMMA HandlersReport ==
  ASSUME "unackable" \notin Responses
  PROVE  /\ \A t \in TimerNames : \A e \in HandleTimer(t) :
              /\ e.next \in {"Completed", "Terminated"} => e.sent \cap Outcome # {}
              /\ "D" \notin e.arm
         /\ \A m \in Responses : \A e \in ProcessResponse(m) :
              /\ e.next \in {"Completed", "Terminated"} => e.sent \cap Outcome # {}
              /\ "D" \notin e.arm
<1>1. ASSUME NEW t \in TimerNames, NEW e \in HandleTimer(t)
      PROVE  /\ e.next \in {"Completed", "Terminated"} => e.sent \cap Outcome # {}
             /\ "D" \notin e.arm
  <2>1. \/ e = Effect(None, {"A"}, {}, {"INVITE", "TimerTriggered"})
        \/ e = Effect("Terminated", {}, {}, {"TransportError", "TimerTriggered"})
        \/ e = Effect("Terminated", {}, {}, {"TransactionTimeout", "TimerTriggered"})
        \/ e = Effect(None, {}, {}, {"TimerTriggered"})
    BY <1>1 DEF HandleTimer, HandleTimerA, HandleTimerB, OnlyTriggered, TimerNames
  <2> QED
    BY <2>1 DEF Effect, Outcome, None
<1>2. ASSUME NEW m \in Responses, NEW e \in ProcessResponse(m)
      PROVE  /\ e.next \in {"Completed", "Terminated"} => e.sent \cap Outcome # {}
             /\ "D" \notin e.arm
  <2>1. m # "unackable"
    OBVIOUS
  <2> QED
    BY <1>2, <2>1, ProcessResponseTyped
<1> QED
  BY <1>1, <1>2

\* The step of a handler from a state in which no end is on its way.
LEMMA ApplySettled ==
  ASSUME TypeOK, ~Ending, tu, NEW c, Receive(c), NEW e, Apply(e),
         e.next \in {"Completed", "Terminated"} => e.sent \cap Outcome # {},
         "D" \notin e.arm, UNCHANGED <<state, grace>>
  PROVE  ~Ending' \/ told' \cap Outcome # {}
<1>1. CASE e.next \in {"Completed", "Terminated"}
  BY <1>1, EmitOutcome DEF Apply
<1>2. CASE e.next \notin {"Completed", "Terminated"}
  <2>1. runner'.to \notin {"Completed", "Terminated"} /\ "D" \notin runner'.arm
    BY <1>2, RestCalm DEF Apply, Sending, Arming, At, None
  <2>2. \A i \in 1..Len(queue') : queue'[i] \notin EndCommand
    BY ReceiveCalm DEF Ending
  <2>3. tasks'["D"] = "idle"
    BY AbortLemma DEF Apply, Ending, TypeOK, RunnerType, TimerNames
  <2> QED
    BY <2>1, <2>2, <2>3 DEF Ending
<1> QED
  BY <1>1, <1>2

\* The loop's steps, from a state in which no end is on its way.
LEMMA LoopSettled ==
  ASSUME TypeOK, "unackable" \notin Responses, ~Ending, tu, Loop
  PROVE  ~Ending' \/ told' \cap Outcome # {}
<1>c. \A i \in 1..Len(queue) : queue[i] \notin EndCommand
  BY DEF Ending
<1>d. /\ state \notin {"Completed", "Terminated"} /\ grace = "none" /\ tasks["D"] = "idle"
      /\ runner.to \notin {"Completed", "Terminated"} /\ "D" \notin runner.arm
  BY DEF Ending
<1>t. tasks \in [TimerNames -> TaskPhase] /\ Timers = TimerNames /\ "D" \in TimerNames
  BY DEF TypeOK, RunnerType, Timers, TimerNames
<1>1. CASE IgnoreTransition \/ RejectTransition(Kind)
  <2>1. \A i \in 1..Len(queue') : queue'[i] \notin EndCommand
    BY <1>1, <1>c, ReceiveCalm DEF IgnoreTransition, RejectTransition
  <2> QED
    BY <1>1, <1>d, <2>1 DEF IgnoreTransition, RejectTransition, Ending
<1>2. CASE \E s \in State : EnterState(Kind, s, OnEnter(s))
  <2>1. PICK s \in State : \E e \in OnEnter(s) :
          /\ Receive(TransitionTo(s)) /\ Abort(Timers) /\ state' = s
          /\ grace' = IF s = "Terminated" THEN "waiting" ELSE grace
          /\ runner' = e.then /\ Emit(e.sent)
    BY <1>2 DEF EnterState
  <2>2. /\ TransitionTo(s) \notin EndCommand
        /\ \A i \in 1..Len(queue') : queue'[i] \notin EndCommand
    BY <2>1, <1>c, ReceiveCalm
  <2>3. s \notin {"Completed", "Terminated"}
    BY <2>2 DEF EndCommand
  <2>4. tasks'["D"] = "idle"
    BY <2>1, <1>d, <1>t, AbortLemma
  <2>5. PICK e \in OnEnter(s) : runner' = e.then /\ Emit(e.sent)
    BY <2>1
  <2>6. \/ e = Entry(SendingFailed("Terminated"), {"TransportError"})
        \/ e = Entry(Arming({"A", "B"}), {"INVITE"})
        \/ e = Entry(Rest, {})
    BY <2>3, <2>5 DEF OnEnter, EnterCalling, State
  <2>7. CASE e = Entry(SendingFailed("Terminated"), {"TransportError"})
    BY <2>5, <2>7, EmitOutcome DEF Entry, Outcome
  <2>8. CASE e = Entry(Arming({"A", "B"}), {"INVITE"}) \/ e = Entry(Rest, {})
    <3>1. runner'.to \notin {"Completed", "Terminated"} /\ "D" \notin runner'.arm
      BY <2>5, <2>8, RestCalm DEF Entry, Arming, At, None
    <3> QED
      BY <1>d, <2>1, <2>2, <2>3, <2>4, <3>1 DEF Ending
  <2> QED
    BY <2>6, <2>7, <2>8
<1>3. CASE EnterStateUnheard(Kind)
  BY <1>3 DEF EnterStateUnheard
<1>4. CASE \E t \in TimerNames : RunTimer(t, HandleTimer(t))
  <2>1. PICK t \in TimerNames : \E e \in HandleTimer(t) :
          Receive(Timer(t)) /\ Apply(e) /\ UNCHANGED <<state, grace>>
    BY <1>4 DEF RunTimer
  <2> QED
    BY <2>1, HandlersReport, ApplySettled
<1>5. CASE \E m \in Responses : RunMessage(m, ProcessResponse(m))
  <2>1. PICK m \in Responses : \E e \in ProcessResponse(m) :
          Receive(ProcessMessage(m)) /\ Apply(e) /\ UNCHANGED <<state, grace>>
    BY <1>5 DEF RunMessage
  <2> QED
    BY <2>1, HandlersReport, ApplySettled
<1>6. CASE RunTerminate
  <2>1. Terminate \notin EndCommand
    BY <1>6, <1>c, ReceiveCalm DEF RunTerminate
  <2> QED
    BY <2>1 DEF EndCommand
<1>7. CASE SelfSend \/ SelfSendFailed
  <2>1. runner.to \in State /\ Send(TransitionTo(runner.to))
    BY <1>7 DEF SelfSend, SelfSendFailed, TypeOK, RunnerType, Place, Recv, Unregistering,
                Exiting, Stopped, At
  <2>2. /\ TransitionTo(runner.to) \in Command(TimerNames, Responses)
        /\ TransitionTo(runner.to) \notin EndCommand
    BY <1>d, <2>1 DEF TransitionTo, Command, EndCommand, Terminate
  <2>3. \A i \in 1..Len(queue') : queue'[i] \notin EndCommand
    BY <1>c, <2>1, <2>2, SendCalm
  <2>4. runner' = Rest /\ UNCHANGED <<state, tasks, grace>>
    BY <1>7 DEF SelfSend, SelfSendFailed
  <2> QED
    BY <1>d, <2>3, <2>4, RestCalm DEF Ending
<1>8. CASE ArmTimers
  <2>1. tasks'["D"] = "idle" /\ runner' = Rest /\ UNCHANGED <<state, queue, grace>>
    BY <1>8, <1>d, <1>t DEF ArmTimers
  <2> QED
    BY <1>d, <1>c, <2>1, RestCalm DEF Ending
<1>9. CASE Unregister
  BY <1>9, <1>d, <1>c, RestCalm DEF Unregister, Ending
<1>10. CASE LoopEnd
  <2>1. tasks'["D"] = "idle"
    BY <1>10, <1>d, <1>t, AbortLemma DEF LoopEnd
  <2>2. \A i \in 1..Len(queue') : queue'[i] \notin EndCommand
    BY <1>10 DEF LoopEnd
  <2> QED
    BY <1>10, <1>d, <2>1, <2>2, RestCalm DEF LoopEnd, Ending
<1> QED
  BY <1>1, <1>2, <1>3, <1>4, <1>5, <1>6, <1>7, <1>8, <1>9, <1>10 DEF Loop, LoopStep

\* The steps of the other tasks: none of them starts an end the TU may still
\* be waiting for.  The manager's own stop request gives the reference up.
LEMMA EnvironmentCalm ==
  ASSUME TypeOK, ~Ending, held', Tasks \/ Manager \/ User \/ Initiate("Calling")
  PROVE  ~Ending'
<1>c. \A i \in 1..Len(queue) : queue[i] \notin EndCommand
  BY DEF Ending
<1>d. /\ state \notin {"Completed", "Terminated"} /\ grace = "none" /\ tasks["D"] = "idle"
      /\ runner.to \notin {"Completed", "Terminated"} /\ "D" \notin runner.arm
  BY DEF Ending
<1>t. tasks \in [TimerNames -> TaskPhase] /\ Timers = TimerNames
  BY DEF TypeOK, RunnerType, Timers
<1>1. CASE TimerStep
  <2>1. PICK t \in TimerNames : \/ FireManaged(t) \/ Unblock(t)
                                \/ FireTransition(t) \/ SendTransition(t)
    BY <1>1, <1>t DEF TimerStep
  <2>2. t # "D" /\ t \notin TransitionTimer
    BY <2>1, <1>d DEF FireManaged, Unblock, FireTransition, SendTransition,
                      TransitionTimer, TimerNames
  <2>3. FireManaged(t) \/ Unblock(t)
    BY <2>1, <2>2 DEF FireTransition, SendTransition
  <2>4. UNCHANGED queue \/ Send(Timer(t))
    BY <2>3 DEF FireManaged, Unblock
  <2>5. \A i \in 1..Len(queue') : queue'[i] \notin EndCommand
    <3>1. CASE UNCHANGED queue
      BY <3>1, <1>c
    <3>2. CASE Send(Timer(t))
      BY <3>2, <1>c, CalmCommands, SendCalm
    <3> QED
      BY <2>4, <3>1, <3>2
  <2>6. tasks'["D"] = tasks["D"]
    BY <2>2, <2>3, <1>t DEF FireManaged, Unblock, SetTask, TimerNames
  <2>7. UNCHANGED <<state, runner, grace>>
    BY <2>3 DEF FireManaged, Unblock, taskFrame
  <2> QED
    BY <1>d, <2>5, <2>6, <2>7 DEF Ending
<1>2. CASE GraceExpires \/ DrainExpires
  BY <1>2, <1>d DEF GraceExpires, DrainExpires
<1>3. CASE Respond \/ DeliverClosed(Reported(dispatch)) \/ TuCloses
  <2>1. UNCHANGED <<state, runner, tasks, grace, queue>>
    BY <1>3 DEF Respond, Accept, DeliverClosed, TuCloses, envFrame
  <2> QED
    BY <1>c, <1>d, <2>1 DEF Ending
<1>4. CASE Deliver
  <2>1. dispatch \in Responses /\ Send(ProcessMessage(dispatch))
    BY <1>4 DEF Deliver, TypeOK, RunnerType
  <2>2. \A i \in 1..Len(queue') : queue'[i] \notin EndCommand
    BY <1>c, <2>1, CalmCommands, SendCalm
  <2> QED
    BY <1>4, <1>d, <2>2 DEF Deliver, envFrame, Ending
<1>5. CASE StopRequested
  BY <1>5 DEF StopRequested
<1>6. CASE Initiate("Calling")
  <2>1. \A i \in 1..Len(queue') : queue'[i] \notin EndCommand
    BY <1>6, <1>c, CalmCommands, SendCalm DEF Initiate
  <2> QED
    BY <1>6, <1>d, <2>1 DEF Initiate, Ending
<1> QED
  BY <1>1, <1>2, <1>3, <1>4, <1>5, <1>6 DEF Tasks, Manager, User

\* EndingSettled is inductive.
LEMMA SettledStep ==
  ASSUME TypeOK, "unackable" \notin Responses, EndingSettled, [Next]_vars
  PROVE  EndingSettled'
<1> SUFFICES ASSUME tu', held', Ending' PROVE told' \cap Outcome # {}
  BY DEF EndingSettled
<1>1. told \subseteq told' /\ tu /\ held
  BY NothingForgotten
<1>2. CASE Ending
  BY <1>1, <1>2 DEF EndingSettled
<1>3. CASE ~Ending /\ Loop
  BY <1>1, <1>3, LoopSettled
<1>4. CASE ~Ending /\ (Tasks \/ Manager \/ User \/ Initiate("Calling"))
  BY <1>4, EnvironmentCalm
<1>5. CASE ~Ending /\ UNCHANGED vars
  BY <1>5 DEF vars, runnerVars, Ending
<1> QED
  BY <1>2, <1>3, <1>4, <1>5 DEF Next

\* No step of the transaction starts its end, or leaves a command, a timer or a
\* grace period behind that will, before the TU was told why (process_response,
\* handle_timer_b_trigger, handle_calling_state), if every failure response can
\* be acknowledged.
THEOREM EndingTheorem ==
  ASSUME "unackable" \notin Responses
  PROVE  Spec => []EndingSettled
<1>1. Init => EndingSettled
  <2>1. ASSUME Init PROVE ~Ending
    BY <2>1 DEF Init, Init0, RunnerInit, Ending, TimerNames, Recv, At, None
  <2> QED
    BY <2>1 DEF EndingSettled
<1>2. TypeOK /\ EndingSettled /\ [Next]_vars => EndingSettled'
  BY SettledStep
<1> QED
  BY <1>1, <1>2, TypeCorrect, PTL DEF Spec

\* The TU never loses an INVITE: as long as it listens and the manager holds the
\* transaction, Terminated is reached only after a final response, a timeout or
\* a transport error was reported, if every failure response can be
\* acknowledged (process_response ends silently for one that cannot be).
THEOREM OutcomeTheorem ==
  ASSUME "unackable" \notin Responses
  PROVE  Spec => []OutcomeReported
<1>1. EndingSettled => OutcomeReported
  BY DEF EndingSettled, OutcomeReported, Ending
<1> QED
  BY <1>1, EndingTheorem, PTL

-----------------------------------------------------------------------------
(* The transaction implements RequestContract.                             *)

\* Entering Terminated tells the TU nothing, and is a step of the runner alone.
LEMMA TerminatedSilently ==
  ASSUME TypeOK, [Next]_vars, state # "Terminated", state' = "Terminated"
  PROVE  told' \cap Outcome = told \cap Outcome /\ UNCHANGED <<tu, held>>
<1>1. Loop
  BY DEF Next, Tasks, TimerStep, FireManaged, Unblock, FireTransition, SendTransition,
         taskFrame, GraceExpires, DrainExpires, graceFrame, Manager, Respond, Accept,
         Deliver, DeliverClosed, StopRequested, envFrame, User, TuCloses, Initiate,
         vars, runnerVars
<1>2. UNCHANGED <<tu, held>>
  BY <1>1 DEF Loop, LoopStep, IgnoreTransition, RejectTransition, EnterState,
              EnterStateUnheard, RunTimer, RunMessage, RunTerminate, SelfSend,
              SelfSendFailed, ArmTimers, Unregister, LoopEnd, loopFrame
<1>3. \/ \E e \in OnEnter("Terminated") : Emit(e.sent)
      \/ Emit({"Error"})
      \/ Silent
  BY <1>1 DEF Loop, LoopStep, IgnoreTransition, RejectTransition, EnterState,
              EnterStateUnheard, RunTimer, RunMessage, RunTerminate, SelfSend,
              SelfSendFailed, ArmTimers, Unregister, LoopEnd
<1>4. \A e \in OnEnter("Terminated") : e.sent = {}
  BY DEF OnEnter, Entry
<1>5. CASE Emit({}) \/ Emit({"Error"})
  BY <1>2, <1>5 DEF Emit, Outcome, Notable
<1> QED
  BY <1>2, <1>3, <1>4, <1>5 DEF Silent

\* Losing the TU or the manager's reference changes nothing else.
LEMMA AbandonedSilently ==
  ASSUME TypeOK, [Next]_vars, ~(UNCHANGED <<tu, held>>)
  PROVE  told' = told /\ state' = state
<1>1. StopRequested \/ TuCloses
  BY DEF Next, Loop, LoopStep, IgnoreTransition, RejectTransition, EnterState,
         EnterStateUnheard, RunTimer, RunMessage, RunTerminate, SelfSend,
         SelfSendFailed, ArmTimers, Unregister, LoopEnd, Tasks, TimerStep, FireManaged,
         Unblock, FireTransition, SendTransition, GraceExpires, DrainExpires, Manager,
         Respond, Accept, Deliver, DeliverClosed, User,
         Initiate, vars, runnerVars, loopFrame, taskFrame, graceFrame, envFrame
<1> QED
  BY <1>1 DEF StopRequested, TuCloses, Silent, envFrame

\* Every step is a step of the contract, or stutters.
LEMMA ContractStep ==
  ASSUME TypeOK, EndingSettled', [Next]_vars
  PROVE  [Contract!Next]_(Contract!contractVars)
<1>1. told \subseteq told' /\ (tu' => tu) /\ (held' => held)
  BY NothingForgotten
<1>2. state = "Terminated" => state' = "Terminated"
  <2>1. Rank(state') >= Rank(state)
    BY AdvanceStep
  <2>2. state' \in State
    BY TypeStep DEF TypeOK, RunnerType
  <2> QED
    BY <2>1, <2>2 DEF State, Rank
<1>3. CASE ~(UNCHANGED <<tu, held>>)
  BY <1>3, <1>1, AbandonedSilently DEF Contract!Next, Contract!Abandon, Contract!contractVars,
     TypeOK, RunnerType
<1>4. CASE UNCHANGED <<tu, held>> /\ state # "Terminated" /\ state' = "Terminated"
  <2>1. told' \cap Outcome = told \cap Outcome
    BY <1>4, TerminatedSilently
  <2>2. tu /\ held => told \cap Outcome # {}
    BY <1>4, <2>1 DEF EndingSettled, Ending
  <2> QED
    BY <1>4, <2>1, <2>2 DEF Contract!Next, Contract!End
<1>5. CASE UNCHANGED <<tu, held>> /\ (state = "Terminated" <=> state' = "Terminated")
  <2>1. told' \cap Outcome = (told \cap Outcome) \cup (told' \cap Outcome)
    BY <1>1
  <2> QED
    BY <1>5, <2>1 DEF Contract!Next, Contract!Report
<1> QED
  BY <1>2, <1>3, <1>4, <1>5

\* The INVITE client transaction keeps the contract of RequestContract towards
\* the TU, if every failure response can be acknowledged.
THEOREM ContractTheorem ==
  ASSUME "unackable" \notin Responses
  PROVE  Spec => KeepsContract
<1>1. Init => Contract!Init
  BY DEF Init, Init0, RunnerInit, Contract!Init, Outcome
<1>2. TypeOK /\ EndingSettled' /\ [Next]_vars => [Contract!Next]_(Contract!contractVars)
  BY ContractStep
<1> QED
  BY <1>1, <1>2, TypeCorrect, EndingTheorem, PTL DEF Spec, KeepsContract, Contract!Spec

-----------------------------------------------------------------------------
(* What the handlers do to the wire, the timers and the state they ask for.*)

\* The states that end Calling.
Later == {"Proceeding", "Completed", "Terminated"}

\* on_enter_state starts Timers A and B with Calling, D with Completed, and
\* unregisters with Terminated.
LEMMA OnEnterForms ==
  ASSUME NEW s \in State, NEW e \in OnEnter(s)
  PROVE  /\ \/ e.then.arm = {}
            \/ s = "Calling" /\ e.then = Arming({"A", "B"})
            \/ s = "Completed" /\ e.then = Arming({"D"})
         /\ s = "Calling" => e.then \in {Arming({"A", "B"}), SendingFailed("Terminated")}
         /\ s = "Completed" => e.then = Arming({"D"})
         /\ e.then.at = "unregister" => s = "Terminated"
         /\ "INVITE" \in e.sent => s = "Calling"
         /\ "ACK" \notin e.sent
<1>1. \/ s = "Calling" /\ e = Entry(Arming({"A", "B"}), {"INVITE"})
      \/ s = "Calling" /\ e = Entry(SendingFailed("Terminated"), {"TransportError"})
      \/ s = "Completed" /\ e = Entry(Arming({"D"}), {})
      \/ s = "Terminated" /\ e = Entry(Unregistering, {})
      \/ s \notin {"Calling", "Completed", "Terminated"} /\ e = Entry(Rest, {})
  BY DEF OnEnter, EnterCalling, State
<1> QED
  BY <1>1 DEF Entry, Arming, SendingFailed, Unregistering, Rest, Recv, Exiting, At

\* handle_timer starts no timer but A, in Calling, when Timer A fired; Timer B
\* ends Calling.
LEMMA HandleTimerForms ==
  ASSUME NEW t \in TimerNames, NEW e \in HandleTimer(t)
  PROVE  /\ e.abort = {}
         /\ e.arm # {} => t = "A" /\ e.arm = {"A"} /\ state = "Calling" /\ e.next = None
         /\ e.next \in {None, "Terminated"}
         /\ t = "B" /\ state = "Calling" => e.next = "Terminated"
         /\ "INVITE" \in e.sent => state = "Calling"
         /\ "ACK" \notin e.sent
<1>1. \/ e = Effect(None, {"A"}, {}, {"INVITE", "TimerTriggered"}) /\ t = "A" /\ state = "Calling"
      \/ e = Effect("Terminated", {}, {}, {"TransportError", "TimerTriggered"})
      \/ e = Effect("Terminated", {}, {}, {"TransactionTimeout", "TimerTriggered"})
      \/ e = Effect(None, {}, {}, {"TimerTriggered"}) /\ ~(t = "B" /\ state = "Calling")
  BY DEF HandleTimer, HandleTimerA, HandleTimerB, OnlyTriggered, TimerNames
<1> QED
  BY <1>1 DEF Effect, None

\* process_response stops no timer but A.
LEMMA ProcessResponseForms ==
  ASSUME NEW m \in Responses, NEW e \in ProcessResponse(m)
  PROVE  /\ e.arm = {} /\ e.abort \subseteq {"A"} /\ e.next \in {None} \cup Later
         /\ "INVITE" \notin e.sent
         /\ "ACK" \in e.sent => state # "Terminated"
<1>1. \A stop \in {{}, {"A"}} : \A f \in Answered(m, stop) :
        \E n \in {None} \cup Later, o \in {{"ProvisionalResponse"}, {"SuccessResponse"},
            {"ACK", "FailureResponse"}, {"TransportError"}, {}} : f = Effect(n, {}, stop, o)
  BY DEF Answered, Later
<1>2. \/ state # "Terminated" /\ \E stop \in {{}, {"A"}} : e \in Answered(m, stop)
      \/ state # "Terminated" /\ e = Effect(None, {}, {}, {"ACK"})
      \/ e = Effect(None, {}, {}, {"TransportError"})
      \/ e = Effect(None, {}, {}, {})
  BY DEF ProcessResponse, Nothing
<1>3. CASE state # "Terminated" /\ \E stop \in {{}, {"A"}} : e \in Answered(m, stop)
  <2>1. PICK stop \in {{}, {"A"}} : e \in Answered(m, stop)
    BY <1>3
  <2>2. PICK n \in {None} \cup Later, o \in {{"ProvisionalResponse"}, {"SuccessResponse"},
               {"ACK", "FailureResponse"}, {"TransportError"}, {}} : e = Effect(n, {}, stop, o)
    BY <1>1, <2>1
  <2>3. e.arm = {} /\ e.abort = stop /\ e.next = n /\ e.sent = o
    BY <2>2 DEF Effect
  <2> QED
    BY <1>3, <2>3
<1> QED
  BY <1>2, <1>3 DEF Effect

\* A step puts an INVITE on the wire only in Initial and Calling, an ACK only
\* before Terminated.
LEMMA WireStep ==
  ASSUME TypeOK, Next
  PROVE  /\ "INVITE" \in out' => state \in {"Initial", "Calling"}
         /\ "ACK" \in out' => state # "Terminated"
<1>e. \A o : Emit(o) => out' \subseteq o
  BY DEF Emit
<1>s. \A o : Emit(o) /\ "INVITE" \notin o /\ "ACK" \notin o =>
               "INVITE" \notin out' /\ "ACK" \notin out'
  BY <1>e
<1>0. Silent => "INVITE" \notin out' /\ "ACK" \notin out'
  BY DEF Silent
<1>1. CASE Loop
  <2>1. CASE \E s \in State : EnterState(Kind, s, OnEnter(s))
    <3>1. PICK s \in State : Accepts(Kind, s) /\ \E e \in OnEnter(s) : Emit(e.sent)
      BY <2>1 DEF EnterState
    <3>2. s = "Calling" => state = "Initial"
      BY <3>1 DEF Accepts, ValidTransition, Successors, Kind, TypeOK, RunnerType, State
    <3> QED
      BY <3>1, <3>2, <1>e, OnEnterForms
  <2>2. CASE \E t \in TimerNames : RunTimer(t, HandleTimer(t))
    BY <2>2, <1>e, HandleTimerForms DEF RunTimer, Apply
  <2>3. CASE \E m \in Responses : RunMessage(m, ProcessResponse(m))
    BY <2>3, <1>e, ProcessResponseForms DEF RunMessage, Apply
  <2>4. CASE LoopStep(Kind)
    <3>1. Silent \/ Emit({}) \/ Emit({"Error"}) \/ Emit({"TransactionTerminated"})
      BY <2>4 DEF LoopStep, IgnoreTransition, RejectTransition, EnterStateUnheard, RunTerminate, SelfSend,
                  SelfSendFailed, ArmTimers, Unregister, LoopEnd
    <3> QED
      BY <3>1, <1>s, <1>0
  <2> QED
    BY <1>1, <2>1, <2>2, <2>3, <2>4 DEF Loop
<1>2. CASE Tasks \/ Manager \/ User \/ Initiate("Calling")
  <2>1. Silent \/ Emit(Reported(dispatch))
    BY <1>2 DEF Tasks, TimerStep, FireManaged, Unblock, FireTransition, SendTransition, GraceExpires,
                DrainExpires, Manager, Respond, Accept, Deliver, DeliverClosed, StopRequested, User,
                TuCloses, Initiate
  <2>2. "INVITE" \notin Reported(dispatch) /\ "ACK" \notin Reported(dispatch)
    BY DEF Reported
  <2> QED
    BY <2>1, <2>2, <1>s, <1>0
<1> QED
  BY <1>1, <1>2 DEF Next

\* Timer A commands and responses that are still queued when the transaction
\* has moved on put nothing on the wire.
THEOREM WireTheorem == Spec => WireDiscipline
<1>1. TypeOK /\ [Next]_vars =>
        [/\ "INVITE" \in out' => state \in {"Initial", "Calling"}
         /\ "ACK" \in out' => state # "Terminated"]_vars
  BY WireStep
<1> QED
  BY <1>1, TypeCorrect, PTL DEF Spec, WireDiscipline

-----------------------------------------------------------------------------
(* A timer has one task.                                                   *)
(*                                                                         *)
(* NoOrphanTimer is not inductive: that Timer A is not running when it is  *)
(* started again needs that its command was in the channel once, and that  *)
(* B and D are not needs that their states are entered once.               *)

\* Before its state is entered a timer was never started.
Fresh ==
  /\ state = "Initial" =>
       runner.arm = {} /\ \A t \in TimerNames : tasks[t] = "idle" /\ ~Queued(Timer(t))
  /\ state \notin {"Completed", "Confirmed", "Terminated"} =>
       "D" \notin runner.arm /\ tasks["D"] = "idle" /\ ~Queued(Timer("D"))

\* Timer A's task is running, or its command is queued once, or neither.
OneTimerA == Once(Timer("A")) /\ (tasks["A"] # "idle" => ~Queued(Timer("A")))

TimersOK == TypeOK /\ Fresh /\ OneTimerA /\ NoOrphanTimer

\* The state is only left forward.
LEMMA StatesFresh ==
  ASSUME TypeOK, [Next]_vars
  PROVE  /\ state' = "Initial" => state = "Initial"
         /\ state' \notin {"Completed", "Confirmed", "Terminated"} =>
              state \notin {"Completed", "Confirmed", "Terminated"}
<1>1. state \in State /\ state' \in State
  BY TypeStep DEF TypeOK, RunnerType
<1>2. Rank(state') >= Rank(state)
  BY AdvanceStep
<1> QED
  BY <1>1, <1>2 DEF State, Rank

\* Taking a command, and sending one that is no timer's, starts no timer.
LEMMA ChannelTimers ==
  ASSUME TypeOK, OneTimerA,
         \/ UNCHANGED queue \/ queue' = <<>> \/ (\E c : Receive(c))
         \/ \E c \in Command(TimerNames, Responses) : Send(c) /\ \A t \in TimerNames : c # Timer(t)
  PROVE  /\ \A t \in TimerNames : ~Queued(Timer(t)) => ~Queued(Timer(t))'
         /\ Once(Timer("A"))'
<1>q. queue \in Seq(Command(TimerNames, Responses)) /\ Len(queue) <= Capacity
  BY DEF TypeOK, RunnerType
<1>1. Once(Timer("A")) /\ "A" \in TimerNames
  BY DEF OneTimerA, TimerNames
<1>2. CASE UNCHANGED queue
  BY <1>1, <1>2 DEF Queued, Once
<1>3. CASE queue' = <<>>
  BY <1>3 DEF Queued, Once
<1>4. CASE \E c : Receive(c)
  <2>1. PICK c : Receive(c)
    BY <1>4
  <2>2. ASSUME NEW t \in TimerNames, ~Queued(Timer(t)) PROVE ~Queued(Timer(t))'
    <3>1. \A i \in 1..Len(queue) : queue[i] \notin {Timer(t)}
      BY <2>2 DEF Queued
    <3>2. \A i \in 1..Len(queue') : queue'[i] \notin {Timer(t)}
      BY <1>q, <2>1, <3>1, ReceiveAvoids
    <3> QED
      BY <3>2 DEF Queued
  <2>3. Once(Timer("A"))'
    BY <1>q, <1>1, <2>1, ReceiveOnce
  <2> QED
    BY <2>2, <2>3
<1>5. CASE \E c \in Command(TimerNames, Responses) : Send(c) /\ \A t \in TimerNames : c # Timer(t)
  <2>1. PICK c \in Command(TimerNames, Responses) : Send(c) /\ \A t \in TimerNames : c # Timer(t)
    BY <1>5
  <2>2. ASSUME NEW t \in TimerNames, ~Queued(Timer(t)) PROVE ~Queued(Timer(t))'
    <3>1. (\A i \in 1..Len(queue) : queue[i] \notin {Timer(t)}) /\ c \notin {Timer(t)}
      BY <2>1, <2>2 DEF Queued
    <3>2. \A i \in 1..Len(queue') : queue'[i] \notin {Timer(t)}
      BY <1>q, <2>1, <3>1, SendAvoids
    <3> QED
      BY <3>2 DEF Queued
  <2>3. Once(Timer("A"))'
    BY <1>q, <1>1, <2>1, SendOnce
  <2> QED
    BY <2>2, <2>3
<1> QED
  BY <1>2, <1>3, <1>4, <1>5

\* A step that starts no timer's task and sends no timer's command, and that
\* is about to start only timers that were never started or have just fired.
LEMMA TimersKept ==
  ASSUME TimersOK, [Next]_vars,
         \A t \in TimerNames : tasks[t] = "idle" => tasks'[t] = "idle",
         \A t \in TimerNames : ~Queued(Timer(t)) => ~Queued(Timer(t))',
         Once(Timer("A"))',
         \A t \in runner'.arm : t \in TimerNames /\ tasks[t] = "idle" /\ ~Queued(Timer(t))',
         state' = "Initial" => runner'.arm = {},
         state' \notin {"Completed", "Confirmed", "Terminated"} => "D" \notin runner'.arm
  PROVE  TimersOK'
<1>1. TypeOK'
  BY TypeStep DEF TimersOK
<1>2. OneTimerA'
  BY DEF TimersOK, OneTimerA, TimerNames
<1>3. NoOrphanTimer'
  BY DEF NoOrphanTimer
<1>4. Fresh'
  BY StatesFresh DEF TimersOK, Fresh, TimerNames
<1> QED
  BY <1>1, <1>2, <1>3, <1>4 DEF TimersOK

\* The timers a resting runner is about to start: none.
LEMMA RestArms ==
  \A r \in {Recv, Exiting, Stopped, Unregistering, Rest} : r.arm = {} /\ r.at \notin {"arm", "send", "sendFailed"}
BY DEF Rest, Recv, Exiting, Stopped, Unregistering, At

\* What is being started has no task.
LEMMA ArmedIdle ==
  ASSUME TimersOK, NEW t \in runner.arm
  PROVE  t \in TimerNames /\ tasks[t] = "idle" /\ ~Queued(Timer(t)) /\ runner.at = "arm"
<1>1. runner \in Place(TimerNames)
  BY DEF TimersOK, TypeOK, RunnerType
<1>2. runner.at = "arm" /\ runner.arm \subseteq TimerNames
  BY <1>1 DEF Place, Recv, Exiting, Stopped, Unregistering, At
<1> QED
  BY <1>2 DEF TimersOK, NoOrphanTimer

\* The loop.
LEMMA LoopTimers ==
  ASSUME TimersOK, Loop
  PROVE  TimersOK'
<1>n. [Next]_vars
  BY DEF Next
<1>t. /\ TypeOK /\ OneTimerA /\ tasks \in [TimerNames -> TaskPhase] /\ Timers = TimerNames
      /\ "A" \in TimerNames /\ "D" \in TimerNames
  BY DEF TimersOK, TypeOK, RunnerType, Timers, TimerNames
<1>q. queue \in Seq(Command(TimerNames, Responses)) /\ Len(queue) <= Capacity
  BY <1>t DEF TypeOK, RunnerType
<1>a. \A ts : Abort(ts) => \A t \in TimerNames : tasks[t] = "idle" => tasks'[t] = "idle"
  BY <1>t, AbortLemma
<1>1. ASSUME NEW c, Receive(c), \A t \in TimerNames : tasks[t] = "idle" => tasks'[t] = "idle",
             runner'.arm = {}
      PROVE  TimersOK'
  BY <1>n, <1>t, <1>1, ChannelTimers, TimersKept
<1>2. CASE IgnoreTransition \/ RejectTransition(Kind)
  <2>1. UNCHANGED <<tasks, runner>> /\ \E c : Receive(c) /\ runner = Recv
    BY <1>2 DEF IgnoreTransition, RejectTransition, Receive
  <2> QED
    BY <1>1, <2>1, RestArms
<1>3. CASE EnterStateUnheard(Kind) \/ RunTerminate
  <2>1. Abort(Timers) /\ runner' = Exiting /\ \E c : Receive(c)
    BY <1>3 DEF EnterStateUnheard, RunTerminate
  <2> QED
    BY <1>1, <1>a, <2>1, RestArms
<1>4. CASE \E s \in State : EnterState(Kind, s, OnEnter(s))
  <2>1. PICK s \in State : EnterState(Kind, s, OnEnter(s))
    BY <1>4
  <2>2. PICK e \in OnEnter(s) : runner' = e.then
    BY <2>1 DEF EnterState
  <2>3. Receive(TransitionTo(s)) /\ Abort(Timers) /\ state' = s /\ Accepts(Kind, s)
    BY <2>1 DEF EnterState
  <2>4. /\ \A t \in TimerNames : tasks[t] = "idle" => tasks'[t] = "idle"
        /\ \A t \in TimerNames : ~Queued(Timer(t)) => ~Queued(Timer(t))'
        /\ Once(Timer("A"))'
    BY <1>a, <1>t, <2>3, ChannelTimers
  <2>5. CASE runner'.arm = {}
    BY <1>n, <2>4, <2>5, TimersKept
  <2>6. CASE s = "Calling" /\ runner' = Arming({"A", "B"})
    <3>1. state = "Initial"
      BY <1>t, <2>3, <2>6 DEF Accepts, ValidTransition, Successors, Kind, TypeOK, RunnerType, State
    <3>2. runner'.arm = {"A", "B"}
      BY <2>6 DEF Arming, At
    <3>3. \A t \in runner'.arm : t \in TimerNames /\ tasks[t] = "idle" /\ ~Queued(Timer(t))'
      BY <2>4, <3>1, <3>2 DEF TimersOK, Fresh, TimerNames
    <3> QED
      BY <1>n, <2>3, <2>4, <2>6, <3>2, <3>3, TimersKept
  <2>7. CASE s = "Completed" /\ runner' = Arming({"D"})
    <3>1. state \in {"Calling", "Proceeding"}
      BY <1>t, <2>3, <2>7 DEF Accepts, ValidTransition, Successors, Kind, TypeOK, RunnerType, State
    <3>2. runner'.arm = {"D"}
      BY <2>7 DEF Arming, At
    <3>3. \A t \in runner'.arm : t \in TimerNames /\ tasks[t] = "idle" /\ ~Queued(Timer(t))'
      BY <1>t, <2>4, <3>1, <3>2 DEF TimersOK, Fresh
    <3> QED
      BY <1>n, <2>3, <2>4, <2>7, <3>3, TimersKept
  <2> QED
    BY <2>2, <2>5, <2>6, <2>7, OnEnterForms
<1>5. CASE \E t \in TimerNames : RunTimer(t, HandleTimer(t))
  <2>1. PICK t \in TimerNames : RunTimer(t, HandleTimer(t))
    BY <1>5
  <2>2. PICK e \in HandleTimer(t) : Receive(Timer(t)) /\ Apply(e) /\ UNCHANGED state
    BY <2>1 DEF RunTimer
  <2>3. /\ \A u \in TimerNames : tasks[u] = "idle" => tasks'[u] = "idle"
        /\ \A u \in TimerNames : ~Queued(Timer(u)) => ~Queued(Timer(u))'
        /\ Once(Timer("A"))'
    BY <1>a, <1>t, <2>2, ChannelTimers DEF Apply
  <2>4. CASE e.arm = {}
    <3>1. runner'.arm = {}
      BY <2>2, <2>4, RestArms DEF Apply, Sending, At
    <3> QED
      BY <1>1, <2>2, <2>3, <3>1
  <2>5. CASE e.arm # {}
    <3>1. t = "A" /\ e.arm = {"A"} /\ state = "Calling" /\ e.next = None
      BY <2>5, HandleTimerForms
    <3>2. runner'.arm = {"A"}
      BY <2>2, <3>1 DEF Apply, Arming, At
    <3>3. ~Queued(Timer("A"))' /\ Queued(Timer("A"))
      <4>1. queue[1] = Timer("A") /\ 1 \in 1..Len(queue)
        BY <1>q, <2>2, <3>1, ReceiveLemma, LenProperties
      <4>2. \A i \in 1..Len(queue') : queue'[i] # Timer("A")
        BY <1>q, <1>t, <2>2, <3>1, ReceiveOnce DEF OneTimerA
      <4> QED
        BY <4>1, <4>2 DEF Queued
    <3>4. tasks["A"] = "idle"
      BY <1>t, <3>3 DEF OneTimerA
    <3> QED
      BY <1>n, <1>t, <2>2, <2>3, <3>1, <3>2, <3>3, <3>4, TimersKept
  <2> QED
    BY <2>4, <2>5
<1>6. CASE \E m \in Responses : RunMessage(m, ProcessResponse(m))
  <2>1. PICK m \in Responses : RunMessage(m, ProcessResponse(m))
    BY <1>6
  <2>2. PICK e \in ProcessResponse(m) : Receive(ProcessMessage(m)) /\ Apply(e)
    BY <2>1 DEF RunMessage
  <2>3. runner'.arm = {}
    BY <2>2, ProcessResponseForms, RestArms DEF Apply, Sending, At
  <2> QED
    BY <1>1, <1>a, <2>2, <2>3 DEF Apply
<1>7. CASE SelfSend \/ SelfSendFailed
  <2>1. runner.to \in State /\ Send(TransitionTo(runner.to))
    BY <1>7, <1>t DEF SelfSend, SelfSendFailed, TypeOK, RunnerType, Place, Recv, Unregistering,
                      Exiting, Stopped, At
  <2>2. /\ TransitionTo(runner.to) \in Command(TimerNames, Responses)
        /\ \A t \in TimerNames : TransitionTo(runner.to) # Timer(t)
    BY <2>1 DEF TransitionTo, Command, Timer
  <2>3. (Abort(Timers) \/ UNCHANGED tasks) /\ runner' \in {Rest, Exiting}
    BY <1>7 DEF SelfSend, SelfSendFailed
  <2>4. /\ \A t \in TimerNames : tasks[t] = "idle" => tasks'[t] = "idle"
        /\ \A t \in TimerNames : ~Queued(Timer(t)) => ~Queued(Timer(t))'
        /\ Once(Timer("A"))' /\ runner'.arm = {}
    BY <1>a, <1>t, <2>1, <2>2, <2>3, ChannelTimers, RestArms
  <2> QED
    BY <1>n, <2>4, TimersKept
<1>8. CASE ArmTimers
  <2>0. UNCHANGED <<queue, state>> /\ runner' = Rest
    BY <1>8 DEF ArmTimers
  <2>1. \A t \in TimerNames : tasks'[t] = IF t \in runner.arm THEN "asleep" ELSE tasks[t]
    BY <1>8, <1>t DEF ArmTimers
  <2>2. runner'.arm = {}
    BY <2>0, RestArms
  <2>3. OneTimerA'
    BY <1>t, <2>0, <2>1, ArmedIdle DEF OneTimerA, Queued, Once
  <2>4. Fresh'
    BY <1>t, <2>0, <2>1, <2>2 DEF TimersOK, Fresh, Queued
  <2>5. NoOrphanTimer'
    BY <2>2 DEF NoOrphanTimer
  <2> QED
    BY <1>n, <1>t, <2>3, <2>4, <2>5, TypeStep DEF TimersOK
<1>9. CASE Unregister
  <2>1. UNCHANGED <<queue, tasks>> /\ runner' = Rest
    BY <1>9 DEF Unregister
  <2> QED
    BY <1>n, <1>t, <2>1, ChannelTimers, TimersKept, RestArms
<1>10. CASE LoopEnd
  <2>1. Abort(Timers) /\ queue' = <<>> /\ runner' = Stopped
    BY <1>10 DEF LoopEnd
  <2> QED
    BY <1>n, <1>t, <1>a, <2>1, ChannelTimers, TimersKept, RestArms
<1> QED
  BY <1>2, <1>3, <1>4, <1>5, <1>6, <1>7, <1>8, <1>9, <1>10 DEF Loop, LoopStep

\* A timer's task sends its command, and a managed timer's is gone with it.
LEMMA TaskTimers ==
  ASSUME TimersOK, TimerStep, [Next]_vars
  PROVE  TimersOK'
<1>t. /\ TypeOK /\ OneTimerA /\ tasks \in [TimerNames -> TaskPhase] /\ Timers = TimerNames
      /\ queue \in Seq(Command(TimerNames, Responses)) /\ Len(queue) <= Capacity
  BY DEF TimersOK, TypeOK, RunnerType, Timers
<1>1. PICK t \in TimerNames : FireManaged(t) \/ Unblock(t) \/ FireTransition(t) \/ SendTransition(t)
  BY <1>t DEF TimerStep
<1>2. /\ UNCHANGED <<state, runner>> /\ tasks[t] # "idle"
      /\ \A u \in TimerNames \ {t} : tasks'[u] = tasks[u]
  BY <1>t, <1>1 DEF FireManaged, Unblock, FireTransition, SendTransition, taskFrame, SetTask
<1>3. t \notin runner.arm /\ state # "Initial" /\ (t = "D" => state \in {"Completed", "Confirmed", "Terminated"})
  BY <1>2, ArmedIdle DEF TimersOK, Fresh
<1>4. ASSUME \A u \in TimerNames \ {t} : ~Queued(Timer(u)) => ~Queued(Timer(u))', OneTimerA'
      PROVE  TimersOK'
  <2>1. Fresh'
    BY <1>2, <1>3, <1>4 DEF TimersOK, Fresh, TimerNames
  <2>2. \A u \in runner'.arm : u \in TimerNames \ {t} /\ tasks[u] = "idle" /\ ~Queued(Timer(u))
    BY <1>2, <1>3, ArmedIdle
  <2>3. NoOrphanTimer'
    BY <1>2, <1>4, <2>2 DEF NoOrphanTimer
  <2> QED
    BY <1>4, <2>1, <2>3, TypeStep DEF TimersOK
<1>5. CASE UNCHANGED queue \/ Send(TransitionTo("Terminated"))
  <2>1. /\ TransitionTo("Terminated") \in Command(TimerNames, Responses)
        /\ \A u \in TimerNames : TransitionTo("Terminated") # Timer(u)
    BY DEF TransitionTo, Command, Timer, State
  <2>2. (\A u \in TimerNames : ~Queued(Timer(u)) => ~Queued(Timer(u))') /\ Once(Timer("A"))'
    BY <1>t, <1>5, <2>1, ChannelTimers
  <2>3. OneTimerA'
    BY <1>t, <1>2, <2>2 DEF OneTimerA, TimerNames
  <2> QED
    BY <1>4, <2>2, <2>3
<1>6. CASE Send(Timer(t))
  <2>1. Timer(t) \in Command(TimerNames, Responses) /\ \A u \in TimerNames \ {t} : Timer(t) # Timer(u)
    BY DEF Command, Timer
  <2>2. ASSUME NEW u \in TimerNames \ {t}, ~Queued(Timer(u)) PROVE ~Queued(Timer(u))'
    <3>1. (\A i \in 1..Len(queue) : queue[i] \notin {Timer(u)}) /\ Timer(t) \notin {Timer(u)}
      BY <2>1, <2>2 DEF Queued
    <3>2. \A i \in 1..Len(queue') : queue'[i] \notin {Timer(u)}
      BY <1>t, <1>6, <2>1, <3>1, SendAvoids
    <3> QED
      BY <3>2 DEF Queued
  <2>3. Once(Timer("A"))'
    <3>1. Timer(t) = Timer("A") => \A i \in 1..Len(queue) : queue[i] # Timer("A")
      BY <1>t, <1>2 DEF OneTimerA, Queued, Timer
    <3> QED
      BY <1>t, <1>6, <2>1, <3>1, SendOnce DEF OneTimerA
  <2>4. CASE t = "A"
    <3>1. tasks'["A"] = "idle"
      BY <1>t, <1>1, <1>6, <2>4 DEF FireManaged, Unblock, FireTransition, SendTransition, SetTask,
                                    TransitionTimer, Send, HasRoom
    <3> QED
      BY <1>4, <2>2, <2>3, <3>1 DEF OneTimerA
  <2>5. CASE t # "A"
    <3>1. OneTimerA'
      BY <1>t, <1>2, <2>2, <2>3, <2>5 DEF OneTimerA, TimerNames
    <3> QED
      BY <1>4, <2>2, <3>1
  <2> QED
    BY <2>4, <2>5
<1> QED
  BY <1>1, <1>5, <1>6 DEF FireManaged, Unblock, FireTransition, SendTransition

\* The grace period, the manager and the TU have nothing to do with timers.
LEMMA BesideTimers ==
  ASSUME TypeOK, GraceExpires \/ DrainExpires \/ Manager \/ User \/ Initiate("Calling")
  PROVE  /\ UNCHANGED <<state, runner, tasks, registered>>
         /\ \/ UNCHANGED queue
            \/ \E c \in Command(TimerNames, Responses) : Send(c) /\ \A t \in TimerNames : c # Timer(t)
<1>1. UNCHANGED <<state, runner, tasks, registered>>
  BY DEF GraceExpires, DrainExpires, graceFrame, Manager, Respond, Accept, Deliver, DeliverClosed,
         StopRequested, envFrame, User, TuCloses, Initiate
<1>2. \/ UNCHANGED queue \/ Send(Terminate) \/ Send(TransitionTo("Calling"))
      \/ dispatch \in Responses /\ Send(ProcessMessage(dispatch))
  BY DEF GraceExpires, DrainExpires, Manager, Respond, Accept, Deliver, DeliverClosed,
         StopRequested, User, TuCloses, Initiate, TypeOK, RunnerType
<1>3. /\ Terminate \in Command(TimerNames, Responses) /\ \A t \in TimerNames : Terminate # Timer(t)
      /\ TransitionTo("Calling") \in Command(TimerNames, Responses)
      /\ \A t \in TimerNames : TransitionTo("Calling") # Timer(t)
      /\ \A m \in Responses : /\ ProcessMessage(m) \in Command(TimerNames, Responses)
                              /\ \A t \in TimerNames : ProcessMessage(m) # Timer(t)
  BY DEF Command, Terminate, TransitionTo, ProcessMessage, Timer, State
<1> QED
  BY <1>1, <1>2, <1>3

\* TimersOK is inductive.
LEMMA TimersStep ==
  ASSUME TimersOK, [Next]_vars
  PROVE  TimersOK'
<1>1. CASE GraceExpires \/ DrainExpires \/ Manager \/ User \/ Initiate("Calling")
  <2>1. /\ UNCHANGED <<state, runner, tasks>>
        /\ \A t \in TimerNames : ~Queued(Timer(t)) => ~Queued(Timer(t))'
        /\ Once(Timer("A"))'
    BY <1>1, BesideTimers, ChannelTimers DEF TimersOK
  <2>2. \A t \in runner'.arm : t \in TimerNames /\ tasks[t] = "idle" /\ ~Queued(Timer(t))'
    BY <2>1, ArmedIdle
  <2>3. /\ state' = "Initial" => runner'.arm = {}
        /\ state' \notin {"Completed", "Confirmed", "Terminated"} => "D" \notin runner'.arm
    BY <2>1 DEF TimersOK, Fresh
  <2> QED
    BY <2>1, <2>2, <2>3, TimersKept
<1>2. CASE UNCHANGED vars
  <2>1. UNCHANGED <<state, runner, tasks, queue>>
    BY <1>2 DEF vars, runnerVars
  <2> QED
    BY <2>1, TypeStep DEF TimersOK, Fresh, OneTimerA, NoOrphanTimer, Queued, Once
<1> QED
  BY <1>1, <1>2, LoopTimers, TaskTimers DEF Next, Tasks

\* The timers are sound in every state: none is started over a live one, and
\* Timer A, which starts itself again, has at most one command under way.
THEOREM TimersTheorem == Spec => []TimersOK
<1>1. Init => TimersOK
  <2> SUFFICES ASSUME Init PROVE TimersOK
    OBVIOUS
  <2>1. state = "Initial" /\ queue = <<>> /\ runner = Recv /\ \A t \in TimerNames : tasks[t] = "idle"
    BY DEF Init, Init0, RunnerInit
  <2>2. \A c : ~Queued(c) /\ Once(c)
    BY <2>1 DEF Queued, Once
  <2> QED
    BY <2>1, <2>2, TypeInit DEF TimersOK, Fresh, OneTimerA, NoOrphanTimer, TimerNames, Recv, At
<1>2. TimersOK /\ [Next]_vars => TimersOK'
  BY TimersStep
<1> QED
  BY <1>1, <1>2, PTL DEF Spec

\* start_timer_a, start_timer_b and start_timer_d never overwrite the handle of
\* a task that is still running, nor start a timer whose last command the
\* runner has yet to read.
THEOREM OrphanTheorem == Spec => []NoOrphanTimer
<1>1. TimersOK => NoOrphanTimer
  BY DEF TimersOK
<1> QED
  BY <1>1, TimersTheorem, PTL

-----------------------------------------------------------------------------
(* Neither Calling nor Completed lasts for ever.                           *)
(*                                                                         *)
(* NeverStranded speaks of a runner that waits; inductive is what holds at *)
(* every place of the runner, and that the timer manager still knows the   *)
(* transaction: Timer B's task sends nothing for one it does not know.     *)

\* The end of Calling is on its way.
Leaving ==
  \/ runner \in {Exiting, Stopped}
  \/ runner.at \in {"send", "sendFailed"} /\ runner.to \in Later
  \/ \E s \in Later : Queued(TransitionTo(s))

CallingLasts ==
  state = "Calling" =>
    \/ Leaving \/ runner = Arming({"A", "B"})
    \/ tasks["B"] \in {"asleep", "blocked"} /\ registered
    \/ Queued(Timer("B"))

CompletedLasts ==
  state = "Completed" =>
    \/ runner \in {Exiting, Stopped, Arming({"D"})}
    \/ tasks["D"] \in {"asleep", "second"} \/ Queued(TransitionTo("Terminated"))

Lasting ==
  /\ CallingLasts /\ CompletedLasts
  /\ runner.at = "unregister" => state = "Terminated"

\* What is in the channel stays there, but for the command that is taken.
LEMMA ReceiveStays ==
  ASSUME TypeOK, NEW c, Receive(c)
  PROVE  \A d : Queued(d) /\ d # c => Queued(d)'
BY ReceiveKeeps DEF TypeOK, RunnerType, Queued

\* A send takes nothing away.
LEMMA SendStays ==
  ASSUME TypeOK, NEW c \in Command(TimerNames, Responses), Send(c)
  PROVE  (\A d : Queued(d) => Queued(d)') /\ Queued(c)'
BY SendKeeps DEF TypeOK, RunnerType, Queued

\* Where a waiting runner is not.
LEMMA RecvPlace ==
  /\ Recv \notin {Exiting, Stopped, Arming({"A", "B"}), Arming({"D"})}
  /\ Recv.at \notin {"send", "sendFailed"}
BY DEF Recv, Exiting, Stopped, Arming, At

\* The runner takes a command that neither ends Calling nor is Timer B's, and
\* leaves Timers B and D alone.
LEMMA ReceiveLasts ==
  ASSUME TypeOK, Lasting, NEW c, Receive(c), UNCHANGED <<state, registered>>,
         state = "Calling" => c # Timer("B") /\ \A s \in Later : c # TransitionTo(s),
         c # TransitionTo("Terminated"),
         \A t \in {"B", "D"} : tasks'[t] = tasks[t]
  PROVE  CallingLasts' /\ CompletedLasts'
<1>1. runner = Recv
  BY DEF Receive
<1>2. CallingLasts'
  <2> SUFFICES ASSUME state = "Calling"
               PROVE  \/ \E s \in Later : Queued(TransitionTo(s))'
                      \/ tasks'["B"] \in {"asleep", "blocked"} /\ registered'
                      \/ Queued(Timer("B"))'
    BY DEF CallingLasts, Leaving
  <2>1. \/ \E s \in Later : Queued(TransitionTo(s))
        \/ tasks["B"] \in {"asleep", "blocked"} /\ registered
        \/ Queued(Timer("B"))
    BY <1>1, RecvPlace DEF Lasting, CallingLasts, Leaving
  <2> QED
    BY <2>1, ReceiveStays
<1>3. CompletedLasts'
  BY <1>1, RecvPlace, ReceiveStays DEF Lasting, CompletedLasts
<1> QED
  BY <1>2, <1>3

\* The loop's handlers for timers and responses.
LEMMA HandlersLast ==
  ASSUME TypeOK, Lasting,
         \/ \E t \in TimerNames : RunTimer(t, HandleTimer(t))
         \/ \E m \in Responses : RunMessage(m, ProcessResponse(m))
  PROVE  Lasting'
<1>t. tasks \in [TimerNames -> TaskPhase] /\ "B" \in TimerNames /\ "D" \in TimerNames
  BY DEF TypeOK, RunnerType, TimerNames
<1>1. ASSUME NEW c, Receive(c), NEW e, Apply(e), e.abort \subseteq {"A"}, e.next \in {None} \cup Later,
             UNCHANGED <<state, registered>>, c # TransitionTo("Terminated"),
             \A s \in Later : c # TransitionTo(s),
             state = "Calling" /\ c = Timer("B") => e.next \in Later
      PROVE  Lasting'
  <2>1. \A t \in {"B", "D"} : tasks'[t] = tasks[t]
    BY <1>t, <1>1, AbortLeaves DEF Apply
  <2>2. runner'.at # "unregister"
    BY <1>1 DEF Apply, Sending, Arming, Rest, Recv, Exiting, At
  <2>3. CASE state = "Calling" /\ c = Timer("B")
    <3>1. runner'.at = "send" /\ runner'.to \in Later
      BY <1>1, <2>3 DEF Apply, Sending, At, Later, None
    <3> QED
      BY <1>1, <2>2, <2>3, <3>1 DEF Lasting, CallingLasts, CompletedLasts, Leaving
  <2>4. CASE ~(state = "Calling" /\ c = Timer("B"))
    <3>1. CallingLasts' /\ CompletedLasts'
      BY <1>1, <2>1, <2>4, ReceiveLasts
    <3> QED
      BY <2>2, <3>1 DEF Lasting
  <2> QED
    BY <2>3, <2>4
<1>2. CASE \E t \in TimerNames : RunTimer(t, HandleTimer(t))
  <2>1. PICK t \in TimerNames : \E e \in HandleTimer(t) :
          Receive(Timer(t)) /\ Apply(e) /\ UNCHANGED <<state, registered>>
    BY <1>2 DEF RunTimer, loopFrame
  <2>2. PICK e \in HandleTimer(t) : Receive(Timer(t)) /\ Apply(e) /\ UNCHANGED <<state, registered>>
    BY <2>1
  <2>3. \A s : Timer(t) # TransitionTo(s)
    BY DEF Timer, TransitionTo
  <2>4. /\ e.abort \subseteq {"A"} /\ e.next \in {None} \cup Later
        /\ state = "Calling" /\ Timer(t) = Timer("B") => e.next \in Later
    BY HandleTimerForms DEF Later, Timer
  <2> QED
    BY <1>1, <2>2, <2>3, <2>4
<1>3. CASE \E m \in Responses : RunMessage(m, ProcessResponse(m))
  <2>1. PICK m \in Responses : \E e \in ProcessResponse(m) :
          Receive(ProcessMessage(m)) /\ Apply(e) /\ UNCHANGED <<state, registered>>
    BY <1>3 DEF RunMessage, loopFrame
  <2>2. PICK e \in ProcessResponse(m) :
          Receive(ProcessMessage(m)) /\ Apply(e) /\ UNCHANGED <<state, registered>>
    BY <2>1
  <2>3. (\A s : ProcessMessage(m) # TransitionTo(s)) /\ ProcessMessage(m) # Timer("B")
    BY DEF ProcessMessage, Timer, TransitionTo
  <2> QED
    BY <1>1, <2>2, <2>3, ProcessResponseForms
<1> QED
  BY <1>2, <1>3

\* The loop's other steps.
LEMMA LoopLasts ==
  ASSUME TypeOK, Lasting, Loop
  PROVE  Lasting'
<1>t. /\ tasks \in [TimerNames -> TaskPhase] /\ "B" \in TimerNames /\ "D" \in TimerNames
      /\ Timers = TimerNames
  BY DEF TypeOK, RunnerType, TimerNames, Timers
<1>1. CASE IgnoreTransition
  <2>1. Receive(TransitionTo(state)) /\ UNCHANGED <<state, runner, tasks, registered>>
    BY <1>1 DEF IgnoreTransition, loopFrame
  <2>2. runner'.at # "unregister"
    BY <2>1 DEF Receive, Recv, At
  <2>3. /\ state = "Calling" => /\ TransitionTo(state) # Timer("B")
                                /\ \A s \in Later : TransitionTo(state) # TransitionTo(s)
        /\ state \in {"Calling", "Completed"} => TransitionTo(state) # TransitionTo("Terminated")
    BY DEF TransitionTo, Timer, Later
  <2>4. CASE state \in {"Calling", "Completed"}
    BY <2>1, <2>2, <2>3, <2>4, ReceiveLasts DEF Lasting
  <2>5. CASE state \notin {"Calling", "Completed"}
    BY <2>1, <2>2, <2>5 DEF Lasting, CallingLasts, CompletedLasts
  <2> QED
    BY <2>4, <2>5
<1>2. CASE RejectTransition(Kind)
  <2>1. PICK s \in State : ~ValidTransition(Kind, state, s) /\ Receive(TransitionTo(s))
    BY <1>2 DEF RejectTransition
  <2>2. UNCHANGED <<state, runner, tasks, registered>> /\ runner'.at # "unregister"
    BY <1>2, <2>1 DEF RejectTransition, loopFrame, Receive, Recv, At
  <2>3. TransitionTo(s) # TransitionTo("Terminated") /\ TransitionTo(s) # Timer("B")
    BY <2>1 DEF ValidTransition, TransitionTo, Timer
  <2>4. state = "Calling" => \A u \in Later : TransitionTo(s) # TransitionTo(u)
    <3>1. state = "Calling" => s \notin Later
      BY <2>1 DEF ValidTransition, Successors, Kind, Later
    <3> QED
      BY <3>1 DEF TransitionTo
  <2> QED
    BY <2>1, <2>2, <2>3, <2>4, ReceiveLasts DEF Lasting
<1>3. CASE EnterStateUnheard(Kind) \/ RunTerminate
  BY <1>3 DEF EnterStateUnheard, RunTerminate, Lasting, CallingLasts, CompletedLasts
<1>4. CASE \E s \in State : EnterState(Kind, s, OnEnter(s))
  <2>1. PICK s \in State : \E e \in OnEnter(s) : runner' = e.then /\ state' = s
    BY <1>4 DEF EnterState
  <2>2. PICK e \in OnEnter(s) : runner' = e.then /\ state' = s
    BY <2>1
  <2>3. s = "Calling" => Leaving' \/ runner' = Arming({"A", "B"})
    BY <2>2, OnEnterForms DEF SendingFailed, At, Leaving, Later
  <2> QED
    BY <2>2, <2>3, OnEnterForms DEF Lasting, CallingLasts, CompletedLasts
<1>5. CASE SelfSend \/ SelfSendFailed
  <2>1. runner.to \in State /\ Send(TransitionTo(runner.to)) /\ runner.at \in {"send", "sendFailed"}
    BY <1>5 DEF SelfSend, SelfSendFailed, TypeOK, RunnerType, Place, Recv, Unregistering,
                Exiting, Stopped, At
  <2>2. PICK to \in State : to = runner.to /\ Send(TransitionTo(to))
    BY <2>1
  <2>3. (\A d : Queued(d) => Queued(d)') /\ Queued(TransitionTo(to))'
    <3>1. TransitionTo(to) \in Command(TimerNames, Responses)
      BY DEF TransitionTo, Command
    <3> QED
      BY <2>2, <3>1, SendStays
  <2>4. runner' \in {Rest, Exiting} /\ runner'.at # "unregister" /\ UNCHANGED registered
    BY <1>5 DEF SelfSend, SelfSendFailed, loopFrame, Rest, Recv, Exiting, At
  <2>5. UNCHANGED <<state, tasks>> \/ state' = "Terminated"
    BY <1>5 DEF SelfSend, SelfSendFailed
  <2>6. runner \notin {Exiting, Stopped, Arming({"A", "B"}), Arming({"D"})}
    BY <2>1 DEF Exiting, Stopped, Arming, At
  <2>7. CASE state' = "Terminated"
    BY <2>7 DEF Lasting, CallingLasts, CompletedLasts
  <2>8. CASE UNCHANGED <<state, tasks>>
    <3>1. state = "Calling" =>
            \/ \E s \in Later : Queued(TransitionTo(s))'
            \/ tasks["B"] \in {"asleep", "blocked"} /\ registered
            \/ Queued(Timer("B"))'
      BY <2>2, <2>3, <2>6 DEF Lasting, CallingLasts, Leaving
    <3>2. CallingLasts'
      BY <2>4, <2>8, <3>1 DEF CallingLasts, Leaving
    <3>3. CompletedLasts'
      BY <2>3, <2>6, <2>8 DEF Lasting, CompletedLasts
    <3> QED
      BY <2>4, <3>2, <3>3 DEF Lasting
  <2> QED
    BY <2>5, <2>7, <2>8
<1>6. CASE ArmTimers
  <2>1. /\ runner.at = "arm" /\ UNCHANGED <<state, queue>> /\ registered' = TRUE
        /\ runner'.at # "unregister"
    BY <1>6 DEF ArmTimers, Rest, Recv, Exiting, At
  <2>2. \A t \in {"B", "D"} : tasks'[t] = IF t \in runner.arm THEN "asleep" ELSE tasks[t]
    BY <1>6, <1>t DEF ArmTimers
  <2>3. /\ runner \notin {Exiting, Stopped}
        /\ runner = Arming({"A", "B"}) => "B" \in runner.arm
        /\ runner = Arming({"D"}) => "D" \in runner.arm
    BY <2>1 DEF Exiting, Stopped, Arming, At
  <2>4. CallingLasts'
    BY <2>1, <2>2, <2>3 DEF Lasting, CallingLasts, Leaving, Queued
  <2>5. CompletedLasts'
    BY <2>1, <2>2, <2>3 DEF Lasting, CompletedLasts, Queued
  <2> QED
    BY <2>1, <2>4, <2>5 DEF Lasting
<1>7. CASE Unregister
  BY <1>7 DEF Unregister, Lasting, CallingLasts, CompletedLasts
<1>8. CASE LoopEnd
  BY <1>8 DEF LoopEnd, Lasting, CallingLasts, CompletedLasts, Leaving, Stopped, At
<1> QED
  BY <1>1, <1>2, <1>3, <1>4, <1>5, <1>6, <1>7, <1>8, HandlersLast DEF Loop, LoopStep

\* Timer B sends before its task is gone, and so does Timer D.
LEMMA TaskLasts ==
  ASSUME TypeOK, Lasting, TimerStep
  PROVE  Lasting'
<1>t. /\ tasks \in [TimerNames -> TaskPhase] /\ Timers = TimerNames
      /\ "B" \in TimerNames /\ "D" \in TimerNames
  BY DEF TypeOK, RunnerType, TimerNames, Timers
<1>1. PICK t \in TimerNames : FireManaged(t) \/ Unblock(t) \/ FireTransition(t) \/ SendTransition(t)
  BY <1>t DEF TimerStep
<1>2. /\ UNCHANGED <<state, runner, registered>>
      /\ \A u \in TimerNames \ {t} : tasks'[u] = tasks[u]
  BY <1>t, <1>1 DEF FireManaged, Unblock, FireTransition, SendTransition, taskFrame, SetTask
<1>3. Timer(t) \in Command(TimerNames, Responses) /\ TransitionTo("Terminated") \in Command(TimerNames, Responses)
  BY DEF Command, Timer, TransitionTo, State
<1>4. UNCHANGED queue \/ Send(Timer(t)) \/ Send(TransitionTo("Terminated"))
  BY <1>1 DEF FireManaged, Unblock, FireTransition, SendTransition
<1>5. \A d : Queued(d) => Queued(d)'
  <2>1. CASE UNCHANGED queue
    BY <2>1 DEF Queued
  <2> QED
    BY <1>3, <1>4, <2>1, SendStays
<1>6. CallingLasts'
  <2>1. CASE t # "B"
    BY <1>2, <1>5, <1>t, <2>1 DEF Lasting, CallingLasts, Leaving
  <2>2. CASE t = "B" /\ Send(Timer("B"))
    <3>1. Queued(Timer("B"))'
      BY <1>3, <2>2, SendStays
    <3> QED
      BY <3>1 DEF CallingLasts
  <2>3. CASE t = "B" /\ ~Send(Timer("B"))
    <3>1. \/ ~registered \/ Closed \/ tasks["B"] = "late" \/ tasks'["B"] = "blocked"
      BY <1>1, <1>t, <2>3 DEF FireManaged, Unblock, FireTransition, SendTransition, TransitionTimer, SetTask
    <3> QED
      BY <1>2, <1>5, <3>1 DEF Lasting, CallingLasts, Leaving, Closed
  <2> QED
    BY <2>1, <2>2, <2>3
<1>7. CompletedLasts'
  <2>1. CASE t # "D"
    BY <1>2, <1>5, <1>t, <2>1 DEF Lasting, CompletedLasts
  <2>2. CASE t = "D" /\ FireTransition("D")
    <3>1. Closed \/ tasks'["D"] = "second" \/ tasks["D"] = "late"
      BY <1>t, <2>2 DEF FireTransition, SetTask
    <3> QED
      BY <1>2, <1>5, <3>1 DEF Lasting, CompletedLasts, Closed
  <2>3. CASE t = "D" /\ SendTransition("D")
    <3>1. Closed \/ Send(TransitionTo("Terminated"))
      BY <2>3 DEF SendTransition
    <3>2. Closed \/ Queued(TransitionTo("Terminated"))'
      BY <1>3, <3>1, SendStays
    <3> QED
      BY <1>2, <3>2 DEF CompletedLasts, Closed
  <2> QED
    BY <1>1, <2>1, <2>2, <2>3 DEF FireManaged, Unblock, ManagedTimer
<1> QED
  BY <1>2, <1>6, <1>7 DEF Lasting

\* Timer B ends Calling and Timer D ends Completed: while the runner waits for
\* a command the timer is running, its command is queued, or a state change
\* is; no response and no stop request takes that away.
THEOREM StrandedTheorem == Spec => []NeverStranded
<1>1. Init => Lasting
  BY DEF Init, Init0, RunnerInit, Lasting, CallingLasts, CompletedLasts, Recv, At
<1>2. ASSUME TypeOK, Lasting, [Next]_vars PROVE Lasting'
  <2>1. CASE GraceExpires \/ DrainExpires \/ Manager \/ User \/ Initiate("Calling")
    <3>1. UNCHANGED <<state, runner, tasks, registered>>
      BY <1>2, <2>1, BesideTimers
    <3>2. UNCHANGED queue \/ \E c \in Command(TimerNames, Responses) : Send(c)
      BY <1>2, <2>1, BesideTimers
    <3>3. \A d : Queued(d) => Queued(d)'
      <4>1. CASE UNCHANGED queue
        BY <4>1 DEF Queued
      <4> QED
        BY <1>2, <3>2, <4>1, SendStays
    <3> QED
      BY <1>2, <3>1, <3>3 DEF Lasting, CallingLasts, CompletedLasts, Leaving
  <2>2. CASE UNCHANGED vars
    BY <1>2, <2>2 DEF vars, runnerVars, Lasting, CallingLasts, CompletedLasts, Leaving, Queued
  <2> QED
    BY <1>2, <2>1, <2>2, LoopLasts, TaskLasts DEF Next, Tasks
<1>3. TypeOK /\ Lasting /\ [Next]_vars => Lasting'
  BY <1>2
<1>4. Lasting => NeverStranded
  <2> SUFFICES ASSUME Lasting PROVE NeverStranded
    OBVIOUS
  <2>1. \A r \in {Recv, Arming({"A"})} :
          /\ r \notin {Exiting, Stopped, Arming({"A", "B"})}
          /\ r.at \notin {"send", "sendFailed"}
    BY DEF Recv, Exiting, Stopped, Arming, At
  <2> QED
    BY <2>1, RecvPlace DEF Lasting, CallingLasts, CompletedLasts, Leaving, NeverStranded, Later, State
<1> QED
  BY <1>1, <1>3, <1>4, TypeCorrect, PTL DEF Spec

=============================================================================
