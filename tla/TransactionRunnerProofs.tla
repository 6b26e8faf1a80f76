---------------------- MODULE TransactionRunnerProofs ----------------------
(***************************************************************************)
(* Facts about the generic runner that hold for every kind of transaction: *)
(* each of its steps preserves the type of its state, and the transitions  *)
(* that validate_transition accepts only lead forward.                     *)
(***************************************************************************)
EXTENDS TransactionRunner, SequenceTheorems, TLAPS

-----------------------------------------------------------------------------
(* The helpers the actions are built from.                                 *)

\* Taking a command off the channel: what is left is a channel, and the
\* command was its first element.
LEMMA ReceiveLemma ==
  ASSUME NEW S, queue \in Seq(S), Len(queue) <= Capacity, NEW c, Receive(c)
  PROVE  /\ queue' \in Seq(S) /\ Len(queue') <= Capacity
         /\ c \in S /\ Len(queue) > 0 /\ queue[1] = c
         /\ runner = Recv
         /\ \A i \in 1..Len(queue') : queue'[i] = queue[i + 1] /\ i + 1 \in 1..Len(queue)
<1>1. queue # <<>> /\ queue' = Tail(queue) /\ Head(queue) = c /\ runner = Recv
  BY DEF Receive
<1>2. /\ Tail(queue) \in Seq(S) /\ Len(Tail(queue)) = Len(queue) - 1
      /\ Head(queue) \in S
      /\ \A i \in 1..Len(Tail(queue)) : Tail(queue)[i] = queue[i + 1]
  BY <1>1, HeadTailProperties
<1>3. Len(queue) \in Nat /\ Len(queue) > 0
  BY <1>1, EmptySeq, LenProperties
<1>4. Capacity \in Nat
  BY CapacityAssumption
<1>5. Head(queue) = queue[1]
  BY <1>1
<1> QED
  BY <1>1, <1>2, <1>3, <1>4, <1>5

\* A send puts one command at the end of a channel that had room.
LEMMA SendLemma ==
  ASSUME NEW S, queue \in Seq(S), Len(queue) <= Capacity, NEW c \in S, Send(c)
  PROVE  /\ queue' \in Seq(S) /\ Len(queue') <= Capacity
         /\ Len(queue') = Len(queue) + 1
         /\ \A i \in 1..Len(queue') : IF i <= Len(queue) THEN queue'[i] = queue[i]
                                      ELSE queue'[i] = c
<1>1. queue' = Append(queue, c) /\ Len(queue) < Capacity
  BY DEF Send, HasRoom
<1>2. Len(queue) \in Nat /\ Capacity \in Nat
  BY LenProperties, CapacityAssumption
<1> QED
  BY <1>1, <1>2

\* Aborting timer tasks leaves every task in one of its phases.
LEMMA AbortLemma ==
  ASSUME NEW timers, tasks \in [timers -> TaskPhase], NEW ts, Abort(ts)
  PROVE  /\ tasks' \in [timers -> TaskPhase]
         /\ \A t \in timers : tasks[t] = "idle" => tasks'[t] = "idle"
<1>1. PICK racing : /\ racing \subseteq {t \in ts \cap Timers : tasks[t] \in {"asleep", "second"}}
                    /\ tasks' = AbortedBut(ts, racing)
  BY DEF Abort
<1> QED
  BY <1>1 DEF AbortedBut, Timers, TaskPhase

\* What is sent is of its kind, and what the TU was told is never forgotten.
LEMMA EmitLemma ==
  ASSUME NEW outputs, NEW o, o \subseteq outputs, told \subseteq Notable, Emit(o)
  PROVE  out' \subseteq outputs /\ told' \subseteq Notable /\ told \subseteq told'
BY DEF Emit

\* No command of a set E is in the channel: then the command taken off it is
\* none of them, and none is left.
LEMMA ReceiveAvoids ==
  ASSUME NEW S, queue \in Seq(S), Len(queue) <= Capacity, NEW c, Receive(c),
         NEW E, \A i \in 1..Len(queue) : queue[i] \notin E
  PROVE  c \notin E /\ \A i \in 1..Len(queue') : queue'[i] \notin E
<1>1. Len(queue) \in Nat
  BY LenProperties
<1>2. /\ queue[1] = c /\ Len(queue) > 0
      /\ \A i \in 1..Len(queue') : queue'[i] = queue[i + 1] /\ i + 1 \in 1..Len(queue)
  BY ReceiveLemma
<1>3. 1 \in 1..Len(queue)
  BY <1>1, <1>2
<1> QED
  BY <1>2, <1>3

\* ... and a send of any other command puts none there.
LEMMA SendAvoids ==
  ASSUME NEW S, queue \in Seq(S), Len(queue) <= Capacity, NEW c \in S, Send(c),
         NEW E, c \notin E, \A i \in 1..Len(queue) : queue[i] \notin E
  PROVE  \A i \in 1..Len(queue') : queue'[i] \notin E
<1>1. Len(queue) \in Nat
  BY LenProperties
<1>2. /\ Len(queue') = Len(queue) + 1
      /\ \A i \in 1..Len(queue') : IF i <= Len(queue) THEN queue'[i] = queue[i]
                                   ELSE queue'[i] = c
  BY SendLemma
<1> QED
  BY <1>1, <1>2

\* A command that is in the channel stays there when another one is taken ...
LEMMA ReceiveKeeps ==
  ASSUME NEW S, queue \in Seq(S), Len(queue) <= Capacity, NEW c, Receive(c),
         NEW d, d # c, \E i \in 1..Len(queue) : queue[i] = d
  PROVE  \E i \in 1..Len(queue') : queue'[i] = d
<1>1. Len(queue) \in Nat /\ queue # <<>> /\ queue' = Tail(queue) /\ Head(queue) = c
  BY LenProperties DEF Receive
<1>2. PICK i \in 1..Len(queue) : queue[i] = d
  OBVIOUS
<1>3. /\ Len(queue') = Len(queue) - 1 /\ queue[1] = c
      /\ \A j \in 1..Len(queue') : queue'[j] = queue[j + 1]
  BY <1>1, HeadTailProperties
<1>4. i - 1 \in 1..Len(queue') /\ queue'[i - 1] = d
  BY <1>1, <1>2, <1>3
<1> QED
  BY <1>4

\* ... and when any is sent, which is then in the channel too.
LEMMA SendKeeps ==
  ASSUME NEW S, queue \in Seq(S), Len(queue) <= Capacity, NEW c \in S, Send(c), NEW d,
         d = c \/ \E i \in 1..Len(queue) : queue[i] = d
  PROVE  \E i \in 1..Len(queue') : queue'[i] = d
<1>1. Len(queue) \in Nat /\ queue' = Append(queue, c)
  BY LenProperties DEF Send
<1>2. /\ Len(queue') = Len(queue) + 1 /\ queue'[Len(queue) + 1] = c
      /\ \A i \in 1..Len(queue) : queue'[i] = queue[i] /\ i \in 1..Len(queue')
  BY <1>1
<1>3. Len(queue) + 1 \in 1..Len(queue')
  BY <1>1, <1>2
<1> QED
  BY <1>2, <1>3

\* The channel holds a command at most once.
Once(c) == \A i, j \in 1..Len(queue) : queue[i] = c /\ queue[j] = c => i = j

\* Taking a command keeps it so, and one that is taken is not there any more.
LEMMA ReceiveOnce ==
  ASSUME NEW S, queue \in Seq(S), Len(queue) <= Capacity, NEW c, Receive(c), NEW d, Once(d)
  PROVE  Once(d)' /\ (c = d => \A i \in 1..Len(queue') : queue'[i] # d)
<1>1. Len(queue) \in Nat
  BY LenProperties
<1>2. /\ queue[1] = c /\ Len(queue) > 0 /\ 1 \in 1..Len(queue)
      /\ \A i \in 1..Len(queue') : queue'[i] = queue[i + 1] /\ i + 1 \in 1..Len(queue)
  BY <1>1, ReceiveLemma
<1>3. ASSUME NEW i \in 1..Len(queue'), NEW j \in 1..Len(queue'), queue'[i] = d, queue'[j] = d
      PROVE  i = j
  <2>1. i + 1 = j + 1
    BY <1>2, <1>3 DEF Once
  <2> QED
    BY <2>1
<1>4. ASSUME c = d, NEW i \in 1..Len(queue'), queue'[i] = d PROVE FALSE
  <2>1. i + 1 = 1
    BY <1>2, <1>4 DEF Once
  <2> QED
    BY <2>1
<1> QED
  BY <1>3, <1>4 DEF Once

\* So does a send, unless it is of a command that is already there.
LEMMA SendOnce ==
  ASSUME NEW S, queue \in Seq(S), Len(queue) <= Capacity, NEW c \in S, Send(c), NEW d, Once(d),
         c = d => \A i \in 1..Len(queue) : queue[i] # d
  PROVE  Once(d)'
<1>1. Len(queue) \in Nat
  BY LenProperties
<1>2. /\ Len(queue') = Len(queue) + 1
      /\ \A i \in 1..Len(queue') : IF i <= Len(queue) THEN queue'[i] = queue[i]
                                   ELSE queue'[i] = c
  BY SendLemma
<1>3. ASSUME NEW i \in 1..Len(queue'), NEW j \in 1..Len(queue'), queue'[i] = d, queue'[j] = d
      PROVE  i = j
  <2>1. CASE i <= Len(queue) /\ j <= Len(queue)
    BY <1>1, <1>2, <1>3, <2>1 DEF Once
  <2>2. CASE ~(i <= Len(queue)) /\ ~(j <= Len(queue))
    BY <1>1, <1>2, <2>2
  <2>3. CASE i <= Len(queue) /\ ~(j <= Len(queue))
    BY <1>1, <1>2, <1>3, <2>3
  <2>4. CASE ~(i <= Len(queue)) /\ j <= Len(queue)
    BY <1>1, <1>2, <1>3, <2>4
  <2> QED
    BY <2>1, <2>2, <2>3, <2>4
<1> QED
  BY <1>3 DEF Once

\* Aborting some timer tasks leaves the others as they are.
LEMMA AbortLeaves ==
  ASSUME NEW timers, tasks \in [timers -> TaskPhase], NEW ts, Abort(ts)
  PROVE  \A t \in timers \ ts : tasks'[t] = tasks[t]
<1>1. PICK racing : tasks' = AbortedBut(ts, racing)
  BY DEF Abort
<1> QED
  BY <1>1 DEF AbortedBut, Timers

\* A state that validate_transition accepts is never behind the current one.
LEMMA TransitionsAdvance ==
  ASSUME NEW kind \in TransactionKind, NEW from \in State, NEW to \in State,
         ValidTransition(kind, from, to)
  PROVE  Rank(to) >= Rank(from)
BY DEF TransactionKind, State, ValidTransition, Successors, Rank

-----------------------------------------------------------------------------
(* Type correctness of the runner's own steps.                             *)

\* The tasks behind the timers, sending into the channel or ending.
LEMMA TimerStepType ==
  ASSUME NEW timers, NEW messages, NEW outputs,
         RunnerType(timers, messages, outputs), TimerStep
  PROVE  RunnerType(timers, messages, outputs)'
<1> DEFINE S == Command(timers, messages)
<1>1. queue \in Seq(S) /\ Len(queue) <= Capacity /\ tasks \in [timers -> TaskPhase]
  BY DEF RunnerType
<1>2. PICK t \in timers : FireManaged(t) \/ Unblock(t) \/ FireTransition(t) \/ SendTransition(t)
  BY <1>1 DEF TimerStep, Timers
<1>3. Timer(t) \in S /\ TransitionTo("Terminated") \in S
  BY DEF Command, Timer, TransitionTo, State
<1>4. queue' \in Seq(S) /\ Len(queue') <= Capacity
  <2>1. CASE UNCHANGED queue
    BY <2>1, <1>1
  <2>2. CASE Send(Timer(t))
    BY <2>2, <1>1, <1>3, SendLemma
  <2>3. CASE Send(TransitionTo("Terminated"))
    BY <2>3, <1>1, <1>3, SendLemma
  <2> QED
    BY <1>2, <2>1, <2>2, <2>3 DEF FireManaged, Unblock, FireTransition, SendTransition
<1>5. tasks' \in [timers -> TaskPhase]
  BY <1>1, <1>2 DEF FireManaged, Unblock, FireTransition, SendTransition, SetTask, TaskPhase
<1>6. Silent /\ UNCHANGED taskFrame
  BY <1>2 DEF FireManaged, Unblock, FireTransition, SendTransition
<1> QED
  BY <1>4, <1>5, <1>6 DEF RunnerType, Silent, taskFrame

\* The task that walks the lifecycle to Destroyed.
LEMMA GraceType ==
  ASSUME NEW timers, NEW messages, NEW outputs,
         RunnerType(timers, messages, outputs), GraceExpires \/ DrainExpires
  PROVE  RunnerType(timers, messages, outputs)'
<1> DEFINE S == Command(timers, messages)
<1>1. queue \in Seq(S) /\ Len(queue) <= Capacity
  BY DEF RunnerType
<1>2. Terminate \in S
  BY DEF Command
<1>3. queue' \in Seq(S) /\ Len(queue') <= Capacity
  <2>1. CASE UNCHANGED queue
    BY <2>1, <1>1
  <2>2. CASE Send(Terminate)
    BY <2>2, <1>1, <1>2, SendLemma
  <2> QED
    BY <2>1, <2>2 DEF GraceExpires, DrainExpires
<1>4. /\ lifecycle' \in Lifecycle /\ grace' \in {"none", "waiting", "draining", "done"}
      /\ Silent /\ UNCHANGED graceFrame
  BY DEF GraceExpires, DrainExpires, Lifecycle
<1> QED
  BY <1>3, <1>4 DEF RunnerType, Silent, graceFrame

\* What the manager and the TU do, apart from a report of a closed channel.
LEMMA ManagerType ==
  ASSUME NEW timers, NEW messages, NEW outputs,
         RunnerType(timers, messages, outputs),
         \/ \E m \in messages : Accept(m)
         \/ Deliver \/ StopRequested \/ TuCloses
  PROVE  RunnerType(timers, messages, outputs)'
<1> DEFINE S == Command(timers, messages)
<1>1. queue \in Seq(S) /\ Len(queue) <= Capacity
  BY DEF RunnerType
<1>2. Silent /\ UNCHANGED envFrame
  BY DEF Accept, Deliver, StopRequested, TuCloses
<1>3. CASE \E m \in messages : Accept(m)
  <2>1. arrivals' \in 0..MaxArrivals
    BY <1>3, MaxArrivalsAssumption DEF RunnerType, Accept
  <2>2. dispatch' \in messages /\ UNCHANGED <<lifecycle, queue, tu, held>>
    BY <1>3 DEF Accept
  <2> QED
    BY <2>1, <2>2, <1>2 DEF RunnerType, Silent, envFrame
<1>4. CASE Deliver
  <2>1. dispatch \in messages
    BY <1>4 DEF Deliver, RunnerType
  <2>2. ProcessMessage(dispatch) \in S
    BY <2>1 DEF Command, ProcessMessage
  <2>3. Send(ProcessMessage(dispatch))
    BY <1>4 DEF Deliver
  <2>4. queue' \in Seq(S) /\ Len(queue') <= Capacity
    BY <1>1, <2>2, <2>3, SendLemma
  <2> QED
    BY <2>4, <1>2, <1>4 DEF Deliver, RunnerType, Silent, envFrame
<1>5. CASE StopRequested
  <2>1. Terminate \in S
    BY DEF Command
  <2>2. queue' \in Seq(S) /\ Len(queue') <= Capacity
    <3>1. CASE UNCHANGED queue
      BY <3>1, <1>1
    <3>2. CASE Send(Terminate)
      BY <3>2, <1>1, <2>1, SendLemma
    <3> QED
      BY <1>5, <3>1, <3>2 DEF StopRequested
  <2> QED
    BY <2>2, <1>2, <1>5 DEF StopRequested, RunnerType, Silent, envFrame, Lifecycle
<1>6. CASE TuCloses
  BY <1>2, <1>6 DEF TuCloses, RunnerType, Silent, envFrame
<1> QED
  BY <1>3, <1>4, <1>5, <1>6

\* Wherever an iteration of the loop ends, the runner has a place to be.
LEMMA RestPlace ==
  ASSUME NEW timers
  PROVE  Rest \in Place(timers) /\ Recv \in Place(timers) /\ Exiting \in Place(timers)
BY DEF Rest, Place

\* TransitionTo commands the runner does not act on, and those it acts on by
\* shutting down; Terminate.
LEMMA RefusalType ==
  ASSUME NEW timers, NEW messages, NEW outputs, NEW kind, Event \subseteq outputs,
         RunnerType(timers, messages, outputs),
         IgnoreTransition \/ RejectTransition(kind) \/ EnterStateUnheard(kind) \/ RunTerminate
  PROVE  RunnerType(timers, messages, outputs)'
<1> DEFINE S == Command(timers, messages)
<1>1. /\ queue \in Seq(S) /\ Len(queue) <= Capacity /\ tasks \in [timers -> TaskPhase]
      /\ told \subseteq Notable
  BY DEF RunnerType
<1>2. PICK c : Receive(c)
  BY DEF IgnoreTransition, RejectTransition, EnterStateUnheard, RunTerminate
<1>3. queue' \in Seq(S) /\ Len(queue') <= Capacity
  BY <1>1, <1>2, ReceiveLemma
<1>4. UNCHANGED loopFrame
  BY DEF IgnoreTransition, RejectTransition, EnterStateUnheard, RunTerminate
<1>5. CASE IgnoreTransition
  BY <1>3, <1>4, <1>5 DEF IgnoreTransition, RunnerType, Silent, loopFrame
<1>6. CASE RejectTransition(kind)
  <2>1. {"Error"} \subseteq outputs /\ Emit({"Error"})
    BY <1>6 DEF RejectTransition, Event
  <2>2. out' \subseteq outputs /\ told' \subseteq Notable
    BY <2>1, <1>1, EmitLemma
  <2> QED
    BY <1>3, <1>4, <1>6, <2>2 DEF RejectTransition, RunnerType, loopFrame
<1>7. CASE EnterStateUnheard(kind) \/ RunTerminate
  <2>1. Abort(Timers) /\ Silent /\ state' = "Terminated" /\ runner' = Exiting
    BY <1>7 DEF EnterStateUnheard, RunTerminate
  <2>2. tasks' \in [timers -> TaskPhase]
    BY <2>1, <1>1, AbortLemma
  <2>3. lifecycle' \in Lifecycle /\ grace' = grace
    BY <1>7 DEF EnterStateUnheard, RunTerminate, RunnerType, Lifecycle
  <2> QED
    BY <1>3, <1>4, <2>1, <2>2, <2>3, RestPlace DEF RunnerType, Silent, loopFrame, State
<1> QED
  BY <1>5, <1>6, <1>7

\* The steps between two commands: the runner's sends to itself, the work it
\* does under the timer manager's lock, and the end of the loop.
LEMMA BetweenCommandsType ==
  ASSUME NEW timers, NEW messages, NEW outputs, Event \subseteq outputs,
         RunnerType(timers, messages, outputs),
         SelfSend \/ SelfSendFailed \/ ArmTimers \/ Unregister \/ LoopEnd
  PROVE  RunnerType(timers, messages, outputs)'
<1> DEFINE S == Command(timers, messages)
<1>1. /\ queue \in Seq(S) /\ Len(queue) <= Capacity /\ tasks \in [timers -> TaskPhase]
      /\ told \subseteq Notable /\ runner \in Place(timers)
  BY DEF RunnerType
<1>2. CASE SelfSend \/ SelfSendFailed
  <2>1. runner.to \in State /\ Send(TransitionTo(runner.to))
    BY <1>1, <1>2 DEF SelfSend, SelfSendFailed, Place, Recv, Unregistering, Exiting,
                      Stopped, At
  <2>2. TransitionTo(runner.to) \in S
    BY <2>1 DEF Command, TransitionTo
  <2>3. queue' \in Seq(S) /\ Len(queue') <= Capacity
    BY <1>1, <2>1, <2>2, SendLemma
  <2>4. UNCHANGED <<lifecycle, grace>> /\ UNCHANGED loopFrame
    BY <1>2 DEF SelfSend, SelfSendFailed
  <2>5. CASE SelfSend
    BY <2>3, <2>4, <2>5, RestPlace DEF SelfSend, RunnerType, Silent, loopFrame
  <2>6. CASE SelfSendFailed
    <3>1. {"Error"} \subseteq outputs /\ Emit({"Error"})
      BY <2>6 DEF SelfSendFailed, Event
    <3>2. out' \subseteq outputs /\ told' \subseteq Notable
      BY <3>1, <1>1, EmitLemma
    <3>3. runner' \in Place(timers) /\ state' \in State
      BY <2>6, RestPlace DEF SelfSendFailed, RunnerType, State
    <3>4. tasks' \in [timers -> TaskPhase]
      <4>1. CASE UNCHANGED tasks
        BY <4>1, <1>1
      <4>2. CASE Abort(Timers)
        BY <4>2, <1>1, AbortLemma
      <4> QED
        BY <2>6, <4>1, <4>2 DEF SelfSendFailed
    <3> QED
      BY <2>3, <2>4, <3>2, <3>3, <3>4 DEF RunnerType, loopFrame
  <2> QED
    BY <1>2, <2>5, <2>6
<1>3. CASE ArmTimers
  <2>1. tasks' \in [timers -> TaskPhase]
    BY <1>1, <1>3 DEF ArmTimers, Timers, TaskPhase
  <2> QED
    BY <1>3, <2>1, RestPlace DEF ArmTimers, RunnerType, Silent
<1>4. CASE Unregister
  BY <1>4, RestPlace DEF Unregister, RunnerType, Silent
<1>5. CASE LoopEnd
  <2>1. tasks' \in [timers -> TaskPhase]
    BY <1>1, <1>5, AbortLemma DEF LoopEnd
  <2> DEFINE o == IF state = "Terminated" THEN {"TransactionTerminated"} ELSE {}
  <2>2. o \subseteq outputs /\ Emit(o)
    BY <1>5 DEF LoopEnd, Event
  <2>3. out' \subseteq outputs /\ told' \subseteq Notable
    BY <2>2, <1>1, EmitLemma
  <2>4. queue' \in Seq(S) /\ Len(queue') <= Capacity
    BY <1>5, EmptySeq, CapacityAssumption DEF LoopEnd
  <2> QED
    BY <1>5, <2>1, <2>3, <2>4 DEF LoopEnd, RunnerType, loopFrame, Place
<1> QED
  BY <1>2, <1>3, <1>4, <1>5

-----------------------------------------------------------------------------
(* Type correctness of the steps that consult a kind's tables, given that  *)
(* the tables' entries are of the right type.                              *)

EffectType(timers, outputs) ==
  [next : State \cup {None}, arm : SUBSET timers, abort : SUBSET timers,
   sent : SUBSET outputs]

EntryType(timers, outputs) == [then : Place(timers), sent : SUBSET outputs]

\* A handler for a timer or a message: the command is taken, its effect applied.
LEMMA ApplyType ==
  ASSUME NEW timers, NEW messages, NEW outputs, NEW c,
         NEW e \in EffectType(timers, outputs),
         RunnerType(timers, messages, outputs),
         Receive(c), Apply(e), UNCHANGED <<state, lifecycle, grace>>, UNCHANGED loopFrame
  PROVE  RunnerType(timers, messages, outputs)'
<1> DEFINE S == Command(timers, messages)
<1>1. /\ queue \in Seq(S) /\ Len(queue) <= Capacity /\ tasks \in [timers -> TaskPhase]
      /\ told \subseteq Notable
  BY DEF RunnerType
<1>2. queue' \in Seq(S) /\ Len(queue') <= Capacity
  BY <1>1, ReceiveLemma
<1>3. Abort(e.abort) /\ Emit(e.sent)
  BY DEF Apply
<1>4. tasks' \in [timers -> TaskPhase]
  BY <1>1, <1>3, AbortLemma
<1>5. out' \subseteq outputs /\ told' \subseteq Notable
  BY <1>1, <1>3, EmitLemma DEF EffectType
<1>6. runner' \in Place(timers)
  BY RestPlace DEF Apply, EffectType, Place, Sending, Arming, At
<1> QED
  BY <1>2, <1>4, <1>5, <1>6 DEF RunnerType, loopFrame

\* Entering a state.
LEMMA EntryTypeLemma ==
  ASSUME NEW timers, NEW messages, NEW outputs, NEW s \in State,
         NEW e \in EntryType(timers, outputs),
         RunnerType(timers, messages, outputs),
         Receive(TransitionTo(s)), Abort(Timers), state' = s,
         lifecycle' = IF s = "Terminated" THEN "Terminating" ELSE lifecycle,
         grace' = IF s = "Terminated" THEN "waiting" ELSE grace,
         runner' = e.then, Emit(e.sent), UNCHANGED loopFrame
  PROVE  RunnerType(timers, messages, outputs)'
<1> DEFINE S == Command(timers, messages)
<1>1. /\ queue \in Seq(S) /\ Len(queue) <= Capacity /\ tasks \in [timers -> TaskPhase]
      /\ told \subseteq Notable
  BY DEF RunnerType
<1>2. queue' \in Seq(S) /\ Len(queue') <= Capacity
  BY <1>1, ReceiveLemma
<1>3. tasks' \in [timers -> TaskPhase]
  BY <1>1, AbortLemma
<1>4. out' \subseteq outputs /\ told' \subseteq Notable
  BY <1>1, EmitLemma DEF EntryType
<1>5. lifecycle' \in Lifecycle /\ grace' \in {"none", "waiting", "draining", "done"}
  BY DEF RunnerType, Lifecycle
<1>6. runner' \in Place(timers)
  BY DEF EntryType
<1> QED
  BY <1>2, <1>3, <1>4, <1>5, <1>6 DEF RunnerType, loopFrame

\* A message for a runner that is gone.
LEMMA DeliverClosedType ==
  ASSUME NEW timers, NEW messages, NEW outputs, NEW o, o \subseteq outputs,
         RunnerType(timers, messages, outputs), dispatch' = None, Emit(o),
         UNCHANGED <<lifecycle, queue, tu, held, arrivals>>, UNCHANGED envFrame
  PROVE  RunnerType(timers, messages, outputs)'
<1>1. out' \subseteq outputs /\ told' \subseteq Notable
  BY EmitLemma DEF RunnerType
<1> QED
  BY <1>1 DEF RunnerType, envFrame
=============================================================================
