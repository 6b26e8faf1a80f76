------------------------- MODULE TransactionRunner -------------------------
(***************************************************************************)
(* The event loop every SIP transaction runs in (runner.rs), the timer     *)
(* tasks that feed it (timer_utils.rs, timer/manager.rs), and the ways the *)
(* TransactionManager reaches it: dispatch of a received message, and the  *)
(* request to stop.  A kind of transaction (INVITE client, ...) EXTENDS    *)
(* this module and supplies its TransactionLogic as tables: what happens   *)
(* on entering a state, on a timer, and on a message.                      *)
(*                                                                         *)
(* Everything a transaction does travels through one bounded command       *)
(* channel, and the runner is its only reader.  A handler that wants a     *)
(* state change does not make it: it sends TransitionTo to itself, behind  *)
(* whatever is already queued, so later commands still see the old state.  *)
(* Aborting a timer task does not take its command out of the channel.     *)
(*                                                                         *)
(* Durations are abstracted: a running timer may fire at any moment.       *)
(***************************************************************************)
EXTENDS TransactionState, Naturals, Sequences

CONSTANTS
  Capacity,     \* slots of the command channel
  MaxArrivals   \* bound: messages the manager dispatches to the transaction

ASSUME CapacityAssumption == Capacity \in Nat \ {0}
ASSUME MaxArrivalsAssumption == MaxArrivals \in Nat

VARIABLES
  state,        \* AtomicTransactionState
  lifecycle,    \* TransactionLifecycle
  queue,        \* the command channel
  runner,       \* where run_transaction_loop stands
  tasks,        \* phase of the task behind each timer handle
  registered,   \* the TimerManager knows the transaction's channel
  grace,        \* the task that walks the lifecycle to Destroyed
  tu,           \* the receiver of TransactionEvents is alive
  held,         \* the manager's map still holds the transaction
  dispatch,     \* the message the manager is handing over, or None
  arrivals,     \* messages dispatched so far
  out,          \* what the last step sent: events and wire messages
  told          \* notable events delivered to the TU so far

runnerVars == <<state, lifecycle, queue, runner, tasks, registered, grace,
                tu, held, dispatch, arrivals, out, told>>

None == "none"

-----------------------------------------------------------------------------
(* Events and what they are remembered for.                                *)

Event == {"ProvisionalResponse", "SuccessResponse", "FailureResponse",
          "TransactionTimeout", "TransportError", "TimerTriggered", "Error",
          "AckReceived", "CancelReceived", "TransactionTerminated"}

\* How a client transaction can end, as the TU sees it.
Outcome == {"SuccessResponse", "FailureResponse",
            "TransactionTimeout", "TransportError"}

Notable == Outcome \cup {"AckReceived", "TransactionTerminated"}

\* Events are lost once the TU's receiver is gone; wire messages are not.
Emit(o) ==
  /\ out' = IF tu THEN o ELSE o \ Event
  /\ told' = told \cup (out' \cap Notable)

Silent == out' = {} /\ told' = told

-----------------------------------------------------------------------------
(* Commands.                                                               *)

TransitionTo(s) == [op |-> "TransitionTo", arg |-> s]
Timer(t) == [op |-> "Timer", arg |-> t]
ProcessMessage(m) == [op |-> "ProcessMessage", arg |-> m]
Terminate == [op |-> "Terminate", arg |-> None]
CancelTimer100 == [op |-> "CancelTimer100", arg |-> None]

\* Where the runner stands: waiting for a command, blocked in a send to
\* itself, waiting for the timer manager's lock, leaving the loop, gone.
At(where, to, timers) == [at |-> where, to |-> to, arm |-> timers]
Recv == At("recv", None, {})
Sending(s) == At("send", s, {})
SendingFailed(s) == At("sendFailed", s, {})
Arming(ts) == At("arm", None, ts)
Unregistering == At("unregister", None, {})
Exiting == At("exit", None, {})
Stopped == At("stopped", None, {})

\* The check at the end of an iteration of the loop.
Rest == IF lifecycle = "Destroyed" THEN Exiting ELSE Recv

HasRoom == Len(queue) < Capacity
Closed == runner = Stopped

Receive(c) == runner = Recv /\ queue # <<>> /\ Head(queue) = c
              /\ queue' = Tail(queue)
Send(c) == HasRoom /\ queue' = Append(queue, c)

-----------------------------------------------------------------------------
(* Timer tasks.  A managed timer sends its command while it holds the lock *)
(* of the timer manager; a transition timer sends Timer and then, as a     *)
(* second send, TransitionTo(Terminated).                                  *)

ManagedTimer == {"A", "B", "E", "F", "G", "H"}
TransitionTimer == {"D", "K", "I", "J"}

\* idle: no task; asleep: waiting; late: aborted while already running its
\* last poll; blocked: holds the lock, waits for room; second: Timer sent,
\* TransitionTo not yet.
TaskPhase == {"idle", "asleep", "late", "blocked", "second"}

Timers == DOMAIN tasks
LockHeld == \E t \in Timers : tasks[t] = "blocked"

\* JoinHandle::abort stops a task at its next await, so one that is being
\* polled still completes its send.
AbortedBut(ts, racing) ==
  [t \in Timers |->
     IF t \notin ts \/ tasks[t] = "late" THEN tasks[t]
     ELSE IF t \notin racing THEN "idle"
     ELSE IF tasks[t] = "asleep" THEN "late"
     ELSE tasks[t]]

Abort(ts) ==
  \E racing \in SUBSET {t \in ts \cap Timers : tasks[t] \in {"asleep", "second"}} :
    tasks' = AbortedBut(ts, racing)

SetTask(t, phase) == tasks' = [tasks EXCEPT ![t] = phase]

taskFrame == <<state, lifecycle, runner, registered, grace, tu, held,
               dispatch, arrivals>>

\* start_timer's task after its sleep: take the lock, look the channel up,
\* send.  Without room an aborted task ends, any other waits with the lock.
FireManaged(t) ==
  /\ t \in ManagedTimer
  /\ tasks[t] \in {"asleep", "late"}
  /\ ~LockHeld
  /\ \/ /\ ~registered \/ Closed
        /\ SetTask(t, "idle") /\ UNCHANGED queue
     \/ /\ registered /\ ~Closed /\ HasRoom
        /\ Send(Timer(t)) /\ SetTask(t, "idle")
     \/ /\ registered /\ ~Closed /\ ~HasRoom
        /\ SetTask(t, IF tasks[t] = "late" THEN "idle" ELSE "blocked")
        /\ UNCHANGED queue
  /\ Silent /\ UNCHANGED taskFrame

\* The send a managed timer was blocked in goes through, or the channel closes.
Unblock(t) ==
  /\ t \in ManagedTimer /\ tasks[t] = "blocked"
  /\ IF Closed THEN UNCHANGED queue ELSE Send(Timer(t))
  /\ SetTask(t, "idle")
  /\ Silent /\ UNCHANGED taskFrame

\* start_timer_with_transition's task, its two sends.  A task aborted during
\* the first may still make the second; with a full channel that is more than
\* tokio would let it do.
FireTransition(t) ==
  /\ t \in TransitionTimer
  /\ tasks[t] \in {"asleep", "late"}
  /\ \/ Closed /\ SetTask(t, "idle") /\ UNCHANGED queue
     \/ ~Closed /\ Send(Timer(t)) /\ SetTask(t, "second")
     \/ /\ ~Closed /\ ~HasRoom /\ tasks[t] = "late"
        /\ SetTask(t, "idle") /\ UNCHANGED queue
  /\ Silent /\ UNCHANGED taskFrame

SendTransition(t) ==
  /\ t \in TransitionTimer /\ tasks[t] = "second"
  /\ IF Closed THEN UNCHANGED queue ELSE Send(TransitionTo("Terminated"))
  /\ SetTask(t, "idle")
  /\ Silent /\ UNCHANGED taskFrame

TimerStep == \E t \in Timers : FireManaged(t) \/ Unblock(t)
                               \/ FireTransition(t) \/ SendTransition(t)

-----------------------------------------------------------------------------
(* The loop.  An effect is what a handler of the logic does: the state it  *)
(* asks for (or None), the timers it starts and aborts, what it sends.     *)

Effect(next, arm, abort, sent) ==
  [next |-> next, arm |-> arm, abort |-> abort, sent |-> sent]

\* A timer command that finds nothing to do is still reported.
Nothing == {Effect(None, {}, {}, {})}
OnlyTriggered == {Effect(None, {}, {}, {"TimerTriggered"})}

\* Faulty variant: "no state change" is sent like a state.
ApplyAlwaysSends(e) ==
  Abort(e.abort) /\ runner' = Sending(e.next) /\ Emit(e.sent)

Apply(e) ==
  /\ Abort(e.abort)
  /\ runner' = IF e.next # None THEN Sending(e.next)
               ELSE IF e.arm # {} THEN Arming(e.arm) ELSE Rest
  /\ Emit(e.sent)

\* What on_enter_state leaves the runner doing, and what it sent.
Entry(then, sent) == [then |-> then, sent |-> sent]

loopFrame == <<registered, tu, held, dispatch, arrivals>>

\* TransitionTo the current state: `continue`, past the end-of-loop check.
IgnoreTransition ==
  /\ Receive(TransitionTo(state))
  /\ Silent
  /\ UNCHANGED <<state, lifecycle, runner, tasks, grace>> /\ UNCHANGED loopFrame

RejectTransition(kind) ==
  /\ \E s \in State : /\ ~ValidTransition(kind, state, s)
                      /\ Receive(TransitionTo(s))
  /\ Emit({"Error"})
  /\ UNCHANGED <<state, lifecycle, runner, tasks, grace>> /\ UNCHANGED loopFrame

\* Faulty variant: a state is entered again when asked for twice.
AcceptsAgain(kind, s) == ValidTransition(kind, state, s)

Accepts(kind, s) == s # state /\ ValidTransition(kind, state, s)

\* An accepted TransitionTo: abort all timers, set the state, start the
\* grace period if the state is terminal, then on_enter_state.
EnterState(kind, s, entries) ==
  /\ Accepts(kind, s)
  /\ tu \/ s = "Terminated" \/ lifecycle # "Active"
  /\ Receive(TransitionTo(s))
  /\ Abort(Timers)
  /\ state' = s
  /\ lifecycle' = IF s = "Terminated" THEN "Terminating" ELSE lifecycle
  /\ grace' = IF s = "Terminated" THEN "waiting" ELSE grace
  /\ \E e \in entries : runner' = e.then /\ Emit(e.sent)
  /\ UNCHANGED loopFrame

\* StateChanged cannot be delivered because the TU is gone: shut down.
EnterStateUnheard(kind) ==
  /\ ~tu /\ lifecycle = "Active"
  /\ \E s \in State \ {"Terminated"} : Accepts(kind, s) /\ Receive(TransitionTo(s))
  /\ Abort(Timers)
  /\ state' = "Terminated"
  /\ runner' = Exiting
  /\ Silent
  /\ UNCHANGED <<lifecycle, grace>> /\ UNCHANGED loopFrame

\* A Timer or ProcessMessage command, with the effects its handler may have.
RunTimer(t, effects) ==
  /\ Receive(Timer(t))
  /\ \E e \in effects : Apply(e)
  /\ UNCHANGED <<state, lifecycle, grace>> /\ UNCHANGED loopFrame

RunMessage(m, effects) ==
  /\ Receive(ProcessMessage(m))
  /\ \E e \in effects : Apply(e)
  /\ UNCHANGED <<state, lifecycle, grace>> /\ UNCHANGED loopFrame

RunTerminate ==
  /\ Receive(Terminate)
  /\ Abort(Timers)
  /\ state' = "Terminated" /\ lifecycle' = "Destroyed"
  /\ runner' = Exiting
  /\ Silent
  /\ UNCHANGED grace /\ UNCHANGED loopFrame

\* The send of TransitionTo by a handler that returned a state.
SelfSend ==
  /\ runner.at = "send"
  /\ Send(TransitionTo(runner.to))
  /\ runner' = Rest
  /\ Silent
  /\ UNCHANGED <<state, lifecycle, tasks, grace>> /\ UNCHANGED loopFrame

\* on_enter_state asked for Terminated itself and then returned an error.
SelfSendFailed ==
  /\ runner.at = "sendFailed"
  /\ Send(TransitionTo(runner.to))
  /\ IF tu THEN runner' = Rest /\ UNCHANGED <<state, tasks>>
     ELSE Abort(Timers) /\ state' = "Terminated" /\ runner' = Exiting
  /\ Emit({"Error"})
  /\ UNCHANGED <<lifecycle, grace>> /\ UNCHANGED loopFrame

\* register_transaction and the spawn of the timer tasks.
ArmTimers ==
  /\ runner.at = "arm" /\ ~LockHeld
  /\ tasks' = [t \in Timers |-> IF t \in runner.arm THEN "asleep" ELSE tasks[t]]
  /\ registered' = TRUE
  /\ runner' = Rest
  /\ Silent
  /\ UNCHANGED <<state, lifecycle, queue, grace, tu, held, dispatch, arrivals>>

Unregister ==
  /\ runner.at = "unregister" /\ ~LockHeld
  /\ registered' = FALSE
  /\ runner' = Rest
  /\ Silent
  /\ UNCHANGED <<state, lifecycle, queue, tasks, grace, tu, held, dispatch, arrivals>>

\* After the loop; the receiver is dropped with what it still holds.
LoopEnd ==
  /\ runner.at = "exit"
  /\ Abort(Timers)
  /\ Emit(IF state = "Terminated" THEN {"TransactionTerminated"} ELSE {})
  /\ queue' = <<>>
  /\ runner' = Stopped
  /\ UNCHANGED <<state, lifecycle, grace>> /\ UNCHANGED loopFrame

\* The steps that consult no table of the logic.
LoopStep(kind) ==
  \/ IgnoreTransition \/ RejectTransition(kind) \/ EnterStateUnheard(kind)
  \/ RunTerminate
  \/ SelfSend \/ SelfSendFailed \/ ArmTimers \/ Unregister \/ LoopEnd

-----------------------------------------------------------------------------
(* The grace task: 500 ms to Draining, 100 ms to Destroyed, then a         *)
(* Terminate that is dropped when the channel is full.                     *)

graceFrame == <<state, runner, tasks, registered, tu, held, dispatch, arrivals>>

GraceExpires ==
  /\ grace = "waiting"
  /\ grace' = "draining" /\ lifecycle' = "Draining"
  /\ Silent /\ UNCHANGED queue /\ UNCHANGED graceFrame

\* Faulty variant: Destroyed is set but the runner is not woken.
DrainExpiresSilently ==
  /\ grace = "draining"
  /\ grace' = "done" /\ lifecycle' = "Destroyed"
  /\ Silent /\ UNCHANGED queue /\ UNCHANGED graceFrame

DrainExpires ==
  /\ grace = "draining"
  /\ grace' = "done" /\ lifecycle' = "Destroyed"
  /\ IF Closed \/ ~HasRoom THEN UNCHANGED queue ELSE Send(Terminate)
  /\ Silent /\ UNCHANGED graceFrame

-----------------------------------------------------------------------------
(* The transaction manager and the transaction user.                       *)

envFrame == <<state, runner, tasks, registered, grace>>

\* handle_response / handle_request: only an Active transaction is handed a
\* message; the hand-over itself waits for room in the channel.
Accept(m) ==
  /\ held /\ dispatch = None /\ arrivals < MaxArrivals
  /\ lifecycle = "Active"
  /\ dispatch' = m /\ arrivals' = arrivals + 1
  /\ Silent
  /\ UNCHANGED <<lifecycle, queue, tu, held>> /\ UNCHANGED envFrame

Deliver ==
  /\ dispatch # None /\ ~Closed
  /\ Send(ProcessMessage(dispatch))
  /\ dispatch' = None
  /\ Silent
  /\ UNCHANGED <<lifecycle, tu, held, arrivals>> /\ UNCHANGED envFrame

\* The runner is gone: process_request fails; a failed process_response
\* makes the manager report the response to the TU itself.
DeliverClosed(reports) ==
  /\ dispatch # None /\ Closed
  /\ dispatch' = None
  /\ Emit(reports)
  /\ UNCHANGED <<lifecycle, queue, tu, held, arrivals>> /\ UNCHANGED envFrame

\* request_transaction_runner_stop, and the removal from the map after it.
StopRequested ==
  /\ held /\ held' = FALSE
  /\ IF Closed THEN UNCHANGED <<queue, lifecycle>>
     ELSE IF HasRoom THEN Send(Terminate) /\ UNCHANGED lifecycle
     ELSE lifecycle' = "Destroyed" /\ UNCHANGED queue
  /\ Silent
  /\ UNCHANGED <<tu, dispatch, arrivals>> /\ UNCHANGED envFrame

\* The TU drops its receiver (endpoint shutdown).
TuCloses ==
  /\ tu /\ tu' = FALSE
  /\ Silent
  /\ UNCHANGED <<lifecycle, queue, held, dispatch, arrivals>> /\ UNCHANGED envFrame

-----------------------------------------------------------------------------
RunnerInit(initial, timers) ==
  /\ state = initial
  /\ lifecycle = "Active"
  /\ queue = <<>>
  /\ runner = Recv
  /\ tasks = [t \in timers |-> "idle"]
  /\ registered = FALSE
  /\ grace = "none"
  /\ tu = TRUE /\ held = TRUE
  /\ dispatch = None /\ arrivals = 0
  /\ out = {} /\ told = {}

Command(timers, messages) ==
  [op : {"TransitionTo"}, arg : State] \cup [op : {"Timer"}, arg : timers]
  \cup [op : {"ProcessMessage"}, arg : messages] \cup {Terminate, CancelTimer100}

Place(timers) ==
  [at : {"send", "sendFailed"}, to : State, arm : {{}}]
  \cup [at : {"arm"}, to : {None}, arm : SUBSET timers]
  \cup {Recv, Unregistering, Exiting, Stopped}

RunnerType(timers, messages, outputs) ==
  /\ state \in State
  /\ lifecycle \in Lifecycle
  /\ queue \in Seq(Command(timers, messages)) /\ Len(queue) <= Capacity
  /\ runner \in Place(timers)
  /\ tasks \in [timers -> TaskPhase]
  /\ registered \in BOOLEAN
  /\ grace \in {"none", "waiting", "draining", "done"}
  /\ tu \in BOOLEAN /\ held \in BOOLEAN
  /\ dispatch \in messages \cup {None}
  /\ arrivals \in 0..MaxArrivals
  /\ out \subseteq outputs
  /\ told \subseteq Notable
=============================================================================
