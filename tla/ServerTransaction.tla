------------------------- MODULE ServerTransaction -------------------------
(***************************************************************************)
(* What the two server transactions share: send_response, which runs in    *)
(* the task of its caller and not in the runner, and the calls the         *)
(* transaction manager makes.                                              *)
(*                                                                         *)
(* send_response reads the state once, at its start, and decides with that *)
(* reading after several awaits: it stores the response in last_response,  *)
(* (INVITE) sends CancelTimer100, puts the response on the wire, and asks  *)
(* the runner for the state the response leads to.  Nothing serialises its *)
(* callers: they are the tasks of the TU (the one that answers the call    *)
(* and the one that handles its CANCEL, say), each with any response at    *)
(* any time, and, for a reliable provisional response, a task that calls   *)
(* it again until PRACK arrives (server/reliable_invite.rs).               *)
(***************************************************************************)
EXTENDS TransactionRunner

CONSTANTS
  TuTasks,         \* the tasks of the TU that call send_response
  MaxResponses,    \* bound: calls of send_response by the TU's tasks, together
  MaxRepeats       \* bound: calls by the reliable retransmitter; 0: none

ASSUME TuTasksAssumption == "retransmitter" \notin TuTasks
ASSUME MaxResponsesAssumption == MaxResponses \in Nat
ASSUME MaxRepeatsAssumption == MaxRepeats \in Nat

VARIABLES
  last,      \* last_response
  calls,     \* where each caller of send_response stands
  answers,   \* the final responses whose send_response returned Ok
  responses, \* calls the TU has begun
  reliable,  \* the retransmitter: off, on, stopped
  repeats    \* calls the retransmitter has begun

serverVars == <<last, calls, answers, responses, reliable, repeats>>

\* "18x" stands for 101-199, of which those the peer supports go out reliably.
Provisional == {"100", "18x"}
Final == {"2xx", "failure"}
Response == Provisional \cup Final
Caller == TuTasks \cup {"retransmitter"}

Call(where, r, saw) == [at |-> where, response |-> r, saw |-> saw]
Idle == Call("idle", None, None)

Queued(c) == \E i \in 1..Len(queue) : queue[i] = c

-----------------------------------------------------------------------------
(* send_response, one step between two awaits.                             *)

callFrame == <<state, lifecycle, runner, tasks, registered, grace, tu, held,
               dispatch, arrivals>>

Advance(c, where) == calls' = [calls EXCEPT ![c].at = where]
Return(c) == calls' = [calls EXCEPT ![c] = Idle]

\* The call returned Ok: its task knows its final response is out; a provisional
\* response the peer supports reliably is repeated by a task of its own (the
\* model has one such task).
Succeed(c) ==
  LET r == calls[c].response IN
  /\ Return(c)
  /\ answers' = answers \cup ({r} \cap Final)
  /\ \/ UNCHANGED reliable
     \/ /\ c \in TuTasks /\ r = "18x" /\ MaxRepeats > 0 /\ reliable = "off"
        /\ reliable' = "on"

\* The call returned an error, at which the retransmitter gives up.
Fail(c) ==
  /\ Return(c)
  /\ answers' = answers
  /\ reliable' = IF c = "retransmitter" THEN "stopped" ELSE reliable

\* The manager finds the transaction and the call reads its state.
Begin(c, r) ==
  /\ held /\ calls[c] = Idle
  /\ calls' = [calls EXCEPT ![c] = Call("store", r, state)]

\* Whatever was sent before, and whatever the other tasks are sending.
TuBegins(c) ==
  /\ responses < MaxResponses
  /\ \E r \in Response \ {"100"} : Begin(c, r)
  /\ responses' = responses + 1
  /\ Silent
  /\ UNCHANGED <<queue, last, answers, reliable, repeats>> /\ UNCHANGED callFrame

RetransmitterBegins ==
  /\ reliable = "on" /\ repeats < MaxRepeats
  /\ Begin("retransmitter", "18x")
  /\ repeats' = repeats + 1
  /\ Silent
  /\ UNCHANGED <<queue, last, answers, responses, reliable>> /\ UNCHANGED callFrame

\* PRACK aborts the retransmitter at whatever await it is in; so do the end of
\* the dialog and the abandon window.
RetransmitterStops ==
  /\ reliable = "on" /\ reliable' = "stopped"
  /\ Return("retransmitter")
  /\ Silent
  /\ UNCHANGED <<queue, last, answers, responses, repeats>> /\ UNCHANGED callFrame

\* Faulty variant: a response that is already stored is kept.
StoreFirst(c, next) ==
  /\ calls[c].at = "store"
  /\ last' = IF last = None THEN calls[c].response ELSE last
  /\ Advance(c, next)
  /\ Silent
  /\ UNCHANGED <<queue, answers, responses, reliable, repeats>> /\ UNCHANGED callFrame

Store(c, next) ==
  /\ calls[c].at = "store"
  /\ last' = calls[c].response
  /\ Advance(c, next)
  /\ Silent
  /\ UNCHANGED <<queue, answers, responses, reliable, repeats>> /\ UNCHANGED callFrame

\* The send of CancelTimer100 waits for room, and fails once the runner is gone.
SendCancel(c) ==
  /\ calls[c].at = "cancel"
  /\ IF Closed THEN Fail(c) /\ UNCHANGED queue
     ELSE Send(CancelTimer100) /\ Advance(c, "wire") /\ UNCHANGED <<answers, reliable>>
  /\ Silent
  /\ UNCHANGED <<last, responses, repeats>> /\ UNCHANGED callFrame

\* The transport takes the response or the call fails, leaving the state alone.
PutOnWire(c, target) ==
  /\ calls[c].at = "wire"
  /\ \/ /\ Emit({calls[c].response})
        /\ IF target = None THEN Succeed(c)
           ELSE Advance(c, "transition") /\ UNCHANGED <<answers, reliable>>
     \/ Silent /\ Fail(c)
  /\ UNCHANGED <<queue, last, responses, repeats>> /\ UNCHANGED callFrame

SendTarget(c, target) ==
  /\ calls[c].at = "transition"
  /\ IF Closed THEN Fail(c) /\ UNCHANGED queue
     ELSE Send(TransitionTo(target)) /\ Succeed(c)
  /\ Silent
  /\ UNCHANGED <<last, responses, repeats>> /\ UNCHANGED callFrame

\* `next` is where the call goes after the store, `target` the state it asks for.
CallStep(c, next, target) ==
  Store(c, next) \/ SendCancel(c) \/ PutOnWire(c, target) \/ SendTarget(c, target)

-----------------------------------------------------------------------------
\* CancelTimer100 at the runner: ServerInviteLogic has no handler of its own,
\* and the default one does nothing.
RunCancelTimer100 ==
  /\ Receive(CancelTimer100)
  /\ runner' = Rest
  /\ Silent
  /\ UNCHANGED <<state, lifecycle, tasks, grace>> /\ UNCHANGED loopFrame

\* create_server_transaction asks for the state the transaction is already in.
ServerInit(initial, timers) ==
  /\ state = initial /\ queue = <<TransitionTo(initial)>>
  /\ lifecycle = "Active" /\ runner = Recv
  /\ tasks = [t \in timers |-> "idle"] /\ registered = FALSE /\ grace = "none"
  /\ tu = TRUE /\ held = TRUE /\ dispatch = None /\ arrivals = 0
  /\ out = {} /\ told = {}
  /\ last = None /\ answers = {} /\ responses = 0
  /\ calls = [c \in Caller |-> Idle]
  /\ reliable = "off" /\ repeats = 0

ServerType ==
  /\ last \in Response \cup {None}
  /\ calls \in [Caller -> [at : {"idle", "store", "cancel", "wire", "transition"},
                           response : Response \cup {None}, saw : State \cup {None}]]
  /\ answers \subseteq Final
  /\ responses \in 0..MaxResponses /\ repeats \in 0..MaxRepeats
  /\ reliable \in {"off", "on", "stopped"}
=============================================================================
