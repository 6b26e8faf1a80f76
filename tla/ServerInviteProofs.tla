------------------------- MODULE ServerInviteProofs -------------------------
(***************************************************************************)
(* Theorems about the INVITE server transaction, for every capacity of the *)
(* channel, any number of tasks that call send_response at once, and any   *)
(* number of requests, responses and repetitions: its state has its type   *)
(* and only moves forward, what it retransmits was given to send_response, *)
(* it retransmits nothing after the ACK, a refused call that ends by       *)
(* itself was settled with the TU, and something always remains that will  *)
(* end a refused call and an accepted one.                                 *)
(*                                                                         *)
(* send_response runs beside the runner, so the invariant ties the two     *)
(* together: a command, a state or a timer that belongs to a refusal means *)
(* that some task's refusal was sent, and with it stored.                  *)
(***************************************************************************)
EXTENDS ServerInvite, TransactionRunnerProofs

Places == {"idle", "store", "cancel", "wire", "transition"}
CallRecord == [at : Places, response : Response \cup {None}, saw : State \cup {None}]

\* A call under way has its response, and asks for the state it leads to.
Given == Response \ {"100"}
CallsOK ==
  \A c \in Caller :
    /\ calls[c].at # "idle" => calls[c].response \in Given
    /\ calls[c].at = "transition" => Target(calls[c].response, calls[c].saw) # None

\* The transaction is refused: it is in a state of a refused call, or a
\* command or the runner itself is about to take it there.
RefusalCommand == {TransitionTo("Completed"), TransitionTo("Confirmed")}
Refusing ==
  \/ state \in {"Completed", "Confirmed"} \/ runner.to \in {"Completed", "Confirmed"}
  \/ \E i \in 1..Len(queue) : queue[i] \in RefusalCommand

\* From the first response a caller has stored, last_response is one that some
\* caller gave: Timer 100 finds it taken.
Serving ==
  answers # {} \/ (\E c \in Caller : calls[c].at \in {"cancel", "wire", "transition"}) =>
    last \in Given

\* A transaction is refused by a caller of send_response alone.
Refusals == Refusing => "failure" \in answers

\* The end is on its way.
EndCommand == {TransitionTo("Confirmed"), TransitionTo("Terminated"), Terminate}
Ending ==
  \/ state \in {"Confirmed", "Terminated"} \/ runner.to \in {"Confirmed", "Terminated"}
  \/ \E i \in 1..Len(queue) : queue[i] \in EndCommand
  \/ grace # "none" \/ tasks["I"] # "idle" \/ "I" \in runner.arm

Settlement == {"AckReceived", "TransactionTimeout", "TransportError"}

\* What sets the end of a call that was not accepted in motion has been told
\* to the TU.
Settled == tu /\ held /\ Ending /\ "2xx" \notin answers => told \cap Settlement # {}

-----------------------------------------------------------------------------
(* The tables of ServerInviteLogic.                                        *)

\* on_enter_state.
LEMMA OnEnterForms ==
  ASSUME NEW s \in State, NEW e \in OnEnter(s)
  PROVE  /\ e \in EntryType(TimerNames, Outputs) /\ e.sent = {}
         /\ e.then.to \notin {"Completed", "Confirmed", "Terminated"}
         /\ "I" \in e.then.arm => s = "Confirmed"
<1>1. \/ e = Entry(Arming({"G", "H"}), {})
      \/ e = Entry(Arming({"I"}), {}) /\ s = "Confirmed"
      \/ e = Entry(Recv, {})
      \/ e = Entry(Rest, {})
  BY DEF OnEnter, State
<1>2. /\ Arming({"G", "H"}) \in Place(TimerNames) /\ Arming({"I"}) \in Place(TimerNames)
      /\ Recv \in Place(TimerNames) /\ Rest \in Place(TimerNames)
  BY RestPlace DEF Place, Arming, At, TimerNames
<1>3. e \in EntryType(TimerNames, Outputs) /\ e.sent = {}
  BY <1>1, <1>2 DEF Entry, EntryType
<1>4. /\ e.then.to \notin {"Completed", "Confirmed", "Terminated"}
      /\ "I" \in e.then.arm => s = "Confirmed"
  BY <1>1 DEF Entry, Arming, Rest, Recv, Exiting, At, None
<1> QED
  BY <1>3, <1>4

\* What a handler may do: it asks for no state but Confirmed, in Completed,
\* and Terminated, and only with a report; it starts no Timer I; in Confirmed
\* it sends no final response.
Handled(e) ==
  /\ e \in EffectType(TimerNames, Outputs)
  /\ e.next \in {None, "Confirmed", "Terminated"}
  /\ e.next = "Confirmed" => state = "Completed"
  /\ e.next # None => e.sent \cap Settlement # {}
  /\ "I" \notin e.arm
  /\ state = "Confirmed" => e.sent \cap Final = {}

\* handle_timer.
LEMMA HandleTimerForms ==
  ASSUME TypeOK, NEW t \in TimerNames, NEW e \in HandleTimer(t)
  PROVE  Handled(e)
<1>0. Cached \subseteq Response
  BY DEF Cached, TypeOK, ServerType
<1>1. \/ e = Effect(None, {"G"}, {}, Cached \cup {"TimerTriggered"}) /\ state = "Completed"
      \/ e = Effect("Terminated", {}, {}, {"TransportError", "TimerTriggered"})
      \/ e = Effect("Terminated", {}, {}, {"TransactionTimeout", "TimerTriggered"})
      \/ e = Effect(None, {}, {}, {"TimerTriggered"})
  BY DEF HandleTimer, HandleTimerG, HandleTimerH, OnlyTriggered, TimerNames
<1>2. CASE e = Effect(None, {"G"}, {}, Cached \cup {"TimerTriggered"}) /\ state = "Completed"
  BY <1>0, <1>2 DEF Handled, Effect, EffectType, Outputs, Event, TimerNames, None
<1>3. CASE \E x \in {"TransportError", "TransactionTimeout"} :
             e = Effect("Terminated", {}, {}, {x, "TimerTriggered"})
  <2>1. PICK x \in {"TransportError", "TransactionTimeout"} :
          e = Effect("Terminated", {}, {}, {x, "TimerTriggered"})
    BY <1>3
  <2>2. /\ e.next = "Terminated" /\ e.arm = {} /\ e.sent = {x, "TimerTriggered"}
        /\ e \in EffectType(TimerNames, Outputs)
    BY <2>1 DEF Effect, EffectType, Outputs, Event, State
  <2>3. x \in e.sent \cap Settlement /\ e.sent \cap Final = {}
    BY <2>2 DEF Settlement, Final
  <2> QED
    BY <2>2, <2>3 DEF Handled, None
<1>4. CASE e = Effect(None, {}, {}, {"TimerTriggered"})
  BY <1>4 DEF Handled, Effect, EffectType, Outputs, Event, Final, None
<1> QED
  BY <1>1, <1>2, <1>3, <1>4

\* process_message.
LEMMA ProcessMessageForms ==
  ASSUME TypeOK, NEW m \in Requests, NEW e \in ProcessMessageOf(m)
  PROVE  Handled(e)
<1>0. Cached \subseteq Response
  BY DEF Cached, TypeOK, ServerType
<1>1. \/ state # "Confirmed" /\ \E o \in SUBSET Response : e = Effect(None, {}, {}, o)
      \/ e = Effect(None, {}, {}, {})
      \/ e = Effect(None, {}, {}, {"CancelReceived"})
      \/ state = "Completed" /\ e = Effect("Confirmed", {}, {}, {"AckReceived"})
  <2>1. CASE m = "INVITE"
    <3>1. e \in ProcessInvite
      BY <2>1 DEF ProcessMessageOf
    <3>2. \/ state # "Confirmed" /\ (e = Effect(None, {}, {}, Cached) \/ e = Effect(None, {}, {}, Cached \cap {"2xx"}))
          \/ e = Effect(None, {}, {}, {})
      BY <3>1 DEF ProcessInvite, Nothing
    <3> QED
      BY <1>0, <3>2
  <2>2. CASE m = "ACK"
    BY <2>2 DEF ProcessMessageOf, ProcessAck
  <2>3. CASE m \notin {"INVITE", "ACK"}
    BY <2>3 DEF ProcessMessageOf, ProcessCancel
  <2> QED
    BY <2>1, <2>2, <2>3
<1>2. CASE state # "Confirmed" /\ \E o \in SUBSET Response : e = Effect(None, {}, {}, o)
  BY <1>2 DEF Handled, Effect, EffectType, Outputs, None
<1>3. CASE e = Effect(None, {}, {}, {}) \/ e = Effect(None, {}, {}, {"CancelReceived"})
  BY <1>3 DEF Handled, Effect, EffectType, Outputs, Event, Final, None
<1>4. CASE state = "Completed" /\ e = Effect("Confirmed", {}, {}, {"AckReceived"})
  BY <1>4 DEF Handled, Effect, EffectType, Outputs, Event, State, Settlement, None
<1> QED
  BY <1>1, <1>2, <1>3, <1>4

-----------------------------------------------------------------------------
(* send_response.                                                          *)

\* A call goes on.
LEMMA AdvanceFacts ==
  ASSUME ServerType, NEW c \in Caller, NEW where \in Places, Advance(c, where)
  PROVE  /\ calls' \in [Caller -> CallRecord]
         /\ calls'[c].at = where /\ calls'[c].response = calls[c].response
         /\ calls'[c].saw = calls[c].saw
         /\ \A d \in Caller \ {c} : calls'[d] = calls[d]
<1>1. calls \in [Caller -> CallRecord]
  BY DEF ServerType, CallRecord, Places
<1>2. calls' = [calls EXCEPT ![c].at = where]
  BY DEF Advance
<1>3. /\ calls'[c] = [calls[c] EXCEPT !.at = where]
      /\ \A d \in Caller \ {c} : calls'[d] = calls[d]
      /\ DOMAIN calls' = Caller /\ calls' = [d \in Caller |-> calls'[d]]
  BY <1>1, <1>2
<1>4. /\ calls'[c] \in CallRecord /\ calls'[c].at = where
      /\ calls'[c].response = calls[c].response /\ calls'[c].saw = calls[c].saw
  BY <1>1, <1>3 DEF CallRecord
<1>5. calls' \in [Caller -> CallRecord]
  BY <1>1, <1>3, <1>4
<1> QED
  BY <1>3, <1>4, <1>5

\* A call is over.
LEMMA ReturnFacts ==
  ASSUME ServerType, NEW c \in Caller, Return(c)
  PROVE  /\ calls' \in [Caller -> CallRecord] /\ calls'[c].at = "idle"
         /\ \A d \in Caller \ {c} : calls'[d] = calls[d]
<1>1. calls \in [Caller -> CallRecord] /\ Idle \in CallRecord /\ Idle.at = "idle"
  BY DEF ServerType, CallRecord, Places, Idle, Call
<1> QED
  BY <1>1 DEF Return

\* A call begins.
LEMMA BeginFacts ==
  ASSUME TypeOK, NEW c \in Caller, NEW r \in Given, Begin(c, r)
  PROVE  /\ calls' \in [Caller -> CallRecord] /\ calls'[c].at = "store" /\ calls'[c].response = r
         /\ \A d \in Caller \ {c} : calls'[d] = calls[d]
<1>1. /\ calls \in [Caller -> CallRecord]
      /\ Call("store", r, state) \in CallRecord
      /\ Call("store", r, state).at = "store" /\ Call("store", r, state).response = r
  BY DEF TypeOK, ServerType, RunnerType, CallRecord, Places, Call, Given
<1> QED
  BY <1>1 DEF Begin

\* The calls leave the runner's own state alone.
LEMMA CallFrameType ==
  ASSUME TypeOK, UNCHANGED callFrame, out' \subseteq Outputs, told' \subseteq Notable,
         queue' \in Seq(Command(TimerNames, Requests)), Len(queue') <= Capacity
  PROVE  RunnerType(TimerNames, Requests, Outputs)'
BY DEF TypeOK, RunnerType, callFrame

\* What a call may do to the channel and the answers.
Sends ==
  \/ UNCHANGED queue
  \/ Send(CancelTimer100)
  \/ Send(TransitionTo("Completed")) /\ "failure" \in answers'
  \/ Send(TransitionTo("Terminated")) /\ "2xx" \in answers'

\* The channel stays a channel.
LEMMA SendsType ==
  ASSUME TypeOK, Sends
  PROVE  queue' \in Seq(Command(TimerNames, Requests)) /\ Len(queue') <= Capacity
<1>1. queue \in Seq(Command(TimerNames, Requests)) /\ Len(queue) <= Capacity
  BY DEF TypeOK, RunnerType
<1>2. /\ CancelTimer100 \in Command(TimerNames, Requests)
      /\ \A s \in State : TransitionTo(s) \in Command(TimerNames, Requests)
  BY DEF Command, TransitionTo
<1>3. CASE UNCHANGED queue
  BY <1>1, <1>3
<1>4. CASE \E d \in Command(TimerNames, Requests) : Send(d)
  BY <1>1, <1>4, SendLemma
<1> QED
  BY <1>2, <1>3, <1>4 DEF Sends, State
\* A call keeps what it must, and says what it did.
Served ==
  /\ ServerType' /\ CallsOK' /\ Serving' /\ Sends /\ answers \subseteq answers'
  /\ out' \subseteq Outputs /\ told' \subseteq Notable /\ told \subseteq told'
  /\ UNCHANGED callFrame

\* The first step stores the response.
LEMMA StoreServed ==
  ASSUME TypeOK, CallsOK, Serving, NEW c \in Caller, NEW next \in {"cancel", "wire"}, Store(c, next)
  PROVE  Served
<1>0. /\ ServerType /\ calls[c].at = "store" /\ calls[c].response \in Given
      /\ last' = calls[c].response /\ Advance(c, next) /\ Silent
      /\ UNCHANGED <<queue, answers, responses, reliable, repeats>> /\ UNCHANGED callFrame
  BY DEF TypeOK, CallsOK, Store
<1>1. /\ calls' \in [Caller -> CallRecord]
      /\ calls'[c].at = next /\ calls'[c].response = calls[c].response
      /\ \A d \in Caller \ {c} : calls'[d] = calls[d]
  BY <1>0, AdvanceFacts DEF Places
<1>2. ServerType'
  BY <1>0, <1>1 DEF ServerType, CallRecord, Places, Given
<1>3. CallsOK'
  BY <1>0, <1>1 DEF CallsOK
<1>4. Serving'
  BY <1>0 DEF Serving
<1>5. out' \subseteq Outputs /\ told' \subseteq Notable /\ told \subseteq told'
  BY <1>0 DEF Silent, TypeOK, RunnerType
<1> QED
  BY <1>0, <1>2, <1>3, <1>4, <1>5 DEF Served, Sends

\* A call that ends: with an error, or well, when a final response is an answer.
LEMMA ReturnServed ==
  ASSUME TypeOK, CallsOK, Serving, NEW c \in Caller, calls[c].at \in {"cancel", "wire", "transition"},
         Fail(c) \/ Succeed(c), UNCHANGED <<last, responses, repeats>>
  PROVE  /\ ServerType' /\ CallsOK' /\ Serving' /\ answers \subseteq answers'
         /\ Succeed(c) /\ calls[c].response \in Final => calls[c].response \in answers'
<1>0. ServerType /\ Return(c) /\ calls[c].response \in Given /\ last \in Given
  BY DEF TypeOK, Fail, Succeed, CallsOK, Serving
<1>1. /\ calls' \in [Caller -> CallRecord] /\ calls'[c].at = "idle"
      /\ \A d \in Caller \ {c} : calls'[d] = calls[d]
  BY <1>0, ReturnFacts
<1>2. answers' \in {answers, answers \cup ({calls[c].response} \cap Final)}
  BY DEF Fail, Succeed
<1>3. reliable' \in {"off", "on", "stopped"}
  BY <1>0 DEF Fail, Succeed, ServerType
<1>4. ServerType'
  BY <1>0, <1>1, <1>2, <1>3 DEF ServerType, CallRecord, Places
<1>5. CallsOK'
  BY <1>1 DEF CallsOK
<1>6. Serving' /\ answers \subseteq answers'
  BY <1>0, <1>2 DEF Serving
<1>7. Succeed(c) /\ calls[c].response \in Final => calls[c].response \in answers'
  BY DEF Succeed
<1> QED
  BY <1>4, <1>5, <1>6, <1>7

\* A call that goes on without another response.
LEMMA AdvanceServed ==
  ASSUME TypeOK, CallsOK, Serving, NEW c \in Caller, calls[c].at \in {"cancel", "wire"},
         NEW where \in {"wire", "transition"}, Advance(c, where),
         where = "transition" => Target(calls[c].response, calls[c].saw) # None,
         UNCHANGED <<last, answers, responses, reliable, repeats>>
  PROVE  ServerType' /\ CallsOK' /\ Serving'
<1>0. ServerType /\ calls[c].response \in Given /\ last \in Given
  BY DEF TypeOK, CallsOK, Serving
<1>1. /\ calls' \in [Caller -> CallRecord]
      /\ calls'[c].at = where /\ calls'[c].response = calls[c].response
      /\ calls'[c].saw = calls[c].saw
      /\ \A d \in Caller \ {c} : calls'[d] = calls[d]
  BY <1>0, AdvanceFacts DEF Places
<1>2. ServerType'
  BY <1>0, <1>1 DEF ServerType, CallRecord, Places
<1>3. CallsOK'
  BY <1>0, <1>1 DEF CallsOK
<1>4. Serving'
  BY <1>0 DEF Serving
<1> QED
  BY <1>2, <1>3, <1>4

\* CancelTimer100, the wire, and the state asked for.
LEMMA SendStepServed ==
  ASSUME TypeOK, CallsOK, Serving, NEW c \in Caller, SendStep(c)
  PROVE  Served
<1> DEFINE target == Target(calls[c].response, calls[c].saw)
<1>1. CASE Store(c, AfterStore(calls[c].saw))
  BY <1>1, StoreServed DEF AfterStore
<1>2. CASE SendCancel(c)
  <2>0. calls[c].at = "cancel" /\ Silent /\ UNCHANGED <<last, responses, repeats>> /\ UNCHANGED callFrame
    BY <1>2 DEF SendCancel
  <2>1. out' \subseteq Outputs /\ told' \subseteq Notable /\ told \subseteq told'
    BY <2>0 DEF Silent, TypeOK, RunnerType
  <2>2. CASE Closed
    BY <1>2, <2>0, <2>1, <2>2, ReturnServed DEF SendCancel, Served, Sends
  <2>3. CASE ~Closed
    BY <1>2, <2>0, <2>1, <2>3, AdvanceServed DEF SendCancel, Served, Sends
  <2> QED
    BY <2>2, <2>3
<1>3. CASE PutOnWire(c, target)
  <2>0. /\ calls[c].at = "wire" /\ UNCHANGED <<queue, last, responses, repeats>> /\ UNCHANGED callFrame
        /\ calls[c].response \in Response
    BY <1>3 DEF PutOnWire, CallsOK, Given
  <2>1. out' \subseteq Outputs /\ told' \subseteq Notable /\ told \subseteq told'
    <3>1. Emit({calls[c].response}) \/ Silent
      BY <1>3 DEF PutOnWire
    <3>2. {calls[c].response} \subseteq Outputs
      BY <2>0 DEF Outputs
    <3> QED
      BY <3>1, <3>2, EmitLemma DEF Silent, TypeOK, RunnerType
  <2>2. CASE Fail(c) \/ Succeed(c)
    BY <2>0, <2>1, <2>2, ReturnServed DEF Served, Sends
  <2>3. CASE target # None /\ Advance(c, "transition") /\ UNCHANGED <<answers, reliable>>
    BY <2>0, <2>1, <2>3, AdvanceServed DEF Served, Sends
  <2> QED
    BY <1>3, <2>2, <2>3 DEF PutOnWire
<1>4. CASE SendTarget(c, target)
  <2>0. calls[c].at = "transition" /\ Silent /\ UNCHANGED <<last, responses, repeats>> /\ UNCHANGED callFrame
    BY <1>4 DEF SendTarget
  <2>1. out' \subseteq Outputs /\ told' \subseteq Notable /\ told \subseteq told'
    BY <2>0 DEF Silent, TypeOK, RunnerType
  <2>2. CASE Closed
    BY <1>4, <2>0, <2>1, <2>2, ReturnServed DEF SendTarget, Served, Sends
  <2>3. CASE ~Closed
    <3>1. target # None /\ Send(TransitionTo(target)) /\ Succeed(c)
      BY <1>4, <2>0, <2>3 DEF SendTarget, CallsOK
    <3>2. \/ calls[c].response = "2xx" /\ target = "Terminated"
          \/ calls[c].response = "failure" /\ target = "Completed"
      BY <3>1 DEF Target
    <3>3. calls[c].response \in answers'
      BY <2>0, <3>1, <3>2, ReturnServed DEF Final
    <3>4. Sends
      BY <3>1, <3>2, <3>3 DEF Sends
    <3> QED
      BY <2>0, <2>1, <3>1, <3>4, ReturnServed DEF Served
  <2> QED
    BY <2>2, <2>3
<1> QED
  BY <1>1, <1>2, <1>3, <1>4 DEF SendStep, CallStep

\* Everything send_response and its callers do.
LEMMA RespondingServed ==
  ASSUME TypeOK, CallsOK, Serving, Responding
  PROVE  Served
<1>0. ServerType
  BY DEF TypeOK
<1>b. ASSUME NEW c \in Caller, NEW r \in Given, Begin(c, r), Silent,
             UNCHANGED <<queue, last, answers, reliable>>, UNCHANGED callFrame,
             responses' \in 0..MaxResponses, repeats' \in 0..MaxRepeats
      PROVE  Served
  <2>1. /\ calls' \in [Caller -> CallRecord] /\ calls'[c].at = "store"
        /\ calls'[c].response = r /\ \A d \in Caller \ {c} : calls'[d] = calls[d]
    BY <1>b, BeginFacts
  <2>2. ServerType'
    BY <1>0, <1>b, <2>1 DEF ServerType, CallRecord, Places
  <2>3. CallsOK'
    BY <2>1 DEF CallsOK
  <2>4. Serving'
    BY <1>b, <2>1 DEF Serving
  <2> QED
    BY <1>b, <2>2, <2>3, <2>4 DEF Served, Sends, Silent, TypeOK, RunnerType
<1>1. CASE \E c \in TuTasks : TuBegins(c)
  <2>1. PICK c \in TuTasks : TuBegins(c)
    BY <1>1
  <2>2. PICK r \in Given : Begin(c, r)
    BY <2>1 DEF TuBegins, Given
  <2>3. /\ responses < MaxResponses /\ responses' = responses + 1 /\ Silent
        /\ UNCHANGED <<queue, last, answers, reliable, repeats>> /\ UNCHANGED callFrame
    BY <2>1 DEF TuBegins
  <2>4. responses' \in 0..MaxResponses /\ repeats' \in 0..MaxRepeats
    BY <1>0, <2>3, MaxResponsesAssumption DEF ServerType
  <2> QED
    BY <1>b, <2>2, <2>3, <2>4 DEF Caller
<1>2. CASE RetransmitterBegins
  <2>1. /\ repeats < MaxRepeats /\ repeats' = repeats + 1 /\ Silent
        /\ UNCHANGED <<queue, last, answers, responses, reliable>> /\ UNCHANGED callFrame
        /\ Begin("retransmitter", "18x") /\ "18x" \in Given
    BY <1>2 DEF RetransmitterBegins, Given, Response, Provisional
  <2>2. repeats' \in 0..MaxRepeats
    BY <1>0, <2>1, MaxRepeatsAssumption DEF ServerType
  <2> QED
    BY <1>0, <1>b, <2>1, <2>2 DEF Caller, ServerType
<1>3. CASE RetransmitterStops
  <2>0. /\ reliable' = "stopped" /\ Silent /\ Return("retransmitter")
        /\ UNCHANGED <<queue, last, answers, responses, repeats>> /\ UNCHANGED callFrame
    BY <1>3 DEF RetransmitterStops
  <2>2. /\ calls' \in [Caller -> CallRecord] /\ calls'["retransmitter"].at = "idle"
        /\ \A d \in Caller \ {"retransmitter"} : calls'[d] = calls[d]
    BY <1>0, <2>0, ReturnFacts DEF Caller
  <2>4. ServerType'
    BY <1>0, <2>0, <2>2 DEF ServerType, CallRecord, Places
  <2>5. CallsOK'
    BY <2>0, <2>2 DEF CallsOK
  <2>6. Serving'
    BY <2>0, <2>2 DEF Serving
  <2> QED
    BY <2>0, <2>4, <2>5, <2>6 DEF Served, Sends, Silent, TypeOK, RunnerType
<1> QED
  BY <1>1, <1>2, <1>3, SendStepServed DEF Responding

-----------------------------------------------------------------------------
(* Type correctness, with the calls.                                       *)

Typed == TypeOK /\ CallsOK /\ Serving

\* The transaction as create_server_transaction leaves it.
LEMMA TypedInit == Init => Typed
<1> SUFFICES ASSUME Init PROVE Typed
  OBVIOUS
<1>1. queue \in Seq(Command(TimerNames, Requests)) /\ Len(queue) <= Capacity
  <2>1. TransitionTo("Proceeding") \in Command(TimerNames, Requests)
    BY DEF Command, TransitionTo, State
  <2>2. queue = <<TransitionTo("Proceeding")>>
    BY DEF Init, ServerInit
  <2>3. <<TransitionTo("Proceeding")>> \in Seq(Command(TimerNames, Requests))
        /\ Len(<<TransitionTo("Proceeding")>>) = 1
    BY <2>1
  <2> QED
    BY <2>2, <2>3, CapacityAssumption
<1>2. tasks \in [TimerNames -> TaskPhase]
  BY DEF Init, ServerInit, TaskPhase
<1>3. runner \in Place(TimerNames) /\ arrivals \in 0..MaxArrivals
  BY MaxArrivalsAssumption DEF Init, ServerInit, Place
<1>4. /\ RunnerType(TimerNames, Requests, Outputs) /\ trying \in {"asleep", "checked", "sent", "done"}
  BY <1>1, <1>2, <1>3 DEF Init, ServerInit, RunnerType, State, Lifecycle
<1>5. calls \in [Caller -> CallRecord] /\ \A c \in Caller : calls[c].at = "idle"
  BY DEF Init, ServerInit, Idle, Call, CallRecord, Places
<1>6. responses \in 0..MaxResponses /\ repeats \in 0..MaxRepeats
  BY MaxResponsesAssumption, MaxRepeatsAssumption DEF Init, ServerInit
<1>7. ServerType
  BY <1>5, <1>6 DEF Init, ServerInit, ServerType, CallRecord, Places
<1>8. CallsOK /\ Serving
  BY <1>5 DEF Init, ServerInit, CallsOK, Serving
<1> QED
  BY <1>4, <1>7, <1>8 DEF Typed, TypeOK

\* The runner's steps keep its type.
LEMMA LoopType ==
  ASSUME TypeOK, Loop
  PROVE  RunnerType(TimerNames, Requests, Outputs)'
<1>t. RunnerType(TimerNames, Requests, Outputs) /\ Event \subseteq Outputs
  BY DEF TypeOK, Outputs
<1>1. CASE IgnoreTransition \/ RejectTransition(Kind) \/ EnterStateUnheard(Kind) \/ RunTerminate
  BY <1>t, <1>1, RefusalType
<1>2. CASE SelfSend \/ SelfSendFailed \/ ArmTimers \/ Unregister \/ LoopEnd
  BY <1>t, <1>2, BetweenCommandsType
<1>3. CASE RunCancelTimer100
  <2>1. queue' \in Seq(Command(TimerNames, Requests)) /\ Len(queue') <= Capacity
    BY <1>t, <1>3, ReceiveLemma DEF RunCancelTimer100, RunnerType
  <2> QED
    BY <1>t, <1>3, <2>1, RestPlace DEF RunCancelTimer100, RunnerType, Silent, loopFrame
<1>4. CASE \E s \in State : EnterState(Kind, s, OnEnter(s))
  <2>1. PICK s \in State : \E e \in OnEnter(s) :
          /\ Receive(TransitionTo(s)) /\ Abort(Timers) /\ state' = s
          /\ lifecycle' = IF s = "Terminated" THEN "Terminating" ELSE lifecycle
          /\ grace' = IF s = "Terminated" THEN "waiting" ELSE grace
          /\ runner' = e.then /\ Emit(e.sent) /\ UNCHANGED loopFrame
    BY <1>4 DEF EnterState
  <2>2. \A e \in OnEnter(s) : e \in EntryType(TimerNames, Outputs)
    BY OnEnterForms
  <2> QED
    BY <1>t, <2>1, <2>2, EntryTypeLemma
<1>5. CASE \E t \in TimerNames : RunTimer(t, HandleTimer(t))
  <2>1. PICK t \in TimerNames : \E e \in HandleTimer(t) :
          /\ Receive(Timer(t)) /\ Apply(e)
          /\ UNCHANGED <<state, lifecycle, grace>> /\ UNCHANGED loopFrame
    BY <1>5 DEF RunTimer
  <2>2. \A e \in HandleTimer(t) : e \in EffectType(TimerNames, Outputs)
    BY HandleTimerForms DEF Handled
  <2> QED
    BY <1>t, <2>1, <2>2, ApplyType
<1>6. CASE \E m \in Requests : RunMessage(m, ProcessMessageOf(m))
  <2>1. PICK m \in Requests : \E e \in ProcessMessageOf(m) :
          /\ Receive(ProcessMessage(m)) /\ Apply(e)
          /\ UNCHANGED <<state, lifecycle, grace>> /\ UNCHANGED loopFrame
    BY <1>6 DEF RunMessage
  <2>2. \A e \in ProcessMessageOf(m) : e \in EffectType(TimerNames, Outputs)
    BY ProcessMessageForms DEF Handled
  <2> QED
    BY <1>t, <2>1, <2>2, ApplyType
<1> QED
  BY <1>1, <1>2, <1>3, <1>4, <1>5, <1>6 DEF Loop, LoopStep

\* Timer 100 stores its response only where there is none.
LEMMA Timer100Typed ==
  ASSUME Typed, Timer100
  PROVE  /\ Typed' /\ told \subseteq told'
         /\ UNCHANGED <<answers, calls, queue, state, runner, tasks, grace, tu, held>>
<1>0. UNCHANGED tryingFrame
  BY DEF Timer100, TryingChecks, TryingSends, TryingStores
<1>1. last' = last \/ (last = None /\ last' = "100")
  BY DEF Timer100, TryingChecks, TryingSends, TryingStores
<1>2. Serving'
  BY <1>0, <1>1 DEF Typed, Serving, tryingFrame, Given, Response, Provisional, Final, None
<1>3. CallsOK' /\ ServerType'
  BY <1>0, <1>1 DEF Typed, TypeOK, CallsOK, ServerType, tryingFrame, Response, Provisional
<1>4. out' \subseteq Outputs /\ told' \subseteq Notable /\ told \subseteq told'
  <2>1. Silent \/ \E x \in {"100", "TransportError"} : Emit({x})
    BY DEF Timer100, TryingChecks, TryingSends, TryingStores
  <2>2. \A x \in {"100", "TransportError"} : {x} \subseteq Outputs
    BY DEF Outputs, Event, Response, Provisional
  <2> QED
    BY <2>1, <2>2, EmitLemma DEF Silent, Typed, TypeOK, RunnerType
<1>5. RunnerType(TimerNames, Requests, Outputs)'
  BY <1>0, <1>4 DEF Typed, TypeOK, RunnerType, tryingFrame
<1>6. trying' \in {"asleep", "checked", "sent", "done"}
  BY DEF Timer100, TryingChecks, TryingSends, TryingStores
<1>7. Typed'
  BY <1>2, <1>3, <1>5, <1>6 DEF Typed, TypeOK
<1> QED
  BY <1>0, <1>4, <1>7 DEF tryingFrame

\* Every step keeps the types.
LEMMA TypedStep ==
  ASSUME Typed, [Next]_vars
  PROVE  Typed'
<1>t. RunnerType(TimerNames, Requests, Outputs)
  BY DEF Typed, TypeOK
<1>1. ASSUME UNCHANGED serverVars, UNCHANGED trying, RunnerType(TimerNames, Requests, Outputs)'
      PROVE  Typed'
  BY <1>1 DEF Typed, TypeOK, ServerType, CallsOK, Serving, serverVars
<1>2. CASE Loop
  <2>1. UNCHANGED serverVars /\ UNCHANGED trying
    BY <1>2 DEF Loop
  <2> QED
    BY <1>1, <1>2, <2>1, LoopType DEF Typed
<1>3. CASE Tasks
  <2>1. UNCHANGED serverVars /\ UNCHANGED trying
    BY <1>3 DEF Tasks
  <2>2. RunnerType(TimerNames, Requests, Outputs)'
    BY <1>t, <1>3, TimerStepType, GraceType DEF Tasks
  <2> QED
    BY <1>1, <2>1, <2>2
<1>4. CASE Manager
  <2>1. UNCHANGED serverVars /\ UNCHANGED trying
    BY <1>4 DEF Manager
  <2>2. RunnerType(TimerNames, Requests, Outputs)'
    <3>1. CASE Request \/ Deliver \/ StopRequested \/ TuCloses
      BY <1>t, <3>1, ManagerType DEF Request
    <3>2. CASE DeliverClosed({})
      BY <1>t, <3>2, DeliverClosedType DEF DeliverClosed
    <3> QED
      BY <1>4, <3>1, <3>2 DEF Manager
  <2> QED
    BY <1>1, <2>1, <2>2
<1>5. CASE Timer100
  BY <1>5, Timer100Typed
<1>6. CASE Responding
  <2>1. Served
    BY <1>6, RespondingServed DEF Typed
  <2>2. queue' \in Seq(Command(TimerNames, Requests)) /\ Len(queue') <= Capacity
    BY <2>1, SendsType DEF Served, Typed
  <2>3. RunnerType(TimerNames, Requests, Outputs)'
    BY <2>1, <2>2, CallFrameType DEF Served, Typed
  <2> QED
    BY <1>6, <2>1, <2>3 DEF Served, Typed, TypeOK, Responding
<1>7. CASE UNCHANGED vars
  BY <1>1, <1>t, <1>7 DEF vars, runnerVars, RunnerType
<1> QED
  BY <1>2, <1>3, <1>4, <1>5, <1>6, <1>7 DEF Next

\* Type correctness of the transaction, its channel and the calls beside it.
THEOREM TypeCorrect == Spec => []TypeOK
<1>1. Spec => []Typed
  <2>1. Typed /\ [Next]_vars => Typed'
    BY TypedStep
  <2> QED
    BY <2>1, TypedInit, PTL DEF Spec
<1>2. Typed => TypeOK
  BY DEF Typed
<1> QED
  BY <1>1, <1>2, PTL

-----------------------------------------------------------------------------
(* The transaction only moves forward.                                     *)

\* No step leads back.
LEMMA AdvanceStep ==
  ASSUME TypeOK, [Next]_vars
  PROVE  Rank(state') >= Rank(state)
<1>1. state \in State
  BY DEF TypeOK, RunnerType
<1>2. CASE state' \in {state, "Terminated"}
  BY <1>1, <1>2 DEF State, Rank
<1>3. CASE \E s \in State : EnterState(Kind, s, OnEnter(s))
  <2>1. state' \in State /\ ValidTransition(Kind, state, state')
    BY <1>3 DEF EnterState, Accepts
  <2> QED
    BY <1>1, <2>1, TransitionsAdvance DEF Kind, TransactionKind
<1>4. CASE Loop
  <2>1. \/ state' \in {state, "Terminated"} \/ \E s \in State : EnterState(Kind, s, OnEnter(s))
    BY <1>4 DEF Loop, LoopStep, IgnoreTransition, RejectTransition, EnterStateUnheard,
                RunTimer, RunMessage, RunTerminate, RunCancelTimer100, SelfSend, SelfSendFailed,
                ArmTimers, Unregister, LoopEnd
  <2> QED
    BY <2>1, <1>2, <1>3
<1>5. CASE Tasks \/ Manager \/ Timer100 \/ Responding \/ UNCHANGED vars
  <2>1. UNCHANGED state
    BY <1>5 DEF Tasks, TimerStep, FireManaged, Unblock, FireTransition, SendTransition,
                taskFrame, GraceExpires, DrainExpires, graceFrame, Manager, Request, Accept,
                Deliver, DeliverClosed, StopRequested, TuCloses, envFrame, Timer100, TryingChecks,
                TryingSends, TryingStores, tryingFrame, Responding, TuBegins, RetransmitterBegins,
                RetransmitterStops, SendStep, CallStep, Store, SendCancel, PutOnWire, SendTarget,
                callFrame, vars, runnerVars
  <2> QED
    BY <2>1, <1>2
<1> QED
  BY <1>4, <1>5 DEF Next

\* Two callers of send_response, the peer and the timers ask for state changes
\* in any order; none of them takes the transaction back.
THEOREM AdvanceTheorem == Spec => StatesAdvance
<1>1. TypeOK /\ [Next]_vars => [Rank(state') >= Rank(state)]_vars
  BY AdvanceStep
<1> QED
  BY <1>1, TypeCorrect, PTL DEF Spec, StatesAdvance

-----------------------------------------------------------------------------
(* What the steps beside the loop put into the channel.                    *)

\* A command that belongs neither to a refusal nor to an end.
Plain(c) ==
  /\ c \in Command(TimerNames, Requests)
  /\ c \notin RefusalCommand /\ c \notin EndCommand

\* Timer commands, messages and CancelTimer100.
LEMMA PlainCommands ==
  /\ \A t \in TimerNames : Plain(Timer(t))
  /\ \A m \in Requests : Plain(ProcessMessage(m))
  /\ Plain(CancelTimer100)
  /\ \A s \in {"Completed", "Terminated"} : TransitionTo(s) \in Command(TimerNames, Requests)
  /\ Terminate \in Command(TimerNames, Requests)
  /\ Terminate \notin RefusalCommand /\ TransitionTo("Terminated") \notin RefusalCommand
BY DEF Plain, Timer, ProcessMessage, CancelTimer100, TransitionTo, Terminate, RefusalCommand,
       EndCommand, Command, State, None

\* The timer tasks, the grace period, the manager and Timer 100.
LEMMA EnvironmentFacts ==
  ASSUME Typed, Tasks \/ Manager \/ Timer100
  PROVE  /\ UNCHANGED <<state, runner, answers>> /\ told \subseteq told'
         /\ (tu' => tu) /\ (held' => held)
         /\ grace = "none" => grace' = "none"
         /\ tasks["I"] = "idle" => tasks'["I"] = "idle"
         /\ \/ UNCHANGED queue
            \/ \E c : Plain(c) /\ Send(c)
            \/ Send(TransitionTo("Terminated")) /\ tasks["I"] # "idle"
            \/ Send(Terminate) /\ (grace # "none" \/ ~held')
<1>t. /\ tasks \in [TimerNames -> TaskPhase] /\ Timers = TimerNames /\ dispatch \in Requests \cup {None}
      /\ told \subseteq Notable
  BY DEF Typed, TypeOK, RunnerType, Timers
<1>1. CASE TimerStep /\ UNCHANGED serverVars
  <2>1. PICK t \in TimerNames : \/ FireManaged(t) \/ Unblock(t)
                                \/ FireTransition(t) \/ SendTransition(t)
    BY <1>1, <1>t DEF TimerStep
  <2>2. UNCHANGED <<state, runner, grace, tu, held, answers>> /\ told' = told
    BY <1>1, <2>1 DEF FireManaged, Unblock, FireTransition, SendTransition, taskFrame, Silent, serverVars
  <2>3. tasks["I"] = "idle" => tasks'["I"] = "idle"
    BY <2>1, <1>t DEF FireManaged, Unblock, FireTransition, SendTransition, SetTask, TimerNames,
                      ManagedTimer
  <2>4. \/ UNCHANGED queue \/ Send(Timer(t))
        \/ Send(TransitionTo("Terminated")) /\ tasks["I"] # "idle"
    BY <2>1 DEF FireManaged, Unblock, FireTransition, SendTransition, TransitionTimer, TimerNames
  <2> QED
    BY <2>2, <2>3, <2>4, PlainCommands
<1>2. CASE (GraceExpires \/ DrainExpires) /\ UNCHANGED serverVars
  BY <1>2 DEF GraceExpires, DrainExpires, graceFrame, Silent, serverVars
<1>3. CASE (Request \/ DeliverClosed({}) \/ TuCloses) /\ UNCHANGED serverVars
  <2>1. UNCHANGED <<state, runner, tasks, grace, queue, answers>> /\ (tu' => tu) /\ (held' => held)
    BY <1>3 DEF Request, Accept, DeliverClosed, TuCloses, envFrame, serverVars
  <2>2. Silent \/ Emit({})
    BY <1>3 DEF Request, Accept, DeliverClosed, TuCloses
  <2> QED
    BY <2>1, <2>2 DEF Silent, Emit
<1>4. CASE Deliver /\ UNCHANGED serverVars
  <2>1. dispatch \in Requests /\ Send(ProcessMessage(dispatch))
    BY <1>4, <1>t DEF Deliver
  <2>2. UNCHANGED <<state, runner, tasks, grace, answers, tu, held, told>>
    BY <1>4 DEF Deliver, envFrame, Silent, serverVars
  <2> QED
    BY <2>1, <2>2, PlainCommands
<1>5. CASE StopRequested /\ UNCHANGED serverVars
  <2>1. UNCHANGED queue \/ (Send(Terminate) /\ ~held')
    BY <1>5 DEF StopRequested
  <2>2. UNCHANGED <<state, runner, tasks, grace, answers, tu, told>> /\ (held' => held)
    BY <1>5 DEF StopRequested, envFrame, Silent, serverVars
  <2> QED
    BY <2>1, <2>2
<1>6. CASE Timer100
  BY <1>6, Timer100Typed
<1> QED
  BY <1>1, <1>2, <1>3, <1>4, <1>5, <1>6 DEF Tasks, Manager

\* A send of a command that is not in E leaves a channel without E as it was.
LEMMA SendKeepsOut ==
  ASSUME Typed, NEW c \in Command(TimerNames, Requests), Send(c), NEW E, c \notin E,
         \A i \in 1..Len(queue) : queue[i] \notin E
  PROVE  \A i \in 1..Len(queue') : queue'[i] \notin E
BY SendAvoids DEF Typed, TypeOK, RunnerType

\* So does taking a command.
LEMMA ReceiveKeepsOut ==
  ASSUME Typed, NEW c, Receive(c), NEW E, \A i \in 1..Len(queue) : queue[i] \notin E
  PROVE  c \notin E /\ \A i \in 1..Len(queue') : queue'[i] \notin E
BY ReceiveAvoids DEF Typed, TypeOK, RunnerType

\* Where the runner rests it asks for nothing.
LEMMA RestCalm ==
  \A r \in {Recv, Exiting, Stopped, Unregistering, Rest} :
    r.to \notin {"Completed", "Confirmed", "Terminated"} /\ "I" \notin r.arm
BY DEF Rest, Recv, Exiting, Stopped, Unregistering, At, None

-----------------------------------------------------------------------------
(* A transaction is refused by the TU alone.                               *)

\* The loop does not begin a refusal.
LEMMA LoopRefuses ==
  ASSUME Typed, ~Refusing, Loop
  PROVE  ~Refusing'
<1>c. \A i \in 1..Len(queue) : queue[i] \notin RefusalCommand
  BY DEF Refusing
<1>d. /\ state \notin {"Completed", "Confirmed"} /\ runner.to \notin {"Completed", "Confirmed"}
  BY DEF Refusing
<1>e. \A e : Handled(e) => e.next \notin {"Completed", "Confirmed"}
  BY <1>d DEF Handled, None
<1>a. ASSUME NEW c, Receive(c), NEW e, Handled(e), Apply(e), UNCHANGED state
      PROVE  ~Refusing'
  <2>1. \A i \in 1..Len(queue') : queue'[i] \notin RefusalCommand
    BY <1>a, <1>c, ReceiveKeepsOut
  <2>2. runner'.to \notin {"Completed", "Confirmed"}
    BY <1>a, <1>e, RestCalm DEF Apply, Sending, Arming, At, None
  <2> QED
    BY <1>a, <1>d, <2>1, <2>2 DEF Refusing
<1>1. CASE IgnoreTransition \/ RejectTransition(Kind)
  <2>1. \A i \in 1..Len(queue') : queue'[i] \notin RefusalCommand
    BY <1>1, <1>c, ReceiveKeepsOut DEF IgnoreTransition, RejectTransition
  <2> QED
    BY <1>1, <1>d, <2>1 DEF IgnoreTransition, RejectTransition, Refusing
<1>2. CASE \E s \in State : EnterState(Kind, s, OnEnter(s))
  <2>1. PICK s \in State : \E e \in OnEnter(s) :
          /\ Receive(TransitionTo(s)) /\ state' = s /\ runner' = e.then
    BY <1>2 DEF EnterState
  <2>2. /\ TransitionTo(s) \notin RefusalCommand
        /\ \A i \in 1..Len(queue') : queue'[i] \notin RefusalCommand
    BY <2>1, <1>c, ReceiveKeepsOut
  <2>3. runner'.to \notin {"Completed", "Confirmed"}
    BY <2>1, OnEnterForms
  <2> QED
    BY <2>1, <2>2, <2>3 DEF Refusing, RefusalCommand
<1>3. CASE EnterStateUnheard(Kind) \/ RunTerminate
  <2>1. \A i \in 1..Len(queue') : queue'[i] \notin RefusalCommand
    BY <1>3, <1>c, ReceiveKeepsOut DEF EnterStateUnheard, RunTerminate
  <2> QED
    BY <1>3, <2>1, RestCalm DEF EnterStateUnheard, RunTerminate, Refusing
<1>4. CASE \E t \in TimerNames : RunTimer(t, HandleTimer(t))
  <2>1. PICK t \in TimerNames : \E e \in HandleTimer(t) : Receive(Timer(t)) /\ Apply(e) /\ UNCHANGED state
    BY <1>4 DEF RunTimer
  <2> QED
    BY <1>a, <2>1, HandleTimerForms DEF Typed
<1>5. CASE \E m \in Requests : RunMessage(m, ProcessMessageOf(m))
  <2>1. PICK m \in Requests : \E e \in ProcessMessageOf(m) :
          Receive(ProcessMessage(m)) /\ Apply(e) /\ UNCHANGED state
    BY <1>5 DEF RunMessage
  <2> QED
    BY <1>a, <2>1, ProcessMessageForms DEF Typed
<1>6. CASE RunCancelTimer100
  <2>1. \A i \in 1..Len(queue') : queue'[i] \notin RefusalCommand
    BY <1>6, <1>c, ReceiveKeepsOut DEF RunCancelTimer100
  <2> QED
    BY <1>6, <1>d, <2>1, RestCalm DEF RunCancelTimer100, Refusing
<1>7. CASE SelfSend \/ SelfSendFailed
  <2>1. runner.to \in State /\ Send(TransitionTo(runner.to))
    BY <1>7 DEF SelfSend, SelfSendFailed, Typed, TypeOK, RunnerType, Place, Recv, Unregistering,
                Exiting, Stopped, At
  <2>2. /\ TransitionTo(runner.to) \in Command(TimerNames, Requests)
        /\ TransitionTo(runner.to) \notin RefusalCommand
    BY <1>d, <2>1 DEF TransitionTo, Command, RefusalCommand
  <2>3. \A i \in 1..Len(queue') : queue'[i] \notin RefusalCommand
    BY <1>c, <2>1, <2>2, SendKeepsOut
  <2>4. runner' \in {Rest, Exiting} /\ state' \in {state, "Terminated"}
    BY <1>7 DEF SelfSend, SelfSendFailed
  <2> QED
    BY <1>d, <2>3, <2>4, RestCalm DEF Refusing
<1>8. CASE ArmTimers \/ Unregister
  BY <1>8, <1>c, <1>d, RestCalm DEF ArmTimers, Unregister, Refusing
<1>9. CASE LoopEnd
  <2>1. \A i \in 1..Len(queue') : queue'[i] \notin RefusalCommand
    BY <1>9 DEF LoopEnd
  <2> QED
    BY <1>9, <1>d, <2>1, RestCalm DEF LoopEnd, Refusing
<1> QED
  BY <1>1, <1>2, <1>3, <1>4, <1>5, <1>6, <1>7, <1>8, <1>9 DEF Loop, LoopStep

\* Refusals is inductive.
LEMMA RefusalsStep ==
  ASSUME Typed, Refusals, [Next]_vars
  PROVE  Refusals'
<1>1. CASE Loop
  <2>1. answers' = answers
    BY <1>1 DEF Loop, serverVars
  <2> QED
    BY <1>1, <2>1, LoopRefuses DEF Refusals
<1>2. CASE Tasks \/ Manager \/ Timer100
  <2>1. /\ UNCHANGED <<state, runner, answers>>
        /\ \/ UNCHANGED queue
           \/ \E c \in Command(TimerNames, Requests) : c \notin RefusalCommand /\ Send(c)
    BY <1>2, EnvironmentFacts, PlainCommands DEF Plain
  <2>2. ~Refusing => \A i \in 1..Len(queue') : queue'[i] \notin RefusalCommand
    BY <2>1, SendKeepsOut DEF Refusing
  <2> QED
    BY <2>1, <2>2 DEF Refusing, Refusals
<1>3. CASE Responding
  <2>1. /\ UNCHANGED <<state, runner>> /\ Sends /\ answers \subseteq answers'
    BY <1>3, RespondingServed DEF Served, callFrame, Typed
  <2>2. CASE "failure" \in answers'
    BY <2>2 DEF Refusals
  <2>3. CASE "failure" \notin answers'
    <3>1. ~Refusing
      BY <2>1, <2>3 DEF Refusals
    <3>2. \/ UNCHANGED queue
          \/ \E c \in Command(TimerNames, Requests) : c \notin RefusalCommand /\ Send(c)
      BY <2>1, <2>3, PlainCommands DEF Sends, Plain
    <3>3. \A i \in 1..Len(queue') : queue'[i] \notin RefusalCommand
      BY <3>1, <3>2, SendKeepsOut DEF Refusing
    <3> QED
      BY <2>1, <3>1, <3>3 DEF Refusing, Refusals
  <2> QED
    BY <2>2, <2>3
<1>4. CASE UNCHANGED vars
  BY <1>4 DEF vars, runnerVars, serverVars, Refusing, Refusals
<1> QED
  BY <1>1, <1>2, <1>3, <1>4 DEF Next

\* The calls, and the refusals they begin.
THEOREM CallsTheorem == Spec => [](Typed /\ Refusals)
<1>1. Init => Typed /\ Refusals
  <2>1. ASSUME Init PROVE ~Refusing
    <3>1. queue = <<TransitionTo("Proceeding")>> /\ state = "Proceeding" /\ runner = Recv
      BY <2>1 DEF Init, ServerInit
    <3>2. TransitionTo("Proceeding") \notin RefusalCommand
      BY DEF TransitionTo, RefusalCommand
    <3>3. \A i \in 1..Len(queue) : queue[i] = TransitionTo("Proceeding")
      BY <3>1
    <3> QED
      BY <3>1, <3>2, <3>3 DEF Refusing, Recv, At, None
  <2> QED
    BY <2>1, TypedInit DEF Refusals
<1>2. Typed /\ Refusals /\ [Next]_vars => (Typed /\ Refusals)'
  BY TypedStep, RefusalsStep
<1> QED
  BY <1>1, <1>2, PTL DEF Spec

\* Timer G retransmits what a caller of send_response stored, however many call
\* it at once: the 100 that Timer 100's task stores after its own await is never
\* in last_response while a refusal waits for its ACK.
THEOREM RetransmitTheorem == Spec => []RetransmitsAnswer
<1>1. Typed /\ Refusals => RetransmitsAnswer
  BY DEF Typed, Serving, Refusals, Refusing, RetransmitsAnswer, Given, Response, Provisional, Final, None
<1> QED
  BY <1>1, CallsTheorem, PTL

-----------------------------------------------------------------------------
(* Nothing is sent after the ACK.                                          *)

\* A Confirmed transaction sends no final response but in a call's own step.
LEMMA QuietStep ==
  ASSUME Typed, Next, state = "Confirmed", calls' = calls
  PROVE  out' \cap Final = {}
<1>e. \A o : Emit(o) /\ o \cap Final = {} => out' \cap Final = {}
  BY DEF Emit
<1>s. Silent => out' \cap Final = {}
  BY DEF Silent
<1>1. CASE Loop
  <2>1. CASE \E e : Handled(e) /\ Apply(e)
    BY <2>1, <1>e DEF Handled, Apply
  <2>2. CASE \E s \in State : EnterState(Kind, s, OnEnter(s))
    BY <2>2, <1>e, OnEnterForms DEF EnterState
  <2>3. CASE LoopStep(Kind) \/ RunCancelTimer100
    <3>1. \/ Silent \/ Emit({"Error"}) \/ Emit({"TransactionTerminated"}) \/ Emit({})
      BY <2>3 DEF LoopStep, IgnoreTransition, RejectTransition, EnterStateUnheard, RunTerminate,
                  RunCancelTimer100, SelfSend, SelfSendFailed, ArmTimers, Unregister, LoopEnd
    <3> QED
      BY <3>1, <1>e, <1>s DEF Final
  <2>4. CASE \E t \in TimerNames : RunTimer(t, HandleTimer(t))
    BY <2>1, <2>4, HandleTimerForms DEF RunTimer, Typed
  <2>5. CASE \E m \in Requests : RunMessage(m, ProcessMessageOf(m))
    BY <2>1, <2>5, ProcessMessageForms DEF RunMessage, Typed
  <2> QED
    BY <1>1, <2>2, <2>3, <2>4, <2>5 DEF Loop
<1>2. CASE Tasks \/ Manager \/ Timer100
  <2>1. \/ Silent \/ Emit({}) \/ Emit({"100"}) \/ Emit({"TransportError"})
    BY <1>2 DEF Tasks, TimerStep, FireManaged, Unblock, FireTransition, SendTransition, GraceExpires,
                DrainExpires, Manager, Request, Accept, Deliver, DeliverClosed, StopRequested,
                TuCloses, Timer100, TryingChecks, TryingSends, TryingStores
  <2> QED
    BY <2>1, <1>e, <1>s DEF Final
<1>3. CASE Responding
  <2>0. ServerType
    BY DEF Typed, TypeOK
  <2>1. ASSUME NEW c \in Caller, calls[c].at = "wire" PROVE ~Return(c) /\ ~Advance(c, "transition")
    <3>1. Return(c) => calls'[c].at = "idle"
      BY <2>0, ReturnFacts
    <3>2. Advance(c, "transition") => calls'[c].at = "transition"
      BY <2>0, AdvanceFacts DEF Places
    <3> QED
      BY <2>1, <3>1, <3>2
  <2>2. \A c \in Caller : ~PutOnWire(c, Target(calls[c].response, calls[c].saw))
    BY <2>1 DEF PutOnWire, Succeed, Fail
  <2>3. Silent
    BY <1>3, <2>2 DEF Responding, TuBegins, RetransmitterBegins, RetransmitterStops, SendStep, CallStep,
                      Store, SendCancel, SendTarget
  <2> QED
    BY <2>3, <1>s
<1> QED
  BY <1>1, <1>2, <1>3 DEF Next

\* Timer G commands and repeated INVITEs that are still queued when the ACK is
\* processed put no final response on the wire; only a step of send_response
\* itself can.
THEOREM QuietTheorem == Spec => QuietAfterAck
<1>1. Typed /\ Refusals /\ [Next]_vars =>
        [state = "Confirmed" /\ calls' = calls => out' \cap Final = {}]_vars
  BY QuietStep
<1> QED
  BY <1>1, CallsTheorem, PTL DEF Spec, QuietAfterAck

-----------------------------------------------------------------------------
(* A refused call is settled with the TU.                                  *)

\* The loop sets an end in motion only with a report.
LEMMA LoopSettles ==
  ASSUME Typed, ~Ending, tu, Loop
  PROVE  ~Ending' \/ told' \cap Settlement # {}
<1>c. \A i \in 1..Len(queue) : queue[i] \notin EndCommand
  BY DEF Ending
<1>d. /\ state \notin {"Confirmed", "Terminated"} /\ grace = "none" /\ tasks["I"] = "idle"
      /\ runner.to \notin {"Confirmed", "Terminated"} /\ "I" \notin runner.arm
  BY DEF Ending
<1>t. tasks \in [TimerNames -> TaskPhase] /\ Timers = TimerNames /\ "I" \in TimerNames
  BY DEF Typed, TypeOK, RunnerType, Timers, TimerNames
<1>a. ASSUME NEW c, Receive(c), NEW e, Handled(e), Apply(e), UNCHANGED <<state, grace>>
      PROVE  ~Ending' \/ told' \cap Settlement # {}
  <2>1. CASE e.next # None
    <3>1. Emit(e.sent) /\ e.sent \cap Settlement # {}
      BY <1>a, <2>1 DEF Handled, Apply
    <3>2. Settlement \subseteq Notable
      BY DEF Settlement, Notable, Outcome
    <3> QED
      BY <3>1, <3>2 DEF Emit
  <2>2. CASE e.next = None
    <3>1. \A i \in 1..Len(queue') : queue'[i] \notin EndCommand
      BY <1>a, <1>c, ReceiveKeepsOut
    <3>2. runner'.to \notin {"Confirmed", "Terminated"} /\ "I" \notin runner'.arm
      BY <1>a, <2>2, RestCalm DEF Apply, Handled, Arming, At, None
    <3>3. tasks'["I"] = "idle"
      BY <1>a, <1>d, <1>t, AbortLemma DEF Apply
    <3> QED
      BY <1>a, <1>d, <3>1, <3>2, <3>3 DEF Ending
  <2> QED
    BY <2>1, <2>2
<1>1. CASE IgnoreTransition \/ RejectTransition(Kind)
  <2>1. \A i \in 1..Len(queue') : queue'[i] \notin EndCommand
    BY <1>1, <1>c, ReceiveKeepsOut DEF IgnoreTransition, RejectTransition
  <2> QED
    BY <1>1, <1>d, <2>1 DEF IgnoreTransition, RejectTransition, Ending
<1>2. CASE \E s \in State : EnterState(Kind, s, OnEnter(s))
  <2>1. PICK s \in State : \E e \in OnEnter(s) :
          /\ Receive(TransitionTo(s)) /\ Abort(Timers) /\ state' = s /\ runner' = e.then
          /\ grace' = IF s = "Terminated" THEN "waiting" ELSE grace
    BY <1>2 DEF EnterState
  <2>2. /\ TransitionTo(s) \notin EndCommand
        /\ \A i \in 1..Len(queue') : queue'[i] \notin EndCommand
    BY <2>1, <1>c, ReceiveKeepsOut
  <2>3. s \notin {"Confirmed", "Terminated"}
    BY <2>2 DEF EndCommand
  <2>4. runner'.to \notin {"Confirmed", "Terminated"} /\ "I" \notin runner'.arm
    BY <2>1, <2>3, OnEnterForms
  <2>5. tasks'["I"] = "idle"
    BY <2>1, <1>d, <1>t, AbortLemma
  <2> QED
    BY <1>d, <2>1, <2>2, <2>3, <2>4, <2>5 DEF Ending
<1>3. CASE EnterStateUnheard(Kind)
  BY <1>3 DEF EnterStateUnheard
<1>4. CASE RunTerminate
  <2>1. Terminate \notin EndCommand
    BY <1>4, <1>c, ReceiveKeepsOut DEF RunTerminate
  <2> QED
    BY <2>1 DEF EndCommand
<1>5. CASE \E t \in TimerNames : RunTimer(t, HandleTimer(t))
  <2>1. PICK t \in TimerNames : \E e \in HandleTimer(t) :
          Receive(Timer(t)) /\ Apply(e) /\ UNCHANGED <<state, grace>>
    BY <1>5 DEF RunTimer
  <2> QED
    BY <1>a, <2>1, HandleTimerForms DEF Typed
<1>6. CASE \E m \in Requests : RunMessage(m, ProcessMessageOf(m))
  <2>1. PICK m \in Requests : \E e \in ProcessMessageOf(m) :
          Receive(ProcessMessage(m)) /\ Apply(e) /\ UNCHANGED <<state, grace>>
    BY <1>6 DEF RunMessage
  <2> QED
    BY <1>a, <2>1, ProcessMessageForms DEF Typed
<1>7. CASE RunCancelTimer100
  <2>1. \A i \in 1..Len(queue') : queue'[i] \notin EndCommand
    BY <1>7, <1>c, ReceiveKeepsOut DEF RunCancelTimer100
  <2> QED
    BY <1>7, <1>d, <2>1, RestCalm DEF RunCancelTimer100, Ending
<1>8. CASE SelfSend \/ SelfSendFailed
  <2>1. runner.to \in State /\ Send(TransitionTo(runner.to))
    BY <1>8 DEF SelfSend, SelfSendFailed, Typed, TypeOK, RunnerType, Place, Recv, Unregistering,
                Exiting, Stopped, At
  <2>2. /\ TransitionTo(runner.to) \in Command(TimerNames, Requests)
        /\ TransitionTo(runner.to) \notin EndCommand
    BY <1>d, <2>1 DEF TransitionTo, Command, EndCommand, Terminate
  <2>3. \A i \in 1..Len(queue') : queue'[i] \notin EndCommand
    BY <1>c, <2>1, <2>2, SendKeepsOut
  <2>4. runner' = Rest /\ UNCHANGED <<state, tasks, grace>>
    BY <1>8 DEF SelfSend, SelfSendFailed
  <2> QED
    BY <1>d, <2>3, <2>4, RestCalm DEF Ending
<1>9. CASE ArmTimers
  <2>1. tasks'["I"] = "idle" /\ runner' = Rest /\ UNCHANGED <<state, queue, grace>>
    BY <1>9, <1>d, <1>t DEF ArmTimers
  <2> QED
    BY <1>d, <1>c, <2>1, RestCalm DEF Ending
<1>10. CASE Unregister
  BY <1>10, <1>d, <1>c, RestCalm DEF Unregister, Ending
<1>11. CASE LoopEnd
  <2>1. tasks'["I"] = "idle"
    BY <1>11, <1>d, <1>t, AbortLemma DEF LoopEnd
  <2>2. \A i \in 1..Len(queue') : queue'[i] \notin EndCommand
    BY <1>11 DEF LoopEnd
  <2> QED
    BY <1>11, <1>d, <2>1, <2>2, RestCalm DEF LoopEnd, Ending
<1> QED
  BY <1>1, <1>2, <1>3, <1>4, <1>5, <1>6, <1>7, <1>8, <1>9, <1>10, <1>11 DEF Loop, LoopStep

\* Neither the TU nor the manager's hold on the transaction comes back, and
\* nothing told is forgotten.
LEMMA NothingForgotten ==
  ASSUME Typed, [Next]_vars
  PROVE  told \subseteq told' /\ (tu' => tu) /\ (held' => held) /\ answers \subseteq answers'
<1>1. CASE Loop
  <2>1. (\E o : Emit(o)) \/ Silent
    BY <1>1 DEF Loop, LoopStep, IgnoreTransition, RejectTransition, EnterState, EnterStateUnheard,
                RunTimer, RunMessage, Apply, RunTerminate, RunCancelTimer100, SelfSend,
                SelfSendFailed, ArmTimers, Unregister, LoopEnd
  <2>2. UNCHANGED <<tu, held, answers>>
    BY <1>1 DEF Loop, LoopStep, IgnoreTransition, RejectTransition, EnterState, EnterStateUnheard,
                RunTimer, RunMessage, RunTerminate, RunCancelTimer100, SelfSend,
                SelfSendFailed, ArmTimers, Unregister, LoopEnd, loopFrame, serverVars
  <2> QED
    BY <2>1, <2>2 DEF Emit, Silent
<1>2. CASE Tasks \/ Manager \/ Timer100
  BY <1>2, EnvironmentFacts
<1>3. CASE Responding
  BY <1>3, RespondingServed DEF Served, callFrame, Typed
<1>4. CASE UNCHANGED vars
  BY <1>4 DEF vars, runnerVars, serverVars
<1> QED
  BY <1>1, <1>2, <1>3, <1>4 DEF Next

\* Settled is inductive.
LEMMA SettledStep ==
  ASSUME Typed, Settled, [Next]_vars
  PROVE  Settled'
<1> SUFFICES ASSUME tu', held', Ending', "2xx" \notin answers' PROVE told' \cap Settlement # {}
  BY DEF Settled
<1>1. told \subseteq told' /\ tu /\ held /\ "2xx" \notin answers
  BY NothingForgotten
<1>2. CASE Ending
  BY <1>1, <1>2 DEF Settled
<1>3. CASE ~Ending /\ Loop
  BY <1>1, <1>3, LoopSettles
<1>4. CASE ~Ending /\ (Tasks \/ Manager \/ Timer100)
  <2>1. /\ UNCHANGED <<state, runner>> /\ grace' = "none" /\ tasks'["I"] = "idle"
        /\ UNCHANGED queue \/ \E c : Plain(c) /\ Send(c)
    BY <1>4, EnvironmentFacts DEF Ending
  <2>2. \A i \in 1..Len(queue') : queue'[i] \notin EndCommand
    BY <1>4, <2>1, SendKeepsOut DEF Ending, Plain
  <2> QED
    BY <1>4, <2>1, <2>2 DEF Ending
<1>5. CASE ~Ending /\ Responding
  <2>1. UNCHANGED <<state, runner, tasks, grace>> /\ Sends
    BY <1>5, RespondingServed DEF Served, callFrame, Typed
  <2>2. \/ UNCHANGED queue
        \/ \E c \in Command(TimerNames, Requests) : c \notin EndCommand /\ Send(c)
    <3>1. TransitionTo("Completed") \notin EndCommand
      BY DEF TransitionTo, EndCommand, Terminate
    <3> QED
      BY <2>1, <3>1, PlainCommands DEF Sends, Plain
  <2>3. \A i \in 1..Len(queue') : queue'[i] \notin EndCommand
    BY <1>5, <2>2, SendKeepsOut DEF Ending
  <2> QED
    BY <1>5, <2>1, <2>3 DEF Ending
<1>6. CASE ~Ending /\ UNCHANGED vars
  BY <1>6 DEF vars, runnerVars, Ending
<1> QED
  BY <1>2, <1>3, <1>4, <1>5, <1>6 DEF Next

\* A refused call that ends by itself was acknowledged, timed out or lost its
\* transport, and the TU was told which, while it listens and the manager holds
\* the transaction (process_ack, handle_timer_h_trigger, handle_timer_g_trigger).
THEOREM RefusalTheorem == Spec => []RefusalSettled
<1>1. Init => Settled
  <2>1. ASSUME Init PROVE ~Ending
    <3>1. /\ queue = <<TransitionTo("Proceeding")>> /\ state = "Proceeding" /\ runner = Recv
          /\ grace = "none" /\ tasks["I"] = "idle"
      BY <2>1 DEF Init, ServerInit, TimerNames
    <3>2. TransitionTo("Proceeding") \notin EndCommand
      BY DEF TransitionTo, EndCommand, Terminate
    <3>3. \A i \in 1..Len(queue) : queue[i] = TransitionTo("Proceeding")
      BY <3>1
    <3> QED
      BY <3>1, <3>2, <3>3 DEF Ending, Recv, At, None
  <2> QED
    BY <2>1 DEF Settled
<1>2. Typed /\ Settled /\ [Next]_vars => Settled'
  BY SettledStep
<1>3. Settled => RefusalSettled
  BY DEF Settled, Ending, RefusalSettled, Settlement
<1> QED
  BY <1>1, <1>2, <1>3, CallsTheorem, PTL DEF Spec

-----------------------------------------------------------------------------
(* Neither Completed nor Confirmed lasts for ever.                         *)
(*                                                                         *)
(* NeverStranded speaks of a runner that waits; inductive is what holds at *)
(* every place of the runner, and that the timer manager still knows the   *)
(* transaction: Timer H's task sends nothing for one it does not know.     *)

\* The end of Completed is on its way.
After == {"Confirmed", "Terminated"}
Leaving ==
  \/ runner \in {Exiting, Stopped}
  \/ runner.at \in {"send", "sendFailed"} /\ runner.to \in After
  \/ \E s \in After : Queued(TransitionTo(s))

CompletedLasts ==
  state = "Completed" =>
    \/ Leaving \/ runner = Arming({"G", "H"})
    \/ tasks["H"] \in {"asleep", "blocked"} /\ registered
    \/ Queued(Timer("H"))

ConfirmedLasts ==
  state = "Confirmed" =>
    \/ runner \in {Exiting, Stopped, Arming({"I"})}
    \/ tasks["I"] \in {"asleep", "second"} \/ Queued(TransitionTo("Terminated"))

\* No table of this transaction unregisters it.
Lasting == CompletedLasts /\ ConfirmedLasts /\ runner.at # "unregister"

\* What is in the channel stays there, but for the command that is taken.
LEMMA ReceiveStays ==
  ASSUME TypeOK, NEW c, Receive(c)
  PROVE  \A d : Queued(d) /\ d # c => Queued(d)'
BY ReceiveKeeps DEF TypeOK, RunnerType, Queued

\* A send takes nothing away.
LEMMA SendStays ==
  ASSUME TypeOK, NEW c \in Command(TimerNames, Requests), Send(c)
  PROVE  (\A d : Queued(d) => Queued(d)') /\ Queued(c)'
BY SendKeeps DEF TypeOK, RunnerType, Queued

\* Where a waiting runner is not.
LEMMA RecvPlace ==
  /\ Recv \notin {Exiting, Stopped, Arming({"G", "H"}), Arming({"I"})}
  /\ Recv.at \notin {"send", "sendFailed"}
BY DEF Recv, Exiting, Stopped, Arming, At

\* Entering Completed starts Timers G and H, entering Confirmed Timer I.
LEMMA OnEnterStarts ==
  ASSUME NEW s \in State, NEW e \in OnEnter(s)
  PROVE  /\ s = "Completed" => e.then = Arming({"G", "H"})
         /\ s = "Confirmed" => e.then = Arming({"I"})
         /\ e.then.at # "unregister"
BY DEF OnEnter, Entry, Arming, Rest, Recv, Exiting, At

\* No handler aborts a timer, and Timer H ends Completed.
LEMMA TimersAlone ==
  /\ \A t \in TimerNames : \A e \in HandleTimer(t) : e.abort = {}
  /\ state = "Completed" => \A e \in HandleTimer("H") : e.next = "Terminated"
  /\ \A m \in Requests : \A e \in ProcessMessageOf(m) : e.abort = {}
<1>1. \A t \in TimerNames : \A e \in HandleTimer(t) : e.abort = {}
  BY DEF HandleTimer, HandleTimerG, HandleTimerH, OnlyTriggered, Effect, TimerNames
<1>2. state = "Completed" => \A e \in HandleTimer("H") : e.next = "Terminated"
  BY DEF HandleTimer, HandleTimerH, Effect
<1>3. \A m \in Requests : \A e \in ProcessMessageOf(m) : e.abort = {}
  BY DEF ProcessMessageOf, ProcessInvite, ProcessAck, ProcessCancel, Nothing, Effect
<1> QED
  BY <1>1, <1>2, <1>3

\* The runner takes a command that neither ends Completed nor is Timer H's, and
\* leaves Timers H and I alone.
LEMMA ReceiveLasts ==
  ASSUME TypeOK, Lasting, NEW c, Receive(c), UNCHANGED <<state, registered>>,
         state = "Completed" => c # Timer("H") /\ \A s \in After : c # TransitionTo(s),
         c # TransitionTo("Terminated"),
         \A t \in {"H", "I"} : tasks'[t] = tasks[t]
  PROVE  CompletedLasts' /\ ConfirmedLasts'
<1>1. runner = Recv
  BY DEF Receive
<1>2. CompletedLasts'
  <2> SUFFICES ASSUME state = "Completed"
               PROVE  \/ \E s \in After : Queued(TransitionTo(s))'
                      \/ tasks'["H"] \in {"asleep", "blocked"} /\ registered'
                      \/ Queued(Timer("H"))'
    BY DEF CompletedLasts, Leaving
  <2>1. \/ \E s \in After : Queued(TransitionTo(s))
        \/ tasks["H"] \in {"asleep", "blocked"} /\ registered
        \/ Queued(Timer("H"))
    BY <1>1, RecvPlace DEF Lasting, CompletedLasts, Leaving
  <2> QED
    BY <2>1, ReceiveStays
<1>3. ConfirmedLasts'
  BY <1>1, RecvPlace, ReceiveStays DEF Lasting, ConfirmedLasts
<1> QED
  BY <1>2, <1>3

\* The loop's handlers for timers and requests.
LEMMA HandlersLast ==
  ASSUME TypeOK, Lasting,
         \/ \E t \in TimerNames : RunTimer(t, HandleTimer(t))
         \/ \E m \in Requests : RunMessage(m, ProcessMessageOf(m))
  PROVE  Lasting'
<1>t. tasks \in [TimerNames -> TaskPhase] /\ "H" \in TimerNames /\ "I" \in TimerNames
  BY DEF TypeOK, RunnerType, TimerNames
<1>1. ASSUME NEW c, Receive(c), NEW e, Apply(e), e.abort = {},
             UNCHANGED <<state, registered>>, \A s \in State : c # TransitionTo(s),
             state = "Completed" /\ c = Timer("H") => e.next = "Terminated"
      PROVE  Lasting'
  <2>1. \A t \in {"H", "I"} : tasks'[t] = tasks[t]
    BY <1>t, <1>1, AbortLeaves DEF Apply
  <2>2. runner'.at # "unregister"
    BY <1>1 DEF Apply, Sending, Arming, Rest, Recv, Exiting, At
  <2>3. CASE state = "Completed" /\ c = Timer("H")
    <3>1. runner'.at = "send" /\ runner'.to \in After
      BY <1>1, <2>3 DEF Apply, Sending, At, After, None
    <3> QED
      BY <1>1, <2>2, <2>3, <3>1 DEF Lasting, CompletedLasts, ConfirmedLasts, Leaving
  <2>4. CASE ~(state = "Completed" /\ c = Timer("H"))
    <3>1. CompletedLasts' /\ ConfirmedLasts'
      BY <1>1, <2>1, <2>4, ReceiveLasts DEF After, State
    <3> QED
      BY <2>2, <3>1 DEF Lasting
  <2> QED
    BY <2>3, <2>4
<1>2. CASE \E t \in TimerNames : RunTimer(t, HandleTimer(t))
  <2>1. PICK t \in TimerNames : \E e \in HandleTimer(t) :
          Receive(Timer(t)) /\ Apply(e) /\ UNCHANGED <<state, registered>>
    BY <1>2 DEF RunTimer, loopFrame
  <2>2. PICK e \in HandleTimer(t) : Receive(Timer(t)) /\ Apply(e) /\ UNCHANGED <<state, registered>>
    BY <2>1
  <2>3. (\A s : Timer(t) # TransitionTo(s)) /\ (Timer(t) = Timer("H") => t = "H")
    BY DEF Timer, TransitionTo
  <2>4. e.abort = {} /\ (state = "Completed" /\ Timer(t) = Timer("H") => e.next = "Terminated")
    BY <2>3, TimersAlone
  <2> QED
    BY <1>1, <2>2, <2>3, <2>4
<1>3. CASE \E m \in Requests : RunMessage(m, ProcessMessageOf(m))
  <2>1. PICK m \in Requests : \E e \in ProcessMessageOf(m) :
          Receive(ProcessMessage(m)) /\ Apply(e) /\ UNCHANGED <<state, registered>>
    BY <1>3 DEF RunMessage, loopFrame
  <2>2. PICK e \in ProcessMessageOf(m) :
          Receive(ProcessMessage(m)) /\ Apply(e) /\ UNCHANGED <<state, registered>>
    BY <2>1
  <2>3. (\A s : ProcessMessage(m) # TransitionTo(s)) /\ ProcessMessage(m) # Timer("H")
    BY DEF ProcessMessage, Timer, TransitionTo
  <2> QED
    BY <1>1, <2>2, <2>3, TimersAlone
<1> QED
  BY <1>2, <1>3

\* The loop's other steps.
LEMMA LoopLasts ==
  ASSUME TypeOK, Lasting, Loop
  PROVE  Lasting'
<1>t. /\ tasks \in [TimerNames -> TaskPhase] /\ "H" \in TimerNames /\ "I" \in TimerNames
      /\ Timers = TimerNames
  BY DEF TypeOK, RunnerType, TimerNames, Timers
<1>1. CASE IgnoreTransition
  <2>1. Receive(TransitionTo(state)) /\ UNCHANGED <<state, runner, tasks, registered>>
    BY <1>1 DEF IgnoreTransition, loopFrame
  <2>2. runner'.at # "unregister"
    BY <2>1 DEF Receive, Recv, At
  <2>3. /\ state = "Completed" => /\ TransitionTo(state) # Timer("H")
                                  /\ \A s \in After : TransitionTo(state) # TransitionTo(s)
        /\ state \in {"Completed", "Confirmed"} => TransitionTo(state) # TransitionTo("Terminated")
    BY DEF TransitionTo, Timer, After
  <2>4. CASE state \in {"Completed", "Confirmed"}
    BY <2>1, <2>2, <2>3, <2>4, ReceiveLasts DEF Lasting
  <2>5. CASE state \notin {"Completed", "Confirmed"}
    BY <2>1, <2>2, <2>5 DEF Lasting, CompletedLasts, ConfirmedLasts
  <2> QED
    BY <2>4, <2>5
<1>2. CASE RejectTransition(Kind)
  <2>1. PICK s \in State : ~ValidTransition(Kind, state, s) /\ Receive(TransitionTo(s))
    BY <1>2 DEF RejectTransition
  <2>2. UNCHANGED <<state, runner, tasks, registered>> /\ runner'.at # "unregister"
    BY <1>2, <2>1 DEF RejectTransition, loopFrame, Receive, Recv, At
  <2>3. TransitionTo(s) # TransitionTo("Terminated") /\ TransitionTo(s) # Timer("H")
    BY <2>1 DEF ValidTransition, TransitionTo, Timer
  <2>4. state = "Completed" => \A u \in After : TransitionTo(s) # TransitionTo(u)
    <3>1. state = "Completed" => s \notin After
      BY <2>1 DEF ValidTransition, Successors, Kind, After
    <3> QED
      BY <3>1 DEF TransitionTo
  <2> QED
    BY <2>1, <2>2, <2>3, <2>4, ReceiveLasts DEF Lasting
<1>3. CASE EnterStateUnheard(Kind) \/ RunTerminate
  BY <1>3 DEF EnterStateUnheard, RunTerminate, Lasting, CompletedLasts, ConfirmedLasts, Exiting, At
<1>4. CASE \E s \in State : EnterState(Kind, s, OnEnter(s))
  <2>1. PICK s \in State : \E e \in OnEnter(s) : runner' = e.then /\ state' = s
    BY <1>4 DEF EnterState
  <2>2. PICK e \in OnEnter(s) : runner' = e.then /\ state' = s
    BY <2>1
  <2> QED
    BY <2>2, OnEnterStarts DEF Lasting, CompletedLasts, ConfirmedLasts
<1>5. CASE SelfSend \/ SelfSendFailed
  <2>1. runner.to \in State /\ Send(TransitionTo(runner.to)) /\ runner.at \in {"send", "sendFailed"}
    BY <1>5 DEF SelfSend, SelfSendFailed, TypeOK, RunnerType, Place, Recv, Unregistering,
                Exiting, Stopped, At
  <2>2. PICK to \in State : to = runner.to /\ Send(TransitionTo(to))
    BY <2>1
  <2>3. (\A d : Queued(d) => Queued(d)') /\ Queued(TransitionTo(to))'
    <3>1. TransitionTo(to) \in Command(TimerNames, Requests)
      BY DEF TransitionTo, Command
    <3> QED
      BY <2>2, <3>1, SendStays
  <2>4. runner' \in {Rest, Exiting} /\ runner'.at # "unregister" /\ UNCHANGED registered
    BY <1>5 DEF SelfSend, SelfSendFailed, loopFrame, Rest, Recv, Exiting, At
  <2>5. UNCHANGED <<state, tasks>> \/ state' = "Terminated"
    BY <1>5 DEF SelfSend, SelfSendFailed
  <2>6. runner \notin {Exiting, Stopped, Arming({"G", "H"}), Arming({"I"})}
    BY <2>1 DEF Exiting, Stopped, Arming, At
  <2>7. CASE state' = "Terminated"
    BY <2>4, <2>7 DEF Lasting, CompletedLasts, ConfirmedLasts
  <2>8. CASE UNCHANGED <<state, tasks>>
    <3>1. state = "Completed" =>
            \/ \E s \in After : Queued(TransitionTo(s))'
            \/ tasks["H"] \in {"asleep", "blocked"} /\ registered
            \/ Queued(Timer("H"))'
      BY <2>2, <2>3, <2>6 DEF Lasting, CompletedLasts, Leaving
    <3>2. CompletedLasts'
      BY <2>4, <2>8, <3>1 DEF CompletedLasts, Leaving
    <3>3. ConfirmedLasts'
      BY <2>3, <2>6, <2>8 DEF Lasting, ConfirmedLasts
    <3> QED
      BY <2>4, <3>2, <3>3 DEF Lasting
  <2> QED
    BY <2>5, <2>7, <2>8
<1>6. CASE ArmTimers
  <2>1. /\ runner.at = "arm" /\ UNCHANGED <<state, queue>> /\ registered' = TRUE
        /\ runner'.at # "unregister"
    BY <1>6 DEF ArmTimers, Rest, Recv, Exiting, At
  <2>2. \A t \in {"H", "I"} : tasks'[t] = IF t \in runner.arm THEN "asleep" ELSE tasks[t]
    BY <1>6, <1>t DEF ArmTimers
  <2>3. /\ runner \notin {Exiting, Stopped}
        /\ runner = Arming({"G", "H"}) => "H" \in runner.arm
        /\ runner = Arming({"I"}) => "I" \in runner.arm
    BY <2>1 DEF Exiting, Stopped, Arming, At
  <2>4. CompletedLasts'
    BY <2>1, <2>2, <2>3 DEF Lasting, CompletedLasts, Leaving, Queued
  <2>5. ConfirmedLasts'
    BY <2>1, <2>2, <2>3 DEF Lasting, ConfirmedLasts, Queued
  <2> QED
    BY <2>1, <2>4, <2>5 DEF Lasting
<1>7. CASE Unregister
  BY <1>7 DEF Unregister, Lasting
<1>8. CASE LoopEnd
  BY <1>8 DEF LoopEnd, Lasting, CompletedLasts, ConfirmedLasts, Leaving, Stopped, At
<1>9. CASE RunCancelTimer100
  <2>1. /\ Receive(CancelTimer100) /\ UNCHANGED <<state, tasks, registered>>
        /\ runner'.at # "unregister"
    BY <1>9 DEF RunCancelTimer100, loopFrame, Rest, Recv, Exiting, At
  <2>2. CancelTimer100 # Timer("H") /\ \A s : CancelTimer100 # TransitionTo(s)
    BY DEF CancelTimer100, Timer, TransitionTo
  <2> QED
    BY <2>1, <2>2, ReceiveLasts DEF Lasting
<1> QED
  BY <1>1, <1>2, <1>3, <1>4, <1>5, <1>6, <1>7, <1>8, <1>9, HandlersLast DEF Loop, LoopStep

\* Timer H sends before its task is gone, and so does Timer I.
LEMMA TaskLasts ==
  ASSUME TypeOK, Lasting, TimerStep
  PROVE  Lasting'
<1>t. /\ tasks \in [TimerNames -> TaskPhase] /\ Timers = TimerNames
      /\ "H" \in TimerNames /\ "I" \in TimerNames
  BY DEF TypeOK, RunnerType, TimerNames, Timers
<1>1. PICK t \in TimerNames : FireManaged(t) \/ Unblock(t) \/ FireTransition(t) \/ SendTransition(t)
  BY <1>t DEF TimerStep
<1>2. /\ UNCHANGED <<state, runner, registered>>
      /\ \A u \in TimerNames \ {t} : tasks'[u] = tasks[u]
  BY <1>t, <1>1 DEF FireManaged, Unblock, FireTransition, SendTransition, taskFrame, SetTask
<1>3. Timer(t) \in Command(TimerNames, Requests) /\ TransitionTo("Terminated") \in Command(TimerNames, Requests)
  BY DEF Command, Timer, TransitionTo, State
<1>4. UNCHANGED queue \/ Send(Timer(t)) \/ Send(TransitionTo("Terminated"))
  BY <1>1 DEF FireManaged, Unblock, FireTransition, SendTransition
<1>5. \A d : Queued(d) => Queued(d)'
  <2>1. CASE UNCHANGED queue
    BY <2>1 DEF Queued
  <2> QED
    BY <1>3, <1>4, <2>1, SendStays
<1>6. CompletedLasts'
  <2>1. CASE t # "H"
    BY <1>2, <1>5, <1>t, <2>1 DEF Lasting, CompletedLasts, Leaving
  <2>2. CASE t = "H" /\ Send(Timer("H"))
    <3>1. Queued(Timer("H"))'
      BY <1>3, <2>2, SendStays
    <3> QED
      BY <3>1 DEF CompletedLasts
  <2>3. CASE t = "H" /\ ~Send(Timer("H"))
    <3>1. \/ ~registered \/ Closed \/ tasks["H"] = "late" \/ tasks'["H"] = "blocked"
      BY <1>1, <1>t, <2>3 DEF FireManaged, Unblock, FireTransition, SendTransition, TransitionTimer, SetTask
    <3> QED
      BY <1>2, <1>5, <3>1 DEF Lasting, CompletedLasts, Leaving, Closed
  <2> QED
    BY <2>1, <2>2, <2>3
<1>7. ConfirmedLasts'
  <2>1. CASE t # "I"
    BY <1>2, <1>5, <1>t, <2>1 DEF Lasting, ConfirmedLasts
  <2>2. CASE t = "I" /\ FireTransition("I")
    <3>1. Closed \/ tasks'["I"] = "second" \/ tasks["I"] = "late"
      BY <1>t, <2>2 DEF FireTransition, SetTask
    <3> QED
      BY <1>2, <1>5, <3>1 DEF Lasting, ConfirmedLasts, Closed
  <2>3. CASE t = "I" /\ SendTransition("I")
    <3>1. Closed \/ Send(TransitionTo("Terminated"))
      BY <2>3 DEF SendTransition
    <3>2. Closed \/ Queued(TransitionTo("Terminated"))'
      BY <1>3, <3>1, SendStays
    <3> QED
      BY <1>2, <3>2 DEF ConfirmedLasts, Closed
  <2> QED
    BY <1>1, <2>1, <2>2, <2>3 DEF FireManaged, Unblock, ManagedTimer
<1> QED
  BY <1>2, <1>6, <1>7 DEF Lasting

\* The grace period, the manager, Timer 100 and the callers of send_response
\* leave the runner and its timers alone and take nothing from the channel.
LEMMA BesideLasts ==
  ASSUME Typed, GraceExpires \/ DrainExpires \/ Manager \/ Timer100 \/ Responding
  PROVE  UNCHANGED <<state, runner, tasks, registered>> /\ \A d : Queued(d) => Queued(d)'
<1>1. UNCHANGED <<state, runner, tasks, registered>>
  <2>1. CASE Responding
    BY <2>1, RespondingServed DEF Served, callFrame, Typed
  <2>2. CASE Timer100
    BY <2>2 DEF Timer100, TryingChecks, TryingSends, TryingStores, tryingFrame
  <2>3. CASE GraceExpires \/ DrainExpires \/ Manager
    BY <2>3 DEF GraceExpires, DrainExpires, graceFrame, Manager, Request, Accept, Deliver,
                DeliverClosed, StopRequested, TuCloses, envFrame
  <2> QED
    BY <2>1, <2>2, <2>3
<1>2. UNCHANGED queue \/ \E c \in Command(TimerNames, Requests) : Send(c)
  <2>1. CASE Responding
    <3>1. Sends
      BY <2>1, RespondingServed DEF Served, Typed
    <3> QED
      BY <3>1, PlainCommands DEF Sends, Plain
  <2>2. CASE Timer100
    BY <2>2 DEF Timer100, TryingChecks, TryingSends, TryingStores, tryingFrame
  <2>3. CASE GraceExpires \/ DrainExpires
    BY <2>3, PlainCommands DEF GraceExpires, DrainExpires
  <2>4. CASE Manager
    BY <2>4, EnvironmentFacts, PlainCommands DEF Plain
  <2> QED
    BY <2>1, <2>2, <2>3, <2>4
<1>3. TypeOK
  BY DEF Typed
<1>4. CASE UNCHANGED queue
  BY <1>1, <1>4 DEF Queued
<1> QED
  BY <1>1, <1>2, <1>3, <1>4, SendStays

\* Timer H ends Completed and Timer I ends Confirmed: while the runner waits for
\* a command the timer is running, its command is queued, or a state change is;
\* no retransmitted INVITE, no Timer G and no call of send_response takes that away.
THEOREM StrandedTheorem == Spec => []NeverStranded
<1>1. Init => Lasting
  BY DEF Init, ServerInit, Lasting, CompletedLasts, ConfirmedLasts, Recv, At
<1>2. ASSUME Typed, Lasting, [Next]_vars PROVE Lasting'
  <2>1. CASE GraceExpires \/ DrainExpires \/ Manager \/ Timer100 \/ Responding
    BY <1>2, <2>1, BesideLasts DEF Lasting, CompletedLasts, ConfirmedLasts, Leaving
  <2>2. CASE UNCHANGED vars
    BY <1>2, <2>2 DEF vars, runnerVars, Lasting, CompletedLasts, ConfirmedLasts, Leaving, Queued
  <2>3. TypeOK
    BY <1>2 DEF Typed
  <2> QED
    BY <1>2, <2>1, <2>2, <2>3, LoopLasts, TaskLasts DEF Next, Tasks
<1>3. Typed /\ Lasting /\ [Next]_vars => Lasting'
  BY <1>2
<1>4. Lasting => NeverStranded
  <2> SUFFICES ASSUME Lasting PROVE NeverStranded
    OBVIOUS
  <2>1. \A r \in {Recv, Arming({"G"})} :
          /\ r \notin {Exiting, Stopped, Arming({"G", "H"})}
          /\ r.at \notin {"send", "sendFailed"}
    BY DEF Recv, Exiting, Stopped, Arming, At
  <2> QED
    BY <2>1, RecvPlace DEF Lasting, CompletedLasts, ConfirmedLasts, Leaving, NeverStranded, After
<1> QED
  BY <1>1, <1>3, <1>4, CallsTheorem, PTL DEF Spec

-----------------------------------------------------------------------------
(* An accepted call leaves the transaction.                                *)

\* Once a task's 2xx was sent, the transaction is Terminated, or the command that
\* takes it there is in the channel, or the runner is gone with it.
SuccessUnderWay ==
  "2xx" \in answers =>
                    \/ state = "Terminated" \/ runner \in {Exiting, Stopped}
                    \/ Queued(TransitionTo("Terminated"))

\* The loop takes the command only to obey it, and empties the channel only when
\* it ends.
LEMMA LoopSucceeds ==
  ASSUME TypeOK, Loop, state # "Terminated", Queued(TransitionTo("Terminated"))
  PROVE  state' = "Terminated" \/ runner' \in {Exiting, Stopped} \/ Queued(TransitionTo("Terminated"))'
<1>1. ASSUME NEW c, Receive(c), c # TransitionTo("Terminated")
      PROVE  Queued(TransitionTo("Terminated"))'
  BY <1>1, ReceiveStays
<1>2. CASE IgnoreTransition
  <2>1. Receive(TransitionTo(state)) /\ TransitionTo(state) # TransitionTo("Terminated")
    BY <1>2 DEF IgnoreTransition, TransitionTo
  <2> QED
    BY <1>1, <2>1
<1>3. CASE RejectTransition(Kind)
  <2>1. PICK s \in State : ~ValidTransition(Kind, state, s) /\ Receive(TransitionTo(s))
    BY <1>3 DEF RejectTransition
  <2>2. TransitionTo(s) # TransitionTo("Terminated")
    BY <2>1 DEF ValidTransition, TransitionTo
  <2> QED
    BY <1>1, <2>1, <2>2
<1>4. CASE EnterStateUnheard(Kind) \/ RunTerminate \/ LoopEnd
  BY <1>4 DEF EnterStateUnheard, RunTerminate, LoopEnd
<1>5. CASE \E s \in State : EnterState(Kind, s, OnEnter(s))
  <2>1. PICK s \in State : Receive(TransitionTo(s)) /\ state' = s
    BY <1>5 DEF EnterState
  <2>2. s # "Terminated" => TransitionTo(s) # TransitionTo("Terminated")
    BY DEF TransitionTo
  <2> QED
    BY <1>1, <2>1, <2>2
<1>6. CASE SelfSend \/ SelfSendFailed
  <2>1. runner.to \in State /\ Send(TransitionTo(runner.to))
    BY <1>6 DEF SelfSend, SelfSendFailed, TypeOK, RunnerType, Place, Recv, Unregistering,
                Exiting, Stopped, At
  <2>2. TransitionTo(runner.to) \in Command(TimerNames, Requests)
    BY <2>1 DEF TransitionTo, Command
  <2> QED
    BY <2>1, <2>2, SendStays
<1>7. CASE ArmTimers \/ Unregister
  BY <1>7 DEF ArmTimers, Unregister, Queued
<1>8. CASE RunCancelTimer100
  BY <1>8, <1>1 DEF RunCancelTimer100, CancelTimer100, TransitionTo
<1>9. CASE \E t \in TimerNames : RunTimer(t, HandleTimer(t))
  BY <1>9, <1>1 DEF RunTimer, Timer, TransitionTo
<1>10. CASE \E m \in Requests : RunMessage(m, ProcessMessageOf(m))
  BY <1>10, <1>1 DEF RunMessage, ProcessMessage, TransitionTo
<1> QED
  BY <1>2, <1>3, <1>4, <1>5, <1>6, <1>7, <1>8, <1>9, <1>10 DEF Loop, LoopStep

\* A terminated transaction stays so, and a runner that left its loop is gone.
LEMMA EndLasts ==
  ASSUME Typed, [Next]_vars
  PROVE  /\ state = "Terminated" => state' = "Terminated"
         /\ runner \in {Exiting, Stopped} => runner' \in {Exiting, Stopped}
<1>1. state = "Terminated" => state' = "Terminated"
  <2>1. Rank(state') >= Rank(state)
    BY AdvanceStep DEF Typed
  <2>2. state' \in State
    BY TypedStep DEF Typed, TypeOK, RunnerType
  <2> QED
    BY <2>1, <2>2 DEF Rank, State, vars, runnerVars
<1>2. runner \in {Exiting, Stopped} => runner' \in {Exiting, Stopped}
  <2> SUFFICES ASSUME runner \in {Exiting, Stopped} PROVE runner' \in {Exiting, Stopped}
    OBVIOUS
  <2>1. runner # Recv /\ runner.at \notin {"send", "sendFailed", "arm", "unregister"}
    BY DEF Recv, Exiting, Stopped, At
  <2>2. CASE Loop
    BY <2>1, <2>2 DEF Loop, LoopStep, Receive, IgnoreTransition, RejectTransition, EnterState,
                      EnterStateUnheard, RunTimer, RunMessage, RunTerminate, RunCancelTimer100,
                      SelfSend, SelfSendFailed, ArmTimers, Unregister, LoopEnd
  <2>3. CASE Tasks \/ Manager \/ Timer100
    BY <2>3, EnvironmentFacts
  <2>4. CASE Responding
    BY <2>4, RespondingServed DEF Served, callFrame, Typed
  <2>5. CASE UNCHANGED vars
    BY <2>5 DEF vars, runnerVars
  <2> QED
    BY <2>2, <2>3, <2>4, <2>5 DEF Next
<1> QED
  BY <1>1, <1>2

\* A call that was accepted does not keep its transaction: send_response returns
\* Ok for a 2xx only with TransitionTo(Terminated) in the channel, and nothing
\* that is queued before it or fails meanwhile makes the runner pass it over.
THEOREM SuccessTheorem == Spec => []SuccessUnderWay
<1>1. Init => SuccessUnderWay
  BY DEF Init, ServerInit, SuccessUnderWay, None
<1>2. ASSUME Typed, SuccessUnderWay, [Next]_vars PROVE SuccessUnderWay'
  <2> SUFFICES ASSUME "2xx" \in answers'
               PROVE  \/ state' = "Terminated" \/ runner' \in {Exiting, Stopped}
                      \/ Queued(TransitionTo("Terminated"))'
    BY DEF SuccessUnderWay
  <2>t. TypeOK
    BY <1>2 DEF Typed
  <2>1. CASE state = "Terminated" \/ runner \in {Exiting, Stopped}
    BY <1>2, <2>1, EndLasts
  <2>2. CASE ~(state = "Terminated" \/ runner \in {Exiting, Stopped}) /\ Loop
    <3>1. "2xx" \in answers
      BY <2>2 DEF Loop, serverVars
    <3> QED
      BY <1>2, <2>2, <2>t, <3>1, LoopSucceeds DEF SuccessUnderWay
  <2>3. CASE ~(state = "Terminated" \/ runner \in {Exiting, Stopped}) /\ (Tasks \/ Manager \/ Timer100)
    <3>1. /\ "2xx" \in answers
          /\ UNCHANGED queue \/ \E c \in Command(TimerNames, Requests) : Send(c)
      BY <1>2, <2>3, EnvironmentFacts, PlainCommands DEF Plain
    <3>2. Queued(TransitionTo("Terminated"))
      BY <1>2, <2>3, <3>1 DEF SuccessUnderWay
    <3>3. CASE UNCHANGED queue
      BY <3>2, <3>3 DEF Queued
    <3> QED
      BY <2>t, <3>1, <3>2, <3>3, SendStays
  <2>4. CASE ~(state = "Terminated" \/ runner \in {Exiting, Stopped}) /\ Responding
    <3>1. Served
      BY <1>2, <2>4, RespondingServed DEF Typed
    <3>2. CASE "2xx" \in answers
      <4>1. Queued(TransitionTo("Terminated"))
        BY <1>2, <2>4, <3>2 DEF SuccessUnderWay
      <4>2. CASE UNCHANGED queue
        BY <4>1, <4>2 DEF Queued
      <4> QED
        BY <2>t, <3>1, <4>1, <4>2, SendStays, PlainCommands DEF Served, Sends, Plain
    <3>3. CASE "2xx" \notin answers
      <4>1. Send(TransitionTo("Terminated"))
        <5>1. PICK c \in Caller : SendStep(c)
          BY <2>4, <3>3 DEF Responding, TuBegins, RetransmitterBegins, RetransmitterStops
        <5> DEFINE target == Target(calls[c].response, calls[c].saw)
        <5>2. calls[c].response = "2xx" => target = "Terminated"
          BY DEF Target
        <5>3. ~Store(c, AfterStore(calls[c].saw)) /\ ~SendCancel(c)
          BY <3>3 DEF Store, SendCancel, Fail
        <5>4. Succeed(c) => calls[c].response = "2xx"
          BY <3>3 DEF Succeed
        <5>5. ~Fail(c)
          BY <3>3 DEF Fail
        <5> HIDE DEF target
        <5>6. ~PutOnWire(c, target)
          BY <3>3, <5>2, <5>4, <5>5 DEF PutOnWire, None
        <5>7. SendTarget(c, target)
          BY <5>1, <5>3, <5>6 DEF SendStep, CallStep, target
        <5> QED
          BY <5>2, <5>4, <5>5, <5>7 DEF SendTarget
      <4> QED
        BY <2>t, <4>1, SendStays, PlainCommands
    <3> QED
      BY <3>2, <3>3
  <2>5. CASE UNCHANGED vars
    BY <1>2, <2>5 DEF vars, runnerVars, serverVars, SuccessUnderWay, Queued
  <2> QED
    BY <1>2, <2>1, <2>2, <2>3, <2>4, <2>5 DEF Next
<1>3. Typed /\ SuccessUnderWay /\ [Next]_vars => SuccessUnderWay'
  BY <1>2
<1> QED
  BY <1>1, <1>3, CallsTheorem, PTL DEF Spec

=============================================================================
