# rvoip: TLA+ models of its call signalling

rvoip is a VoIP stack in Rust, some 2300 files in a dozen crate groups. These
modules model the parts that keep protocol state and share it between tasks: the
SIP transaction layer, the dialog of an inbound call, the call session above it, the
registrar's binding store, and the peer of the newer UCTP substrate. TLC checks
each on small instances; TLAPS proves most of the safety properties for every
value of the constants.

Paths: `transaction/` is `src/crates/sip/sip-dialog/src/transaction/`, `dialog/` is
`src/crates/sip/sip-dialog/src/`, `session/` is `src/crates/sip/rvoip-sip/`,
`registrar/` is `src/crates/sip/sip-registrar/src/registrar/`, `uctp/` is
`src/crates/uctp/`.

## 1. Inventory

| Component | State | Operations | Hard behaviour | What makes it correct |
|---|---|---|---|---|
| Transaction state (`transaction/state.rs`) | atomic state, lifecycle | `validate_transition`, `set` | stale requests for a change | a transaction never goes back |
| Runner (`transaction/runner.rs`, `logic.rs`) | the command channel, where the loop stands | the loop, grace period, shutdown | changes queued behind older commands; sends to itself; exits only on a command | ends, and reports its end |
| Timers (`transaction/timer_utils.rs`, `timer/manager.rs`) | one task per handle, the registry | start, fire, abort | abort does not recall a sent command; the lock is held over a send; two sends per wait timer | no state without a way out, no orphan task |
| Client transactions (`transaction/client/`) | timers A, B, D or E, F, K | initiate, responses, timers | final response against Timer B, failing ACK, repeated finals | the TU learns the outcome; silent wire once over |
| Server transactions (`transaction/server/`) | `last_response`, timers | `send_response`, ACK, requests again | `send_response`, Timer 100 and the 18x retransmitter run outside the runner | the final response is what is repeated; a refusal is settled |
| Transaction manager (`transaction/manager/`) | maps, ACK index, 2xx cache | create, dispatch, send, sweep | lookups against removal | requests reach their dialog |
| Dialog layer (`dialog/manager`, `dialog/protocol`) | dialogs and their four lookup tables, tombstones | INVITE, ACK, CANCEL, BYE, answer, removal | CANCEL against 200, a BYE repeated while the dialog is removed, two removers | a dialog ends once and leaves every table |
| Session (`session/`) | `SessionStore`, the state table | call API, dialog events, watchdogs, release | no lock across an event, late writes, stale watchdogs | BYE and CANCEL when they are legal; every end is reported |
| Registrar (`registrar/`) | bindings per address of record | register, refresh, unregister, expire | a miss, a clone or an emptied entry acted on later | one binding per device, none lost, expired ones leave |
| UCTP peer (`uctp/rvoip-uctp/src/state`, `uctp/rvoip-quic`) | Sessions, connections, stream handles, pending replies, routes | envelopes, shutdown, `send_and_wait`, event pump | shutdown beside the driver, full channel, handle wrap, repeated invites | routes agree, identity before Connection, every end reported |
| Subscriptions, presence, proxy, transport, parser | see section 7 | | | |
| Media, conversation core, WebRTC, identity | see section 7 | | | |

`PROJECT.json` lists each component with its status, and the hazards at the lines
where they bite.

**How the parts interact.** The transport hands messages to the transaction
manager, which finds or creates a transaction and awaits room in its channel. The
runner of the transaction reads commands one at a time, calls its
`TransactionLogic` and reports `TransactionEvent`s; its own state changes are
commands to itself. The dialog manager takes those events in one worker task and turns them into
`DialogToSessionEvent`s. The session's handler drives the state table with them, and
so do the application's calls, each in a task of its own; rows of the table send
through the dialog manager, whose `send_response` works in the caller's task. The registrar
and the UCTP peer stand by themselves.

## 2. Modules

```
TransactionState
  TransactionRunner ------------------ TransactionRunnerProofs
    ClientTransaction --> RequestContract    |
      ClientInvite ------------------- ClientInviteProofs
      ClientNonInvite                        |
    ServerTransaction                        |
      ServerInvite, MCServerInvite --- ServerInviteProofs
      ServerNonInvite ---------------- ServerNonInviteProofs
InviteManager
  UasCall ---------------------------- UasCallProofs
CallTable
  CallSession, MCCallSession --------- CallSessionProofs
Registry, MCRegistry ----------------- RegistryProofs
UctpCoordinator
  UctpPeer --------------------------- UctpPeerProofs
```

| Module | Models |
|---|---|
| `TransactionState` | states, lifecycle, the table of `validate_transition`, and `Rank`, the order the properties use |
| `TransactionRunner` | `run_transaction_loop`, the channel, timer tasks, grace task, dispatch, stop request. A kind of transaction supplies its `TransactionLogic` as operators: `OnEnter(s)`, `HandleTimer(t)`, and a table for messages |
| `ClientTransaction` | `initiate`, responses, the properties the two clients share |
| `ClientInvite`, `ClientNonInvite` | the client logics and specifications |
| `RequestContract` | the abstract specification of a client transaction: outcomes reported and never taken back, one end, no end before an outcome while the TU listens |
| `ServerTransaction` | `send_response` split at its awaits, and its callers, which nothing serialises: any tasks of the TU (`TuTasks`) and the retransmitter of reliable provisional responses |
| `ServerInvite`, `ServerNonInvite` | the server logics and specifications; Timer 100 |
| `InviteManager` | the transaction manager around an inbound INVITE: map entry, ACK index, 2xx cache, sweep, events |
| `UasCall` | the dialog manager on top of it: worker, answering task, session release, BYE task, each of which stops where its response is refused |
| `CallTable` | the rows of `default.yaml` for calls, as a set of records |
| `CallSession` | `process_event` step by step, event handlers, API calls, watchdogs, release tasks |
| `Registry` | the binding store and its ticker |
| `UctpCoordinator` | the per-peer coordinator, its driver, `shutdown`, `send_and_wait` |
| `UctpPeer` | the coordinator with the QUIC adapter's event pump, and the Connection ids the adapter gives the peer |
| `TransactionRunnerProofs` | lemmas about the channel, the timer tasks and the loop, for any kind of transaction |
| `...Proofs` | the theorems about a component and the lemmas they rest on (section 5) |

`MC...` modules only give values to constants that a `.cfg` cannot write, or a symmetry. Operators
called "faulty variant" are for mutation checks and are used by no specification.

### Transactions: state and steps

`state` and `lifecycle` are the two atomics; `queue` is the mpsc channel of `Capacity` slots;
`runner` is the await the loop stands at (`recv`; `send`, in a send to itself; `arm`
and `unregister`, waiting for the timer manager's lock; `exit`; `stopped`); `tasks` has
the phase of the task behind each timer handle; `registered` is the timer
manager's registry entry; `grace` the task spawned on entering `Terminated`; `tu` and `held` say
whether the TU's receiver and the manager's map entry still exist; `dispatch` is the
message `handlers.rs` is handing over. For servers, `last` is `last_response` and `calls`
the point at which each running `send_response` stands, with the state it read. `out`, `told`,
`answers` and the counters are history.

A handler of the logic runs in the runner's task and touches nothing another task reads except
the channel, the timer handles and the transport; it is one action, up to the first await
that can really wait: a send to its own full channel, or the timer manager's lock. Those waits
are runner positions of their own. `send_response` and the Timer 100 task share
`last_response` with the runner, so they are split at each await. In `ServerInvite` any task of the
TU may call `send_response` at any time, whatever was sent before: the accept's 200 and the CANCEL's
487 overlap in every way. A non-INVITE request has one handler, which answers once (`Answer`).

### Inbound call: state and steps

`InviteManager` keeps of the INVITE transaction its state and the `TransitionTo`s its
runner has not executed (`orders`); `ServerInvite` has the detail. `dialog`, `cseq`, `tagged`
are the entry in `dialogs`; `linked`, `early`, `lookup`, `tombstone` are
`transaction_to_dialog`, `early_dialog_lookup`, `dialog_lookup` and `terminated_bye_lookup`.
`worker`, `answer` and `remover` say at which await each task stands. A step ends where
a task awaits or releases a map entry another task reads. Each response may be refused by the
transport (`refused`), and its handler then leaves by `?` where it stands: a CANCEL without its 487, a
terminated dialog without its removal. `gaveUp` is the session's setup timeout.

### Call session: state and steps

`rec` is the record in the store; each task has its `copy`. One call of
`process_event` is `Load`, `Commit` (the state is written before the actions run), one `Act` per
action, `Merge` (the store is read again) and `Save`; handlers and API calls then
do what follows. `Threads` is the number of runtime threads. With one, no other
task runs between `Merge` and `Save`, which have no suspension point between them; with more they
interleave. `Scripts` are the scenarios: which API calls the application may make,
and how often the peer re-INVITEs. `Refused` are the sends the transport may refuse. A failed
action, and an event without a row, write the task's copy back as it is, over whatever the store has. A request
builder first reads the session and writes its options into it (`Stage`).

### Registrar and UCTP: state and steps

`Registry` has the entry of one address of record. A call that finds the entry works
under its lock, in one step; a call that misses, `register_contacts`, and the
removal of an emptied entry have a second step. Time passes for the bindings of the entry and for
those of a clone a task holds. `UctpCoordinator` handles one envelope at a time: the
handler's synchronous part is one step, then each event or reply it sends is a step that
waits for room (`todo`). `shutdown` is a task of its own. A Connection whose id went into an envelope
for the peer is `given`: the peer may name it, and the pump forwards what it says.

### Abstractions

- Durations: a running timer, sleep or expiry may come at any time, so every race that
  intervals usually hide is explored, and no property depends on an interval.
- Messages are classes: `1xx`, `2xx`, `failure`, `unackable` (a 300-699 response from which no
  ACK can be built); methods; envelope types.
- The transport accepts or refuses each send, nondeterministically (in the runs of `CallSession` the sends
  of `Refused`, in those of `UasCall` at most `MaxRefusals` different responses); a UCTP wire may wedge or close.
- The timers of a state are started under one acquisition of the timer manager's lock, where the code
  locks for each. What the models lack is a first timer that fires (500 ms later, T1, at the soonest) while
  the runner is still starting the second timer of the same state.
- The options a builder stages are assumed to survive until its row reads them; each builder is used once, so
  its slot is free.
- `JoinHandle::abort` lets a task that is being polled finish that poll (`late`,
  `second`). A wait timer aborted in its first send may still make the second, which only
  adds behaviours.
- The TU's event channel is drained: an event is delivered or, once the receiver is gone, lost.
  One message at a time is in `dispatch`.
- A response that arrives when the manager no longer holds the transaction is reported by the
  manager without it, and is not part of these models.
- CANCEL has a server transaction of its own, so nothing sends one to the INVITE server's runner;
  `process_cancel` is modelled, and the runs use INVITE and ACK.
- One inbound call, one session, one address of record, one UCTP peer. A retransmitted
  INVITE that matches nothing begins another call, which is not followed.
- `CallTable` leaves out the rows of registration, transfer, authentication,
  redirection on the caller's side and glare retry, and the actions that touch only SDP, media and the
  dialog's tables. `entered_state_at` is named by the event that entered the state.
- In `CallSession` the last reload and write-back of `process_one_event` (`executor.rs:802-819`), which
  writes what it has just read, is one step that changes nothing; the release of a session is one step.
- A binding keeps of its expiry instant only whether it has passed.
- Left out: the `TransportError` command, which nothing sends; test mode (`RVOIP_TEST`); logging,
  metrics, message formatting.

## 3. Runs

### Passing

| Run | Checks |
|---|---|
| `client_invite_safety` | `EndingSettled`: nothing leads to the end of the transaction before the TU was told the outcome. `KeepsContract`: it implements `RequestContract`. `NeverStranded`: Calling and Completed have a running timer, or a queued command that ends them. `NoOrphanTimer`: no timer is started over one whose task is alive or whose command is queued. `StatesAdvance`, `WireDiscipline`: stale commands neither move the state back nor put an INVITE or ACK on the wire. `TypeOK` |
| `client_non_invite` | `KeepsContract`, `TryingEnds`; `RunnerExits`: a terminated transaction's runner leaves its loop and reports it |
| `server_invite_safety` | with two tasks of the TU and the 18x retransmitter in `send_response` at once. `RetransmitsAnswer`: in Completed `last_response` is one of theirs and not the 100 of Timer 100. `QuietAfterAck`: stale Timer G commands and INVITEs repeat nothing once the ACK is in; only a call under way still sends. `RefusalSettled`: the end of a call that was only refused is reported |
| `server_invite_live` | `CompletedEnds`, `SuccessEnds` |
| `server_non_invite` | `RetransmitsFinal`, `RepeatsOnlyFinal`, and `AnsweredEnds`, which holds with a full channel too: this logic never sends to itself |
| `uas_call` | `DialogAdvances`: accepting, rejecting, cancelling and hanging up race for one dialog and none brings it back. `ByeHonoured`: a repeated BYE is not told 481 while the storage is removed. `AckMeansAccepted`: the session hears of an ACK only when its call was accepted. `AckReaches`: it does hear of one that comes while the index has the INVITE, link or no link. `ByeSettles`: after a BYE was answered neither remover stops half-way because the other was first. `CancelSettles`: a CANCEL that found its INVITE leaves it with a final response, unless its own 200 or 487 is refused or the session gives up. All with any one response refused |
| `call_session` | `ByeAfterAck`, `CancelAfterProvisional`: a hangup at an illegal moment waits (a CANCEL the application builds does not: below). `HoldSettles`: a hold does not stay pending once it was answered. `EndReported`: the peer's ending of a call reaches the application whatever failed on the way. `AnsweringBounded`: an answer that is never acknowledged is given up |
| `registrar` | `OneBindingPerDevice`, `RefusalHarmless`, `ExpiredLeaves`, `EmptyEntryLeaves` |
| `uctp_peer` | `RoutesAgree`: no route goes without a report of the end, and an end is reported with its route kept only under an id the peer was given. `InboundIdentified`, `HandlesUnique`, `NoPendingLeak`, `SessionsAdvance`, `ShutdownReports` |

Each property has a mutant: a faulty variant of one definition
(`...Unguarded`, `...Unreported`, `...AtOnce`), under which TLC finds the property violated.

The modules state some more properties, which hold in the same runs when they are added to the
`.cfg`: `TypeOK` of every module; `OutcomeReported` (implied by `EndingSettled`);
`NeverStranded`, `NoOrphanTimer`, `StatesAdvance`, `WireDiscipline`, `CompletedEnds`
of the non-INVITE client; `NeverStranded` and `StatesAdvance` of the servers; `ByeToldOnce`;
`EndedIsLast` and `WaiterEnds`.

### The three violation runs

| Run | Statement | What the code does |
|---|---|---|
| `registrar_lost_binding` | "Thread-safe authoritative registration binding store." (`registrar/registry.rs:13`) | `register_binding` looks a user up and, on a miss, inserts a registration of its own later. Two phones that register an unknown user at once both miss, and the second insert deletes the binding granted to the first. The removals of an emptied entry (`registry.rs:197`, `registry.rs:314`) do the same to a binding granted in between |
| `call_session_cancel` | `SendOutboundCancel`: "Only legal after an INVITE provisional response." (`session/docs/state-machine-wiring.md:12`) | its only row (`session/state_tables/default.yaml:1697`) is for Initiating, before any provisional response, and has no guard; neither the builder (`session/src/api/send/cancel.rs:43`) nor the dialog manager (`dialog/manager/unified.rs:1645`) checks. In Ringing and EarlyMedia, where it would be legal, it sends nothing |
| `call_session_threads` | "preserve its commit — overwriting would race-clobber the response-driven transition (e.g. HoldPending → OnHold)" (`session/src/state_machine/executor.rs:756`) | the store is read at line 761 and written at line 780 with nothing held in between; on a runtime with two threads the answer's commit falls between them and is overwritten. The call stays in HoldPending, which no timeout watches. With one thread the same property passes (`call_session`), so the merge does what its comment says there |

### Other disagreements between the code and its documentation

Found with the same models; each formula is violated when it is added as the only property of the
configuration named.

| Statement | Formula and configuration | What the code does |
|---|---|---|
| Timer B is a "timeout awaiting final response" (`transaction/event.rs:150`) | `"TransactionTimeout" \in out' => told \cap {"SuccessResponse", "FailureResponse"} = {}` as a step property, `ClientInvite_safety.cfg` | a Timer B command queued before the state change of a final response is read after it was reported, and reports a timeout |
| "When it fires, the transaction terminates with an error" (`transaction/client/invite.rs:62`) | `CallingEnds` under `FairSpec`, `ClientInvite_safety.cfg` | with the channel full, the runner waits in a send to itself for room that only it can make |
| "Timers E & F continue" in Proceeding (`transaction/client/non_invite.rs:561`) | `state = "Proceeding" ~> state # "Proceeding"`, `ClientNonInvite.cfg` | every accepted transition aborts all timers and Proceeding starts none: a request that got a 1xx and no more stays there |
| "Absorbing retransmissions at the transaction level" (`transaction/event.rs:15`) | `"FailureResponse" \in told => "FailureResponse" \notin out'` as a step property, `ClientNonInvite.cfg` | a second copy queued before the state change is reported again |
| Completed "Retransmits final non-2xx response" (`transaction/server/invite.rs:106`) | `state = "Completed" => last = "failure"`, `ServerInvite_safety.cfg` | a response another task of the TU sends at the same time, or a repeated reliable 18x, replaces it in `last_response`, and Timer G repeats that |
| "Proactive retransmission must stop once the ACK arrives" (`transaction/manager/mod.rs:4113`) | `acked => cache # "unacked"`, `UasCall.cfg` | an ACK that arrives after the 200 is on the wire and before it is cached finds nothing to mark |
| CANCEL: 487 on the *pending* INVITE (`dialog/manager/protocol_handlers.rs:138`) | `Has(wire, "200") /\ Has(wire, "487") => FALSE`, `UasCall.cfg` | the worker sends 487 on an INVITE that was accepted while the CANCEL was being answered |
| the setup watchdog bounds cancellation (`session/src/api/unified.rs:276`) | `(rec.state = "Cancelling" /\ present) ~> ~(rec.state = "Cancelling" /\ present)`, `CallSession.cfg` | a CancelPending that a provisional response turns into Cancelling has a new `entered_state_at`, and the watchdog armed for the old one gives up |
| releases keep the store from leaking (`session/src/adapters/session_event_handler.rs:1111`) | `(rec.state = "Terminated" /\ present) ~> ~present`, `CallSession.cfg` | nothing releases a call the application rejected |
| a failed re-INVITE is not terminal (`session/src/adapters/session_event_handler.rs:2687`) | once our re-INVITE was refused, no end is published; `CallSession.cfg` | only HoldPending and Resuming are recognised: a re-INVITE of the builder, sent in Active, ends the call when it is refused |
| no stale 491 (`session/state_tables/default.yaml:980`) | with no re-INVITE of ours in flight no 491 is sent; `CallSession.cfg` | a response processed before the sender's last write leaves `pending_reinvite` set |
| the cap counts `Inviting`/`Active`/`Ending` Sessions (`uctp/rvoip-uctp/src/state/coordinator.rs:50`) | an invite is refused only while a Session is live; `UctpPeer.cfg` | ended Sessions stay in the map and count |
| a repeated invite is idempotent (`coordinator.rs:1102`) | at most one routed Connection per Session; `UctpPeer.cfg` | the event pump makes a second adapter Connection, and the first one's route is never removed |
| a wedged writer "triggers its shutdown choreography" (`coordinator.rs:42`) | `cancelled ~> stop # "no"`, `UctpPeer.cfg` | it only cancels the driver: Sessions are not ended |
| an unauthenticated invite "shouldn't happen" (`uctp/rvoip-quic/src/server.rs:350`) | `InboundIdentified` without `wire # "closed"`, `UctpPeer.cfg` | when the reply to the authentication cannot be sent, its event is not sent either, and the gate stays open for an invite already buffered |

Seen while modelling, without a formula: Timer B does not survive into the INVITE client's Proceeding
although a comment says so (`transaction/client/invite.rs:605`); Timer 100, past its check, sends 100
Trying after the TU's response, since nothing handles `CancelTimer100`; a CANCEL whose 200 or 487 is
refused leaves the INVITE ringing, and a BYE whose 200 is refused leaves a Terminated dialog in the tables and
the session untold, and its transaction absorbs every further BYE (`dialog/manager/core.rs:1983`,
`dialog/protocol/bye_handler.rs:225`); the setup timeout of a ringing call drops the INVITE without
a response (`session/state_tables/default.yaml:1292`); an ACK later than T4 after the end of the transaction is a
stray and is dropped; a BYE the application builds outside Active sends nothing and still ends the session
(`session/src/api/send/bye.rs:71`); a builder's re-INVITE the transport refuses leaves
`pending_reinvite` set; the state table has no rows for
`RejectCall`, `DialogCANCEL` or `DialogTimeout` in the called side's EarlyMedia, for `HangupCall` in
OnHold, HoldPending and Resuming, nor for failures other than 487 in Cancelling;
`session.end` for an Inviting Session reports the end and leaves its machine in Inviting; a peer
that ends a connection under a Connection id it was given has its end reported with the route kept, and reported
again when the Session ends (`uctp/rvoip-quic/src/server.rs:382`); a lost
peer's Sessions are not ended; on more than one thread the write-back at `executor.rs:802-819` can
put back a session that was released in between.

### Bounds

- `Capacity`: 2 in `client_invite_safety`, `server_invite_safety` and `server_non_invite`, so that
  the channel fills and every blocking send happens; the code's default is 32
  (`set_transaction_command_channel_capacity` changes it). Liveness of a logic that sends
  to itself holds only while the channel does not fill, so `server_invite_live` and `client_non_invite` have 6
  and 8 slots, more than they fill.
- `MaxArrivals`: 2 or 3 messages suffice for a retransmission of each class to be queued
  before and after the change it causes; the INVITE server's runs use 1. `client_non_invite`
  leaves out 2xx, which its logic treats like a failure.
- `TuTasks`: two in `server_invite_safety`, interchangeable, with `MaxResponses` 2: two finals at once, a
  provisional against a final. `server_invite_live` has one task and one response, since two are out of
  TLC's reach for liveness; StrandedTheorem and SuccessTheorem are for any number. The non-INVITE handler sends up
  to 3, two of them provisional. `MaxRepeats`: calls by the 18x retransmitter; 1 is enough for a race with the
  final response. `MaxEvents` bounds requests and those calls together.
- `MaxCancels` 1, `MaxAcks` 1, `MaxByes` 2, `MaxWaiting` 2, `MaxRefusals` 1: a CANCEL in every race, an ACK of the
  2xx and one of a refusal, a BYE and its copy, two events waiting for the worker at a delivery, and any one
  kind of response refused.
- `MCScripts`: setup and hangup from both sides, a CANCEL and a BYE of the builders, early media, a rejected call, hold and resume, our hold and our
  builder's re-INVITE each against one of the peer; each API call once. The transport refuses the 200.
- Registrar: two tasks, four contacts of which two share a flow, a limit of two (three in the violation
  run, so that no eviction is involved), both values of `remove_existing`.
- UCTP: two session ids with a cap of one, one connection, handles up to 3 with two streams per offer (the
  allocator runs out within an offer), an event channel of one slot, five envelopes, one waiter.

`CHECK_DEADLOCK FALSE` is used where the system may stop: a finished transaction, call or peer. The
registrar's runs check deadlock.

### Fairness

Weak fairness on tasks under way: the runner's loop, each timer task, the grace task, Timer 100, a
hand-over, a `send_response`, the dialog worker, the spawned removers, the session's tasks and watchdogs,
a begun registrar call, the ticker, the coordinator's driver, its pump and a started shutdown. tokio
polls every runnable task eventually and a sleep ends. Nothing is assumed of the peer, of the
application's or the TU's decisions, of the manager's stop request, or of anyone's calling
`shutdown` or `send_and_wait`. A send that waits for room is enabled only when there is room.

## 4. Refinement

`RequestContract` is what a client transaction promises its user. `ClientTransaction` instantiates it
with `reported` as the outcomes among `told`, `ended` as the state Terminated, `attended` as "the TU
listens and the manager holds the transaction"; `KeepsContract` says that every behaviour of the
detailed transaction is one of the contract. TLC checks it for both clients, TLAPS proves it for
the INVITE client.

## 5. Proofs

Every theorem is for all values of the constants under the named assumptions of the modules, which
ask for no more than types and for capacities and limits of at least one: `CapacityAssumption`,
`MaxArrivalsAssumption` and their like for bounds, `ScriptsAssumption` for the application's calls,
`UctpAssumption` (among others `MaxHandle` of at least 1, since the allocator starts at handle 1). Each
theorem has the same shape: an inductive invariant that implies the property, one lemma per
action or per kind of action. The invariants below were checked by TLC before they were proved.

### The transaction layer

`TransactionRunnerProofs` has what all kinds of transaction share: which commands a step of the loop, of
a timer task or of the manager can add to the channel or take from it, which of them leave a state, a
timer or a queued command alone, and that a command queued at most once stays so.

`ClientInviteProofs`:

- **TypeCorrect**: `Spec => []TypeOK`. TypeOK is inductive. It says more than types: the channel never
  exceeds its capacity, although each sender checks for room by itself, and every queued command names
  a state, timer or message the runner knows.
- **AdvanceTheorem**: `Spec => StatesAdvance`. An accepted `TransitionTo` passes `validate_transition`,
  and every entry of that table increases `Rank`.
- **EndingTheorem**: `Spec => []EndingSettled`, if no response is `unackable`. As soon as anything that
  leads to the end exists (a queued `TransitionTo(Completed)` or `TransitionTo(Terminated)`, a
  `Terminate`, a send of one in progress, a Timer D that is armed or running, a grace period), the TU has been told.
  Each action either adds no such thing, or is a handler that reports in the same step;
  `StopRequested` adds one but gives up `held`. The condition is needed: when no ACK can be built,
  `process_response` terminates without an event, and TLC finds a counterexample with that class.
- **OutcomeTheorem**: `Spec => []OutcomeReported`. It is not inductive, since Terminated is entered by a
  command that may have been queued long before; EndingSettled is its strengthening.
- **ContractTheorem**: `Spec => KeepsContract`. Entering Terminated reports nothing and is an `End`, allowed by
  EndingSettled; losing the TU or the manager is an `Abandon`; every other step only adds outcomes.
- **WireTheorem**: `Spec => WireDiscipline`. A handler that sends looks at the state it is called in.
- **OrphanTheorem**: `Spec => []NoOrphanTimer`. A timer is started where no task is alive and no command
  of it is queued. For B and D that follows from when they are started (`Fresh`: before the state that
  starts them, the timer was never used). Timer A starts itself again, and needs `OneTimerA`: its task
  and its command are never both there, nor two commands.
- **StrandedTheorem**: `Spec => []NeverStranded`. The invariant, `Lasting`, follows the timer through all the
  places where it may be: still to be armed, running, in its first or second send, queued; and says
  that the timer manager's entry is only given up in Terminated.

`ServerInviteProofs`. `send_response` runs beside the runner, in any tasks of the TU and in the 18x
retransmitter. `CallsOK` says what a call under way has in its hands; `Serving` that from the first response a
call has stored `last_response` is one of a caller, since Timer 100 finds it taken; `Refusals` that a command, a
state or a runner position of a refused call means that some call sent a refusal; `Settled`, the counterpart of
EndingSettled, that what ends a call to which no 2xx was sent has been told to the TU.

- **TypeCorrect**, **AdvanceTheorem** (`StatesAdvance`), as above.
- **RetransmitTheorem**: `Spec => []RetransmitsAnswer`. **QuietTheorem**: `Spec => QuietAfterAck`.
  **RefusalTheorem**: `Spec => []RefusalSettled`. For any set of TU tasks.
- **StrandedTheorem**: `Spec => []NeverStranded`, for Timers H and I, from a `Lasting` of its own: it
  follows H through arming, sleep, a blocked send and the channel, and I through its two sends, and says
  that no table of this transaction unregisters it from the timer manager.
- **SuccessTheorem**: `Spec => []SuccessUnderWay`. After the 2xx the transaction is Terminated, or the
  runner has ended, or `TransitionTo(Terminated)` is in the channel. It is inductive with the types: the
  table accepts that command in every other state, so the loop cannot pass over it.

`ServerNonInviteProofs`: **AdvanceTheorem**; **RetransmitTheorem** (`RetransmitsFinal`, from `Answers`: what
leads to Completed was queued by a call that stored its final response first); **RepeatsTheorem**
(`RepeatsOnlyFinal`); **StrandedTheorem** (`NeverStranded`, from a `Lasting` of its own).

### The inbound call

`UasCallProofs`: **AckTheorem** (`AckMeansAccepted`), **ByeTheorem** (`ByeHonoured`), **DialogTheorem**
(`DialogAdvances`), **ByeOnceTheorem** (`ByeToldOnce`), with any of the responses refused. The actors meet in the dialog, the event queue and the
wire, and the invariant says what each tells of the others. `Started`: the INVITE is handled once and
before everything else. `Responses`: an event or an order that waits tells which response was given, and
a response what became of the dialog. `Ending`: a dialog that is over tells who ended it, which table still
has it, and whether the tombstone speaks for it. What they say of a call the session has given up, or that a
CANCEL has cut off, is less: the release may then come at any moment.

Three more theorems say that nothing which has to happen has lost the actor that would do it.
**FoundTheorem** (`ConfirmedFound`): a confirmed dialog is in `dialog_lookup`, so that an ACK finds it
without the link to the transaction. **AnswerableTheorem** (`InviteAnswerable`): an INVITE without a final
response that the session has not given up has, whichever responses were refused, its transaction in Proceeding with nothing ordered of it; the strengthening `Unanswered` adds
that nobody has told the session of an end or begun to remove the dialog. **RemovalTheorem**
(`RemovalUnderWay`): a dialog whose BYE was answered 200 is out of every table or a task is removing it;
the strengthening `Removing` says that the remover which took the dialog out of `dialogs` still has the
look-up keys to do, so that the other may stop, and that a dialog ended by a BYE without a remover is one
whose 200 was refused: the BYE's transaction then stays and absorbs all others.

### The call session

`CallSessionProofs`, for any scripts and refusals of the transport. On any number of threads: **TypeTheorem** (`TypeOK`), **ByeTheorem**
(`ByeAfterAck`), **CancelTheorem** (`CancelAfterProvisional`). A task saves a copy it read long ago, so what may
not happen yet must be absent from the store, from every copy, from the rows under way and from
the wire: `Within(S, E, A)`, without the states of S, the events of E and the actions of A. One lemma,
`WithinStep`, shows that a step keeps the session within, if the state table does not lead out and the
worker takes no event of E. The theorems are its instances: nothing excluded; until the ACK the connected
states, `DialogACK` and BYE (called side); until a provisional response the ringing states, its events and
CANCEL (calling side); CANCEL alone (called side). The CANCEL is that of a hangup; the builder's is a
different action. That the table does not lead out is proved row
by row (`RowsAllowed`).

The other theorems share an invariant, `Common`: each task processes only events of its own (`Owners`); a
session the application knows of is in the store until its end was published (`Presence`); a calling
session does nothing before its call and is not connected before its 200 (`Setup`).

- **EndTheorem**: `Spec => []EndOnItsWay`, on any number of threads. Between the peer's BYE, CANCEL or
  refusal and `CallEnded` or its like, a release task has the end to publish or the worker is on the
  way to spawn one. It needs `Presence`: a lookup that found no session would drop the event.

### Registrar and UCTP

`RegistryProofs`: **DeviceTheorem** (`OneBindingPerDevice`), **LimitTheorem** (`TypeOK`, with the limit of
contacts), **RefusalTheorem** (`RefusalHarmless`). A task that missed the entry, or cloned it, inserts a
registration of its own later: the invariant speaks of those copies as well, and of bindings that expire in
them.

`UctpPeerProofs`: **TypeTheorem** (`TypeOK`, with the cap on Sessions and the channel's capacity),
**SessionTheorem** (`SessionsAdvance`), **PendingTheorem** (`NoPendingLeak`), **RoutesTheorem** (`RoutesAgree`),
**EndedTheorem** (`EndedIsLast`), **IdentityTheorem** (`InboundIdentified`), **HandlesTheorem**
(`HandlesUnique`), **EndsTheorem** (`EndsTold`), **ShutdownTheorem** (`ShutdownTells`). RoutesTheorem and
EndedTheorem let the peer name any Connection whose id it was given. The last four need an
invariant. `Identifying`: whatever an open gate let through stands behind
the authentication event, in the handler's list and in the channel. `Allotted`: the handles announced, and
those still to be sent, grow and stay below the allocator's next one. `EndsTold` is one itself: a Session
that has ended was announced, or its announcement is on the handler's list with nothing before it
that a broken wire could refuse. `Closing`: `shutdown` cancels the driver before it looks, so a Session
that is neither on its list nor announced can only be one the last envelope invited, which nobody will
accept.

### Only model-checked

- Liveness: TLAPS does not handle it under fairness. What is proved is what each of these properties
  rests on, an invariant saying that as long as the awaited thing has not happened, something that will
  bring it about is under way: StrandedTheorem of the INVITE server for `CompletedEnds`, SuccessTheorem for
  `SuccessEnds`, AnswerableTheorem, FoundTheorem and RemovalTheorem for `CancelSettles`, `AckReaches` and
  `ByeSettles`, EndTheorem for `EndReported`, EndsTheorem and ShutdownTheorem for `ShutdownReports`. That it does come is left to TLC.
- `HoldSettles` and `AnsweringBounded`, which speak of one thread: with more, `call_session_threads` shows the
  first violated, and nothing in the code guarantees one. They are checked for what the merge is meant to do.
- The non-INVITE client, `KeepsContract` included.

## 6. Plan

Done: the runner, the four transactions, the contract and its refinement, the inbound call, the call
session, the registrar, the UCTP peer; the theorems above. Next:

1. Proofs: the non-INVITE client, along the lines of the INVITE client.
2. An outbound call: the caller's dialog and forked 2xx.
3. Subscriptions: expiry against refresh.

## 7. Not modelled

- The caller's side of the dialog layer, re-INVITE, UPDATE, PRACK bookkeeping, REFER, session timers.
- The client side of the transaction manager's maps and its cleanup queue.
- Subscriptions and presence: planned.
- The transport is a send that succeeds or fails. Parsing and message building are pure text
  processing over unbounded input. The proxy is a small forwarding core with stateless helpers.
- Media is packet formats, cryptography and signal processing.
- The conversation core, WebRTC and identity: mostly maps keyed by id, adapters over external stacks,
  token and credential validation.
- In UCTP: resumption, subscriptions, messages, the WebSocket and WebTransport substrates, datagrams.
