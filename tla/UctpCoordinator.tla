---------------------------- MODULE UctpCoordinator ----------------------------
(***************************************************************************)
(* One peer's UctpCoordinator (rvoip-uctp/src/state): the driver task that *)
(* dispatches the peer's envelopes, the Session and Connection machines it *)
(* moves, the correlated-response waiters of adapter code, and shutdown(), *)
(* which runs in a task of its own beside the driver.                      *)
(*                                                                         *)
(* The driver takes an envelope, changes the machines, and then sends what *)
(* the handler has to send, one await at a time: envelopes for the peer,   *)
(* which a wedged or closed substrate refuses, and events for the adapter. *)
(* A refused envelope ends the handler.  Handlers that move no machine     *)
(* (hello, update, DTMF, quality, subscriptions, step-up) are left out, as *)
(* are the opt-in version, replay and signature gates.                     *)
(***************************************************************************)
EXTENDS Naturals, Sequences, FiniteSets

CONSTANTS Sids, Connids, Waiters,
          MaxSessions,   \* max_sessions_per_peer
          MaxHandle,     \* u16::MAX, the last stream_local_id
          OfferSizes,    \* how many streams an acceptable offer may hold
          EventCap,      \* the capacity of the event channel
          MaxEnvelopes   \* bound: envelopes the peer sends

ASSUME UctpAssumption ==
  /\ MaxSessions \in Nat /\ MaxHandle \in Nat \ {0} /\ MaxEnvelopes \in Nat
  /\ EventCap \in Nat \ {0}
  /\ OfferSizes \subseteq Nat

VARIABLES authed,     \* peer_auth is Authenticated
          session,    \* the Session machines
          conn,       \* the Connection machines
          hand,       \* the envelope the driver has taken
          todo,       \* what the running handler has still to send
          running,    \* the driver loop has not exited
          events,     \* the event channel to the adapter
          wire,       \* the substrate under out_tx
          cancelled,  \* the cancellation token
          stop,       \* where shutdown() stands
          ending,     \* the Sessions it has still to end
          pending,    \* the waiters registered in Pending
          waiter,     \* each adapter call of send_and_wait
          taken,      \* how many envelopes were taken
          opened,     \* history: the handles announced on each Connection
          reported    \* history: the Sessions whose end was announced

machines == <<authed, session, conn>>
stopping == <<cancelled, stop, ending>>
waiting  == <<pending, waiter>>
coordVars == <<machines, hand, todo, running, events, wire, stopping, waiting,
               taken, opened, reported>>

None    == "none"
NoEnv   == [type |-> None]
Live    == {"Inviting", "Active", "Ending"}
NoConn  == [state |-> None, offered |-> 0, announced |-> FALSE, next |-> 1]

Envelope ==
       [type : {"auth"}, valid : BOOLEAN]
  \cup [type : {"invite", "accept", "cancel", "end"}, sid : Sids]
  \cup [type : {"ready", "connection.end"}, sid : Sids, connid : Connids]
  \cup [type : {"offer"}, connid : Connids, size : OfferSizes \cup {0}]
  \cup [type : {"answer", "end-connection"}, connid : Connids]
  \cup [type : {"reply"}, to : Waiters]

Out          == [send |-> "out"]
Opened(c, h) == [send |-> "out", connid |-> c, handle |-> h]
Event(e)     == [send |-> "event", event |-> e]
About(k, s)  == Event([kind |-> k, sid |-> s])

CoordInit ==
  /\ authed = FALSE
  /\ session = [s \in Sids |-> None]
  /\ conn = [c \in Connids |-> NoConn]
  /\ hand = NoEnv /\ todo = <<>> /\ running = TRUE /\ events = <<>>
  /\ wire = "open" /\ cancelled = FALSE /\ stop = "no" /\ ending = {}
  /\ pending = {} /\ waiter = [w \in Waiters |-> "idle"]
  /\ taken = 0 /\ opened = [c \in Connids |-> <<>>] /\ reported = {}

-----------------------------------------------------------------------------
(* The machines' transition tables; an input that does not fit is refused  *)
(* and leaves the state alone.                                             *)

SessionApply(st, input) ==
  CASE st = "Inviting" /\ input \in {"Accept", "ConnectionReady"} -> "Active"
    [] st = "Inviting" /\ input = "Cancel"                        -> "Ended"
    [] st = "Active"   /\ input = "End"                           -> "Ending"
    [] st = "Ending"   /\ input = "LastConnectionEnded"           -> "Ended"
    [] OTHER -> st

SessionFits(st, input) ==
  \/ st = "Inviting" /\ input \in {"Accept", "ConnectionReady", "Cancel"}
  \/ st = "Active" /\ input \in {"End", "ConnectionReady"}
  \/ st = "Ending" /\ input \in {"End", "LastConnectionEnded"}

ConnApply(st, input) ==
  CASE st = "Negotiating" /\ input \in {"Answer", "Ready"} -> "Connected"
    [] st \in {"Negotiating", "Connected"} /\ input = "End" -> "Ending"
    [] st = "Ending" /\ input = "End"                       -> "Ended"
    [] OTHER -> st

-----------------------------------------------------------------------------
(* The driver.                                                             *)

Idle == hand = NoEnv /\ todo = <<>>

\* The driver reads from a channel, which may hold envelopes the peer sent
\* before the transport was lost.
Receive(e) ==
  /\ running /\ Idle /\ ~cancelled /\ taken < MaxEnvelopes
  /\ e.type = "reply" => waiter[e.to] \in {"waiting", "expired", "returned"}
  /\ hand' = e /\ taken' = taken + 1
  /\ UNCHANGED <<machines, todo, running, events, wire, stopping, waiting,
                 opened, reported>>

DriverExits ==
  /\ running /\ Idle /\ cancelled
  /\ running' = FALSE
  /\ UNCHANGED <<machines, hand, todo, events, wire, stopping, waiting, taken,
                 opened, reported>>

\* A handler that changed the machines and has msgs to send.
Handled(msgs) ==
  /\ hand' = NoEnv /\ todo' = msgs
  /\ UNCHANGED <<running, events, wire, stopping, taken, opened, reported>>

HandleUnauthenticated ==
  /\ hand.type \notin {None, "auth", "reply"} /\ ~authed
  /\ Handled(<<Out>>) /\ UNCHANGED <<machines, waiting>>

\* Faulty variant: the adapter is not told that the peer authenticated.
HandleAuthResponseQuietly ==
  /\ hand.type = "auth"
  /\ IF hand.valid THEN authed' = TRUE /\ Handled(<<Out>>)
                   ELSE UNCHANGED authed /\ Handled(<<Out>>)
  /\ UNCHANGED <<session, conn, waiting>>

\* auth.response and auth.refresh: a refused one leaves the peer as it was.
HandleAuthResponse ==
  /\ hand.type = "auth"
  /\ IF hand.valid
     THEN authed' = TRUE /\ Handled(<<Out, Event([kind |-> "auth"])>>)
     ELSE UNCHANGED authed /\ Handled(<<Out>>)
  /\ UNCHANGED <<session, conn, waiting>>

\* The correlator gate: a reply goes to its waiter; one that nobody waits
\* for is dispatched like any other envelope, and moves no machine.
HandleReply ==
  /\ hand.type = "reply"
  /\ LET w == hand.to IN
       IF w \in pending
       THEN /\ pending' = pending \ {w}
            /\ waiter' = IF waiter[w] = "waiting"
                         THEN [waiter EXCEPT ![w] = "returned"] ELSE waiter
            /\ Handled(<<>>)
       ELSE UNCHANGED waiting /\ Handled(<<Out>>)
  /\ UNCHANGED machines

Over == Cardinality({s \in Sids : session[s] # None}) >= MaxSessions

\* Faulty variant: a repeated invite starts the Session anew.
HandleInviteAnew ==
  /\ hand.type = "invite" /\ authed
  /\ LET s == hand.sid IN
       IF session[s] = None /\ Over
       THEN UNCHANGED session /\ Handled(<<Out>>)
       ELSE /\ session' = [session EXCEPT ![s] = "Inviting"]
            /\ Handled(<<About("invite", s)>>)
  /\ UNCHANGED <<authed, conn, waiting>>

\* The cap counts the entries of `sessions', which nothing ever removes.
HandleInvite ==
  /\ hand.type = "invite" /\ authed
  /\ LET s == hand.sid IN
       IF session[s] = None /\ Over
       THEN UNCHANGED session /\ Handled(<<Out>>)
       ELSE /\ session' = [session EXCEPT ![s] = IF @ = None THEN "Inviting" ELSE @]
            /\ Handled(<<About("invite", s)>>)
  /\ UNCHANGED <<authed, conn, waiting>>

\* session.accept and session.cancel: 404 for an unknown Session, and an
\* event only if the input fits the machine.
HandleInput(type, input, event) ==
  /\ hand.type = type /\ authed
  /\ LET s == hand.sid IN
       /\ session' = [session EXCEPT ![s] = SessionApply(@, input)]
       /\ Handled(IF session[s] = None THEN <<Out>>
                  ELSE IF SessionFits(session[s], input)
                  THEN <<About(event, s)>> ELSE <<>>)
  /\ UNCHANGED <<authed, conn, waiting>>

HandleAccept == HandleInput("accept", "Accept", "connected")
HandleCancel == HandleInput("cancel", "Cancel", "ended")

\* connection.offer: 488 without a common codec; otherwise the streams wait
\* for connection.ready on a machine that may be there already.
HandleOffer ==
  /\ hand.type = "offer" /\ authed
  /\ LET c == hand.connid IN
       IF hand.size = 0 THEN UNCHANGED conn /\ Handled(<<Out>>)
       ELSE /\ conn' = [conn EXCEPT
                 ![c].state = IF @ = None THEN "Negotiating" ELSE @,
                 ![c].offered = hand.size, ![c].announced = FALSE]
            /\ Handled(<<>>)
  /\ UNCHANGED <<authed, session, waiting>>

HandleAnswer ==
  /\ hand.type = "answer" /\ authed
  /\ LET c == hand.connid IN
       /\ conn' = [conn EXCEPT ![c].state = ConnApply(@, "Answer")]
       /\ Handled(IF conn[c].state = None THEN <<Out>> ELSE <<>>)
  /\ UNCHANGED <<authed, session, waiting>>

\* Faulty variant: the allocator wraps around to the first handle.
HandlesLeftWrapping(c) == MaxHandle

\* The allocator hands out 1, 2, ... MaxHandle; it then stands at 0, and
\* says so.
HandlesLeft(c) == IF conn[c].next = 0 THEN 0 ELSE MaxHandle + 1 - conn[c].next

After(c, n) == (conn[c].next + n) % (MaxHandle + 1)

\* connection.ready: the machines move, the waiting streams get their
\* handles, and they are announced.  When the handles run out the handler
\* fails, the streams drained and the Session not told.
HandleReady ==
  /\ hand.type = "ready" /\ authed
  /\ LET c == hand.connid
         s == hand.sid
         n == IF conn[c].announced THEN 0 ELSE conn[c].offered
         handles == [i \in 1..n |-> (conn[c].next + i - 1) % (MaxHandle + 1)]
         moved == [conn[c] EXCEPT !.state = ConnApply(@, "Ready"),
                                  !.offered = IF conn[c].announced THEN @ ELSE 0]
     IN  CASE conn[c].state = None ->
                UNCHANGED <<session, conn>> /\ Handled(<<Out>>)
           [] conn[c].state # None /\ n > HandlesLeft(c) ->
                /\ conn' = [conn EXCEPT ![c] = [moved EXCEPT !.next = 0]]
                /\ UNCHANGED session /\ Handled(<<>>)
           [] OTHER ->
                /\ conn' = [conn EXCEPT ![c] = [moved EXCEPT !.next = After(c, n),
                                                             !.announced = TRUE]]
                /\ session' = [session EXCEPT ![s] = SessionApply(@, "ConnectionReady")]
                /\ Handled([i \in 1..n |-> Opened(c, handles[i])]
                           \o <<Event([kind |-> "conn-connected", connid |-> c])>>)
  /\ UNCHANGED <<authed, waiting>>

\* session.end and connection.end are one handler: both machines are wound
\* down and the ends announced, whether or not the inputs fit.
HandleEnd ==
  /\ hand.type \in {"end", "connection.end"} /\ authed
  /\ LET s    == hand.sid
         both == hand.type = "connection.end"
         c    == IF both THEN hand.connid ELSE None
     IN  IF session[s] = None /\ (both => conn[c].state = None)
         THEN UNCHANGED <<session, conn>> /\ Handled(<<Out>>)
         ELSE /\ conn' = IF both THEN [conn EXCEPT ![c].state = ConnApply(@, "End")]
                                 ELSE conn
              /\ session' = [session EXCEPT ![s] =
                   SessionApply(SessionApply(@, "End"), "LastConnectionEnded")]
              /\ Handled((IF both THEN <<Event([kind |-> "conn-ended", connid |-> c])>>
                                  ELSE <<>>) \o <<About("ended", s)>>)
  /\ UNCHANGED <<authed, waiting>>

\* connection.end without a sid: only the Connection's machine is wound down,
\* and nobody is told.
HandleEndConnection ==
  /\ hand.type = "end-connection" /\ authed
  /\ LET c == hand.connid IN
       /\ conn' = [conn EXCEPT ![c].state = ConnApply(@, "End")]
       /\ Handled(IF conn[c].state = None THEN <<Out>> ELSE <<>>)
  /\ UNCHANGED <<authed, session, waiting>>

Handle == \/ HandleUnauthenticated \/ HandleAuthResponse \/ HandleReply
          \/ HandleInvite \/ HandleAccept \/ HandleCancel \/ HandleOffer
          \/ HandleAnswer \/ HandleReady \/ HandleEnd \/ HandleEndConnection

-----------------------------------------------------------------------------
(* What a handler sends.                                                   *)

Announce(e) ==
  /\ Len(events) < EventCap
  /\ events' = Append(events, e)
  /\ reported' = IF e.kind = "ended" THEN reported \cup {e.sid} ELSE reported

EmitEvent ==
  /\ todo # <<>> /\ Head(todo).send = "event"
  /\ Announce(Head(todo).event)
  /\ todo' = Tail(todo)
  /\ UNCHANGED <<machines, hand, running, wire, stopping, waiting, taken, opened>>

SendOut ==
  /\ todo # <<>> /\ Head(todo).send = "out" /\ wire = "open"
  /\ todo' = Tail(todo)
  /\ LET m == Head(todo) IN
       opened' = IF "handle" \in DOMAIN m
                 THEN [opened EXCEPT ![m.connid] = Append(@, m.handle)] ELSE opened
  /\ UNCHANGED <<machines, hand, running, events, wire, stopping, waiting, taken,
                 reported>>

\* A closed channel is an error, a wedged one cancels the coordinator after
\* signaling_send_timeout; either way the handler gives up.
SendFails ==
  /\ todo # <<>> /\ Head(todo).send = "out" /\ wire # "open"
  /\ todo' = <<>>
  /\ cancelled' = (cancelled \/ wire = "wedged")
  /\ UNCHANGED <<machines, hand, running, events, wire, stop, ending, waiting,
                 taken, opened, reported>>

\* The substrate: its writer wedges, or the transport is lost.
WireFails ==
  /\ wire = "open" /\ wire' \in {"wedged", "closed"}
  /\ UNCHANGED <<machines, hand, todo, running, events, stopping, waiting, taken,
                 opened, reported>>

-----------------------------------------------------------------------------
(* shutdown(), in a task of its own.                                       *)

Shutdown ==
  /\ stop = "no" /\ stop' = "snapshot" /\ cancelled' = TRUE
  /\ UNCHANGED <<machines, hand, todo, running, events, wire, ending, waiting,
                 taken, opened, reported>>

\* Faulty variant: a Session that is not yet accepted is overlooked.
SnapshotAccepted ==
  /\ stop = "snapshot" /\ stop' = "ending"
  /\ ending' = {s \in Sids : session[s] \in {"Active", "Ending"}}
  /\ UNCHANGED <<machines, hand, todo, running, events, wire, cancelled, waiting,
                 taken, opened, reported>>

Snapshot ==
  /\ stop = "snapshot" /\ stop' = "ending"
  /\ ending' = {s \in Sids : session[s] \in Live}
  /\ UNCHANGED <<machines, hand, todo, running, events, wire, cancelled, waiting,
                 taken, opened, reported>>

\* session.end to the peer, whatever becomes of it, and the event.
EndOne(s) ==
  /\ stop = "ending" /\ s \in ending
  /\ ending' = ending \ {s}
  /\ Announce([kind |-> "ended", sid |-> s])
  /\ UNCHANGED <<machines, hand, todo, running, wire, cancelled, stop, waiting,
                 taken, opened>>

\* Pending::close drops every sender.
ClosePending ==
  /\ stop = "ending" /\ ending = {} /\ stop' = "done"
  /\ pending' = {}
  /\ UNCHANGED <<machines, hand, todo, running, events, wire, cancelled, ending,
                 waiter, taken, opened, reported>>

-----------------------------------------------------------------------------
(* send_and_wait, called by the adapter for a correlated reply.            *)

Waits(w, from, to, left) ==
  /\ waiter[w] = from /\ waiter' = [waiter EXCEPT ![w] = to]
  /\ pending' = left
  /\ UNCHANGED <<machines, hand, todo, running, events, wire, stopping, taken,
                 opened, reported>>

Register(w)     == Waits(w, "idle", "registered", pending \cup {w})
SendRequest(w)  == wire = "open" /\ Waits(w, "registered", "waiting", pending)
RequestFails(w) == wire = "closed" /\ Waits(w, "registered", "returned", pending \ {w})

TimesOut(w) == Waits(w, "waiting", "expired", pending)

SenderDropped(w) == w \notin pending /\ Waits(w, "waiting", "expired", pending)

\* Faulty variant: a waiter that gave up leaves its registration behind.
GiveUpRegistered(w) == Waits(w, "expired", "returned", pending)

GiveUp(w) == Waits(w, "expired", "returned", pending \ {w})

WaiterStep(w) == \/ SendRequest(w) \/ RequestFails(w)
                 \/ TimesOut(w) \/ SenderDropped(w) \/ GiveUp(w)

-----------------------------------------------------------------------------
DriverStep   == DriverExits \/ Handle \/ EmitEvent \/ SendOut \/ SendFails
ShutdownStep == Snapshot \/ (\E s \in Sids : EndOne(s)) \/ ClosePending

\* Everything but a new call of send_and_wait.
CoordNext == \/ \E e \in Envelope : Receive(e)
             \/ DriverStep \/ WireFails \/ Shutdown \/ ShutdownStep
             \/ \E w \in Waiters : WaiterStep(w)
=============================================================================
