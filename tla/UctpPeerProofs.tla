---------------------------- MODULE UctpPeerProofs ----------------------------
(***************************************************************************)
(* Theorems about a UCTP peer and the event pump of its adapter, for any   *)
(* number of Sessions, Connections, waiters and envelopes: Sessions only   *)
(* move on and stay within their cap, stream handles are unique, replies   *)
(* leave no registration behind, the adapter's maps agree, a Connection is *)
(* reported with the identity that authenticated it and not after its end, *)
(* and the end of a Session is announced, by a handler or by shutdown().   *)
(***************************************************************************)
EXTENDS UctpPeer, FiniteSetTheorems, SequenceTheorems, TLAPS

SessionState == Live \cup {None, "Ended"}

ConnMachine == [state : {None, "Negotiating", "Connected", "Ending", "Ended"},
                offered : OfferSizes \cup {0}, announced : BOOLEAN,
                next : 0..MaxHandle]

Announcement ==
       {[kind |-> "auth"]}
  \cup [kind : {"invite", "connected", "ended"}, sid : Sids]
  \cup [kind : {"conn-connected", "conn-ended"}, connid : Connids]

Message ==      {Out}
           \cup [send : {"out"}, connid : Connids, handle : 0..MaxHandle]
           \cup [send : {"event"}, event : Announcement]

IsHandle(m) == "handle" \in DOMAIN m
Inviting(m) == m.send = "event" /\ m.event.kind = "invite"

\* TypeOK without the cap on Sessions, and with what the handler, the event
\* channel and the histories hold.
Types ==
  /\ authed \in BOOLEAN /\ running \in BOOLEAN /\ cancelled \in BOOLEAN
  /\ session \in [Sids -> SessionState]
  /\ conn \in [Connids -> ConnMachine]
  /\ hand \in Envelope \cup {NoEnv} /\ (hand # NoEnv => todo = <<>>)
  /\ todo \in Seq(Message)
  /\ events \in Seq(Announcement) /\ Len(events) <= EventCap
  /\ wire \in {"open", "wedged", "closed"}
  /\ stop \in {"no", "snapshot", "ending", "done"} /\ ending \subseteq Sids
  /\ pending \subseteq Waiters
  /\ waiter \in [Waiters -> {"idle", "registered", "waiting", "expired", "returned"}]
  /\ opened \in [Connids -> Seq(0..MaxHandle)] /\ reported \subseteq Sids
  /\ identity \in BOOLEAN /\ conns \in Seq(Connection)
  /\ bySid \in [Sids -> 0..Len(conns)]

-----------------------------------------------------------------------------
(* Envelopes and messages.                                                 *)

\* What an envelope carries.
LEMMA EnvelopeFields ==
  ASSUME NEW e \in Envelope
  PROVE  /\ e.type # None
         /\ e.type \in {"invite", "accept", "cancel", "end", "ready", "connection.end"}
              => e.sid \in Sids
         /\ e.type \in {"ready", "connection.end", "offer", "answer", "end-connection"} => e.connid \in Connids
         /\ e.type = "offer" => e.size \in OfferSizes \cup {0}
         /\ e.type = "reply" => e.to \in Waiters
BY DEF Envelope, None

\* What a handler may have to send.
LEMMA Messages ==
  /\ Out \in Message /\ ~IsHandle(Out) /\ ~Inviting(Out)
  /\ \A s \in Sids, k \in {"invite", "connected", "ended"} :
       /\ About(k, s) \in Message /\ ~IsHandle(About(k, s))
       /\ Inviting(About(k, s)) => k = "invite"
  /\ Event([kind |-> "auth"]) \in Message
  /\ ~IsHandle(Event([kind |-> "auth"])) /\ ~Inviting(Event([kind |-> "auth"]))
  /\ \A c \in Connids, k \in {"conn-connected", "conn-ended"} :
       /\ Event([kind |-> k, connid |-> c]) \in Message
       /\ ~IsHandle(Event([kind |-> k, connid |-> c]))
       /\ ~Inviting(Event([kind |-> k, connid |-> c]))
  /\ \A c \in Connids, h \in 0..MaxHandle :
       /\ Opened(c, h) \in Message /\ IsHandle(Opened(c, h)) /\ ~Inviting(Opened(c, h))
       /\ Opened(c, h).connid = c /\ Opened(c, h).handle = h
<1>1. Out \in Message /\ ~IsHandle(Out) /\ ~Inviting(Out)
  BY DEF Out, Message, IsHandle, Inviting
<1>2. ASSUME NEW s \in Sids, NEW k \in {"invite", "connected", "ended"}
      PROVE  /\ About(k, s) \in Message /\ ~IsHandle(About(k, s))
             /\ Inviting(About(k, s)) => k = "invite"
  BY DEF About, Event, Message, Announcement, IsHandle, Inviting
<1>3. /\ Event([kind |-> "auth"]) \in Message
      /\ ~IsHandle(Event([kind |-> "auth"])) /\ ~Inviting(Event([kind |-> "auth"]))
  BY DEF Event, Message, Announcement, IsHandle, Inviting
<1>4. ASSUME NEW c \in Connids, NEW k \in {"conn-connected", "conn-ended"}
      PROVE  /\ Event([kind |-> k, connid |-> c]) \in Message
             /\ ~IsHandle(Event([kind |-> k, connid |-> c]))
             /\ ~Inviting(Event([kind |-> k, connid |-> c]))
  BY DEF Event, Message, Announcement, IsHandle, Inviting
<1>5. ASSUME NEW c \in Connids, NEW h \in 0..MaxHandle
      PROVE  /\ Opened(c, h) \in Message /\ IsHandle(Opened(c, h)) /\ ~Inviting(Opened(c, h))
             /\ Opened(c, h).connid = c /\ Opened(c, h).handle = h
  BY DEF Opened, Message, IsHandle, Inviting
<1> QED
  BY <1>1, <1>2, <1>3, <1>4, <1>5

\* The messages of a handler that announces no stream and invites nobody.
Quiet(q) == q \in Seq(Message) /\ \A i \in DOMAIN q : ~IsHandle(q[i]) /\ ~Inviting(q[i])

\* The lists that handlers leave to be sent.
LEMMA ShortLists ==
  ASSUME NEW m \in Message, ~IsHandle(m), NEW n \in Message, ~IsHandle(n)
  PROVE  /\ Quiet(<<>>)
         /\ <<m>> \in Seq(Message) /\ \A i \in DOMAIN <<m>> : ~IsHandle(<<m>>[i])
         /\ ~Inviting(m) => Quiet(<<m>>)
         /\ ~Inviting(m) /\ ~Inviting(n) => Quiet(<<m, n>>)
<1>1. Quiet(<<>>)
  BY DEF Quiet
<1>2. <<m>> \in Seq(Message) /\ \A i \in DOMAIN <<m>> : i = 1 /\ <<m>>[i] = m
  OBVIOUS
<1>3. <<m, n>> \in Seq(Message) /\ \A i \in DOMAIN <<m, n>> : <<m, n>>[i] = m \/ <<m, n>>[i] = n
  OBVIOUS
<1> QED
  BY <1>1, <1>2, <1>3 DEF Quiet

\* What is sent without naming a stream's handle or a new Session.
LEMMA QuietLists ==
  /\ Quiet(<<>>) /\ Quiet(<<Out>>) /\ Quiet(<<Out, Event([kind |-> "auth"])>>)
  /\ \A s \in Sids, k \in {"connected", "ended"} : Quiet(<<About(k, s)>>)
  /\ \A c \in Connids, k \in {"conn-connected", "conn-ended"} :
       Quiet(<<Event([kind |-> k, connid |-> c])>>)
BY Messages, ShortLists

\* Two such lists, one after the other.
LEMMA QuietConcat ==
  ASSUME NEW p, Quiet(p), NEW q, Quiet(q)
  PROVE  Quiet(p \o q)
<1>1. p \in Seq(Message) /\ q \in Seq(Message)
  BY DEF Quiet
<1>2. /\ p \o q \in Seq(Message) /\ DOMAIN (p \o q) = 1..(Len(p) + Len(q))
      /\ Len(p) \in Nat /\ Len(q) \in Nat /\ DOMAIN p = 1..Len(p) /\ DOMAIN q = 1..Len(q)
      /\ \A i \in 1..(Len(p) + Len(q)) :
           (p \o q)[i] = IF i <= Len(p) THEN p[i] ELSE q[i - Len(p)]
  BY <1>1, ConcatProperties
<1> QED
  BY <1>2 DEF Quiet

-----------------------------------------------------------------------------
(* The handlers.                                                           *)

Advances == \A s \in Sids : Rank[session[s]] <= Rank[session'[s]]

\* A Session is added to `sessions' only below the cap, and one at a time.
Admits == /\ Over => \A s \in Sids : session[s] = None => session'[s] = None
          /\ \A s, t \in Sids : /\ session[s] = None /\ session'[s] # None
                                /\ session[t] = None /\ session'[t] # None
                                => s = t

AuthToSend == \E i \in DOMAIN todo : todo[i] = Event([kind |-> "auth"])
InviteToSend == \E i \in DOMAIN todo : Inviting(todo[i])

\* What any handler does.
Effect ==
  /\ hand # NoEnv /\ hand' = NoEnv /\ todo' \in Seq(Message)
  /\ authed' \in BOOLEAN /\ (authed => authed') /\ (authed' => authed \/ AuthToSend')
  /\ InviteToSend' => authed
  /\ session' \in [Sids -> SessionState] /\ Advances /\ Admits
  /\ conn' \in [Connids -> ConnMachine]
  /\ pending' \subseteq pending
  /\ waiter' \in [Waiters -> {"idle", "registered", "waiting", "expired", "returned"}]
  /\ \A w \in pending' : waiter'[w] = waiter[w]
  /\ UNCHANGED <<running, events, wire, stopping, taken, opened, reported>>

\* Handles are announced by one handler only.
NoHandles == /\ \A i \in DOMAIN todo' : ~IsHandle(todo'[i])
             /\ \A c \in Connids : conn'[c].next = conn[c].next

\* The Session machine stays in its states and never moves back.
LEMMA SessionMoves ==
  ASSUME NEW st \in SessionState, NEW input
  PROVE  /\ SessionApply(st, input) \in SessionState
         /\ Rank[st] <= Rank[SessionApply(st, input)]
         /\ st = None => SessionApply(st, input) = None
BY DEF SessionState, SessionApply, Live, None, Rank

\* The Connection machine stays in its states.
LEMMA ConnMoves ==
  ASSUME NEW m \in ConnMachine, NEW input
  PROVE  ConnApply(m.state, input) \in {None, "Negotiating", "Connected", "Ending", "Ended"}
BY DEF ConnMachine, ConnApply, None

\* The gate refuses what an unauthenticated peer sends.
LEMMA UnauthenticatedEffect ==
  ASSUME Types, HandleUnauthenticated
  PROVE  Effect /\ NoHandles
<1>1. todo' = <<Out>> /\ hand # NoEnv
  BY DEF HandleUnauthenticated, Handled, NoEnv
<1>2. Advances /\ Admits
  BY DEF HandleUnauthenticated, machines, Advances, Admits, Types, SessionState, Live, None, Rank
<1>3. Quiet(todo')
  BY <1>1, QuietLists
<1> QED
  BY <1>1, <1>2, <1>3 DEF HandleUnauthenticated, Handled, machines, waiting, Effect, NoHandles, Types, Quiet, InviteToSend

\* auth.response opens the gate and leaves the event to be sent.
LEMMA AuthEffect ==
  ASSUME Types, HandleAuthResponse
  PROVE  Effect /\ NoHandles
<1>1. todo' \in {<<Out>>, <<Out, Event([kind |-> "auth"])>>} /\ hand # NoEnv
  BY DEF HandleAuthResponse, Handled, NoEnv, None
<1>2. Advances /\ Admits
  BY DEF HandleAuthResponse, Advances, Admits, Types, SessionState, Live, None, Rank
<1>3. Quiet(todo')
  BY <1>1, QuietLists
<1>4. authed' \in BOOLEAN /\ (authed => authed') /\ (authed' => authed \/ AuthToSend')
  <2>1. CASE hand.valid
    <3>1. authed' = TRUE /\ todo' = <<Out, Event([kind |-> "auth"])>>
      BY <2>1 DEF HandleAuthResponse, Handled
    <3>2. 2 \in DOMAIN todo' /\ todo'[2] = Event([kind |-> "auth"])
      BY <3>1
    <3> QED
      BY <3>1, <3>2 DEF AuthToSend
  <2>2. CASE ~hand.valid
    BY <2>2 DEF HandleAuthResponse, Types
  <2> QED
    BY <2>1, <2>2
<1> QED
  BY <1>1, <1>2, <1>3, <1>4 DEF HandleAuthResponse, Handled, waiting, Effect, NoHandles, Types, Quiet, InviteToSend

\* A correlated reply takes its waiter's registration with it.
LEMMA ReplyEffect ==
  ASSUME Types, HandleReply
  PROVE  Effect /\ NoHandles
<1>1. (todo' = <<>> \/ todo' = <<Out>>) /\ hand # NoEnv
  BY DEF HandleReply, Handled, NoEnv, None
<1>2. Advances /\ Admits
  BY DEF HandleReply, machines, Advances, Admits, Types, SessionState, Live, None, Rank
<1>3. Quiet(todo')
  BY <1>1, QuietLists
<1>4. /\ pending' \subseteq pending
      /\ waiter' \in [Waiters -> {"idle", "registered", "waiting", "expired", "returned"}]
      /\ \A w \in pending' : waiter'[w] = waiter[w]
  BY DEF HandleReply, waiting, Types
<1> QED
  BY <1>1, <1>2, <1>3, <1>4 DEF HandleReply, Handled, machines, Effect, NoHandles, Types, Quiet, InviteToSend

\* session.invite.
LEMMA InviteEffect ==
  ASSUME Types, HandleInvite
  PROVE  Effect /\ NoHandles
<1>1. hand # NoEnv /\ hand.sid \in Sids
  BY EnvelopeFields DEF HandleInvite, Types, NoEnv, None
<1>2. (todo' = <<Out>> \/ todo' = <<About("invite", hand.sid)>>) /\ authed
  BY DEF HandleInvite, Handled
<1>3. session' \in [Sids -> SessionState] /\ Advances /\ Admits
  <2>1. \/ session' = session
        \/ /\ ~Over /\ session[hand.sid] = None
           /\ session' = [session EXCEPT ![hand.sid] = "Inviting"]
    BY <1>1 DEF HandleInvite, Types
  <2>2. \A s \in Sids : session[s] \in SessionState /\ Rank[session[s]] <= Rank[session[s]]
    BY DEF Types, SessionState, Live, None, Rank
  <2>3. Rank[None] <= Rank["Inviting"] /\ "Inviting" \in SessionState
    BY DEF None, Rank, SessionState, Live
  <2>4. session' \in [Sids -> SessionState] /\ Advances
    BY <1>1, <2>1, <2>2, <2>3 DEF Advances, Types
  <2>5. Admits
    BY <1>1, <2>1 DEF Admits, Types
  <2> QED
    BY <2>4, <2>5
<1>4. todo' \in Seq(Message) /\ \A i \in DOMAIN todo' : ~IsHandle(todo'[i])
  BY <1>1, <1>2, Messages, ShortLists
<1> QED
  BY <1>1, <1>2, <1>3, <1>4 DEF HandleInvite, Handled, waiting, Effect, NoHandles, Types, Quiet, InviteToSend

\* session.accept and session.cancel.
LEMMA InputEffect ==
  ASSUME Types, HandleAccept \/ HandleCancel
  PROVE  Effect /\ NoHandles
<1>1. PICK type \in {"accept", "cancel"}, input \in {"Accept", "Cancel"},
           event \in {"connected", "ended"} : HandleInput(type, input, event)
  BY DEF HandleAccept, HandleCancel
<1>2. hand # NoEnv /\ hand.sid \in Sids /\ authed
  BY <1>1, EnvelopeFields DEF HandleInput, Types, NoEnv, None
<1>3. todo' = <<>> \/ todo' = <<Out>> \/ todo' = <<About(event, hand.sid)>>
  BY <1>1 DEF HandleInput, Handled
<1>4. session' = [session EXCEPT ![hand.sid] = SessionApply(@, input)]
  BY <1>1 DEF HandleInput
<1>5. session' \in [Sids -> SessionState] /\ Advances /\ Admits
  <2>1. \A s \in Sids : Rank[session[s]] <= Rank[session[s]]
    BY DEF Types, SessionState, Live, None, Rank
  <2> QED
    BY <1>2, <1>4, <2>1, SessionMoves DEF Advances, Admits, Types
<1>6. Quiet(todo')
  BY <1>2, <1>3, QuietLists
<1> QED
  BY <1>1, <1>2, <1>5, <1>6 DEF HandleInput, Handled, waiting, Effect, NoHandles, Types, Quiet, InviteToSend

\* connection.offer, connection.answer and a connection.end without a sid move
\* the Connection machine only.
LEMMA OfferAnswerEffect ==
  ASSUME Types, HandleOffer \/ HandleAnswer \/ HandleEndConnection
  PROVE  Effect /\ NoHandles
<1>1. hand # NoEnv /\ hand.connid \in Connids /\ authed
  BY EnvelopeFields DEF HandleOffer, HandleAnswer, HandleEndConnection, Types, NoEnv, None
<1>2. todo' = <<>> \/ todo' = <<Out>>
  BY DEF HandleOffer, HandleAnswer, HandleEndConnection, Handled
<1>3. Advances /\ Admits
  BY DEF HandleOffer, HandleAnswer, HandleEndConnection, Advances, Admits, Types, SessionState, Live, None, Rank
<1>4. conn' \in [Connids -> ConnMachine] /\ \A c \in Connids : conn'[c].next = conn[c].next
  <2>1. CASE HandleOffer
    <3>1. hand.size \in OfferSizes \cup {0}
      BY <2>1, EnvelopeFields DEF HandleOffer, Types, NoEnv, None
    <3>2. CASE hand.size = 0
      BY <2>1, <3>2 DEF HandleOffer, Types
    <3>3. CASE hand.size # 0
      <4>1. conn' = [conn EXCEPT
                 ![hand.connid].state = IF @ = None THEN "Negotiating" ELSE @,
                 ![hand.connid].offered = hand.size, ![hand.connid].announced = FALSE]
        BY <2>1, <3>3 DEF HandleOffer
      <4> DEFINE m  == conn[hand.connid]
                 m2 == [state |-> IF m.state = None THEN "Negotiating" ELSE m.state,
                        offered |-> hand.size, announced |-> FALSE, next |-> m.next]
      <4>2. m \in ConnMachine /\ m2 \in ConnMachine /\ m2.next = m.next
        BY <1>1, <3>1 DEF Types, ConnMachine
      <4>3. conn'[hand.connid] = m2
        BY <1>1, <4>1, <4>2 DEF Types, ConnMachine
      <4>4. /\ conn' = [c \in Connids |-> conn'[c]]
            /\ \A c \in Connids : c # hand.connid => conn'[c] = conn[c]
        BY <1>1, <4>1 DEF Types
      <4> HIDE DEF m2
      <4> QED
        BY <1>1, <4>2, <4>3, <4>4 DEF Types
    <3> QED
      BY <3>2, <3>3
  <2>2. CASE HandleAnswer
    <3>1. ConnApply(conn[hand.connid].state, "Answer") \in
            {None, "Negotiating", "Connected", "Ending", "Ended"}
      BY <1>1, ConnMoves DEF Types
    <3> QED
      BY <1>1, <2>2, <3>1 DEF HandleAnswer, Types, ConnMachine
  <2>3. CASE HandleEndConnection
    <3>1. ConnApply(conn[hand.connid].state, "End") \in
            {None, "Negotiating", "Connected", "Ending", "Ended"}
      BY <1>1, ConnMoves DEF Types
    <3> QED
      BY <1>1, <2>3, <3>1 DEF HandleEndConnection, Types, ConnMachine
  <2> QED
    BY <2>1, <2>2, <2>3
<1>5. Quiet(todo')
  BY <1>2, QuietLists
<1> QED
  BY <1>1, <1>3, <1>4, <1>5 DEF HandleOffer, HandleAnswer, HandleEndConnection, Handled, waiting, Effect, NoHandles, Types, Quiet, InviteToSend

\* session.end and connection.end.
LEMMA EndEffect ==
  ASSUME Types, HandleEnd
  PROVE  Effect /\ NoHandles
<1>1. hand # NoEnv /\ hand.sid \in Sids /\ authed
  BY EnvelopeFields DEF HandleEnd, Types, NoEnv, None
<1>2. \/ UNCHANGED <<session, conn>> /\ todo' = <<Out>>
      \/ /\ session' = [session EXCEPT ![hand.sid] =
                          SessionApply(SessionApply(@, "End"), "LastConnectionEnded")]
         /\ conn' = conn /\ todo' = <<>> \o <<About("ended", hand.sid)>>
      \/ /\ hand.type = "connection.end"
         /\ session' = [session EXCEPT ![hand.sid] =
                          SessionApply(SessionApply(@, "End"), "LastConnectionEnded")]
         /\ conn' = [conn EXCEPT ![hand.connid].state = ConnApply(@, "End")]
         /\ todo' = <<Event([kind |-> "conn-ended", connid |-> hand.connid])>>
                    \o <<About("ended", hand.sid)>>
  BY DEF HandleEnd, Handled
<1>3. hand.type = "connection.end" => hand.connid \in Connids
  BY <1>1, EnvelopeFields DEF Types
<1>4. session' \in [Sids -> SessionState] /\ Advances /\ Admits
  <2> DEFINE st2 == SessionApply(SessionApply(session[hand.sid], "End"), "LastConnectionEnded")
  <2>1. \A s \in Sids : session[s] \in SessionState /\ Rank[session[s]] <= Rank[session[s]]
    BY DEF Types, SessionState, Live, None, Rank
  <2>2. /\ st2 \in SessionState /\ Rank[session[hand.sid]] <= Rank[st2]
        /\ session[hand.sid] = None => st2 = None
    BY <1>1, <2>1 DEF SessionState, SessionApply, Live, None, Rank
  <2>3. session' = session \/ session' = [session EXCEPT ![hand.sid] = st2]
    BY <1>2
  <2> HIDE DEF st2
  <2> QED
    BY <1>1, <2>1, <2>2, <2>3 DEF Advances, Admits, Types
<1>5. conn' \in [Connids -> ConnMachine] /\ \A c \in Connids : conn'[c].next = conn[c].next
  <2>1. CASE conn' = conn
    BY <2>1 DEF Types
  <2>2. CASE /\ hand.type = "connection.end"
             /\ conn' = [conn EXCEPT ![hand.connid].state = ConnApply(@, "End")]
    <3>1. ConnApply(conn[hand.connid].state, "End") \in
            {None, "Negotiating", "Connected", "Ending", "Ended"}
      BY <1>3, <2>2, ConnMoves DEF Types
    <3> QED
      BY <1>3, <2>2, <3>1 DEF Types, ConnMachine
  <2> QED
    BY <1>2, <2>1, <2>2
<1>6. Quiet(todo')
  <2>1. Quiet(<<>> \o <<About("ended", hand.sid)>>)
    BY <1>1, QuietLists, QuietConcat
  <2>2. hand.type = "connection.end" =>
          Quiet(<<Event([kind |-> "conn-ended", connid |-> hand.connid])>>
                \o <<About("ended", hand.sid)>>)
    BY <1>1, <1>3, QuietLists, QuietConcat
  <2> QED
    BY <1>2, <2>1, <2>2, QuietLists
<1> QED
  BY <1>1, <1>4, <1>5, <1>6 DEF HandleEnd, Handled, waiting, Effect, NoHandles, Types, Quiet, InviteToSend

\* What may become of the allocators, and the handles that are announced: a
\* Connection's handles are taken upwards until there is none left.
Allocates ==
  /\ \A c \in Connids : conn'[c].next = 0 \/ (0 < conn[c].next /\ conn[c].next <= conn'[c].next)
  /\ \A i \in DOMAIN todo' : IsHandle(todo'[i]) =>
       LET c == todo'[i].connid
           h == todo'[i].handle
       IN  /\ c \in Connids /\ 0 < conn[c].next /\ conn[c].next <= h
           /\ conn'[c].next = 0 \/ h < conn'[c].next
  /\ \A i, j \in DOMAIN todo' :
       IsHandle(todo'[i]) /\ IsHandle(todo'[j]) /\ i < j => todo'[i].handle < todo'[j].handle

\* A handler that announces no stream leaves the allocators alone.
LEMMA NoHandlesAllocates ==
  ASSUME Types, NoHandles
  PROVE  Allocates
<1>1. \A c \in Connids : conn[c].next \in 0..MaxHandle /\ MaxHandle \in Nat
  BY UctpAssumption DEF Types, ConnMachine
<1> QED
  BY <1>1 DEF NoHandles, Allocates

\* The allocator's arithmetic, u16 with the wrapped value 0 as its end.
LEMMA WrapAround ==
  ASSUME NEW a \in Nat, NEW m \in Nat
  PROVE  /\ a <= m => a % (m + 1) = a
         /\ a = m + 1 => a % (m + 1) = 0
OBVIOUS

\* n handles are left: they follow each other, and the allocator stands
\* behind the last of them or has run out.
LEMMA Allotment ==
  ASSUME NEW next \in 0..MaxHandle, NEW n \in Nat,
         n <= IF next = 0 THEN 0 ELSE MaxHandle + 1 - next
  PROVE  /\ (next + n) % (MaxHandle + 1) \in 0..MaxHandle
         /\ \/ (next + n) % (MaxHandle + 1) = 0
            \/ 0 < next /\ (next + n) % (MaxHandle + 1) = next + n
         /\ \A i \in 1..n : /\ 0 < next /\ next + i - 1 \in 0..MaxHandle
                            /\ (next + i - 1) % (MaxHandle + 1) = next + i - 1
<1>1. MaxHandle \in Nat
  BY UctpAssumption
<1>2. next + n \in Nat /\ next + n <= MaxHandle + 1 /\ (next = 0 => n = 0)
  BY <1>1
<1>3. /\ next + n <= MaxHandle => (next + n) % (MaxHandle + 1) = next + n
      /\ next + n = MaxHandle + 1 => (next + n) % (MaxHandle + 1) = 0
  BY <1>1, <1>2, WrapAround
<1>4. ASSUME NEW i \in 1..n
      PROVE  /\ 0 < next /\ next + i - 1 \in 0..MaxHandle
             /\ (next + i - 1) % (MaxHandle + 1) = next + i - 1
  <2>1. 0 < next /\ next + i - 1 \in Nat /\ next + i - 1 <= MaxHandle
    BY <1>1, <1>2
  <2> QED
    BY <1>1, <2>1, WrapAround
<1> QED
  BY <1>1, <1>2, <1>3, <1>4

\* The announcements of a Connection's streams, and the event after them.
LEMMA HandleList ==
  ASSUME NEW c \in Connids, NEW n \in Nat, NEW f \in [1..n -> 0..MaxHandle], NEW m \in Message
  PROVE  LET q == [i \in 1..n |-> Opened(c, f[i])] \o <<m>>
         IN  /\ q \in Seq(Message) /\ DOMAIN q = 1..(n + 1) /\ q[n + 1] = m
             /\ \A i \in 1..n : q[i] = Opened(c, f[i])
<1> DEFINE first == [i \in 1..n |-> Opened(c, f[i])]
<1>1. \A i \in 1..n : Opened(c, f[i]) \in Message
  BY Messages
<1>2. first \in Seq(Message) /\ Len(first) = n /\ \A i \in 1..n : first[i] = Opened(c, f[i])
  BY <1>1
<1>3. <<m>> \in Seq(Message) /\ Len(<<m>>) = 1 /\ <<m>>[1] = m
  OBVIOUS
<1> HIDE DEF first
<1>4. /\ first \o <<m>> \in Seq(Message) /\ Len(first \o <<m>>) = n + 1
      /\ \A i \in 1..(n + 1) : (first \o <<m>>)[i] = IF i <= n THEN first[i] ELSE <<m>>[i - n]
  BY <1>2, <1>3, ConcatProperties
<1>5. LET q == first \o <<m>>
      IN  /\ q \in Seq(Message) /\ DOMAIN q = 1..(n + 1) /\ q[n + 1] = m
          /\ \A i \in 1..n : q[i] = Opened(c, f[i])
  BY <1>2, <1>3, <1>4
<1> QED
  BY <1>5 DEF first

\* The fields of a Connection machine that are counted with.
LEMMA MachineFields ==
  ASSUME NEW m \in ConnMachine
  PROVE  m.offered \in Nat /\ m.next \in 0..MaxHandle
<1>1. m.offered \in OfferSizes \cup {0} /\ m.next \in 0..MaxHandle
  BY DEF ConnMachine
<1>2. \A k \in OfferSizes \cup {0} : k \in Nat
  BY UctpAssumption
<1> QED
  BY <1>1, <1>2, Zenon

\* A Connection machine with its allocator at another place.
LEMMA Renumbered ==
  ASSUME NEW m \in ConnMachine, NEW k \in 0..MaxHandle
  PROVE  /\ [m EXCEPT !.next = k] \in ConnMachine /\ [m EXCEPT !.next = k].next = k
         /\ [m EXCEPT !.next = k, !.announced = TRUE] \in ConnMachine
         /\ [m EXCEPT !.next = k, !.announced = TRUE].next = k
BY DEF ConnMachine

\* A Connection machine is replaced.
LEMMA ConnUpdate ==
  ASSUME Types, NEW c \in Connids, NEW m \in ConnMachine, conn' = [conn EXCEPT ![c] = m]
  PROVE  /\ conn' \in [Connids -> ConnMachine] /\ conn'[c] = m
         /\ \A d \in Connids : d # c => conn'[d] = conn[d]
BY DEF Types

\* connection.ready.
LEMMA ReadyEffect ==
  ASSUME Types, HandleReady
  PROVE  Effect /\ Allocates
<1> DEFINE c == hand.connid
           s == hand.sid
           n == IF conn[c].announced THEN 0 ELSE conn[c].offered
           handles == [i \in 1..n |-> (conn[c].next + i - 1) % (MaxHandle + 1)]
           moved == [conn[c] EXCEPT !.state = ConnApply(@, "Ready"),
                                    !.offered = IF conn[c].announced THEN @ ELSE 0]
           last == Event([kind |-> "conn-connected", connid |-> c])
<1>1. hand # NoEnv /\ s \in Sids /\ c \in Connids /\ authed
  BY EnvelopeFields DEF HandleReady, Types, NoEnv, None
<1>2. /\ n \in Nat /\ MaxHandle \in Nat /\ conn[c].next \in 0..MaxHandle
      /\ conn[c] \in ConnMachine
  <2>1. conn[c] \in ConnMachine
    BY <1>1 DEF Types
  <2>2. conn[c].offered \in Nat /\ conn[c].next \in 0..MaxHandle
    BY <2>1, MachineFields
  <2> QED
    BY <2>1, <2>2, UctpAssumption
<1>3. moved \in ConnMachine
  BY <1>2, ConnMoves DEF ConnMachine
<1>4. \A i \in Sids : session[i] \in SessionState /\ Rank[session[i]] <= Rank[session[i]]
  BY DEF Types, SessionState, Live, None, Rank
<1>5. \A d \in Connids : conn[d].next \in 0..MaxHandle
  BY DEF Types, ConnMachine
<1>6. CASE UNCHANGED <<session, conn>> /\ todo' = <<Out>>
  <2>1. Advances /\ Admits
    BY <1>4, <1>6 DEF Advances, Admits
  <2>2. Quiet(todo')
    BY <1>6, QuietLists
  <2>3. Effect /\ NoHandles
    BY <1>1, <1>6, <2>1, <2>2
    DEF HandleReady, Handled, waiting, Effect, NoHandles, Types, Quiet, InviteToSend
  <2> QED
    BY <2>3, NoHandlesAllocates
<1>7. CASE /\ conn' = [conn EXCEPT ![c] = [moved EXCEPT !.next = 0]]
           /\ UNCHANGED session /\ todo' = <<>>
  <2>1. Advances /\ Admits
    BY <1>4, <1>7 DEF Advances, Admits
  <2>2. Quiet(todo')
    BY <1>7, QuietLists
  <2>3. /\ conn' \in [Connids -> ConnMachine] /\ conn'[c].next = 0
        /\ \A d \in Connids : d # c => conn'[d] = conn[d]
    <3> HIDE DEF moved, c
    <3>1. [moved EXCEPT !.next = 0] \in ConnMachine /\ [moved EXCEPT !.next = 0].next = 0
      <4>1. 0 \in 0..MaxHandle
        BY <1>2
      <4> QED
        BY <1>3, <4>1, Renumbered, Zenon
    <3> QED
      BY <1>1, <1>7, <3>1, ConnUpdate
  <2>4. Allocates
    <3> HIDE DEF c
    <3> QED
      BY <1>2, <1>5, <2>2, <2>3 DEF Allocates, Quiet
  <2> QED
    BY <1>1, <1>7, <2>1, <2>2, <2>3, <2>4
    DEF HandleReady, Handled, waiting, Effect, Types, Quiet, InviteToSend
<1>8. CASE /\ n <= HandlesLeft(c)
           /\ conn' = [conn EXCEPT ![c] = [moved EXCEPT !.next = After(c, n), !.announced = TRUE]]
           /\ session' = [session EXCEPT ![s] = SessionApply(@, "ConnectionReady")]
           /\ todo' = [i \in 1..n |-> Opened(c, handles[i])] \o <<last>>
  <2>1. session' \in [Sids -> SessionState] /\ Advances /\ Admits
    BY <1>1, <1>4, <1>8, SessionMoves DEF Advances, Admits, Types
  <2>2. /\ After(c, n) \in 0..MaxHandle
        /\ After(c, n) = 0 \/ (0 < conn[c].next /\ After(c, n) = conn[c].next + n)
        /\ \A i \in 1..n : /\ 0 < conn[c].next /\ handles[i] = conn[c].next + i - 1
                           /\ handles[i] \in 0..MaxHandle
    <3>1. n <= IF conn[c].next = 0 THEN 0 ELSE MaxHandle + 1 - conn[c].next
      BY <1>8 DEF HandlesLeft
    <3> HIDE DEF n
    <3> QED
      BY <1>2, <3>1, Allotment DEF After
  <2>3. /\ conn' \in [Connids -> ConnMachine] /\ conn'[c].next = After(c, n)
        /\ \A d \in Connids : d # c => conn'[d] = conn[d]
    <3> DEFINE m2 == [moved EXCEPT !.next = After(c, n), !.announced = TRUE]
    <3> HIDE DEF moved, c, n
    <3>1. m2 \in ConnMachine /\ m2.next = After(c, n) /\ conn' = [conn EXCEPT ![c] = m2]
      BY <1>3, <1>8, <2>2, Renumbered
    <3> HIDE DEF m2
    <3> QED
      BY <1>1, <3>1, ConnUpdate
  <2>4. /\ todo' \in Seq(Message) /\ DOMAIN todo' = 1..(n + 1) /\ todo'[n + 1] = last
        /\ \A i \in 1..n : todo'[i] = Opened(c, handles[i])
    <3>1. handles \in [1..n -> 0..MaxHandle] /\ last \in Message
      BY <1>1, <2>2, Messages
    <3> HIDE DEF handles, n, c, last
    <3> DEFINE q == [i \in 1..n |-> Opened(c, handles[i])] \o <<last>>
    <3>2. /\ q \in Seq(Message) /\ DOMAIN q = 1..(n + 1) /\ q[n + 1] = last
          /\ \A i \in 1..n : q[i] = Opened(c, handles[i])
      <4>1. c \in Connids /\ n \in Nat /\ handles \in [1..n -> 0..MaxHandle] /\ last \in Message
        BY <1>1, <1>2, <3>1
      <4> QED
        BY ONLY <4>1, HandleList
    <3>3. todo' = q
      BY <1>8
    <3> HIDE DEF q
    <3> QED
      BY <3>2, <3>3
  <2>5. \A i \in DOMAIN todo' :
          /\ ~Inviting(todo'[i])
          /\ IsHandle(todo'[i]) => /\ i \in 1..n /\ todo'[i].connid = c
                                   /\ todo'[i].handle = conn[c].next + i - 1
    <3>1. ~IsHandle(last) /\ ~Inviting(last)
      BY <1>1, Messages
    <3> HIDE DEF handles, n, c, last
    <3>2. \A i \in DOMAIN todo' : i \in 1..n \/ i = n + 1
      BY <1>2, <2>4
    <3>3. ASSUME NEW i \in 1..n
          PROVE  /\ ~Inviting(todo'[i]) /\ todo'[i].connid = c
                 /\ todo'[i].handle = conn[c].next + i - 1
      <4>1. todo'[i] = Opened(c, handles[i]) /\ handles[i] \in 0..MaxHandle
        BY <2>2, <2>4
      <4> QED
        BY <1>1, <2>2, <4>1, Messages
    <3> QED
      BY <2>4, <3>1, <3>2, <3>3
  <2>6. Allocates
    <3> HIDE DEF c, n
    <3>1. \A d \in Connids : conn'[d].next = 0 \/ (0 < conn[d].next /\ conn[d].next <= conn'[d].next)
      BY <1>2, <1>5, <2>2, <2>3
    <3>2. ASSUME NEW i \in DOMAIN todo', IsHandle(todo'[i])
          PROVE  /\ todo'[i].connid = c /\ 0 < conn[c].next /\ conn[c].next <= todo'[i].handle
                 /\ conn'[c].next = 0 \/ todo'[i].handle < conn'[c].next
      <4>1. i \in 1..n /\ todo'[i].connid = c /\ todo'[i].handle = conn[c].next + i - 1
        BY <2>5, <3>2
      <4> QED
        BY <1>2, <2>2, <2>3, <4>1
    <3>3. \A i, j \in DOMAIN todo' :
            IsHandle(todo'[i]) /\ IsHandle(todo'[j]) /\ i < j => todo'[i].handle < todo'[j].handle
      BY <1>2, <2>5
    <3> QED
      BY <1>1, <3>1, <3>2, <3>3 DEF Allocates
  <2> QED
    BY <1>1, <1>8, <2>1, <2>3, <2>4, <2>5, <2>6
    DEF HandleReady, Handled, waiting, Effect, Types, InviteToSend
<1> QED
  <2>1. CASE conn[c].state = None
    BY <1>6, <2>1 DEF HandleReady, Handled
  <2>2. CASE conn[c].state # None /\ n > HandlesLeft(c)
    BY <1>7, <2>2 DEF HandleReady, Handled
  <2>3. CASE conn[c].state # None /\ ~(n > HandlesLeft(c))
    <3>1. HandlesLeft(c) \in Int
      BY <1>2 DEF HandlesLeft
    <3>2. n <= HandlesLeft(c)
      <4> HIDE DEF n
      <4> QED
        BY <1>2, <2>3, <3>1
    <3> QED
      BY <1>8, <2>3, <3>2 DEF HandleReady, Handled
  <2> QED
    BY <2>1, <2>2, <2>3

\* Any handler, by what they have in common.
LEMMA HandleEffect ==
  ASSUME Types, Handle
  PROVE  Effect /\ Allocates
<1>1. CASE HandleReady
  BY <1>1, ReadyEffect
<1>2. CASE ~HandleReady
  <2>1. Effect /\ NoHandles
    BY <1>2, UnauthenticatedEffect, AuthEffect, ReplyEffect, InviteEffect, InputEffect,
       OfferAnswerEffect, EndEffect DEF Handle
  <2> QED
    BY <2>1, NoHandlesAllocates
<1> QED
  BY <1>1, <1>2

-----------------------------------------------------------------------------
(* Types.                                                                  *)

\* What a message to be sent, or an event, carries.
LEMMA MessageFields ==
  /\ \A m \in Message : /\ m.send \in {"out", "event"}
                        /\ m.send = "event" => m.event \in Announcement /\ ~IsHandle(m)
                        /\ IsHandle(m) => m.connid \in Connids /\ m.handle \in 0..MaxHandle
  /\ \A e \in Announcement : e.kind \in {"invite", "connected", "ended"} => e.sid \in Sids
  /\ \A s \in Sids : [kind |-> "ended", sid |-> s] \in Announcement
<1>1. ASSUME NEW m \in Message
      PROVE  /\ m.send \in {"out", "event"}
             /\ m.send = "event" => m.event \in Announcement /\ ~IsHandle(m)
             /\ IsHandle(m) => m.connid \in Connids /\ m.handle \in 0..MaxHandle
  BY DEF Message, IsHandle, Out
<1>2. \A e \in Announcement : e.kind \in {"invite", "connected", "ended"} => e.sid \in Sids
  BY DEF Announcement
<1>3. \A s \in Sids : [kind |-> "ended", sid |-> s] \in Announcement
  BY DEF Announcement
<1> QED
  BY <1>1, <1>2, <1>3

\* A queue without its first element.
LEMMA Rest ==
  ASSUME NEW S, NEW q \in Seq(S), q # <<>>
  PROVE  /\ Len(q) \in Nat /\ 1 <= Len(q) /\ DOMAIN q = 1..Len(q)
         /\ Head(q) = q[1] /\ Head(q) \in S
         /\ Tail(q) \in Seq(S) /\ Len(Tail(q)) = Len(q) - 1 /\ DOMAIN Tail(q) = 1..(Len(q) - 1)
         /\ \A i \in 1..(Len(q) - 1) : Tail(q)[i] = q[i + 1]
<1>1. Len(q) \in Nat /\ DOMAIN q = 1..Len(q) /\ 1 <= Len(q)
  BY EmptySeq
<1>2. /\ Tail(q) \in Seq(S) /\ Len(Tail(q)) = Len(q) - 1
      /\ \A i \in 1..(Len(q) - 1) : Tail(q)[i] = q[i + 1]
  BY HeadTailProperties
<1>3. Head(q) = q[1] /\ q[1] \in S
  BY <1>1, ElementOfSeq
<1> QED
  BY <1>1, <1>2, <1>3

\* A queue with one more.
LEMMA More ==
  ASSUME NEW S, NEW q \in Seq(S), NEW e \in S
  PROVE  /\ Len(q) \in Nat /\ DOMAIN q = 1..Len(q)
         /\ Append(q, e) \in Seq(S) /\ Len(Append(q, e)) = Len(q) + 1
         /\ DOMAIN Append(q, e) = 1..(Len(q) + 1)
         /\ \A i \in 1..Len(q) : Append(q, e)[i] = q[i]
         /\ Append(q, e)[Len(q) + 1] = e
BY AppendProperties

\* Room for one event, and what is then known of the channel.
LEMMA AnnounceTypes ==
  ASSUME Types, NEW e \in Announcement, Announce(e)
  PROVE  /\ events' \in Seq(Announcement) /\ Len(events') <= EventCap /\ reported' \subseteq Sids
<1>1. Len(events') = Len(events) + 1 /\ events' \in Seq(Announcement) /\ Len(events) \in Nat
  BY More DEF Announce, Types
<1>2. Len(events') <= EventCap
  BY <1>1, UctpAssumption DEF Announce
<1>3. reported' \subseteq Sids
  BY MessageFields DEF Announce, Types
<1> QED
  BY <1>1, <1>2, <1>3

\* The coordinator as it is made, before the peer said anything.
LEMMA TypesInit == Init => Types
<1> SUFFICES ASSUME Init PROVE Types
  OBVIOUS
<1>1. NoConn \in ConnMachine
  BY UctpAssumption DEF NoConn, ConnMachine
<1>2. session \in [Sids -> SessionState] /\ conn \in [Connids -> ConnMachine]
  BY <1>1 DEF Init, CoordInit, SessionState
<1>3. <<>> \in Seq(Message) /\ <<>> \in Seq(Announcement) /\ <<>> \in Seq(Connection)
      /\ <<>> \in Seq(0..MaxHandle) /\ Len(<<>>) = 0
  OBVIOUS
<1>4. /\ opened \in [Connids -> Seq(0..MaxHandle)] /\ bySid \in [Sids -> 0..Len(conns)]
      /\ conns \in Seq(Connection) /\ events \in Seq(Announcement) /\ todo \in Seq(Message)
      /\ Len(events) <= EventCap
  BY <1>3, UctpAssumption DEF Init, CoordInit
<1> QED
  BY <1>2, <1>4 DEF Init, CoordInit, Types

\* A step of the driver.
LEMMA DriverTypes ==
  ASSUME Types, DriverStep /\ UNCHANGED pumpVars
  PROVE  Types'
<1>1. CASE DriverExits
  BY <1>1 DEF DriverExits, Types, machines, stopping, waiting, pumpVars
<1>2. CASE Handle
  BY <1>2, HandleEffect DEF Effect, Types, stopping, pumpVars
<1>3. CASE EmitEvent
  <2>1. /\ Head(todo).event \in Announcement /\ todo' \in Seq(Message) /\ hand = NoEnv
    BY <1>3, Rest, MessageFields DEF EmitEvent, Types
  <2> QED
    BY <1>3, <2>1, AnnounceTypes DEF EmitEvent, Types, machines, stopping, waiting, pumpVars
<1>4. CASE SendOut
  <2>1. todo' \in Seq(Message) /\ hand = NoEnv /\ Head(todo) \in Message
    BY <1>4, Rest DEF SendOut, Types
  <2>2. opened' \in [Connids -> Seq(0..MaxHandle)]
    <3>1. CASE IsHandle(Head(todo))
      <4> DEFINE c == Head(todo).connid
                 h == Head(todo).handle
      <4>1. c \in Connids /\ h \in 0..MaxHandle
        BY <2>1, <3>1, MessageFields
      <4>2. opened' = [opened EXCEPT ![c] = Append(@, h)]
        BY <1>4, <3>1 DEF SendOut, IsHandle
      <4>3. Append(opened[c], h) \in Seq(0..MaxHandle)
        BY <4>1, More DEF Types
      <4> HIDE DEF c, h
      <4> QED
        BY <4>1, <4>2, <4>3 DEF Types
    <3>2. CASE ~IsHandle(Head(todo))
      BY <1>4, <3>2 DEF SendOut, IsHandle, Types
    <3> QED
      BY <3>1, <3>2
  <2> QED
    BY <1>4, <2>1, <2>2 DEF SendOut, Types, machines, stopping, waiting, pumpVars
<1>5. CASE SendFails
  BY <1>5 DEF SendFails, Types, machines, waiting, pumpVars
<1> QED
  BY <1>1, <1>2, <1>3, <1>4, <1>5 DEF DriverStep

\* The peer, the substrate, shutdown() and the waiters.
LEMMA OutsideTypes ==
  ASSUME Types, UNCHANGED pumpVars,
         \/ \E e \in Envelope : Receive(e)
         \/ WireFails \/ Shutdown \/ ShutdownStep
         \/ \E w \in Waiters : WaiterStep(w)
  PROVE  Types'
<1>1. CASE \E e \in Envelope : Receive(e)
  BY <1>1 DEF Receive, Idle, Types, machines, stopping, waiting, pumpVars
<1>2. CASE WireFails \/ Shutdown
  BY <1>2 DEF WireFails, Shutdown, Types, machines, stopping, waiting, pumpVars
<1>3. CASE Snapshot \/ ClosePending
  BY <1>3 DEF Snapshot, ClosePending, Types, machines, stopping, waiting, pumpVars
<1>4. CASE \E s \in Sids : EndOne(s)
  <2>1. PICK s \in Sids : EndOne(s)
    BY <1>4
  <2>2. [kind |-> "ended", sid |-> s] \in Announcement
    BY MessageFields
  <2>3. events' \in Seq(Announcement) /\ Len(events') <= EventCap /\ reported' \subseteq Sids
    BY <2>1, <2>2, AnnounceTypes DEF EndOne
  <2> QED
    BY <2>1, <2>3 DEF EndOne, Types, machines, waiting, pumpVars
<1>5. CASE \E w \in Waiters : WaiterStep(w)
  <2>0. PICK w \in Waiters : WaiterStep(w)
    BY <1>5
  <2>1. PICK to \in {"registered", "waiting", "expired", "returned"},
             from \in {"idle", "registered", "waiting", "expired"},
             left \in {pending \cup {w}, pending, pending \ {w}} : Waits(w, from, to, left)
    BY <2>0 DEF WaiterStep, SendRequest, RequestFails, TimesOut, SenderDropped, GiveUp
  <2> QED
    BY <2>1 DEF Waits, Types, machines, stopping, pumpVars
<1> QED
  BY <1>1, <1>2, <1>3, <1>4, <1>5 DEF ShutdownStep

\* What the pump takes out of the channel.
LEMMA Taken ==
  ASSUME Types, NEW k, Take(k)
  PROVE  /\ events # <<>> /\ Head(events).kind = k /\ Head(events) = events[1]
         /\ Head(events) \in Announcement
         /\ events' = Tail(events) /\ events' \in Seq(Announcement) /\ Len(events') <= EventCap
         /\ Len(events) \in Nat /\ 1 <= Len(events)
         /\ DOMAIN events = 1..Len(events) /\ DOMAIN events' = 1..(Len(events) - 1)
         /\ \A i \in 1..(Len(events) - 1) : events'[i] = events[i + 1]
<1>1. events # <<>> /\ events \in Seq(Announcement) /\ Len(events) <= EventCap
      /\ Head(events).kind = k /\ events' = Tail(events)
  BY DEF Take, Types
<1>2. /\ Len(events) \in Nat /\ 1 <= Len(events) /\ DOMAIN events = 1..Len(events)
      /\ Head(events) = events[1] /\ Head(events) \in Announcement
      /\ Tail(events) \in Seq(Announcement) /\ Len(Tail(events)) = Len(events) - 1
      /\ DOMAIN Tail(events) = 1..(Len(events) - 1)
      /\ \A i \in 1..(Len(events) - 1) : Tail(events)[i] = events[i + 1]
  BY <1>1, Rest
<1>3. Len(Tail(events)) <= EventCap
  BY <1>1, <1>2, UctpAssumption
<1> QED
  BY <1>1, <1>2, <1>3

\* What a step may make of a Connection.
Connected(m) == [m EXCEPT !.connected = TRUE]
Closed(m)    == [m EXCEPT !.routed = FALSE, !.ended = TRUE]
EndOf(m)     == [m EXCEPT !.ended = TRUE]
Named(m)     == [m EXCEPT !.given = TRUE]

\* Something is said of a Connection.
LEMMA ConnsUpdate ==
  ASSUME NEW q \in Seq(Connection), NEW i \in 1..Len(q),
         NEW m \in {Connected(q[i]), Closed(q[i]), EndOf(q[i]), Named(q[i])}
  PROVE  /\ [q EXCEPT ![i] = m] \in Seq(Connection) /\ Len([q EXCEPT ![i] = m]) = Len(q)
         /\ [q EXCEPT ![i] = m][i] = m
         /\ \A j \in 1..Len(q) : j # i => [q EXCEPT ![i] = m][j] = q[j]
         /\ m.sid = q[i].sid /\ m.identified = q[i].identified
<1>1. q[i] \in Connection /\ Len(q) \in Nat
  OBVIOUS
<1>2. m \in Connection /\ m.sid = q[i].sid /\ m.identified = q[i].identified
  BY <1>1 DEF Connection, Connected, Closed, EndOf, Named
<1> QED
  BY <1>1, <1>2, ExceptSeq

\* The peer names a Connection it was given, or is given one that is routed: no
\* route changes, and a Connection without a route that was not given stays as
\* it is.
LEMMA NamedKeeps ==
  ASSUME Types, PumpWireConnection \/ Gives
  PROVE  /\ UNCHANGED <<identity, bySid>> /\ conns' \in Seq(Connection)
         /\ Len(conns') = Len(conns) /\ DOMAIN conns' = DOMAIN conns
         /\ \A j \in DOMAIN conns :
              /\ conns'[j].sid = conns[j].sid /\ conns'[j].routed = conns[j].routed
              /\ conns'[j].identified = conns[j].identified
              /\ conns[j].ended => conns'[j].ended
              /\ conns[j].given => conns'[j].given
              /\ conns'[j].ended => conns[j].ended \/ conns[j].given
              /\ ~conns[j].routed /\ ~conns[j].given => conns'[j] = conns[j]
<1>0. conns \in Seq(Connection) /\ Len(conns) \in Nat /\ DOMAIN conns = 1..Len(conns)
  BY DEF Types
<1>1. UNCHANGED <<identity, bySid>>
  BY DEF PumpWireConnection, Gives
<1>2. CASE conns' = conns
  BY <1>0, <1>1, <1>2
<1>3. ASSUME NEW i \in DOMAIN conns,
             \/ conns[i].given /\ conns' = [conns EXCEPT ![i] = Connected(conns[i])]
             \/ conns[i].given /\ conns' = [conns EXCEPT ![i] = EndOf(conns[i])]
             \/ conns[i].routed /\ conns' = [conns EXCEPT ![i] = Named(conns[i])]
      PROVE  /\ conns' \in Seq(Connection) /\ Len(conns') = Len(conns)
             /\ \A j \in DOMAIN conns : j # i => conns'[j] = conns[j]
             /\ conns'[i].sid = conns[i].sid /\ conns'[i].routed = conns[i].routed
             /\ conns'[i].identified = conns[i].identified
             /\ conns[i].ended => conns'[i].ended
             /\ conns[i].given => conns'[i].given
             /\ conns'[i].ended => conns[i].ended \/ conns[i].given
             /\ conns[i].routed \/ conns[i].given
  <2>1. PICK m \in {Connected(conns[i]), EndOf(conns[i]), Named(conns[i])} :
          conns' = [conns EXCEPT ![i] = m] /\ (m = EndOf(conns[i]) \/ m.ended = conns[i].ended)
          /\ (m = EndOf(conns[i]) => conns[i].given)
    <3>1. conns[i] \in Connection
      BY <1>0
    <3>2. /\ Connected(conns[i]).ended = conns[i].ended /\ Named(conns[i]).ended = conns[i].ended
          /\ Named(conns[i]) = EndOf(conns[i]) => conns[i].given
      BY <3>1 DEF Connection, Connected, EndOf, Named
    <3> QED
      BY <1>3, <3>2
  <2>2. /\ m.sid = conns[i].sid /\ m.routed = conns[i].routed
        /\ m.identified = conns[i].identified /\ (conns[i].ended => m.ended)
        /\ conns[i].given => m.given
    <3>1. conns[i] \in Connection
      BY <1>0
    <3>2. CASE m = Connected(conns[i])
      BY <3>1, <3>2 DEF Connection, Connected
    <3>3. CASE m = EndOf(conns[i])
      BY <3>1, <3>3 DEF Connection, EndOf
    <3>4. CASE m = Named(conns[i])
      BY <3>1, <3>4 DEF Connection, Named
    <3> QED
      BY <3>2, <3>3, <3>4
  <2>3. /\ conns' \in Seq(Connection) /\ Len(conns') = Len(conns) /\ conns'[i] = m
        /\ \A j \in DOMAIN conns : j # i => conns'[j] = conns[j]
    BY <1>0, <2>1, ConnsUpdate
  <2> QED
    BY <1>3, <2>1, <2>2, <2>3
<1>4. \/ conns' = conns
      \/ \E i \in DOMAIN conns :
           \/ conns[i].given /\ conns' = [conns EXCEPT ![i] = Connected(conns[i])]
           \/ conns[i].given /\ conns' = [conns EXCEPT ![i] = EndOf(conns[i])]
           \/ conns[i].routed /\ conns' = [conns EXCEPT ![i] = Named(conns[i])]
  BY DEF PumpWireConnection, Gives, Given, Connected, EndOf, Named
<1>5. CASE conns' # conns
  <2>1. PICK i \in DOMAIN conns :
           \/ conns[i].given /\ conns' = [conns EXCEPT ![i] = Connected(conns[i])]
           \/ conns[i].given /\ conns' = [conns EXCEPT ![i] = EndOf(conns[i])]
           \/ conns[i].routed /\ conns' = [conns EXCEPT ![i] = Named(conns[i])]
    BY <1>4, <1>5
  <2>2. /\ conns' \in Seq(Connection) /\ Len(conns') = Len(conns)
        /\ \A j \in DOMAIN conns : j # i => conns'[j] = conns[j]
        /\ conns'[i].sid = conns[i].sid /\ conns'[i].routed = conns[i].routed
        /\ conns'[i].identified = conns[i].identified
        /\ conns[i].ended => conns'[i].ended
        /\ conns[i].given => conns'[i].given
        /\ conns'[i].ended => conns[i].ended \/ conns[i].given
        /\ conns[i].routed \/ conns[i].given
    BY <1>3, <2>1
  <2> QED
    BY <1>0, <1>1, <2>2
<1> QED
  BY <1>2, <1>5

\* The pump's last two cases, on the Connection the Session has, if any.
LEMMA Said ==
  ASSUME Types, PumpConnected \/ PumpEnded
  PROVE  LET s == Head(events).sid
             i == bySid[s]
         IN  /\ s \in Sids /\ i \in 0..Len(conns)
             /\ i = 0 => conns' = conns
             /\ i # 0 => \E m \in {Connected(conns[i]), Closed(conns[i])} :
                           conns' = [conns EXCEPT ![i] = m]
             /\ PumpConnected => bySid' = bySid /\ (i # 0 => conns' = [conns EXCEPT ![i] = Connected(conns[i])])
             /\ PumpEnded => /\ bySid' = [bySid EXCEPT ![s] = 0]
                             /\ i # 0 => conns' = [conns EXCEPT ![i] = Closed(conns[i])]
<1> DEFINE s == Head(events).sid
           i == bySid[s]
<1>1. Take("connected") \/ Take("ended")
  BY DEF PumpConnected, PumpEnded
<1>2. s \in Sids /\ i \in 0..Len(conns)
  BY <1>1, Taken, MessageFields DEF Types
<1>3. i # 0 => i \in DOMAIN conns
  BY <1>2 DEF Types
<1>4. i = 0 => conns' = conns
  BY DEF PumpConnected, PumpEnded
<1>5. PumpConnected => bySid' = bySid /\ (i # 0 => conns' = [conns EXCEPT ![i] = Connected(conns[i])])
  BY <1>3 DEF PumpConnected, Connected
<1>6. PumpEnded => /\ bySid' = [bySid EXCEPT ![s] = 0]
                   /\ i # 0 => conns' = [conns EXCEPT ![i] = Closed(conns[i])]
  BY <1>3 DEF PumpEnded, Closed
<1>7. i # 0 => \E m \in {Connected(conns[i]), Closed(conns[i])} : conns' = [conns EXCEPT ![i] = m]
  BY <1>5, <1>6
<1> HIDE DEF i, s
<1>8. /\ s \in Sids /\ i \in 0..Len(conns) /\ (i = 0 => conns' = conns)
      /\ i # 0 => \E m \in {Connected(conns[i]), Closed(conns[i])} :
                    conns' = [conns EXCEPT ![i] = m]
      /\ PumpConnected => bySid' = bySid /\ (i # 0 => conns' = [conns EXCEPT ![i] = Connected(conns[i])])
      /\ PumpEnded => /\ bySid' = [bySid EXCEPT ![s] = 0]
                      /\ i # 0 => conns' = [conns EXCEPT ![i] = Closed(conns[i])]
  BY <1>2, <1>4, <1>5, <1>6, <1>7
<1> QED
  BY <1>8 DEF i, s

\* The list of Connections and the index by Session, after any pump step:
\* one Connection more, or one of them changed in what is said of it.
LEMMA PumpConns ==
  ASSUME Types, Pump
  PROVE  /\ Pumped /\ identity' \in BOOLEAN
         /\ conns' \in Seq(Connection) /\ bySid' \in [Sids -> 0..Len(conns')]
         /\ events' \in Seq(Announcement) /\ Len(events') <= EventCap
<1>0. conns \in Seq(Connection) /\ Len(conns) \in Nat /\ DOMAIN conns = 1..Len(conns)
  BY DEF Types
<1>1. CASE PumpAuth
  BY <1>1, Taken DEF PumpAuth, Types
<1>4. CASE PumpWireConnection
  <2>1. Take("conn-connected") \/ Take("conn-ended")
    BY <1>4 DEF PumpWireConnection
  <2>2. Pumped /\ UNCHANGED <<identity, bySid>>
    BY <1>4 DEF PumpWireConnection
  <2> QED
    BY <1>4, <2>1, <2>2, NamedKeeps, Taken DEF Types
<1>2. CASE PumpInvite
  <2> DEFINE s == Head(events).sid
             new == [sid |-> s, routed |-> TRUE, identified |-> identity,
                     connected |-> FALSE, ended |-> FALSE, given |-> FALSE]
  <2>1. s \in Sids
    BY <1>2, Taken, MessageFields DEF PumpInvite
  <2>2. new \in Connection
    BY <2>1 DEF Connection, Types
  <2>3. conns' = Append(conns, new) /\ bySid' = [bySid EXCEPT ![s] = Len(conns) + 1]
    BY <1>2 DEF PumpInvite
  <2> HIDE DEF new, s
  <2>4. conns' \in Seq(Connection) /\ Len(conns') = Len(conns) + 1
    BY <1>0, <2>2, <2>3, More
  <2>5. bySid' \in [Sids -> 0..Len(conns')]
    BY <1>0, <2>1, <2>3, <2>4 DEF Types
  <2> QED
    BY <1>2, <2>4, <2>5, Taken DEF PumpInvite, Types
<1>3. CASE PumpConnected \/ PumpEnded
  <2> DEFINE s == Head(events).sid
             i == bySid[s]
  <2>1. /\ s \in Sids /\ i \in 0..Len(conns) /\ (i = 0 => conns' = conns)
        /\ i # 0 => \E m \in {Connected(conns[i]), Closed(conns[i])} :
                      conns' = [conns EXCEPT ![i] = m]
        /\ bySid' = bySid \/ bySid' = [bySid EXCEPT ![s] = 0]
    BY <1>3, Said
  <2>2. Take("connected") \/ Take("ended")
    BY <1>3 DEF PumpConnected, PumpEnded
  <2> HIDE DEF i, s
  <2>3. conns' \in Seq(Connection) /\ Len(conns') = Len(conns)
    <3>1. CASE i = 0
      BY <1>0, <2>1, <3>1
    <3>2. CASE i # 0
      <4>1. PICK m \in {Connected(conns[i]), Closed(conns[i])} : conns' = [conns EXCEPT ![i] = m]
        BY <2>1, <3>2
      <4>2. i \in 1..Len(conns)
        BY <1>0, <2>1, <3>2
      <4> QED
        BY <1>0, <4>1, <4>2, ConnsUpdate
    <3> QED
      BY <3>1, <3>2
  <2>4. bySid' \in [Sids -> 0..Len(conns')]
    <3>1. 0 \in 0..Len(conns) /\ bySid \in [Sids -> 0..Len(conns)]
      BY <1>0 DEF Types
    <3>2. bySid' \in [Sids -> 0..Len(conns)]
      BY <2>1, <3>1
    <3> QED
      BY <2>3, <3>2
  <2> QED
    BY <1>3, <2>2, <2>3, <2>4, Taken DEF PumpConnected, PumpEnded, Types
<1> QED
  BY <1>1, <1>2, <1>3, <1>4 DEF Pump

\* Every step keeps the types.
LEMMA TypesStep == Types /\ [Next]_vars => Types'
<1> SUFFICES ASSUME Types, [Next]_vars PROVE Types'
  OBVIOUS
<1>1. CASE Pump
  BY <1>1, PumpConns DEF Pumped, Types, machines, stopping, waiting
<1>2. CASE CoordNext /\ UNCHANGED pumpVars
  BY <1>2, DriverTypes, OutsideTypes DEF CoordNext
<1>3. CASE SendDtmf \/ \E w \in Waiters : Renegotiate(w)
  <2>1. Gives
    BY <1>3 DEF SendDtmf, Renegotiate
  <2>2. /\ conns' \in Seq(Connection) /\ bySid' \in [Sids -> 0..Len(conns')]
        /\ identity' \in BOOLEAN
    BY <2>1, NamedKeeps DEF Types
  <2>3. CASE SendDtmf
    BY <2>2, <2>3 DEF SendDtmf, coordVars, machines, stopping, waiting, Types
  <2>4. CASE \E w \in Waiters : Renegotiate(w)
    BY <2>2, <2>4 DEF Renegotiate, Register, Waits, machines, stopping, Types
  <2> QED
    BY <1>3, <2>3, <2>4
<1>4. CASE UNCHANGED vars
  BY <1>4 DEF vars, coordVars, pumpVars, machines, stopping, waiting, Types
<1> QED
  BY <1>1, <1>2, <1>3, <1>4 DEF Next

\* The coordinator and the pump keep to their types, and the event channel
\* to its capacity.
THEOREM TypesTheorem == Spec => []Types
BY TypesInit, TypesStep, PTL DEF Spec

-----------------------------------------------------------------------------
(* Sessions.                                                               *)

\* Only a handler moves the Session machines.
LEMMA SessionStep ==
  ASSUME Types, [Next]_vars
  PROVE  \/ Advances /\ Admits
         \/ UNCHANGED session
<1>1. CASE Handle
  BY <1>1, HandleEffect DEF Effect
<1>2. CASE ~Handle
  BY <1>2 DEF Next, CoordNext, Pump, PumpAuth, PumpInvite, PumpConnected, PumpEnded,
              PumpWireConnection, Pumped, SendDtmf, Renegotiate, Register, Waits, WaiterStep, SendRequest,
              RequestFails, TimesOut, SenderDropped, GiveUp, Receive, DriverStep, DriverExits,
              EmitEvent, SendOut, SendFails, WireFails, Shutdown, ShutdownStep, Snapshot, EndOne,
              ClosePending, machines, vars, coordVars
<1> QED
  BY <1>1, <1>2

\* A Session's machine only moves on, whatever the peer repeats or reorders
\* (SessionMachine::apply, the entry API of on_session_invite).
THEOREM SessionTheorem == Spec => SessionsAdvance
<1>1. Types /\ [Next]_vars =>
        [\A s \in Sids : Rank[session[s]] <= Rank[session'[s]]]_session
  BY SessionStep DEF Advances
<1> QED
  BY <1>1, TypesTheorem, PTL DEF Spec, SessionsAdvance

Known == {s \in Sids : session[s] # None}

\* The cap on Sessions.
Capped == IsFiniteSet(Known) /\ Cardinality(Known) <= MaxSessions

\* One Session more below the cap stays within it.
LEMMA CappedStep == Types /\ Types' /\ Capped /\ [Next]_vars => Capped'
<1> SUFFICES ASSUME Types, Types', Capped, [Next]_vars PROVE Capped'
  OBVIOUS
<1>1. CASE Known' \subseteq Known
  <2>1. IsFiniteSet(Known') /\ Cardinality(Known') <= Cardinality(Known)
    BY <1>1, FS_Subset DEF Capped
  <2>2. Cardinality(Known) \in Nat /\ Cardinality(Known') \in Nat /\ MaxSessions \in Nat
    BY <2>1, FS_CardinalityType, UctpAssumption DEF Capped
  <2> QED
    BY <2>1, <2>2 DEF Capped
<1>2. CASE ~(Known' \subseteq Known)
  <2>1. Advances /\ Admits
    BY <1>2, SessionStep DEF Known
  <2>2. PICK s \in Sids : session[s] = None /\ session'[s] # None
    BY <1>2 DEF Known
  <2>3. ~Over
    BY <2>1, <2>2 DEF Admits
  <2>4. Known' \subseteq Known \cup {s}
    BY <2>1, <2>2 DEF Admits, Known
  <2>5. IsFiniteSet(Known \cup {s}) /\ Cardinality(Known \cup {s}) <= Cardinality(Known) + 1
    <3>1. IsFiniteSet(Known) /\ Cardinality(Known) \in Nat
      BY FS_CardinalityType DEF Capped
    <3>2. /\ IsFiniteSet(Known \cup {s})
          /\ \/ Cardinality(Known \cup {s}) = Cardinality(Known)
             \/ Cardinality(Known \cup {s}) = Cardinality(Known) + 1
      BY <3>1, FS_AddElement, Zenon
    <3> QED
      BY <3>1, <3>2
  <2>6. IsFiniteSet(Known') /\ Cardinality(Known') <= Cardinality(Known \cup {s})
    BY <2>4, <2>5, FS_Subset
  <2>7. /\ Cardinality(Known) \in Nat /\ Cardinality(Known \cup {s}) \in Nat
        /\ Cardinality(Known') \in Nat /\ MaxSessions \in Nat
    BY <2>5, <2>6, FS_CardinalityType, UctpAssumption DEF Capped
  <2>8. Cardinality(Known) < MaxSessions
    BY <2>3, <2>7 DEF Over, Known
  <2> QED
    BY <2>5, <2>6, <2>7, <2>8 DEF Capped
<1> QED
  BY <1>1, <1>2

\* TypeOK, with the cap of max_sessions_per_peer and the event channel's
\* capacity, for any mixture of envelopes, shutdown and failure.
THEOREM TypeTheorem == Spec => []TypeOK
<1>1. Init => Capped
  <2>1. Init => Known = {}
    BY DEF Init, CoordInit, Known
  <2> QED
    BY <2>1, FS_EmptySet, UctpAssumption DEF Capped
<1>2. Types /\ Capped => TypeOK
  BY DEF Types, Capped, TypeOK, Known, SessionState, ConnMachine
<1> QED
  BY <1>1, <1>2, CappedStep, TypesTheorem, PTL DEF Spec

-----------------------------------------------------------------------------
(* The correlated-response waiters.                                        *)

\* Who registers is waiting; who returns has left Pending.
LEMMA PendingStep == Types /\ NoPendingLeak /\ [Next]_vars => NoPendingLeak'
<1> SUFFICES ASSUME Types, NoPendingLeak, [Next]_vars PROVE NoPendingLeak'
  OBVIOUS
<1>1. CASE Handle
  BY <1>1, HandleEffect DEF Effect, NoPendingLeak
<1>2. CASE \E w \in Waiters : WaiterStep(w) \/ Register(w)
  BY <1>2 DEF WaiterStep, Register, SendRequest, RequestFails, TimesOut, SenderDropped, GiveUp,
              Waits, Types, NoPendingLeak
<1>3. CASE ClosePending
  BY <1>3 DEF ClosePending, NoPendingLeak
<1>4. CASE UNCHANGED waiting
  BY <1>4 DEF waiting, NoPendingLeak
<1> QED
  BY <1>1, <1>2, <1>3, <1>4
     DEF Next, CoordNext, Pump, PumpAuth, PumpInvite, PumpConnected, PumpEnded,
         PumpWireConnection, Pumped, SendDtmf, Renegotiate, Receive, DriverStep, DriverExits,
         EmitEvent, SendOut, SendFails, WireFails, Shutdown, ShutdownStep, Snapshot, EndOne,
         vars, coordVars

\* A registration in Pending is that of a call of send_and_wait that is still
\* running: replies, late or not, timeouts and shutdown leave none behind.
THEOREM PendingTheorem == Spec => []NoPendingLeak
<1>1. Init => NoPendingLeak
  BY DEF Init, CoordInit, NoPendingLeak
<1> QED
  BY <1>1, PendingStep, TypesTheorem, PTL DEF Spec

-----------------------------------------------------------------------------
(* Connections and routes.                                                 *)

\* A new Connection is its Session's; the one that ends is no Session's.
LEMMA RoutesStep == Types /\ RoutesAgree /\ [Next]_vars => RoutesAgree'
<1> SUFFICES ASSUME Types, RoutesAgree, [Next]_vars PROVE RoutesAgree'
  OBVIOUS
<1>0. /\ conns \in Seq(Connection) /\ Len(conns) \in Nat /\ DOMAIN conns = 1..Len(conns)
      /\ bySid \in [Sids -> 0..Len(conns)]
  BY DEF Types
<1>1. CASE PumpInvite
  <2> DEFINE s == Head(events).sid
             new == [sid |-> s, routed |-> TRUE, identified |-> identity,
                     connected |-> FALSE, ended |-> FALSE, given |-> FALSE]
  <2>1. s \in Sids
    BY <1>1, Taken, MessageFields DEF PumpInvite
  <2>2. new \in Connection /\ new.sid = s /\ new.routed = TRUE /\ new.ended = FALSE
    BY <2>1 DEF Connection, Types
  <2>3. conns' = Append(conns, new) /\ bySid' = [bySid EXCEPT ![s] = Len(conns) + 1]
    BY <1>1 DEF PumpInvite
  <2> HIDE DEF new, s
  <2>4. /\ DOMAIN conns' = 1..(Len(conns) + 1) /\ conns'[Len(conns) + 1] = new
        /\ \A i \in 1..Len(conns) : conns'[i] = conns[i]
    BY <1>0, <2>2, <2>3, More
  <2>5. \A t \in Sids : bySid'[t] # 0 => conns'[bySid'[t]].sid = t /\ conns'[bySid'[t]].routed
    BY <1>0, <2>1, <2>2, <2>3, <2>4 DEF RoutesAgree
  <2>6. \A i \in DOMAIN conns' : /\ ~conns'[i].routed => conns'[i].ended
                                 /\ conns'[i].ended /\ conns'[i].routed => conns'[i].given
    BY <1>0, <2>2, <2>4 DEF RoutesAgree
  <2> QED
    BY <2>5, <2>6 DEF RoutesAgree
<1>2. CASE PumpConnected \/ PumpEnded
  <2> DEFINE s == Head(events).sid
             i == bySid[s]
  <2>1. /\ s \in Sids /\ i \in 0..Len(conns) /\ (i = 0 => conns' = conns)
        /\ i # 0 => \/ bySid' = bySid /\ conns' = [conns EXCEPT ![i] = Connected(conns[i])]
                    \/ /\ bySid' = [bySid EXCEPT ![s] = 0]
                       /\ conns' = [conns EXCEPT ![i] = Closed(conns[i])]
        /\ bySid' = bySid \/ bySid' = [bySid EXCEPT ![s] = 0]
    BY <1>2, Said
  <2>2. i # 0 => i \in 1..Len(conns) /\ conns[i].sid = s /\ conns[i].routed
    BY <1>0, <2>1 DEF RoutesAgree
  <2> HIDE DEF i
  <2>3. CASE i = 0
    BY <1>0, <2>1, <2>3 DEF RoutesAgree
  <2>4. CASE i # 0 /\ bySid' = bySid /\ conns' = [conns EXCEPT ![i] = Connected(conns[i])]
    <3>1. /\ Connected(conns[i]).sid = s /\ Connected(conns[i]).routed = conns[i].routed
          /\ Connected(conns[i]).ended = conns[i].ended
          /\ Connected(conns[i]).given = conns[i].given
      BY <1>0, <2>2, <2>4 DEF Connected, Connection
    <3>2. /\ DOMAIN conns' = 1..Len(conns) /\ conns'[i] = Connected(conns[i])
          /\ \A j \in 1..Len(conns) : j # i => conns'[j] = conns[j]
      BY <1>0, <2>2, <2>4
    <3> QED
      BY <1>0, <2>2, <2>4, <3>1, <3>2 DEF RoutesAgree
  <2>5. CASE /\ i # 0 /\ bySid' = [bySid EXCEPT ![s] = 0]
             /\ conns' = [conns EXCEPT ![i] = Closed(conns[i])]
    <3>1. ~Closed(conns[i]).routed /\ Closed(conns[i]).ended
      BY <1>0, <2>2, <2>5 DEF Closed, Connection
    <3>2. /\ DOMAIN conns' = 1..Len(conns) /\ conns'[i] = Closed(conns[i])
          /\ \A j \in 1..Len(conns) : j # i => conns'[j] = conns[j]
      BY <1>0, <2>2, <2>5
    <3>3. \A t \in Sids : bySid'[t] # 0 => t # s /\ bySid[t] # i /\ bySid'[t] = bySid[t]
      BY <1>0, <2>1, <2>2, <2>5 DEF RoutesAgree
    <3>4. \A t \in Sids : bySid'[t] # 0 => conns'[bySid'[t]].sid = t /\ conns'[bySid'[t]].routed
      BY <1>0, <3>2, <3>3 DEF RoutesAgree
    <3>5. \A j \in DOMAIN conns' : /\ ~conns'[j].routed => conns'[j].ended
                                   /\ conns'[j].ended /\ conns'[j].routed => conns'[j].given
      BY <1>0, <3>1, <3>2 DEF RoutesAgree
    <3> QED
      BY <3>4, <3>5 DEF RoutesAgree
  <2> QED
    BY <2>1, <2>3, <2>4, <2>5
<1>3. CASE PumpWireConnection \/ Gives
  <2>1. \A s \in Sids : bySid[s] # 0 => bySid[s] \in DOMAIN conns
    BY <1>0
  <2>2. /\ bySid' = bySid /\ DOMAIN conns' = DOMAIN conns
        /\ \A j \in DOMAIN conns :
             /\ conns'[j].sid = conns[j].sid /\ conns'[j].routed = conns[j].routed
             /\ conns[j].ended => conns'[j].ended
             /\ conns[j].given => conns'[j].given
             /\ conns'[j].ended => conns[j].ended \/ conns[j].given
    BY <1>3, NamedKeeps
  <2>3. \A s \in Sids : bySid'[s] # 0 => conns'[bySid'[s]].sid = s /\ conns'[bySid'[s]].routed
    BY <2>1, <2>2 DEF RoutesAgree
  <2>4. ASSUME NEW j \in DOMAIN conns'
        PROVE  /\ ~conns'[j].routed => conns'[j].ended
               /\ conns'[j].ended /\ conns'[j].routed => conns'[j].given
    <3>1. /\ j \in DOMAIN conns /\ conns'[j].routed = conns[j].routed
          /\ conns[j].ended => conns'[j].ended
          /\ conns[j].given => conns'[j].given
          /\ conns'[j].ended => conns[j].ended \/ conns[j].given
      BY <2>2, <2>4
    <3>2. /\ ~conns[j].routed => conns[j].ended
          /\ conns[j].ended /\ conns[j].routed => conns[j].given
      BY <3>1 DEF RoutesAgree
    <3> QED
      BY <3>1, <3>2
  <2> QED
    BY <2>3, <2>4 DEF RoutesAgree
<1>4. CASE UNCHANGED <<bySid, conns>>
  BY <1>4 DEF RoutesAgree
<1> QED
  BY <1>1, <1>2, <1>3, <1>4 DEF Next, Pump, PumpAuth, pumpVars, SendDtmf, Renegotiate, vars

\* by_uctp_sid and the routes agree in every state.
THEOREM RoutesTheorem == Spec => []RoutesAgree
<1>1. Init => RoutesAgree
  BY DEF Init, RoutesAgree
<1> QED
  BY <1>1, RoutesStep, TypesTheorem, PTL DEF Spec

\* A Session's Connection is routed, and the peer names only Connections it was
\* given.
LEMMA EndedStep ==
  ASSUME Types, RoutesAgree, [Next]_vars, NEW j \in DOMAIN conns,
         ~conns[j].routed, ~conns[j].given
  PROVE  conns'[j] = conns[j]
<1>0. conns \in Seq(Connection) /\ Len(conns) \in Nat /\ DOMAIN conns = 1..Len(conns)
  BY DEF Types
<1>1. CASE PumpInvite
  BY <1>0, <1>1 DEF PumpInvite
<1>2. CASE PumpConnected \/ PumpEnded
  <2> DEFINE i == bySid[Head(events).sid]
  <2>1. /\ Head(events).sid \in Sids /\ i \in 0..Len(conns) /\ (i = 0 => conns' = conns)
        /\ i # 0 => \E m \in {Connected(conns[i]), Closed(conns[i])} :
                      conns' = [conns EXCEPT ![i] = m]
    BY <1>2, Said
  <2>2. i # j
    BY <1>0, <2>1 DEF RoutesAgree
  <2> HIDE DEF i
  <2>3. CASE i # 0
    <3>1. i \in DOMAIN conns
      BY <1>0, <2>1, <2>3
    <3> QED
      BY <2>1, <2>2, <2>3, <3>1
  <2> QED
    BY <2>1, <2>3
<1>3. CASE PumpWireConnection \/ Gives
  BY <1>3, NamedKeeps
<1>4. CASE UNCHANGED conns
  BY <1>4
<1> QED
  BY <1>1, <1>2, <1>3, <1>4 DEF Next, Pump, PumpAuth, pumpVars, SendDtmf, Renegotiate, vars

\* Nothing more is said of a Connection whose end took its route, unless the
\* peer was given its id, although the coordinator may announce a Session's end
\* twice, or that it connected after it ended.
THEOREM EndedTheorem == Spec => EndedIsLast
<1>1. Types /\ RoutesAgree /\ [Next]_vars =>
        [\A i \in DOMAIN conns :
           ~conns[i].routed /\ ~conns[i].given => conns'[i] = conns[i]]_conns
  BY EndedStep
<1> QED
  BY <1>1, RoutesTheorem, TypesTheorem, PTL DEF Spec, EndedIsLast

-----------------------------------------------------------------------------
(* The identity of a peer.                                                 *)

AuthIn(es) == \E i \in DOMAIN es : es[i].kind = "auth"

\* The adapter knows the peer's identity, or will before the events behind.
Identifiable == identity \/ AuthIn(events)

\* While the peer can be answered: the gate is open only once the identity is
\* known, on its way, or lost with a handler after which the driver takes no
\* other envelope; and an invite is never ahead of it.
Identifying ==
  wire # "closed" =>
    /\ authed => Identifiable \/ AuthToSend \/ (cancelled /\ hand = NoEnv)
    /\ InviteToSend => Identifiable
    /\ \A i \in DOMAIN events : events[i].kind = "invite" =>
         identity \/ \E j \in 1..(i - 1) : events[j].kind = "auth"
    /\ \A i \in DOMAIN conns : conns[i].identified

\* An event goes into the channel, behind those that are there.
LEMMA AnnounceKeeps ==
  ASSUME Types, NEW e \in Announcement, Announce(e), identity' = identity,
         \A i \in DOMAIN events : events[i].kind = "invite" =>
           identity \/ \E j \in 1..(i - 1) : events[j].kind = "auth",
         e.kind = "invite" => Identifiable
  PROVE  /\ Identifiable => Identifiable'
         /\ e.kind = "auth" => Identifiable'
         /\ \A i \in DOMAIN events' : events'[i].kind = "invite" =>
              identity' \/ \E j \in 1..(i - 1) : events'[j].kind = "auth"
<1>1. /\ Len(events) \in Nat /\ DOMAIN events = 1..Len(events)
      /\ DOMAIN events' = 1..(Len(events) + 1)
      /\ \A i \in 1..Len(events) : events'[i] = events[i]
      /\ events'[Len(events) + 1] = e
  BY More DEF Announce, Types
<1>2. (Identifiable => Identifiable') /\ (e.kind = "auth" => Identifiable')
  BY <1>1 DEF Identifiable, AuthIn
<1>3. ASSUME NEW i \in DOMAIN events', events'[i].kind = "invite", ~identity'
      PROVE  \E j \in 1..(i - 1) : events'[j].kind = "auth"
  <2>1. CASE i = Len(events) + 1
    <3>1. PICK j \in DOMAIN events : events[j].kind = "auth"
      BY <1>1, <1>3, <2>1 DEF Identifiable, AuthIn
    <3> QED
      BY <1>1, <2>1, <3>1
  <2>2. CASE i # Len(events) + 1
    <3>1. i \in 1..Len(events) /\ events[i].kind = "invite"
      BY <1>1, <1>3, <2>2
    <3>2. PICK j \in 1..(i - 1) : events[j].kind = "auth"
      BY <1>1, <1>3, <3>1
    <3> QED
      BY <1>1, <3>1, <3>2
  <2> QED
    BY <2>1, <2>2
<1> QED
  BY <1>2, <1>3

\* Steps of the driver and of shutdown(), which leave the pump alone.
LEMMA CoordIdentifying ==
  ASSUME Types, Identifying, CoordNext, UNCHANGED pumpVars
  PROVE  Identifying'
<1> SUFFICES ASSUME wire' # "closed"
             PROVE  /\ authed' => Identifiable' \/ AuthToSend' \/ (cancelled' /\ hand' = NoEnv)
                    /\ InviteToSend' => Identifiable'
                    /\ \A i \in DOMAIN events' : events'[i].kind = "invite" =>
                         identity' \/ \E j \in 1..(i - 1) : events'[j].kind = "auth"
                    /\ \A i \in DOMAIN conns' : conns'[i].identified
  BY DEF Identifying
<1>0. identity' = identity /\ conns' = conns
  BY DEF pumpVars
<1>1. CASE Handle
  <2>1. Effect
    BY <1>1, HandleEffect
  <2>2. events' = events /\ wire' = wire /\ todo = <<>>
    BY <2>1 DEF Effect, Types
  <2>3. Identifiable' = Identifiable /\ ~AuthToSend
    BY <1>0, <2>2 DEF Identifiable, AuthToSend
  <2> QED
    BY <1>0, <2>1, <2>2, <2>3 DEF Effect, Identifying
<1>2. CASE \E e \in Envelope : Receive(e)
  <2>1. /\ todo = <<>> /\ todo' = todo /\ events' = events /\ wire' = wire /\ authed' = authed
        /\ ~cancelled
    BY <1>2 DEF Receive, Idle, machines
  <2>2. Identifiable' = Identifiable /\ ~AuthToSend /\ ~InviteToSend'
    BY <1>0, <2>1 DEF Identifiable, AuthToSend, InviteToSend
  <2> QED
    BY <1>0, <2>1, <2>2 DEF Identifying
<1>3. CASE EmitEvent
  <2> DEFINE e == Head(todo).event
  <2>1. /\ Announce(e) /\ todo' = Tail(todo) /\ Head(todo).send = "event" /\ todo # <<>>
        /\ wire' = wire /\ authed' = authed /\ cancelled' = cancelled /\ hand' = hand
    BY <1>3 DEF EmitEvent, machines, stopping
  <2>2. /\ Len(todo) \in Nat /\ 1 <= Len(todo) /\ DOMAIN todo = 1..Len(todo)
        /\ Head(todo) = todo[1] /\ Head(todo) \in Message /\ DOMAIN todo' = 1..(Len(todo) - 1)
        /\ \A i \in 1..(Len(todo) - 1) : todo'[i] = todo[i + 1]
    BY <2>1, Rest DEF Types
  <2>3. e \in Announcement
    BY <2>1, <2>2, MessageFields
  <2>4. e.kind = "invite" => Identifiable
    BY <2>1, <2>2 DEF Identifying, InviteToSend, Inviting
  <2>5. /\ Identifiable => Identifiable'
        /\ e.kind = "auth" => Identifiable'
        /\ \A i \in DOMAIN events' : events'[i].kind = "invite" =>
             identity' \/ \E j \in 1..(i - 1) : events'[j].kind = "auth"
    BY <1>0, <2>1, <2>3, <2>4, AnnounceKeeps DEF Identifying
  <2>6. AuthToSend => AuthToSend' \/ e.kind = "auth"
    <3>1. SUFFICES ASSUME NEW i \in 1..Len(todo), todo[i] = Event([kind |-> "auth"])
                   PROVE  AuthToSend' \/ e.kind = "auth"
      BY <2>2 DEF AuthToSend
    <3>2. CASE i = 1
      BY <2>2, <3>1, <3>2 DEF Event
    <3>3. CASE i # 1
      <4>1. i - 1 \in DOMAIN todo' /\ todo'[i - 1] = Event([kind |-> "auth"])
        BY <2>2, <3>1, <3>3
      <4> QED
        BY <4>1 DEF AuthToSend
    <3> QED
      BY <3>2, <3>3
  <2>7. InviteToSend' => InviteToSend
    BY <2>2 DEF InviteToSend
  <2> QED
    BY <1>0, <2>1, <2>5, <2>6, <2>7 DEF Identifying
<1>4. CASE SendOut
  <2>1. /\ todo' = Tail(todo) /\ Head(todo).send = "out" /\ todo # <<>> /\ events' = events
        /\ wire' = wire /\ authed' = authed /\ cancelled' = cancelled /\ hand' = hand
    BY <1>4 DEF SendOut, machines, stopping
  <2>2. /\ Len(todo) \in Nat /\ 1 <= Len(todo) /\ DOMAIN todo = 1..Len(todo)
        /\ Head(todo) = todo[1] /\ DOMAIN todo' = 1..(Len(todo) - 1)
        /\ \A i \in 1..(Len(todo) - 1) : todo'[i] = todo[i + 1]
    BY <2>1, Rest DEF Types
  <2>3. AuthToSend => AuthToSend'
    <3>1. SUFFICES ASSUME NEW i \in 1..Len(todo), todo[i] = Event([kind |-> "auth"])
                   PROVE  AuthToSend'
      BY <2>2 DEF AuthToSend
    <3>2. i # 1
      BY <2>1, <2>2, <3>1 DEF Event
    <3>3. i - 1 \in DOMAIN todo' /\ todo'[i - 1] = Event([kind |-> "auth"])
      BY <2>2, <3>1, <3>2
    <3> QED
      BY <3>3 DEF AuthToSend
  <2>4. InviteToSend' => InviteToSend
    BY <2>2 DEF InviteToSend
  <2>5. Identifiable' = Identifiable
    BY <1>0, <2>1 DEF Identifiable
  <2> QED
    BY <1>0, <2>1, <2>3, <2>4, <2>5 DEF Identifying
<1>5. CASE SendFails
  <2>1. /\ todo' = <<>> /\ events' = events /\ wire' = wire /\ wire # "open" /\ authed' = authed
        /\ hand' = hand /\ hand = NoEnv
        /\ cancelled' = (cancelled \/ wire = "wedged")
    BY <1>5 DEF SendFails, machines, Types
  <2>2. cancelled'
    BY <2>1 DEF Types
  <2>3. Identifiable' = Identifiable /\ ~InviteToSend'
    BY <1>0, <2>1 DEF Identifiable, InviteToSend
  <2> QED
    BY <1>0, <2>1, <2>2, <2>3 DEF Identifying
<1>6. CASE \E s \in Sids : EndOne(s)
  <2>1. PICK s \in Sids : EndOne(s)
    BY <1>6
  <2> DEFINE e == [kind |-> "ended", sid |-> s]
  <2>2. /\ Announce(e) /\ e \in Announcement /\ e.kind # "invite" /\ todo' = todo
        /\ wire' = wire /\ authed' = authed /\ cancelled' = cancelled /\ hand' = hand
    BY <2>1, MessageFields DEF EndOne, machines
  <2> HIDE DEF e
  <2>3. /\ Identifiable => Identifiable'
        /\ \A i \in DOMAIN events' : events'[i].kind = "invite" =>
             identity' \/ \E j \in 1..(i - 1) : events'[j].kind = "auth"
    BY <1>0, <2>2, AnnounceKeeps DEF Identifying
  <2>4. AuthToSend' = AuthToSend /\ InviteToSend' = InviteToSend
    BY <2>2 DEF AuthToSend, InviteToSend
  <2> QED
    BY <1>0, <2>2, <2>3, <2>4 DEF Identifying
<1>7. CASE /\ UNCHANGED <<authed, hand, todo, events>> /\ (cancelled => cancelled')
           /\ wire' = wire \/ wire = "open"
  <2>1. /\ Identifiable' = Identifiable /\ AuthToSend' = AuthToSend
        /\ InviteToSend' = InviteToSend
    BY <1>0, <1>7 DEF Identifiable, AuthToSend, InviteToSend
  <2>2. wire # "closed"
    BY <1>7
  <2> QED
    BY <1>0, <1>7, <2>1, <2>2 DEF Identifying
<1> QED
  BY <1>1, <1>2, <1>3, <1>4, <1>5, <1>6, <1>7
     DEF CoordNext, DriverStep, DriverExits, WireFails, Shutdown, ShutdownStep, Snapshot,
         ClosePending, WaiterStep, SendRequest, RequestFails, TimesOut, SenderDropped, GiveUp,
         Waits, machines, stopping

\* What is said of a Connection does not take its identity.
LEMMA SaidIdentified ==
  ASSUME Types, PumpConnected \/ PumpEnded, \A i \in DOMAIN conns : conns[i].identified
  PROVE  \A i \in DOMAIN conns' : conns'[i].identified
<1> DEFINE i == bySid[Head(events).sid]
<1>0. conns \in Seq(Connection) /\ Len(conns) \in Nat /\ DOMAIN conns = 1..Len(conns)
  BY DEF Types
<1>1. /\ i \in 0..Len(conns) /\ (i = 0 => conns' = conns)
      /\ i # 0 => \E m \in {Connected(conns[i]), Closed(conns[i])} :
                    conns' = [conns EXCEPT ![i] = m]
  BY Said
<1> HIDE DEF i
<1>2. CASE i # 0
  <2>1. PICK m \in {Connected(conns[i]), Closed(conns[i])} : conns' = [conns EXCEPT ![i] = m]
    BY <1>1, <1>2
  <2>2. i \in 1..Len(conns)
    BY <1>0, <1>1, <1>2
  <2>3. /\ DOMAIN conns' = 1..Len(conns) /\ conns'[i].identified = conns[i].identified
        /\ \A j \in 1..Len(conns) : j # i => conns'[j] = conns[j]
    BY <1>0, <2>1, <2>2, ConnsUpdate
  <2> QED
    BY <1>0, <2>2, <2>3
<1> QED
  BY <1>1, <1>2

\* The pump takes events in order: no invite is first while the identity is
\* unknown.
LEMMA PumpIdentifying ==
  ASSUME Types, Identifying, Pump
  PROVE  Identifying'
<1> SUFFICES ASSUME wire' # "closed"
             PROVE  /\ authed' => Identifiable' \/ AuthToSend' \/ (cancelled' /\ hand' = NoEnv)
                    /\ InviteToSend' => Identifiable'
                    /\ \A i \in DOMAIN events' : events'[i].kind = "invite" =>
                         identity' \/ \E j \in 1..(i - 1) : events'[j].kind = "auth"
                    /\ \A i \in DOMAIN conns' : conns'[i].identified
  BY DEF Identifying
<1>0. /\ wire' = wire /\ authed' = authed /\ cancelled' = cancelled /\ hand' = hand
      /\ AuthToSend' = AuthToSend /\ InviteToSend' = InviteToSend
  BY PumpConns DEF Pumped, machines, stopping, AuthToSend, InviteToSend
<1>1. PICK k \in {"auth", "invite", "connected", "ended", "conn-connected", "conn-ended"} :
        /\ Take(k) /\ (k = "auth" => PumpAuth) /\ (k = "invite" => PumpInvite)
        /\ k \in {"connected", "ended"} => PumpConnected \/ PumpEnded
        /\ k \in {"conn-connected", "conn-ended"} => PumpWireConnection
  <2>1. CASE PumpWireConnection
    BY <2>1 DEF PumpWireConnection
  <2>2. CASE ~PumpWireConnection
    BY <2>2 DEF Pump, PumpAuth, PumpInvite, PumpConnected, PumpEnded
  <2> QED
    BY <2>1, <2>2
<1>2. /\ events[1].kind = k /\ Len(events) \in Nat /\ 1 <= Len(events)
      /\ DOMAIN events = 1..Len(events) /\ DOMAIN events' = 1..(Len(events) - 1)
      /\ \A i \in 1..(Len(events) - 1) : events'[i] = events[i + 1]
  BY <1>1, Taken
<1>3. CASE identity'
  <2>1. \A i \in DOMAIN conns' : conns'[i].identified
    <3>0. conns \in Seq(Connection) /\ Len(conns) \in Nat /\ DOMAIN conns = 1..Len(conns)
      BY DEF Types
    <3>1. CASE PumpInvite
      <4> DEFINE new == [sid |-> Head(events).sid, routed |-> TRUE, identified |-> identity,
                         connected |-> FALSE, ended |-> FALSE, given |-> FALSE]
      <4>1. /\ conns' = Append(conns, new) /\ identity' = identity /\ new.identified
        BY <1>3, <3>1 DEF PumpInvite
      <4>2. new \in Connection
        BY <3>1, Taken, MessageFields DEF PumpInvite, Connection, Types
      <4> HIDE DEF new
      <4>3. /\ DOMAIN conns' = 1..(Len(conns) + 1) /\ conns'[Len(conns) + 1] = new
            /\ \A i \in 1..Len(conns) : conns'[i] = conns[i]
        BY <3>0, <4>1, <4>2, More
      <4> QED
        BY <1>0, <3>0, <4>1, <4>3 DEF Identifying
    <3>2. CASE PumpConnected \/ PumpEnded
      BY <1>0, <3>2, SaidIdentified DEF Identifying
    <3>3. CASE PumpWireConnection
      BY <1>0, <3>3, NamedKeeps DEF Identifying
    <3> QED
      BY <1>0, <1>1, <3>1, <3>2, <3>3 DEF Identifying, PumpAuth
  <2> QED
    BY <1>3, <2>1 DEF Identifiable
<1>4. CASE ~identity'
  <2>1. k # "auth" /\ k # "invite" /\ ~identity
    <3>1. k # "auth"
      BY <1>1, <1>4 DEF PumpAuth
    <3>2. identity' = identity
      BY <1>1, <3>1 DEF PumpInvite, PumpConnected, PumpEnded, PumpWireConnection
    <3> QED
      BY <1>0, <1>2, <1>4, <3>1, <3>2 DEF Identifying
  <2>2. AuthIn(events) => AuthIn(events')
    <3>1. SUFFICES ASSUME NEW i \in 1..Len(events), events[i].kind = "auth" PROVE AuthIn(events')
      BY <1>2 DEF AuthIn
    <3>2. i - 1 \in DOMAIN events' /\ events'[i - 1].kind = "auth"
      BY <1>2, <2>1, <3>1
    <3> QED
      BY <3>2 DEF AuthIn
  <2>3. ASSUME NEW i \in DOMAIN events', events'[i].kind = "invite"
        PROVE  \E j \in 1..(i - 1) : events'[j].kind = "auth"
    <3>1. i + 1 \in DOMAIN events /\ events[i + 1].kind = "invite"
      BY <1>2, <2>3
    <3>2. PICK j \in 1..((i + 1) - 1) : events[j].kind = "auth"
      BY <1>0, <2>1, <3>1 DEF Identifying
    <3>3. j - 1 \in 1..(i - 1) /\ events'[j - 1].kind = "auth"
      BY <1>2, <2>1, <2>3, <3>2
    <3> QED
      BY <3>3
  <2>4. PumpWireConnection \/ PumpConnected \/ PumpEnded
    BY <1>1, <2>1
  <2>5. \A i \in DOMAIN conns' : conns'[i].identified
    BY <1>0, <2>4, NamedKeeps, SaidIdentified DEF Identifying
  <2> QED
    BY <1>0, <2>1, <2>2, <2>3, <2>5 DEF Identifying, Identifiable
<1> QED
  BY <1>3, <1>4

\* While the peer can be answered, no Connection is reported without the
\* identity that authenticated it: the gate opens before the event is sent,
\* but nothing the open gate lets through overtakes that event.
THEOREM IdentityTheorem == Spec => []InboundIdentified
<1>1. Init => Identifying
  BY DEF Init, CoordInit, Identifying, InviteToSend
<1>2. Types /\ Identifying /\ [Next]_vars => Identifying'
  <2> SUFFICES ASSUME Types, Identifying, [Next]_vars PROVE Identifying'
    OBVIOUS
  <2>1. CASE Pump
    BY <2>1, PumpIdentifying
  <2>2. CASE CoordNext /\ UNCHANGED pumpVars
    BY <2>2, CoordIdentifying
  <2>3. CASE UNCHANGED <<authed, hand, todo, events, wire, cancelled, identity>> /\ Gives
    <3>1. (\A i \in DOMAIN conns : conns[i].identified) => \A i \in DOMAIN conns' : conns'[i].identified
      BY <2>3, NamedKeeps
    <3> QED
      BY <2>3, <3>1 DEF Identifying, Identifiable, AuthToSend, InviteToSend
  <2>4. CASE UNCHANGED <<authed, hand, todo, events, wire, cancelled, identity, conns>>
    BY <2>4 DEF Identifying, Identifiable, AuthToSend, InviteToSend
  <2> QED
    BY <2>1, <2>2, <2>3, <2>4 DEF Next, SendDtmf, Renegotiate, Gives, Register, Waits, machines,
                            stopping, pumpVars, vars, coordVars
<1>3. Identifying => InboundIdentified
  BY DEF Identifying, InboundIdentified
<1> QED
  BY <1>1, <1>2, <1>3, TypesTheorem, PTL DEF Spec

-----------------------------------------------------------------------------
(* Stream handles.                                                         *)

\* An allocator that stands at n is past h.
Past(n, h) == n = 0 \/ h < n

\* The handles announced grow, those still to be announced are above them and
\* grow too, and the allocator is past them all.
Allotted ==
  /\ HandlesUnique
  /\ \A c \in Connids : \A i \in DOMAIN opened[c] : Past(conn[c].next, opened[c][i])
  /\ \A i \in DOMAIN todo : IsHandle(todo[i]) =>
       LET c == todo[i].connid
           h == todo[i].handle
       IN  Past(conn[c].next, h) /\ \A j \in DOMAIN opened[c] : opened[c][j] < h
  /\ \A i, j \in DOMAIN todo :
       IsHandle(todo[i]) /\ IsHandle(todo[j]) /\ i < j => todo[i].handle < todo[j].handle

\* What was announced are handles.
LEMMA OpenedHandles ==
  ASSUME Types
  PROVE  \A c \in Connids : /\ opened[c] \in Seq(0..MaxHandle)
                            /\ Len(opened[c]) \in Nat /\ DOMAIN opened[c] = 1..Len(opened[c])
                            /\ \A i \in DOMAIN opened[c] : opened[c][i] \in 0..MaxHandle
<1> SUFFICES ASSUME NEW c \in Connids
             PROVE  /\ opened[c] \in Seq(0..MaxHandle)
                    /\ Len(opened[c]) \in Nat /\ DOMAIN opened[c] = 1..Len(opened[c])
                    /\ \A i \in DOMAIN opened[c] : opened[c][i] \in 0..MaxHandle
  OBVIOUS
<1>1. opened[c] \in Seq(0..MaxHandle)
  BY DEF Types
<1>2. Len(opened[c]) \in Nat /\ DOMAIN opened[c] = 1..Len(opened[c])
  BY <1>1
<1>3. \A i \in 1..Len(opened[c]) : opened[c][i] \in 0..MaxHandle
  BY <1>1, ElementOfSeq
<1> QED
  BY <1>1, <1>2, <1>3

\* A handler takes handles the allocator has not passed.
LEMMA HandleAllotted ==
  ASSUME Types, Allotted, Handle
  PROVE  Allotted'
<1>1. Allocates /\ opened' = opened /\ todo' \in Seq(Message) /\ conn' \in [Connids -> ConnMachine]
  BY HandleEffect DEF Effect
<1>2. \A c \in Connids : /\ conn[c].next \in Nat /\ conn'[c].next \in Nat
                         /\ \A i \in DOMAIN opened[c] : opened[c][i] \in Nat
  <2>1. MaxHandle \in Nat /\ \A c \in Connids : conn[c] \in ConnMachine /\ conn'[c] \in ConnMachine
    BY <1>1, UctpAssumption DEF Types
  <2>2. \A c \in Connids : conn[c].next \in 0..MaxHandle /\ conn'[c].next \in 0..MaxHandle
    BY <2>1, MachineFields
  <2>3. \A c \in Connids : \A i \in DOMAIN opened[c] : opened[c][i] \in 0..MaxHandle
    BY OpenedHandles
  <2> QED
    BY <2>1, <2>2, <2>3
<1>3. HandlesUnique'
  BY <1>1 DEF Allotted, HandlesUnique
<1>4. \A c \in Connids : \A i \in DOMAIN opened'[c] : Past(conn'[c].next, opened'[c][i])
  BY <1>1, <1>2 DEF Allotted, Past, Allocates
<1>5. ASSUME NEW i \in DOMAIN todo', IsHandle(todo'[i])
      PROVE  LET c == todo'[i].connid
                 h == todo'[i].handle
             IN  Past(conn'[c].next, h) /\ \A j \in DOMAIN opened'[c] : opened'[c][j] < h
  <2> DEFINE c == todo'[i].connid
             h == todo'[i].handle
  <2>1. /\ c \in Connids /\ 0 < conn[c].next /\ conn[c].next <= h
        /\ conn'[c].next = 0 \/ h < conn'[c].next
    BY <1>1, <1>5 DEF Allocates
  <2>2. h \in 0..MaxHandle
    BY <1>1, <1>5, MessageFields
  <2>3. h \in Nat
    BY <2>2, UctpAssumption
  <2> HIDE DEF c, h
  <2>4. \A j \in DOMAIN opened[c] : opened[c][j] < conn[c].next
    BY <1>2, <2>1 DEF Allotted, Past
  <2>5. \A j \in DOMAIN opened'[c] : opened'[c][j] < h
    BY <1>1, <1>2, <2>1, <2>3, <2>4
  <2> QED
    BY <2>1, <2>5 DEF Past, c, h
<1>6. \A i, j \in DOMAIN todo' :
        IsHandle(todo'[i]) /\ IsHandle(todo'[j]) /\ i < j => todo'[i].handle < todo'[j].handle
  BY <1>1 DEF Allocates
<1> QED
  BY <1>3, <1>4, <1>5, <1>6 DEF Allotted

\* The driver announces the first of the handles that wait.
LEMMA SendAllotted ==
  ASSUME Types, Allotted, SendOut, IsHandle(Head(todo))
  PROVE  Allotted'
<1> DEFINE c == Head(todo).connid
           h == Head(todo).handle
<1>1. /\ todo' = Tail(todo) /\ conn' = conn /\ todo # <<>>
      /\ opened' = [opened EXCEPT ![c] = Append(@, h)]
  BY DEF SendOut, IsHandle, machines
<1>2. /\ Len(todo) \in Nat /\ 1 <= Len(todo) /\ DOMAIN todo = 1..Len(todo)
      /\ Head(todo) = todo[1] /\ Head(todo) \in Message /\ DOMAIN todo' = 1..(Len(todo) - 1)
      /\ \A i \in 1..(Len(todo) - 1) : todo'[i] = todo[i + 1]
  BY <1>1, Rest DEF Types
<1>3. c \in Connids /\ h \in 0..MaxHandle
  BY <1>2, MessageFields
<1>4. /\ Past(conn[c].next, h) /\ \A j \in DOMAIN opened[c] : opened[c][j] < h
      /\ \A j \in 2..Len(todo) : IsHandle(todo[j]) => h < todo[j].handle
  <2>1. 1 \in DOMAIN todo /\ IsHandle(todo[1]) /\ c = todo[1].connid /\ h = todo[1].handle
    BY <1>2
  <2> HIDE DEF c, h
  <2>2. Past(conn[c].next, h) /\ \A j \in DOMAIN opened[c] : opened[c][j] < h
    BY <2>1 DEF Allotted
  <2>3. ASSUME NEW j \in 2..Len(todo), IsHandle(todo[j])
        PROVE  h < todo[j].handle
    <3>1. j \in DOMAIN todo /\ 1 < j
      BY <1>2
    <3> QED
      BY <2>1, <2>3, <3>1 DEF Allotted
  <2> QED
    BY <2>2, <2>3
<1> HIDE DEF c, h
<1>5. /\ opened[c] \in Seq(0..MaxHandle) /\ Len(opened[c]) \in Nat
      /\ DOMAIN opened[c] = 1..Len(opened[c])
  BY <1>3, OpenedHandles
<1>6. /\ DOMAIN opened'[c] = 1..(Len(opened[c]) + 1) /\ opened'[c][Len(opened[c]) + 1] = h
      /\ \A i \in 1..Len(opened[c]) : opened'[c][i] = opened[c][i]
      /\ \A d \in Connids : d # c => opened'[d] = opened[d]
  <2>1. opened'[c] = Append(opened[c], h) /\ \A d \in Connids : d # c => opened'[d] = opened[d]
    BY <1>1, <1>3 DEF Types
  <2> QED
    BY <1>3, <1>5, <2>1, More
<1>7. HandlesUnique'
  <2>1. ASSUME NEW i \in DOMAIN opened'[c], NEW j \in DOMAIN opened'[c], i < j
        PROVE  opened'[c][i] < opened'[c][j]
    <3>1. CASE j = Len(opened[c]) + 1
      BY <1>4, <1>5, <1>6, <2>1, <3>1
    <3>2. CASE j # Len(opened[c]) + 1
      <4>1. i \in DOMAIN opened[c] /\ j \in DOMAIN opened[c]
        BY <1>5, <1>6, <2>1, <3>2
      <4> QED
        BY <1>3, <1>5, <1>6, <2>1, <4>1 DEF Allotted, HandlesUnique
    <3> QED
      BY <3>1, <3>2
  <2> QED
    BY <1>6, <2>1 DEF Allotted, HandlesUnique
<1>8. \A d \in Connids : \A i \in DOMAIN opened'[d] : Past(conn'[d].next, opened'[d][i])
  BY <1>1, <1>4, <1>5, <1>6 DEF Allotted
<1>9. ASSUME NEW i \in DOMAIN todo', IsHandle(todo'[i])
      PROVE  /\ Past(conn'[todo'[i].connid].next, todo'[i].handle)
             /\ \A j \in DOMAIN opened'[todo'[i].connid] :
                  opened'[todo'[i].connid][j] < todo'[i].handle
  <2> DEFINE d == todo[i + 1].connid
             g == todo[i + 1].handle
  <2>1. i + 1 \in 2..Len(todo) /\ todo'[i] = todo[i + 1]
    BY <1>2
  <2>2. d \in Connids
    BY <1>9, <2>1, MessageFields DEF Types
  <2>3. Past(conn[d].next, g) /\ (\A j \in DOMAIN opened[d] : opened[d][j] < g) /\ h < g
    <3>1. i + 1 \in DOMAIN todo /\ IsHandle(todo[i + 1])
      BY <1>2, <1>9, <2>1
    <3>2. Past(conn[d].next, g) /\ \A j \in DOMAIN opened[d] : opened[d][j] < g
      BY <3>1 DEF Allotted
    <3> QED
      BY <1>4, <2>1, <3>1, <3>2
  <2> HIDE DEF d, g
  <2>4. \A j \in DOMAIN opened'[d] : opened'[d][j] < g
    BY <1>5, <1>6, <2>2, <2>3
  <2> QED
    BY <1>1, <2>1, <2>3, <2>4 DEF d, g
<1>10. ASSUME NEW i \in DOMAIN todo', NEW j \in DOMAIN todo',
              IsHandle(todo'[i]), IsHandle(todo'[j]), i < j
       PROVE  todo'[i].handle < todo'[j].handle
  <2>1. /\ i + 1 \in DOMAIN todo /\ j + 1 \in DOMAIN todo /\ i + 1 < j + 1
        /\ todo'[i] = todo[i + 1] /\ todo'[j] = todo[j + 1]
    BY <1>2, <1>10
  <2> QED
    BY <1>10, <2>1 DEF Allotted
<1> QED
  BY <1>7, <1>8, <1>9, <1>10 DEF Allotted

\* The handles that are announced on a Connection only grow: no datagram
\* handle is given to a second stream, at the allocator's wrap-around too
\* (StreamIdAllocator, on_connection_ready).
THEOREM HandlesTheorem == Spec => []HandlesUnique
<1>1. Init => Allotted
  BY DEF Init, CoordInit, Allotted, HandlesUnique
<1>2. Types /\ Allotted /\ [Next]_vars => Allotted'
  <2> SUFFICES ASSUME Types, Allotted, [Next]_vars PROVE Allotted'
    OBVIOUS
  <2>1. CASE Handle
    BY <2>1, HandleAllotted
  <2>2. CASE SendOut /\ IsHandle(Head(todo))
    BY <2>2, SendAllotted
  <2>3. CASE todo # <<>> /\ todo' = Tail(todo) /\ UNCHANGED <<conn, opened>>
    <3>1. /\ Len(todo) \in Nat /\ 1 <= Len(todo) /\ DOMAIN todo = 1..Len(todo)
          /\ DOMAIN todo' = 1..(Len(todo) - 1)
          /\ \A i \in 1..(Len(todo) - 1) : todo'[i] = todo[i + 1]
      BY <2>3, Rest DEF Types
    <3>2. HandlesUnique'
      BY <2>3 DEF Allotted, HandlesUnique
    <3> QED
      BY <2>3, <3>1, <3>2 DEF Allotted
  <2>4. CASE (todo' = <<>> \/ todo' = todo) /\ UNCHANGED <<conn, opened>>
    <3>1. HandlesUnique'
      BY <2>4 DEF Allotted, HandlesUnique
    <3> QED
      BY <2>4, <3>1 DEF Allotted
  <2> QED
    BY <2>1, <2>2, <2>3, <2>4
       DEF Next, CoordNext, Pump, PumpAuth, PumpInvite, PumpConnected, PumpEnded,
           PumpWireConnection, Pumped, SendDtmf, Renegotiate, Register, Waits, WaiterStep, SendRequest,
           RequestFails, TimesOut, SenderDropped, GiveUp, Receive, DriverStep, DriverExits,
           EmitEvent, SendOut, SendFails, WireFails, Shutdown, ShutdownStep, Snapshot, EndOne,
           ClosePending, IsHandle, machines, vars, coordVars
<1>3. Allotted => HandlesUnique
  BY DEF Allotted
<1> QED
  BY <1>1, <1>2, <1>3, TypesTheorem, PTL DEF Spec

-----------------------------------------------------------------------------
(* No end of a Session is lost.                                            *)

\* The list q announces the end of s, with nothing before it that the substrate
\* could refuse.
Announces(q, s) ==
  (\E i \in DOMAIN q : q[i] = About("ended", s)) /\ \A i \in DOMAIN q : q[i].send = "event"

\* Whenever a Session's machine has ended, its end was announced to the adapter
\* or the running handler is about to announce it.
EndsTold == \A s \in Sids : session[s] = "Ended" => s \in reported \/ Announces(todo, s)

\* Once shutdown() is through, it or the driver has announced the end of every
\* Session that was accepted; one that is not announced was invited by the
\* last envelope, after shutdown() had looked, and is never accepted.
ShutdownTells ==
  stop = "done" => \A s \in Sids : session[s] \in {"Active", "Ending"} => s \in reported

\* shutdown() cancels the driver first, so the envelope in the driver's hand is
\* the last, and a Session that it adds finds none that could accept it.
Closing ==
  /\ stop # "no" => cancelled
  /\ stop \in {"ending", "done"} => \A s \in Sids : s \notin ending \cup reported =>
       session[s] \notin {"Active", "Ending"} /\ (session[s] = "Inviting" => hand = NoEnv)
  /\ stop = "done" => ending = {}

\* What the handlers make of a Session: its end goes on the list of what is to
\* be sent, and only one that was invited is accepted.
Moved ==
  \A s \in Sids : /\ session'[s] = "Ended" => session[s] = "Ended" \/ Announces(todo', s)
                  /\ session'[s] \in {"Active", "Ending"} => session[s] \in Live

\* The lists with an end on them.
LEMMA EndLists ==
  ASSUME NEW s \in Sids
  PROVE  /\ Announces(<<About("ended", s)>>, s) /\ Announces(<<>> \o <<About("ended", s)>>, s)
         /\ \A c \in Connids :
              Announces(<<Event([kind |-> "conn-ended", connid |-> c])>> \o <<About("ended", s)>>, s)
<1>0. About("ended", s).send = "event" /\ \A e : Event(e).send = "event"
  BY DEF About, Event
<1>1. Announces(<<About("ended", s)>>, s)
  <2> DEFINE a == About("ended", s)
             q == <<a>>
  <2>1. a.send = "event" /\ DOMAIN q = 1..1 /\ q[1] = a
    BY <1>0
  <2> HIDE DEF a, q
  <2>2. (\E i \in DOMAIN q : q[i] = a) /\ \A i \in DOMAIN q : q[i].send = "event"
    BY <2>1
  <2> QED
    BY <2>2 DEF Announces, a, q
<1>2. Announces(<<>> \o <<About("ended", s)>>, s)
  <2>1. <<>> \o <<About("ended", s)>> = <<About("ended", s)>>
    OBVIOUS
  <2> QED
    BY <1>1, <2>1
<1>3. ASSUME NEW c \in Connids
      PROVE  Announces(<<Event([kind |-> "conn-ended", connid |-> c])>> \o <<About("ended", s)>>, s)
  <2> DEFINE a == About("ended", s)
             b == Event([kind |-> "conn-ended", connid |-> c])
             q == <<b>> \o <<a>>
  <2>1. a.send = "event" /\ b.send = "event"
    BY <1>0
  <2> HIDE DEF a, b
  <2>2. DOMAIN q = 1..2 /\ q[1] = b /\ q[2] = a
    OBVIOUS
  <2> HIDE DEF q
  <2>3. (\E i \in DOMAIN q : q[i] = a) /\ \A i \in DOMAIN q : q[i].send = "event"
    BY <2>1, <2>2
  <2> QED
    BY <2>3 DEF Announces, a, b, q
<1> QED
  BY <1>1, <1>2, <1>3

\* Any handler.
LEMMA HandleMoves ==
  ASSUME Types, Handle
  PROVE  Moved
<1>1. session \in [Sids -> SessionState]
  BY DEF Types
<1>f. ASSUME UNCHANGED session PROVE Moved
  BY <1>f DEF Moved, Live
<1>2. CASE HandleUnauthenticated \/ HandleAuthResponse \/ HandleReply \/ HandleOffer \/ HandleAnswer
           \/ HandleEndConnection
  BY <1>2, <1>f DEF HandleUnauthenticated, HandleAuthResponse, HandleReply, HandleOffer,
                    HandleAnswer, HandleEndConnection, machines
<1>3. CASE HandleInvite
  <2>1. hand.sid \in Sids
    BY <1>3, EnvelopeFields DEF HandleInvite, Types, NoEnv, None
  <2>2. session' = session \/ session' = [session EXCEPT ![hand.sid] = IF @ = None THEN "Inviting" ELSE @]
    BY <1>3 DEF HandleInvite
  <2>3. \A s \in Sids : session'[s] = session[s] \/ session'[s] = "Inviting"
    BY <1>1, <2>1, <2>2
  <2> QED
    BY <2>3 DEF Moved, Live
<1>4. CASE HandleAccept
  <2>1. hand.sid \in Sids
    BY <1>4, EnvelopeFields DEF HandleAccept, HandleInput, Types, NoEnv, None
  <2>2. session' = [session EXCEPT ![hand.sid] = SessionApply(@, "Accept")]
    BY <1>4 DEF HandleAccept, HandleInput
  <2>3. \A s \in Sids : session'[s] = session[s] \/ (session'[s] = "Active" /\ session[s] = "Inviting")
    BY <1>1, <2>1, <2>2 DEF SessionApply
  <2> QED
    BY <2>3 DEF Moved, Live
<1>5. CASE HandleCancel
  <2>1. hand.sid \in Sids
    BY <1>5, EnvelopeFields DEF HandleCancel, HandleInput, Types, NoEnv, None
  <2>2. session' = [session EXCEPT ![hand.sid] = SessionApply(@, "Cancel")]
    BY <1>5 DEF HandleCancel, HandleInput
  <2>3. \A s \in Sids : \/ session'[s] = session[s]
                        \/ s = hand.sid /\ session'[s] = "Ended" /\ session[s] = "Inviting"
    BY <1>1, <2>1, <2>2 DEF SessionApply
  <2>4. session[hand.sid] = "Inviting" => todo' = <<About("ended", hand.sid)>>
    BY <1>5 DEF HandleCancel, HandleInput, Handled, SessionFits, None
  <2>5. session[hand.sid] = "Inviting" => Announces(todo', hand.sid)
    BY <2>1, <2>4, EndLists
  <2> QED
    BY <2>3, <2>5 DEF Moved, Live
<1>6. CASE HandleReady
  <2>1. hand.sid \in Sids
    BY <1>6, EnvelopeFields DEF HandleReady, Types, NoEnv, None
  <2>2. session' = session \/ session' = [session EXCEPT ![hand.sid] = SessionApply(@, "ConnectionReady")]
    BY <1>6 DEF HandleReady
  <2>3. \A s \in Sids : session'[s] = session[s] \/ (session'[s] = "Active" /\ session[s] = "Inviting")
    BY <1>1, <2>1, <2>2 DEF SessionApply
  <2> QED
    BY <2>3 DEF Moved, Live
<1>7. CASE HandleEnd
  <2>1. hand.sid \in Sids /\ (hand.type = "connection.end" => hand.connid \in Connids)
    BY <1>7, EnvelopeFields DEF HandleEnd, Types, NoEnv, None
  <2>2. \/ session' = session
        \/ /\ session' = [session EXCEPT ![hand.sid] =
                            SessionApply(SessionApply(@, "End"), "LastConnectionEnded")]
           /\ \/ todo' = <<>> \o <<About("ended", hand.sid)>>
              \/ /\ hand.type = "connection.end"
                 /\ todo' = <<Event([kind |-> "conn-ended", connid |-> hand.connid])>>
                            \o <<About("ended", hand.sid)>>
    BY <1>7 DEF HandleEnd, Handled
  <2>3. session' = session \/ Announces(todo', hand.sid)
    BY <2>1, <2>2, EndLists
  <2>4. SessionApply(SessionApply(session[hand.sid], "End"), "LastConnectionEnded") \in
          {session[hand.sid], "Ended"}
    BY <1>1, <2>1 DEF SessionApply, SessionState, Live, None
  <2>5. \A s \in Sids : session'[s] = session[s] \/ (s = hand.sid /\ session'[s] = "Ended")
    BY <1>1, <2>1, <2>2, <2>4
  <2>6. \A s \in Sids : session'[s] = session[s] \/ (session'[s] = "Ended" /\ Announces(todo', s))
    BY <1>f, <2>3, <2>5
  <2> QED
    BY <2>6 DEF Moved, Live
<1> QED
  BY <1>2, <1>3, <1>4, <1>5, <1>6, <1>7 DEF Handle

\* What the other steps do with what matters here.
LEMMA Elsewhere ==
  ASSUME [Next]_vars, ~Handle
  PROVE  UNCHANGED session /\ reported \subseteq reported'
<1>1. UNCHANGED session
  BY DEF Next, CoordNext, Pump, PumpAuth, PumpInvite, PumpConnected, PumpEnded,
         PumpWireConnection, Pumped, SendDtmf, Renegotiate, Register, Waits, WaiterStep, SendRequest,
         RequestFails, TimesOut, SenderDropped, GiveUp, Receive, DriverStep, DriverExits,
         EmitEvent, SendOut, SendFails, WireFails, Shutdown, ShutdownStep, Snapshot, EndOne,
         ClosePending, machines, vars, coordVars
<1>2. reported \subseteq reported'
  BY DEF Next, CoordNext, Pump, PumpAuth, PumpInvite, PumpConnected, PumpEnded,
         PumpWireConnection, Pumped, SendDtmf, Renegotiate, Register, Waits, WaiterStep, SendRequest,
         RequestFails, TimesOut, SenderDropped, GiveUp, Receive, DriverStep, DriverExits,
         EmitEvent, SendOut, SendFails, WireFails, Shutdown, ShutdownStep, Snapshot, EndOne,
         ClosePending, Announce, vars, coordVars
<1> QED
  BY <1>1, <1>2

\* EndsTold is inductive.
LEMMA EndsToldStep == Types /\ EndsTold /\ [Next]_vars => EndsTold'
<1> SUFFICES ASSUME Types, EndsTold, [Next]_vars, NEW s \in Sids, session'[s] = "Ended"
             PROVE  s \in reported' \/ Announces(todo', s)
  BY DEF EndsTold
<1>1. CASE Handle
  <2>1. todo = <<>> /\ UNCHANGED reported
    BY <1>1, HandleEffect DEF Effect, Types
  <2>2. ~Announces(todo, s)
    BY <2>1 DEF Announces
  <2>3. session[s] = "Ended" => s \in reported
    BY <2>2 DEF EndsTold
  <2> QED
    BY <1>1, <2>1, <2>3, HandleMoves DEF Moved
<1>2. CASE ~Handle /\ s \in reported
  BY <1>2, Elsewhere
<1>3. CASE ~Handle /\ s \notin reported
  <2>1. Announces(todo, s)
    BY <1>3, Elsewhere DEF EndsTold
  <2>2. todo \in Seq(Message)
    BY DEF Types
  <2>3. ASSUME todo # <<>>
        PROVE  /\ Head(todo) = todo[1] /\ DOMAIN todo = 1..Len(todo) /\ Len(todo) \in Nat
               /\ 1 <= Len(todo) /\ DOMAIN Tail(todo) = 1..(Len(todo) - 1)
               /\ \A i \in 1..(Len(todo) - 1) : Tail(todo)[i] = todo[i + 1]
    BY <2>2, <2>3, Rest
  <2>4. CASE EmitEvent
    <3>1. PICK i \in DOMAIN todo : todo[i] = About("ended", s)
      BY <2>1 DEF Announces
    <3>2. todo # <<>> /\ todo' = Tail(todo) /\ Announce(Head(todo).event)
      BY <2>4 DEF EmitEvent
    <3>3. CASE i = 1
      <4>1. Head(todo).event = [kind |-> "ended", sid |-> s]
        BY <2>3, <3>1, <3>2, <3>3 DEF About, Event
      <4> QED
        BY <3>2, <4>1 DEF Announce
    <3>4. CASE i # 1
      <4>1. i - 1 \in DOMAIN todo' /\ todo'[i - 1] = About("ended", s)
        BY <2>3, <3>1, <3>2, <3>4
      <4>2. \A j \in DOMAIN todo' : todo'[j].send = "event"
        <5>1. \A j \in DOMAIN todo' : j + 1 \in DOMAIN todo /\ todo'[j] = todo[j + 1]
          BY <2>3, <3>2
        <5> QED
          BY <2>1, <5>1 DEF Announces
      <4> QED
        BY <4>1, <4>2 DEF Announces
    <3> QED
      BY <3>3, <3>4
  <2>5. CASE SendOut \/ SendFails
    <3>1. todo # <<>> /\ Head(todo).send = "out"
      BY <2>5 DEF SendOut, SendFails
    <3> QED
      BY <2>1, <2>3, <3>1 DEF Announces
  <2>6. CASE ~EmitEvent /\ ~SendOut /\ ~SendFails
    <3>1. UNCHANGED todo
      BY <1>3, <2>6
      DEF Next, CoordNext, Pump, PumpAuth, PumpInvite, PumpConnected, PumpEnded,
          PumpWireConnection, Pumped, SendDtmf, Renegotiate, Register, Waits, WaiterStep, SendRequest,
          RequestFails, TimesOut, SenderDropped, GiveUp, Receive, DriverStep, DriverExits,
          WireFails, Shutdown, ShutdownStep, Snapshot, EndOne, ClosePending, vars, coordVars
    <3> QED
      BY <2>1, <3>1
  <2> QED
    BY <2>4, <2>5, <2>6
<1> QED
  BY <1>1, <1>2, <1>3

\* The end of a Session is never lost between the machine and the adapter: a
\* refused envelope ends a handler, but no handler has one before an end.
THEOREM EndsTheorem == Spec => []EndsTold
<1>1. Init => EndsTold
  BY DEF Init, CoordInit, EndsTold, None
<1> QED
  BY <1>1, EndsToldStep, TypesTheorem, PTL DEF Spec

\* Closing is inductive.
LEMMA ClosingStep == Types /\ Closing /\ [Next]_vars => Closing'
<1> SUFFICES ASSUME Types, Closing, [Next]_vars PROVE Closing'
  OBVIOUS
<1>1. CASE Handle
  <2>1. hand # NoEnv /\ hand' = NoEnv /\ UNCHANGED <<cancelled, stop, ending, reported>>
    BY <1>1, HandleEffect DEF Effect, stopping
  <2>2. Moved
    BY <1>1, HandleMoves
  <2> QED
    BY <2>1, <2>2 DEF Closing, Moved, Live
<1>2. CASE Shutdown
  BY <1>2 DEF Shutdown, Closing
<1>3. CASE Snapshot
  BY <1>3 DEF Snapshot, Closing, Live, machines
<1>4. CASE \E s \in Sids : EndOne(s)
  <2>1. PICK s \in Sids : EndOne(s)
    BY <1>4
  <2>2. /\ ending' = ending \ {s} /\ reported' = reported \cup {s} /\ stop = "ending"
        /\ UNCHANGED <<session, hand, cancelled, stop>>
    BY <2>1 DEF EndOne, Announce, machines
  <2> QED
    BY <2>2 DEF Closing
<1>5. CASE ClosePending
  BY <1>5 DEF ClosePending, Closing, machines
<1>6. CASE \E e \in Envelope : Receive(e)
  BY <1>6 DEF Receive, Closing, machines, stopping
<1>7. CASE /\ ~Handle /\ ~Shutdown /\ ~ShutdownStep /\ ~(\E e \in Envelope : Receive(e))
  <2>1. /\ UNCHANGED <<session, hand, stop, ending>> /\ (cancelled => cancelled')
        /\ reported \subseteq reported'
    <3>1. CASE Pump \/ SendDtmf \/ (\E w \in Waiters : Renegotiate(w)) \/ UNCHANGED vars
      BY <3>1, Elsewhere, <1>7
      DEF Pump, PumpAuth, PumpInvite, PumpConnected, PumpEnded, PumpWireConnection, Pumped,
          SendDtmf, Renegotiate, Register, Waits, stopping, vars, coordVars
    <3>2. CASE \E w \in Waiters : WaiterStep(w)
      BY <3>2, Elsewhere, <1>7
      DEF WaiterStep, SendRequest, RequestFails, TimesOut, SenderDropped, GiveUp, Waits, stopping
    <3>3. CASE DriverExits \/ EmitEvent \/ SendOut \/ WireFails
      BY <3>3, Elsewhere, <1>7 DEF DriverExits, EmitEvent, SendOut, WireFails, stopping
    <3>4. CASE SendFails
      <4>1. UNCHANGED <<hand, stop, ending>> /\ cancelled' = (cancelled \/ wire = "wedged")
        BY <3>4 DEF SendFails
      <4>2. cancelled => cancelled'
        BY <4>1, Zenon
      <4> QED
        BY <1>7, <4>1, <4>2, Elsewhere
    <3> QED
      BY <1>7, <3>1, <3>2, <3>3, <3>4 DEF Next, CoordNext, DriverStep
  <2> QED
    BY <2>1 DEF Closing
<1> QED
  BY <1>1, <1>2, <1>3, <1>4, <1>5, <1>6, <1>7 DEF ShutdownStep

\* When shutdown() returns, the adapter has been told of the end of every Session
\* that was ever accepted and is not ended by its machine, whatever envelope
\* the driver was working on when shutdown() looked at the machines.
THEOREM ShutdownTheorem == Spec => []ShutdownTells
<1>1. Init => Closing
  BY DEF Init, CoordInit, Closing
<1>2. Closing => ShutdownTells
  BY DEF Closing, ShutdownTells
<1> QED
  BY <1>1, <1>2, ClosingStep, TypesTheorem, PTL DEF Spec

=============================================================================
