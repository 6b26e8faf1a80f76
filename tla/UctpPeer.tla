------------------------------- MODULE UctpPeer -------------------------------
(***************************************************************************)
(* One peer of the QUIC adapter (rvoip-quic/src/server.rs): the peer's     *)
(* coordinator and the event pump, which turns the coordinator's events    *)
(* into the Connections the rest of the system sees.                       *)
(*                                                                         *)
(* An adapter Connection is made for every invite event and is known by    *)
(* the order it was made in.  `bySid' is by_uctp_sid; a Connection's       *)
(* `routed' is its entry in `routes' (and in by_connection, which is       *)
(* always changed with it), `given' that its id has gone into an envelope  *)
(* for the peer, who may then use it for a connection of its own.          *)
(***************************************************************************)
EXTENDS UctpCoordinator

VARIABLES identity,  \* latest_auth is set
          bySid,     \* the Connection of each Session, 0 if none
          conns      \* the Connections made, and what was said of each

pumpVars == <<identity, bySid, conns>>
vars == <<coordVars, pumpVars>>

Connection == [sid : Sids, routed : BOOLEAN, identified : BOOLEAN,
               connected : BOOLEAN, ended : BOOLEAN, given : BOOLEAN]

Init == CoordInit /\ identity = FALSE /\ bySid = [s \in Sids |-> 0] /\ conns = <<>>

-----------------------------------------------------------------------------
(* The event pump.                                                         *)

Take(kind) == events # <<>> /\ Head(events).kind = kind /\ events' = Tail(events)

Pumped == UNCHANGED <<machines, hand, todo, running, wire, stopping, waiting,
                      taken, opened, reported>>

PumpAuth == Take("auth") /\ identity' = TRUE /\ Pumped /\ UNCHANGED <<bySid, conns>>

PumpInvite ==
  /\ Take("invite")
  /\ LET s == Head(events).sid IN
       /\ conns' = Append(conns, [sid |-> s, routed |-> TRUE, identified |-> identity,
                                  connected |-> FALSE, ended |-> FALSE, given |-> FALSE])
       /\ bySid' = [bySid EXCEPT ![s] = Len(conns) + 1]
  /\ Pumped /\ UNCHANGED identity

\* An event about a Session without a Connection is passed on as an orphan.
PumpConnected ==
  /\ Take("connected")
  /\ LET i == bySid[Head(events).sid] IN
       conns' = IF i = 0 THEN conns ELSE [conns EXCEPT ![i].connected = TRUE]
  /\ Pumped /\ UNCHANGED <<identity, bySid>>

\* Faulty variant: the Session's Connection is looked up and not removed.
PumpEndedKept ==
  /\ Take("ended")
  /\ LET i == bySid[Head(events).sid] IN
       conns' = IF i = 0 THEN conns
                ELSE [conns EXCEPT ![i].routed = FALSE, ![i].ended = TRUE]
  /\ Pumped /\ UNCHANGED <<identity, bySid>>

PumpEnded ==
  /\ Take("ended")
  /\ LET s == Head(events).sid
         i == bySid[s]
     IN  /\ bySid' = [bySid EXCEPT ![s] = 0]
         /\ conns' = IF i = 0 THEN conns
                     ELSE [conns EXCEPT ![i].routed = FALSE, ![i].ended = TRUE]
  /\ Pumped /\ UNCHANGED identity

Given == {i \in DOMAIN conns : conns[i].given}

\* ConnectionConnected and ConnectionEnded are passed on with the id the peer
\* uses, which is its own or one it was given; the route is left alone.
PumpWireConnection ==
  /\ \/ Take("conn-connected")
        /\ conns' \in {conns} \cup {[conns EXCEPT ![i].connected = TRUE] : i \in Given}
     \/ Take("conn-ended")
        /\ conns' \in {conns} \cup {[conns EXCEPT ![i].ended = TRUE] : i \in Given}
  /\ Pumped /\ UNCHANGED <<identity, bySid>>

Pump == PumpAuth \/ PumpInvite \/ PumpConnected \/ PumpEnded \/ PumpWireConnection

-----------------------------------------------------------------------------
\* An envelope with the id of a Connection that has a route.
Gives ==
  /\ \E i \in DOMAIN conns : conns[i].routed /\ conns' = [conns EXCEPT ![i].given = TRUE]
  /\ UNCHANGED <<identity, bySid>>

\* renegotiate_media: send_and_wait.
Renegotiate(w) == Register(w) /\ Gives

\* send_dtmf, and the stream.opened of a subscriber's stream.
SendDtmf == wire = "open" /\ Gives /\ UNCHANGED coordVars

Next == \/ CoordNext /\ UNCHANGED pumpVars
        \/ Pump
        \/ \E w \in Waiters : Renegotiate(w)
        \/ SendDtmf

Spec == Init /\ [][Next]_vars

\* The driver, the pump and a started shutdown() are tasks the runtime keeps
\* polling; timers fire.  Nothing makes the peer send, the transport fail or
\* anyone call shutdown() or send_and_wait.
Fairness ==
  /\ WF_vars(DriverStep /\ UNCHANGED pumpVars)
  /\ WF_vars(ShutdownStep /\ UNCHANGED pumpVars)
  /\ WF_vars(Pump)
  /\ \A w \in Waiters :
       WF_vars((TimesOut(w) \/ SenderDropped(w) \/ GiveUp(w)) /\ UNCHANGED pumpVars)

FairSpec == Spec /\ Fairness

-----------------------------------------------------------------------------
(* What the peer and the adapter may rely on.                              *)

\* Every variable has its type; the driver works on one envelope at a time
\* and the cap on Sessions and the event channel's capacity are respected.
TypeOK ==
  /\ authed \in BOOLEAN /\ running \in BOOLEAN /\ cancelled \in BOOLEAN
  /\ session \in [Sids -> Live \cup {None, "Ended"}]
  /\ conn \in [Connids -> [state : {None, "Negotiating", "Connected", "Ending", "Ended"},
                           offered : OfferSizes \cup {0}, announced : BOOLEAN,
                           next : 0..MaxHandle]]
  /\ hand \in Envelope \cup {NoEnv} /\ (hand # NoEnv => todo = <<>>)
  /\ Len(events) <= EventCap
  /\ wire \in {"open", "wedged", "closed"}
  /\ stop \in {"no", "snapshot", "ending", "done"} /\ ending \subseteq Sids
  /\ pending \subseteq Waiters
  /\ waiter \in [Waiters -> {"idle", "registered", "waiting", "expired",
                             "returned"}]
  /\ reported \subseteq Sids
  /\ Cardinality({s \in Sids : session[s] # None}) <= MaxSessions
  /\ identity \in BOOLEAN /\ bySid \in [Sids -> 0..Len(conns)]
  /\ \A i \in DOMAIN conns : conns[i] \in Connection

\* A Session's Connection is one that was made for it and is still routed; no
\* route is dropped without the end being reported, and an end is reported
\* with the route kept only of a Connection whose id the peer was given:
\* by_uctp_sid, by_connection and routes agree whatever the peer repeats,
\* reorders or names.
RoutesAgree ==
  /\ \A s \in Sids : bySid[s] # 0 =>
       conns[bySid[s]].sid = s /\ conns[bySid[s]].routed
  /\ \A i \in DOMAIN conns :
       /\ ~conns[i].routed => conns[i].ended
       /\ conns[i].ended /\ conns[i].routed => conns[i].given

\* While the peer can be answered, no Connection is reported without the
\* identity that authenticated it: the gate opens before the event is sent,
\* yet the event is ahead of any invite the open gate lets through.
InboundIdentified ==
  wire # "closed" => \A i \in DOMAIN conns : conns[i].identified

\* The stream handles announced on a connection only grow, so no datagram
\* handle is ever given to a second stream, at the allocator's wrap-around
\* and after repeated offers and connection.ready too.
HandlesUnique ==
  \A c \in Connids : \A i, j \in DOMAIN opened[c] :
    i < j => opened[c][i] < opened[c][j]

\* A registration in Pending belongs to a call of send_and_wait that is
\* still running: late replies, timeouts and shutdown leave none behind.
NoPendingLeak ==
  \A w \in pending : waiter[w] \in {"registered", "waiting", "expired"}

Rank == [none |-> 0, Inviting |-> 1, Active |-> 2, Ending |-> 3, Ended |-> 4]

\* A Session's machine only moves on, whatever the peer repeats: a second
\* invite never restarts one that was accepted or ended.
SessionsAdvance ==
  [][\A s \in Sids : Rank[session[s]] <= Rank[session'[s]]]_session

\* Nothing is said of a Connection whose end took its route, if the peer never
\* was given its id, although the coordinator may announce that a Session
\* connected, or ended, afterwards.
EndedIsLast ==
  [][\A i \in DOMAIN conns : ~conns[i].routed /\ ~conns[i].given => conns'[i] = conns[i]]_conns

\* The end of every Session that is alive when shutdown() looks is reported
\* to the adapter, whatever the driver is doing and even if the peer can no
\* longer be told.
ShutdownReports ==
  \A s \in Sids : (stop = "snapshot" /\ session[s] \in Live) ~> s \in reported

\* A call that waits for a correlated reply returns.
WaiterEnds ==
  \A w \in Waiters : waiter[w] = "waiting" ~> waiter[w] = "returned"
=============================================================================
