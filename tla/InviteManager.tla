--------------------------- MODULE InviteManager ---------------------------
(***************************************************************************)
(* The transaction manager around one inbound call (transaction/manager):  *)
(* the map entry of the INVITE server transaction, the index that finds it *)
(* for an ACK, the cache of its 2xx, the sweep of ended transactions, and  *)
(* the events it passes to the dialog manager.  The transaction itself is  *)
(* the one ServerInvite details, reduced to its state and to the           *)
(* transitions its runner still has to execute.                            *)
(***************************************************************************)
EXTENDS Naturals, Sequences, FiniteSets

CONSTANTS MaxCancels,   \* CANCELs the network delivers
          MaxAcks,      \* ACKs of a 2xx, one for each copy the peer receives
          MaxByes,      \* BYEs, the repeated ones included
          MaxWaiting,   \* events waiting for the dialog manager at a delivery
          MaxRefusals   \* responses the transport refuses

ASSUME BoundsAssumption == {MaxCancels, MaxAcks, MaxByes, MaxWaiting, MaxRefusals} \subseteq Nat

VARIABLES
  state,      \* the INVITE server transaction's state
  mapped,     \* it is in server_transactions
  last,       \* its last_response
  orders,     \* TransitionTo commands its runner has not executed
  index,      \* its entry in server_invite_dialog_index
  cache,      \* its entry in invite_2xx_response_cache
  byeTx,      \* a BYE server transaction exists
  events,     \* transaction events the dialog manager has not taken
  wire,       \* the final responses given to the INVITE, in order
  acked,      \* an ACK for a 2xx has reached the manager
  refused,    \* the responses the transport has refused
  budget      \* what the peer may still send

tmVars == <<state, mapped, last, orders, index, cache, byeTx, events, wire, acked,
            refused, budget>>

None == "none"
Finals == {"200", "486", "487", "420"}
Others == {"cancelOk", "byeReply"}   \* the responses to a CANCEL and to a BYE
TransactionEvents == {"Invite", "Cancel", "CancelUnmatched", "Ack", "Terminated", "Bye"}

\* x is an element of the sequence s.
Has(s, x) == \E i \in DOMAIN s : s[i] = x

\* The network delivers one more message of kind r.
Spend(r) ==
  /\ Len(events) < MaxWaiting
  /\ budget[r] > 0 /\ budget' = [budget EXCEPT ![r] = @ - 1]

ManagerInit ==
  /\ state = None /\ mapped = FALSE /\ last = None /\ orders = <<>>
  /\ index = None /\ cache = None /\ byeTx = FALSE /\ events = <<>>
  /\ wire = <<>> /\ acked = FALSE /\ refused = {}
  /\ budget = [cancel |-> MaxCancels, ack |-> MaxAcks, refusalAck |-> 1, bye |-> MaxByes]

ManagerTypeOK ==
  /\ state \in {None, "Proceeding", "Completed", "Confirmed", "Terminated"}
  /\ last \in Finals \cup {None} /\ orders \in Seq({"Completed", "Terminated"})
  /\ index \in {None, "active", "retired", "gone"}
  /\ cache \in {None, "unacked", "acked"}
  /\ {mapped, byeTx, acked} \subseteq BOOLEAN
  /\ events \in Seq(TransactionEvents) /\ wire \in Seq(Finals)
  /\ refused \subseteq Finals \cup Others
  /\ budget \in [{"cancel", "ack", "refusalAck", "bye"} -> Nat]

-----------------------------------------------------------------------------
(* The transaction: its responses and its end.                             *)

\* The transition ServerInviteTransaction::send_response orders.
Order(r) == CASE r = "200" -> <<"Terminated">>
              [] r # "200" /\ state = "Proceeding" -> <<"Completed">>
              [] OTHER -> <<>>

\* send_response on a transaction the map still has: stored, put on the wire
\* whatever the state, the transition ordered.
SendFinal(r) ==
  /\ mapped
  /\ last' = r /\ wire' = Append(wire, r) /\ orders' = orders \o Order(r)
  /\ UNCHANGED <<state, mapped, index, cache, byeTx, events, acked, refused, budget>>

\* The transport refuses a response: an error to the caller of send_response.
Refuse(r) == Cardinality(refused) < MaxRefusals /\ refused' = refused \cup {r}

\* ... after the response was stored.
SendRefused(r) ==
  /\ mapped /\ Refuse(r) /\ last' = r
  /\ UNCHANGED <<state, mapped, orders, index, cache, byeTx, events, wire, acked, budget>>

\* A stored response is sent again, or for the first time if it was refused.
Resend(r) ==
  /\ wire' = IF Has(wire, r) THEN wire ELSE Append(wire, r)
  /\ UNCHANGED <<state, mapped, last, orders, index, cache, byeTx, events, acked, refused, budget>>

\* The runner sends last_response again: for a copy of the INVITE in Proceeding,
\* at Timer G in Completed.
RunnerResends ==
  /\ mapped /\ state \in {"Proceeding", "Completed"} /\ last # None /\ Resend(last)

\* cache_invite_2xx_response_for, once send_response has returned.
CacheResponse ==
  /\ cache' = IF mapped /\ last = "200" THEN "unacked" ELSE cache
  /\ UNCHANGED <<state, mapped, last, orders, index, byeTx, events, wire, acked, refused, budget>>

\* The runner executes the oldest TransitionTo; in Terminated it stops.
RunnerStep ==
  /\ orders # <<>>
  /\ LET target == Head(orders)
         moves == state = "Proceeding" \/ (state = "Completed" /\ target = "Terminated")
     IN /\ state' = IF moves THEN target ELSE state
        /\ orders' = IF state' = "Terminated" THEN <<>> ELSE Tail(orders)
        /\ events' = IF moves /\ target = "Terminated" THEN Append(events, target) ELSE events
  /\ UNCHANGED <<mapped, last, index, cache, byeTx, wire, acked, refused, budget>>

\* Timer H or Timer I ends a refused INVITE.
InviteEnds ==
  /\ state \in {"Completed", "Confirmed"} /\ state' = "Terminated"
  /\ orders' = <<>> /\ events' = Append(events, "Terminated")
  /\ UNCHANGED <<mapped, last, index, cache, byeTx, wire, acked, refused, budget>>

\* retire_server_invite_dialog_index_for: the entry lives on for T4.
Retired == IF index = "active" THEN "retired" ELSE index

\* cleanup_terminated_transaction_keys, run by the manager's tick.
Sweep ==
  /\ state = "Terminated" /\ mapped
  /\ mapped' = FALSE /\ index' = Retired
  /\ UNCHANGED <<state, last, orders, cache, byeTx, events, wire, acked, refused, budget>>

\* terminate_transaction for the INVITE: out of the map, its runner stopped
\* wherever it is, and the dialog manager told.
TerminateInvite ==
  /\ IF mapped
     THEN /\ mapped' = FALSE /\ index' = Retired
          /\ state' = "Terminated" /\ orders' = <<>> /\ events' = Append(events, "Terminated")
     ELSE UNCHANGED <<mapped, index, state, orders, events>>
  /\ UNCHANGED <<last, byeTx, wire, acked, refused, budget>>

\* A retired index entry is found expired.
IndexExpires ==
  /\ index = "retired" /\ index' = "gone"
  /\ UNCHANGED <<state, mapped, last, orders, cache, byeTx, events, wire, acked, refused, budget>>

\* retransmit_due_invite_2xx_responses: an unacknowledged 2xx is sent again; an
\* expired entry is dropped.
RetransmitDue == cache = "unacked" /\ Resend("200")

CacheExpires ==
  /\ cache # None /\ cache' = None
  /\ UNCHANGED <<state, mapped, last, orders, index, byeTx, events, wire, acked, refused, budget>>

-----------------------------------------------------------------------------
(* What the network delivers.                                              *)

\* handle_request for the INVITE: create_server_transaction indexes and maps
\* it, and the dialog manager is told.
InviteArrives ==
  /\ state = None /\ state' = "Proceeding" /\ mapped' = TRUE /\ index' = "active"
  /\ events' = Append(events, "Invite")
  /\ UNCHANGED <<last, orders, cache, byeTx, wire, acked, refused, budget>>

\* handle_request for a copy of it: the cached 2xx of an ended transaction is
\* sent again.  (RunnerResends is a live transaction's part; a copy that matches
\* nothing begins another call.)
InviteRepeated ==
  /\ cache # None /\ (mapped => state = "Terminated") /\ Resend("200")

\* create_server_transaction for a CANCEL looks the INVITE up in the map.
CancelArrives ==
  /\ state # None /\ Spend("cancel")
  /\ events' = Append(events, IF mapped THEN "Cancel" ELSE "CancelUnmatched")
  /\ UNCHANGED <<state, mapped, last, orders, index, cache, byeTx, wire, acked, refused>>

\* mark_invite_2xx_response_cache_acked.
Marked == IF cache = "unacked" THEN "acked" ELSE cache

\* handle_ack_request by the dialog index.  Without an entry the ACK is a
\* stray one, an event the dialog manager drops.
AckByIndex ==
  /\ UNCHANGED state
  /\ IF index \in {"active", "retired"}
     THEN cache' = Marked /\ events' = Append(events, "Ack")
     ELSE UNCHANGED <<cache, events>>

\* The ACK of a 2xx, whose branch is its own.
AckArrives ==
  /\ Has(wire, "200") /\ Spend("ack") /\ acked' = TRUE
  /\ AckByIndex
  /\ UNCHANGED <<mapped, last, orders, index, byeTx, wire, refused>>

\* The ACK of a refusal, matched by branch while the transaction is mapped.
AckOfRefusal ==
  /\ \E r \in Finals \ {"200"} : Has(wire, r)
  /\ Spend("refusalAck")
  /\ IF mapped /\ state # "Confirmed"
     THEN /\ cache' = Marked
          /\ state' = IF state = "Completed" THEN "Confirmed" ELSE state
          /\ events' = IF state = "Completed" THEN Append(events, "Ack") ELSE events
     ELSE AckByIndex
  /\ UNCHANGED <<mapped, last, orders, index, byeTx, wire, acked, refused>>

\* A BYE: a copy that finds a BYE transaction is absorbed by it.
ByeArrives ==
  /\ Has(wire, "200") /\ Spend("bye") /\ byeTx' = TRUE
  /\ events' = IF byeTx THEN events ELSE Append(events, "Bye")
  /\ UNCHANGED <<state, mapped, last, orders, index, cache, wire, acked, refused>>

Network == \/ InviteArrives \/ InviteRepeated \/ CancelArrives
           \/ AckArrives \/ AckOfRefusal \/ ByeArrives
Upkeep == \/ RunnerStep \/ RunnerResends \/ InviteEnds \/ Sweep
          \/ IndexExpires \/ RetransmitDue \/ CacheExpires

=============================================================================
