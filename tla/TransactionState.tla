-------------------------- MODULE TransactionState --------------------------
(***************************************************************************)
(* The vocabulary of the SIP transaction layer of sip-dialog: the four     *)
(* kinds of transaction, the RFC 3261 states, the shutdown lifecycle, and  *)
(* the table of state changes that a transaction runner accepts            *)
(* (AtomicTransactionState::validate_transition).                          *)
(***************************************************************************)

TransactionKind == {"InviteClient", "NonInviteClient",
                    "InviteServer", "NonInviteServer"}

State == {"Initial", "Calling", "Trying", "Proceeding",
          "Completed", "Confirmed", "Terminated"}

Lifecycle == {"Active", "Terminating", "Draining", "Destroyed"}

\* Successors of a state other than itself and Terminated, per kind.
Successors(kind, s) ==
  CASE kind = "InviteClient" /\ s = "Initial"       -> {"Calling"}
    [] kind = "InviteClient" /\ s = "Calling"       -> {"Proceeding", "Completed"}
    [] kind = "NonInviteClient" /\ s = "Initial"    -> {"Trying"}
    [] kind = "InviteServer" /\ s = "Initial"       -> {"Proceeding", "Completed"}
    [] kind = "InviteServer" /\ s = "Proceeding"    -> {"Completed", "Confirmed"}
    [] kind = "InviteServer" /\ s = "Completed"     -> {"Confirmed"}
    [] kind = "NonInviteServer" /\ s = "Initial"    -> {"Trying", "Proceeding"}
    [] kind \in {"NonInviteClient", "NonInviteServer"} /\ s = "Trying"
                                                    -> {"Proceeding", "Completed"}
    [] kind # "InviteServer" /\ s = "Proceeding"    -> {"Completed"}
    [] OTHER                                        -> {}

\* Faulty variant: any state may follow any other.
UncheckedTransition(kind, from, to) == to \in State

\* validate_transition: a change to the current state or to Terminated is
\* always accepted.
ValidTransition(kind, from, to) ==
  \/ to = from
  \/ to = "Terminated"
  \/ to \in Successors(kind, from)

\* How far along its life a state is; used by the properties only.
Rank(s) ==
  CASE s = "Initial"               -> 0
    [] s \in {"Calling", "Trying"} -> 1
    [] s = "Proceeding"            -> 2
    [] s = "Completed"             -> 3
    [] s = "Confirmed"             -> 4
    [] s = "Terminated"            -> 5
=============================================================================
