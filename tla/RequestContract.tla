-------------------------- MODULE RequestContract --------------------------
(***************************************************************************)
(* What a client transaction promises the transaction user about a request *)
(* (the TransactionEvent stream of transaction/mod.rs): outcomes are       *)
(* reported and never taken back, the end is final, and as long as the     *)
(* user listens and the manager holds the transaction, it does not end     *)
(* before an outcome was reported.                                         *)
(***************************************************************************)
CONSTANT Outcomes

VARIABLES
  reported,   \* the outcomes the user has been told of
  ended,      \* the transaction is over
  attended    \* the user listens and the manager holds the transaction

contractVars == <<reported, ended, attended>>

Init == reported = {} /\ ended = FALSE /\ attended = TRUE

Report ==
  /\ attended' = attended /\ ended' = ended
  /\ \E o \in SUBSET Outcomes : reported' = reported \cup o

End ==
  /\ attended => reported # {}
  /\ ended' = TRUE /\ UNCHANGED <<reported, attended>>

Abandon == attended' = FALSE /\ UNCHANGED <<reported, ended>>

Next == Report \/ End \/ Abandon

Spec == Init /\ [][Next]_contractVars
=============================================================================
