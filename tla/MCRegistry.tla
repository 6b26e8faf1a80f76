------------------------------ MODULE MCRegistry ------------------------------
(***************************************************************************)
(* Values for Registry: a desk phone, the same phone's flow after it moved *)
(* to another address, and two devices without a flow, which nobody        *)
(* prefers.  Three devices may compete for two places.                     *)
(***************************************************************************)
EXTENDS Registry

Desk   == [uri |-> "desk",   flow |-> "f",    q |-> 1]
Moved  == [uri |-> "moved",  flow |-> "f",    q |-> 1]
Mobile == [uri |-> "mobile", flow |-> NoFlow, q |-> 0]
Soft   == [uri |-> "soft",   flow |-> NoFlow, q |-> 0]

MCOffers == {Desk, Moved, Mobile, Soft}
MCLists  == {<<>>, <<Desk, Mobile>>}
=============================================================================
