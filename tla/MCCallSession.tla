--------------------------- MODULE MCCallSession ---------------------------
(* Scenarios for the model checker. *)
EXTENDS CallSession

Script(c, n) == [calls |-> c, reinvites |-> n]

\* Setup and hangup, the builders' own CANCEL and BYE, early media, a call rejected,
\* hold and resume, and our re-INVITEs against one of the peer.
MCScripts ==
  {Script({"SendOutboundInvite", "AcceptCall", "HangupCall"}, 0),
   Script({"SendOutboundInvite", "SendOutboundCancel"}, 0),
   Script({"SendOutboundInvite", "SendOutboundBye"}, 0),
   Script({"SendEarlyMedia", "AcceptCall"}, 0),
   Script({"RejectCall", "HangupCall"}, 0),
   Script({"SendOutboundInvite", "HoldCall", "ResumeCall"}, 0),
   Script({"SendOutboundInvite", "HoldCall"}, 1),
   Script({"SendOutboundInvite", "SendOutboundReInvite"}, 1)}

\* One CANCEL of the application's own.
CancelScript == {Script({"SendOutboundInvite", "SendOutboundCancel"}, 0)}

\* One hold.
HoldScript == {Script({"SendOutboundInvite", "HoldCall"}, 0)}
=============================================================================
