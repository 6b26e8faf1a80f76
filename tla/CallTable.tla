----------------------------- MODULE CallTable -----------------------------
(***************************************************************************)
(* The state table of a call session (rvoip-sip/state_tables/default.yaml) *)
(* as a set of rows.  The rows of registration, transfer, authentication,  *)
(* redirection, session refresh and glare retry are left out, the rows     *)
(* that only send a NOTIFY, an INFO or an UPDATE, and the actions that     *)
(* touch only SDP, media and the dialog's own tables: `acts' keeps what a  *)
(* row sends and what it does to pending_reinvite.                         *)
(***************************************************************************)
EXTENDS Sequences

Roles == {"UAC", "UAS"}

CallState ==
  {"Idle", "Initiating", "CancelPending", "Cancelling", "Ringing", "Answering",
   "AnsweringHangupPending", "EarlyMedia", "Active", "HoldPending", "OnHold", "Resuming",
   "Terminating", "Terminated", "Cancelled", "Failed"}

\* CallState::is_final
Final == {"Terminated", "Cancelled", "Failed"}

\* A row without next_state leaves the state alone.
Same == "same"

\* One row for every role, state and event named; `guarded' rows also need
\* HasPendingReinvite.
GuardedRows(roles, froms, ons, to, acts, guarded) ==
  [role : roles, from : froms, on : ons, to : {to}, acts : {acts}, guarded : {guarded}]
Rows(roles, froms, ons, to, acts) == GuardedRows(roles, froms, ons, to, acts, FALSE)

Failures == {"Dialog4xxFailure", "Dialog5xxFailure", "Dialog6xxFailure"}
Hangs == {"CancelCall", "HangupCall"}
Established == {"Answering", "AnsweringHangupPending", "Active", "OnHold",
                "HoldPending", "Resuming", "EarlyMedia"}

UacSetupRows == UNION {
  Rows({"UAC"}, {"Idle"}, {"MakeCall"}, "Initiating", <<"INVITE">>),
  Rows({"UAC"}, {"Initiating"}, {"Dialog180Ringing"}, "Ringing", <<>>),
  Rows({"UAC"}, {"Initiating"}, {"Dialog183SessionProgress"}, "EarlyMedia", <<>>),
  Rows({"UAC"}, {"Initiating", "Ringing", "EarlyMedia"}, {"Dialog200OK"}, "Active", <<>>)}

\* Faulty variant: the BYE does not wait for the ACK.
AnsweringHangupAtOnce == Rows({"UAS"}, {"Answering"}, {"HangupCall"}, "Terminating", <<"BYE">>)

\* A hangup between our 200 and its ACK waits for the ACK.
AnsweringHangup ==
  Rows({"UAS"}, {"Answering"}, {"HangupCall"}, "AnsweringHangupPending", <<>>)

UasSetupRows == UNION {
  Rows({"UAS"}, {"Idle"}, {"IncomingCall"}, "Ringing", <<"180">>),
  Rows({"UAS"}, {"Idle"}, {"IncomingCallAutoAccept"}, "Answering", <<"200">>),
  Rows({"UAS"}, {"Ringing", "EarlyMedia"}, {"AcceptCall"}, "Answering", <<"200">>),
  Rows({"UAS"}, {"Ringing", "EarlyMedia"}, {"SendEarlyMedia"}, "EarlyMedia", <<"183">>),
  Rows({"UAS"}, {"Answering"}, {"DialogACK"}, "Active", <<>>),
  AnsweringHangup,
  Rows({"UAS"}, {"AnsweringHangupPending"}, {"DialogACK"}, "Terminating", <<"BYE">>),
  Rows({"UAS"}, {"Answering", "AnsweringHangupPending"}, {"DialogTimeout"}, "Failed",
       <<>>),
  Rows({"UAS"}, {"Ringing"}, {"RejectCall"}, "Terminated", <<"refusal">>),
  Rows({"UAS"}, {"Ringing", "EarlyMedia"}, {"RedirectCall"}, "Terminated",
       <<"refusal">>)}

EndRows == UNION {
  Rows(Roles, {"Active"}, {"HangupCall"}, "Terminating", <<"BYE">>),
  Rows(Roles, Established, {"DialogTerminated", "DialogBYE"}, "Terminated", <<>>),
  Rows(Roles, {"Ringing"}, {"DialogBYE"}, "Terminated", <<>>),
  Rows(Roles, {"Terminating"}, {"DialogTerminated"}, "Terminated", <<>>)}

HoldRows == UNION {
  Rows(Roles, {"Active"}, {"HoldCall"}, "HoldPending", <<"re-INVITE">>),
  Rows(Roles, {"HoldPending"}, {"Dialog200OK"}, "OnHold", <<"ClearPendingReinvite">>),
  Rows(Roles, {"HoldPending"}, Failures \cup {"DialogTimeout"}, "Active",
       <<"ClearPendingReinvite">>),
  Rows(Roles, {"OnHold"}, {"ResumeCall"}, "Resuming", <<"re-INVITE">>),
  Rows(Roles, {"Resuming"}, {"Dialog200OK"}, "Active", <<"ClearPendingReinvite">>),
  Rows(Roles, {"Resuming"}, Failures \cup {"DialogTimeout"}, "OnHold",
       <<"ClearPendingReinvite">>)}

ReinviteRows == UNION {
  Rows(Roles, {"Resuming"}, {"ReinviteReceived"}, "Resuming", <<"491">>),
  Rows(Roles, {"HoldPending"}, {"ReinviteReceived"}, "OnHold",
       <<"re-200", "ClearPendingReinvite">>),
  Rows(Roles, {"Active"}, {"ReinviteReceived"}, "Active", <<"re-200">>),
  Rows(Roles, {"OnHold"}, {"ReinviteReceived"}, "OnHold", <<"re-200">>),
  GuardedRows(Roles, {"Active"}, Failures \cup {"Dialog200OK", "DialogTimeout"}, "Active",
              <<"ClearPendingReinvite">>, TRUE)}

FailureRows == UNION {
  Rows(Roles, {"Initiating"}, Failures \cup {"DialogTimeout"}, "Failed", <<>>),
  Rows({"UAC"}, {"Ringing", "EarlyMedia"}, Failures \cup {"DialogTimeout"}, "Failed",
       <<>>),
  Rows({"UAS"}, {"Ringing"}, {"DialogTimeout"}, "Failed", <<>>)}

\* Faulty variant: the CANCEL does not wait for a provisional response.
InitiatingHangupAtOnce == Rows({"UAC"}, {"Initiating"}, Hangs, "Cancelling", <<"CANCEL">>)

\* A hangup before any response waits for one.
InitiatingHangup == Rows({"UAC"}, {"Initiating"}, Hangs, "CancelPending", <<>>)

CancelRows == UNION {
  InitiatingHangup,
  Rows({"UAC"}, {"CancelPending"}, {"Dialog180Ringing", "Dialog183SessionProgress"},
       "Cancelling", <<"CANCEL">>),
  Rows({"UAC"}, {"CancelPending", "Cancelling"}, {"Dialog200OK"}, "Cancelling", <<"BYE">>),
  Rows({"UAC"}, {"CancelPending"}, Failures \cup {"DialogTimeout"}, "Cancelled",
       <<>>),
  Rows({"UAC"}, {"Ringing", "EarlyMedia"}, Hangs, "Cancelling", <<"CANCEL">>),
  Rows({"UAC"}, {"Cancelling"},
       {"Dialog487RequestTerminated", "DialogTerminated", "DialogTimeout"}, "Cancelled",
       <<>>),
  Rows({"UAS"}, {"Ringing"}, {"DialogCANCEL"}, "Cancelled", <<"487">>)}

\* What the request builders stage and send.
BuilderRows == UNION {
  Rows({"UAC"}, {"Idle"}, {"SendOutboundInvite"}, "Initiating", <<"INVITE">>),
  Rows(Roles, {"Active"}, {"SendOutboundReInvite"}, Same, <<"builder-re-INVITE">>),
  Rows(Roles, {"Active"}, {"SendOutboundBye"}, Same, <<"BYE">>),
  Rows({"UAC"}, {"Initiating"}, {"SendOutboundCancel"}, Same, <<"builder-CANCEL">>)}

Table == UNION {UacSetupRows, UasSetupRows, EndRows, HoldRows, ReinviteRows,
                FailureRows, CancelRows, BuilderRows}

=============================================================================
