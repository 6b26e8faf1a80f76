------------------------------ MODULE UasCall ------------------------------
(***************************************************************************)
(* One inbound call: the dialog manager (sip-dialog/src/manager and        *)
(* protocol) on top of the transaction manager.  Four actors share the     *)
(* dialog: the worker that takes transaction events one at a time, the     *)
(* session's task that answers the call, the session's release of a call   *)
(* that ended or that it gave up, and the task a BYE spawns.  Any response *)
(* may be refused by the transport, which ends its handler there.          *)
(***************************************************************************)
EXTENDS InviteManager

VARIABLES
  dialog,     \* the dialog's state in `dialogs`; "Removed" once taken out
  cseq,       \* its remote_cseq: that of the INVITE or that of the BYE
  tagged,     \* it has its local tag
  linked,     \* transaction_to_dialog and the reverse indexes have the pair
  early,      \* early_dialog_lookup has it
  lookup,     \* dialog_lookup has it
  tombstone,  \* the CSeq terminated_bye_lookup keeps for it
  worker,     \* where the event worker stands
  answer,     \* where the session's answering task stands, and its response
  remover,    \* where the tasks that remove the dialog's storage stand
  gaveUp,     \* the session's setup timeout ended the call
  told,       \* the events emitted to the session layer
  byeWire     \* the responses given to BYEs

dialogVars == <<dialog, cseq, tagged, linked, early, lookup, tombstone>>
callVars == <<dialogVars, worker, answer, remover, gaveUp, told, byeWire>>
vars == <<tmVars, callVars>>

Told == {"IncomingCall", "AckReceived", "CallCancelled", "ByeReceived"}
Ends == {"CallCancelled", "ByeReceived"}
Removers == {"bye", "session"}

Init ==
  /\ ManagerInit
  /\ dialog = None /\ cseq = "INVITE" /\ tagged = FALSE /\ linked = FALSE
  /\ early = FALSE /\ lookup = FALSE /\ tombstone = None
  /\ worker = "idle" /\ answer = [at |-> "idle", with |-> None]
  /\ remover = [r \in Removers |-> "idle"]
  /\ gaveUp = FALSE /\ told = {} /\ byeWire = {}

-----------------------------------------------------------------------------
(* The event worker: process_global_transaction_event.                     *)

Take(e) == worker = "idle" /\ events # <<>> /\ Head(events) = e /\ events' = Tail(events)
tmButEvents == <<state, mapped, last, orders, index, cache, wire, acked, refused, budget>>
tmButRefused == <<state, mapped, last, orders, index, cache, wire, acked, budget>>

\* handle_initial_invite: the early dialog, the link, and IncomingCall; or a
\* refusal on the spot (420, 422), with no dialog.
HandleInvite ==
  \/ /\ Take("Invite") /\ UNCHANGED <<tmButEvents, byeTx>>
     /\ dialog' = "Early" /\ linked' = TRUE /\ early' = TRUE /\ told' = told \cup {"IncomingCall"}
     /\ UNCHANGED <<cseq, tagged, lookup, tombstone, worker, answer, remover, gaveUp, byeWire>>
  \/ /\ Take("Invite") /\ worker' = "refuse"
     /\ UNCHANGED <<tmButEvents, byeTx, dialogVars, answer, remover, gaveUp, told, byeWire>>

RefuseInvite ==
  /\ worker = "refuse" /\ worker' = "idle" /\ (SendFinal("420") \/ SendRefused("420"))
  /\ UNCHANGED <<dialogVars, answer, remover, gaveUp, told, byeWire>>

\* handle_transaction_state_change, or handle_transaction_terminated.
HandleTerminated ==
  /\ Take("Terminated") /\ linked' = FALSE /\ UNCHANGED <<tmButEvents, byeTx>>
  /\ UNCHANGED <<dialog, cseq, tagged, early, lookup, tombstone,
                 worker, answer, remover, gaveUp, told, byeWire>>

\* find_dialog_for_request for a request without a To tag, and with one; only
\* a dialog still Early is found through early_dialog_lookup.
FoundEarly == early /\ dialog = "Early"
Found == lookup \/ FoundEarly

\* A request without its tags in dialog_lookup goes on to early_dialog_lookup,
\* and takes a stale entry out of it.
EarlyLeft(sought) == IF sought THEN FoundEarly ELSE early

\* An AckReceived event finds its dialog by the link or by its tags.
HandleAck ==
  /\ Take("Ack") /\ worker' = IF linked \/ Found THEN "ack" ELSE "idle"
  /\ early' = EarlyLeft(~linked /\ ~lookup)
  /\ UNCHANGED <<tmButEvents, byeTx, dialog, cseq, tagged, linked, lookup, tombstone,
                 answer, remover, gaveUp, told, byeWire>>

\* Faulty variant: an ACK is reported whatever became of the dialog.
ReportAnyAck ==
  /\ worker = "ack" /\ worker' = "idle" /\ told' = told \cup {"AckReceived"}
  /\ UNCHANGED <<tmVars, dialogVars, answer, remover, gaveUp, byeWire>>

\* handle_ack_received_event: a Terminated dialog is skipped, a removed one is
\* not (the failed lookup counts as "not terminated").
ReportAck ==
  /\ worker = "ack" /\ worker' = "idle"
  /\ told' = IF dialog = "Terminated" THEN told ELSE told \cup {"AckReceived"}
  /\ UNCHANGED <<tmVars, dialogVars, answer, remover, gaveUp, byeWire>>

\* A CANCEL with no INVITE when it arrived is looked up again; still none, 481,
\* and it changes nothing whether that is sent or not.
HandleUnmatchedCancel ==
  /\ Take("CancelUnmatched") /\ ~mapped
  /\ UNCHANGED <<tmButEvents, byeTx, callVars>>

\* Faulty variant: the CANCEL is answered and that is all.
HandleCancelAlone ==
  /\ Take("Cancel") /\ worker' = "idle"
  /\ UNCHANGED <<tmButEvents, byeTx, dialogVars, answer, remover, gaveUp, told, byeWire>>

\* handle_cancel_request_event: 200 to the CANCEL, then the INVITE is fetched.
\* If the 200 is refused, nothing more is done.
HandleCancel ==
  \/ /\ Take("Cancel") /\ worker' = IF mapped THEN "cancel" ELSE "idle"
     /\ UNCHANGED <<tmButEvents, byeTx, dialogVars, answer, remover, gaveUp, told, byeWire>>
  \/ /\ Take("Cancel") /\ Refuse("cancelOk")
     /\ UNCHANGED <<tmButRefused, byeTx, callVars>>

\* Its 487 on the INVITE's transaction, if that is still mapped; without it the
\* dialog is left as it is.
CancelSends487 ==
  /\ worker = "cancel"
  /\ \/ SendFinal("487") /\ worker' = "cancelCache"
     \/ SendRefused("487") /\ worker' = "idle"
     \/ ~mapped /\ UNCHANGED tmVars /\ worker' = "idle"
  /\ UNCHANGED <<dialogVars, answer, remover, gaveUp, told, byeWire>>

CancelCaches ==
  /\ worker = "cancelCache" /\ worker' = "cancelEnd" /\ CacheResponse
  /\ UNCHANGED <<dialogVars, answer, remover, gaveUp, told, byeWire>>

\* terminate_dialog_for_tx_and_emit_cancelled.
CancelEndsDialog ==
  /\ worker = "cancelEnd" /\ worker' = "idle"
  /\ IF linked \/ (mapped /\ FoundEarly)
     THEN /\ dialog' = IF dialog = "Removed" THEN dialog ELSE "Terminated"
          /\ told' = told \cup {"CallCancelled"}
     ELSE UNCHANGED <<dialog, told>>
  /\ early' = EarlyLeft(~linked /\ mapped)
  /\ UNCHANGED <<tmVars, cseq, tagged, linked, lookup, tombstone,
                 answer, remover, gaveUp, byeWire>>

\* The worker's BYE is answered and its transaction released; if the response
\* is refused the transaction stays, and with it absorbs every copy of the BYE.
ReplyBye(r) == byeTx' = FALSE /\ byeWire' = byeWire \cup {r} /\ UNCHANGED refused
ReplyRefused == Refuse("byeReply") /\ UNCHANGED <<byeTx, byeWire>>

\* handle_bye_with_transaction: without a dialog, the tombstone decides.
HandleBye ==
  /\ Take("Bye") /\ early' = EarlyLeft(~lookup)
  /\ \/ Found /\ worker' = "bye" /\ UNCHANGED <<byeTx, byeWire, refused>>
     \/ ~Found /\ UNCHANGED worker /\ ReplyBye(IF tombstone = "BYE" THEN "200" ELSE "481")
     \/ ~Found /\ UNCHANGED worker /\ ReplyRefused
  /\ UNCHANGED <<tmButRefused, dialog, cseq, tagged, linked, lookup, tombstone,
                 answer, remover, gaveUp, told>>

\* classify_bye_sequence.
DuplicateBye == dialog = "Terminated" /\ cseq = "BYE"

\* process_bye_in_dialog: a dialog gone since it was looked up is an error and
\* leaves the BYE unanswered; a fresh BYE ends the dialog, and spawns the task
\* once it is answered.
ProcessBye ==
  /\ worker = "bye" /\ worker' = "idle"
  /\ IF dialog = "Removed"
     THEN UNCHANGED <<byeTx, byeWire, refused, dialog, cseq, remover>>
     ELSE /\ dialog' = "Terminated" /\ cseq' = "BYE"
          /\ \/ /\ ReplyBye("200")
                /\ remover' = IF DuplicateBye THEN remover
                              ELSE [remover EXCEPT !["bye"] = "emit"]
             \/ ReplyRefused /\ UNCHANGED remover
  /\ UNCHANGED <<tmButRefused, events, tagged, linked, early, lookup, tombstone,
                 answer, gaveUp, told>>

-----------------------------------------------------------------------------
(* The session answers: pre_send_response, send_response, the 2xx cache.   *)

\* The session accepts or rejects a call it has not been told is cancelled.
Answers ==
  /\ answer.at = "idle" /\ "IncomingCall" \in told /\ "CallCancelled" \notin told /\ ~gaveUp
  /\ \E r \in {"200", "486"} : answer' = [at |-> "prepare", with |-> r]
  /\ UNCHANGED <<tmVars, dialogVars, worker, remover, gaveUp, told, byeWire>>

\* Faulty variant: the 200 confirms the dialog whatever its state.
ConfirmAnyDialog ==
  /\ tagged' = TRUE
  /\ IF dialog = "Removed" THEN UNCHANGED <<dialog, early, lookup>>
     ELSE dialog' = "Confirmed" /\ early' = FALSE /\ lookup' = TRUE

\* Faulty variant: the confirmed dialog is not registered under its tags.
ConfirmUnregistered ==
  /\ tagged' = (dialog # "Removed") /\ UNCHANGED lookup
  /\ IF dialog = "Early" THEN dialog' = "Confirmed" /\ early' = FALSE
     ELSE UNCHANGED <<dialog, early>>

\* confirm_uas_dialog.
ConfirmDialog ==
  /\ tagged' = (dialog # "Removed")
  /\ IF dialog = "Early" THEN dialog' = "Confirmed" /\ early' = FALSE /\ lookup' = TRUE
     ELSE UNCHANGED <<dialog, early, lookup>>

\* terminate_uas_early_dialog_for_final_response.
TerminateEarlyDialog ==
  /\ UNCHANGED <<tagged, lookup>>
  /\ IF dialog = "Early" THEN dialog' = "Terminated" /\ early' = FALSE
     ELSE UNCHANGED <<dialog, early>>

PreSendResponse ==
  /\ answer.at = "prepare" /\ answer' = [answer EXCEPT !.at = "send"]
  /\ IF answer.with = "200" THEN ConfirmDialog ELSE TerminateEarlyDialog
  /\ UNCHANGED <<tmVars, cseq, linked, tombstone, worker, remover, gaveUp, told, byeWire>>

\* send_response; an error to the session if the transaction is no longer
\* mapped, if the transport refuses, or if a 2xx is sent and its runner is gone.
SendsResponse ==
  /\ answer.at = "send"
  /\ \/ SendFinal(answer.with) /\ answer' = [answer EXCEPT !.at = "cache"]
     \/ /\ \/ SendRefused(answer.with)
           \/ SendFinal(answer.with) /\ answer.with = "200" /\ state = "Terminated"
           \/ ~mapped /\ UNCHANGED tmVars
        /\ answer' = [answer EXCEPT !.at = "failed"]
  /\ UNCHANGED <<dialogVars, worker, remover, gaveUp, told, byeWire>>

CachesResponse ==
  /\ answer.at = "cache" /\ answer' = [answer EXCEPT !.at = "done"] /\ CacheResponse
  /\ UNCHANGED <<dialogVars, worker, remover, gaveUp, told, byeWire>>

-----------------------------------------------------------------------------
(* Removing the dialog: the BYE's task, and the session's release.         *)

Moves(r, from, to) == remover[r] = from /\ remover' = [remover EXCEPT ![r] = to]

\* The spawned task emits ByeReceived, then removes the storage.
ByeTells ==
  /\ Moves("bye", "emit", "drop") /\ told' = told \cup {"ByeReceived"}
  /\ UNCHANGED <<tmVars, dialogVars, worker, answer, gaveUp, byeWire>>

\* cleanup_dialog_storage_and_transactions: the transactions linked to the
\* dialog go first.
ReleasesDialog ==
  /\ Moves("session", "idle", "drop")
  /\ IF linked THEN TerminateInvite /\ cache' = None ELSE UNCHANGED tmVars
  /\ linked' = FALSE
  /\ UNCHANGED <<dialog, cseq, tagged, early, lookup, tombstone,
                 worker, answer, told, byeWire>>

\* The session was told the call is over, or it has rejected it.
SessionReleases ==
  /\ \/ Ends \cap told # {}
     \/ answer = [at |-> "done", with |-> "486"]
  /\ ReleasesDialog /\ UNCHANGED gaveUp

\* DialogTimeout in Ringing and Answering: the call was neither answered nor
\* acknowledged in time.  An INVITE without a response gets none.
SessionGivesUp ==
  /\ "IncomingCall" \in told /\ told \cap (Ends \cup {"AckReceived"}) = {}
  /\ answer.with # "486"
  /\ ReleasesDialog /\ gaveUp' = TRUE

\* Faulty variant: no tombstone.
NoTombstone == tombstone

\* insert_terminated_bye_tombstone.
Tombstone == IF dialog = "Terminated" /\ tagged THEN cseq ELSE tombstone

\* remove_dialog_storage: the tombstone, then out of `dialogs`; a dialog
\* already out ends the call there.
DropDialog(r) ==
  /\ Moves(r, "drop", IF dialog = "Removed" THEN "done" ELSE "forget")
  /\ dialog' = "Removed"
  /\ tombstone' = IF dialog = "Removed" THEN tombstone ELSE Tombstone
  /\ UNCHANGED <<tmVars, cseq, tagged, linked, early, lookup,
                 worker, answer, gaveUp, told, byeWire>>

\* Faulty variant: the key of a confirmed dialog stays.
ForgetEarlyKey(r) ==
  /\ Moves(r, "forget", "done")
  /\ early' = FALSE
  /\ UNCHANGED <<tmVars, dialog, cseq, tagged, linked, lookup, tombstone,
                 worker, answer, gaveUp, told, byeWire>>

\* ... then its lookup keys, and the cached 2xx of a transaction still linked.
ForgetDialog(r) ==
  /\ Moves(r, "forget", "done")
  /\ early' = FALSE /\ lookup' = FALSE
  /\ cache' = IF linked THEN None ELSE cache
  /\ UNCHANGED <<state, mapped, last, orders, index, byeTx, events, wire, acked, refused, budget>>
  /\ UNCHANGED <<dialog, cseq, tagged, linked, tombstone, worker, answer, gaveUp, told, byeWire>>

-----------------------------------------------------------------------------
Worker == \/ HandleInvite \/ RefuseInvite \/ HandleTerminated
          \/ HandleAck \/ ReportAck
          \/ HandleUnmatchedCancel \/ HandleCancel
          \/ CancelSends487 \/ CancelCaches \/ CancelEndsDialog
          \/ HandleBye \/ ProcessBye
AnswerStep == PreSendResponse \/ SendsResponse \/ CachesResponse
RemoverStep(r) == DropDialog(r) \/ ForgetDialog(r)
Removal == ByeTells \/ SessionReleases \/ \E r \in Removers : RemoverStep(r)

Next == \/ (Network \/ Upkeep) /\ UNCHANGED callVars
        \/ Worker \/ Answers \/ AnswerStep \/ SessionGivesUp \/ Removal

Spec == Init /\ [][Next]_vars

\* What the runtime completes once it has begun it.
Tasks == AnswerStep \/ Removal \/ ((RunnerStep \/ InviteEnds \/ Sweep) /\ UNCHANGED callVars)

\* The worker takes its events, and spawned tasks, the runner, its timers and
\* the sweep go on; the network and the session's decisions owe nothing.
FairSpec == Spec /\ WF_vars(Worker) /\ WF_vars(Tasks)

-----------------------------------------------------------------------------
(* Properties.                                                             *)

TypeOK ==
  /\ ManagerTypeOK
  /\ dialog \in {None, "Early", "Confirmed", "Terminated", "Removed"}
  /\ cseq \in {"INVITE", "BYE"} /\ tombstone \in {None, "INVITE", "BYE"}
  /\ {tagged, linked, early, lookup} \subseteq BOOLEAN
  /\ worker \in {"idle", "refuse", "ack", "cancel", "cancelCache", "cancelEnd", "bye"}
  /\ answer \in [at : {"idle", "prepare", "send", "cache", "done", "failed"},
                 with : {None, "200", "486"}]
  /\ remover \in [Removers -> {"idle", "emit", "drop", "forget", "done"}]
  /\ gaveUp \in BOOLEAN /\ told \subseteq Told /\ byeWire \subseteq {"200", "481"}

Rank(d) == CASE d = None -> 0 [] d = "Early" -> 1 [] d = "Confirmed" -> 2
             [] d = "Terminated" -> 3 [] OTHER -> 4

\* Accepting, rejecting, cancelling and hanging up race for one dialog, and
\* none of them brings it back: a dialog never returns to an earlier state.
DialogAdvances == [][Rank(dialog) <= Rank(dialog')]_dialog

\* A peer whose INVITE was answered with 200 first is not told 481 for its
\* BYE, however often it repeats it while the storage is being removed and
\* whichever responses were refused, unless the call was cancelled under it or
\* the session gave it up.
ByeHonoured ==
  (wire # <<>> /\ wire[1] = "200" /\ "CallCancelled" \notin told /\ ~gaveUp)
    => "481" \notin byeWire

\* However many copies of the BYE escape its transaction, one of them spawns
\* the task that tells the session and removes the dialog.
ByeToldOnce ==
  [][remover'["bye"] = "emit" => remover["bye"] = "idle"]_(remover["bye"])

\* The session of a dialog that still exists is told of an ACK, and starts
\* media, only when its call was really accepted: the ACK of a refusal takes
\* the same path through the worker and is dropped there.  (A session that gave
\* up no longer listens.)
AckMeansAccepted ==
  "AckReceived" \in told /\ dialog # "Removed" /\ ~gaveUp => Has(wire, "200")

\* After a BYE was answered with 200 the dialog leaves every table: neither
\* remover stops half-way because the other was first.
ByeSettles == ("200" \in byeWire) ~> (dialog = "Removed" /\ ~lookup /\ ~early)

\* An ACK that arrives while the index still has the INVITE (until T4 after the
\* transaction ended; a later one is a stray and is dropped) reaches the
\* session of the accepted call, by the link or, once the transaction ended, by
\* the dialog's tags, unless the call ends first.
AckReaches ==
  (acked /\ index # "gone" /\ dialog = "Confirmed")
    ~> ("AckReceived" \in told \/ dialog \in {"Terminated", "Removed"})

\* A CANCEL that found its INVITE leaves no INVITE without a final response,
\* unless its 200 or the 487 was refused or the session gave the call up: a
\* refused response of another handler does not stop it.
CancelSettles ==
  Has(events, "Cancel")
    ~> (wire # <<>> \/ {"cancelOk", "487"} \cap refused # {} \/ gaveUp)
=============================================================================
