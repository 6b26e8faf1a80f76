-------------------------- MODULE CallSessionProofs --------------------------
(***************************************************************************)
(* Theorems about a call session of rvoip-sip, for any scripts of API      *)
(* calls, any number of re-INVITEs and any refusals of the transport.      *)
(*                                                                         *)
(* On any number of threads its variables have their types, BYE waits for  *)
(* the ACK, the CANCEL of a hangup waits for a provisional response, and   *)
(* the end of a call is on its way to the application until it is told.    *)
(*                                                                         *)
(* The tasks work on copies of the record and save them late, so what a    *)
(* session may not do yet must be absent from the store, from every copy,  *)
(* from the rows the tasks are in the middle of and from the wire.  The    *)
(* first three theorems are one lemma: a step keeps the session within the *)
(* states, events and actions outside S, E and A, if the state table does. *)
(* The last follows each task  through its row, from an invariant        *)
(* (Common): which task has which event, that a session the          *)
(* application knows of is in the store until its end was published, and   *)
(* how far a call that is being set up has come.                           *)
(***************************************************************************)
EXTENDS CallSession, SequenceTheorems, TLAPS

\* The types of TypeOK without the states of S, the events of E, the actions of A.
RecordBut(S) == [state : CallState \ S, since : Events \cup {None}, pending : BOOLEAN]
TaskBut(S, E, A) ==
  [at : Places, on : (Events \cup {None}) \ E, seen : CallState \cup {None}, copy : RecordBut(S),
   ok : BOOLEAN, to : (CallState \cup {None, Same}) \ S, acts : Seq(Acts \ A)]

\* The session within those types; a task about to commit has a state to commit.
Within(S, E, A) ==
  /\ rec \in RecordBut(S) /\ task \in [Tasks -> TaskBut(S, E, A)] /\ wire \subseteq Acts \ A
  /\ \A t \in Tasks : task[t].at = "commit" => task[t].to \in CallState

\* The state table does not lead out: a row for a state outside S and an event
\* outside E leads to a state outside S, with actions outside A.
TableWithin(S, E, A) ==
  /\ S \subseteq CallState \ {"Idle"} /\ "491" \notin A
  /\ E \cap (ApiCalls \cup {"DialogTimeout", None}) = {}
  /\ \A x \in Table : x.role = role /\ x.from \notin S /\ x.on \notin E =>
       x.to \in (CallState \cup {Same}) \ S /\ x.acts \in Seq(Acts \ A)

WorkerEvents == {"IncomingCall", "Dialog180Ringing", "Dialog183SessionProgress", "Dialog200OK",
                 "Dialog4xxFailure", "Dialog487RequestTerminated", "DialogTerminated", "DialogBYE",
                 "DialogACK", "ReinviteReceived"}

-----------------------------------------------------------------------------
(* The state table.                                                        *)

\* The states after the ACK (called side), those a provisional response leads
\* to (calling side), and its events.
Connected == {"Active", "HoldPending", "OnHold", "Resuming"}
Proceeding == {"Ringing", "EarlyMedia"}
Progress == {"Dialog180Ringing", "Dialog183SessionProgress"}

\* The lists of actions a row may have.
ActNames == Sends \cup {"ClearPendingReinvite"}
Lists == {<<>>, <<"re-200", "ClearPendingReinvite">>} \cup {<<a>> : a \in ActNames}

\* Where a row leads: into Connected only from there or by the ACK, into
\* Proceeding (calling side) only from there or by a provisional response.
Leads(x) ==
  /\ x.to \in CallState \cup {Same}
  /\ x.role = "UAS" /\ x.from \notin Connected /\ x.on # "DialogACK" => x.to \notin Connected
  /\ x.role = "UAC" /\ x.from \notin Proceeding /\ x.on \notin Progress => x.to \notin Proceeding

\* What a row does: the called side sends no CANCEL, and BYE and CANCEL wait.
Does(x) ==
  /\ x.acts \in Lists /\ (x.role = "UAS" => x.acts # <<"CANCEL">>)
  /\ x.role = "UAS" /\ x.from \notin Connected /\ x.on # "DialogACK" => x.acts # <<"BYE">>
  /\ x.role = "UAC" /\ x.from \notin Proceeding /\ x.on \notin Progress => x.acts # <<"CANCEL">>

\* What a family of rows is made of.
LEMMA RowFields ==
  ASSUME NEW roles, NEW froms, NEW ons, NEW to, NEW acts,
         NEW x \in Rows(roles, froms, ons, to, acts)
  PROVE  x.role \in roles /\ x.from \in froms /\ x.on \in ons /\ x.to = to /\ x.acts = acts
BY DEF GuardedRows, Rows

\* Every row of the table leads where it may and does what it may.
LEMMA RowsAllowed ==
  ASSUME NEW x \in Table
  PROVE  Leads(x) /\ Does(x)
<1> USE DEF Leads, Does, Lists, ActNames, Sends, CallState, Connected, Progress, Proceeding
<1>1. CASE x \in UacSetupRows
  <2>1. Leads(x)
    BY <1>1, RowFields DEF UacSetupRows
  <2>2. Does(x)
    BY <1>1, RowFields DEF UacSetupRows
  <2> QED
    BY <2>1, <2>2
<1>2. CASE x \in UasSetupRows
  <2>1. Leads(x)
    BY <1>2, RowFields DEF UasSetupRows, AnsweringHangup
  <2>2. Does(x)
    BY <1>2, RowFields DEF UasSetupRows, AnsweringHangup
  <2> QED
    BY <2>1, <2>2
<1>3. CASE x \in EndRows
  <2>1. Leads(x)
    BY <1>3, RowFields DEF EndRows, Roles, Established, Same
  <2>2. Does(x)
    BY <1>3, RowFields DEF EndRows, Roles, Established, Same
  <2> QED
    BY <2>1, <2>2
<1>4. CASE x \in HoldRows
  <2>1. Leads(x)
    BY <1>4, RowFields DEF HoldRows, Roles, Failures
  <2>2. Does(x)
    BY <1>4, RowFields DEF HoldRows, Roles, Failures
  <2> QED
    BY <2>1, <2>2
<1>5. CASE x \in ReinviteRows
  <2> DEFINE G == GuardedRows(Roles, {"Active"}, Failures \cup {"Dialog200OK", "DialogTimeout"},
                          "Active", <<"ClearPendingReinvite">>, TRUE)
             R == UNION {
        Rows(Roles, {"Resuming"}, {"ReinviteReceived"}, "Resuming", <<"491">>),
        Rows(Roles, {"HoldPending"}, {"ReinviteReceived"}, "OnHold",
             <<"re-200", "ClearPendingReinvite">>),
        Rows(Roles, {"Active"}, {"ReinviteReceived"}, "Active", <<"re-200">>),
        Rows(Roles, {"OnHold"}, {"ReinviteReceived"}, "OnHold", <<"re-200">>)}
  <2>1. x \in G \/ x \in R
    BY <1>5 DEF ReinviteRows
  <2>2. CASE x \in G
    <3>1. x.from = "Active" /\ x.to = "Active" /\ x.acts = <<"ClearPendingReinvite">>
      BY <2>2 DEF GuardedRows
    <3> QED
      BY <3>1
  <2>3. CASE x \in R
    <3>1. Leads(x)
      BY <2>3, RowFields DEF Same, Roles
    <3>2. Does(x)
      BY <2>3, RowFields DEF Roles
    <3> QED
      BY <3>1, <3>2
  <2> QED
    BY <2>1, <2>2, <2>3
<1>6. CASE x \in FailureRows
  <2>1. Leads(x)
    BY <1>6, RowFields DEF FailureRows, Roles, Failures
  <2>2. Does(x)
    BY <1>6, RowFields DEF FailureRows, Roles, Failures
  <2> QED
    BY <2>1, <2>2
<1>7. CASE x \in CancelRows
  <2>1. Leads(x)
    BY <1>7, RowFields DEF CancelRows, InitiatingHangup, Hangs, Failures, Same
  <2>2. Does(x)
    BY <1>7, RowFields DEF CancelRows, InitiatingHangup, Hangs, Failures, Same
  <2> QED
    BY <2>1, <2>2
<1>8. CASE x \in BuilderRows
  <2>1. Leads(x)
    BY <1>8, RowFields DEF BuilderRows, Roles, Same
  <2>2. Does(x)
    BY <1>8, RowFields DEF BuilderRows, Roles, Same
  <2> QED
    BY <2>1, <2>2
<1> QED
  BY <1>1, <1>2, <1>3, <1>4, <1>5, <1>6, <1>7, <1>8 DEF Table

\* A list of actions has BYE or CANCEL only if that is all it has.
LEMMA ListsOf ==
  ASSUME NEW l \in Lists
  PROVE  /\ l \in Seq(ActNames)
         /\ l # <<"BYE">> => \A i \in DOMAIN l : l[i] # "BYE"
         /\ l # <<"CANCEL">> => \A i \in DOMAIN l : l[i] # "CANCEL"
<1>1. CASE l = <<>>
  BY <1>1
<1>2. CASE l = <<"re-200", "ClearPendingReinvite">>
  BY <1>2 DEF ActNames, Sends
<1>3. ASSUME NEW a \in ActNames, l = <<a>>
      PROVE  /\ l \in Seq(ActNames)
             /\ l # <<"BYE">> => \A i \in DOMAIN l : l[i] # "BYE"
             /\ l # <<"CANCEL">> => \A i \in DOMAIN l : l[i] # "CANCEL"
  BY <1>3
<1> QED
  BY <1>1, <1>2, <1>3 DEF Lists

\* The actions of a row are actions of the table.
LEMMA RowActs ==
  ASSUME NEW x \in Table, NEW A, \A i \in DOMAIN x.acts : x.acts[i] \notin A
  PROVE  x.acts \in Seq(Acts \ A)
<1>1. x.acts \in Seq(ActNames)
  BY RowsAllowed, ListsOf DEF Does
<1>2. \A i \in 1..Len(x.acts) : x.acts[i] \in Acts \ A
  BY <1>1 DEF Acts
<1> QED
  BY <1>1, <1>2

\* A family of rows has a row for each of its events.
LEMMA RowExists ==
  ASSUME NEW roles, NEW froms, NEW ons, NEW to, NEW acts, NEW r \in roles, NEW f \in froms,
         NEW e \in ons, Rows(roles, froms, ons, to, acts) \subseteq Table
  PROVE  e \in Events /\ \A i \in DOMAIN acts : acts[i] \in Acts
<1> DEFINE x == [role |-> r, from |-> f, on |-> e, to |-> to, acts |-> acts, guarded |-> FALSE]
<1>1. x \in Table
  BY DEF Rows, GuardedRows
<1> QED
  BY <1>1 DEF Events, Acts

\* Every event the tasks process is in the table, and so is the 491.
LEMMA EventsListed ==
  ApiCalls \cup WorkerEvents \cup {"DialogTimeout"} \subseteq Events /\ "491" \in Acts
<1>1. {"Dialog180Ringing", "Dialog183SessionProgress"} \subseteq Events
  <2>1. /\ Rows({"UAC"}, {"Initiating"}, {"Dialog180Ringing"}, "Ringing", <<>>) \subseteq Table
        /\ Rows({"UAC"}, {"Initiating"}, {"Dialog183SessionProgress"}, "EarlyMedia", <<>>)
             \subseteq Table
    BY DEF Table, UacSetupRows
  <2> QED
    BY <2>1, RowExists
<1>2. {"IncomingCall", "AcceptCall", "SendEarlyMedia", "DialogACK", "RejectCall"} \subseteq Events
  <2>1. /\ Rows({"UAS"}, {"Idle"}, {"IncomingCall"}, "Ringing", <<"180">>) \subseteq Table
        /\ Rows({"UAS"}, {"Ringing", "EarlyMedia"}, {"AcceptCall"}, "Answering", <<"200">>)
             \subseteq Table
        /\ Rows({"UAS"}, {"Ringing", "EarlyMedia"}, {"SendEarlyMedia"}, "EarlyMedia", <<"183">>)
             \subseteq Table
        /\ Rows({"UAS"}, {"Answering"}, {"DialogACK"}, "Active", <<>>) \subseteq Table
        /\ Rows({"UAS"}, {"Ringing"}, {"RejectCall"}, "Terminated", <<"refusal">>) \subseteq Table
    BY DEF Table, UasSetupRows
  <2> QED
    BY <2>1, RowExists
<1>3. {"HangupCall", "DialogBYE", "DialogTerminated"} \subseteq Events
  <2>1. /\ Rows(Roles, {"Active"}, {"HangupCall"}, "Terminating", <<"BYE">>) \subseteq Table
        /\ Rows(Roles, {"Ringing"}, {"DialogBYE"}, "Terminated", <<>>) \subseteq Table
        /\ Rows(Roles, {"Terminating"}, {"DialogTerminated"}, "Terminated", <<>>) \subseteq Table
    BY DEF Table, EndRows
  <2> QED
    BY <2>1, RowExists DEF Roles
<1>4. {"HoldCall", "ResumeCall", "Dialog200OK", "Dialog4xxFailure", "DialogTimeout"} \subseteq Events
  <2>1. /\ Rows(Roles, {"Active"}, {"HoldCall"}, "HoldPending", <<"re-INVITE">>) \subseteq Table
        /\ Rows(Roles, {"OnHold"}, {"ResumeCall"}, "Resuming", <<"re-INVITE">>) \subseteq Table
        /\ Rows(Roles, {"HoldPending"}, {"Dialog200OK"}, "OnHold", <<"ClearPendingReinvite">>)
             \subseteq Table
        /\ Rows(Roles, {"HoldPending"}, Failures \cup {"DialogTimeout"}, "Active",
                <<"ClearPendingReinvite">>) \subseteq Table
    BY DEF Table, HoldRows
  <2> QED
    BY <2>1, RowExists DEF Roles, Failures
<1>5. "ReinviteReceived" \in Events /\ "491" \in Acts
  <2>1. Rows(Roles, {"Resuming"}, {"ReinviteReceived"}, "Resuming", <<"491">>) \subseteq Table
    BY DEF Table, ReinviteRows
  <2>2. "ReinviteReceived" \in Events /\ \A i \in DOMAIN <<"491">> : <<"491">>[i] \in Acts
    BY <2>1, RowExists DEF Roles
  <2> QED
    BY <2>2
<1>6. "Dialog487RequestTerminated" \in Events
  <2>1. Rows({"UAC"}, {"Cancelling"},
             {"Dialog487RequestTerminated", "DialogTerminated", "DialogTimeout"}, "Cancelled",
             <<>>) \subseteq Table
    BY DEF Table, CancelRows
  <2> QED
    BY <2>1, RowExists
<1>7. Builders \subseteq Events
  <2>1. /\ Rows({"UAC"}, {"Idle"}, {"SendOutboundInvite"}, "Initiating", <<"INVITE">>) \subseteq Table
        /\ Rows(Roles, {"Active"}, {"SendOutboundReInvite"}, Same, <<"builder-re-INVITE">>)
             \subseteq Table
        /\ Rows(Roles, {"Active"}, {"SendOutboundBye"}, Same, <<"BYE">>) \subseteq Table
        /\ Rows({"UAC"}, {"Initiating"}, {"SendOutboundCancel"}, Same, <<"builder-CANCEL">>)
             \subseteq Table
    BY DEF Table, BuilderRows
  <2> QED
    BY <2>1, RowExists DEF Roles, Builders
<1> QED
  BY <1>1, <1>2, <1>3, <1>4, <1>5, <1>6, <1>7 DEF ApiCalls, WorkerEvents

-----------------------------------------------------------------------------
(* A step keeps the session within what the table allows.                  *)

\* A fresh record and a task at rest are within.
LEMMA RestWithin ==
  ASSUME NEW S, NEW E, NEW A, TableWithin(S, E, A)
  PROVE  Fresh \in RecordBut(S) /\ Rest \in TaskBut(S, E, A)
<1>1. Fresh \in RecordBut(S)
  BY DEF TableWithin, Fresh, RecordBut, CallState
<1>2. None \notin S /\ None \notin E
  BY DEF TableWithin, None, CallState
<1> QED
  BY <1>1, <1>2 DEF Rest, TaskBut, Places

\* A task may be given any task record that is within.
LEMMA TaskChanges ==
  ASSUME NEW S, NEW E, NEW A, Within(S, E, A), NEW t \in Tasks, NEW v \in TaskBut(S, E, A),
         v.at # "commit" \/ v.to \in CallState, task' = [task EXCEPT ![t] = v]
  PROVE  /\ task' \in [Tasks -> TaskBut(S, E, A)]
         /\ \A u \in Tasks : task'[u].at = "commit" => task'[u].to \in CallState
BY DEF Within

\* process_event returns.
LEMMA ReturnWithin ==
  ASSUME NEW S, NEW E, NEW A, TableWithin(S, E, A), Within(S, E, A), NEW t \in Tasks,
         NEW ok \in BOOLEAN, Return(t, ok)
  PROVE  /\ task' \in [Tasks -> TaskBut(S, E, A)]
         /\ \A u \in Tasks : task'[u].at = "commit" => task'[u].to \in CallState
<1>1. task[t] \in TaskBut(S, E, A) /\ task \in [Tasks -> TaskBut(S, E, A)]
  BY DEF Within
<1>2. Fresh \in RecordBut(S) /\ Rest \in TaskBut(S, E, A) /\ Rest.at # "commit"
  BY RestWithin DEF Rest
<1>3. CASE task[t].on \in Quiet
  <2>1. task' = [task EXCEPT ![t] = Rest]
    BY <1>1, <1>3 DEF Return
  <2> QED
    BY <1>2, <2>1, TaskChanges
<1>4. CASE task[t].on \notin Quiet
  <2> DEFINE v == [task[t] EXCEPT !.at = "after", !.ok = ok, !.acts = <<>>, !.copy = Fresh]
  <2>1. task' = [task EXCEPT ![t] = v]
    BY <1>1, <1>4 DEF Return
  <2>2. <<>> \in Seq(Acts \ A)
    OBVIOUS
  <2>3. v \in TaskBut(S, E, A)
    BY <1>1, <1>2, <2>2 DEF TaskBut, Places
  <2>4. v.at # "commit"
    BY <1>1 DEF TaskBut
  <2> QED
    BY <2>1, <2>3, <2>4, TaskChanges
<1> QED
  BY <1>3, <1>4

\* get_session and the lookup.
LEMMA LoadWithin ==
  ASSUME NEW S, NEW E, NEW A, TableWithin(S, E, A), Within(S, E, A), NEW t \in Tasks, Load(t)
  PROVE  Within(S, E, A)'
<1>1. task[t] \in TaskBut(S, E, A) /\ rec \in RecordBut(S) /\ UNCHANGED rec
  BY DEF Within, Load, storeVars
<1>2. CASE Return(t, FALSE) /\ UNCHANGED wire
  BY <1>1, <1>2, ReturnWithin DEF Within
<1>3. CASE task' = [task EXCEPT ![t].at = "save", ![t].copy = rec] /\ UNCHANGED wire
  <2> DEFINE v == [task[t] EXCEPT !.at = "save", !.copy = rec]
  <2>1. task' = [task EXCEPT ![t] = v]
    BY <1>1, <1>3 DEF Within
  <2>2. v \in TaskBut(S, E, A) /\ v.at # "commit"
    BY <1>1 DEF TaskBut, Places
  <2> HIDE DEF v
  <2> QED
    BY <1>1, <1>3, <2>1, <2>2, TaskChanges DEF Within
<1>4. CASE Return(t, TRUE) /\ wire' = wire \cup {"491"}
  <2>1. wire' \subseteq Acts \ A
    BY <1>4, EventsListed DEF Within, TableWithin
  <2> QED
    BY <1>1, <1>4, <2>1, ReturnWithin DEF Within
<1>5. ASSUME NEW row \in Lookup(rec, task[t].on), UNCHANGED wire,
             task' = [task EXCEPT ![t].at = IF row.to = Same THEN "act" ELSE "commit",
                                  ![t].copy = rec, ![t].to = row.to, ![t].acts = row.acts]
      PROVE  Within(S, E, A)'
  <2> DEFINE v == [task[t] EXCEPT !.at = IF row.to = Same THEN "act" ELSE "commit",
                                  !.copy = rec, !.to = row.to, !.acts = row.acts]
  <2>1. row \in Table /\ row.role = role /\ row.from \notin S /\ row.on \notin E
    BY <1>1 DEF Lookup, RecordBut, TaskBut
  <2>2. row.to \in (CallState \cup {Same}) \ S /\ row.acts \in Seq(Acts \ A)
    BY <2>1 DEF TableWithin
  <2>3. task' = [task EXCEPT ![t] = v]
    BY <1>1, <1>5 DEF Within
  <2>4. v \in TaskBut(S, E, A)
    BY <1>1, <2>2 DEF TaskBut, Places
  <2>5. v.at # "commit" \/ v.to \in CallState
    BY <1>1, <2>2 DEF TaskBut
  <2> QED
    BY <1>1, <1>5, <2>3, <2>4, <2>5, TaskChanges DEF Within
<1> QED
  BY <1>2, <1>3, <1>4, <1>5 DEF Load

\* update_session with the next state.
LEMMA CommitWithin ==
  ASSUME NEW S, NEW E, NEW A, TableWithin(S, E, A), Within(S, E, A), NEW t \in Tasks, Commit(t)
  PROVE  Within(S, E, A)'
<1> DEFINE r == [task[t].copy EXCEPT !.state = task[t].to, !.since = task[t].on]
           v == [task[t] EXCEPT !.at = "act", !.copy = r]
<1>1. task[t] \in TaskBut(S, E, A) /\ task[t].to \in CallState /\ UNCHANGED wire
  BY DEF Within, Commit
<1>2. r \in RecordBut(S) /\ rec' = r
  BY <1>1 DEF Commit, RecordBut, TaskBut
<1>3. v \in TaskBut(S, E, A) /\ v.at # "commit"
  BY <1>1, <1>2 DEF TaskBut, Places
<1>4. task' = [task EXCEPT ![t] = v]
  BY <1>1 DEF Commit, Within
<1> HIDE DEF r, v
<1> QED
  BY <1>1, <1>2, <1>3, <1>4, TaskChanges DEF Within

\* execute_action.
LEMMA ActWithin ==
  ASSUME NEW S, NEW E, NEW A, TableWithin(S, E, A), Within(S, E, A), NEW t \in Tasks, Act(t)
  PROVE  Within(S, E, A)'
<1> DEFINE a == Head(task[t].acts)
           r == [task[t].copy EXCEPT !.pending = PendingAfter(a, @)]
           v == [task[t] EXCEPT !.acts = Tail(@), !.copy = r]
<1>1. task[t] \in TaskBut(S, E, A) /\ task[t].acts # <<>> /\ task[t].at = "act"
  BY DEF Within, Act
<1>2. a \in Acts \ A /\ Tail(task[t].acts) \in Seq(Acts \ A)
  BY <1>1 DEF TaskBut
<1>3. r \in RecordBut(S)
  BY <1>1 DEF RecordBut, TaskBut, PendingAfter
<1>4. rec' \in RecordBut(S)
  BY <1>3 DEF Act, Within
<1>5. v \in TaskBut(S, E, A) /\ v.at # "commit"
  BY <1>1, <1>2, <1>3 DEF TaskBut
<1>6. CASE wire' = wire \cup ({a} \cap Sends) /\ task' = [task EXCEPT ![t].acts = Tail(@), ![t].copy = r]
  <2>1. task' = [task EXCEPT ![t] = v]
    BY <1>1, <1>6 DEF Within
  <2>2. wire' \subseteq Acts \ A
    BY <1>2, <1>6 DEF Within
  <2> HIDE DEF v, r, a
  <2> QED
    BY <1>4, <1>5, <2>1, <2>2, TaskChanges DEF Within
<1>7. CASE Return(t, FALSE) /\ UNCHANGED wire
  BY <1>4, <1>7, ReturnWithin DEF Within
<1> QED
  BY <1>6, <1>7 DEF Act

\* The merge and the save, and a builder's write of its options.
LEMMA SaveWithin ==
  ASSUME NEW S, NEW E, NEW A, TableWithin(S, E, A), Within(S, E, A), NEW t \in Tasks,
         Merge(t) \/ Save(t) \/ Stage(t)
  PROVE  Within(S, E, A)'
<1>1. task[t] \in TaskBut(S, E, A) /\ rec \in RecordBut(S) /\ UNCHANGED wire
  BY DEF Within, Merge, Save, Stage
<1>2. CASE Merge(t)
  <2> DEFINE r == task[t].copy
             c == IF present /\ rec.state # r.state
                  THEN [r EXCEPT !.state = rec.state, !.since = rec.since] ELSE r
             v == [task[t] EXCEPT !.at = "save", !.copy = c]
  <2>1. c \in RecordBut(S)
    BY <1>1 DEF RecordBut, TaskBut
  <2>2. v \in TaskBut(S, E, A) /\ v.at # "commit"
    BY <1>1, <2>1 DEF TaskBut, Places
  <2>3. task' = [task EXCEPT ![t] = v] /\ UNCHANGED rec
    BY <1>1, <1>2 DEF Merge, Within, storeVars
  <2> HIDE DEF v, c
  <2> QED
    BY <1>1, <2>2, <2>3, TaskChanges DEF Within
<1>3. CASE Save(t)
  <2>1. rec' \in RecordBut(S)
    BY <1>1, <1>3 DEF Save, TaskBut
  <2> QED
    BY <1>1, <1>3, <2>1, ReturnWithin DEF Save, Within
<1>4. CASE Stage(t)
  <2> DEFINE v == [task[t] EXCEPT !.at = "load", !.copy = Fresh]
  <2>1. v \in TaskBut(S, E, A) /\ v.at # "commit"
    BY <1>1, RestWithin DEF TaskBut, Places
  <2>2. task' = [task EXCEPT ![t] = v] /\ rec' \in RecordBut(S)
    BY <1>1, <1>4 DEF Stage, Within, TaskBut
  <2> HIDE DEF v
  <2> QED
    BY <1>1, <2>1, <2>2, TaskChanges DEF Within
<1> QED
  BY <1>2, <1>3, <1>4

\* A watchdog fires or ends.
LEMMA WatchWithin ==
  ASSUME NEW S, NEW E, NEW A, TableWithin(S, E, A), Within(S, E, A), NEW w \in Watches,
         WatchFires(w) \/ WatchEnds(w)
  PROVE  Within(S, E, A)'
<1>1. w \in Tasks /\ task[w] \in TaskBut(S, E, A) /\ UNCHANGED <<rec, wire>>
  BY DEF Within, WatchFires, WatchEnds, storeVars, Tasks
<1>2. CASE UNCHANGED task
  BY <1>1, <1>2 DEF Within
<1>3. CASE task' = [task EXCEPT ![w].at = "load", ![w].on = "DialogTimeout"]
  <2> DEFINE v == [task[w] EXCEPT !.at = "load", !.on = "DialogTimeout"]
  <2>1. "DialogTimeout" \in (Events \cup {None}) \ E
    BY EventsListed DEF TableWithin
  <2>2. v \in TaskBut(S, E, A)
    BY <1>1, <2>1 DEF TaskBut, Places
  <2>3. v.at # "commit"
    BY <1>1 DEF TaskBut
  <2>4. task' = [task EXCEPT ![w] = v]
    BY <1>1, <1>3 DEF Within
  <2> HIDE DEF v
  <2> QED
    BY <1>1, <2>2, <2>3, <2>4, TaskChanges DEF Within
<1>4. CASE task' = [task EXCEPT ![w] = Rest]
  BY <1>1, <1>4, RestWithin, TaskChanges DEF Within, Rest
<1> QED
  BY <1>2, <1>3, <1>4 DEF WatchFires, WatchEnds

\* The worker or the application is done with its event.
LEMMA EndsWithin ==
  ASSUME NEW S, NEW E, NEW A, TableWithin(S, E, A), Within(S, E, A), WorkerEnds \/ AppEnds
  PROVE  Within(S, E, A)'
<1>1. "worker" \in Tasks /\ "app" \in Tasks /\ UNCHANGED wire /\ (UNCHANGED rec \/ rec' = Fresh)
  BY DEF WorkerEnds, AfterFailure, AfterEnd, AfterIncoming, Remove, AppEnds, storeVars, Tasks
<1>2. Fresh \in RecordBut(S) /\ Rest \in TaskBut(S, E, A) /\ Rest.at # "commit"
  BY RestWithin DEF Rest
<1>3. CASE task' = [task EXCEPT !["worker"] = Rest]
  BY <1>1, <1>2, <1>3, TaskChanges DEF Within
<1>4. CASE task' = [task EXCEPT !["app"] = Rest]
  BY <1>1, <1>2, <1>4, TaskChanges DEF Within
<1> QED
  BY <1>3, <1>4 DEF WorkerEnds, AppEnds

\* The worker takes an event.
LEMMA HandleWithin ==
  ASSUME NEW S, NEW E, NEW A, TableWithin(S, E, A), Within(S, E, A), NEW e \in WorkerEvents \ E,
         Handle(e)
  PROVE  Within(S, E, A)'
<1> DEFINE s == IF e \in Failures THEN rec.state ELSE None
<1>1. e \in Events \ E /\ "worker" \in Tasks
  BY EventsListed DEF Tasks
<1>2. s \in CallState \cup {None} /\ UNCHANGED <<rec, wire>>
  BY DEF Within, RecordBut, Handle, storeVars
<1>3. CASE UNCHANGED task
  BY <1>2, <1>3 DEF Within
<1>4. CASE task' = [task EXCEPT !["worker"] = [Rest EXCEPT !.at = "load", !.on = e, !.seen = s]]
  <2> DEFINE v == [Rest EXCEPT !.at = "load", !.on = e, !.seen = s]
  <2>1. Rest \in TaskBut(S, E, A)
    BY RestWithin
  <2> HIDE DEF s
  <2>2. v \in TaskBut(S, E, A) /\ v.at # "commit"
    BY <1>1, <1>2, <2>1 DEF TaskBut, Places
  <2> HIDE DEF v
  <2> QED
    BY <1>1, <1>2, <1>4, <2>2, TaskChanges DEF Within, v
<1> QED
  BY <1>3, <1>4 DEF Handle

\* The application makes a call.
LEMMA AppCallsWithin ==
  ASSUME NEW S, NEW E, NEW A, TableWithin(S, E, A), Within(S, E, A), NEW c \in ApiCalls, AppCalls(c)
  PROVE  Within(S, E, A)'
<1> DEFINE p == IF c \in Builders THEN "stage" ELSE "load"
           r == IF c \in Builders THEN rec ELSE Fresh
           s == IF c = "HangupCall" THEN rec.state ELSE None
<1>1. c \in Events \ E /\ "app" \in Tasks
  BY EventsListed DEF Tasks, TableWithin
<1>2. s \in CallState \cup {None} /\ UNCHANGED <<rec, wire>> /\ p \in {"stage", "load"}
  BY DEF Within, RecordBut, AppCalls, storeVars
<1>5. r \in RecordBut(S)
  BY RestWithin DEF Within
<1>3. CASE UNCHANGED task
  BY <1>2, <1>3 DEF Within
<1>4. CASE task' = [task EXCEPT !["app"] = [Rest EXCEPT !.at = p, !.on = c, !.copy = r, !.seen = s]]
  <2> DEFINE v == [Rest EXCEPT !.at = p, !.on = c, !.copy = r, !.seen = s]
  <2>1. Rest \in TaskBut(S, E, A)
    BY RestWithin
  <2> HIDE DEF p, r, s
  <2>2. v \in TaskBut(S, E, A) /\ v.at # "commit"
    BY <1>1, <1>2, <1>5, <2>1 DEF TaskBut, Places
  <2> HIDE DEF v
  <2> QED
    BY <1>1, <1>2, <1>4, <2>2, TaskChanges DEF Within, v
<1> QED
  BY <1>3, <1>4 DEF AppCalls

\* Every step keeps the session within S, E and A if the worker takes no event of E.
LEMMA WithinStep ==
  ASSUME NEW S, NEW E, NEW A, TableWithin(S, E, A), Within(S, E, A), [Next]_vars,
         Deliver => \E e \in WorkerEvents \ E : Handle(e)
  PROVE  Within(S, E, A)'
<1>1. ASSUME NEW t \in Tasks, TaskStep(t)
      PROVE  Within(S, E, A)'
  BY <1>1, LoadWithin, CommitWithin, ActWithin, SaveWithin, WatchWithin, EndsWithin
     DEF TaskStep, Process
<1>2. CASE ReleaseStep \/ UNCHANGED vars
  <2>1. UNCHANGED <<task, wire>> /\ (UNCHANGED rec \/ rec' = Fresh)
    BY <1>2 DEF ReleaseStep, Remove, vars, storeVars
  <2> QED
    BY <2>1, RestWithin DEF Within
<1>3. CASE Deliver
  BY <1>3, HandleWithin
<1>4. ASSUME NEW c \in ApiCalls, AppCalls(c)
      PROVE  Within(S, E, A)'
  BY <1>4, AppCallsWithin
<1> QED
  BY <1>1, <1>2, <1>3, <1>4 DEF Next, Releases

\* The session starts within.
LEMMA WithinInit ==
  ASSUME NEW S, NEW E, NEW A, TableWithin(S, E, A), Init
  PROVE  Within(S, E, A)
<1>1. Fresh \in RecordBut(S) /\ Rest \in TaskBut(S, E, A) /\ Rest.at # "commit"
  BY RestWithin DEF Rest
<1>2. \A t \in Tasks : task[t] = Rest
  BY DEF Init
<1> QED
  BY <1>1, <1>2 DEF Init, Within

\* What the worker takes, and what has been heard by then.
LEMMA Delivered ==
  ASSUME Deliver
  PROVE  \E e \in WorkerEvents :
           /\ Handle(e) /\ (e = "DialogACK" => "ACK" \in heard')
           /\ e = "Dialog180Ringing" => "180" \in heard'
           /\ e = "Dialog183SessionProgress" => "183" \in heard'
BY DEF Deliver, IncomingCall, CallProgress, CallEstablished, CallFailed, CallCancelled,
       CallTerminated, ByeReceived, AckReceived, ReinviteReceived, Hears, WorkerEvents

\* The role stays, and what was heard stays heard.
LEMMA HeardStays ==
  ASSUME [Next]_vars
  PROVE  role' = role /\ heard \subseteq heard'
<1>1. ASSUME NEW t \in Tasks, TaskStep(t)
      PROVE  role' = role /\ heard \subseteq heard'
  BY <1>1 DEF TaskStep, Process, Stage, Load, Commit, Act, Merge, Save, WatchFires, WatchEnds, WorkerEnds,
              AppEnds, peerVars
<1>2. CASE ReleaseStep \/ UNCHANGED vars
  BY <1>2 DEF ReleaseStep, vars, peerVars
<1>3. CASE Deliver
  <2>1. role' = role
    BY <1>3, Delivered DEF Handle
  <2>2. heard \subseteq heard'
    BY <1>3 DEF Deliver, IncomingCall, CallProgress, CallEstablished, CallFailed, CallCancelled,
                CallTerminated, ByeReceived, AckReceived, ReinviteReceived, Hears
  <2> QED
    BY <2>1, <2>2
<1>4. ASSUME NEW c \in ApiCalls, AppCalls(c)
      PROVE  role' = role /\ heard \subseteq heard'
  BY <1>4 DEF AppCalls, peerVars
<1> QED
  BY <1>1, <1>2, <1>3, <1>4 DEF Next, Releases

-----------------------------------------------------------------------------
(* The theorems.                                                           *)

\* The table keeps its types.
LEMMA TableTypes == TableWithin({}, {}, {})
<1>1. \A x \in Table : x.to \in CallState \cup {Same} /\ x.acts \in Seq(Acts \ {})
  BY RowsAllowed, RowActs DEF Leads
<1> QED
  BY <1>1 DEF TableWithin

\* Without the ACK the called side neither connects nor sends BYE.
LEMMA TableBye ==
  ASSUME role = "UAS"
  PROVE  TableWithin(Connected, {"DialogACK"}, {"BYE"})
<1>1. ASSUME NEW x \in Table, x.role = role, x.from \notin Connected, x.on \notin {"DialogACK"}
      PROVE  x.to \in (CallState \cup {Same}) \ Connected /\ x.acts \in Seq(Acts \ {"BYE"})
  <2>1. Leads(x) /\ Does(x)
    BY RowsAllowed
  <2>2. x.to \in (CallState \cup {Same}) \ Connected /\ x.acts \in Lists /\ x.acts # <<"BYE">>
    BY <1>1, <2>1 DEF Leads, Does
  <2>3. \A i \in DOMAIN x.acts : x.acts[i] \notin {"BYE"}
    BY <2>2, ListsOf
  <2> QED
    BY <2>2, <2>3, RowActs
<1>2. Connected \subseteq CallState \ {"Idle"}
  BY DEF Connected, CallState
<1>3. {"DialogACK"} \cap (ApiCalls \cup {"DialogTimeout", None}) = {}
  BY DEF ApiCalls, Builders, None
<1> QED
  BY <1>1, <1>2, <1>3 DEF TableWithin

\* Without a provisional response the calling side sends no CANCEL, and the
\* called side never does.
LEMMA TableCancel ==
  /\ role = "UAC" => TableWithin(Proceeding, Progress, {"CANCEL"})
  /\ role = "UAS" => TableWithin({}, {}, {"CANCEL"})
<1>1. ASSUME NEW x \in Table, x.role = "UAC", x.from \notin Proceeding, x.on \notin Progress
      PROVE  x.to \in (CallState \cup {Same}) \ Proceeding /\ x.acts \in Seq(Acts \ {"CANCEL"})
  <2>1. Leads(x) /\ Does(x)
    BY RowsAllowed
  <2>2. x.to \in (CallState \cup {Same}) \ Proceeding /\ x.acts \in Lists /\ x.acts # <<"CANCEL">>
    BY <1>1, <2>1 DEF Leads, Does
  <2>3. \A i \in DOMAIN x.acts : x.acts[i] \notin {"CANCEL"}
    BY <2>2, ListsOf
  <2> QED
    BY <2>2, <2>3, RowActs
<1>2. ASSUME NEW x \in Table, x.role = "UAS"
      PROVE  x.to \in CallState \cup {Same} /\ x.acts \in Seq(Acts \ {"CANCEL"})
  <2>1. x.to \in CallState \cup {Same} /\ x.acts \in Lists /\ x.acts # <<"CANCEL">>
    BY <1>2, RowsAllowed DEF Leads, Does
  <2>2. \A i \in DOMAIN x.acts : x.acts[i] \notin {"CANCEL"}
    BY <2>1, ListsOf
  <2> QED
    BY <2>1, <2>2, RowActs
<1>3. Proceeding \subseteq CallState \ {"Idle"}
  BY DEF Proceeding, CallState
<1>4. Progress \cap (ApiCalls \cup {"DialogTimeout", None}) = {}
  BY DEF Progress, ApiCalls, Builders, None
<1> QED
  BY <1>1, <1>2, <1>3, <1>4 DEF TableWithin

\* What TypeOK says of the other variables.
OthersTyped ==
  /\ role \in Roles /\ present \in BOOLEAN /\ watch \in [Watches -> Events \cup {None}]
  /\ release \subseteq Terminal \cup {None} /\ told \subseteq Terminal \cup {"Incoming"}
  /\ calls \subseteq ApiCalls /\ heard \subseteq Heard /\ reinvites \in Nat /\ inFlight \in BOOLEAN

\* A step of a task keeps the types of the other variables.
LEMMA TaskOthers ==
  ASSUME Within({}, {}, {}), OthersTyped, NEW t \in Tasks, TaskStep(t)
  PROVE  OthersTyped'
<1> USE DEF OthersTyped
<1>1. rec.since \in Events \cup {None}
  BY DEF Within, RecordBut
<1>2. CASE Process(t)
  <2>1. UNCHANGED <<role, watch, release, told, calls, heard, reinvites>>
    BY <1>2 DEF Process, Stage, Load, Commit, Act, Merge, Save, peerVars
  <2>2. present' \in BOOLEAN
    BY <1>2 DEF Process, Stage, Load, Commit, Act, Merge, Save, storeVars
  <2>3. inFlight' \in BOOLEAN
    BY <1>2 DEF Process, Stage, Load, Commit, Act, Merge, Save, peerVars
  <2> QED
    BY <2>1, <2>2, <2>3
<1>3. CASE t \in Watches /\ (WatchFires(t) \/ WatchEnds(t))
  BY <1>3 DEF WatchFires, WatchEnds, Spawn, storeVars, peerVars, Terminal
<1>4. CASE WorkerEnds
  BY <1>1, <1>4 DEF WorkerEnds, AfterFailure, AfterEnd, AfterIncoming, Remove, Armed, Spawn,
                     storeVars, peerVars, Terminal
<1>5. CASE AppEnds
  BY <1>1, <1>5 DEF AppEnds, AfterHangup, Armed, Spawn, storeVars, peerVars, Terminal
<1> QED
  BY <1>2, <1>3, <1>4, <1>5 DEF TaskStep

\* Every step keeps the types of the other variables.
LEMMA OthersStep ==
  ASSUME Within({}, {}, {}), OthersTyped, [Next]_vars
  PROVE  OthersTyped'
<1>1. ASSUME NEW t \in Tasks, TaskStep(t)
      PROVE  OthersTyped'
  BY <1>1, TaskOthers
<1>2. CASE ReleaseStep \/ UNCHANGED vars
  BY <1>2 DEF OthersTyped, ReleaseStep, Remove, vars, storeVars, peerVars
<1>3. CASE Deliver
  <2>1. UNCHANGED <<role, present, watch, release, told, calls>>
    BY <1>3, Delivered DEF Handle, storeVars
  <2>2. heard' \subseteq Heard
    BY <1>3 DEF OthersTyped, Deliver, IncomingCall, CallProgress, CallEstablished, CallFailed,
                CallCancelled, CallTerminated, ByeReceived, AckReceived, ReinviteReceived,
                Hears, Heard
  <2>3. reinvites' \in Nat
    BY <1>3 DEF OthersTyped, Deliver, IncomingCall, CallProgress, CallEstablished, CallFailed,
                CallCancelled, CallTerminated, ByeReceived, AckReceived, ReinviteReceived
  <2>4. inFlight' \in BOOLEAN
    BY <1>3 DEF OthersTyped, Deliver, IncomingCall, CallProgress, CallEstablished, CallFailed,
                CallCancelled, CallTerminated, ByeReceived, AckReceived, ReinviteReceived
  <2> QED
    BY <2>1, <2>2, <2>3, <2>4 DEF OthersTyped
<1>4. ASSUME NEW c \in ApiCalls, AppCalls(c)
      PROVE  OthersTyped'
  BY <1>4 DEF OthersTyped, AppCalls, storeVars, peerVars
<1> QED
  BY <1>1, <1>2, <1>3, <1>4 DEF Next, Releases

\* The session store, the tasks' copies and results, the watchdogs, the
\* published ends and the wire keep their types, although a task writes back
\* copies it read long before and a late save inserts a session that is gone.
THEOREM TypeTheorem == Spec => []TypeOK
<1> DEFINE Inv == Within({}, {}, {}) /\ OthersTyped
<1>1. Init => Inv
  <2> SUFFICES ASSUME Init PROVE Inv
    OBVIOUS
  <2>1. Within({}, {}, {})
    BY WithinInit, TableTypes
  <2>2. calls \subseteq ApiCalls /\ reinvites \in Nat
    BY ScriptsAssumption DEF Init
  <2> QED
    BY <2>1, <2>2 DEF Init, OthersTyped
<1>2. Inv /\ [Next]_vars => Inv'
  <2> SUFFICES ASSUME Inv, [Next]_vars PROVE Inv'
    OBVIOUS
  <2>1. Deliver => \E e \in WorkerEvents \ {} : Handle(e)
    BY Delivered
  <2>2. Within({}, {}, {})'
    BY <2>1, WithinStep, TableTypes
  <2> QED
    BY <2>2, OthersStep
<1>3. Inv => TypeOK
  <2> SUFFICES ASSUME Inv PROVE TypeOK
    OBVIOUS
  <2>1. RecordBut({}) = Record
    BY DEF RecordBut, Record
  <2>2. ASSUME NEW t \in Tasks
        PROVE  /\ task[t].at \in Places /\ task[t].on \in Events \cup {None}
               /\ task[t].copy \in Record /\ task[t].ok \in BOOLEAN
               /\ task[t].seen \in CallState \cup {None}
               /\ task[t].to \in CallState \cup {None, Same}
               /\ \A i \in DOMAIN task[t].acts : task[t].acts[i] \in Acts
    BY <2>1 DEF Within, TaskBut
  <2> QED
    BY <2>1, <2>2 DEF TypeOK, Within, OthersTyped
<1> HIDE DEF Inv
<1> QED
  BY <1>1, <1>2, <1>3, PTL DEF Spec

\* Until the ACK the called side is not connected anywhere, and no BYE is on
\* the wire or in the hands of a task.
Unacked == role = "UAS" /\ "ACK" \notin heard => Within(Connected, {"DialogACK"}, {"BYE"})

\* The called side sends BYE only once it has the ACK, whatever hangups,
\* timeouts and late saves cross it.
THEOREM ByeTheorem == Spec => []ByeAfterAck
<1>1. Init => Unacked
  BY WithinInit, TableBye DEF Unacked
<1>2. Unacked /\ [Next]_vars => Unacked'
  <2> SUFFICES ASSUME Unacked, [Next]_vars, role' = "UAS", "ACK" \notin heard'
               PROVE  Within(Connected, {"DialogACK"}, {"BYE"})'
    BY DEF Unacked
  <2>1. role = "UAS" /\ "ACK" \notin heard
    BY HeardStays
  <2>2. Deliver => \E e \in WorkerEvents \ {"DialogACK"} : Handle(e)
    BY Delivered
  <2> QED
    BY <2>1, <2>2, WithinStep, TableBye DEF Unacked
<1>3. Unacked => ByeAfterAck
  BY DEF Unacked, ByeAfterAck, Within
<1> QED
  BY <1>1, <1>2, <1>3, PTL DEF Spec

\* Until a provisional response the calling side does not ring anywhere, and
\* no CANCEL is on the wire or in the hands of a task; the called side never
\* has one.
Unanswering ==
  /\ role \in Roles
  /\ role = "UAC" /\ heard \cap {"180", "183"} = {} => Within(Proceeding, Progress, {"CANCEL"})
  /\ role = "UAS" => Within({}, {}, {"CANCEL"})

\* The CANCEL of a hangup goes out only once a provisional response has come,
\* also when the hangup came first and when it crosses the response.
THEOREM CancelTheorem == Spec => []CancelAfterProvisional
<1>1. Init => Unanswering
  BY WithinInit, TableCancel DEF Unanswering, Init
<1>2. Unanswering /\ [Next]_vars => Unanswering'
  <2> SUFFICES ASSUME Unanswering, [Next]_vars
               PROVE  Unanswering'
    OBVIOUS
  <2>1. role' = role /\ heard \subseteq heard'
    BY HeardStays
  <2>2. ASSUME role = "UAC", heard' \cap {"180", "183"} = {}
        PROVE  Within(Proceeding, Progress, {"CANCEL"})'
    <3>1. Within(Proceeding, Progress, {"CANCEL"})
      BY <2>1, <2>2 DEF Unanswering
    <3>2. Deliver => \E e \in WorkerEvents \ Progress : Handle(e)
      BY <2>2, Delivered DEF Progress
    <3> QED
      BY <2>2, <3>1, <3>2, WithinStep, TableCancel
  <2>3. ASSUME role = "UAS"
        PROVE  Within({}, {}, {"CANCEL"})'
    <3>1. Deliver => \E e \in WorkerEvents \ {} : Handle(e)
      BY Delivered
    <3> QED
      BY <2>3, <3>1, WithinStep, TableCancel DEF Unanswering
  <2> QED
    BY <2>1, <2>2, <2>3 DEF Unanswering
<1>3. Unanswering => CancelAfterProvisional
  BY DEF Unanswering, CancelAfterProvisional, Within, Roles
<1> QED
  BY <1>1, <1>2, <1>3, PTL DEF Spec

-----------------------------------------------------------------------------
(* What each step makes of the tasks, field by field.                      *)

Typed == Within({}, {}, {})

\* Only the task t moves.
Alone(t) == \A u \in Tasks \ {t} : task'[u] = task[u]

\* process_event has returned to the task's own code.
Returned(t) ==
  /\ task[t].on \in Quiet => task'[t] = Rest
  /\ task[t].on \notin Quiet =>
       /\ task'[t].at = "after" /\ task'[t].on = task[t].on /\ task'[t].seen = task[t].seen
       /\ task'[t].to = task[t].to /\ task'[t].acts = <<>> /\ task'[t].copy = Fresh

\* The task has found its row.
Takes(t, row) ==
  /\ task'[t].at = IF row.to = Same THEN "act" ELSE "commit"
  /\ task'[t].on = task[t].on /\ task'[t].seen = task[t].seen
  /\ task'[t].copy = rec /\ task'[t].to = row.to /\ task'[t].acts = row.acts

\* The task goes on in its row at p, with its event and what it saw.
Moves(t, p) ==
  /\ task'[t].at = p /\ task'[t].on = task[t].on /\ task'[t].seen = task[t].seen
  /\ task'[t].to = task[t].to

\* The task takes up the event e.
Starts(t, e) == task'[t].at \in {"stage", "load"} /\ task'[t].on = e

\* Every task is a task record.
LEMMA TaskRecord ==
  ASSUME Typed, NEW t \in Tasks
  PROVE  /\ task[t] \in TaskBut({}, {}, {}) /\ task[t].acts \in Seq(Acts)
         /\ task[t].copy \in RecordBut({}) /\ rec \in RecordBut({})
         /\ task \in [Tasks -> TaskBut({}, {}, {})]
BY DEF Typed, Within, TaskBut

\* process_event returns.
LEMMA ReturnTo ==
  ASSUME Typed, NEW t \in Tasks, NEW ok \in BOOLEAN, Return(t, ok)
  PROVE  Alone(t) /\ Returned(t)
<1>1. task[t] \in TaskBut({}, {}, {}) /\ task \in [Tasks -> TaskBut({}, {}, {})]
  BY TaskRecord
<1>2. Alone(t)
  BY <1>1 DEF Return, Alone
<1>3. task[t].on \in Quiet => task'[t] = Rest
  BY <1>1 DEF Return
<1>4. task[t].on \notin Quiet =>
        task'[t] = [task[t] EXCEPT !.at = "after", !.ok = ok, !.acts = <<>>, !.copy = Fresh]
  BY <1>1 DEF Return
<1>5. task[t].on \notin Quiet =>
       /\ task'[t].at = "after" /\ task'[t].on = task[t].on /\ task'[t].seen = task[t].seen
       /\ task'[t].to = task[t].to /\ task'[t].acts = <<>> /\ task'[t].copy = Fresh
  BY <1>1, <1>4 DEF TaskBut
<1> QED
  BY <1>2, <1>3, <1>5 DEF Returned

\* The lookup.
LEMMA LoadTo ==
  ASSUME Typed, NEW t \in Tasks, Load(t)
  PROVE  /\ Alone(t) /\ task[t].at = "load"
         /\ UNCHANGED <<role, present, rec, watch, release, told, calls, heard, reinvites, inFlight>>
         /\ \/ Returned(t) /\ (~present \/ Glare(rec, task[t].on))
            \/ Moves(t, "save") /\ Lookup(rec, task[t].on) = {}
            \/ present /\ \E row \in Lookup(rec, task[t].on) : Takes(t, row)
<1>1. task[t] \in TaskBut({}, {}, {}) /\ task \in [Tasks -> TaskBut({}, {}, {})]
  BY TaskRecord
<1>2. task[t].at = "load"
      /\ UNCHANGED <<role, present, rec, watch, release, told, calls, heard, reinvites, inFlight>>
  BY DEF Load, storeVars, peerVars
<1>3. CASE (\E ok \in BOOLEAN : Return(t, ok)) /\ (~present \/ Glare(rec, task[t].on))
  BY <1>2, <1>3, ReturnTo
<1>5. CASE /\ task' = [task EXCEPT ![t].at = "save", ![t].copy = rec]
           /\ Lookup(rec, task[t].on) = {}
  <2>1. Alone(t) /\ task'[t] = [task[t] EXCEPT !.at = "save", !.copy = rec]
    BY <1>1, <1>5 DEF Alone
  <2>2. Moves(t, "save")
    BY <1>1, <2>1 DEF Moves, TaskBut
  <2> QED
    BY <1>2, <1>5, <2>1, <2>2
<1>4. ASSUME NEW row \in Lookup(rec, task[t].on), present,
             task' = [task EXCEPT ![t].at = IF row.to = Same THEN "act" ELSE "commit",
                                  ![t].copy = rec, ![t].to = row.to, ![t].acts = row.acts]
      PROVE  Alone(t) /\ Takes(t, row)
  <2>1. Alone(t)
    BY <1>1, <1>4 DEF Alone
  <2>2. task'[t] = [task[t] EXCEPT !.at = IF row.to = Same THEN "act" ELSE "commit",
                                   !.copy = rec, !.to = row.to, !.acts = row.acts]
    BY <1>1, <1>4
  <2> QED
    BY <1>1, <2>1, <2>2 DEF Takes, TaskBut
<1> QED
  BY <1>2, <1>3, <1>4, <1>5 DEF Load

\* The commit.
LEMMA CommitTo ==
  ASSUME Typed, NEW t \in Tasks, Commit(t)
  PROVE  /\ Alone(t) /\ Moves(t, "act") /\ task[t].at = "commit" /\ task'[t].acts = task[t].acts
         /\ present' = TRUE /\ rec' = task'[t].copy
         /\ rec'.state = task[t].to /\ rec'.since = task[t].on
         /\ UNCHANGED <<role, watch, release, told, wire, calls, heard, reinvites, inFlight>>
<1> DEFINE r == [task[t].copy EXCEPT !.state = task[t].to, !.since = task[t].on]
<1>1. task[t] \in TaskBut({}, {}, {}) /\ task \in [Tasks -> TaskBut({}, {}, {})]
  BY TaskRecord
<1>2. r.state = task[t].to /\ r.since = task[t].on
  BY <1>1 DEF TaskBut, RecordBut
<1>3. rec' = r /\ task' = [task EXCEPT ![t].at = "act", ![t].copy = r]
  BY DEF Commit
<1> HIDE DEF r
<1>4. Alone(t) /\ task'[t] = [task[t] EXCEPT !.at = "act", !.copy = r]
  BY <1>1, <1>3 DEF Alone
<1>5. Moves(t, "act") /\ task'[t].acts = task[t].acts /\ task'[t].copy = r
  BY <1>1, <1>4 DEF Moves, TaskBut
<1> QED
  BY <1>2, <1>3, <1>4, <1>5 DEF Commit, peerVars

\* One action.
LEMMA ActTo ==
  ASSUME Typed, NEW t \in Tasks, Act(t)
  PROVE  /\ Alone(t) /\ task[t].at = "act" /\ task[t].acts # <<>>
         /\ UNCHANGED present \/ present' = TRUE
         /\ \/ Moves(t, "act") /\ inFlight' = (inFlight \/ Head(task[t].acts) \in Reinvites)
            \/ Returned(t) /\ UNCHANGED inFlight
         /\ UNCHANGED <<role, watch, release, told, calls, heard, reinvites>>
<1> DEFINE a == Head(task[t].acts)
           r == [task[t].copy EXCEPT !.pending = PendingAfter(a, @)]
<1>1. task[t] \in TaskBut({}, {}, {}) /\ task \in [Tasks -> TaskBut({}, {}, {})]
  BY TaskRecord
<1>2. /\ task[t].at = "act" /\ task[t].acts # <<>> /\ (UNCHANGED present \/ present' = TRUE)
      /\ UNCHANGED <<role, watch, release, told, calls, heard, reinvites>>
  BY DEF Act
<1>3. \/ /\ inFlight' = (inFlight \/ a \in Reinvites)
         /\ task' = [task EXCEPT ![t].acts = Tail(@), ![t].copy = r]
      \/ Return(t, FALSE) /\ UNCHANGED inFlight
  BY DEF Act
<1> HIDE DEF r
<1>4. CASE /\ inFlight' = (inFlight \/ a \in Reinvites)
           /\ task' = [task EXCEPT ![t].acts = Tail(@), ![t].copy = r]
  <2>1. Alone(t) /\ task'[t] = [task[t] EXCEPT !.acts = Tail(@), !.copy = r]
    BY <1>1, <1>4 DEF Alone
  <2>2. Moves(t, "act")
    BY <1>1, <1>2, <2>1 DEF TaskBut, Moves
  <2> QED
    BY <1>2, <1>4, <2>1, <2>2
<1>5. CASE Return(t, FALSE) /\ UNCHANGED inFlight
  BY <1>2, <1>5, ReturnTo
<1> QED
  BY <1>3, <1>4, <1>5

\* The merge.
LEMMA MergeTo ==
  ASSUME Typed, NEW t \in Tasks, Merge(t)
  PROVE  /\ Alone(t) /\ task[t].at = "act" /\ Moves(t, "save")
         /\ UNCHANGED <<role, present, rec, watch, release, told, wire, calls, heard, reinvites,
                        inFlight>>
<1>1. task[t] \in TaskBut({}, {}, {}) /\ task \in [Tasks -> TaskBut({}, {}, {})]
  BY TaskRecord
<1>2. PICK c : task' = [task EXCEPT ![t].at = "save", ![t].copy = c]
  BY DEF Merge
<1>3. Alone(t) /\ task'[t] = [task[t] EXCEPT !.at = "save", !.copy = c]
  BY <1>1, <1>2 DEF Alone
<1>4. Moves(t, "save")
  BY <1>1, <1>3 DEF TaskBut, Moves
<1> QED
  BY <1>3, <1>4 DEF Merge, storeVars, peerVars

\* A builder's options are in the session.
LEMMA StageTo ==
  ASSUME Typed, NEW t \in Tasks, Stage(t)
  PROVE  /\ Alone(t) /\ task[t].at = "stage" /\ Moves(t, "load") /\ present' = TRUE
         /\ UNCHANGED <<role, watch, release, told, wire, calls, heard, reinvites, inFlight>>
<1>1. task[t] \in TaskBut({}, {}, {}) /\ task \in [Tasks -> TaskBut({}, {}, {})]
  BY TaskRecord
<1>2. Alone(t) /\ task'[t] = [task[t] EXCEPT !.at = "load", !.copy = Fresh]
  BY <1>1 DEF Stage, Alone
<1>3. Moves(t, "load")
  BY <1>1, <1>2 DEF TaskBut, Moves
<1> QED
  BY <1>2, <1>3 DEF Stage, peerVars

\* The save.
LEMMA SaveTo ==
  ASSUME Typed, NEW t \in Tasks, Save(t)
  PROVE  /\ Alone(t) /\ task[t].at = "save" /\ Returned(t)
         /\ present' = TRUE /\ rec' = task[t].copy
         /\ UNCHANGED <<role, watch, release, told, wire, calls, heard, reinvites, inFlight>>
BY ReturnTo DEF Save, peerVars

\* A watchdog fires or ends.
LEMMA WatchTo ==
  ASSUME Typed, NEW w \in Watches, WatchFires(w) \/ WatchEnds(w)
  PROVE  /\ Alone(w) /\ w \in Tasks
         /\ UNCHANGED <<role, present, rec, told, wire, calls, heard, reinvites, inFlight>>
         /\ \/ /\ watch[w] # None /\ watch' = [watch EXCEPT ![w] = None] /\ UNCHANGED release
               /\ task[w].at = "rest"
               /\ IF present /\ rec.state \in Watched(w) /\ rec.since = watch[w]
                  THEN /\ task'[w].at = "load" /\ task'[w].on = "DialogTimeout"
                       /\ task'[w].acts = task[w].acts /\ task'[w].copy = task[w].copy
                       /\ task'[w].to = task[w].to
                  ELSE UNCHANGED task
            \/ /\ task[w].at = "after" /\ task'[w] = Rest /\ UNCHANGED watch
               /\ release \subseteq release' /\ release' \subseteq release \cup {"Cancelled", "Failed"}
<1>1. w \in Tasks
  BY DEF Tasks
<1>2. task[w] \in TaskBut({}, {}, {}) /\ task \in [Tasks -> TaskBut({}, {}, {})]
  BY <1>1, TaskRecord
<1>3. CASE WatchFires(w)
  <2>1. CASE UNCHANGED task /\ ~(present /\ rec.state \in Watched(w) /\ rec.since = watch[w])
    BY <1>1, <1>3, <2>1 DEF WatchFires, storeVars, peerVars, Alone
  <2>2. CASE /\ present /\ rec.state \in Watched(w) /\ rec.since = watch[w]
             /\ task' = [task EXCEPT ![w].at = "load", ![w].on = "DialogTimeout"]
    <3>1. Alone(w) /\ task'[w] = [task[w] EXCEPT !.at = "load", !.on = "DialogTimeout"]
      BY <1>1, <1>2, <2>2 DEF Alone
    <3>2. /\ task'[w].at = "load" /\ task'[w].on = "DialogTimeout"
          /\ task'[w].acts = task[w].acts /\ task'[w].copy = task[w].copy
          /\ task'[w].to = task[w].to
      BY <1>2, <3>1 DEF TaskBut
    <3> QED
      BY <1>1, <1>3, <2>2, <3>1, <3>2 DEF WatchFires, storeVars, peerVars
  <2> QED
    BY <1>3, <2>1, <2>2 DEF WatchFires
<1>4. CASE WatchEnds(w)
  <2>1. Alone(w) /\ task'[w] = Rest
    BY <1>1, <1>2, <1>4 DEF WatchEnds, Alone
  <2> QED
    BY <1>1, <1>4, <2>1 DEF WatchEnds, Spawn, storeVars, peerVars
<1> QED
  BY <1>3, <1>4

\* The worker or the application is done.
LEMMA EndsTo ==
  ASSUME Typed
  PROVE  /\ WorkerEnds => /\ Alone("worker") /\ task["worker"].at = "after"
                          /\ task'["worker"] = Rest /\ "worker" \in Tasks
         /\ AppEnds => /\ Alone("app") /\ task["app"].at = "after" /\ task'["app"] = Rest
                       /\ "app" \in Tasks
<1>1. "worker" \in Tasks /\ "app" \in Tasks
  BY DEF Tasks
<1>2. task \in [Tasks -> TaskBut({}, {}, {})]
  BY <1>1, TaskRecord
<1> QED
  BY <1>1, <1>2 DEF WorkerEnds, AppEnds, Alone

\* The worker takes an event, unless the session is gone.
LEMMA HandleTo ==
  ASSUME Typed, NEW e, Handle(e)
  PROVE  /\ Alone("worker") /\ "worker" \in Tasks /\ task["worker"].at = "rest"
         /\ heard \cap {"BYE", "CANCEL", "end", "refusal"} = {}
         /\ UNCHANGED <<role, present, rec, watch, release, told, wire, calls>>
         /\ \/ ~present /\ e # "IncomingCall" /\ UNCHANGED task
            \/ /\ present \/ e = "IncomingCall"
               /\ Starts("worker", e)
               /\ e \in Failures => task'["worker"].seen = rec.state
<1>1. "worker" \in Tasks
  BY DEF Tasks
<1>2. task \in [Tasks -> TaskBut({}, {}, {})]
  BY <1>1, TaskRecord
<1> DEFINE s == IF e \in Failures THEN rec.state ELSE None
<1>3. CASE ~present /\ e # "IncomingCall" /\ UNCHANGED task
  BY <1>1, <1>3 DEF Handle, storeVars, Alone
<1>4. CASE /\ present \/ e = "IncomingCall"
           /\ task' = [task EXCEPT !["worker"] = [Rest EXCEPT !.at = "load", !.on = e, !.seen = s]]
  <2>1. Alone("worker") /\ task'["worker"] = [Rest EXCEPT !.at = "load", !.on = e, !.seen = s]
    BY <1>1, <1>2, <1>4 DEF Alone
  <2>2. Starts("worker", e) /\ task'["worker"].seen = s
    BY <2>1 DEF Starts, Rest
  <2> QED
    BY <1>1, <1>4, <2>1, <2>2 DEF Handle, storeVars
<1> QED
  BY <1>3, <1>4 DEF Handle

\* The application makes a call.
LEMMA CallTo ==
  ASSUME Typed, NEW c \in ApiCalls, AppCalls(c)
  PROVE  /\ Alone("app") /\ "app" \in Tasks /\ task["app"].at = "rest"
         /\ Starts("app", c) \/ (~present /\ UNCHANGED task)
         /\ c \in calls /\ calls' = calls \ {c} /\ (c # "SendOutboundInvite" => Known)
         /\ c = "SendOutboundInvite" => role = "UAC"
         /\ c = "AcceptCall" => role = "UAS"
         /\ UNCHANGED <<role, present, rec, watch, release, told, wire, heard, reinvites, inFlight>>
<1>1. "app" \in Tasks
  BY DEF Tasks
<1>2. task \in [Tasks -> TaskBut({}, {}, {})]
  BY <1>1, TaskRecord
<1>3. Alone("app") /\ (Starts("app", c) \/ (~present /\ UNCHANGED task))
  <2> DEFINE p == IF c \in Builders THEN "stage" ELSE "load"
             r == IF c \in Builders THEN rec ELSE Fresh
             s == IF c = "HangupCall" THEN rec.state ELSE None
  <2>1. CASE ~present /\ UNCHANGED task
    BY <1>1, <2>1 DEF Alone
  <2>2. CASE task' = [task EXCEPT !["app"] = [Rest EXCEPT !.at = p, !.on = c, !.copy = r, !.seen = s]]
    <3>1. Alone("app") /\ task'["app"] = [Rest EXCEPT !.at = p, !.on = c, !.copy = r, !.seen = s]
      BY <1>1, <1>2, <2>2 DEF Alone
    <3>2. Starts("app", c)
      BY <3>1 DEF Starts, Rest
    <3> QED
      BY <3>1, <3>2
  <2> QED
    BY <2>1, <2>2 DEF AppCalls
<1> QED
  BY <1>1, <1>3 DEF AppCalls, storeVars, peerVars

-----------------------------------------------------------------------------
(* Who processes what, and when the store has the session.                 *)

\* The call has not been reported as ended.
Going == told \cap Terminal = {}

\* The ends of a dialog.
Ends == {"BYE", "CANCEL", "refusal"}

\* The events of each task.
OwnEvents(t) ==
  IF t = "worker" THEN WorkerEvents ELSE IF t = "app" THEN ApiCalls ELSE {"DialogTimeout"}

\* A task at rest has nothing left of its last event, and a task processes
\* only events of its own.
Owners ==
  \A t \in Tasks : /\ task[t].on \in OwnEvents(t) \cup {None}
                   /\ task[t].at = "rest" => task[t] = Rest

\* A called session the application has not been told of.
Unknown == role = "UAS" /\ "Incoming" \notin told

\* A session that goes on is in the store, unless it was an incoming call that
\* failed before it was reported, after which nothing can touch it.
Presence ==
  /\ None \in release => ~Going
  /\ "Incoming" \in told => "INVITE" \in heard
  /\ Unknown => task["app"] = Rest /\ \A w \in Watches : task[w] = Rest /\ watch[w] = None
  /\ task["worker"].on = "IncomingCall" =>
       Unknown /\ "INVITE" \in heard /\ heard \cap {"BYE", "CANCEL", "end", "refusal"} = {}
  /\ Going /\ ~present => Unknown /\ "INVITE" \in heard /\ task["worker"] = Rest

\* What the worker takes, and what the peer has done for it.
LEMMA DeliveredFor ==
  ASSUME Deliver
  PROVE  \E e \in WorkerEvents :
           /\ Handle(e)
           /\ e = "IncomingCall" =>
                role = "UAS" /\ "INVITE" \notin heard /\ heard' = heard \cup {"INVITE"}
           /\ inFlight' => inFlight
           /\ e = "Dialog200OK" => inFlight \/ "200" \in heard'
           /\ \/ heard' \cap Ends = heard \cap Ends
              \/ e \in {"DialogBYE", "Dialog487RequestTerminated"}
              \/ e = "Dialog4xxFailure" /\ Unanswered
<1> USE DEF WorkerEvents, Ends, Hears
<1>1. CASE IncomingCall
  BY <1>1 DEF IncomingCall
<1>2. CASE CallProgress
  BY <1>2 DEF CallProgress
<1>3. CASE CallEstablished
  BY <1>3 DEF CallEstablished
<1>4. CASE CallFailed
  BY <1>4 DEF CallFailed
<1>5. CASE CallCancelled
  BY <1>5 DEF CallCancelled
<1>6. CASE CallTerminated
  BY <1>6 DEF CallTerminated
<1>7. CASE ByeReceived
  BY <1>7 DEF ByeReceived
<1>8. CASE AckReceived
  BY <1>8 DEF AckReceived
<1>9. CASE ReinviteReceived
  BY <1>9 DEF ReinviteReceived
<1> QED
  BY <1>1, <1>2, <1>3, <1>4, <1>5, <1>6, <1>7, <1>8, <1>9 DEF Deliver

\* The tasks keep to their events.
LEMMA OwnersStep ==
  ASSUME Typed, Owners, [Next]_vars
  PROVE  Owners'
<1> DEFINE Own(t) == task'[t].on \in OwnEvents(t) \cup {None} /\ (task'[t].at = "rest" => task'[t] = Rest)
<1>1. Rest.on = None
  BY DEF Rest
<1>2. ASSUME NEW t \in Tasks, Alone(t), Own(t)
      PROVE  Owners'
  BY <1>2 DEF Owners, Alone
<1>3. ASSUME NEW t \in Tasks, TaskStep(t)
      PROVE  Owners'
  <2>1. CASE Load(t)
    BY <1>1, <1>2, <2>1, LoadTo DEF Owners, Returned, Takes, Moves
  <2>2. CASE Commit(t)
    BY <1>2, <2>2, CommitTo DEF Owners, Moves
  <2>3. CASE Act(t)
    BY <1>1, <1>2, <2>3, ActTo DEF Owners, Moves, Returned
  <2>4. CASE Merge(t)
    BY <1>2, <2>4, MergeTo DEF Owners, Moves
  <2>5. CASE Save(t)
    BY <1>1, <1>2, <2>5, SaveTo DEF Owners, Returned
  <2>9. CASE Stage(t)
    BY <1>2, <2>9, StageTo DEF Owners, Moves
  <2>6. CASE t \in Watches /\ (WatchFires(t) \/ WatchEnds(t))
    <3>1. OwnEvents(t) = {"DialogTimeout"}
      BY <2>6 DEF OwnEvents, Watches
    <3>2. Alone(t) /\ Own(t)
      BY <1>1, <2>6, <3>1, WatchTo DEF Owners
    <3> QED
      BY <1>2, <3>2
  <2>7. CASE WorkerEnds
    BY <1>1, <1>2, <2>7, EndsTo
  <2>8. CASE AppEnds
    BY <1>1, <1>2, <2>8, EndsTo
  <2> QED
    BY <1>3, <2>1, <2>2, <2>3, <2>4, <2>5, <2>6, <2>7, <2>8, <2>9 DEF TaskStep, Process
<1>4. CASE ReleaseStep \/ UNCHANGED vars
  BY <1>4 DEF Owners, ReleaseStep, vars
<1>5. CASE Deliver
  <2>1. PICK e \in WorkerEvents : Handle(e)
    BY <1>5, DeliveredFor
  <2>2. CASE UNCHANGED task
    BY <2>2 DEF Owners
  <2>3. CASE Starts("worker", e)
    BY <1>2, <2>1, <2>3, HandleTo DEF Starts, OwnEvents
  <2> QED
    BY <2>1, <2>2, <2>3, HandleTo
<1>6. ASSUME NEW c \in ApiCalls, AppCalls(c)
      PROVE  Owners'
  <2>1. CASE UNCHANGED task
    BY <2>1 DEF Owners
  <2>2. CASE Starts("app", c)
    BY <1>2, <1>6, <2>2, CallTo DEF Starts, OwnEvents
  <2> QED
    BY <1>6, <2>1, <2>2, CallTo
<1> QED
  BY <1>3, <1>4, <1>5, <1>6 DEF Next, Releases

\* A step of the worker, the only task of a session the application has not
\* been told of, and of any task of one it has.
LEMMA ProcessPresence ==
  ASSUME Typed, Owners, Presence, NEW t \in Tasks, Process(t)
  PROVE  Presence'
<1>1. /\ Alone(t) /\ task[t].at # "rest"
      /\ UNCHANGED <<role, watch, release, told, calls, heard>>
      /\ present' = present \/ present'
      /\ task'[t].on = task[t].on \/ task'[t] = Rest
  BY StageTo, LoadTo, CommitTo, ActTo, MergeTo, SaveTo DEF Process, Returned, Moves, Takes
<1>2. Rest.at = "rest" /\ Rest.on = None
  BY DEF Rest
<1>3. Unknown => t = "worker"
  BY <1>1, <1>2 DEF Presence, Tasks
<1>4. Unknown' = Unknown /\ Going' = Going
  BY <1>1 DEF Unknown, Going
<1>5. Unknown' => task'["app"] = Rest /\ \A w \in Watches : task'[w] = Rest /\ watch'[w] = None
  <2> SUFFICES ASSUME Unknown PROVE task'["app"] = Rest /\ \A w \in Watches : task'[w] = Rest /\ watch'[w] = None
    BY <1>4
  <2>1. t = "worker" /\ "app" \in Tasks \ {t} /\ Watches \subseteq Tasks \ {t}
    BY <1>3 DEF Tasks, Watches
  <2> QED
    BY <1>1, <2>1 DEF Presence, Alone
<1>6. task'["worker"].on = "IncomingCall" => task["worker"].on = "IncomingCall"
  BY <1>1, <1>2 DEF Alone, None, Tasks
<1>7. Going /\ ~present' => Going /\ ~present /\ task["worker"] = Rest /\ t # "worker"
  BY <1>1, <1>2 DEF Presence
<1>8. Going' /\ ~present' => Unknown' /\ "INVITE" \in heard' /\ task'["worker"] = Rest
  BY <1>1, <1>4, <1>7 DEF Presence, Alone, Tasks
<1> QED
  BY <1>1, <1>4, <1>5, <1>6, <1>8 DEF Presence

\* Every step keeps the session that goes on in the store.
LEMMA PresenceStep ==
  ASSUME Typed, OthersTyped, Owners, Presence, [Next]_vars
  PROVE  Presence'
<1>1. Rest.at = "rest" /\ Rest.on = None /\ None # "IncomingCall" /\ None \notin Terminal
  BY DEF Rest, None, Terminal
<1>2. "worker" \in Tasks /\ "app" \in Tasks /\ Watches \subseteq Tasks \ {"worker", "app"}
      /\ "worker" # "app"
  BY DEF Tasks, Watches
<1>3. ASSUME NEW t \in Tasks, Process(t)
      PROVE  Presence'
  BY <1>3, ProcessPresence
<1>4. ASSUME NEW w \in Watches, WatchFires(w) \/ WatchEnds(w)
      PROVE  Presence'
  <2>1. /\ Alone(w) /\ UNCHANGED <<role, present, told, heard>>
        /\ None \in release' => None \in release
        /\ watch[w] # None \/ task[w].at = "after"
    BY <1>4, WatchTo DEF None
  <2>2. ~Unknown /\ ~Unknown' /\ Going' = Going
    BY <1>1, <2>1 DEF Presence, Unknown, Going
  <2>3. task'["worker"] = task["worker"]
    BY <1>2, <2>1 DEF Alone
  <2> QED
    BY <2>1, <2>2, <2>3 DEF Presence
<1>5. CASE WorkerEnds
  <2>1. /\ Alone("worker") /\ task["worker"].at = "after" /\ task'["worker"] = Rest
        /\ UNCHANGED <<role, heard>>
    BY <1>5, EndsTo DEF WorkerEnds, peerVars
  <2>2. /\ None \in release' => None \in release
        /\ told' = told \/ (told' = told \cup {"Incoming"} /\ task["worker"].on = "IncomingCall")
        /\ present' = present \/ (task["worker"].on = "IncomingCall" /\ told' = told)
        /\ told' = told => UNCHANGED watch
    <3>1. CASE AfterFailure(task["worker"]) \/ AfterEnd(task["worker"])
      BY <3>1 DEF AfterFailure, AfterEnd, Spawn, None, storeVars
    <3>2. CASE AfterIncoming(task["worker"])
      BY <3>2 DEF AfterIncoming, Remove, Presence, Unknown, storeVars
    <3> QED
      BY <1>5, <3>1, <3>2 DEF WorkerEnds
  <2>3. Going' = Going /\ (Unknown' => Unknown)
    BY <2>1, <2>2 DEF Going, Terminal, Unknown
  <2>4. Unknown' => told' = told
    BY <2>2 DEF Unknown
  <2>5. task'["app"] = task["app"] /\ \A w \in Watches : task'[w] = task[w]
    BY <1>2, <2>1 DEF Alone
  <2>6. Unknown' => task'["app"] = Rest /\ \A w \in Watches : task'[w] = Rest /\ watch'[w] = None
    BY <2>2, <2>3, <2>4, <2>5 DEF Presence
  <2>7. Going' /\ ~present' => Unknown' /\ "INVITE" \in heard'
    BY <1>1, <2>1, <2>2, <2>3 DEF Presence, Unknown
  <2>8. "Incoming" \in told' => "INVITE" \in heard'
    BY <2>1, <2>2 DEF Presence
  <2> QED
    BY <1>1, <2>1, <2>2, <2>3, <2>6, <2>7, <2>8 DEF Presence
<1>6. CASE AppEnds
  <2>1. /\ Alone("app") /\ task["app"].at = "after" /\ UNCHANGED <<role, present, told, heard>>
    BY <1>6, EndsTo DEF AppEnds, storeVars, peerVars
  <2>2. None \in release' => None \in release \/ told \cap Terminal # {}
    BY <1>6 DEF AppEnds, AfterHangup, Spawn, None
  <2>3. ~Unknown /\ ~Unknown' /\ Going' = Going
    BY <1>1, <2>1 DEF Presence, Unknown, Going
  <2>4. task'["worker"] = task["worker"]
    BY <1>2, <2>1 DEF Alone
  <2> QED
    BY <2>1, <2>2, <2>3, <2>4 DEF Presence, Going
<1>7. CASE ReleaseStep
  <2>1. PICK e \in release : release' = release \ {e} /\ told' = told \cup ({e} \cap Terminal)
                             /\ UNCHANGED <<role, task, watch, heard>>
    BY <1>7 DEF ReleaseStep, peerVars
  <2>2. ~Going' \/ e \notin Terminal
    BY <2>1 DEF Going
  <2>3. Unknown' = Unknown /\ (Going' => Going) /\ ("Incoming" \in told' => "Incoming" \in told)
    BY <2>1 DEF Unknown, Going, Terminal
  <2>4. ~Going'
    <3>1. CASE ~Going
      BY <2>3, <3>1
    <3>2. CASE e \in Terminal
      BY <2>2, <3>2
    <3>3. CASE e = None
      BY <2>3, <3>3 DEF Presence
    <3> QED
      BY <3>1, <2>1, <3>2, <3>3 DEF OthersTyped
  <2> QED
    BY <2>1, <2>3, <2>4 DEF Presence
<1>8. CASE Deliver
  <2>1. PICK e \in WorkerEvents :
           /\ Handle(e)
           /\ e = "IncomingCall" =>
                role = "UAS" /\ "INVITE" \notin heard /\ heard' = heard \cup {"INVITE"}
    BY <1>8, DeliveredFor
  <2>2. /\ Alone("worker") /\ task["worker"].at = "rest"
        /\ heard \cap {"BYE", "CANCEL", "end", "refusal"} = {}
        /\ UNCHANGED <<role, present, watch, release, told>>
        /\ (~present /\ e # "IncomingCall" /\ UNCHANGED task)
           \/ ((present \/ e = "IncomingCall") /\ Starts("worker", e))
    BY <2>1, HandleTo
  <2>3. Unknown' = Unknown /\ Going' = Going /\ heard \subseteq heard'
    BY <1>8, <2>2, HeardStays DEF Unknown, Going, Next
  <2>4. task'["app"] = task["app"] /\ \A w \in Watches : task'[w] = task[w]
    BY <1>2, <2>2 DEF Alone
  <2>5. task["worker"] = Rest
    BY <1>2, <2>2 DEF Owners
  <2>6. task'["worker"].on = "IncomingCall" => e = "IncomingCall"
    BY <1>1, <2>2, <2>5 DEF Starts
  <2>7. e = "IncomingCall" =>
       Unknown /\ "INVITE" \in heard' /\ heard' \cap {"BYE", "CANCEL", "end", "refusal"} = {}
    BY <2>1, <2>2 DEF Presence, Unknown
  <2>8. Going' /\ ~present' => Unknown' /\ "INVITE" \in heard' /\ task'["worker"] = Rest
    BY <2>1, <2>2, <2>3, <2>5 DEF Presence
  <2> QED
    BY <2>2, <2>3, <2>4, <2>6, <2>7, <2>8 DEF Presence
<1>9. ASSUME NEW c \in ApiCalls, AppCalls(c)
      PROVE  Presence'
  <2>1. /\ Alone("app") /\ UNCHANGED <<role, present, watch, release, told, heard>>
        /\ c # "SendOutboundInvite" => Known
        /\ c = "SendOutboundInvite" => role = "UAC"
    BY <1>9, CallTo
  <2>2. ~Unknown /\ ~Unknown' /\ Going' = Going
    BY <2>1 DEF Known, Unknown, Going
  <2>3. task'["worker"] = task["worker"]
    BY <1>2, <2>1 DEF Alone
  <2> QED
    BY <2>1, <2>2, <2>3 DEF Presence
<1>10. CASE UNCHANGED vars
  BY <1>10 DEF Presence, Unknown, Going, vars, storeVars, peerVars
<1> QED
  BY <1>3, <1>4, <1>5, <1>6, <1>7, <1>8, <1>9, <1>10 DEF Next, Releases, TaskStep

-----------------------------------------------------------------------------
(* The end of a call is on its way to the application.                     *)

\* Where a row may lead besides: the calling side connects only by a 200, and
\* a re-INVITE is sent by a connected call.
Settles(x) ==
  /\ x.role = "UAC" /\ x.from \notin Connected /\ x.on # "Dialog200OK" => x.to \notin Connected
  /\ x.acts \in {<<"re-INVITE">>, <<"builder-re-INVITE">>} => x.from \in Connected

\* Every row of the table does.
LEMMA RowsSettle ==
  ASSUME NEW x \in Table
  PROVE  Settles(x)
<1> USE DEF Settles, Connected, Same
<1>1. CASE x \in UacSetupRows
  BY <1>1, RowFields DEF UacSetupRows
<1>2. CASE x \in UasSetupRows
  BY <1>2, RowFields DEF UasSetupRows, AnsweringHangup
<1>3. CASE x \in EndRows
  BY <1>3, RowFields DEF EndRows, Roles, Established, Same
<1>4. CASE x \in HoldRows
  BY <1>4, RowFields DEF HoldRows, Roles, Failures
<1>5. CASE x \in ReinviteRows
  <2> DEFINE G == GuardedRows(Roles, {"Active"}, Failures \cup {"Dialog200OK", "DialogTimeout"},
                          "Active", <<"ClearPendingReinvite">>, TRUE)
             R == UNION {
        Rows(Roles, {"Resuming"}, {"ReinviteReceived"}, "Resuming", <<"491">>),
        Rows(Roles, {"HoldPending"}, {"ReinviteReceived"}, "OnHold",
             <<"re-200", "ClearPendingReinvite">>),
        Rows(Roles, {"Active"}, {"ReinviteReceived"}, "Active", <<"re-200">>),
        Rows(Roles, {"OnHold"}, {"ReinviteReceived"}, "OnHold", <<"re-200">>)}
  <2>1. x \in G \/ x \in R
    BY <1>5 DEF ReinviteRows
  <2>2. CASE x \in G
    <3>1. x.from = "Active" /\ x.to = "Active" /\ x.acts = <<"ClearPendingReinvite">>
      BY <2>2 DEF GuardedRows
    <3> QED
      BY <3>1
  <2>3. CASE x \in R
    BY <2>3, RowFields DEF Roles
  <2> QED
    BY <2>1, <2>2, <2>3
<1>6. CASE x \in FailureRows
  BY <1>6, RowFields DEF FailureRows, Roles, Failures
<1>7. CASE x \in CancelRows
  BY <1>7, RowFields DEF CancelRows, InitiatingHangup, Hangs, Failures, Same
<1>8. CASE x \in BuilderRows
  BY <1>8, RowFields DEF BuilderRows, Roles, Same
<1> QED
  BY <1>1, <1>2, <1>3, <1>4, <1>5, <1>6, <1>7, <1>8 DEF Table

\* A list of actions has a re-INVITE only if that is all it has.
LEMMA ReinviteLists ==
  ASSUME NEW l \in Lists, NEW a \in Reinvites, l # <<a>>
  PROVE  \A i \in DOMAIN l : l[i] # a
<1>1. CASE l = <<>>
  BY <1>1
<1>2. CASE l = <<"re-200", "ClearPendingReinvite">>
  BY <1>2 DEF Reinvites
<1>3. ASSUME NEW b \in ActNames, l = <<b>>
      PROVE  \A i \in DOMAIN l : l[i] # a
  BY <1>3
<1> QED
  BY <1>1, <1>2, <1>3 DEF Lists

\* Without a 200 the calling side neither connects nor sends a re-INVITE.
LEMMA TableConnect ==
  ASSUME role = "UAC"
  PROVE  TableWithin(Connected, {"Dialog200OK"}, Reinvites)
<1>1. ASSUME NEW x \in Table, x.role = role, x.from \notin Connected, x.on \notin {"Dialog200OK"}
      PROVE  x.to \in (CallState \cup {Same}) \ Connected /\ x.acts \in Seq(Acts \ Reinvites)
  <2>1. Leads(x) /\ Does(x) /\ Settles(x)
    BY RowsAllowed, RowsSettle
  <2>2. x.to \in (CallState \cup {Same}) \ Connected
    BY <1>1, <2>1 DEF Leads, Settles
  <2>3. x.acts \in Lists /\ x.acts \notin {<<"re-INVITE">>, <<"builder-re-INVITE">>}
    BY <1>1, <2>1 DEF Does, Settles
  <2>4. \A a \in Reinvites : x.acts # <<a>>
    BY <2>3 DEF Reinvites
  <2>5. \A i \in DOMAIN x.acts : x.acts[i] \notin Reinvites
    BY <2>3, <2>4, ReinviteLists
  <2> QED
    BY <2>2, <2>5, RowActs
<1>2. Connected \subseteq CallState \ {"Idle"} /\ "491" \notin Reinvites
  BY DEF Connected, CallState, Reinvites
<1>3. {"Dialog200OK"} \cap (ApiCalls \cup {"DialogTimeout", None}) = {}
  BY DEF ApiCalls, Builders, None
<1> QED
  BY <1>1, <1>2, <1>3 DEF TableWithin

\* The calling application has not made its call.
Uncalled == role = "UAC" /\ "SendOutboundInvite" \in calls

\* Until it does, nothing happens; until the 200 comes the calling side is
\* not connected anywhere and has no re-INVITE under way.
Setup ==
  /\ Uncalled => /\ wire = {} /\ heard = {} /\ ~inFlight /\ \A t \in Tasks : task[t] = Rest
                 /\ \A w \in Watches : watch[w] = None
  /\ role = "UAC" /\ "200" \notin heard =>
       ~inFlight /\ Within(Connected, {"Dialog200OK"}, Reinvites)

\* Every step keeps it so.
LEMMA SetupStep ==
  ASSUME Typed, Setup, [Next]_vars
  PROVE  Setup'
<1>1. role' = role /\ heard \subseteq heard'
  BY HeardStays
<1>2. ASSUME role = "UAC", "200" \notin heard'
      PROVE  ~inFlight' /\ Within(Connected, {"Dialog200OK"}, Reinvites)'
  <2>1. ~inFlight /\ Within(Connected, {"Dialog200OK"}, Reinvites)
    BY <1>1, <1>2 DEF Setup
  <2>2. Deliver => \E e \in WorkerEvents \ {"Dialog200OK"} : Handle(e)
    BY <1>2, <2>1, DeliveredFor
  <2>3. Within(Connected, {"Dialog200OK"}, Reinvites)'
    BY <1>2, <2>1, <2>2, WithinStep, TableConnect
  <2>4. ~inFlight'
    <3>1. ASSUME NEW t \in Tasks, Act(t)
          PROVE  ~inFlight'
      <4>1. task[t].acts # <<>> /\ task[t].acts \in Seq(Acts \ Reinvites)
        BY <2>1, <3>1, ActTo DEF Within, TaskBut
      <4>2. Head(task[t].acts) \notin Reinvites
        BY <4>1
      <4> QED
        BY <2>1, <3>1, <4>2, ActTo
    <3>2. ASSUME NEW t \in Tasks, TaskStep(t), ~Act(t)
          PROVE  UNCHANGED inFlight
      BY <3>2 DEF TaskStep, Process, Stage, Load, Commit, Merge, Save, WatchFires, WatchEnds, WorkerEnds,
                  AppEnds, peerVars
    <3>3. CASE ReleaseStep \/ UNCHANGED vars
      BY <2>1, <3>3 DEF ReleaseStep, vars, peerVars
    <3>4. CASE Deliver
      BY <2>1, <3>4, DeliveredFor
    <3>5. ASSUME NEW c \in ApiCalls, AppCalls(c)
          PROVE  ~inFlight'
      BY <2>1, <3>5 DEF AppCalls, peerVars
    <3> QED
      BY <2>1, <3>1, <3>2, <3>3, <3>4, <3>5 DEF Next, Releases
  <2> QED
    BY <2>3, <2>4
<1>3. ASSUME Uncalled'
      PROVE  /\ wire' = {} /\ heard' = {} /\ ~inFlight' /\ \A t \in Tasks : task'[t] = Rest
             /\ \A w \in Watches : watch'[w] = None
  <2>1. calls' \subseteq calls
    <3>1. ASSUME NEW t \in Tasks, TaskStep(t)
          PROVE  calls' = calls
      BY <3>1 DEF TaskStep, Process, Stage, Load, Commit, Act, Merge, Save, WatchFires, WatchEnds,
                  WorkerEnds, AppEnds
    <3>2. CASE Deliver
      BY <3>2, DeliveredFor DEF Handle
    <3>3. CASE ReleaseStep \/ UNCHANGED vars
      BY <3>3 DEF ReleaseStep, vars
    <3>4. ASSUME NEW c \in ApiCalls, AppCalls(c)
          PROVE  calls' \subseteq calls
      BY <3>4 DEF AppCalls
    <3> QED
      BY <3>1, <3>2, <3>3, <3>4 DEF Next, Releases
  <2>2. /\ wire = {} /\ heard = {} /\ ~inFlight /\ \A t \in Tasks : task[t] = Rest
        /\ \A w \in Watches : watch[w] = None
    BY <1>1, <1>3, <2>1 DEF Uncalled, Setup
  <2>3. role = "UAC" /\ Rest.at = "rest" /\ "worker" \in Tasks /\ "app" \in Tasks /\ Watches \subseteq Tasks
    BY <1>1, <1>3 DEF Uncalled, Rest, Tasks
  <2>4. ASSUME NEW t \in Tasks, TaskStep(t)
        PROVE  FALSE
    BY <2>2, <2>3, <2>4 DEF TaskStep, Process, Stage, Load, Commit, Act, Merge, Save, WatchFires,
                            WatchEnds, WorkerEnds, AppEnds
  <2>5. ~Deliver
    BY <2>2, <2>3 DEF Deliver, IncomingCall, CallProgress, CallEstablished, CallFailed,
                      CallCancelled, CallTerminated, ByeReceived, AckReceived, ReinviteReceived,
                      Unanswered, Up
  <2>6. ASSUME NEW c \in ApiCalls, AppCalls(c)
        PROVE  FALSE
    BY <1>1, <1>3, <2>1, <2>3, <2>6, CallTo DEF Known, Uncalled
  <2>7. CASE ReleaseStep \/ UNCHANGED vars
    BY <2>2, <2>7 DEF ReleaseStep, vars, peerVars
  <2> QED
    BY <2>4, <2>5, <2>6, <2>7 DEF Next, Releases
<1> QED
  BY <1>1, <1>2, <1>3 DEF Setup

\* The worker is on an end of the dialog, which it will report: a failure
\* only if it is not a re-INVITE's.
Ending ==
  /\ task["worker"].at # "rest"
  /\ \/ task["worker"].on \in {"DialogBYE", "Dialog487RequestTerminated"}
     \/ task["worker"].on = "Dialog4xxFailure" /\ ~MidCall(task["worker"])

\* When the peer has ended or refused a call the application knows of, the
\* end has been published to it, or a release task has it to publish, or the
\* worker is on the way to spawn one.
EndOnItsWay ==
  Known /\ heard \cap Ends # {} /\ Going => release \cap Terminal # {} \/ Ending

\* A release task publishes the end it carries, or finds it published.
LEMMA ReleaseTells ==
  ASSUME OthersTyped, Presence, ReleaseStep
  PROVE  ~Going'
<1>1. PICK e \in release : told' = told \cup ({e} \cap Terminal)
  BY DEF ReleaseStep
<1>2. CASE e \in Terminal
  BY <1>1, <1>2 DEF Going
<1>3. CASE e = None
  BY <1>1, <1>3 DEF Presence, Going
<1> QED
  BY <1>1, <1>2, <1>3 DEF OthersTyped

\* No step loses the end.
LEMMA EndStep ==
  ASSUME Typed, OthersTyped, Owners, Presence, Setup, EndOnItsWay, [Next]_vars
  PROVE  EndOnItsWay'
<1> SUFFICES ASSUME Known', heard' \cap Ends # {}, Going'
             PROVE  release' \cap Terminal # {} \/ Ending'
  BY DEF EndOnItsWay
<1>1. "worker" \in Tasks /\ "app" \in Tasks /\ Watches \subseteq Tasks \ {"worker", "app"}
  BY DEF Tasks, Watches
<1>2. ASSUME NEW t \in Tasks, Process(t)
      PROVE  release' \cap Terminal # {} \/ Ending'
  <2>1. Alone(t) /\ UNCHANGED <<role, release, told, calls, heard>>
    BY <1>2, StageTo, LoadTo, CommitTo, ActTo, MergeTo, SaveTo DEF Process
  <2>2. release \cap Terminal # {} \/ Ending
    BY <2>1 DEF EndOnItsWay, Known, Going
  <2>3. CASE Ending /\ t = "worker"
    <3>1. task[t].on \notin Quiet
      BY <2>3 DEF Ending, Quiet
    <3>2. task'[t].at # "rest" /\ task'[t].on = task[t].on /\ task'[t].seen = task[t].seen
      BY <1>2, <3>1, StageTo, LoadTo, CommitTo, ActTo, MergeTo, SaveTo DEF Process, Returned, Moves, Takes
    <3> QED
      BY <2>3, <3>2 DEF Ending, MidCall
  <2>4. CASE Ending /\ t # "worker"
    <3>1. task'["worker"] = task["worker"]
      BY <1>1, <2>1, <2>4 DEF Alone
    <3> QED
      BY <2>4, <3>1 DEF Ending, MidCall
  <2> QED
    BY <2>1, <2>2, <2>3, <2>4
<1>3. ASSUME NEW w \in Watches, WatchFires(w) \/ WatchEnds(w)
      PROVE  release' \cap Terminal # {} \/ Ending'
  <2>1. Alone(w) /\ UNCHANGED <<role, told, calls, heard>> /\ release \subseteq release'
    BY <1>3, WatchTo
  <2>2. release \cap Terminal # {} \/ Ending
    BY <2>1 DEF EndOnItsWay, Known, Going
  <2>3. task'["worker"] = task["worker"]
    BY <1>1, <2>1 DEF Alone
  <2> QED
    BY <2>1, <2>2, <2>3 DEF Ending, MidCall
<1>4. CASE WorkerEnds
  <2>1. UNCHANGED <<role, calls, heard>>
    BY <1>4 DEF WorkerEnds, peerVars
  <2>2. CASE AfterIncoming(task["worker"])
    <3>1. heard \cap Ends = {}
      BY <2>2 DEF AfterIncoming, Presence, Ends
    <3> QED
      BY <2>1, <3>1
  <2>3. CASE AfterFailure(task["worker"]) \/ AfterEnd(task["worker"])
    <3>1. UNCHANGED told /\ release \subseteq release'
      BY <2>3 DEF AfterFailure, AfterEnd, Spawn
    <3>2. release \cap Terminal # {} \/ Ending
      BY <2>1, <3>1 DEF EndOnItsWay, Known, Going
    <3>3. CASE Ending
      <4>1. \E e \in Terminal : release' = release \cup {e}
        BY <2>3, <3>3 DEF AfterFailure, AfterEnd, Spawn, Ending, Terminal
      <4> QED
        BY <4>1
    <3> QED
      BY <3>1, <3>2, <3>3
  <2> QED
    BY <1>4, <2>2, <2>3 DEF WorkerEnds
<1>5. CASE AppEnds
  <2>1. Alone("app") /\ UNCHANGED <<role, told, calls, heard>> /\ release \subseteq release'
    BY <1>5, EndsTo DEF AppEnds, AfterHangup, Spawn, peerVars
  <2>2. release \cap Terminal # {} \/ Ending
    BY <2>1 DEF EndOnItsWay, Known, Going
  <2>3. task'["worker"] = task["worker"]
    BY <1>1, <2>1 DEF Alone
  <2> QED
    BY <2>1, <2>2, <2>3 DEF Ending, MidCall
<1>6. CASE ReleaseStep
  BY <1>6, ReleaseTells
<1>7. CASE Deliver
  <2>1. PICK e \in WorkerEvents :
           /\ Handle(e)
           /\ \/ heard' \cap Ends = heard \cap Ends
              \/ e \in {"DialogBYE", "Dialog487RequestTerminated"}
              \/ e = "Dialog4xxFailure" /\ Unanswered
    BY <1>7, DeliveredFor
  <2>2. /\ heard \cap {"BYE", "CANCEL", "end", "refusal"} = {}
        /\ UNCHANGED <<role, present, told, calls>>
        /\ \/ ~present /\ e # "IncomingCall" /\ UNCHANGED task
           \/ /\ present \/ e = "IncomingCall"
              /\ Starts("worker", e)
              /\ e \in Failures => task'["worker"].seen = rec.state
    BY <2>1, HandleTo
  <2>3. \/ e \in {"DialogBYE", "Dialog487RequestTerminated"}
        \/ e = "Dialog4xxFailure" /\ Unanswered
    BY <2>1, <2>2 DEF Ends
  <2>4. present
    BY <2>2 DEF Presence, Unknown, Known, Going
  <2>5. Starts("worker", e)
    BY <2>2, <2>4
  <2>6. e = "Dialog4xxFailure" => task'["worker"].seen \notin {"HoldPending", "Resuming"}
    <3> SUFFICES ASSUME e = "Dialog4xxFailure" PROVE task'["worker"].seen \notin {"HoldPending", "Resuming"}
      OBVIOUS
    <3>1. rec.state \notin Connected
      BY <2>3 DEF Unanswered, Setup, Within, RecordBut
    <3>2. task'["worker"].seen = rec.state
      BY <2>2, <2>4 DEF Failures
    <3> QED
      BY <3>1, <3>2 DEF Connected
  <2> QED
    BY <2>3, <2>5, <2>6 DEF Ending, MidCall, Starts
<1>8. ASSUME NEW c \in ApiCalls, AppCalls(c)
      PROVE  release' \cap Terminal # {} \/ Ending'
  <2>1. /\ Alone("app") /\ UNCHANGED <<role, release, told, heard>> /\ calls' = calls \ {c}
        /\ c # "SendOutboundInvite" => Known
        /\ c = "SendOutboundInvite" => role = "UAC"
        /\ c \in calls
    BY <1>8, CallTo
  <2>2. Known
    BY <2>1 DEF Setup, Uncalled, Known
  <2>3. release \cap Terminal # {} \/ Ending
    BY <2>1, <2>2 DEF EndOnItsWay, Going
  <2>4. task'["worker"] = task["worker"]
    BY <1>1, <2>1 DEF Alone
  <2> QED
    BY <2>1, <2>3, <2>4 DEF Ending, MidCall
<1>9. CASE UNCHANGED vars
  BY <1>9 DEF EndOnItsWay, Known, Going, Ending, MidCall, vars, storeVars, peerVars
<1> QED
  BY <1>2, <1>3, <1>4, <1>5, <1>6, <1>7, <1>8, <1>9 DEF Next, Releases, TaskStep

\* The common part of the invariants.
Common == Typed /\ OthersTyped /\ Owners /\ Presence /\ Setup

\* It holds from the start, and every step keeps it.
LEMMA CommonInductive == (Init => Common) /\ (Common /\ [Next]_vars => Common')
<1>1. ASSUME Init
      PROVE  Common
  <2>1. \A t \in Tasks : task[t] = Rest
    BY <1>1 DEF Init
  <2>2. "worker" \in Tasks /\ "app" \in Tasks /\ Watches \subseteq Tasks
    BY DEF Tasks
  <2>3. Rest.on = None /\ Rest.at = "rest" /\ None # "IncomingCall"
    BY DEF Rest, None
  <2>4. Typed
    BY <1>1, WithinInit, TableTypes DEF Typed
  <2>5. OthersTyped
    BY <1>1, ScriptsAssumption DEF Init, OthersTyped
  <2>6. Owners
    BY <2>1, <2>3 DEF Owners
  <2>7. \A w \in Watches : task[w] = Rest /\ watch[w] = None
    BY <1>1, <2>1, <2>2 DEF Init
  <2>8. Presence
    BY <1>1, <2>1, <2>2, <2>3, <2>7 DEF Init, Presence, Unknown, Going
  <2>9. role = "UAC" => Within(Connected, {"Dialog200OK"}, Reinvites)
    BY <1>1, WithinInit, TableConnect
  <2>10. Setup
    BY <1>1, <2>1, <2>7, <2>9 DEF Init, Setup
  <2> QED
    BY <2>4, <2>5, <2>6, <2>8, <2>10 DEF Common
<1>2. ASSUME Common, [Next]_vars
      PROVE  Common'
  <2>1. Deliver => \E e \in WorkerEvents \ {} : Handle(e)
    BY DeliveredFor
  <2>2. Typed'
    BY <1>2, <2>1, WithinStep, TableTypes DEF Common, Typed
  <2>3. OthersTyped'
    BY <1>2, OthersStep DEF Common, Typed
  <2> QED
    BY <1>2, <2>2, <2>3, OwnersStep, PresenceStep, SetupStep DEF Common
<1> QED
  BY <1>1, <1>2

\* A call the peer has ended or refused is never forgotten, whatever the
\* refusals of the transport, the late saves and the number of threads: until
\* the application has been told, some task still has the end to tell.
THEOREM EndTheorem == Spec => []EndOnItsWay
<1>1. Init => EndOnItsWay
  BY DEF Init, EndOnItsWay
<1>2. Common /\ EndOnItsWay /\ [Next]_vars => EndOnItsWay'
  BY EndStep DEF Common
<1> QED
  BY <1>1, <1>2, CommonInductive, PTL DEF Spec
=============================================================================
