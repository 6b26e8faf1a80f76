---------------------------- MODULE UasCallProofs ----------------------------
(***************************************************************************)
(* Theorems about one inbound call, for any number of CANCELs, ACKs, BYEs, *)
(* waiting events and refused responses: the dialog never goes back, an    *)
(* ACK that is reported was one of an accepted call, the BYE of an         *)
(* accepted call is honoured, and nothing that has to happen has lost the  *)
(* actor that would do it: the INVITE can be answered until it is, a       *)
(* confirmed dialog can be found, and a dialog that was hung up is being   *)
(* removed.                                                                *)
(*                                                                         *)
(* The actors meet in the dialog, the event queue and the wire.  What the  *)
(* invariant adds to the properties is what each of these says about the   *)
(* others: an event or an order that waits tells what became of the        *)
(* dialog, a response tells who gave it, and a remover that moved tells    *)
(* why it did.                                                             *)
(***************************************************************************)
EXTENDS UasCall, SequenceTheorems, TLAPS

Over      == dialog \in {"Terminated", "Removed"}
Accepted  == Has(wire, "200")
Refused   == \E r \in Finals \ {"200"} : Has(wire, r)
Cut       == "CallCancelled" \in told \/ gaveUp
Given     == answer.at \in {"cache", "done", "failed"}
Prepared  == answer.at = "send" \/ Given

\* Nobody has touched the call.
Pristine ==
  /\ dialog = None /\ worker = "idle" /\ answer.at = "idle" /\ told = {} /\ wire = <<>>
  /\ orders = <<>> /\ last = None /\ \A r \in Removers : remover[r] = "idle"

InviteFirst == \A i \in DOMAIN events : events[i] = "Invite" => i = 1

\* The INVITE is handled once, and before everything else.
Started ==
  /\ state = None => Pristine /\ events = <<>>
  /\ InviteFirst
  /\ Has(events, "Invite") =>
       /\ Pristine /\ state = "Proceeding"
       /\ ~Has(events, "Ack") /\ ~Has(events, "Terminated") /\ ~Has(events, "Bye")
  /\ dialog = None => /\ ~linked /\ ~early /\ ~lookup /\ answer.at = "idle" /\ told = {}
                      /\ worker # "ack" /\ ~gaveUp
  /\ worker = "refuse" => dialog = None
  /\ answer.at # "idle" => answer.with # None

\* After a refusal the dialog is over, unless the CANCEL that refused it is
\* still being handled, or the session gave the call up in between.
Settled == \/ Accepted \/ Over \/ dialog = None \/ gaveUp
           \/ worker \in {"cancelCache", "cancelEnd"}

\* What the transaction layer holds is explained by what was done to the call.
Responses ==
  /\ last = "200" \/ cache # None \/ Accepted => answer.with = "200" /\ Given
  /\ Has(events, "Bye") \/ worker = "bye" => Accepted
  /\ state \in {"Completed", "Confirmed", "Terminated"} \/ orders # <<>> => Settled
  /\ Has(events, "Ack") \/ Has(events, "Terminated") => Settled
  /\ ~mapped /\ state # None => state = "Terminated"
  /\ dialog \in {"Early", "Confirmed"} => linked \/ Accepted \/ gaveUp
  /\ worker = "ack" => Accepted \/ Over \/ gaveUp
  /\ "AckReceived" \in told => Accepted \/ dialog = "Removed" \/ gaveUp

\* Why the dialog is over, and what is left of it.
Ending ==
  /\ dialog = "Confirmed" => answer.with = "200" /\ Prepared /\ lookup
  /\ answer.with = "486" /\ Prepared => Over
  /\ Ends \cap told # {} => Over
  /\ "ByeReceived" \in told => remover["bye"] # "idle"
  /\ remover["bye"] # "idle" => cseq = "BYE" /\ Over
  /\ \A r \in Removers : remover[r] \in {"forget", "done"} => dialog = "Removed"
  /\ ~Cut =>
       /\ remover["session"] # "idle" => Over /\ (remover["bye"] # "idle" \/ answer.with = "486")
       /\ Over => Prepared
       /\ answer.with = "200" /\ Prepared =>
            tagged /\ (lookup \/ dialog = "Removed") /\ (dialog = "Removed" => tombstone = "BYE")
  /\ "481" \in byeWire => Cut

Inv == TypeOK /\ Started /\ Responses /\ Ending

-----------------------------------------------------------------------------
(* Queues.                                                                 *)

\* One more element at the end.
LEMMA HasAppend ==
  ASSUME NEW S, NEW s \in Seq(S), NEW x \in S
  PROVE  /\ Append(s, x) \in Seq(S)
         /\ \A y : Has(Append(s, x), y) <=> Has(s, y) \/ x = y
<1>1. /\ Append(s, x) \in Seq(S) /\ Len(s) \in Nat /\ DOMAIN s = 1..Len(s)
      /\ DOMAIN Append(s, x) = 1..(Len(s) + 1)
      /\ \A i \in 1..Len(s) : Append(s, x)[i] = s[i]
      /\ Append(s, x)[Len(s) + 1] = x
  BY AppendProperties
<1>2. ASSUME NEW y, Has(s, y) \/ x = y PROVE Has(Append(s, x), y)
  BY <1>1, <1>2 DEF Has
<1>3. ASSUME NEW y, Has(Append(s, x), y) PROVE Has(s, y) \/ x = y
  BY <1>1, <1>3 DEF Has
<1> QED
  BY <1>1, <1>2, <1>3

\* Without the first element.
LEMMA HasTail ==
  ASSUME NEW S, NEW s \in Seq(S), s # <<>>
  PROVE  /\ Tail(s) \in Seq(S) /\ Head(s) \in S /\ Has(s, Head(s))
         /\ \A y : Has(s, y) <=> Has(Tail(s), y) \/ y = Head(s)
<1>1. /\ Tail(s) \in Seq(S) /\ Len(s) \in Nat /\ DOMAIN s = 1..Len(s) /\ 1 <= Len(s)
      /\ DOMAIN Tail(s) = 1..(Len(s) - 1) /\ Head(s) = s[1] /\ Head(s) \in S
      /\ \A i \in 1..(Len(s) - 1) : Tail(s)[i] = s[i + 1]
  <2>1. Len(s) \in Nat /\ DOMAIN s = 1..Len(s) /\ 1 <= Len(s)
    BY EmptySeq
  <2> QED
    BY <2>1, HeadTailProperties, ElementOfSeq
<1>2. Has(s, Head(s))
  BY <1>1 DEF Has
<1>3. ASSUME NEW y, Has(Tail(s), y) PROVE Has(s, y)
  <2>1. PICK i \in 1..(Len(s) - 1) : s[i + 1] = y
    BY <1>1, <1>3 DEF Has
  <2>2. i + 1 \in DOMAIN s
    BY <1>1
  <2> QED
    BY <2>1, <2>2 DEF Has
<1>4. ASSUME NEW y, Has(s, y) PROVE Has(Tail(s), y) \/ y = Head(s)
  <2>1. PICK i \in 1..Len(s) : s[i] = y
    BY <1>1, <1>4 DEF Has
  <2>2. CASE i = 1
    BY <1>1, <2>1, <2>2
  <2>3. CASE i # 1
    <3>1. i - 1 \in DOMAIN Tail(s) /\ Tail(s)[i - 1] = y
      BY <1>1, <2>1, <2>3
    <3> QED
      BY <3>1 DEF Has
  <2> QED
    BY <2>2, <2>3
<1> QED
  BY <1>1, <1>2, <1>3, <1>4

\* An empty queue.
LEMMA HasNone == \A y : ~Has(<<>>, y)
BY DEF Has

\* What send_response orders the runner to do.
LEMMA OrderType ==
  ASSUME TypeOK, NEW r \in Finals
  PROVE  orders \o Order(r) \in Seq({"Completed", "Terminated"})
<1>0. orders \in Seq({"Completed", "Terminated"})
  BY DEF TypeOK, ManagerTypeOK
<1>1. CASE Order(r) = <<>>
  <2>1. orders \o <<>> = orders
    BY <1>0, ConcatEmptySeq
  <2> QED
    BY <1>0, <1>1, <2>1
<1>2. ASSUME NEW x \in {"Completed", "Terminated"}, Order(r) = <<x>>
      PROVE  orders \o Order(r) \in Seq({"Completed", "Terminated"})
  <2>1. orders \o <<x>> = Append(orders, x)
    BY <1>0, AppendIsConcat
  <2>2. Append(orders, x) \in Seq({"Completed", "Terminated"})
    BY <1>0, HasAppend
  <2> QED
    BY <1>2, <2>1, <2>2
<1> QED
  BY <1>1, <1>2 DEF Order

\* A response to the INVITE.
LEMMA SendFacts ==
  ASSUME TypeOK, NEW r \in Finals, SendFinal(r)
  PROVE  /\ mapped /\ last' = r /\ wire' \in Seq(Finals) /\ wire' # <<>>
         /\ \A y : Has(wire', y) <=> Has(wire, y) \/ r = y
         /\ orders' \in Seq({"Completed", "Terminated"})
         /\ UNCHANGED <<state, mapped, index, cache, byeTx, events, acked, refused, budget>>
<1>1. wire \in Seq(Finals)
  BY DEF TypeOK, ManagerTypeOK
<1>2. wire' \in Seq(Finals) /\ \A y : Has(wire', y) <=> Has(wire, y) \/ r = y
  BY <1>1, HasAppend DEF SendFinal
<1>3. wire' # <<>>
  BY <1>2, HasNone
<1> QED
  BY <1>2, <1>3, OrderType DEF SendFinal

\* A stored response is sent.
LEMMA ResendFacts ==
  ASSUME TypeOK, NEW r \in Finals, Resend(r)
  PROVE  /\ wire' \in Seq(Finals) /\ wire' # <<>>
         /\ \A y : Has(wire', y) <=> Has(wire, y) \/ r = y
         /\ UNCHANGED <<state, mapped, last, orders, index, cache, byeTx, events, acked, refused, budget>>
<1>1. wire \in Seq(Finals)
  BY DEF TypeOK, ManagerTypeOK
<1>2. wire' \in Seq(Finals) /\ \A y : Has(wire', y) <=> Has(wire, y) \/ r = y
  <2>1. CASE Has(wire, r)
    BY <1>1, <2>1 DEF Resend
  <2>2. CASE ~Has(wire, r)
    BY <1>1, <2>2, HasAppend DEF Resend
  <2> QED
    BY <2>1, <2>2
<1>3. wire' # <<>>
  BY <1>2, HasNone
<1> QED
  BY <1>2, <1>3 DEF Resend

\* The worker takes the first event.
LEMMA TakeFacts ==
  ASSUME TypeOK, NEW e \in TransactionEvents, Take(e)
  PROVE  /\ worker = "idle" /\ Has(events, e) /\ events' \in Seq(TransactionEvents)
         /\ \A y : Has(events', y) => Has(events, y)
         /\ InviteFirst => /\ InviteFirst' /\ ~Has(events', "Invite")
                           /\ e # "Invite" => ~Has(events, "Invite")
<1>1. events \in Seq(TransactionEvents) /\ events # <<>> /\ events' = Tail(events)
      /\ e = Head(events) /\ worker = "idle"
  BY DEF Take, TypeOK, ManagerTypeOK
<1>2. /\ Tail(events) \in Seq(TransactionEvents) /\ Has(events, Head(events))
      /\ \A y : Has(events, y) <=> Has(Tail(events), y) \/ y = Head(events)
  BY <1>1, HasTail
<1>3. /\ Len(events) \in Nat /\ DOMAIN events = 1..Len(events)
      /\ DOMAIN Tail(events) = 1..(Len(events) - 1)
      /\ Head(events) = events[1]
      /\ \A i \in 1..(Len(events) - 1) : Tail(events)[i] = events[i + 1]
  BY <1>1, EmptySeq, HeadTailProperties
<1>4. InviteFirst => ~Has(events', "Invite")
  BY <1>1, <1>3 DEF InviteFirst, Has
<1>5. InviteFirst => InviteFirst'
  BY <1>4 DEF InviteFirst, Has
<1> QED
  BY <1>1, <1>2, <1>4, <1>5

\* An event is added.
LEMMA AddFacts ==
  ASSUME TypeOK, NEW e \in TransactionEvents, events' = Append(events, e)
  PROVE  /\ events' \in Seq(TransactionEvents)
         /\ \A y : Has(events', y) <=> Has(events, y) \/ e = y
         /\ InviteFirst /\ e # "Invite" => InviteFirst'
         /\ events = <<>> => InviteFirst'
<1>1. events \in Seq(TransactionEvents)
  BY DEF TypeOK, ManagerTypeOK
<1>2. events' \in Seq(TransactionEvents) /\ \A y : Has(events', y) <=> Has(events, y) \/ e = y
  BY <1>1, HasAppend
<1>3. /\ Len(events) \in Nat /\ DOMAIN events = 1..Len(events)
      /\ DOMAIN events' = 1..(Len(events) + 1) /\ events'[Len(events) + 1] = e
      /\ \A i \in 1..Len(events) : events'[i] = events[i]
  BY <1>1, AppendProperties
<1>4. InviteFirst /\ e # "Invite" => InviteFirst'
  BY <1>3 DEF InviteFirst
<1>5. events = <<>> => InviteFirst'
  <2>1. events = <<>> => Len(events) = 0
    BY EmptySeq
  <2> QED
    BY <1>3, <2>1 DEF InviteFirst
<1> QED
  BY <1>2, <1>4, <1>5

-----------------------------------------------------------------------------
(* The network's steps.                                                    *)

\* No call yet.
LEMMA InvInit == Init => Inv
<1> SUFFICES ASSUME Init PROVE Inv
  OBVIOUS
<1>1. budget \in [{"cancel", "ack", "refusalAck", "bye"} -> Nat]
  BY BoundsAssumption DEF Init, ManagerInit
<1>2. TypeOK
  <2>0. <<>> \in Seq({"Completed", "Terminated"}) /\ <<>> \in Seq(TransactionEvents) /\ <<>> \in Seq(Finals)
    OBVIOUS
  <2>1. ManagerTypeOK
    <3>1. {mapped, byeTx, acked} \subseteq BOOLEAN
      BY DEF Init, ManagerInit
    <3> QED
      BY <1>1, <2>0, <3>1 DEF Init, ManagerInit, ManagerTypeOK
  <2>2. /\ answer \in [at : {"idle", "prepare", "send", "cache", "done", "failed"},
                       with : {None, "200", "486"}]
        /\ remover \in [Removers -> {"idle", "emit", "drop", "forget", "done"}]
    BY DEF Init
  <2>3. gaveUp \in BOOLEAN
    BY DEF Init
  <2> QED
    BY <2>1, <2>2, <2>3 DEF Init, TypeOK
<1>3. Started /\ Responses /\ Ending
  BY HasNone DEF Init, ManagerInit, Started, Pristine, InviteFirst, Responses, Settled, Given,
                 Accepted, Ending, Over, Prepared, Cut, Ends, Removers, None
<1> QED
  BY <1>2, <1>3 DEF Inv

\* The INVITE arrives.
LEMMA InviteArrivesInv ==
  ASSUME Inv, InviteArrives, UNCHANGED callVars
  PROVE  Inv'
<1>1. /\ TypeOK /\ Started /\ events = <<>> /\ Pristine /\ UNCHANGED <<wire, orders, last>>
      /\ state' = "Proceeding" /\ mapped' /\ events' = Append(events, "Invite")
  BY DEF Inv, Started, InviteArrives
<1>2. /\ events' \in Seq(TransactionEvents) /\ InviteFirst'
      /\ \A y : Has(events', y) <=> Has(events, y) \/ "Invite" = y
  BY <1>1, AddFacts DEF TransactionEvents
<1>3. TypeOK'
  BY <1>2 DEF Inv, InviteArrives, callVars, dialogVars, TypeOK, ManagerTypeOK
<1>4. Pristine'
  BY <1>1 DEF Pristine, callVars, dialogVars
<1>5. ~Has(events', "Ack") /\ ~Has(events', "Terminated") /\ ~Has(events', "Bye")
  BY <1>1, <1>2, HasNone
<1>6. Started'
  BY <1>1, <1>2, <1>4, <1>5 DEF Started, callVars, dialogVars, None
<1>7. Responses'
  BY <1>1, <1>5 DEF Inv, InviteArrives, Responses, Accepted, Given, Settled, Over, callVars, dialogVars
<1>8. Ending'
  BY DEF Inv, Ending, Over, Prepared, Given, Cut, callVars, dialogVars
<1> QED
  BY <1>3, <1>6, <1>7, <1>8 DEF Inv

\* A step of the transaction layer alone that is explained by what was done to
\* the call before.
Explained ==
  /\ ManagerTypeOK' /\ (Pristine => Pristine')
  /\ Accepted => Accepted'
  /\ last' = "200" \/ cache' # None \/ Accepted' => answer.with = "200" /\ Given
  /\ InviteFirst' /\ (Has(events', "Invite") => Has(events, "Invite"))
  /\ Has(events', "Bye") => Accepted
  /\ \A x \in {"Ack", "Terminated"} : Has(events', x) => Has(events, x) \/ (Settled /\ ~Has(events, "Invite"))
  /\ state' = None => state = None /\ events' = events
  /\ state' = state \/ ~Has(events, "Invite")
  /\ state' \in {"Completed", "Confirmed", "Terminated"} \/ orders' # <<>> => Settled
  /\ ~mapped' /\ state' # None => state' = "Terminated"

\* Such a step keeps the invariant.
LEMMA ExplainedInv ==
  ASSUME Inv, Explained, UNCHANGED callVars
  PROVE  Inv'
<1>1. TypeOK'
  BY DEF Inv, Explained, TypeOK, callVars, dialogVars
<1>2. (Settled => Settled') /\ Over' = Over /\ Given' = Given /\ Prepared' = Prepared /\ Cut' = Cut
  BY DEF Explained, Settled, Over, Given, Prepared, Cut, callVars, dialogVars
<1>3. Pristine => ~Accepted
  BY HasNone DEF Pristine, Accepted
<1>4. Started'
  BY <1>3 DEF Inv, Explained, Started, callVars, dialogVars, None
<1>5. Responses'
  BY <1>2 DEF Inv, Explained, Responses, callVars, dialogVars
<1>6. Ending'
  BY <1>2 DEF Inv, Ending, callVars, dialogVars
<1> QED
  BY <1>1, <1>4, <1>5, <1>6 DEF Inv

\* A call somebody has touched has had its INVITE taken.
LEMMA Begun ==
  ASSUME Inv, ~Pristine
  PROVE  state # None /\ ~Has(events, "Invite") /\ InviteFirst
BY DEF Inv, Started

\* A stored response of a call that has one.
LEMMA ResendInv ==
  ASSUME Inv, NEW r \in Finals, Resend(r), last # None \/ cache # None,
         r = "200" => answer.with = "200" /\ Given, UNCHANGED callVars
  PROVE  Inv'
<1>1. ~Pristine
  BY DEF Inv, Responses, Given, Pristine
<1>2. state # None /\ ~Has(events, "Invite") /\ InviteFirst
  BY <1>1, Begun
<1>3. /\ wire' \in Seq(Finals) /\ \A y : Has(wire', y) <=> Has(wire, y) \/ r = y
      /\ UNCHANGED <<state, mapped, last, orders, index, cache, byeTx, events, acked, refused, budget>>
  BY ResendFacts DEF Inv
<1>4. (Accepted => Accepted') /\ (Accepted' => Accepted \/ r = "200")
  BY <1>3 DEF Accepted
<1>5. ManagerTypeOK'
  BY <1>3 DEF Inv, TypeOK, ManagerTypeOK
<1>6. InviteFirst'
  BY <1>2, <1>3 DEF InviteFirst
<1>7. Explained
  BY <1>1, <1>2, <1>3, <1>4, <1>5, <1>6 DEF Inv, Explained, Responses
<1> QED
  BY <1>7, ExplainedInv

\* What the peer sends after the INVITE.
LEMMA NetworkInv ==
  ASSUME Inv, Network, UNCHANGED callVars
  PROVE  Inv'
<1>0. TypeOK /\ ManagerTypeOK /\ Started /\ Responses
  BY DEF Inv, TypeOK
<1>i. InviteFirst /\ (state = None => Pristine)
  BY <1>0 DEF Started
<1>p. Pristine => ~Accepted /\ ~Refused
  BY HasNone DEF Pristine, Accepted, Refused
<1>1. CASE InviteArrives
  BY <1>1, InviteArrivesInv
<1>2. CASE InviteRepeated
  <2>1. Resend("200") /\ cache # None /\ "200" \in Finals
    BY <1>2 DEF InviteRepeated, Finals
  <2>2. answer.with = "200" /\ Given
    BY <1>0, <2>1 DEF Responses
  <2> QED
    BY <2>1, <2>2, ResendInv
<1>3. CASE CancelArrives
  <2>1. PICK e \in {"Cancel", "CancelUnmatched"} : events' = Append(events, e)
    BY <1>3 DEF CancelArrives
  <2>2. /\ events' \in Seq(TransactionEvents) /\ InviteFirst'
        /\ \A y : Has(events', y) <=> Has(events, y) \/ e = y
    BY <1>0, <1>i, <2>1, AddFacts DEF TransactionEvents
  <2>3. budget' \in [{"cancel", "ack", "refusalAck", "bye"} -> Nat]
    BY <1>0, <1>3 DEF CancelArrives, Spend, ManagerTypeOK
  <2>4. UNCHANGED <<state, mapped, last, orders, index, cache, byeTx, wire, acked, refused>>
        /\ state # None
    BY <1>3 DEF CancelArrives
  <2>5. Pristine' = Pristine /\ Accepted' = Accepted
    BY <2>4 DEF Pristine, Accepted, callVars, dialogVars
  <2>6. ManagerTypeOK'
    BY <1>0, <2>2, <2>3, <2>4 DEF ManagerTypeOK
  <2>7. Explained
    BY <1>0, <1>i, <2>2, <2>4, <2>5, <2>6 DEF Explained, Responses
  <2> QED
    BY <2>7, ExplainedInv
<1>4. CASE AckArrives
  <2>1. Accepted
    BY <1>4 DEF AckArrives, Accepted
  <2>2. budget' \in [{"cancel", "ack", "refusalAck", "bye"} -> Nat]
    BY <1>0, <1>4 DEF AckArrives, Spend, ManagerTypeOK
  <2>3. /\ events' \in Seq(TransactionEvents) /\ InviteFirst'
        /\ \A y : Has(events', y) => Has(events, y) \/ "Ack" = y
    <3>1. events' = events \/ events' = Append(events, "Ack")
      BY <1>4 DEF AckArrives, AckByIndex
    <3> QED
      BY <1>0, <1>i, <3>1, AddFacts DEF TransactionEvents, ManagerTypeOK, InviteFirst
  <2>4. cache' \in {None, "unacked", "acked"} /\ state' = state
    BY <1>0, <1>4 DEF AckArrives, AckByIndex, Marked, ManagerTypeOK
  <2>5. UNCHANGED <<mapped, last, orders, index, byeTx, wire, refused>> /\ acked' = TRUE
    BY <1>4 DEF AckArrives
  <2>6. ManagerTypeOK'
    BY <1>0, <2>2, <2>3, <2>4, <2>5 DEF ManagerTypeOK
  <2>7. Accepted' /\ Settled /\ ~Pristine
    BY <1>p, <2>1, <2>5 DEF Accepted, Settled
  <2>9. ~Has(events, "Invite")
    BY <2>7, Begun
  <2>8. Explained
    BY <1>0, <1>i, <2>1, <2>3, <2>4, <2>5, <2>6, <2>7, <2>9 DEF Explained, Responses
  <2> QED
    BY <2>8, ExplainedInv
<1>5. CASE AckOfRefusal
  <2>1. Refused /\ ~Pristine /\ state # None
    BY <1>5, <1>i, <1>p DEF AckOfRefusal, Refused
  <2>2. budget' \in [{"cancel", "ack", "refusalAck", "bye"} -> Nat]
    BY <1>0, <1>5 DEF AckOfRefusal, Spend, ManagerTypeOK
  <2>3. \/ events' = events /\ state' = state
        \/ /\ events' = Append(events, "Ack") /\ state' \in {state, "Confirmed"}
           /\ state \in {"Completed", "Confirmed"} \/ ~mapped
    BY <1>5 DEF AckOfRefusal, AckByIndex
  <2>4. (events' # events \/ state' # state) => Settled
    BY <1>0, <2>1, <2>3 DEF Responses
  <2>5. /\ events' \in Seq(TransactionEvents) /\ InviteFirst'
        /\ \A y : Has(events', y) => Has(events, y) \/ ("Ack" = y /\ Settled)
    <3>1. CASE events' = events
      BY <1>0, <1>i, <3>1 DEF ManagerTypeOK, InviteFirst
    <3>2. CASE events' # events
      <4>1. events' = Append(events, "Ack") /\ Settled
        BY <2>3, <2>4, <3>2
      <4> QED
        BY <1>0, <1>i, <4>1, AddFacts DEF TransactionEvents
    <3> QED
      BY <3>1, <3>2
  <2>6. cache' = Marked \/ cache' = cache
    BY <1>5 DEF AckOfRefusal, AckByIndex
  <2>7. cache' \in {None, "unacked", "acked"} /\ (cache' # None => cache # None)
    BY <1>0, <2>6 DEF Marked, ManagerTypeOK, None
  <2>8. UNCHANGED <<mapped, last, orders, index, byeTx, wire, acked, refused>>
    BY <1>5 DEF AckOfRefusal
  <2>9. state' \in {None, "Proceeding", "Completed", "Confirmed", "Terminated"} /\ state' # None
        /\ (~mapped => state' = "Terminated")
    <3>1. CASE state' = state
      BY <1>0, <2>1, <3>1 DEF ManagerTypeOK, Responses
    <3>2. CASE state' # state
      <4>1. state = "Completed" /\ mapped /\ state' = "Confirmed"
        BY <1>5, <3>2 DEF AckOfRefusal, AckByIndex
      <4> QED
        BY <4>1 DEF None
    <3> QED
      BY <3>1, <3>2
  <2>10. ManagerTypeOK'
    BY <1>0, <2>2, <2>5, <2>7, <2>8, <2>9 DEF ManagerTypeOK
  <2>11. Accepted' = Accepted /\ (state' \in {"Completed", "Confirmed", "Terminated"} => Settled)
    BY <1>0, <2>4, <2>8 DEF Accepted, Responses
  <2>12. ~Has(events, "Invite")
    BY <2>1, Begun
  <2>13. ~Has(events', "Invite") /\ (Has(events', "Bye") => Has(events, "Bye"))
    BY <2>5, <2>12
  <2>14. Explained
    BY <1>0, <2>1, <2>12, <2>5, <2>7, <2>8, <2>9, <2>10, <2>11, <2>13 DEF Explained, Responses
  <2> QED
    BY <2>14, ExplainedInv
<1>6. CASE ByeArrives
  <2>1. Accepted
    BY <1>6 DEF ByeArrives, Accepted
  <2>2. budget' \in [{"cancel", "ack", "refusalAck", "bye"} -> Nat]
    BY <1>0, <1>6 DEF ByeArrives, Spend, ManagerTypeOK
  <2>3. /\ events' \in Seq(TransactionEvents) /\ InviteFirst'
        /\ \A y : Has(events', y) => Has(events, y) \/ "Bye" = y
    <3>1. events' = events \/ events' = Append(events, "Bye")
      BY <1>6 DEF ByeArrives
    <3> QED
      BY <1>0, <1>i, <3>1, AddFacts DEF TransactionEvents, ManagerTypeOK, InviteFirst
  <2>4. UNCHANGED <<state, mapped, last, orders, index, cache, wire, acked, refused>> /\ byeTx' = TRUE
    BY <1>6 DEF ByeArrives
  <2>5. Accepted' /\ ~Pristine
    BY <1>p, <2>1, <2>4 DEF Accepted
  <2>6. ManagerTypeOK'
    BY <1>0, <2>2, <2>3, <2>4 DEF ManagerTypeOK
  <2>7. Explained
    BY <1>0, <1>i, <2>1, <2>3, <2>4, <2>5, <2>6 DEF Explained, Responses
  <2> QED
    BY <2>7, ExplainedInv
<1> QED
  BY <1>1, <1>2, <1>3, <1>4, <1>5, <1>6 DEF Network

\* The runner, the timers, the sweep and the 2xx cache.
LEMMA UpkeepInv ==
  ASSUME Inv, Upkeep, UNCHANGED callVars
  PROVE  Inv'
<1>0. TypeOK /\ ManagerTypeOK /\ Started /\ Responses
  BY DEF Inv, TypeOK
<1>i. InviteFirst /\ (state = None => Pristine)
  BY <1>0 DEF Started
<1>1. CASE RunnerStep
  <2>0. orders # <<>> /\ Settled /\ ~Pristine
    BY <1>0, <1>1 DEF RunnerStep, Responses, Pristine
  <2>1. state # None /\ ~Has(events, "Invite")
    BY <2>0, Begun
  <2> DEFINE target == Head(orders)
  <2>2. target \in {"Completed", "Terminated"} /\ Tail(orders) \in Seq({"Completed", "Terminated"})
    BY <1>0, <2>0, HasTail DEF ManagerTypeOK
  <2>3. /\ state' \in {state, target}
        /\ events' = events \/ events' = Append(events, "Terminated")
        /\ orders' = <<>> \/ orders' = Tail(orders)
        /\ UNCHANGED <<mapped, last, index, cache, byeTx, wire, acked, refused, budget>>
        /\ ~mapped => state' = "Terminated"
    BY <1>0, <1>1, <2>1 DEF RunnerStep, Responses
  <2> HIDE DEF target
  <2>4. orders' \in Seq({"Completed", "Terminated"})
    <3>1. <<>> \in Seq({"Completed", "Terminated"})
      OBVIOUS
    <3> QED
      BY <2>2, <2>3, <3>1
  <2>5. /\ events' \in Seq(TransactionEvents) /\ InviteFirst'
        /\ \A y : Has(events', y) => Has(events, y) \/ "Terminated" = y
    BY <1>0, <1>i, <2>3, AddFacts DEF TransactionEvents, ManagerTypeOK, InviteFirst
  <2>6. state' \in {None, "Proceeding", "Completed", "Confirmed", "Terminated"} /\ state' # None
    BY <1>0, <2>1, <2>2, <2>3 DEF ManagerTypeOK, None
  <2>7. ManagerTypeOK' /\ Accepted' = Accepted
    BY <1>0, <2>3, <2>4, <2>5, <2>6 DEF ManagerTypeOK, Accepted
  <2>8. ~Has(events', "Invite") /\ (Has(events', "Bye") => Has(events, "Bye"))
    BY <2>1, <2>5
  <2>9. Explained
    BY <1>0, <2>0, <2>1, <2>3, <2>5, <2>6, <2>7, <2>8 DEF Explained, Responses
  <2> QED
    BY <2>9, ExplainedInv
<1>2. CASE InviteEnds
  <2>0. Settled
    BY <1>0, <1>2 DEF InviteEnds, Responses
  <2>1. state # None /\ ~Has(events, "Invite")
    BY <1>0, <1>2 DEF InviteEnds, Started, None
  <2>2. /\ events' \in Seq(TransactionEvents) /\ InviteFirst'
        /\ \A y : Has(events', y) <=> Has(events, y) \/ "Terminated" = y
    BY <1>0, <1>i, <1>2, AddFacts DEF InviteEnds, TransactionEvents
  <2>3. /\ state' = "Terminated" /\ orders' = <<>> /\ <<>> \in Seq({"Completed", "Terminated"})
        /\ UNCHANGED <<mapped, last, index, cache, byeTx, wire, acked, refused, budget>>
    BY <1>2 DEF InviteEnds
  <2>4. ManagerTypeOK' /\ Accepted' = Accepted
    BY <1>0, <2>2, <2>3 DEF ManagerTypeOK, Accepted
  <2>5. ~Has(events', "Invite") /\ (Has(events', "Bye") => Has(events, "Bye"))
    BY <2>1, <2>2
  <2>6. Explained
    BY <1>0, <2>0, <2>1, <2>2, <2>3, <2>4, <2>5 DEF Explained, Responses, None, Pristine, callVars, dialogVars
  <2> QED
    BY <2>6, ExplainedInv
<1>3. CASE Sweep \/ IndexExpires \/ CacheExpires
  <2>1. /\ UNCHANGED <<state, last, orders, byeTx, events, wire, acked, refused, budget>>
        /\ mapped' = mapped \/ (mapped' = FALSE /\ state = "Terminated")
        /\ cache' = cache \/ cache' = None
        /\ index' \in {None, "active", "retired", "gone"}
    BY <1>0, <1>3 DEF Sweep, IndexExpires, CacheExpires, Retired, ManagerTypeOK
  <2>2. ManagerTypeOK'
    <3>1. {mapped', byeTx', acked'} \subseteq BOOLEAN
      BY <1>0, <2>1 DEF ManagerTypeOK
    <3>2. cache' \in {None, "unacked", "acked"}
      BY <1>0, <2>1 DEF ManagerTypeOK
    <3> QED
      BY <1>0, <2>1, <3>1, <3>2 DEF ManagerTypeOK
  <2>3. Pristine' = Pristine /\ Accepted' = Accepted /\ InviteFirst'
    BY <1>i, <2>1 DEF Pristine, Accepted, InviteFirst, callVars, dialogVars
  <2>4. Explained
    BY <1>0, <2>1, <2>2, <2>3 DEF Explained, Responses
  <2> QED
    BY <2>4, ExplainedInv
<1>4. CASE RetransmitDue
  <2>1. Resend("200") /\ cache # None /\ "200" \in Finals
    BY <1>4 DEF RetransmitDue, Finals, None
  <2>2. answer.with = "200" /\ Given
    BY <1>0, <2>1 DEF Responses
  <2> QED
    BY <2>1, <2>2, ResendInv
<1>5. CASE RunnerResends
  <2>1. Resend(last) /\ last # None /\ last \in Finals
    BY <1>0, <1>5 DEF RunnerResends, ManagerTypeOK
  <2>2. last = "200" => answer.with = "200" /\ Given
    BY <1>0 DEF Responses
  <2> QED
    BY <2>1, <2>2, ResendInv
<1> QED
  BY <1>1, <1>2, <1>3, <1>4, <1>5 DEF Upkeep

-----------------------------------------------------------------------------
(* The worker's steps.                                                     *)

\* So has one the worker takes a later event of.
LEMMA BegunTake ==
  ASSUME Inv, NEW e \in TransactionEvents \ {"Invite"}, Take(e)
  PROVE  /\ worker = "idle" /\ Has(events, e) /\ events' \in Seq(TransactionEvents)
         /\ \A y : Has(events', y) => Has(events, y)
         /\ state # None /\ ~Has(events', "Invite") /\ InviteFirst'
<1>1. TypeOK /\ InviteFirst
  BY DEF Inv, Started
<1>2. /\ worker = "idle" /\ Has(events, e) /\ events' \in Seq(TransactionEvents)
      /\ \A y : Has(events', y) => Has(events, y)
      /\ ~Has(events', "Invite") /\ InviteFirst'
  BY <1>1, TakeFacts
<1>3. state # None
  BY <1>2, HasNone DEF Inv, Started
<1> QED
  BY <1>2, <1>3

\* The INVITE is taken: a dialog, or a refusal to come.
LEMMA HandleInviteInv ==
  ASSUME Inv, HandleInvite
  PROVE  Inv'
<1>0. Take("Invite") /\ TypeOK /\ InviteFirst
  BY DEF Inv, HandleInvite, Started
<1>1. /\ worker = "idle" /\ Has(events, "Invite") /\ events' \in Seq(TransactionEvents)
      /\ \A y : Has(events', y) => Has(events, y)
      /\ InviteFirst' /\ ~Has(events', "Invite")
  BY <1>0, TakeFacts DEF TransactionEvents
<1>2. /\ Pristine /\ state = "Proceeding"
      /\ ~Has(events, "Ack") /\ ~Has(events, "Terminated") /\ ~Has(events, "Bye")
  BY <1>1 DEF Inv, Started
<1>3. ~Accepted /\ ~Accepted'
  <2>1. ~Accepted
    BY <1>2, HasNone DEF Pristine, Accepted
  <2> QED
    BY <2>1 DEF HandleInvite, tmButEvents, Accepted
<1>4. cache = None
  BY <1>2 DEF Inv, Responses, Given, Pristine
<1>5. CASE dialog' = "Early" /\ linked' = TRUE /\ early' = TRUE /\ told' = told \cup {"IncomingCall"}
           /\ UNCHANGED <<tmButEvents, byeTx>>
           /\ UNCHANGED <<cseq, tagged, lookup, tombstone, worker, answer, remover, gaveUp, byeWire>>
  <2>1. TypeOK'
    BY <1>0, <1>1, <1>5 DEF TypeOK, ManagerTypeOK, tmButEvents, Told
  <2>2. Started'
    BY <1>1, <1>2, <1>5 DEF Pristine, Started, tmButEvents, None
  <2>3. Responses'
    BY <1>1, <1>2, <1>3, <1>4, <1>5 DEF Inv, Pristine, Responses, tmButEvents, Over, None
  <2>4. Ending'
    BY <1>2, <1>5 DEF Inv, Pristine, Ending, Over, Prepared, Given, Cut, Ends, Removers
  <2> QED
    BY <2>1, <2>2, <2>3, <2>4 DEF Inv
<1>6. CASE worker' = "refuse"
           /\ UNCHANGED <<tmButEvents, byeTx, dialogVars, answer, remover, gaveUp, told, byeWire>>
  <2>1. TypeOK'
    BY <1>0, <1>1, <1>6 DEF TypeOK, ManagerTypeOK, tmButEvents, dialogVars
  <2>2. Started'
    BY <1>1, <1>2, <1>6 DEF Inv, Pristine, Started, tmButEvents, dialogVars, None
  <2>3. Responses'
    BY <1>1, <1>2, <1>3, <1>4, <1>6 DEF Inv, Pristine, Responses, tmButEvents, Over, dialogVars, None
  <2>4. Ending'
    BY <1>2, <1>6 DEF Inv, Pristine, Ending, Over, Prepared, Given, Cut, Ends, dialogVars
  <2> QED
    BY <2>1, <2>2, <2>3, <2>4 DEF Inv
<1> QED
  BY <1>5, <1>6 DEF HandleInvite

\* Events that change nothing but the worker, the links and a stale early key.
LEMMA TakingInv ==
  ASSUME Inv, HandleTerminated \/ HandleAck \/ HandleUnmatchedCancel \/ HandleCancel
  PROVE  Inv'
<1>0. PICK e \in {"Terminated", "Ack", "CancelUnmatched", "Cancel"} :
        Take(e) /\ (e = "Terminated" <=> linked' # linked \/ HandleTerminated) /\ (HandleAck => e = "Ack")
  BY DEF HandleTerminated, HandleAck, HandleUnmatchedCancel, HandleCancel, Take, callVars, dialogVars
<1>1. /\ worker = "idle" /\ Has(events, e) /\ events' \in Seq(TransactionEvents)
      /\ \A y : Has(events', y) => Has(events, y)
      /\ state # None /\ ~Has(events', "Invite") /\ InviteFirst'
  BY <1>0, BegunTake DEF TransactionEvents
<1>2. /\ UNCHANGED <<tmButRefused, byeTx, dialog, cseq, tagged, lookup, tombstone>>
      /\ UNCHANGED <<answer, remover, gaveUp, told, byeWire>>
  BY DEF HandleTerminated, HandleAck, HandleUnmatchedCancel, HandleCancel, callVars, dialogVars,
         tmButEvents, tmButRefused
<1>3. refused' \subseteq Finals \cup Others
  <2>1. refused' = refused \/ refused' = refused \cup {"cancelOk"}
    BY DEF HandleTerminated, HandleAck, HandleUnmatchedCancel, HandleCancel, Refuse, tmButEvents
  <2> QED
    BY <2>1 DEF Inv, TypeOK, ManagerTypeOK, Others
<1>4. /\ linked' = linked \/ (linked' = FALSE /\ Has(events, "Terminated") /\ worker' = worker)
      /\ \/ worker' \in {"idle", "cancel"}
         \/ worker' = "ack" /\ Has(events, "Ack") /\ (linked \/ Found)
  BY <1>0, <1>1 DEF HandleTerminated, HandleAck, HandleUnmatchedCancel, HandleCancel, callVars, dialogVars
<1>5. early' \in BOOLEAN /\ (early' => early)
  BY DEF HandleTerminated, HandleAck, HandleUnmatchedCancel, HandleCancel, callVars, dialogVars,
         EarlyLeft, FoundEarly, Inv, TypeOK
<1>6. Accepted' = Accepted /\ Over' = Over /\ Cut' = Cut /\ Prepared' = Prepared /\ Given' = Given
  BY <1>2 DEF Accepted, Over, Cut, Prepared, Given, tmButRefused
<1>7. Has(events, "Ack") \/ Has(events, "Terminated") => Accepted \/ Over \/ dialog = None \/ gaveUp
  BY <1>1 DEF Inv, Responses, Settled
<1>8. TypeOK'
  <2>1. ManagerTypeOK'
    BY <1>1, <1>2, <1>3 DEF Inv, TypeOK, ManagerTypeOK, tmButRefused
  <2>2. {tagged', linked', early', lookup'} \subseteq BOOLEAN
    BY <1>2, <1>4, <1>5 DEF Inv, TypeOK
  <2>3. worker' \in {"idle", "cancel", "ack"}
    BY <1>4
  <2> QED
    BY <1>2, <2>1, <2>2, <2>3 DEF Inv, TypeOK
<1>9. Started'
  BY <1>1, <1>2, <1>4, <1>5 DEF Inv, Started, tmButRefused, Found, FoundEarly, None
<1>10. Responses'
  <2>1. worker' = "ack" => Accepted \/ Over \/ gaveUp
    BY <1>1, <1>2, <1>4, <1>7 DEF Inv, Started, Found, FoundEarly, None
  <2>2. Settled => Settled'
    BY <1>1, <1>2, <1>6 DEF Settled
  <2> QED
    BY <1>1, <1>2, <1>4, <1>6, <1>7, <2>1, <2>2 DEF Inv, Responses, tmButRefused, Over, None
<1>11. Ending'
  BY <1>2, <1>6 DEF Inv, Ending
<1> QED
  BY <1>8, <1>9, <1>10, <1>11 DEF Inv

\* A refused response is stored and nothing else.
LEMMA RefusedFacts ==
  ASSUME TypeOK, NEW r \in Finals, SendRefused(r)
  PROVE  /\ ManagerTypeOK' /\ last' = r /\ Accepted' = Accepted
         /\ UNCHANGED <<state, mapped, orders, index, cache, byeTx, events, wire, acked, budget>>
<1>1. refused' \subseteq Finals \cup Others
  BY DEF SendRefused, Refuse, TypeOK, ManagerTypeOK
<1> QED
  BY <1>1 DEF SendRefused, TypeOK, ManagerTypeOK, Accepted

\* The refusal without a dialog.
LEMMA RefuseInviteInv ==
  ASSUME Inv, RefuseInvite
  PROVE  Inv'
<1>0. "420" \in Finals /\ TypeOK
  BY DEF Finals, Inv
<1>1. state # None /\ ~Has(events, "Invite") /\ InviteFirst
  BY Begun DEF Pristine, RefuseInvite
<1>2. /\ last' = "420" /\ (Accepted' <=> Accepted) /\ ManagerTypeOK'
      /\ UNCHANGED <<state, mapped, cache, events>>
  <2>1. CASE SendFinal("420")
    <3>1. /\ last' = "420" /\ wire' \in Seq(Finals)
          /\ \A y : Has(wire', y) <=> Has(wire, y) \/ "420" = y
          /\ orders' \in Seq({"Completed", "Terminated"})
          /\ UNCHANGED <<state, mapped, index, cache, byeTx, events, acked, refused, budget>>
      BY <1>0, <2>1, SendFacts
    <3>2. Accepted' <=> Accepted
      BY <3>1 DEF Accepted
    <3> QED
      BY <1>0, <3>1, <3>2 DEF TypeOK, ManagerTypeOK
  <2>2. CASE SendRefused("420")
    BY <1>0, <2>2, RefusedFacts
  <2> QED
    BY <2>1, <2>2 DEF RefuseInvite
<1>3. dialog = None /\ worker' = "idle"
  BY DEF Inv, Started, RefuseInvite
<1>4. TypeOK'
  BY <1>2 DEF Inv, RefuseInvite, TypeOK, dialogVars
<1>5. Started'
  BY <1>1, <1>2, <1>3 DEF Inv, RefuseInvite, Started, InviteFirst, dialogVars
<1>6. Responses'
  BY <1>2, <1>3 DEF Inv, RefuseInvite, Responses, Settled, Over, Given, dialogVars
<1>7. Ending'
  BY DEF Inv, RefuseInvite, Ending, Over, Prepared, Given, Cut, dialogVars
<1> QED
  BY <1>4, <1>5, <1>6, <1>7 DEF Inv

\* The ACK is passed on, unless the dialog has ended.
LEMMA ReportAckInv ==
  ASSUME Inv, ReportAck
  PROVE  Inv'
<1>1. state # None /\ ~Has(events, "Invite") /\ InviteFirst
  BY Begun DEF Pristine, ReportAck
<1>2. Accepted' = Accepted /\ Over' = Over /\ Cut' = Cut
      /\ Prepared' = Prepared /\ Given' = Given /\ Ends \cap told' = Ends \cap told
  BY DEF ReportAck, tmVars, dialogVars, Accepted, Over, Cut, Prepared, Given, Ends
<1>3. TypeOK'
  BY DEF Inv, ReportAck, TypeOK, ManagerTypeOK, tmVars, dialogVars, Told
<1>4. Started'
  BY <1>1 DEF Inv, ReportAck, Started, InviteFirst, tmVars, dialogVars
<1>5. Responses'
  BY <1>2 DEF Inv, ReportAck, Responses, Settled, Over, tmVars, dialogVars
<1>6. Ending'
  BY <1>2 DEF Inv, ReportAck, Ending, tmVars, dialogVars
<1> QED
  BY <1>3, <1>4, <1>5, <1>6 DEF Inv

\* The CANCEL's answer to the INVITE.
LEMMA CancelSends487Inv ==
  ASSUME Inv, CancelSends487
  PROVE  Inv'
<1>0. "487" \in Finals /\ TypeOK /\ worker = "cancel"
  BY DEF Finals, Inv, CancelSends487
<1>1. state # None /\ ~Has(events, "Invite") /\ InviteFirst
  BY Begun DEF Pristine, CancelSends487
<1>2. /\ last' \in {"487", last} /\ (Accepted' <=> Accepted) /\ ManagerTypeOK'
      /\ UNCHANGED <<state, mapped, cache, events>>
      /\ \/ worker' = "cancelCache"
         \/ worker' = "idle" /\ orders' = orders
  <2>1. CASE SendFinal("487") /\ worker' = "cancelCache"
    <3>1. /\ last' = "487" /\ wire' \in Seq(Finals)
          /\ \A y : Has(wire', y) <=> Has(wire, y) \/ "487" = y
          /\ orders' \in Seq({"Completed", "Terminated"})
          /\ UNCHANGED <<state, mapped, index, cache, byeTx, events, acked, refused, budget>>
      BY <1>0, <2>1, SendFacts
    <3>2. Accepted' <=> Accepted
      BY <3>1 DEF Accepted
    <3> QED
      BY <1>0, <2>1, <3>1, <3>2 DEF TypeOK, ManagerTypeOK
  <2>2. CASE SendRefused("487") /\ worker' = "idle"
    BY <1>0, <2>2, RefusedFacts
  <2>3. CASE UNCHANGED tmVars /\ worker' = "idle"
    BY <1>0, <2>3 DEF tmVars, TypeOK, ManagerTypeOK, Accepted
  <2> QED
    BY <2>1, <2>2, <2>3 DEF CancelSends487
<1>3. TypeOK'
  BY <1>2 DEF Inv, CancelSends487, TypeOK, dialogVars
<1>4. Started'
  BY <1>1, <1>2 DEF Inv, CancelSends487, Started, InviteFirst, dialogVars
<1>5. Responses'
  <2>1. Settled => Settled'
    BY <1>0, <1>2 DEF Settled, Over, CancelSends487, dialogVars
  <2>2. worker' = "cancelCache" => Settled'
    BY DEF Settled
  <2> QED
    BY <1>2, <2>1, <2>2 DEF Inv, CancelSends487, Responses, Over, Given, dialogVars
<1>6. Ending'
  BY DEF Inv, CancelSends487, Ending, Over, Prepared, Given, Cut, dialogVars
<1> QED
  BY <1>3, <1>4, <1>5, <1>6 DEF Inv

\* The cache of a 2xx is filled from the response the transaction gave last.
LEMMA CacheFacts ==
  ASSUME Inv, CacheResponse
  PROVE  /\ ManagerTypeOK' /\ (cache' # None => answer.with = "200" /\ Given)
         /\ UNCHANGED <<state, mapped, last, orders, events, wire, budget>>
         /\ Accepted' = Accepted
BY DEF Inv, TypeOK, CacheResponse, ManagerTypeOK, Responses, Accepted

\* ... which is the 487's turn, or a 200's that overtook it.
LEMMA CancelCachesInv ==
  ASSUME Inv, CancelCaches
  PROVE  Inv'
<1>1. state # None /\ ~Has(events, "Invite") /\ InviteFirst
  BY Begun DEF Pristine, CancelCaches
<1>2. /\ ManagerTypeOK' /\ (cache' # None => answer.with = "200" /\ Given)
      /\ UNCHANGED <<state, mapped, last, orders, events, wire, budget>>
      /\ Accepted' = Accepted
  BY CacheFacts DEF CancelCaches
<1>3. TypeOK'
  BY <1>2 DEF Inv, CancelCaches, TypeOK, dialogVars
<1>4. Started'
  BY <1>1, <1>2 DEF Inv, CancelCaches, Started, InviteFirst, dialogVars
<1>5. Responses'
  BY <1>2 DEF Inv, CancelCaches, Responses, Settled, Given, Over, dialogVars
<1>6. Ending'
  BY DEF Inv, CancelCaches, Ending, Over, Prepared, Given, Cut, dialogVars
<1> QED
  BY <1>3, <1>4, <1>5, <1>6 DEF Inv

\* The CANCEL ends the dialog it finds.
LEMMA CancelEndsDialogInv ==
  ASSUME Inv, CancelEndsDialog
  PROVE  Inv'
<1>1. state # None /\ ~Has(events, "Invite") /\ InviteFirst
  BY Begun DEF Pristine, CancelEndsDialog
<1>2. Accepted' = Accepted /\ Prepared' = Prepared /\ Given' = Given
  BY DEF CancelEndsDialog, tmVars, Accepted, Prepared, Given
<1>e. early' \in BOOLEAN /\ (early' => early)
  BY DEF CancelEndsDialog, EarlyLeft, FoundEarly, Inv, TypeOK
<1>3. TypeOK'
  <2>1. /\ told' \subseteq Told
        /\ dialog' \in {None, "Early", "Confirmed", "Terminated", "Removed"}
    BY DEF Inv, CancelEndsDialog, TypeOK, Told
  <2>2. {tagged', linked', early', lookup'} \subseteq BOOLEAN
    BY <1>e DEF Inv, CancelEndsDialog, TypeOK
  <2>3. ManagerTypeOK'
    BY DEF Inv, CancelEndsDialog, TypeOK, ManagerTypeOK, tmVars
  <2> QED
    BY <2>1, <2>2, <2>3 DEF Inv, CancelEndsDialog, TypeOK
<1>4. CASE linked \/ (mapped /\ FoundEarly)
  <2>1. dialog # None
    BY <1>4 DEF Inv, Started, TypeOK, FoundEarly
  <2>2. Over' /\ Cut' /\ (dialog = "Removed" => dialog' = "Removed")
        /\ ("AckReceived" \in told' => "AckReceived" \in told)
        /\ ("ByeReceived" \in told' => "ByeReceived" \in told)
    BY <1>4 DEF CancelEndsDialog, Over, Cut
  <2>3. Started'
    BY <1>1, <2>1, <2>2 DEF Inv, CancelEndsDialog, Started, InviteFirst, tmVars, Over, None
  <2>4. Responses'
    BY <1>2, <2>2 DEF Inv, CancelEndsDialog, Responses, Settled, Over, tmVars
  <2>5. Ending'
    BY <1>2, <2>2 DEF Inv, CancelEndsDialog, Ending, Over
  <2> QED
    BY <1>3, <2>3, <2>4, <2>5 DEF Inv
<1>5. CASE ~(linked \/ (mapped /\ FoundEarly))
  <2>1. UNCHANGED <<dialog, told, gaveUp>>
    BY <1>5 DEF CancelEndsDialog
  <2>2. Started'
    BY <1>1, <1>e, <2>1 DEF Inv, CancelEndsDialog, Started, InviteFirst, tmVars
  <2>3. Responses'
    <3>1. Accepted \/ Over \/ dialog = None \/ gaveUp
      BY <1>5 DEF Inv, TypeOK, Responses, Over
    <3>2. Settled'
      BY <1>2, <2>1, <3>1 DEF Settled, Over
    <3> QED
      BY <1>2, <2>1, <3>2 DEF Inv, CancelEndsDialog, Responses, Over, tmVars
  <2>4. Ending'
    BY <1>2, <2>1 DEF Inv, CancelEndsDialog, Ending, Over, Cut
  <2> QED
    BY <1>3, <2>2, <2>3, <2>4 DEF Inv
<1> QED
  BY <1>4, <1>5

\* A BYE is taken: to its dialog, or answered from the tombstone.
LEMMA HandleByeInv ==
  ASSUME Inv, HandleBye
  PROVE  Inv'
<1>0. Take("Bye")
  BY DEF HandleBye
<1>1. /\ worker = "idle" /\ Has(events, "Bye") /\ events' \in Seq(TransactionEvents)
      /\ \A y : Has(events', y) => Has(events, y)
      /\ state # None /\ ~Has(events', "Invite") /\ InviteFirst'
  BY <1>0, BegunTake DEF TransactionEvents
<1>2. Accepted /\ answer.with = "200" /\ Given /\ Prepared /\ dialog # None
  BY <1>1 DEF Inv, Responses, Started, Given, Prepared
<1>3. Accepted' = Accepted /\ Over' = Over /\ Cut' = Cut /\ Prepared' = Prepared /\ Given' = Given
  BY DEF HandleBye, Accepted, Over, Cut, Prepared, Given, tmButRefused
<1>4. /\ worker' \in {"idle", "bye"} /\ byeTx' \in BOOLEAN /\ byeWire' \subseteq {"200", "481"}
      /\ refused' \subseteq Finals \cup Others /\ early' \in BOOLEAN
  BY <1>1 DEF Inv, TypeOK, ManagerTypeOK, HandleBye, ReplyBye, ReplyRefused, Refuse, Others,
              EarlyLeft, FoundEarly
<1>5. "481" \in byeWire' => Cut
  <2>1. ~Cut /\ ~Found => dialog = "Removed" /\ tombstone = "BYE"
    BY <1>2 DEF Inv, Ending, Found
  <2> QED
    BY <2>1 DEF Inv, Ending, HandleBye, ReplyBye, ReplyRefused
<1>6. TypeOK'
  <2>1. ManagerTypeOK'
    BY <1>1, <1>4 DEF Inv, TypeOK, ManagerTypeOK, HandleBye, tmButRefused
  <2>2. {tagged', linked', early', lookup'} \subseteq BOOLEAN
    BY <1>4 DEF Inv, TypeOK, HandleBye
  <2> QED
    BY <1>4, <2>1, <2>2 DEF Inv, TypeOK, HandleBye
<1>7. Started'
  BY <1>1, <1>2, <1>4 DEF Inv, Started, HandleBye, tmButRefused
<1>8. Responses'
  <2>1. Settled'
    BY <1>2, <1>3 DEF Settled
  <2> QED
    BY <1>1, <1>2, <1>3, <1>4, <2>1 DEF Inv, Responses, HandleBye, tmButRefused
<1>9. Ending'
  BY <1>3, <1>5 DEF Inv, Ending, HandleBye
<1> QED
  BY <1>6, <1>7, <1>8, <1>9 DEF Inv

\* A BYE ends its dialog.
LEMMA ProcessByeInv ==
  ASSUME Inv, ProcessBye
  PROVE  Inv'
<1>1. state # None /\ ~Has(events, "Invite") /\ InviteFirst
  BY Begun DEF Pristine, ProcessBye
<1>2. Accepted /\ answer.with = "200" /\ Given /\ dialog # None /\ Prepared
  BY DEF Inv, Responses, Started, ProcessBye, Prepared, Given
<1>3. Accepted' = Accepted /\ Cut' = Cut /\ Prepared' = Prepared /\ Given' = Given
      /\ UNCHANGED <<state, mapped, orders, events, wire, last, cache, budget>> /\ worker' = "idle"
      /\ UNCHANGED <<linked, early, lookup, tagged, tombstone, answer, told, gaveUp>>
  BY DEF ProcessBye, Accepted, Cut, Prepared, Given, tmButRefused
<1>m. ManagerTypeOK' /\ byeWire' \subseteq {"200", "481"} /\ ("481" \in byeWire' => "481" \in byeWire)
  <2>1. /\ byeTx' \in BOOLEAN /\ refused' \subseteq Finals \cup Others
        /\ byeWire' \subseteq {"200", "481"} /\ ("481" \in byeWire' => "481" \in byeWire)
    <3>0. /\ byeTx \in BOOLEAN /\ refused \subseteq Finals \cup Others
          /\ byeWire \subseteq {"200", "481"}
      BY DEF Inv, TypeOK, ManagerTypeOK
    <3>1. CASE ReplyBye("200")
      BY <3>0, <3>1 DEF ReplyBye
    <3>2. CASE ReplyRefused
      BY <3>0, <3>2 DEF ReplyRefused, Refuse, Others
    <3>3. CASE UNCHANGED <<byeTx, byeWire, refused>>
      BY <3>0, <3>3
    <3> QED
      BY <3>1, <3>2, <3>3 DEF ProcessBye
  <2> QED
    BY <2>1 DEF Inv, TypeOK, ManagerTypeOK, ProcessBye, tmButRefused
<1>4. CASE dialog = "Removed"
  <2>0. UNCHANGED <<byeTx, byeWire, dialog, cseq, remover>>
    BY <1>4 DEF ProcessBye
  <2>1. TypeOK'
    BY <1>m, <2>0 DEF Inv, TypeOK, ProcessBye
  <2>2. Started'
    BY <1>1, <1>3, <2>0 DEF Inv, Started, InviteFirst
  <2>3. Responses'
    BY <1>2, <1>3, <2>0 DEF Inv, Responses, Settled, Over
  <2>4. Ending'
    BY <1>3, <2>0 DEF Inv, Ending, Over
  <2> QED
    BY <2>1, <2>2, <2>3, <2>4 DEF Inv
<1>5. CASE dialog # "Removed"
  <2>0. /\ dialog' = "Terminated" /\ cseq' = "BYE"
        /\ remover' = remover \/ remover' = [remover EXCEPT !["bye"] = "emit"]
    BY <1>5 DEF ProcessBye
  <2>1. /\ remover' \in [Removers -> {"idle", "emit", "drop", "forget", "done"}]
        /\ remover'["session"] = remover["session"]
        /\ remover["bye"] # "idle" => remover'["bye"] # "idle"
        /\ \A r \in Removers : remover'[r] \notin {"forget", "done"}
    <3>1. \A r \in Removers : remover[r] \notin {"forget", "done"}
      BY <1>5 DEF Inv, Ending
    <3> QED
      BY <2>0, <3>1 DEF Inv, TypeOK, Removers
  <2>2. TypeOK'
    <3>2. {tagged', linked', early', lookup'} \subseteq BOOLEAN /\ gaveUp' \in BOOLEAN
      BY <1>3 DEF Inv, TypeOK
    <3>3. told' \subseteq Told
      BY <1>3 DEF Inv, TypeOK
    <3>4. worker' = "idle" /\ answer' = answer /\ tombstone' = tombstone
      BY <1>3
    <3> QED
      BY <1>m, <2>0, <2>1, <3>2, <3>3, <3>4 DEF Inv, TypeOK
  <2>3. Started'
    BY <1>1, <1>2, <1>3, <2>0 DEF Inv, Started, InviteFirst, None
  <2>4. Responses'
    BY <1>2, <1>3, <2>0, <1>5 DEF Inv, Responses, Settled, Over
  <2>5. Ending'
    <3>1. "ByeReceived" \in told => remover'["bye"] # "idle"
      BY <2>1 DEF Inv, Ending
    <3>2. ~Cut /\ remover["session"] # "idle" => remover'["bye"] # "idle"
      BY <1>2, <2>1 DEF Inv, Ending
    <3>3. ~Cut => tagged /\ lookup
      BY <1>2, <1>5 DEF Inv, Ending
    <3>4. "481" \in byeWire' => Cut
      BY <1>m DEF Inv, Ending
    <3> QED
      BY <1>2, <1>3, <2>0, <2>1, <3>1, <3>2, <3>3, <3>4 DEF Ending, Over
  <2> QED
    BY <2>2, <2>3, <2>4, <2>5 DEF Inv
<1> QED
  BY <1>4, <1>5

\* All of the worker.
LEMMA WorkerInv ==
  ASSUME Inv, Worker
  PROVE  Inv'
BY HandleInviteInv, TakingInv, RefuseInviteInv, ReportAckInv, CancelSends487Inv, CancelCachesInv,
   CancelEndsDialogInv, HandleByeInv, ProcessByeInv DEF Worker

-----------------------------------------------------------------------------
(* The session's answer.                                                   *)

\* The decision.
LEMMA AnswersInv ==
  ASSUME Inv, Answers
  PROVE  Inv'
<1>1. state # None /\ ~Has(events, "Invite") /\ InviteFirst
  BY Begun DEF Pristine, Answers
<1>2. PICK r \in {"200", "486"} : answer' = [at |-> "prepare", with |-> r]
  BY DEF Answers
<1>3. answer'.at = "prepare" /\ answer'.with = r /\ ~Prepared' /\ ~Prepared /\ ~Given' /\ ~Given
  BY <1>2 DEF Prepared, Given, Answers
<1>4. ~Accepted /\ ~Accepted' /\ Over' = Over /\ ~Over /\ ~Cut /\ ~Cut'
      /\ dialog # None /\ dialog # "Confirmed"
  BY <1>3 DEF Inv, Answers, Responses, Ending, Started, Accepted, Over, Cut, tmVars, dialogVars
<1>5. TypeOK'
  BY <1>2 DEF Inv, Answers, TypeOK, ManagerTypeOK, tmVars, dialogVars
<1>6. Started'
  BY <1>1, <1>3, <1>4 DEF Inv, Answers, Started, InviteFirst, tmVars, dialogVars, None
<1>7. Responses'
  <2>1. last # "200" /\ cache = None
    BY <1>3 DEF Inv, Responses
  <2>2. Settled' = Settled
    BY <1>4 DEF Settled, Answers, dialogVars
  <2> QED
    BY <1>4, <2>1, <2>2 DEF Inv, Answers, Responses, tmVars, dialogVars
<1>8. Ending'
  <2>1. remover["session"] = "idle" /\ Ends \cap told = {}
    BY <1>4 DEF Inv, Ending, Ends, Cut
  <2> QED
    BY <1>3, <1>4, <2>1 DEF Inv, Answers, Ending, tmVars, dialogVars
<1> QED
  BY <1>5, <1>6, <1>7, <1>8 DEF Inv

\* The dialog is confirmed or ended before the response is sent.
LEMMA PreSendResponseInv ==
  ASSUME Inv, PreSendResponse
  PROVE  Inv'
<1>1. state # None /\ ~Has(events, "Invite") /\ InviteFirst
  BY Begun DEF Pristine, PreSendResponse
<1>2. /\ answer.at = "prepare" /\ answer'.at = "send" /\ answer'.with = answer.with
      /\ answer' \in [at : {"idle", "prepare", "send", "cache", "done", "failed"},
                      with : {None, "200", "486"}]
      /\ answer.with \in {"200", "486"}
  BY DEF Inv, TypeOK, PreSendResponse, Started
<1>3. ~Accepted /\ ~Prepared /\ Prepared' /\ ~Given /\ ~Given' /\ dialog # "Confirmed" /\ dialog # None
      /\ (~Cut => ~Over /\ dialog = "Early")
      /\ Accepted' = Accepted /\ Cut' = Cut
  BY <1>2 DEF Inv, TypeOK, Responses, Ending, Started, PreSendResponse, Accepted, Cut,
              Over, Prepared, Given, tmVars
<1>4. /\ dialog' \in {"Confirmed", "Terminated", "Removed"}
      /\ dialog' = "Confirmed" => dialog = "Early" /\ answer.with = "200" /\ lookup' /\ tagged'
      /\ dialog # "Early" => dialog' = dialog
      /\ dialog = "Early" => dialog' # "Removed"
      /\ answer.with = "486" => dialog' # "Confirmed"
      /\ dialog = "Early" /\ answer.with = "200" => dialog' = "Confirmed"
      /\ {tagged', early', lookup'} \subseteq BOOLEAN
  BY <1>2, <1>3 DEF Inv, TypeOK, PreSendResponse, ConfirmDialog, TerminateEarlyDialog
<1>5. TypeOK'
  BY <1>2, <1>4 DEF Inv, TypeOK, ManagerTypeOK, PreSendResponse, tmVars
<1>6. Started'
  BY <1>1, <1>2, <1>3, <1>4 DEF Inv, PreSendResponse, Started, InviteFirst, tmVars, None
<1>7. Responses'
  <2>1. last # "200" /\ cache = None
    BY <1>3 DEF Inv, Responses
  <2>2. Settled => Settled'
    BY <1>3, <1>4 DEF Settled, Over, PreSendResponse
  <2> QED
    BY <1>3, <1>4, <2>1, <2>2 DEF Inv, PreSendResponse, Responses, Over, tmVars
<1>8. Ending'
  BY <1>2, <1>3, <1>4 DEF Inv, PreSendResponse, Ending, Over, tmVars
<1> QED
  BY <1>5, <1>6, <1>7, <1>8 DEF Inv

\* The response is sent, or is not.
LEMMA SendsResponseInv ==
  ASSUME Inv, SendsResponse
  PROVE  Inv'
<1>1. state # None /\ ~Has(events, "Invite") /\ InviteFirst
  BY Begun DEF Pristine, SendsResponse
<1>2. /\ answer.at = "send" /\ answer'.at \in {"cache", "failed"} /\ answer'.with = answer.with
      /\ answer' \in [at : {"idle", "prepare", "send", "cache", "done", "failed"},
                      with : {None, "200", "486"}]
      /\ answer.with \in {"200", "486"} /\ answer.with \in Finals
  BY DEF Inv, TypeOK, SendsResponse, Started, Finals
<1>3. /\ ~Accepted /\ Prepared /\ Prepared' /\ ~Given /\ Given' /\ Cut' = Cut /\ Over' = Over
      /\ dialog # None /\ (answer.with = "486" => Over) /\ last # "200" /\ cache = None
  BY <1>2 DEF Inv, Responses, Ending, Started, SendsResponse, Accepted, Cut,
              Over, Prepared, Given, dialogVars
<1>4. Ending'
  BY <1>2, <1>3 DEF Inv, SendsResponse, Ending, dialogVars
<1>5. /\ last' \in {last, answer.with} /\ (Accepted' => answer.with = "200") /\ ManagerTypeOK'
      /\ UNCHANGED <<state, mapped, cache, events>>
      /\ orders' = orders \/ Accepted' \/ answer.with = "486"
  <2>1. CASE SendFinal(answer.with)
    <3>1. /\ last' = answer.with /\ wire' \in Seq(Finals)
          /\ \A y : Has(wire', y) <=> Has(wire, y) \/ answer.with = y
          /\ orders' \in Seq({"Completed", "Terminated"})
          /\ UNCHANGED <<state, mapped, index, cache, byeTx, events, acked, refused, budget>>
      BY <1>2, <2>1, SendFacts DEF Inv
    <3>2. Accepted' <=> answer.with = "200"
      BY <1>3, <3>1 DEF Accepted
    <3>3. ManagerTypeOK'
      BY <1>2, <3>1 DEF Inv, TypeOK, ManagerTypeOK
    <3> QED
      BY <1>2, <3>1, <3>2, <3>3
  <2>2. CASE SendRefused(answer.with)
    BY <1>2, <1>3, <2>2, RefusedFacts DEF Inv
  <2>3. CASE UNCHANGED tmVars
    BY <1>3, <2>3 DEF Inv, tmVars, TypeOK, ManagerTypeOK, Accepted
  <2> QED
    BY <2>1, <2>2, <2>3 DEF SendsResponse
<1>6. TypeOK'
  BY <1>2, <1>5 DEF Inv, SendsResponse, TypeOK, dialogVars
<1>7. Started'
  BY <1>1, <1>2, <1>3, <1>5 DEF Inv, SendsResponse, Started, InviteFirst, dialogVars
<1>8. Responses'
  <2>1. Settled => Settled'
    BY <1>3 DEF Settled, SendsResponse, dialogVars
  <2>2. orders' = orders \/ Settled'
    BY <1>3, <1>5 DEF Settled
  <2> QED
    BY <1>2, <1>3, <1>5, <2>1, <2>2 DEF Inv, SendsResponse, Responses, dialogVars
<1> QED
  BY <1>4, <1>6, <1>7, <1>8 DEF Inv

\* The 2xx is cached.
LEMMA CachesResponseInv ==
  ASSUME Inv, CachesResponse
  PROVE  Inv'
<1>1. state # None /\ ~Has(events, "Invite") /\ InviteFirst
  BY Begun DEF Pristine, CachesResponse
<1>2. /\ answer.at = "cache" /\ answer'.at = "done" /\ answer'.with = answer.with
      /\ answer' \in [at : {"idle", "prepare", "send", "cache", "done", "failed"},
                      with : {None, "200", "486"}]
      /\ Prepared' = Prepared /\ Given' /\ Given /\ Cut' = Cut /\ Over' = Over /\ dialog # None
  BY DEF Inv, TypeOK, CachesResponse, Prepared, Given, Cut, Over, dialogVars, Started
<1>3. /\ ManagerTypeOK' /\ (cache' # None => answer.with = "200" /\ Given)
      /\ UNCHANGED <<state, mapped, last, orders, events, wire, budget>>
      /\ Accepted' = Accepted
  BY CacheFacts DEF CachesResponse
<1>4. TypeOK'
  BY <1>2, <1>3 DEF Inv, CachesResponse, TypeOK, dialogVars
<1>5. Started'
  BY <1>1, <1>2, <1>3 DEF Inv, CachesResponse, Started, InviteFirst, dialogVars
<1>6. Responses'
  BY <1>2, <1>3 DEF Inv, CachesResponse, Responses, Settled, dialogVars
<1>7. Ending'
  BY <1>2 DEF Inv, CachesResponse, Ending, dialogVars
<1> QED
  BY <1>4, <1>5, <1>6, <1>7 DEF Inv

-----------------------------------------------------------------------------
(* Removing the dialog.                                                    *)

Stages == {"idle", "emit", "drop", "forget", "done"}

\* A remover moves: the other stays.
LEMMA MovesFacts ==
  ASSUME Inv, NEW r \in Removers, NEW from \in Stages, NEW to \in Stages, Moves(r, from, to)
  PROVE  /\ remover[r] = from /\ remover'[r] = to /\ remover' \in [Removers -> Stages]
         /\ \A q \in Removers \ {r} : remover'[q] = remover[q]
BY DEF Inv, TypeOK, Moves, Stages

\* The BYE's task tells the session.
LEMMA ByeTellsInv ==
  ASSUME Inv, ByeTells
  PROVE  Inv'
<1>1. /\ remover["bye"] = "emit" /\ remover'["bye"] = "drop"
      /\ remover'["session"] = remover["session"] /\ remover' \in [Removers -> Stages]
  BY MovesFacts DEF ByeTells, Removers, Stages
<1>2. state # None /\ ~Has(events, "Invite") /\ InviteFirst
  BY <1>1, Begun DEF Pristine, Removers
<1>3. Over /\ dialog # None
  BY <1>1 DEF Inv, Ending, Over, None
<1>4. Accepted' = Accepted /\ Cut' = Cut /\ Prepared' = Prepared /\ Given' = Given /\ Over' = Over
  BY DEF ByeTells, tmVars, dialogVars, Accepted, Cut, Prepared, Given, Over
<1>5. TypeOK'
  BY <1>1 DEF Inv, ByeTells, TypeOK, ManagerTypeOK, tmVars, dialogVars, Told, Stages
<1>6. Started'
  BY <1>2, <1>3 DEF Inv, ByeTells, Started, InviteFirst, tmVars, dialogVars
<1>7. Responses'
  BY <1>4 DEF Inv, ByeTells, Responses, Settled, tmVars, dialogVars
<1>8. Ending'
  BY <1>1, <1>3, <1>4 DEF Inv, ByeTells, Ending, dialogVars, Removers
<1> QED
  BY <1>5, <1>6, <1>7, <1>8 DEF Inv

\* The session lets the call go, because it is over or without waiting for it.
LEMMA ReleasesInv ==
  ASSUME Inv, ReleasesDialog, dialog # None, gaveUp' \in BOOLEAN, gaveUp => gaveUp',
         \/ gaveUp'
         \/ Over /\ (~Cut => remover["bye"] # "idle" \/ answer.with = "486")
  PROVE  Inv'
<1>1. /\ remover["session"] = "idle" /\ remover'["session"] = "drop"
      /\ remover'["bye"] = remover["bye"] /\ remover' \in [Removers -> Stages]
  BY MovesFacts DEF ReleasesDialog, Removers, Stages
<1>2. state # None /\ ~Has(events, "Invite") /\ InviteFirst
  BY Begun DEF Pristine
<1>3. /\ Accepted' = Accepted /\ Prepared' = Prepared /\ Given' = Given /\ Over' = Over
      /\ (Cut => Cut')
      /\ UNCHANGED <<dialog, cseq, tagged, early, lookup, tombstone, worker, answer, told, byeWire>>
      /\ UNCHANGED <<last, wire>> /\ linked' = FALSE
  BY DEF ReleasesDialog, TerminateInvite, tmVars, Accepted, Prepared, Given, Over, Cut
<1>4. gaveUp' \/ Over'
  BY <1>3
<1>5. /\ ManagerTypeOK' /\ state' # None /\ InviteFirst' /\ ~Has(events', "Invite")
      /\ \A y : Has(events', y) => Has(events, y) \/ y = "Terminated"
      /\ cache' = cache \/ cache' = None
      /\ (~mapped' => state' = "Terminated")
  <2>0. TypeOK /\ ManagerTypeOK /\ (~mapped => state = "Terminated")
    BY <1>2 DEF Inv, TypeOK, Responses
  <2>1. CASE linked /\ mapped
    <3>0. /\ mapped' = FALSE /\ index' = Retired /\ state' = "Terminated" /\ orders' = <<>>
          /\ events' = Append(events, "Terminated") /\ cache' = None
          /\ UNCHANGED <<last, byeTx, wire, acked, refused, budget>>
      BY <2>1 DEF ReleasesDialog, TerminateInvite
    <3>1. /\ events' \in Seq(TransactionEvents) /\ InviteFirst'
          /\ \A y : Has(events', y) <=> Has(events, y) \/ "Terminated" = y
      BY <1>2, <2>0, <3>0, AddFacts DEF TransactionEvents
    <3>2. orders' \in Seq({"Completed", "Terminated"}) /\ index' \in {None, "active", "retired", "gone"}
      BY <2>0, <3>0 DEF ManagerTypeOK, Retired
    <3>3. ManagerTypeOK'
      BY <2>0, <3>0, <3>1, <3>2 DEF ManagerTypeOK
    <3> QED
      BY <1>2, <3>0, <3>1, <3>3 DEF None
  <2>2. CASE linked /\ ~mapped
    BY <1>2, <2>0, <2>2 DEF ReleasesDialog, TerminateInvite, ManagerTypeOK, InviteFirst
  <2>3. CASE ~linked
    BY <1>2, <2>0, <2>3 DEF ReleasesDialog, tmVars, ManagerTypeOK, InviteFirst
  <2> QED
    BY <2>1, <2>2, <2>3
<1>6. TypeOK'
  <2>1. {tagged', linked', early', lookup'} \subseteq BOOLEAN
    BY <1>3 DEF Inv, TypeOK
  <2> QED
    BY <1>1, <1>3, <1>5, <2>1 DEF Inv, TypeOK, Stages
<1>7. Started'
  BY <1>2, <1>3, <1>5 DEF Inv, Started
<1>8. Responses'
  <2>1. Settled'
    BY <1>4 DEF Settled
  <2>2. dialog' \in {"Early", "Confirmed"} => gaveUp'
    BY <1>4 DEF Over
  <2> QED
    BY <1>3, <1>4, <1>5, <2>1, <2>2 DEF Inv, Responses
<1>9. Ending'
  <2>1. ~Cut' => Over /\ (remover["bye"] # "idle" \/ answer.with = "486") /\ ~Cut
    BY <1>3 DEF Cut
  <2> QED
    BY <1>1, <1>3, <2>1 DEF Inv, Ending, Removers
<1> QED
  BY <1>6, <1>7, <1>8, <1>9 DEF Inv

\* The session releases a call that is over.
LEMMA SessionReleasesInv ==
  ASSUME Inv, SessionReleases
  PROVE  Inv'
<1>1. Ends \cap told # {} \/ (answer.at = "done" /\ answer.with = "486")
  BY DEF SessionReleases
<1>2. Over /\ (~Cut => remover["bye"] # "idle" \/ answer.with = "486")
  BY <1>1 DEF Inv, Ending, Prepared, Given, Ends, Cut
<1>3. dialog # None
  BY <1>2 DEF Over, None
<1> QED
  BY <1>2, <1>3, ReleasesInv DEF SessionReleases, Inv, TypeOK

\* The session's timeout releases one that is not.
LEMMA SessionGivesUpInv ==
  ASSUME Inv, SessionGivesUp
  PROVE  Inv'
<1>1. dialog # None /\ gaveUp' = TRUE /\ ReleasesDialog
  BY DEF SessionGivesUp, Inv, Started
<1>2. gaveUp' \in BOOLEAN
  BY <1>1
<1> QED
  BY <1>1, <1>2, ReleasesInv

\* The dialog is taken out, its tombstone left.
LEMMA DropDialogInv ==
  ASSUME Inv, NEW r \in Removers, DropDialog(r)
  PROVE  Inv'
<1>1. /\ remover[r] = "drop" /\ remover'[r] \in {"done", "forget"}
      /\ \A q \in Removers \ {r} : remover'[q] = remover[q]
      /\ remover' \in [Removers -> Stages]
  <2>1. PICK to \in {"done", "forget"} : Moves(r, "drop", to)
    BY DEF DropDialog
  <2> QED
    BY <2>1, MovesFacts DEF Stages
<1>2. state # None /\ ~Has(events, "Invite") /\ InviteFirst
  BY <1>1, Begun DEF Pristine
<1>3. /\ remover'["bye"] # "idle" <=> remover["bye"] # "idle"
      /\ remover'["session"] # "idle" <=> remover["session"] # "idle"
  BY <1>1 DEF Removers
<1>4. Over \/ Cut
  BY <1>1 DEF Inv, Ending, Removers
<1>5. /\ Accepted' = Accepted /\ Cut' = Cut /\ Given' = Given
      /\ Prepared' = Prepared /\ Over' /\ dialog' = "Removed"
  BY DEF DropDialog, tmVars, Accepted, Cut, Prepared, Given, Over
<1>6. ~Cut /\ answer.with = "200" /\ Prepared => tombstone' = "BYE"
  <2>1. ~Cut /\ answer.with = "200" => remover["bye"] # "idle"
    BY <1>1 DEF Inv, Ending, Removers
  <2>2. ~Cut /\ answer.with = "200" => cseq = "BYE"
    BY <2>1 DEF Inv, Ending
  <2> QED
    BY <1>4, <2>2 DEF Inv, Ending, DropDialog, Tombstone, Over
<1>7. TypeOK'
  <2>1. tombstone' \in {None, "INVITE", "BYE"}
    BY DEF Inv, TypeOK, DropDialog, Tombstone
  <2> QED
    BY <1>1, <1>5, <2>1 DEF Inv, TypeOK, ManagerTypeOK, DropDialog, tmVars, Stages
<1>8. Started'
  <2>1. worker # "refuse"
    <3>1. dialog = None => ~Over /\ ~("CallCancelled" \in told)
      BY DEF Inv, Started, Over, None
    <3>2. gaveUp => dialog # None
      BY DEF Inv, Started
    <3> QED
      BY <1>4, <3>1, <3>2 DEF Inv, Started, Cut
  <2> QED
    BY <1>2, <1>5, <2>1 DEF Inv, DropDialog, Started, InviteFirst, tmVars, None
<1>9. Responses'
  BY <1>5 DEF Inv, DropDialog, Responses, Settled, Over, tmVars
<1>10. Ending'
  BY <1>3, <1>4, <1>5, <1>6 DEF Inv, DropDialog, Ending
<1> QED
  BY <1>7, <1>8, <1>9, <1>10 DEF Inv

\* Its keys follow.
LEMMA ForgetDialogInv ==
  ASSUME Inv, NEW r \in Removers, ForgetDialog(r)
  PROVE  Inv'
<1>1. /\ remover[r] = "forget" /\ remover'[r] = "done"
      /\ \A q \in Removers \ {r} : remover'[q] = remover[q]
      /\ remover' \in [Removers -> Stages]
  BY MovesFacts DEF ForgetDialog, Stages
<1>2. state # None /\ ~Has(events, "Invite") /\ InviteFirst
  BY <1>1, Begun DEF Pristine
<1>3. /\ remover'["bye"] # "idle" <=> remover["bye"] # "idle"
      /\ remover'["session"] # "idle" <=> remover["session"] # "idle"
  BY <1>1 DEF Removers
<1>4. dialog = "Removed"
  BY <1>1 DEF Inv, Ending
<1>5. /\ Accepted' = Accepted /\ Cut' = Cut /\ Given' = Given
      /\ Prepared' = Prepared /\ Over' = Over
  BY DEF ForgetDialog, Accepted, Cut, Prepared, Given, Over
<1>6. TypeOK'
  <2>1. cache' \in {None, "unacked", "acked"}
    BY DEF Inv, TypeOK, ManagerTypeOK, ForgetDialog
  <2>2. ManagerTypeOK'
    BY <2>1 DEF Inv, TypeOK, ManagerTypeOK, ForgetDialog
  <2>3. {tagged', linked', early', lookup'} \subseteq BOOLEAN
    BY DEF Inv, TypeOK, ForgetDialog
  <2> QED
    BY <1>1, <2>2, <2>3 DEF Inv, TypeOK, ForgetDialog, Stages
<1>7. Started'
  BY <1>2, <1>4 DEF Inv, ForgetDialog, Started, InviteFirst, None
<1>8. Responses'
  BY <1>4, <1>5 DEF Inv, ForgetDialog, Responses, Settled, Over
<1>9. Ending'
  BY <1>3, <1>4, <1>5 DEF Inv, ForgetDialog, Ending
<1> QED
  BY <1>6, <1>7, <1>8, <1>9 DEF Inv

-----------------------------------------------------------------------------
(* The theorems.                                                           *)

\* Every step keeps the invariant.
LEMMA InvStep ==
  ASSUME Inv, [Next]_vars
  PROVE  Inv'
<1>1. CASE Next
  BY <1>1, NetworkInv, UpkeepInv, WorkerInv, AnswersInv, PreSendResponseInv, SendsResponseInv,
     CachesResponseInv, ByeTellsInv, SessionReleasesInv, SessionGivesUpInv, DropDialogInv,
     ForgetDialogInv
  DEF Next, AnswerStep, Removal, RemoverStep
<1>2. CASE UNCHANGED vars
  <2>1. UNCHANGED <<tmVars, dialogVars, worker, answer, remover, gaveUp, told, byeWire>>
    BY <1>2 DEF vars, callVars
  <2>2. TypeOK'
    BY <2>1 DEF Inv, TypeOK, ManagerTypeOK, tmVars, dialogVars
  <2>3. Started'
    BY <2>1 DEF Inv, Started, Pristine, InviteFirst, tmVars, dialogVars
  <2>4. Responses'
    BY <2>1 DEF Inv, Responses, Accepted, Settled, Over, Given, tmVars, dialogVars
  <2>5. Ending'
    BY <2>1 DEF Inv, Ending, Over, Prepared, Given, Cut, tmVars, dialogVars
  <2> QED
    BY <2>2, <2>3, <2>4, <2>5 DEF Inv
<1> QED
  BY <1>1, <1>2

\* The invariant holds of every call, and with it the types.
THEOREM CallInvariant == Spec => []Inv
<1> QED
  BY InvInit, InvStep, PTL DEF Spec

\* An ACK that reaches the session of a dialog that still exists is one of an
\* accepted call (handle_ack_received_event), however the ACK of a refusal
\* and the worker's look-ups interleave with the answer and the CANCEL, and
\* whichever responses the transport refuses.
THEOREM AckTheorem == Spec => []AckMeansAccepted
<1>1. Inv => AckMeansAccepted
  BY DEF Inv, Responses, AckMeansAccepted, Accepted
<1> QED
  BY <1>1, CallInvariant, PTL

\* The BYE of an accepted call that was neither cancelled nor given up is never
\* answered 481: the dialog is found, or the tombstone speaks for it.
THEOREM ByeTheorem == Spec => []ByeHonoured
<1>1. Inv => ByeHonoured
  BY DEF Inv, Ending, ByeHonoured, Cut
<1> QED
  BY <1>1, CallInvariant, PTL

\* No actor brings the dialog back to an earlier state.
LEMMA DialogStep ==
  ASSUME Inv, Next, dialog' # dialog
  PROVE  Rank(dialog) <= Rank(dialog')
<1>0. dialog \in {None, "Early", "Confirmed", "Terminated", "Removed"}
  BY DEF Inv, TypeOK
<1>1. CASE HandleInvite
  <2>1. dialog = None
    <3>1. Has(events, "Invite")
      BY <1>1, TakeFacts DEF HandleInvite, Inv, TransactionEvents
    <3> QED
      BY <3>1 DEF Inv, Started, Pristine
  <2>2. dialog' = "Early"
    BY <1>1 DEF HandleInvite, dialogVars
  <2> QED
    BY <2>1, <2>2 DEF Rank, None
<1>2. CASE CancelEndsDialog \/ ProcessBye
  <2>1. dialog # "Removed" /\ dialog' = "Terminated"
    BY <1>2 DEF CancelEndsDialog, ProcessBye
  <2> QED
    BY <1>0, <2>1 DEF Rank, None
<1>3. CASE PreSendResponse
  <2>1. dialog = "Early" /\ dialog' \in {"Confirmed", "Terminated"}
    BY <1>3 DEF PreSendResponse, ConfirmDialog, TerminateEarlyDialog
  <2> QED
    BY <2>1 DEF Rank, None
<1>4. CASE \E r \in Removers : DropDialog(r)
  <2>1. dialog' = "Removed"
    BY <1>4 DEF DropDialog
  <2> QED
    BY <1>0, <2>1 DEF Rank, None
<1> QED
  BY <1>1, <1>2, <1>3, <1>4
  DEF Next, Worker, AnswerStep, Removal, RemoverStep, callVars, dialogVars, RefuseInvite, HandleTerminated,
      HandleAck, ReportAck, HandleUnmatchedCancel, HandleCancel, CancelSends487, CancelCaches,
      HandleBye, Answers, SendsResponse, CachesResponse, ByeTells, SessionReleases, SessionGivesUp,
      ReleasesDialog, ForgetDialog

\* Accepting, rejecting, cancelling and hanging up never move a dialog back
\* (confirm_uas_dialog and its rivals test the state they find).
THEOREM DialogTheorem == Spec => DialogAdvances
<1>1. Inv /\ [Next]_vars => [Rank(dialog) <= Rank(dialog')]_dialog
  BY DialogStep DEF vars, callVars, dialogVars
<1> QED
  BY <1>1, CallInvariant, PTL DEF Spec, DialogAdvances

\* Only a first BYE spawns the task that tells and removes.
LEMMA ByeTask ==
  ASSUME Inv, Next, remover'["bye"] # remover["bye"], remover'["bye"] = "emit"
  PROVE  remover["bye"] = "idle"
<1>1. remover["bye"] \in Stages
  BY DEF Inv, TypeOK, Removers, Stages
<1>2. CASE ProcessBye
  <2>1. ~DuplicateBye /\ dialog # "Removed"
    BY <1>2 DEF ProcessBye
  <2> QED
    BY <2>1 DEF Inv, Ending, Over, DuplicateBye
<1>3. CASE ByeTells
  <2>1. remover'["bye"] = "drop"
    BY <1>3, MovesFacts DEF ByeTells, Removers, Stages
  <2> QED
    BY <2>1
<1>4. CASE SessionReleases \/ SessionGivesUp
  <2>1. remover'["bye"] = remover["bye"]
    BY <1>4, MovesFacts DEF SessionReleases, SessionGivesUp, ReleasesDialog, Removers, Stages
  <2> QED
    BY <2>1
<1>5. ASSUME NEW r \in Removers, RemoverStep(r) PROVE FALSE
  <2>1. PICK from \in {"drop", "forget"}, to \in {"done", "forget"} : Moves(r, from, to)
    BY <1>5 DEF RemoverStep, DropDialog, ForgetDialog
  <2>2. remover'["bye"] \in {to, remover["bye"]}
    BY <2>1, MovesFacts DEF Stages, Removers
  <2> QED
    BY <2>2
<1> QED
  BY <1>2, <1>3, <1>4, <1>5
  DEF Next, Worker, AnswerStep, Removal, callVars, HandleInvite, RefuseInvite, HandleTerminated,
      HandleAck, ReportAck, HandleUnmatchedCancel, HandleCancel, CancelSends487, CancelCaches,
      CancelEndsDialog, HandleBye, Answers, PreSendResponse, SendsResponse, CachesResponse

\* However many BYEs escape their transaction, one of them tells the session
\* and removes the dialog (classify_bye_sequence).
THEOREM ByeOnceTheorem == Spec => ByeToldOnce
<1>1. Inv /\ [Next]_vars
        => [remover'["bye"] = "emit" => remover["bye"] = "idle"]_(remover["bye"])
  BY ByeTask DEF vars, callVars
<1> QED
  BY <1>1, CallInvariant, PTL DEF Spec, ByeToldOnce

-----------------------------------------------------------------------------
(* What the liveness properties of a call rest on: nothing that has to     *)
(* happen has lost the actor that would do it.                             *)

\* The ACK and the BYE of an accepted call find its dialog by its tags, with or
\* without the link to the transaction, until the call ends.
ConfirmedFound == dialog = "Confirmed" => lookup

\* confirm_uas_dialog registers the tags in the step that confirms, and nobody
\* takes them out of dialog_lookup before the dialog is out of `dialogs`.
THEOREM FoundTheorem == Spec => []ConfirmedFound
<1>1. Inv => ConfirmedFound
  BY DEF Inv, Ending, ConfirmedFound
<1> QED
  BY <1>1, CallInvariant, PTL

\* An INVITE that has no final response yet still has its transaction, whichever
\* responses to it were refused: mapped, in Proceeding and with nothing ordered,
\* so that whoever answers next (the session, the worker with its 487, or the
\* runner with the response it stored) can.  Only the session's setup timeout
\* drops an INVITE unanswered.
InviteAnswerable ==
  state # None /\ wire = <<>> /\ ~gaveUp => mapped /\ state = "Proceeding" /\ orders = <<>>

\* Nor has anybody told the session that the call is over, or begun to remove it.
Calm ==
  /\ mapped /\ state = "Proceeding" /\ orders = <<>> /\ cache = None
  /\ worker \notin {"cancelCache", "cancelEnd"} /\ answer.at \notin {"cache", "done"}
  /\ Ends \cap told = {} /\ remover["bye"] = "idle"

Unanswered == state # None /\ wire = <<>> /\ ~gaveUp => Calm

\* A call has a response once it is accepted or refused.
LEMMA WireHas == Accepted \/ Refused => wire # <<>>
BY HasNone DEF Accepted, Refused

\* Unanswered is inductive.
LEMMA UnansweredStep ==
  ASSUME Inv, Unanswered, [Next]_vars
  PROVE  Unanswered'
<1> SUFFICES ASSUME state' # None, wire' = <<>>, ~gaveUp'
             PROVE  Calm'
  BY DEF Unanswered
<1>t. TypeOK
  BY DEF Inv
<1>s. ASSUME NEW r \in Finals, SendFinal(r) PROVE FALSE
  BY <1>t, <1>s, SendFacts
<1>r. ASSUME NEW r \in Finals, Resend(r) PROVE FALSE
  BY <1>t, <1>r, ResendFacts
<1>p. state = None => Pristine
  BY DEF Inv, Started
<1>1. CASE InviteArrives /\ UNCHANGED callVars
  <2>1. Pristine /\ cache' = cache /\ cache = None
    BY <1>1, <1>p DEF InviteArrives, Pristine, Inv, Responses, Given
  <2> QED
    BY <1>1, <2>1 DEF InviteArrives, callVars, Pristine, Removers, Calm
<1>c. ASSUME state # None, wire = <<>>, ~gaveUp PROVE Calm
  BY <1>c DEF Unanswered
<1>a. wire = <<>> => ~Accepted /\ ~Refused
  BY WireHas
<1>g. CASE SessionGivesUp
  BY <1>g DEF SessionGivesUp
<1>h. CASE ~SessionGivesUp
  <2>g. [Next]_vars /\ ~SessionGivesUp => gaveUp' = gaveUp
    BY DEF Next, Worker, AnswerStep, Removal, RemoverStep, HandleInvite, RefuseInvite,
           HandleTerminated, HandleAck, ReportAck, HandleUnmatchedCancel, HandleCancel, CancelSends487,
           CancelCaches, CancelEndsDialog, HandleBye, ProcessBye, Answers, PreSendResponse,
           SendsResponse, CachesResponse, ByeTells, SessionReleases, DropDialog, ForgetDialog,
           callVars, vars
  <2>h. ~gaveUp
    BY <1>h, <2>g
  <2>n. ASSUME UNCHANGED <<state, wire>> PROVE Calm
    BY <2>n, <2>h, <1>c
  <2>2. CASE Network /\ ~InviteArrives /\ UNCHANGED callVars
    <3>0. ~InviteRepeated
      BY <1>r DEF InviteRepeated, Finals
    <3>1. UNCHANGED <<wire, mapped, orders>> /\ (UNCHANGED <<state, cache>> \/ Refused \/ Accepted)
      BY <2>2, <3>0 DEF Network, CancelArrives, AckArrives, AckOfRefusal, ByeArrives, Refused, Accepted
    <3>2. UNCHANGED <<state, cache>>
      BY <3>1, WireHas
    <3> QED
      BY <2>2, <2>n, <3>1, <3>2 DEF Calm, callVars
  <2>3. CASE Upkeep /\ UNCHANGED callVars
    <3>0. ~RunnerResends /\ ~RetransmitDue
      BY <1>r, <1>t DEF RunnerResends, RetransmitDue, TypeOK, ManagerTypeOK, Finals
    <3>1. wire' = wire /\ state # None
      <4>1. wire' = wire
        BY <2>3, <3>0 DEF Upkeep, RunnerStep, InviteEnds, Sweep, IndexExpires, CacheExpires
      <4>2. CASE state = None
        <5>1. Pristine /\ cache = None
          BY <1>p, <4>2 DEF Pristine, Inv, Responses, Given
        <5>2. state' = None
          BY <2>3, <3>0, <4>2, <5>1
          DEF Upkeep, RunnerStep, InviteEnds, Sweep, IndexExpires, CacheExpires, Pristine, None
        <5> QED
          BY <5>2
      <4> QED
        BY <4>1, <4>2
    <3>2. Calm
      BY <1>c, <2>h, <3>1
    <3>3. UNCHANGED <<mapped, state, orders, cache>>
      BY <2>3, <3>0, <3>2 DEF Upkeep, RunnerStep, InviteEnds, Sweep, IndexExpires, CacheExpires, Calm
    <3> QED
      BY <2>3, <3>1, <3>2, <3>3 DEF Calm, callVars
  <2>4. CASE Worker
    <3>1. CASE RefuseInvite
      <4>1. SendRefused("420")
        BY <1>s, <3>1 DEF RefuseInvite, Finals
      <4> QED
        BY <2>n, <3>1, <4>1 DEF RefuseInvite, SendRefused, Calm
    <3>2. CASE CancelSends487
      <4>1. \/ SendRefused("487") /\ worker' = "idle"
            \/ UNCHANGED tmVars /\ worker' = "idle"
        BY <1>s, <3>2 DEF CancelSends487, Finals
      <4>2. UNCHANGED <<state, wire, mapped, orders, cache>> /\ worker' = "idle"
        BY <4>1 DEF SendRefused, tmVars
      <4> QED
        BY <2>n, <3>2, <4>2 DEF Calm, CancelSends487
    <3>3. CASE CancelCaches \/ CancelEndsDialog
      <4>1. UNCHANGED <<state, wire>> /\ worker \in {"cancelCache", "cancelEnd"}
        BY <3>3 DEF CancelCaches, CancelEndsDialog, CacheResponse, tmVars
      <4> QED
        BY <2>n, <4>1 DEF Calm
    <3>4. CASE ProcessBye
      <4>1. UNCHANGED <<state, wire>> /\ Accepted
        BY <3>4 DEF ProcessBye, tmButRefused, Inv, Responses
      <4> QED
        BY <1>a, <4>1
    <3>5. CASE \/ HandleInvite \/ HandleTerminated \/ HandleAck \/ ReportAck \/ HandleUnmatchedCancel
               \/ HandleCancel \/ HandleBye
      <4>1. /\ UNCHANGED <<state, mapped, orders, wire, cache, answer, remover>>
            /\ worker' \in {worker, "idle", "refuse", "ack", "cancel", "bye"}
            /\ told' \in {told, told \cup {"IncomingCall"}, told \cup {"AckReceived"}}
        BY <3>5 DEF HandleInvite, HandleTerminated, HandleAck, ReportAck, HandleUnmatchedCancel,
                    HandleCancel, HandleBye, tmButEvents, tmButRefused, tmVars, callVars
      <4> QED
        BY <2>n, <4>1 DEF Calm, Ends
    <3> QED
      BY <2>4, <3>1, <3>2, <3>3, <3>4, <3>5 DEF Worker
  <2>5. CASE Answers \/ PreSendResponse
    <3>1. /\ UNCHANGED <<state, mapped, orders, wire, cache, worker, told, remover>>
          /\ answer'.at \in {"prepare", "send"}
      BY <2>5, <1>t DEF Answers, PreSendResponse, tmVars, TypeOK
    <3> QED
      BY <2>n, <3>1 DEF Calm
  <2>6. CASE SendsResponse
    <3>1. answer.at # "idle" => answer.with \in Finals
      BY <1>t DEF Inv, Started, TypeOK, Finals
    <3>2. /\ SendRefused(answer.with) \/ UNCHANGED tmVars
          /\ answer' = [answer EXCEPT !.at = "failed"]
      BY <2>6, <1>s, <3>1 DEF SendsResponse
    <3>3. UNCHANGED <<state, wire, mapped, orders, cache>>
      BY <3>2 DEF SendRefused, tmVars
    <3>4. answer'.at = "failed" /\ UNCHANGED <<worker, told, remover>>
      BY <1>t, <2>6, <3>2 DEF TypeOK, SendsResponse
    <3> QED
      BY <2>n, <3>3, <3>4 DEF Calm
  <2>7. CASE CachesResponse
    <3>1. UNCHANGED <<state, wire>> /\ answer.at = "cache"
      BY <2>7 DEF CachesResponse, CacheResponse
    <3> QED
      BY <2>n, <3>1 DEF Calm
  <2>8. CASE ByeTells
    <3>1. UNCHANGED <<state, wire>> /\ remover["bye"] = "emit"
      BY <2>8 DEF ByeTells, Moves, tmVars
    <3> QED
      BY <2>n, <3>1 DEF Calm
  <2>9. CASE SessionReleases
    <3>1. wire' = wire /\ (Ends \cap told # {} \/ answer.at = "done")
      BY <2>9 DEF SessionReleases, ReleasesDialog, TerminateInvite, tmVars
    <3>2. state # None
      BY <1>p, <3>1 DEF Pristine
    <3> QED
      BY <1>c, <2>h, <3>1, <3>2 DEF Calm
  <2>10. ASSUME NEW r \in Removers, RemoverStep(r) PROVE Calm'
    <3>1. /\ UNCHANGED <<state, mapped, orders, wire, worker, answer, told>>
          /\ cache' = cache \/ cache' = None
          /\ \E from \in {"drop", "forget"}, to \in {"done", "forget"} : Moves(r, from, to)
      BY <2>10 DEF RemoverStep, DropDialog, ForgetDialog, tmVars
    <3>2. PICK from \in {"drop", "forget"}, to \in {"done", "forget"} : Moves(r, from, to)
      BY <3>1
    <3>3. Calm
      BY <2>n, <3>1
    <3>4. r # "bye"
      BY <3>2, <3>3 DEF Calm, Moves
    <3>5. remover'["bye"] = remover["bye"]
      BY <1>t, <3>2, <3>4 DEF Moves, TypeOK, Removers
    <3> QED
      BY <3>1, <3>3, <3>5 DEF Calm
  <2>11. CASE UNCHANGED vars
    BY <2>n, <2>11 DEF vars, tmVars, callVars, Calm
  <2> QED
    BY <1>1, <1>h, <2>2, <2>3, <2>4, <2>5, <2>6, <2>7, <2>8, <2>9, <2>10, <2>11
    DEF Next, AnswerStep, Removal
<1> QED
  BY <1>g, <1>h

\* No INVITE loses its transaction before it is answered, failed sends
\* included: the sweep, a release of an ended call, a timer of the transaction
\* and the runner's orders touch only one that has been answered.
THEOREM AnswerableTheorem == Spec => []InviteAnswerable
<1>1. Init => Unanswered
  BY DEF Init, ManagerInit, Unanswered
<1>2. Inv /\ Unanswered /\ [Next]_vars => Unanswered'
  BY UnansweredStep
<1>3. Unanswered => InviteAnswerable
  BY DEF Unanswered, InviteAnswerable, Calm
<1> QED
  BY <1>1, <1>2, <1>3, CallInvariant, PTL DEF Spec

\* A dialog whose BYE was answered with 200 is out of every table, or a task is
\* on its way to take it out: neither remover ends because the other was first
\* while the other ends half-way.
RemovalUnderWay ==
  "200" \in byeWire => \/ dialog = "Removed" /\ ~lookup /\ ~early
                       \/ \E r \in Removers : remover[r] \in {"emit", "drop", "forget"}

OneBye == \A i, j \in DOMAIN events : events[i] = "Bye" /\ events[j] = "Bye" => i = j

\* The BYE's transaction lets one BYE through to the worker at a time.
Byes ==
  /\ OneBye
  /\ Has(events, "Bye") \/ worker = "bye" => byeTx
  /\ worker = "bye" => ~Has(events, "Bye")

\* A BYE whose 200 was refused: its transaction absorbs every other.
Absorbed == byeTx /\ worker # "bye" /\ ~Has(events, "Bye")

\* A BYE that was processed, now or before the tombstone, spawned its task, or
\* its 200 was refused and no BYE comes after it; a remover moves on with the
\* dialog, and the one that took it out of `dialogs` has the look-up keys still
\* to do.
Removing ==
  /\ Byes
  /\ cseq = "BYE" \/ tombstone = "BYE" \/ "200" \in byeWire =>
       remover["bye"] # "idle" \/ (Absorbed /\ "200" \notin byeWire)
  /\ dialog # "Removed" => \A r \in Removers : remover[r] \in {"idle", "emit", "drop"}
  /\ dialog = "Removed" /\ (lookup \/ early) => \E r \in Removers : remover[r] = "forget"

\* One more event.
LEMMA ByeAppend ==
  ASSUME TypeOK, NEW e \in TransactionEvents, events' = Append(events, e),
         e # "Bye" \/ ~Has(events, "Bye")
  PROVE  /\ OneBye => OneBye'
         /\ e # "Bye" /\ Has(events', "Bye") => Has(events, "Bye")
<1>1. events \in Seq(TransactionEvents)
  BY DEF TypeOK, ManagerTypeOK
<1>2. /\ Len(events) \in Nat /\ DOMAIN events = 1..Len(events)
      /\ DOMAIN events' = 1..(Len(events) + 1) /\ events'[Len(events) + 1] = e
      /\ \A i \in 1..Len(events) : events'[i] = events[i]
  BY <1>1, AppendProperties
<1>3. OneBye => OneBye'
  BY <1>2 DEF OneBye, Has
<1> QED
  BY <1>1, <1>3, HasAppend

\* One event less.
LEMMA ByeTake ==
  ASSUME TypeOK, NEW e \in TransactionEvents, Take(e), OneBye
  PROVE  /\ OneBye' /\ (Has(events', "Bye") => Has(events, "Bye"))
         /\ e = "Bye" => ~Has(events', "Bye")
<1>1. events \in Seq(TransactionEvents) /\ events # <<>> /\ events' = Tail(events)
      /\ e = Head(events)
  BY DEF Take, TypeOK, ManagerTypeOK
<1>2. /\ Len(events) \in Nat /\ DOMAIN events = 1..Len(events) /\ 1 <= Len(events)
      /\ DOMAIN Tail(events) = 1..(Len(events) - 1)
      /\ Head(events) = events[1]
      /\ \A i \in 1..(Len(events) - 1) : Tail(events)[i] = events[i + 1]
  BY <1>1, EmptySeq, HeadTailProperties
<1>3. OneBye'
  BY <1>1, <1>2 DEF OneBye
<1>4. e = "Bye" => ~Has(events', "Bye")
  BY <1>1, <1>2 DEF OneBye, Has
<1> QED
  BY <1>3, <1>4, TakeFacts

\* A step that concerns no BYE.
Unrelated ==
  /\ UNCHANGED <<byeTx, byeWire, cseq>> /\ (worker' = "bye" => worker = "bye")
  /\ OneBye' /\ (Has(events', "Bye") => Has(events, "Bye"))

\* What a step means to the BYEs.
LEMMA ByeSteps ==
  ASSUME Inv, OneBye, [Next]_vars
  PROVE  Unrelated \/ (ByeArrives /\ UNCHANGED callVars) \/ HandleBye \/ ProcessBye
<1>t. TypeOK
  BY DEF Inv
<1>a. ASSUME NEW e \in TransactionEvents, e # "Bye", events' = Append(events, e)
      PROVE  OneBye' /\ (Has(events', "Bye") => Has(events, "Bye"))
  BY <1>a, <1>t, ByeAppend
<1>k. ASSUME NEW e \in TransactionEvents, Take(e)
      PROVE  OneBye' /\ (Has(events', "Bye") => Has(events, "Bye"))
  BY <1>k, <1>t, ByeTake
<1>u. ASSUME events' = events
      PROVE  OneBye' /\ (Has(events', "Bye") => Has(events, "Bye"))
  BY <1>u DEF OneBye
<1>e. {"Invite", "Cancel", "CancelUnmatched", "Ack", "Terminated"} \subseteq TransactionEvents \ {"Bye"}
  BY DEF TransactionEvents
<1>1. CASE Network /\ ~ByeArrives /\ UNCHANGED callVars
  <2>1. events' = events \/ \E e \in TransactionEvents \ {"Bye"} : events' = Append(events, e)
    BY <1>1, <1>e DEF Network, InviteArrives, InviteRepeated, Resend, CancelArrives, AckArrives,
                      AckByIndex, AckOfRefusal
  <2>2. OneBye' /\ (Has(events', "Bye") => Has(events, "Bye"))
    BY <1>a, <1>u, <2>1
  <2>3. UNCHANGED <<byeTx, byeWire, cseq, worker>>
    BY <1>1 DEF Network, InviteArrives, InviteRepeated, Resend, CancelArrives, AckArrives,
                AckOfRefusal, callVars, dialogVars
  <2> QED
    BY <2>2, <2>3 DEF Unrelated
<1>2. CASE Upkeep /\ UNCHANGED callVars
  <2>0. CASE RunnerStep
    <3>1. /\ events' = events \/ events' = Append(events, "Terminated")
          /\ UNCHANGED <<byeTx, byeWire, cseq, worker>>
      BY <1>2, <2>0 DEF RunnerStep, callVars, dialogVars
    <3>2. OneBye' /\ (Has(events', "Bye") => Has(events, "Bye"))
      BY <1>a, <1>e, <1>u, <3>1
    <3> QED
      BY <3>1, <3>2 DEF Unrelated
  <2>1. CASE InviteEnds
    <3>1. /\ events' = Append(events, "Terminated")
          /\ UNCHANGED <<byeTx, byeWire, cseq, worker>>
      BY <1>2, <2>1 DEF InviteEnds, callVars, dialogVars
    <3>2. OneBye' /\ (Has(events', "Bye") => Has(events, "Bye"))
      BY <1>a, <1>e, <3>1
    <3> QED
      BY <3>1, <3>2 DEF Unrelated
  <2>2. CASE RunnerResends \/ Sweep \/ IndexExpires \/ RetransmitDue \/ CacheExpires
    <3>1. UNCHANGED <<events, byeTx, byeWire, cseq, worker>>
      BY <1>2, <2>2 DEF RunnerResends, Resend, Sweep, IndexExpires, RetransmitDue, CacheExpires,
                        callVars, dialogVars
    <3> QED
      BY <1>u, <3>1 DEF Unrelated
  <2> QED
    BY <1>2, <2>0, <2>1, <2>2 DEF Upkeep
<1>3. CASE HandleInvite \/ HandleTerminated \/ HandleAck \/ HandleUnmatchedCancel \/ HandleCancel
  <2>1. \E e \in TransactionEvents : Take(e)
    BY <1>3, <1>e DEF HandleInvite, HandleTerminated, HandleAck, HandleUnmatchedCancel, HandleCancel
  <2>2. UNCHANGED <<byeTx, byeWire, cseq>> /\ worker' \in {worker, "idle", "refuse", "ack", "cancel"}
    BY <1>3 DEF HandleInvite, HandleTerminated, HandleAck, HandleUnmatchedCancel, HandleCancel,
                dialogVars, callVars
  <2> QED
    BY <1>k, <2>1, <2>2 DEF Unrelated
<1>4. CASE RefuseInvite \/ ReportAck \/ CancelSends487 \/ CancelCaches \/ CancelEndsDialog
  <2>1. UNCHANGED <<events, byeTx>>
    BY <1>4 DEF RefuseInvite, ReportAck, CancelSends487, CancelCaches, CancelEndsDialog, SendFinal,
                SendRefused, CacheResponse, tmVars
  <2>2. UNCHANGED <<byeWire, cseq>> /\ worker' \in {"idle", "cancelCache", "cancelEnd"}
    BY <1>4 DEF RefuseInvite, ReportAck, CancelSends487, CancelCaches, CancelEndsDialog, dialogVars
  <2> QED
    BY <1>u, <2>1, <2>2 DEF Unrelated
<1>5. CASE Answers \/ AnswerStep
  <2>1. UNCHANGED <<events, byeTx>>
    BY <1>5 DEF Answers, AnswerStep, PreSendResponse, SendsResponse, CachesResponse, SendFinal,
                SendRefused, CacheResponse, tmVars
  <2>2. UNCHANGED <<byeWire, cseq, worker>>
    BY <1>5 DEF Answers, AnswerStep, PreSendResponse, SendsResponse, CachesResponse, dialogVars
  <2> QED
    BY <1>u, <2>1, <2>2 DEF Unrelated
<1>6. CASE SessionReleases \/ SessionGivesUp
  <2>1. ReleasesDialog
    BY <1>6 DEF SessionReleases, SessionGivesUp
  <2>2. /\ events' = events \/ events' = Append(events, "Terminated")
        /\ UNCHANGED <<byeTx, byeWire, cseq, worker>>
    BY <2>1 DEF ReleasesDialog, TerminateInvite, tmVars
  <2>3. OneBye' /\ (Has(events', "Bye") => Has(events, "Bye"))
    BY <1>a, <1>e, <1>u, <2>2
  <2> QED
    BY <2>2, <2>3 DEF Unrelated
<1>7. CASE ByeTells \/ \E r \in Removers : RemoverStep(r)
  <2>1. UNCHANGED <<events, byeTx, byeWire, cseq, worker>>
    BY <1>7 DEF ByeTells, RemoverStep, DropDialog, ForgetDialog, tmVars, dialogVars
  <2> QED
    BY <1>u, <2>1 DEF Unrelated
<1>8. CASE UNCHANGED vars
  <2>1. UNCHANGED <<events, byeTx, byeWire, cseq, worker>>
    BY <1>8 DEF vars, tmVars, callVars, dialogVars
  <2> QED
    BY <1>u, <2>1 DEF Unrelated
<1> QED
  BY <1>1, <1>2, <1>3, <1>4, <1>5, <1>6, <1>7, <1>8 DEF Next, Worker, Removal

\* Byes is inductive, and so is Absorbed.
LEMMA ByesStep ==
  ASSUME Inv, Byes, [Next]_vars
  PROVE  Byes' /\ (Absorbed => Absorbed' /\ ~HandleBye /\ ~ProcessBye)
<1>t. TypeOK /\ OneBye
  BY DEF Inv, Byes
<1>b. HandleBye => Has(events, "Bye")
  BY <1>t, TakeFacts DEF HandleBye, TransactionEvents
<1>c. Absorbed => ~HandleBye /\ ~ProcessBye
  BY <1>b DEF Absorbed, ProcessBye
<1>1. CASE Unrelated
  BY <1>1, <1>c DEF Unrelated, Byes, Absorbed
<1>2. CASE ByeArrives /\ UNCHANGED callVars
  <2>0. worker' = worker /\ byeTx' = TRUE
    BY <1>2 DEF ByeArrives, callVars
  <2>1. CASE byeTx
    <3>1. events' = events
      BY <1>2, <2>1 DEF ByeArrives
    <3> QED
      BY <1>c, <2>0, <2>1, <3>1 DEF Byes, OneBye, Absorbed
  <2>2. CASE ~byeTx
    <3>1. events' = Append(events, "Bye") /\ "Bye" \in TransactionEvents /\ ~Has(events, "Bye")
      BY <1>2, <2>2 DEF ByeArrives, TransactionEvents, Byes
    <3>2. OneBye'
      BY <1>t, <3>1, ByeAppend
    <3> QED
      BY <2>0, <2>2, <3>2 DEF Byes, Absorbed
  <2> QED
    BY <2>1, <2>2
<1>3. CASE HandleBye
  <2>1. OneBye' /\ ~Has(events', "Bye") /\ byeTx /\ worker = "idle"
    BY <1>3, <1>b, <1>t, ByeTake DEF HandleBye, TransactionEvents, Byes, Take
  <2>2. worker' \in {"idle", "bye"} /\ (worker' = "bye" => byeTx' = byeTx)
    BY <1>3, <2>1 DEF HandleBye
  <2> QED
    BY <1>3, <1>c, <2>1, <2>2 DEF Byes
<1>4. CASE ProcessBye
  <2>1. worker = "bye" /\ worker' = "idle" /\ events' = events
    BY <1>4 DEF ProcessBye
  <2> QED
    BY <1>4, <1>c, <2>1 DEF Byes, OneBye
<1> QED
  BY <1>t, <1>1, <1>2, <1>3, <1>4, ByeSteps

\* Removing is inductive.
LEMMA RemovingStep ==
  ASSUME Inv, Removing, [Next]_vars
  PROVE  Removing'
<1>t. TypeOK
  BY DEF Inv
<1>b. Byes' /\ (Absorbed => Absorbed' /\ ~HandleBye /\ ~ProcessBye)
  BY ByesStep DEF Removing
<1>f. ASSUME UNCHANGED <<dialog, cseq, tombstone, lookup, remover, byeWire>>, early' => early
      PROVE  Removing'
  BY <1>b, <1>f DEF Removing
<1>1. CASE ((Network \/ Upkeep) /\ UNCHANGED callVars) \/ UNCHANGED vars
  BY <1>1, <1>f DEF callVars, dialogVars, vars
<1>2. CASE \/ RefuseInvite \/ HandleTerminated \/ HandleAck \/ ReportAck \/ HandleUnmatchedCancel
           \/ HandleCancel \/ CancelSends487 \/ CancelCaches \/ Answers \/ SendsResponse
           \/ CachesResponse
  <2>1. UNCHANGED <<dialog, cseq, tombstone, lookup, remover, byeWire>>
    BY <1>2 DEF RefuseInvite, HandleTerminated, HandleAck, ReportAck, HandleUnmatchedCancel,
                HandleCancel, CancelSends487, CancelCaches, Answers, SendsResponse,
                CachesResponse, callVars, dialogVars
  <2>2. early' => early
    BY <1>2 DEF RefuseInvite, HandleTerminated, HandleAck, ReportAck, HandleUnmatchedCancel,
                HandleCancel, CancelSends487, CancelCaches, Answers, SendsResponse,
                CachesResponse, callVars, dialogVars, EarlyLeft, FoundEarly
  <2> QED
    BY <1>f, <2>1, <2>2
<1>3. CASE HandleInvite
  <2>1. dialog = None
    <3>1. Has(events, "Invite")
      BY <1>3, <1>t, TakeFacts DEF HandleInvite, TransactionEvents
    <3> QED
      BY <3>1 DEF Inv, Started, Pristine
  <2>2. UNCHANGED <<cseq, tombstone, remover, byeWire>> /\ dialog' \in {dialog, "Early"}
    BY <1>3 DEF HandleInvite, dialogVars
  <2> QED
    BY <1>b, <2>1, <2>2 DEF Removing, None
<1>4. CASE CancelEndsDialog
  <2>1. /\ UNCHANGED <<cseq, tombstone, lookup, remover, byeWire>>
        /\ (dialog' = dialog \/ (dialog # "Removed" /\ dialog' = "Terminated"))
    BY <1>4 DEF CancelEndsDialog
  <2>2. early' => early
    BY <1>4 DEF CancelEndsDialog, EarlyLeft, FoundEarly
  <2> QED
    BY <1>b, <2>1, <2>2 DEF Removing
<1>5. CASE HandleBye
  <2>1. /\ UNCHANGED <<dialog, cseq, tombstone, lookup, remover>>
        /\ "200" \in byeWire' => "200" \in byeWire \/ tombstone = "BYE"
    BY <1>5 DEF HandleBye, ReplyBye, ReplyRefused
  <2>2. early' => early
    BY <1>5 DEF HandleBye, EarlyLeft, FoundEarly
  <2>3. ~Absorbed
    BY <1>5, <1>b
  <2> QED
    BY <1>b, <2>1, <2>2, <2>3 DEF Removing
<1>6. CASE ProcessBye
  <2>0. ~Absorbed /\ UNCHANGED <<lookup, early, tombstone>> /\ Byes /\ worker = "bye"
        /\ worker' = "idle" /\ events' = events
    BY <1>6, <1>b DEF ProcessBye, Removing
  <2>1. CASE dialog = "Removed"
    BY <1>6, <1>f, <2>1 DEF ProcessBye
  <2>2. CASE dialog # "Removed" /\ ReplyRefused /\ remover' = remover /\ dialog' = "Terminated"
    <3>1. Absorbed' /\ byeWire' = byeWire
      BY <2>0, <2>2 DEF Byes, Absorbed, ReplyRefused
    <3>2. "200" \in byeWire => remover["bye"] # "idle"
      BY <2>0 DEF Removing
    <3>3. remover'["bye"] # "idle" \/ (Absorbed' /\ "200" \notin byeWire')
      BY <2>2, <3>1, <3>2
    <3> QED
      BY <1>b, <2>0, <2>2, <3>3 DEF Removing
  <2>3. CASE dialog # "Removed" /\ DuplicateBye /\ remover' = remover /\ dialog' = "Terminated"
    <3>1. remover["bye"] # "idle"
      BY <2>0, <2>3 DEF Removing, DuplicateBye
    <3> QED
      BY <1>b, <2>0, <2>3, <3>1 DEF Removing
  <2>4. CASE dialog # "Removed" /\ dialog' = "Terminated"
             /\ remover' = [remover EXCEPT !["bye"] = "emit"]
    <3>1. remover'["bye"] = "emit" /\ \A r \in Removers \ {"bye"} : remover'[r] = remover[r]
      BY <1>t, <2>4 DEF TypeOK, Removers
    <3> QED
      BY <1>b, <2>4, <3>1 DEF Removing
  <2> QED
    BY <1>6, <2>1, <2>2, <2>3, <2>4 DEF ProcessBye
<1>7. CASE PreSendResponse
  <2>1. /\ UNCHANGED <<cseq, tombstone, remover, byeWire>>
        /\ \/ UNCHANGED <<dialog, lookup, early>>
           \/ dialog = "Early" /\ dialog' \in {"Confirmed", "Terminated"}
    BY <1>7 DEF PreSendResponse, ConfirmDialog, TerminateEarlyDialog
  <2> QED
    BY <1>b, <2>1 DEF Removing
<1>8. CASE ByeTells
  <2>1. /\ remover'["bye"] = "drop" /\ remover["bye"] = "emit"
        /\ \A r \in Removers \ {"bye"} : remover'[r] = remover[r]
    BY <1>8, MovesFacts DEF ByeTells, Stages, Removers
  <2>2. UNCHANGED <<dialog, cseq, tombstone, lookup, early, byeWire>>
    BY <1>8 DEF ByeTells, dialogVars
  <2> QED
    BY <1>b, <2>1, <2>2 DEF Removing
<1>9. CASE SessionReleases \/ SessionGivesUp
  <2>0. ReleasesDialog
    BY <1>9 DEF SessionReleases, SessionGivesUp
  <2>1. /\ remover'["session"] = "drop" /\ remover["session"] = "idle"
        /\ \A r \in Removers \ {"session"} : remover'[r] = remover[r]
    BY <2>0, MovesFacts DEF ReleasesDialog, Stages, Removers
  <2>2. UNCHANGED <<dialog, cseq, tombstone, lookup, early, byeWire>>
    BY <2>0 DEF ReleasesDialog
  <2> QED
    BY <1>b, <2>1, <2>2 DEF Removing, Removers
<1>10. ASSUME NEW r \in Removers, DropDialog(r) PROVE Removing'
  <2>0. Moves(r, "drop", IF dialog = "Removed" THEN "done" ELSE "forget")
    BY <1>10 DEF DropDialog
  <2>1. /\ remover[r] = "drop" /\ remover'[r] = IF dialog = "Removed" THEN "done" ELSE "forget"
        /\ \A q \in Removers \ {r} : remover'[q] = remover[q]
    <3>1. CASE dialog = "Removed"
      BY <2>0, <3>1, MovesFacts DEF Stages
    <3>2. CASE dialog # "Removed"
      BY <2>0, <3>2, MovesFacts DEF Stages
    <3> QED
      BY <3>1, <3>2
  <2>2. /\ dialog' = "Removed" /\ UNCHANGED <<cseq, lookup, early, byeWire>>
        /\ tombstone' = "BYE" => tombstone = "BYE" \/ cseq = "BYE"
    BY <1>10 DEF DropDialog, Tombstone
  <2>3. remover["bye"] # "idle" => remover'["bye"] # "idle"
    BY <2>1 DEF Removers
  <2>4. lookup \/ early => \E q \in Removers : remover'[q] = "forget"
    <3>1. CASE dialog = "Removed"
      BY <2>1, <3>1 DEF Removing
    <3>2. CASE dialog # "Removed"
      BY <2>1, <3>2
    <3> QED
      BY <3>1, <3>2
  <2> QED
    BY <1>b, <2>2, <2>3, <2>4 DEF Removing
<1>11. ASSUME NEW r \in Removers, ForgetDialog(r) PROVE Removing'
  <2>1. /\ remover[r] = "forget" /\ remover'[r] = "done"
        /\ \A q \in Removers \ {r} : remover'[q] = remover[q]
    BY <1>11, MovesFacts DEF ForgetDialog, Stages
  <2>2. UNCHANGED <<dialog, cseq, tombstone, byeWire>> /\ ~early' /\ ~lookup'
    BY <1>11 DEF ForgetDialog
  <2>3. dialog = "Removed"
    BY <2>1 DEF Removing
  <2> QED
    BY <1>b, <2>1, <2>2, <2>3 DEF Removing, Removers
<1> QED
  BY <1>1, <1>2, <1>3, <1>4, <1>5, <1>6, <1>7, <1>8, <1>9, <1>10, <1>11
  DEF Next, Worker, AnswerStep, Removal, RemoverStep

\* After a BYE was honoured its dialog does not stay half-removed: as long as a
\* table still has it, the BYE's task or the session's release is under way
\* (process_bye_in_dialog, remove_dialog_storage).
THEOREM RemovalTheorem == Spec => []RemovalUnderWay
<1>1. Init => Removing
  BY DEF Init, ManagerInit, Removing, Byes, OneBye, Has, Removers, None
<1>2. Inv /\ Removing /\ [Next]_vars => Removing'
  BY RemovingStep
<1>3. Inv /\ Removing => RemovalUnderWay
  <2> SUFFICES ASSUME Inv, Removing, "200" \in byeWire
               PROVE  \/ dialog = "Removed" /\ ~lookup /\ ~early
                      \/ \E r \in Removers : remover[r] \in {"emit", "drop", "forget"}
    BY DEF RemovalUnderWay
  <2> QED
    BY DEF Removing, Removers
<1> QED
  BY <1>1, <1>2, <1>3, CallInvariant, PTL DEF Spec

=============================================================================
