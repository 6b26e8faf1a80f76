---------------------------- MODULE RegistryProofs ----------------------------
(***************************************************************************)
(* Theorems about the binding store, for any number of tasks, contacts and *)
(* any limit: a device has one binding, the limit is kept, and a           *)
(* registration that is refused changes nothing.                           *)
(*                                                                         *)
(* None of it can be read off the map entry alone.  A task that missed the *)
(* entry, or cloned it, carries a registration of its own through other    *)
(* tasks' steps and then inserts it: the invariant speaks of those copies  *)
(* as well.                                                                *)
(***************************************************************************)
EXTENDS Registry, FiniteSetTheorems, SequenceTheorems, TLAPS

\* One binding per URI and per outbound flow.
Distinct(B) == \A a, b \in B : a # b => /\ a.uri # b.uri
                                        /\ a.flow # b.flow \/ a.flow = NoFlow

\* A registration, in the map or in the hands of a task.
Sound(B) == /\ B \subseteq Binding /\ Distinct(B)
            /\ IsFiniteSet(B) /\ Cardinality(B) <= MaxContacts

\* What a task may still have to do.
Work == {Rest} \cup [do : {"build"}, next : {B \in SUBSET Binding : Sound(B)}, todo : Seq(Offers)]
               \cup [do : {"drop"}, todo : Seq(Offers)]
               \cup [do : {"remove"}, todo : Seq(Offers) \ {<<>>}]

\* The inductive invariant.
Inv == /\ present \in BOOLEAN /\ sweeping \in BOOLEAN /\ removeExisting \in BOOLEAN
       /\ ~present => bound = {}
       /\ Sound(bound)
       /\ task \in [Tasks -> Work]

-----------------------------------------------------------------------------
(* Registrations.                                                          *)

\* Taking bindings away leaves a sound registration.
LEMMA SoundSubset ==
  ASSUME NEW B, Sound(B), NEW C, C \subseteq B
  PROVE  /\ Sound(C) /\ Cardinality(C) \in Nat /\ Cardinality(C) <= Cardinality(B)
         /\ Cardinality(C) >= MaxContacts => C = B
<1>1. IsFiniteSet(B) /\ Cardinality(B) <= MaxContacts /\ MaxContacts \in Nat
  BY RegistryAssumption DEF Sound
<1>2. IsFiniteSet(C) /\ Cardinality(C) <= Cardinality(B) /\ (Cardinality(B) = Cardinality(C) => B = C)
  BY <1>1, FS_Subset
<1>3. Cardinality(B) \in Nat /\ Cardinality(C) \in Nat
  BY <1>1, <1>2, FS_CardinalityType
<1>4. C \subseteq Binding /\ Distinct(C)
  BY DEF Sound, Distinct
<1>5. Cardinality(C) <= MaxContacts
  BY <1>1, <1>2, <1>3
<1> QED
  BY <1>1, <1>2, <1>3, <1>4, <1>5 DEF Sound

\* The registration new_registration makes, before any contact is added.
LEMMA SoundEmpty == Sound({})
BY FS_EmptySet, RegistryAssumption DEF Sound, Distinct

\* apply_contact_limit leaves room for one binding.
LEMMA LimitedLeavesRoom ==
  ASSUME NEW B, Sound(B), NEW B2 \in Limited(B)
  PROVE  B2 \subseteq B /\ Sound(B2) /\ Cardinality(B2) < MaxContacts
<1>1. Purged(B) \subseteq B
  BY DEF Purged
<1>2. /\ Sound(Purged(B)) /\ Cardinality(Purged(B)) \in Nat
      /\ Cardinality(Purged(B)) <= MaxContacts /\ IsFiniteSet(Purged(B))
  BY <1>1, SoundSubset DEF Sound
<1>3. MaxContacts \in Nat
  BY RegistryAssumption
<1>4. CASE B2 = Purged(B) /\ HasRoom(Purged(B))
  BY <1>1, <1>2, <1>4 DEF HasRoom
<1>5. CASE \E b \in LeastPreferred(Purged(B)) : B2 = Purged(B) \ {b}
  <2>1. PICK b \in Purged(B) : B2 = Purged(B) \ {b}
    BY <1>5 DEF LeastPreferred
  <2>2. Cardinality(B2) = Cardinality(Purged(B)) - 1
    BY <1>2, <2>1, FS_RemoveElement
  <2>3. B2 \subseteq B /\ Sound(B2)
    BY <1>1, <1>2, <2>1, SoundSubset
  <2> QED
    BY <1>2, <1>3, <2>2, <2>3
<1> QED
  BY <1>4, <1>5 DEF Limited

\* update_contact: the new binding takes the place of its device's old one,
\* within the limit.
LEMMA UpdatedSound ==
  ASSUME NEW B, Sound(B), NEW c \in Offers, NEW B2 \in Updated(B, c)
  PROVE  Sound(B2)
<1>1. PICK B3 \in Limited(Others(B, c)) : B2 = B3 \cup {Fresh(c)}
  BY DEF Updated
<1>2. Others(B, c) \subseteq B /\ Sound(Others(B, c))
  BY SoundSubset DEF Others
<1>3. B3 \subseteq Others(B, c) /\ Sound(B3) /\ Cardinality(B3) < MaxContacts
  BY <1>2, LimitedLeavesRoom
<1>4. Fresh(c) \in Binding
  BY RegistryAssumption DEF Fresh, Binding, Offered, Reaches
<1>5. IsFiniteSet(B2) /\ Cardinality(B2) <= MaxContacts
  <2>1. IsFiniteSet(B3) /\ Cardinality(B3) \in Nat /\ MaxContacts \in Nat
    BY <1>3, FS_CardinalityType, RegistryAssumption DEF Sound
  <2>2. IsFiniteSet(B2) /\ Cardinality(B2) <= Cardinality(B3) + 1
    BY <1>1, <2>1, FS_AddElement
  <2>3. Cardinality(B2) \in Nat
    BY <2>2, FS_CardinalityType
  <2> QED
    BY <1>3, <2>1, <2>2, <2>3
<1>6. Distinct(B2)
  <2>1. \A b \in B3 : b.uri # c.uri /\ (c.flow # NoFlow => b.flow # c.flow)
    BY <1>3 DEF Others, SameBinding
  <2>2. Fresh(c).uri = c.uri /\ Fresh(c).flow = c.flow
    BY DEF Fresh
  <2>3. Distinct(B3)
    BY <1>3 DEF Sound
  <2> QED
    BY <1>1, <2>1, <2>2, <2>3 DEF Distinct
<1> QED
  BY <1>1, <1>3, <1>4, <1>5, <1>6 DEF Sound

\* A binding changed in place is still the one of its device.
LEMMA ChangedSound ==
  ASSUME NEW B, Sound(B), NEW b \in B, NEW b2 \in Binding, b2.uri = b.uri, b2.flow = b.flow
  PROVE  Sound((B \ {b}) \cup {b2})
<1> DEFINE C == (B \ {b}) \cup {b2}
<1>1. IsFiniteSet(B) /\ Cardinality(B) <= MaxContacts /\ Cardinality(B) \in Nat /\ MaxContacts \in Nat
  BY FS_CardinalityType, RegistryAssumption DEF Sound
<1>2. IsFiniteSet(B \ {b}) /\ Cardinality(B \ {b}) = Cardinality(B) - 1
  BY <1>1, FS_RemoveElement
<1>3. Cardinality(B \ {b}) \in Nat
  BY <1>2, FS_CardinalityType
<1>4. IsFiniteSet(C) /\ Cardinality(C) <= Cardinality(B \ {b}) + 1
  <2> DEFINE D == B \ {b}
  <2>1. IsFiniteSet(D) /\ Cardinality(D) \in Nat
    BY <1>2, <1>3
  <2> HIDE DEF D
  <2>2. IsFiniteSet(D \cup {b2}) /\ Cardinality(D \cup {b2}) <= Cardinality(D) + 1
    BY <2>1, FS_AddElement
  <2> QED
    BY <2>2 DEF D
<1>5. Cardinality(C) <= MaxContacts
  <2>1. Cardinality(C) \in Nat
    BY <1>4, FS_CardinalityType
  <2> QED
    BY <1>1, <1>2, <1>3, <1>4, <2>1
<1>6. Distinct(C)
  BY DEF Sound, Distinct
<1> QED
  BY <1>4, <1>5, <1>6 DEF Sound

-----------------------------------------------------------------------------
(* The steps.                                                              *)

\* Where a call may leave its task.
LEMMA WorkPlaces ==
  /\ Rest \in Work
  /\ \A cs \in Seq(Offers) : Drop(cs) \in Work /\ Remove(cs) \in Work
  /\ \A B, cs : Sound(B) /\ cs \in Seq(Offers) => Build(B, cs) \in Work
<1>1. \A B : Sound(B) => B \in SUBSET Binding
  BY DEF Sound
<1> QED
  BY <1>1 DEF Work, Drop, Remove, Build

\* What a task that is building, or removing, holds.
LEMMA WorkFields ==
  ASSUME NEW w \in Work
  PROVE  /\ w.do = "build" => Sound(w.next) /\ w.todo \in Seq(Offers)
         /\ w.do \in {"drop", "remove"} => w.todo \in Seq(Offers)
         /\ w.do = "remove" => w.todo # <<>>
BY DEF Work, Rest

\* The store starts without an entry and with every task at rest.
LEMMA InvInit == Init => Inv
<1> SUFFICES ASSUME Init PROVE Inv
  OBVIOUS
<1>1. task \in [Tasks -> Work]
  BY WorkPlaces DEF Init
<1> QED
  BY <1>1, SoundEmpty DEF Init, Inv

\* remove_contact, at the start of an unregistration or later in it.
LEMMA RemoveInv ==
  ASSUME Inv, NEW t \in Tasks, NEW cs \in Seq(Offers), cs # <<>>, RemoveFirst(t, cs)
  PROVE  Inv'
<1> DEFINE left == {b \in bound : b.uri # Head(cs).uri}
<1>1. Tail(cs) \in Seq(Offers)
  BY HeadTailProperties
<1>2. Sound(left)
  BY SoundSubset DEF Inv
<1>3. \E w \in Work : Become(t, w)
  BY <1>1, WorkPlaces DEF RemoveFirst
<1>4. task' \in [Tasks -> Work]
  BY <1>3 DEF Become, Inv
<1>5. /\ Holds(left) \/ UNCHANGED entry
      /\ UNCHANGED <<sweeping, removeExisting>>
  BY DEF RemoveFirst
<1> HIDE DEF left
<1> QED
  BY <1>2, <1>4, <1>5 DEF Holds, Inv, entry

\* The first step of a call.
LEMMA CallInv ==
  ASSUME Inv, NEW t \in Tasks, Call(t)
  PROVE  Inv'
<1>e. <<>> \in Seq(Offers)
  BY EmptySeq
<1>1. CASE \E c \in Offers : RegisterHit(t, c)
  <2>0. PICK c \in Offers : RegisterHit(t, c)
    BY <1>1
  <2>1. PICK B \in Updated(bound, c) : Holds(B)
    BY <2>0 DEF RegisterHit
  <2>2. Sound(B)
    BY <2>1, UpdatedSound DEF Inv
  <2> QED
    BY <1>1, <2>1, <2>2 DEF RegisterHit, Holds, Inv
<1>2. CASE \E c \in Offers : RegisterRefused(t, c)
  <2>1. PICK c \in Offers : Holds(Purged(Others(bound, c)))
    BY <1>2 DEF RegisterRefused
  <2>2. Sound(Purged(Others(bound, c)))
    <3>1. Purged(Others(bound, c)) \subseteq bound
      BY DEF Purged, Others
    <3> QED
      BY <3>1, SoundSubset DEF Inv
  <2> QED
    BY <1>2, <2>1, <2>2 DEF RegisterRefused, Holds, Inv
<1>3. CASE \E c \in Offers : RegisterMiss(t, c)
  <2>0. PICK c \in Offers : RegisterMiss(t, c)
    BY <1>3
  <2>1. PICK B \in Updated({}, c) : Become(t, Build(B, <<>>))
    BY <2>0 DEF RegisterMiss
  <2>2. Build(B, <<>>) \in Work
    BY <1>e, SoundEmpty, UpdatedSound, WorkPlaces
  <2> QED
    BY <1>3, <2>1, <2>2 DEF RegisterMiss, Become, Inv, entry
<1>4. CASE \E cs \in Lists : RegisterContacts(t, cs)
  <2>1. PICK cs \in Lists : Become(t, Build(bound, cs))
    BY <1>4 DEF RegisterContacts
  <2>2. Build(bound, cs) \in Work
    BY WorkPlaces, RegistryAssumption DEF Inv
  <2> QED
    BY <1>4, <2>1, <2>2 DEF RegisterContacts, Become, Inv, entry
<1>5. CASE \E cs \in Lists : Unregister(t, cs)
  BY <1>5, RemoveInv, RegistryAssumption DEF Unregister
<1>6. CASE UnregisterAll(t)
  BY <1>6, SoundEmpty DEF UnregisterAll, Gone, Inv
<1>7. CASE Refresh(t) \/ SetReachability(t)
  <2>0. PICK b \in bound : \E b2 : /\ Change(t, b, b2)
                                   /\ \/ b2 = [b EXCEPT !.live = TRUE]
                                      \/ \E r \in Reported : b2 = [b EXCEPT !.reach = r]
    BY <1>7 DEF Refresh, SetReachability
  <2>1. PICK b2 : /\ Change(t, b, b2)
                  /\ \/ b2 = [b EXCEPT !.live = TRUE]
                     \/ \E r \in Reported : b2 = [b EXCEPT !.reach = r]
    BY <2>0
  <2>2. b \in Binding
    BY DEF Inv, Sound
  <2>3. b2 \in Binding /\ b2.uri = b.uri /\ b2.flow = b.flow
    BY <2>1, <2>2, RegistryAssumption DEF Binding
  <2>4. Sound((bound \ {b}) \cup {b2})
    BY <2>3, ChangedSound DEF Inv
  <2> QED
    BY <2>1, <2>4 DEF Change, Holds, Inv
<1> QED
  BY <1>1, <1>2, <1>3, <1>4, <1>5, <1>6, <1>7 DEF Call

\* The later steps of a call.
LEMMA ContinueInv ==
  ASSUME Inv, NEW t \in Tasks, Continue(t)
  PROVE  Inv'
<1>w. task[t] \in Work
  BY DEF Inv
<1>1. CASE BuildNext(t)
  <2>1. /\ Sound(task[t].next) /\ task[t].todo \in Seq(Offers) /\ task[t].todo # <<>>
    BY <1>w, <1>1, WorkFields DEF BuildNext
  <2>2. Head(task[t].todo) \in Offers /\ Tail(task[t].todo) \in Seq(Offers)
    BY <2>1, HeadTailProperties
  <2>3. \E w \in Work : Become(t, w)
    <3>1. CASE \E B2 \in Updated(task[t].next, Head(task[t].todo)) :
                  Become(t, Build(B2, Tail(task[t].todo)))
      BY <3>1, <2>1, <2>2, UpdatedSound, WorkPlaces
    <3>2. CASE Become(t, Rest)
      BY <3>2, WorkPlaces
    <3> QED
      BY <1>1, <3>1, <3>2 DEF BuildNext
  <2> QED
    BY <1>1, <2>3 DEF BuildNext, Become, Inv, entry
<1>2. CASE Insert(t)
  <2>1. Sound(task[t].next)
    BY <1>w, <1>2, WorkFields DEF Insert
  <2> QED
    BY <1>2, <2>1, WorkPlaces DEF Insert, Holds, Become, Inv
<1>3. CASE UnregisterNext(t)
  <2>1. task[t].todo \in Seq(Offers) /\ task[t].todo # <<>>
    BY <1>w, <1>3, WorkFields DEF UnregisterNext
  <2> QED
    BY <1>3, <2>1, RemoveInv DEF UnregisterNext
<1>4. CASE DropEntry(t)
  <2>1. task[t].todo \in Seq(Offers)
    BY <1>w, <1>4, WorkFields DEF DropEntry
  <2>2. Remove(task[t].todo) \in Work
    BY <2>1, WorkPlaces
  <2> QED
    BY <1>4, <2>2, SoundEmpty DEF DropEntry, Gone, Become, Inv
<1> QED
  BY <1>1, <1>2, <1>3, <1>4 DEF Continue

\* A binding that lapses is still the one of its device.
LEMMA LapsedSound ==
  ASSUME NEW B, Sound(B), NEW b \in B
  PROVE  Sound(Lapsed(B, b))
<1>1. b \in Binding
  BY DEF Sound
<1>2. /\ [b EXCEPT !.live = FALSE] \in Binding /\ [b EXCEPT !.live = FALSE].uri = b.uri
      /\ [b EXCEPT !.live = FALSE].flow = b.flow
  BY <1>1 DEF Binding
<1> QED
  BY <1>2, ChangedSound DEF Lapsed

\* A binding lapses in the copy a task is building.
LEMMA CopyInv ==
  ASSUME Inv, NEW t \in Tasks, ExpireCopy(t)
  PROVE  Inv'
<1>1. task[t] \in Work
  BY DEF Inv
<1>2. Sound(task[t].next) /\ task[t].todo \in Seq(Offers)
  BY <1>1, WorkFields DEF ExpireCopy
<1>3. PICK b \in task[t].next : Become(t, Build(Lapsed(task[t].next, b), task[t].todo))
  BY DEF ExpireCopy
<1>4. Build(Lapsed(task[t].next, b), task[t].todo) \in Work
  BY <1>2, LapsedSound, WorkPlaces
<1> QED
  BY <1>3, <1>4 DEF ExpireCopy, Become, Inv, entry

\* Time in the entry, and the ticker's two steps.
LEMMA TickerInv ==
  ASSUME Inv, Expire \/ Sweep \/ SweepDrop
  PROVE  Inv'
<1>1. CASE Expire
  <2>1. PICK b \in bound : /\ Holds(Lapsed(bound, b))
                           /\ UNCHANGED <<task, sweeping, removeExisting>>
    BY <1>1 DEF Expire
  <2>2. Sound(Lapsed(bound, b))
    BY LapsedSound DEF Inv
  <2> QED
    BY <2>1, <2>2 DEF Holds, Inv
<1>2. CASE Sweep
  <2>1. Sound({b \in bound : Kept(b)})
    BY SoundSubset DEF Inv
  <2> QED
    BY <1>2, <2>1 DEF Sweep, Holds, Inv
<1>3. CASE SweepDrop
  BY <1>3, SoundEmpty DEF SweepDrop, Gone, Inv
<1> QED
  BY <1>1, <1>2, <1>3

\* Every step of a task, of time or of the ticker keeps the invariant.
LEMMA InvStep == Inv /\ [Next]_vars => Inv'
<1> SUFFICES ASSUME Inv, [Next]_vars PROVE Inv'
  OBVIOUS
<1>1. CASE UNCHANGED vars
  BY <1>1 DEF vars, Inv
<1> QED
  BY <1>1, CallInv, ContinueInv, CopyInv, TickerInv DEF Next

\* The registrations in the map and in the hands of tasks are always sound.
THEOREM InvTheorem == Spec => []Inv
BY InvInit, InvStep, PTL DEF Spec

-----------------------------------------------------------------------------
\* A device never has two bindings, whichever tasks register, clone, insert
\* late, refresh or expire at once (same_binding, update_contact).
THEOREM DeviceTheorem == Spec => []OneBindingPerDevice
<1>1. Inv => OneBindingPerDevice
  BY DEF Inv, Sound, Distinct, OneBindingPerDevice
<1> QED
  BY <1>1, InvTheorem, PTL

\* The store has its type; in particular no interleaving takes an address of
\* record past max_contacts_per_aor (apply_contact_limit).
THEOREM LimitTheorem == Spec => []TypeOK
<1>1. Inv => TypeOK
  BY DEF Inv, Sound, TypeOK, Work, Rest
<1> QED
  BY <1>1, InvTheorem, PTL

\* A refusal changes nothing: what the purge would take would have made room.
LEMMA RefusalStep ==
  ASSUME Inv, NEW t \in Tasks, NEW c \in Offers, RegisterRefused(t, c)
  PROVE  UNCHANGED entry
<1> DEFINE P == Purged(Others(bound, c))
<1>1. P \subseteq bound /\ Sound(bound)
  BY DEF Purged, Others, Inv
<1>2. Cardinality(P) \in Nat /\ MaxContacts \in Nat
  BY <1>1, SoundSubset, RegistryAssumption
<1>3. Cardinality(P) >= MaxContacts
  BY <1>2 DEF RegisterRefused, Full, HasRoom
<1>4. P = bound
  BY <1>1, <1>3, SoundSubset
<1> QED
  BY <1>4 DEF RegisterRefused, Holds, entry, Inv

\* A registration refused with MaxContactsExceeded takes no binding from the
\* address, although update_contact edits the entry before it knows.
THEOREM RefusalTheorem == Spec => RefusalHarmless
<1>1. Inv /\ [Next]_vars =>
        [(\E t \in Tasks, c \in Offers : RegisterRefused(t, c)) => UNCHANGED entry]_vars
  BY RefusalStep
<1> QED
  BY <1>1, InvTheorem, PTL DEF Spec, RefusalHarmless
=============================================================================
