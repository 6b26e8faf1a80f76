------------------------------- MODULE Registry -------------------------------
(***************************************************************************)
(* The registrar's binding store (registrar/registry.rs), for one address  *)
(* of record: the entry of `users' under that key, the tasks that serve    *)
(* REGISTER requests for it, and the expiry ticker of manager.rs.          *)
(*                                                                         *)
(* `users' is a concurrent map.  A call that finds the entry works on it   *)
(* under the entry's lock, in one step.  A call that misses builds a       *)
(* registration of its own and inserts it later; register_contacts always  *)
(* works on a clone; and the two calls that find an entry emptied let the  *)
(* lock go before they remove the key.  Those are the second steps below.  *)
(*                                                                         *)
(* A binding's URI, outbound flow (reg-id with instance-id) and q come     *)
(* with the request.  The order of the contacts vector is left out: every  *)
(* sort of it ends in the URI.  Of the expiry instant a binding keeps      *)
(* whether it has passed, so two bindings that differ by it alone are      *)
(* evicted in either order.                                                *)
(***************************************************************************)
EXTENDS Naturals, Sequences, FiniteSets

CONSTANTS Tasks,              \* the tasks that serve requests
          Bulk,               \* those that do so with register_contacts
          Offers,             \* the contacts the phones present
          Lists,              \* what register_contacts is called with
          Reported,           \* the reachability that is ever reported
          MaxContacts,        \* max_contacts_per_aor
          RemoveUnavailable   \* when full, purge the unreachable bindings

NoFlow  == "no-flow"
Reaches == {"reachable", "unknown", "unreachable"}

Offered == [uri : STRING, flow : STRING, q : Nat]

ASSUME RegistryAssumption ==
  /\ Offers \subseteq Offered
  /\ Bulk \subseteq Tasks
  /\ Lists \subseteq Seq(Offers)
  /\ Reported \subseteq Reaches
  /\ MaxContacts \in Nat
  /\ RemoveUnavailable \in BOOLEAN

VARIABLES present,   \* the map has an entry under the key
          bound,     \* the bindings in it, none without an entry
          task,      \* what each task has still to do
          sweeping,  \* the ticker found the entry empty and will remove it
          removeExisting  \* RegistryConfig, fixed at start: when full, evict
                          \* the least preferred binding

entry == <<present, bound>>
vars  == <<present, bound, task, sweeping, removeExisting>>

Binding == [uri : STRING, flow : STRING, q : Nat,
            reach : Reaches, live : BOOLEAN]

Rest         == [do |-> "rest"]
Build(B, cs) == [do |-> "build", next |-> B, todo |-> cs]
Drop(cs)     == [do |-> "drop", todo |-> cs]
Remove(cs)   == IF cs = <<>> THEN Rest ELSE [do |-> "remove", todo |-> cs]

Init == /\ present = FALSE /\ bound = {}
        /\ task = [t \in Tasks |-> Rest]
        /\ sweeping = FALSE
        /\ removeExisting \in BOOLEAN

-----------------------------------------------------------------------------
(* Adding a contact to a registration.                                     *)

\* Faulty variant: the flow alone identifies a binding.
SameFlowOnly(b, c) == c.flow # NoFlow /\ b.flow = c.flow

SameBinding(b, c) == \/ b.uri = c.uri
                     \/ c.flow # NoFlow /\ b.flow = c.flow

Fresh(c) == [uri |-> c.uri, flow |-> c.flow, q |-> c.q,
             reach |-> "unknown", live |-> TRUE]

Others(B, c) == {b \in B : ~SameBinding(b, c)}

HasRoom(B) == Cardinality(B) < MaxContacts

Purged(B) == IF HasRoom(B) \/ MaxContacts = 0 \/ ~RemoveUnavailable
             THEN B ELSE {b \in B : b.reach # "unreachable"}

ReachRank(b) == CASE b.reach = "reachable"   -> 2
                  [] b.reach = "unknown"     -> 1
                  [] b.reach = "unreachable" -> 0

Below(a, b) ==
  \/ ReachRank(a) < ReachRank(b)
  \/ /\ ReachRank(a) = ReachRank(b)
     /\ a.q < b.q \/ (a.q = b.q /\ ~a.live /\ b.live)

LeastPreferred(B) == {b \in B : \A a \in B : ~Below(a, b)}

\* What apply_contact_limit may leave of B when it finds or makes room.
Limited(B) ==
  IF MaxContacts = 0 THEN {}
  ELSE IF HasRoom(Purged(B)) THEN {Purged(B)}
  ELSE IF removeExisting
       THEN {Purged(B) \ {b} : b \in LeastPreferred(Purged(B))}
  ELSE {}

\* Faulty variant: the room is not counted again after the purge.
FullBeforePurge(B) == MaxContacts = 0 \/ (~HasRoom(B) /\ ~removeExisting)

Full(B) == MaxContacts = 0 \/ (~HasRoom(Purged(B)) /\ ~removeExisting)

\* What update_contact may make of the registration B.
Updated(B, c) == {B2 \cup {Fresh(c)} : B2 \in Limited(Others(B, c))}

-----------------------------------------------------------------------------
(* The calls.  Each starts in a task at rest.                              *)

Become(t, w) == task' = [task EXCEPT ![t] = w]
Holds(B)     == present' = TRUE /\ bound' = B
Gone         == present' = FALSE /\ bound' = {}

\* register_binding with an entry: it is updated where it stands.
RegisterHit(t, c) ==
  /\ task[t] = Rest /\ present
  /\ \E B \in Updated(bound, c) : Holds(B)
  /\ UNCHANGED <<task, sweeping, removeExisting>>

\* MaxContactsExceeded: the entry stays as update_contact left it.
RegisterRefused(t, c) ==
  /\ task[t] = Rest /\ present
  /\ Full(Others(bound, c))
  /\ Holds(Purged(Others(bound, c)))
  /\ UNCHANGED <<task, sweeping, removeExisting>>

\* register_binding without one: a new registration, inserted a step later.
RegisterMiss(t, c) ==
  /\ task[t] = Rest /\ ~present
  /\ \E B \in Updated({}, c) : Become(t, Build(B, <<>>))
  /\ UNCHANGED <<entry, sweeping, removeExisting>>

\* register_contacts clones what it finds, ...
RegisterContacts(t, cs) ==
  /\ t \in Bulk /\ task[t] = Rest
  /\ Become(t, Build(bound, cs))
  /\ UNCHANGED <<entry, sweeping, removeExisting>>

\* ... adds the contacts to its copy, giving up at the first refusal, ...
BuildNext(t) ==
  /\ task[t].do = "build" /\ task[t].todo # <<>>
  /\ LET B == task[t].next
         c == Head(task[t].todo)
     IN  \/ \E B2 \in Updated(B, c) :
              Become(t, Build(B2, Tail(task[t].todo)))
         \/ Full(Others(B, c)) /\ Become(t, Rest)
  /\ UNCHANGED <<entry, sweeping, removeExisting>>

\* ... and puts the copy in the map, whatever is there by now.
Insert(t) ==
  /\ task[t].do = "build" /\ task[t].todo = <<>>
  /\ Holds(task[t].next)
  /\ Become(t, Rest)
  /\ UNCHANGED <<sweeping, removeExisting>>

\* remove_contact of the first of cs, up to the moment it lets the entry's
\* lock go.  An unknown contact ends the call with those after it still bound.
RemoveFirst(t, cs) ==
  LET left == {b \in bound : b.uri # Head(cs).uri}
  IN  /\ \/ /\ left # bound /\ Holds(left)
            /\ Become(t, IF left = {} THEN Drop(Tail(cs)) ELSE Remove(Tail(cs)))
         \/ left = bound /\ Become(t, Rest) /\ UNCHANGED entry
      /\ UNCHANGED <<sweeping, removeExisting>>

\* A REGISTER with Expires 0: its contacts are removed one by one.
Unregister(t, cs)  == task[t] = Rest /\ cs # <<>> /\ RemoveFirst(t, cs)
UnregisterNext(t)  == task[t].do = "remove" /\ RemoveFirst(t, task[t].todo)

\* The key of a registration found empty is removed: a step later, and
\* without another look at it.
DropEntry(t) ==
  /\ task[t].do = "drop"
  /\ Gone
  /\ Become(t, Remove(task[t].todo))
  /\ UNCHANGED <<sweeping, removeExisting>>

\* unregister, which register_aor also calls for an identity found disabled.
UnregisterAll(t) ==
  /\ task[t] = Rest
  /\ Gone
  /\ UNCHANGED <<task, sweeping, removeExisting>>

\* refresh and set_reachability change a binding in place.
Change(t, b, b2) ==
  /\ task[t] = Rest
  /\ Holds((bound \ {b}) \cup {b2})
  /\ UNCHANGED <<task, sweeping, removeExisting>>

Refresh(t) == \E b \in bound : Change(t, b, [b EXCEPT !.live = TRUE])

SetReachability(t) ==
  \E b \in bound, r \in Reported : Change(t, b, [b EXCEPT !.reach = r])

-----------------------------------------------------------------------------
(* Time and the ticker.                                                    *)

Lapsed(B, b) == (B \ {b}) \cup {[b EXCEPT !.live = FALSE]}

Expire == \E b \in bound :
            /\ b.live
            /\ Holds(Lapsed(bound, b))
            /\ UNCHANGED <<task, sweeping, removeExisting>>

\* A binding also lapses in the copy a task is building.
ExpireCopy(t) ==
  /\ task[t].do = "build"
  /\ \E b \in task[t].next :
       b.live /\ Become(t, Build(Lapsed(task[t].next, b), task[t].todo))
  /\ UNCHANGED <<entry, sweeping, removeExisting>>

\* Faulty variant: only a binding known to be unreachable expires.
KeptUnlessUnreachable(b) == b.live \/ b.reach # "unreachable"

Kept(b) == b.live

\* Faulty variant: only an entry this sweep has emptied is removed.
SweepOwn ==
  /\ ~sweeping /\ present
  /\ Holds({b \in bound : Kept(b)})
  /\ sweeping' = (bound # {} /\ bound' = {})
  /\ UNCHANGED <<task, removeExisting>>

\* expire_registrations prunes the entry, ...
Sweep ==
  /\ ~sweeping /\ present
  /\ Holds({b \in bound : Kept(b)})
  /\ sweeping' = (bound' = {})
  /\ UNCHANGED <<task, removeExisting>>

\* ... and removes the key of one it emptied, after the lock is released.
SweepDrop ==
  /\ sweeping
  /\ Gone /\ sweeping' = FALSE
  /\ UNCHANGED <<task, removeExisting>>

Continue(t) == BuildNext(t) \/ Insert(t) \/ UnregisterNext(t) \/ DropEntry(t)

Call(t) == \/ \E c \in Offers : RegisterHit(t, c) \/ RegisterRefused(t, c)
                             \/ RegisterMiss(t, c)
           \/ \E cs \in Lists : RegisterContacts(t, cs) \/ Unregister(t, cs)
           \/ UnregisterAll(t) \/ Refresh(t) \/ SetReachability(t)

Next == \/ \E t \in Tasks : Call(t) \/ Continue(t) \/ ExpireCopy(t)
        \/ Expire \/ Sweep \/ SweepDrop

Spec == Init /\ [][Next]_vars

\* A task that began a call finishes it, and the ticker, started with the
\* service, keeps ticking.
Fairness == /\ \A t \in Tasks : WF_vars(Continue(t))
            /\ WF_vars(Sweep) /\ WF_vars(SweepDrop)

FairSpec == Spec /\ Fairness

-----------------------------------------------------------------------------
(* Properties.                                                             *)

TypeOK ==
  /\ present \in BOOLEAN /\ sweeping \in BOOLEAN /\ removeExisting \in BOOLEAN
  /\ bound \subseteq Binding /\ Cardinality(bound) <= MaxContacts
  /\ ~present => bound = {}
  /\ \A t \in Tasks :
       /\ task[t].do \in {"rest", "build", "remove", "drop"}
       /\ task[t].do = "build" => /\ task[t].next \subseteq Binding
                                 /\ Cardinality(task[t].next) <= MaxContacts

\* No address of record has two bindings for one URI or for one outbound
\* flow: a phone that registers again replaces its binding, through the
\* entry's lock, through a clone or through a late insert alike, so a call to
\* the user never rings one device twice (same_binding, update_contact).
OneBindingPerDevice ==
  \A a, b \in bound : a # b => /\ a.uri # b.uri
                               /\ a.flow # b.flow \/ a.flow = NoFlow

\* A registration refused because the address has its full number of
\* contacts takes nothing from it, although update_contact edits the entry
\* in place before it knows (apply_contact_limit purges, then refuses).
RefusalHarmless ==
  [][(\E t \in Tasks, c \in Offers : RegisterRefused(t, c))
       => UNCHANGED entry]_vars

\* An expired binding does not outstay the ticker: it is renewed or it goes,
\* even if a clone made before the sweep brings it back after
\* (expire_registrations, RegistrationManager::start).
ExpiredLeaves ==
  \A o \in Offers :
    (\E b \in bound : b.uri = o.uri /\ ~b.live)
      ~> ~(\E b \in bound : b.uri = o.uri /\ ~b.live)

\* An address with no binding left does not stay registered: the empty entry
\* is removed or filled (is_registered answers by the key alone).
EmptyEntryLeaves == (present /\ bound = {}) ~> ~(present /\ bound = {})

\* The second step of a call takes no live binding from the address that the
\* call was not about: the store is thread-safe and authoritative.  (It is
\* not so: a late insert replaces, and a late removal deletes, a
\* registration acknowledged in between.)
NoBindingLost ==
  [][(\E t \in Tasks : Insert(t) \/ DropEntry(t)) \/ SweepDrop
       => \A b \in bound : b.live => \E c \in bound' : SameBinding(b, c)]_vars
=============================================================================
