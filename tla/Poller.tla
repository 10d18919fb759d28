--------------------------------- MODULE Poller ---------------------------------
(***************************************************************************)
(* The epoll wrapper of poller.rs: a slab of objects whose keys go into    *)
(* the events, with the keys of removed objects used again, the last freed *)
(* first; and the events of one epoll_wait(), handed out one by one while  *)
(* the slab changes between two of them.  Keys are counted from 1.         *)
(***************************************************************************)
EXTENDS Integers, Sequences, FiniteSets, SequencesExt

CONSTANTS Vacant,     \* a free entry of the slab
          MaxEvents   \* epoll_capacity

ASSUME PollerAssumption == MaxEvents \in Nat \ {0}

VARIABLES slab,           \* the object, or Vacant, at each key
          free,           \* the free keys, the next one to be used first
          pending_events  \* keys reported ready and not handed out yet

pollerVars == <<slab, free, pending_events>>

PollerInit(objects) ==
  /\ slab = objects
  /\ free = << >>
  /\ pending_events = << >>

Occupied == {key \in 1..Len(slab) : slab[key] # Vacant}

\* Mutant: the entry that is used stays in the free list.
PollerAdd_StillFree(obj) ==
  IF free = << >>
  THEN slab' = Append(slab, obj) /\ UNCHANGED free
  ELSE slab' = [slab EXCEPT ![Head(free)] = obj] /\ UNCHANGED free

\* The entry for a new object: the last freed, or one more.
PollerAdd(obj) ==
  IF free = << >>
  THEN slab' = Append(slab, obj) /\ UNCHANGED free
  ELSE slab' = [slab EXCEPT ![Head(free)] = obj] /\ free' = Tail(free)

\* Mutant: the entry leaves the slab, and is free too.
PollerRemove_Shrunk(key) ==
  /\ slab' = IF key = Len(slab) THEN Front(slab) ELSE [slab EXCEPT ![key] = Vacant]
  /\ free' = <<key>> \o free

PollerRemove(key) ==
  /\ slab' = [slab EXCEPT ![key] = Vacant]
  /\ free' = <<key>> \o free

\* Mutant: events are fetched while earlier ones are still pending.
EpollWait_Refill(ready) ==
  /\ Len(pending_events) <= MaxEvents
  /\ ready # {}
  /\ \E key \in ready : pending_events' = Append(pending_events, key)
  /\ UNCHANGED <<slab, free>>

\* epoll_wait() reports some of the ready objects, in any order.
EpollWait(ready) ==
  /\ pending_events = << >>
  /\ ready # {}
  /\ \E batch \in SUBSET ready :
       /\ Cardinality(batch) = (IF Cardinality(ready) < MaxEvents
                                THEN Cardinality(ready) ELSE MaxEvents)
       /\ pending_events' \in SetToSeqs(batch)
  /\ UNCHANGED <<slab, free>>

\* The key poll() returns: the events are popped from the back.
Event == Last(pending_events)

PopEvent == pending_events # << >> /\ pending_events' = Front(pending_events)

\* The key of the event is vacant by now: the slab panics.
Dangling == pending_events # << >> /\ slab[Event] = Vacant
=============================================================================
