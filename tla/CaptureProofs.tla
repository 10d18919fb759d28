----------------------------- MODULE CaptureProofs -----------------------------
(***************************************************************************)
(* Proofs about Capture, for every set of clients and files, every size of *)
(* a batch of events, and any of the interleavings of the clients with the *)
(* thread: its invariant, and that it implements CaptureLoop.              *)
(***************************************************************************)
EXTENDS Capture, FiniteSetTheorems, FunctionTheorems, SequenceTheorems, TLAPS

\* An object is known by its type and its name, and is not a vacant entry.
LEMMA Objects ==
  /\ Listener \in Object
  /\ \A c \in Client : Connection(c) \in Object /\ Connection(c) # Listener
  /\ \A f \in File : ImageFile(f) \in Object /\ ImageFile(f) # Listener
  /\ \A c \in Client, f \in File : Connection(c) # ImageFile(f)
  /\ \A c, d \in Client : Connection(c) = Connection(d) => c = d
  /\ \A f, g \in File : ImageFile(f) = ImageFile(g) => f = g
  /\ \A obj \in Object :
       /\ obj # Vacant
       /\ obj.type = "listener" => obj = Listener
       /\ obj.type = "client" => obj.id \in Client /\ obj = Connection(obj.id)
       /\ obj.type = "file" => obj.id \in File /\ obj = ImageFile(obj.id)
<1>1. Listener \in Object /\ Listener.type = "listener"
  <2>1. Listener \in Object
    BY DEF Object
  <2>2. Listener.type = "listener"
    BY DEF Listener
  <2> QED BY <2>1, <2>2
<1>2. \A c \in Client : /\ Connection(c) \in Object /\ Connection(c).type = "client"
                       /\ Connection(c).id = c
  BY DEF Object, Connection
<1>3. \A f \in File : /\ ImageFile(f) \in Object /\ ImageFile(f).type = "file"
                     /\ ImageFile(f).id = f
  BY DEF Object, ImageFile
<1>4. \A obj \in Object :
        \/ obj = Listener
        \/ \E c \in Client : obj = Connection(c)
        \/ \E f \in File : obj = ImageFile(f)
  BY DEF Object
<1>5. Vacant \notin Object
  BY CaptureAssumption
<1>6. \A o \in Object :
        /\ o # Vacant
        /\ o.type = "listener" => o = Listener
        /\ o.type = "client" => o.id \in Client /\ o = Connection(o.id)
        /\ o.type = "file" => o.id \in File /\ o = ImageFile(o.id)
  <2> TAKE o \in Object
  <2>1. CASE o = Listener
    BY <2>1, <1>1, <1>5
  <2>2. ASSUME NEW c \in Client, o = Connection(c)
        PROVE  o # Vacant /\ o.type = "client" /\ o.id = c
    BY <2>2, <1>2, <1>5
  <2>3. ASSUME NEW f \in File, o = ImageFile(f)
        PROVE  o # Vacant /\ o.type = "file" /\ o.id = f
    BY <2>3, <1>3, <1>5
  <2> QED BY <2>1, <2>2, <2>3, <1>4
<1>7. /\ \A c \in Client : Connection(c) # Listener
      /\ \A f \in File : ImageFile(f) # Listener
      /\ \A c \in Client, f \in File : Connection(c) # ImageFile(f)
  <2>1. "client" # "listener" /\ "file" # "listener" /\ "client" # "file"
    OBVIOUS
  <2> QED BY <2>1, <1>1, <1>2, <1>3
<1>8. /\ \A c, d \in Client : Connection(c) = Connection(d) => c = d
      /\ \A f, g \in File : ImageFile(f) = ImageFile(g) => f = g
  BY <1>2, <1>3
<1> QED BY <1>1, <1>2, <1>3, <1>6, <1>7, <1>8

LEMMA Messages ==
  /\ StopListener \in Message
  /\ \A f \in File : ImageFile(f) \in Message /\ ImageFile(f) # StopListener
  /\ \A m \in Message :
       /\ m.type = "stop-listener" => m = StopListener
       /\ m.type = "file" => m.id \in File /\ m = ImageFile(m.id)
<1>1. StopListener \in Message /\ StopListener.type = "stop-listener"
  BY DEF Message, StopListener
<1>2. \A f \in File : /\ ImageFile(f) \in Message /\ ImageFile(f).type = "file"
                     /\ ImageFile(f).id = f
  BY DEF Message, ImageFile
<1>3. \A m \in Message : m = StopListener \/ \E f \in File : m = ImageFile(f)
  BY DEF Message
<1>4. "stop-listener" # "file"
  OBVIOUS
<1>5. \A f \in File : ImageFile(f) # StopListener
  BY <1>1, <1>2, <1>4
<1>6. \A m \in Message :
        /\ m.type = "stop-listener" => m = StopListener
        /\ m.type = "file" => m.id \in File /\ m = ImageFile(m.id)
  <2> TAKE m \in Message
  <2> QED BY <1>1, <1>2, <1>3, <1>4
<1> QED BY <1>1, <1>2, <1>5, <1>6

-----------------------------------------------------------------------------
\* The slab.

SlabTyped ==
  /\ slab \in Seq(Object \cup {Vacant})
  /\ free \in Seq(1..Len(slab))

LEMMA SlabStill ==
  ASSUME SlabTyped, SlabAccounted, UNCHANGED <<slab, free>>
  PROVE  SlabTyped' /\ SlabAccounted'
<1>1. SlabTyped' <=> SlabTyped
  BY ONLY slab' = slab, free' = free DEF SlabTyped
<1>2. SlabAccounted' <=> SlabAccounted
  BY ONLY slab' = slab, free' = free DEF SlabAccounted, Occupied
<1> QED BY <1>1, <1>2

\* A new object is held at a key that was vacant, the others where they were.
LEMMA AddHolds ==
  ASSUME SlabTyped, SlabAccounted, NEW obj \in Object, ~Holds(obj), PollerAdd(obj)
  PROVE  /\ SlabTyped'
         /\ SlabAccounted'
         /\ Len(slab)' >= Len(slab)
         /\ \A key \in 1..Len(slab) : slab[key] # Vacant => slab'[key] = slab[key]
         /\ \A o \in Object : Holds(o)' <=> Holds(o) \/ o = obj
<1> USE Objects
<1>0. Len(slab) \in Nat /\ Len(free) \in Nat
  BY DEF SlabTyped
<1>1. CASE free = << >>
  <2>1. slab' = Append(slab, obj) /\ free' = free
    BY <1>1 DEF PollerAdd
  <2>2. /\ Len(slab') = Len(slab) + 1
        /\ slab' \in Seq(Object \cup {Vacant})
        /\ slab'[Len(slab) + 1] = obj
        /\ \A key \in 1..Len(slab) : slab'[key] = slab[key]
    BY <1>0, <2>1 DEF SlabTyped
  <2>3. SlabTyped'
    BY <1>0, <1>1, <2>1, <2>2 DEF SlabTyped
  <2>4. \A key \in 1..Len(slab') : slab'[key] = Vacant <=> key \in 1..Len(slab) /\ slab[key] = Vacant
    BY <1>0, <2>2
  <2>5. {free'[i] : i \in 1..Len(free')} = {key \in 1..Len(slab') : slab'[key] = Vacant}
    BY <1>0, <2>1, <2>2, <2>4 DEF SlabAccounted
  <2>6. \A i, j \in Occupied' : slab'[i] = slab'[j] => i = j
    BY <1>0, <2>2 DEF SlabAccounted, Occupied, Holds
  <2>7. SlabAccounted'
    BY <2>1, <2>5, <2>6 DEF SlabAccounted
  <2>8. \A o \in Object : Holds(o)' <=> Holds(o) \/ o = obj
    BY <1>0, <2>2 DEF Holds
  <2> QED BY <1>0, <2>2, <2>3, <2>7, <2>8
<1>2. CASE free # << >>
  <2> DEFINE new == Head(free)
  <2>1. /\ slab' = [slab EXCEPT ![new] = obj] /\ free' = Tail(free)
        /\ Len(free) > 0 /\ new = free[1] /\ new \in 1..Len(slab)
    BY <1>2, <1>0 DEF PollerAdd, SlabTyped
  <2>1a. slab[new] = Vacant
    BY <1>0, <2>1 DEF SlabAccounted
  <2>2. /\ Len(slab') = Len(slab)
        /\ slab' \in Seq(Object \cup {Vacant})
        /\ slab'[new] = obj
        /\ \A key \in 1..Len(slab) : key # new => slab'[key] = slab[key]
    BY <1>0, <2>1 DEF SlabTyped
  <2>3. /\ Len(free') = Len(free) - 1
        /\ free' \in Seq(1..Len(slab))
        /\ \A i \in 1..Len(free') : free'[i] = free[i + 1]
    BY <1>0, <1>2, <2>1 DEF SlabTyped
  <2> HIDE DEF new
  <2>4. SlabTyped'
    BY <2>2, <2>3 DEF SlabTyped
  <2>5. ASSUME NEW key \in 1..Len(slab)
        PROVE  (\E i \in 1..Len(free') : free'[i] = key) <=> slab'[key] = Vacant
    <3>1. slab[key] = Vacant <=> \E i \in 1..Len(free) : free[i] = key
      BY DEF SlabAccounted
    <3>2. CASE key = new
      <4>1. \A i \in 1..Len(free') : free'[i] # new
        BY <1>0, <2>1, <2>3 DEF SlabAccounted
      <4> QED BY <3>2, <4>1, <2>2
    <3>3. CASE key # new
      <4>1. slab'[key] = slab[key]
        BY <3>3, <2>2
      <4>2. ASSUME NEW i \in 1..Len(free), free[i] = key
            PROVE  i - 1 \in 1..Len(free') /\ free'[i - 1] = key
        BY <4>2, <3>3, <1>0, <2>1, <2>3
      <4>3. ASSUME NEW i \in 1..Len(free'), free'[i] = key
            PROVE  i + 1 \in 1..Len(free) /\ free[i + 1] = key
        BY <4>3, <1>0, <2>3
      <4> QED BY <3>1, <4>1, <4>2, <4>3
    <3> QED BY <3>2, <3>3
  <2>6. {free'[i] : i \in 1..Len(free')} = {key \in 1..Len(slab') : slab'[key] = Vacant}
    <3>1. \A i \in 1..Len(free') : free'[i] \in 1..Len(slab)
      BY <2>3
    <3> QED BY <2>2, <2>5, <3>1
  <2>7. \A i, j \in 1..Len(free') : free'[i] = free'[j] => i = j
    <3> SUFFICES ASSUME NEW i \in 1..Len(free'), NEW j \in 1..Len(free'), free'[i] = free'[j]
                 PROVE  i = j
      OBVIOUS
    <3>1. i + 1 \in 1..Len(free) /\ j + 1 \in 1..Len(free) /\ free[i + 1] = free[j + 1]
      BY <1>0, <2>3
    <3>2. i + 1 = j + 1
      BY <3>1 DEF SlabAccounted
    <3> QED BY <3>2, <1>0, <2>3
  <2>8. \A i, j \in Occupied' : slab'[i] = slab'[j] => i = j
    BY <2>2 DEF SlabAccounted, Occupied, Holds
  <2>9. SlabAccounted'
    BY <2>6, <2>7, <2>8 DEF SlabAccounted
  <2>10. \A o \in Object : Holds(o)' <=> Holds(o) \/ o = obj
    BY <2>1, <2>1a, <2>2 DEF Holds
  <2> QED BY <1>0, <2>1a, <2>2, <2>4, <2>9, <2>10
<1> QED BY <1>1, <1>2

\* The object at a key goes, the others stay where they were.
LEMMA RemoveHolds ==
  ASSUME SlabTyped, SlabAccounted, NEW key \in 1..Len(slab), slab[key] # Vacant,
         PollerRemove(key)
  PROVE  /\ SlabTyped'
         /\ SlabAccounted'
         /\ Len(slab)' = Len(slab)
         /\ slab'[key] = Vacant
         /\ \A k \in 1..Len(slab) : k # key => slab'[k] = slab[k]
         /\ \A o \in Object : Holds(o)' <=> Holds(o) /\ o # slab[key]
<1> USE Objects
<1>0. Len(slab) \in Nat /\ Len(free) \in Nat
  BY DEF SlabTyped
<1>1. slab' = [slab EXCEPT ![key] = Vacant] /\ free' = <<key>> \o free
  BY DEF PollerRemove
<1>2. /\ Len(slab') = Len(slab)
      /\ slab' \in Seq(Object \cup {Vacant})
      /\ slab'[key] = Vacant
      /\ \A k \in 1..Len(slab) : k # key => slab'[k] = slab[k]
  BY <1>0, <1>1 DEF SlabTyped
<1>3. /\ Len(free') = Len(free) + 1
      /\ free' \in Seq(1..Len(slab))
      /\ free'[1] = key
      /\ \A i \in 1..Len(free) : free'[i + 1] = free[i]
      /\ \A i \in 1..Len(free') : i # 1 => i - 1 \in 1..Len(free) /\ free'[i] = free[i - 1]
  BY <1>0, <1>1 DEF SlabTyped
<1>4. SlabTyped'
  BY <1>2, <1>3 DEF SlabTyped
<1>4a. \A i \in 1..Len(free) : free[i] # key
  BY DEF SlabAccounted
<1>5. ASSUME NEW k \in 1..Len(slab)
      PROVE  (\E i \in 1..Len(free') : free'[i] = k) <=> slab'[k] = Vacant
  <2>1. slab[k] = Vacant <=> \E i \in 1..Len(free) : free[i] = k
    BY DEF SlabAccounted
  <2>2. CASE k = key
    BY <2>2, <1>0, <1>2, <1>3
  <2>3. CASE k # key
    <3>1. ASSUME NEW i \in 1..Len(free), free[i] = k
          PROVE  i + 1 \in 1..Len(free') /\ free'[i + 1] = k
      BY <3>1, <1>0, <1>3
    <3>2. ASSUME NEW i \in 1..Len(free'), free'[i] = k
          PROVE  i - 1 \in 1..Len(free) /\ free[i - 1] = k
      BY <3>2, <2>3, <1>3
    <3>3. slab'[k] = slab[k]
      BY <2>3, <1>2
    <3> QED BY <2>1, <3>1, <3>2, <3>3
  <2> QED BY <2>2, <2>3
<1>6. {free'[i] : i \in 1..Len(free')} = {k \in 1..Len(slab') : slab'[k] = Vacant}
  <2>1. \A i \in 1..Len(free') : free'[i] \in 1..Len(slab)
    BY <1>3
  <2> QED BY <1>2, <1>5, <2>1
<1>7. \A i, j \in 1..Len(free') : free'[i] = free'[j] => i = j
  <2> SUFFICES ASSUME NEW i \in 1..Len(free'), NEW j \in 1..Len(free'), free'[i] = free'[j]
               PROVE  i = j
    OBVIOUS
  <2>0. ASSUME NEW k \in 1..Len(free'), k # 1
        PROVE  free'[k] # key
    <3>1. k - 1 \in 1..Len(free) /\ free'[k] = free[k - 1]
      BY <2>0, <1>3
    <3> QED BY <3>1, <1>4a
  <2>1. ASSUME i = 1 \/ j = 1
        PROVE  i = 1 /\ j = 1
    <3>1. free'[i] = key /\ free'[j] = key
      BY <2>1, <1>3
    <3> QED BY <2>0, <3>1
  <2>2. CASE i # 1 /\ j # 1
    <3>1. /\ i - 1 \in 1..Len(free) /\ free'[i] = free[i - 1]
          /\ j - 1 \in 1..Len(free) /\ free'[j] = free[j - 1]
      BY <2>2, <1>3
    <3>2. i - 1 = j - 1
      BY <3>1 DEF SlabAccounted
    <3> QED BY <3>2
  <2> QED BY <2>1, <2>2
<1>8. \A i, j \in Occupied' : slab'[i] = slab'[j] => i = j
  BY <1>2 DEF SlabAccounted, Occupied
<1>9. SlabAccounted'
  BY <1>6, <1>7, <1>8 DEF SlabAccounted
<1>10. \A o \in Object : Holds(o)' <=> Holds(o) /\ o # slab[key]
  BY <1>2 DEF Holds, SlabAccounted, Occupied
<1> QED BY <1>2, <1>4, <1>9, <1>10

-----------------------------------------------------------------------------
\* The events.

\* The event handed out is of an entry of the slab, and of no later event.
LEMMA Popped ==
  ASSUME SlabTyped, pending_events \in Seq(1..Len(slab)), EventsDistinct, PopEvent
  PROVE  /\ Event \in 1..Len(slab)
         /\ pending_events' \in Seq(1..Len(slab))
         /\ pending_events # << >>
         /\ \E i \in 1..Len(pending_events) : Event = pending_events[i]
         /\ \A i \in 1..Len(pending_events') :
              /\ i \in 1..Len(pending_events)
              /\ pending_events'[i] = pending_events[i]
              /\ pending_events[i] # Event
         /\ EventsDistinct'
<1>1. Len(slab) \in Nat /\ Len(pending_events) \in Nat /\ Len(pending_events) > 0
  BY DEF SlabTyped, PopEvent
<1>2. /\ pending_events' = SubSeq(pending_events, 1, Len(pending_events) - 1)
      /\ Event = pending_events[Len(pending_events)]
      /\ pending_events # << >>
  BY DEF PopEvent, Event, Front, Last
<1>3. /\ pending_events' \in Seq(1..Len(slab))
      /\ Len(pending_events') = Len(pending_events) - 1
      /\ \A i \in 1..Len(pending_events') : pending_events'[i] = pending_events[i]
  <2> DEFINE n == Len(pending_events) - 1
             s == SubSeq(pending_events, 1, n)
  <2>1. n \in Int /\ n >= 0 /\ \A i \in 1..n : pending_events[i] \in 1..Len(slab)
    BY <1>1
  <2>2. /\ s \in Seq(1..Len(slab))
        /\ Len(s) = IF 1 <= n THEN n - 1 + 1 ELSE 0
        /\ \A i \in 1..(n - 1 + 1) : s[i] = pending_events[1 + i - 1]
    <3> HIDE DEF n
    <3> QED BY <2>1, SubSeqProperties
  <2>3. Len(s) = n /\ \A i \in 1..n : s[i] = pending_events[i]
    <3> HIDE DEF n, s
    <3> QED BY <2>1, <2>2
  <2>4. pending_events' = s
    BY <1>2
  <2> HIDE DEF s
  <2> QED BY <2>2, <2>3, <2>4
<1>4. Event \in 1..Len(slab)
  BY <1>1, <1>2
<1>5. \A i \in 1..Len(pending_events') : i \in 1..Len(pending_events) /\ i # Len(pending_events)
  BY <1>1, <1>3
<1>6. \A i \in 1..Len(pending_events') : pending_events[i] # Event
  BY <1>1, <1>2, <1>5 DEF EventsDistinct
<1>7. EventsDistinct'
  BY <1>3, <1>5 DEF EventsDistinct
<1>8. \E i \in 1..Len(pending_events) : Event = pending_events[i]
  <2>1. Len(pending_events) \in 1..Len(pending_events)
    BY <1>1
  <2> QED BY <1>2, <2>1
<1>9. \A i \in 1..Len(pending_events') :
        /\ i \in 1..Len(pending_events)
        /\ pending_events'[i] = pending_events[i]
        /\ pending_events[i] # Event
  BY <1>3, <1>5, <1>6
<1> QED BY <1>2, <1>3, <1>4, <1>7, <1>8, <1>9

\* An event stays fresh as long as its object stays where it is and ready.
LEMMA FreshKept ==
  ASSUME EventsFresh, early' = early,
         slab \in Seq(Object \cup {Vacant}), pending_events \in Seq(1..Len(slab)),
         \A i \in 1..Len(pending_events') :
           /\ i \in 1..Len(pending_events)
           /\ pending_events'[i] = pending_events[i]
           /\ slab'[pending_events[i]] = slab[pending_events[i]],
         ASSUME NEW i \in 1..Len(pending_events'), NEW obj \in Object, ~early,
                obj = slab[pending_events[i]], Ready(obj)
         PROVE  Ready(obj)'
  PROVE  EventsFresh'
<1> SUFFICES ASSUME ~early, NEW i \in 1..Len(pending_events')
             PROVE  /\ slab'[pending_events'[i]] # Vacant
                    /\ Ready(slab[pending_events[i]])'
  BY DEF EventsFresh, Ready, FileReady, Fionread
<1>1. i \in 1..Len(pending_events) /\ pending_events[i] \in 1..Len(slab)
  OBVIOUS
<1>2. slab[pending_events[i]] # Vacant /\ Ready(slab[pending_events[i]])
  BY <1>1 DEF EventsFresh
<1>3. PICK obj \in Object : obj = slab[pending_events[i]]
  BY <1>1, <1>2
<1>4. Ready(obj)'
  BY <1>2, <1>3
<1>5. slab'[pending_events'[i]] = obj
  BY <1>3
<1> QED BY <1>4, <1>5, Objects DEF Ready, FileReady, Fionread

-----------------------------------------------------------------------------
\* The connections.

LEMMA Received ==
  ASSUME inbox \in [Client -> Seq(Message)], MessagesOnce,
         NEW c \in Client, inbox[c] # << >>,
         inbox' = [inbox EXCEPT ![c] = Tail(@)]
  PROVE  /\ inbox' \in [Client -> Seq(Message)]
         /\ MessagesOnce'
         /\ Head(inbox[c]) \in Message
         /\ 1 \in 1..Len(inbox[c]) /\ Head(inbox[c]) = inbox[c][1]
         /\ \A d \in Client : d # c => inbox'[d] = inbox[d]
         /\ \A d \in Client : \A i \in 1..Len(inbox'[d]) :
              /\ \E j \in 1..Len(inbox[d]) : inbox'[d][i] = inbox[d][j]
              /\ inbox'[d][i] # Head(inbox[c])
<1>1. \A d \in Client : inbox[d] \in Seq(Message) /\ Len(inbox[d]) \in Nat
  OBVIOUS
<1>2. /\ inbox'[c] = Tail(inbox[c])
      /\ \A d \in Client : d # c => inbox'[d] = inbox[d]
      /\ inbox' \in [Client -> Seq(Message)]
      /\ 1 \in 1..Len(inbox[c]) /\ Head(inbox[c]) = inbox[c][1]
      /\ Head(inbox[c]) \in Message
  BY <1>1
<1>3. /\ Len(inbox'[c]) = Len(inbox[c]) - 1
      /\ \A i \in 1..Len(inbox'[c]) : i + 1 \in 1..Len(inbox[c]) /\ inbox'[c][i] = inbox[c][i + 1]
  BY <1>1, <1>2
<1>4. \A d \in Client : \A i \in 1..Len(inbox'[d]) :
        LET k == IF d = c THEN i + 1 ELSE i
        IN  k \in 1..Len(inbox[d]) /\ inbox'[d][i] = inbox[d][k]
  BY <1>1, <1>2, <1>3
<1>5. MessagesOnce'
  <2> SUFFICES ASSUME NEW d \in Client, NEW e \in Client,
                      NEW i \in 1..Len(inbox'[d]), NEW j \in 1..Len(inbox'[e]),
                      inbox'[d][i] = inbox'[e][j]
               PROVE  d = e /\ i = j
    BY DEF MessagesOnce
  <2> DEFINE k == IF d = c THEN i + 1 ELSE i
             l == IF e = c THEN j + 1 ELSE j
  <2>1. k \in 1..Len(inbox[d]) /\ l \in 1..Len(inbox[e]) /\ inbox[d][k] = inbox[e][l]
    BY <1>4
  <2>2. d = e /\ k = l
    BY <2>1 DEF MessagesOnce
  <2>3. i \in Int /\ j \in Int
    BY <1>2, <1>1
  <2> QED BY <2>2, <2>3
<1>6. ASSUME NEW d \in Client, NEW i \in 1..Len(inbox'[d])
      PROVE  /\ \E j \in 1..Len(inbox[d]) : inbox'[d][i] = inbox[d][j]
             /\ inbox'[d][i] # Head(inbox[c])
  <2> DEFINE k == IF d = c THEN i + 1 ELSE i
  <2>1. k \in 1..Len(inbox[d]) /\ inbox'[d][i] = inbox[d][k]
    BY <1>4
  <2>2. d # c \/ k # 1
    BY <1>1, <1>2
  <2>3. inbox[d][k] # inbox[c][1]
    BY <1>2, <2>1, <2>2 DEF MessagesOnce
  <2> QED BY <1>2, <2>1, <2>3
<1> QED BY <1>2, <1>5, <1>6

-----------------------------------------------------------------------------
\* The steps of the clients: nothing of the poller changes.

LEMMA PollerStill ==
  ASSUME Inv, UNCHANGED <<pollerVars, early>>
  PROVE  /\ SlabTyped /\ SlabTyped'
         /\ SlabAccounted'
         /\ pending_events' \in Seq(1..Len(slab'))
         /\ early' \in BOOLEAN
         /\ EventsDistinct'
         /\ \A obj \in Object : Holds(obj)' <=> Holds(obj)
         /\ ListenerUp' <=> ListenerUp
BY DEF Inv, SlabTyped, KeysAccounted, SlabAccounted, Occupied, EventsDistinct, Holds,
       ListenerUp, pollerVars

\* When no object stops being ready, every event stays fresh.
LEMMA FreshStill ==
  ASSUME Inv, UNCHANGED <<pollerVars, early>>,
         ASSUME NEW obj \in Object, ~early, Ready(obj)
         PROVE  Ready(obj)'
  PROVE  EventsFresh'
BY FreshKept DEF Inv, pollerVars

LEMMA SlabIs ==
  ASSUME Inv
  PROVE  SlabTyped /\ SlabAccounted /\ pending_events \in Seq(1..Len(slab))
BY DEF Inv, SlabTyped, KeysAccounted

LEMMA ConnectInv ==
  ASSUME Inv, NEW c \in Client, Connect(c)
  PROVE  Inv'
<1>1. /\ ListenerUp /\ client[c] = "idle" /\ (early \/ ~StopAsked)
      /\ client' = [client EXCEPT ![c] = "open"]
      /\ backlog' = Append(backlog, c)
      /\ UNCHANGED <<pipeVars, serializerVars, pollerVars, inbox, sideVars>>
  BY DEF Connect
<1>2. UNCHANGED <<writer, file_state, produced, drained, slab, free, pending_events, inbox, early>>
      /\ UNCHANGED <<pollerVars, early>>
  BY <1>1 DEF serializerVars, pollerVars, sideVars
<1>3. /\ client \in [Client -> {"idle", "open", "closed"}]
      /\ backlog \in Seq(Client) /\ Len(backlog) \in Nat
  BY DEF Inv
<1>4. /\ client' \in [Client -> {"idle", "open", "closed"}]
      /\ client'[c] = "open"
      /\ \A d \in Client : d # c => client'[d] = client[d]
  BY <1>1, <1>3
<1>5. /\ backlog' \in Seq(Client)
      /\ backlog' # << >>
      /\ \A i \in 1..Len(backlog') :
           \/ i \in 1..Len(backlog) /\ backlog'[i] = backlog[i]
           \/ i = Len(backlog) + 1 /\ backlog'[i] = c
  BY <1>1, <1>3
<1>6. /\ ~Holds(Connection(c))
      /\ \A i \in 1..Len(backlog) : backlog[i] # c
  BY <1>1 DEF Inv, BacklogApart, Waiting
<1>7. StopAsked' <=> StopAsked
  BY <1>2 DEF StopAsked
<1>8. KeysAccounted'
  BY <1>2, PollerStill, Objects DEF KeysAccounted, Inv
<1>9. BacklogApart'
  <2>1. \A d \in Client : Holds(Connection(d))' <=> Holds(Connection(d))
    BY <1>2, PollerStill, Objects
  <2>2. \A i, j \in 1..Len(backlog') : backlog'[i] = backlog'[j] => i = j
    BY <1>5, <1>6 DEF Inv, BacklogApart
  <2>4. ASSUME NEW d \in Client, Waiting(d)'
        PROVE  client'[d] # "idle" /\ ~Holds(Connection(d))'
    <3>1. d = c \/ Waiting(d)
      BY <2>4, <1>5 DEF Waiting
    <3>2. d # c => client'[d] # "idle" /\ ~Holds(Connection(d))
      BY <3>1, <1>4 DEF Inv, BacklogApart
    <3> QED BY <3>2, <2>1, <1>4, <1>6
  <2>5. \A d \in Client : Holds(Connection(d))' => client'[d] # "idle"
    BY <2>1, <1>4 DEF Inv, BacklogApart
  <2> QED BY <2>2, <2>4, <2>5 DEF BacklogApart
<1>10. MessagesOnce' /\ FilesOnce' /\ ListenerKept' /\ StopOrderly' /\ EofMeansClosedOrderly'
  <2>1. MessagesOnce'
    BY <1>2 DEF Inv, MessagesOnce
  <2>2. FilesOnce'
    BY <1>2 DEF Inv, FilesOnce
  <2>3. ListenerKept'
    BY <1>2, <1>7, PollerStill, Objects DEF Inv, ListenerKept
  <2>4. StopOrderly'
    BY <1>1, <1>2, <1>7 DEF Inv, StopOrderly
  <2>5. EofMeansClosedOrderly'
    BY <1>2 DEF Inv, EofMeansClosedOrderly, EofMeansClosed
  <2> QED BY <2>1, <2>2, <2>3, <2>4, <2>5
<1>11. EventsFresh'
  <2>1. ASSUME NEW obj \in Object, ~early, Ready(obj)
        PROVE  Ready(obj)'
    <3>1. obj.type = "client" /\ client[obj.id] = "closed" => client'[obj.id] = "closed"
      BY <1>1, <1>4, Objects
    <3> QED BY <2>1, <3>1, <1>2, <1>5 DEF Ready, FileReady, Fionread
  <2> QED BY <2>1, <1>2, FreshStill
<1> QED BY <1>2, <1>4, <1>5, <1>8, <1>9, <1>10, <1>11, PollerStill DEF Inv, SlabTyped

LEMMA DisconnectInv ==
  ASSUME Inv, NEW c \in Client, Disconnect(c)
  PROVE  Inv'
<1>1. /\ client[c] = "open"
      /\ client' = [client EXCEPT ![c] = "closed"]
      /\ UNCHANGED <<pipeVars, serializerVars, pollerVars, backlog, inbox, sideVars>>
  BY DEF Disconnect
<1>2. UNCHANGED <<writer, file_state, produced, drained, slab, free, pending_events, backlog, inbox,
                  early>>
      /\ UNCHANGED <<pollerVars, early>>
  BY <1>1 DEF serializerVars, pollerVars, sideVars
<1>3. /\ client' \in [Client -> {"idle", "open", "closed"}]
      /\ client'[c] = "closed"
      /\ \A d \in Client : d # c => client'[d] = client[d]
  BY <1>1 DEF Inv
<1>4. \A d \in Client : client'[d] = "idle" => client[d] = "idle"
  BY <1>3
<1>5. KeysAccounted' /\ BacklogApart'
  <2>1. \A d \in Client : Holds(Connection(d))' <=> Holds(Connection(d))
    BY <1>2, PollerStill, Objects
  <2>2. \A d \in Client : Waiting(d)' <=> Waiting(d)
    BY <1>2 DEF Waiting
  <2>3. BacklogApart'
    BY <1>2, <1>4, <2>1, <2>2 DEF Inv, BacklogApart
  <2>4. KeysAccounted'
    BY <1>2, PollerStill, Objects DEF KeysAccounted, Inv
  <2> QED BY <2>3, <2>4
<1>6. MessagesOnce' /\ FilesOnce' /\ ListenerKept' /\ StopOrderly' /\ EofMeansClosedOrderly'
  <2>1. MessagesOnce'
    BY <1>2 DEF Inv, MessagesOnce
  <2>2. FilesOnce'
    BY <1>2 DEF Inv, FilesOnce
  <2>3. StopAsked' <=> StopAsked
    BY <1>2 DEF StopAsked
  <2>4. ListenerKept'
    BY <1>2, <2>3, PollerStill, Objects DEF Inv, ListenerKept
  <2>5. StopOrderly'
    BY <1>2, <2>3 DEF Inv, StopOrderly
  <2>6. EofMeansClosedOrderly'
    BY <1>2 DEF Inv, EofMeansClosedOrderly, EofMeansClosed
  <2> QED BY <2>1, <2>2, <2>4, <2>5, <2>6
<1>7. EventsFresh'
  <2>1. ASSUME NEW obj \in Object, ~early, Ready(obj)
        PROVE  Ready(obj)'
    <3>1. obj.type = "client" /\ client[obj.id] = "closed" => client'[obj.id] = "closed"
      BY <1>1, <1>3, Objects
    <3> QED BY <2>1, <3>1, <1>2 DEF Ready, FileReady, Fionread
  <2> QED BY <2>1, <1>2, FreshStill
<1> QED BY <1>2, <1>3, <1>5, <1>6, <1>7, PollerStill DEF Inv, SlabTyped

\* What is sent over a connection changes nothing of the poller either.
LEMMA SendInv ==
  ASSUME Inv, NEW c \in Client, NEW m \in Message,
         inbox' = [inbox EXCEPT ![c] = Append(@, m)],
         UNCHANGED <<pollerVars, early, client, backlog, file_state, produced, drained>>,
         \A d \in Client : \A i \in 1..Len(inbox[d]) : inbox[d][i] # m,
         writer' \in [File -> {"none", "open", "closed"}],
         \A f \in File : writer[f] # "none" => writer'[f] = writer[f],
         m = StopListener => ListenerUp /\ (early \/ backlog = << >>),
         \A f \in File : m = ImageFile(f) => file_state[f] = "absent" /\ writer'[f] # "none"
  PROVE  Inv'
<1>1. /\ inbox \in [Client -> Seq(Message)] /\ MessagesOnce
      /\ FilesOnce /\ KeysAccounted /\ ListenerKept /\ BacklogApart /\ StopOrderly
      /\ writer \in [File -> {"none", "open", "closed"}]
  BY DEF Inv
<1>2. /\ inbox' \in [Client -> Seq(Message)]
      /\ MessagesOnce'
      /\ \A d \in Client : inbox[d] # << >> => inbox'[d] # << >>
      /\ \A d \in Client : \A i \in 1..Len(inbox'[d]) :
           inbox'[d][i] = m \/ \E j \in 1..Len(inbox[d]) : inbox[d][j] = inbox'[d][i]
  <2>1. \A d \in Client : inbox[d] \in Seq(Message) /\ Len(inbox[d]) \in Nat
    BY <1>1
  <2>2. /\ inbox'[c] = Append(inbox[c], m)
        /\ \A d \in Client : d # c => inbox'[d] = inbox[d]
        /\ inbox' \in [Client -> Seq(Message)]
    BY <1>1, <2>1
  <2>3. /\ Len(inbox'[c]) = Len(inbox[c]) + 1
        /\ inbox'[c][Len(inbox[c]) + 1] = m
        /\ \A i \in 1..Len(inbox[c]) : inbox'[c][i] = inbox[c][i]
    BY <2>1, <2>2
  <2>4. \A d \in Client : \A i \in 1..Len(inbox'[d]) :
          \/ d = c /\ i = Len(inbox[c]) + 1 /\ inbox'[d][i] = m
          \/ i \in 1..Len(inbox[d]) /\ inbox'[d][i] = inbox[d][i]
    BY <2>1, <2>2, <2>3
  <2>5. MessagesOnce'
    BY <1>1, <2>4 DEF MessagesOnce
  <2>6. \A d \in Client : inbox[d] # << >> => inbox'[d] # << >>
    BY <2>1, <2>2
  <2> QED BY <2>2, <2>4, <2>5, <2>6
<1>3. StopAsked' => StopAsked \/ m = StopListener
  <2>1. ASSUME NEW d \in Client, NEW i \in 1..Len(inbox'[d]), inbox'[d][i] = StopListener
        PROVE  StopAsked \/ m = StopListener
    <3>1. CASE inbox'[d][i] = m
      BY <2>1, <3>1
    <3>2. ASSUME NEW j \in 1..Len(inbox[d]), inbox[d][j] = inbox'[d][i]
          PROVE  StopAsked
      BY <2>1, <3>2 DEF StopAsked
    <3> QED BY <3>1, <3>2, <1>2
  <2> QED BY <2>1 DEF StopAsked, StopListener
<1>4. KeysAccounted' /\ BacklogApart'
  <2>1. \A d \in Client : Holds(Connection(d))' <=> Holds(Connection(d))
    BY PollerStill, Objects
  <2>2. \A d \in Client : Waiting(d)' <=> Waiting(d)
    BY DEF Waiting
  <2>3. BacklogApart'
    BY <1>1, <2>1, <2>2 DEF BacklogApart
  <2>4. KeysAccounted'
    BY <1>1, PollerStill, Objects DEF KeysAccounted
  <2> QED BY <2>3, <2>4
<1>5. FilesOnce'
  <2>1. ASSUME NEW d \in Client, NEW i \in 1..Len(inbox'[d]), NEW f \in File,
               inbox'[d][i] = ImageFile(f)
        PROVE  file_state'[f] = "absent" /\ writer'[f] # "none"
    <3>1. CASE inbox'[d][i] = m
      BY <2>1, <3>1
    <3>2. ASSUME NEW j \in 1..Len(inbox[d]), inbox[d][j] = inbox'[d][i]
          PROVE  file_state[f] = "absent" /\ writer[f] # "none"
      BY <2>1, <3>2, <1>1 DEF FilesOnce
    <3> QED BY <3>1, <3>2, <1>2
  <2>2. \A f \in File : writer'[f] = "none" => file_state'[f] = "absent"
    BY <1>1 DEF FilesOnce
  <2>3. FilesOnce'
    BY <2>1, <2>2 DEF FilesOnce, ImageFile
  <2> QED BY <2>3
<1>6. ListenerKept' /\ StopOrderly'
  <2>1. ListenerKept'
    BY <1>1, <1>3, PollerStill, Objects DEF ListenerKept
  <2>2. StopOrderly'
    BY <1>1, <1>3 DEF StopOrderly
  <2> QED BY <2>1, <2>2
<1>7. EofMeansClosedOrderly'
  <2>1. \A f \in File : writer[f] = "closed" => writer'[f] = "closed"
    BY <1>1
  <2> QED BY <2>1 DEF Inv, EofMeansClosedOrderly, EofMeansClosed
<1>8. EventsFresh'
  <2>1. ASSUME NEW obj \in Object, ~early, Ready(obj)
        PROVE  Ready(obj)'
    <3>1. obj.type = "client" /\ inbox[obj.id] # << >> => inbox'[obj.id] # << >>
      BY <1>2, Objects
    <3>2. obj.type = "file" /\ writer[obj.id] = "closed" => writer'[obj.id] = "closed"
      BY <1>1, Objects
    <3> QED BY <2>1, <3>1, <3>2 DEF Ready, FileReady, Fionread
  <2> QED BY <2>1, FreshStill
<1> QED BY <1>2, <1>4, <1>5, <1>6, <1>7, <1>8, PollerStill DEF Inv, SlabTyped

LEMMA RequestInv ==
  ASSUME Inv, NEW c \in Client, NEW f \in File, Request(c, f)
  PROVE  Inv'
<1>1. /\ writer[f] = "none"
      /\ inbox' = [inbox EXCEPT ![c] = Append(@, ImageFile(f))]
      /\ writer' = [writer EXCEPT ![f] = "open"]
      /\ UNCHANGED <<file_state, produced, drained, pollerVars, client, backlog, early>>
  BY DEF Request, Send, sideVars
<1>2. writer \in [File -> {"none", "open", "closed"}]
  BY DEF Inv
<1>3. /\ writer' \in [File -> {"none", "open", "closed"}]
      /\ writer'[f] = "open"
      /\ \A g \in File : writer[g] # "none" => writer'[g] = writer[g]
  BY <1>1, <1>2
<1>4. \A d \in Client : \A i \in 1..Len(inbox[d]) : inbox[d][i] # ImageFile(f)
  BY <1>1 DEF Inv, FilesOnce
<1>5. \A g \in File : ImageFile(f) = ImageFile(g) => file_state[g] = "absent" /\ writer'[g] # "none"
  BY <1>1, <1>3, Objects DEF Inv, FilesOnce
<1>6. ImageFile(f) \in Message /\ ImageFile(f) # StopListener
  BY Messages
<1> HIDE DEF ImageFile
<1> QED BY <1>1, <1>3, <1>4, <1>5, <1>6, SendInv

LEMMA AskToStopInv ==
  ASSUME Inv, NEW c \in Client, AskToStop(c)
  PROVE  Inv'
<1>1. /\ ListenerUp /\ ~StopAsked /\ (early \/ backlog = << >>)
      /\ inbox' = [inbox EXCEPT ![c] = Append(@, StopListener)]
      /\ UNCHANGED <<serializerVars, pollerVars, client, backlog, sideVars>>
  BY DEF AskToStop, Send
<1>2. UNCHANGED <<writer, file_state, produced, drained, pollerVars, client, backlog, early>>
  BY <1>1 DEF serializerVars, sideVars
<1>3. \A d \in Client : \A i \in 1..Len(inbox[d]) : inbox[d][i] # StopListener
  BY <1>1 DEF StopAsked
<1>4. \A f \in File : StopListener # ImageFile(f)
  BY Messages
<1>5. writer' \in [File -> {"none", "open", "closed"}]
  BY <1>2 DEF Inv
<1> QED BY <1>1, <1>2, <1>3, <1>4, <1>5, Messages, SendInv

LEMMA FileClientInv ==
  ASSUME Inv, NEW f \in File, FileClient(f)
  PROVE  Inv'
<1>1. /\ writer[f] = "open"
      /\ \/ /\ produced' = [produced EXCEPT ![f] = @ + 1]
            /\ UNCHANGED writer
         \/ /\ writer' = [writer EXCEPT ![f] = "closed"]
            /\ UNCHANGED produced
      /\ UNCHANGED <<file_state, drained, pollerVars, client, backlog, inbox, early>>
  BY DEF FileClient, ClientWrite, ClientClose, sideVars
<1>2. UNCHANGED <<slab, free, pending_events>>
  BY <1>1 DEF pollerVars
<1>3. /\ writer \in [File -> {"none", "open", "closed"}]
      /\ produced \in [File -> Nat] /\ drained \in [File -> Nat]
  BY DEF Inv
<1>4. /\ writer' \in [File -> {"none", "open", "closed"}]
      /\ produced' \in [File -> Nat]
      /\ \A g \in File : writer[g] = "closed" => writer'[g] = "closed" /\ produced'[g] = produced[g]
      /\ \A g \in File : writer[g] = "none" <=> writer'[g] = "none"
      /\ \A g \in File : produced'[g] >= produced[g]
  BY <1>1, <1>3
<1>5. StopAsked' <=> StopAsked
  BY <1>1 DEF StopAsked
<1>6. KeysAccounted' /\ BacklogApart'
  <2>1. \A d \in Client : Holds(Connection(d))' <=> Holds(Connection(d))
    BY <1>1, PollerStill, Objects
  <2>2. \A d \in Client : Waiting(d)' <=> Waiting(d)
    BY <1>1 DEF Waiting
  <2>3. BacklogApart'
    BY <1>1, <2>1, <2>2 DEF Inv, BacklogApart
  <2>4. KeysAccounted'
    BY <1>1, PollerStill, Objects DEF Inv, KeysAccounted
  <2> QED BY <2>3, <2>4
<1>7. MessagesOnce' /\ FilesOnce' /\ ListenerKept' /\ StopOrderly' /\ EofMeansClosedOrderly'
  <2>1. MessagesOnce'
    BY <1>1 DEF Inv, MessagesOnce
  <2>2. FilesOnce'
    BY <1>1, <1>4 DEF Inv, FilesOnce
  <2>3. ListenerKept'
    BY <1>1, <1>5, PollerStill, Objects DEF Inv, ListenerKept
  <2>4. StopOrderly'
    BY <1>1, <1>5 DEF Inv, StopOrderly
  <2>5. EofMeansClosedOrderly'
    BY <1>1, <1>4 DEF Inv, EofMeansClosedOrderly, EofMeansClosed
  <2> QED BY <2>1, <2>2, <2>3, <2>4, <2>5
<1>8. EventsFresh'
  <2>1. ASSUME NEW obj \in Object, ~early, Ready(obj)
        PROVE  Ready(obj)'
    <3>1. CASE obj.type = "file"
      <4>1. obj.id \in File /\ FileReady(obj.id)
        BY <2>1, <3>1, Objects DEF Ready
      <4>2. FileReady(obj.id)'
        BY <4>1, <1>1, <1>3, <1>4 DEF FileReady, Fionread
      <4> QED BY <3>1, <4>2 DEF Ready
    <3>2. CASE obj.type # "file"
      BY <2>1, <3>2, <1>1 DEF Ready
    <3> QED BY <3>1, <3>2
  <2> QED BY <2>1, <1>1, FreshStill
<1> QED BY <1>1, <1>2, <1>4, <1>6, <1>7, <1>8, PollerStill DEF Inv, SlabTyped

\* Steps that change nothing of what the invariant is about.
LEMMA StillInv ==
  ASSUME Inv,
         UNCHANGED <<writer, file_state, produced, drained, slab, free, pending_events,
                     client, backlog, inbox, early>>
  PROVE  Inv'
<1>1. KeysAccounted' /\ MessagesOnce' /\ FilesOnce' /\ EventsDistinct'
  BY DEF Inv, KeysAccounted, SlabAccounted, Occupied, Holds, MessagesOnce, FilesOnce, EventsDistinct
<1>2. ListenerKept' /\ StopOrderly' /\ BacklogApart'
  BY DEF Inv, ListenerKept, StopOrderly, StopAsked, ListenerUp, Holds, BacklogApart, Waiting
<1>3. EofMeansClosedOrderly'
  BY DEF Inv, EofMeansClosedOrderly, EofMeansClosed
<1>4. EventsFresh'
  <2>1. UNCHANGED <<pollerVars, early>>
    BY DEF pollerVars
  <2>2. ASSUME NEW obj \in Object, ~early, Ready(obj)
        PROVE  Ready(obj)'
    BY <2>2 DEF Ready, FileReady, Fionread
  <2> QED BY <2>1, <2>2, FreshStill
<1> QED BY <1>1, <1>2, <1>3, <1>4 DEF Inv

-----------------------------------------------------------------------------
\* The steps of the thread.

LEMMA PollInv ==
  ASSUME Inv, Poll
  PROVE  Inv'
<1> DEFINE ready == {key \in Occupied : Ready(slab[key])}
<1>1. /\ UNCHANGED <<writer, file_state, produced, drained, slab, free, client, backlog, inbox,
                     early>>
      /\ EpollWait(ready)
  BY DEF Poll, serializerVars, sideVars, EpollWait
<1>2. PICK batch \in SUBSET ready : pending_events' \in SetToSeqs(batch)
  BY <1>1 DEF EpollWait
<1>3. Len(slab) \in Nat /\ ready \subseteq 1..Len(slab)
  BY DEF Inv, Occupied
<1>4. IsFiniteSet(batch) /\ Cardinality(batch) \in Nat
  <2>1. IsFiniteSet(1..Len(slab))
    BY <1>3, FS_Interval
  <2>2. batch \in SUBSET (1..Len(slab))
    BY <1>3
  <2>3. IsFiniteSet(batch)
    BY <2>1, <2>2, FS_Subset
  <2> QED BY <2>3, FS_CardinalityType
<1>5. /\ pending_events' \in [1..Cardinality(batch) -> batch]
      /\ \A i, j \in 1..Cardinality(batch) :
           i # j => pending_events'[i] # pending_events'[j]
  BY <1>2 DEF SetToSeqs
<1>6. /\ pending_events' \in Seq(batch)
      /\ Len(pending_events') = Cardinality(batch)
  BY <1>4, <1>5
<1>7. pending_events' \in Seq(1..Len(slab'))
  BY <1>1, <1>3, <1>6
<1>8. EventsDistinct'
  BY <1>5, <1>6 DEF EventsDistinct
<1>9. EventsFresh'
  <2> SUFFICES ASSUME NEW i \in 1..Len(pending_events')
               PROVE  /\ slab[pending_events'[i]] # Vacant
                      /\ Ready(slab[pending_events'[i]])
    BY <1>1 DEF EventsFresh, Ready, FileReady, Fionread
  <2>1. pending_events'[i] \in ready
    BY <1>5, <1>6
  <2> QED BY <2>1 DEF Occupied
<1>10. KeysAccounted' /\ MessagesOnce' /\ FilesOnce'
  BY <1>1 DEF Inv, KeysAccounted, SlabAccounted, Occupied, Holds, MessagesOnce, FilesOnce
<1>11. ListenerKept' /\ StopOrderly' /\ BacklogApart'
  BY <1>1 DEF Inv, ListenerKept, StopOrderly, StopAsked, ListenerUp, Holds, BacklogApart, Waiting
<1>12. EofMeansClosedOrderly'
  BY <1>1 DEF Inv, EofMeansClosedOrderly, EofMeansClosed
<1> QED BY <1>1, <1>7, <1>8, <1>9, <1>10, <1>11, <1>12 DEF Inv

LEMMA MoreKeys ==
  ASSUME NEW S, NEW T, S \subseteq T, NEW s \in Seq(S)
  PROVE  s \in Seq(T)
OBVIOUS

\* What is known when an event is handed out.
LEMMA Dispatched ==
  ASSUME Inv, NEW type, Dispatch(type)
  PROVE  /\ Event \in 1..Len(slab)
         /\ slab[Event] \in Object /\ slab[Event] # Vacant /\ slab[Event].type = type
         /\ ~early => Ready(slab[Event])
         /\ pending_events' \in Seq(1..Len(slab))
         /\ \A i \in 1..Len(pending_events') :
              /\ i \in 1..Len(pending_events)
              /\ pending_events'[i] = pending_events[i]
              /\ pending_events[i] # Event
              /\ pending_events[i] \in 1..Len(slab)
              /\ ~early => slab[pending_events[i]] # Vacant
              /\ ~early => slab[pending_events[i]] # slab[Event]
         /\ EventsDistinct'
<1>1. PopEvent /\ slab[Event] # Vacant /\ slab[Event].type = type
  BY DEF Dispatch
<1>2. /\ Event \in 1..Len(slab)
      /\ pending_events' \in Seq(1..Len(slab))
      /\ \E i \in 1..Len(pending_events) : Event = pending_events[i]
      /\ \A i \in 1..Len(pending_events') :
           /\ i \in 1..Len(pending_events)
           /\ pending_events'[i] = pending_events[i]
           /\ pending_events[i] # Event
      /\ EventsDistinct'
  BY <1>1, SlabIs, Popped DEF Inv
<1>3. slab[Event] \in Object
  BY <1>1, <1>2 DEF Inv
<1>4. ~early => Ready(slab[Event])
  BY <1>2 DEF Inv, EventsFresh
<1>5. ASSUME NEW i \in 1..Len(pending_events')
      PROVE  /\ pending_events[i] \in 1..Len(slab)
             /\ ~early => slab[pending_events[i]] # Vacant
             /\ ~early => slab[pending_events[i]] # slab[Event]
  <2>1. i \in 1..Len(pending_events) /\ pending_events[i] # Event
    BY <1>2
  <2>2. pending_events[i] \in 1..Len(slab)
    BY <2>1 DEF Inv
  <2>3. ~early => slab[pending_events[i]] # Vacant
    BY <2>1 DEF Inv, EventsFresh
  <2>4. ~early => slab[pending_events[i]] # slab[Event]
    BY <1>1, <1>2, <2>1, <2>2, <2>3 DEF Inv, KeysAccounted, SlabAccounted, Occupied
  <2> QED BY <2>2, <2>3, <2>4
<1> QED BY <1>1, <1>2, <1>3, <1>4, <1>5

\* What remains of the batch stays fresh as long as the objects of its events do.
LEMMA RestFresh ==
  ASSUME Inv, NEW type, Dispatch(type), early' = early,
         \A key \in 1..Len(slab) : slab[key] # Vacant /\ key # Event => slab'[key] = slab[key],
         ASSUME NEW obj \in Object, ~early, obj # slab[Event], Ready(obj)
         PROVE  Ready(obj)'
  PROVE  EventsFresh'
<1>1. CASE early
  BY <1>1 DEF EventsFresh
<1>2. CASE ~early
  <2>1. ASSUME NEW i \in 1..Len(pending_events')
        PROVE  /\ i \in 1..Len(pending_events)
               /\ pending_events'[i] = pending_events[i]
               /\ slab'[pending_events[i]] = slab[pending_events[i]]
               /\ slab[pending_events[i]] # slab[Event]
    BY <1>2, Dispatched
  <2>2. ASSUME NEW i \in 1..Len(pending_events'), NEW obj \in Object, ~early,
               obj = slab[pending_events[i]], Ready(obj)
        PROVE  Ready(obj)'
    BY <2>1, <2>2
  <2>3. EventsFresh /\ slab \in Seq(Object \cup {Vacant}) /\ pending_events \in Seq(1..Len(slab))
    BY DEF Inv
  <2> QED BY <2>1, <2>2, <2>3, FreshKept
<1> QED BY <1>1, <1>2

\* The connection at the head of the backlog is accepted.
LEMMA HandleListenerInv ==
  ASSUME Inv, HandleListener
  PROVE  Inv'
<1> DEFINE c == Head(backlog)
<1>1. /\ Dispatch("listener") /\ backlog # << >>
      /\ PollerAdd(Connection(c))
      /\ backlog' = Tail(backlog)
      /\ UNCHANGED <<writer, file_state, produced, drained, client, inbox, early>>
  BY DEF HandleListener, serializerVars, sideVars
<1>2. /\ slab[Event] = Listener
      /\ Event \in 1..Len(slab)
      /\ pending_events' \in Seq(1..Len(slab))
      /\ EventsDistinct'
  BY <1>1, Dispatched, Objects
<1>3. /\ backlog \in Seq(Client) /\ Len(backlog) \in Nat
      /\ c \in Client /\ c = backlog[1] /\ 1 \in 1..Len(backlog)
      /\ backlog' \in Seq(Client) /\ Len(backlog') = Len(backlog) - 1
      /\ \A i \in 1..Len(backlog') : i + 1 \in 1..Len(backlog) /\ backlog'[i] = backlog[i + 1]
  BY <1>1 DEF Inv
<1> HIDE DEF c
<1>4. Connection(c) \in Object
  BY <1>3, Objects
<1>5. client[c] # "idle" /\ ~Holds(Connection(c))
  BY <1>3 DEF Inv, BacklogApart, Waiting
<1>6. /\ SlabTyped' /\ SlabAccounted'
      /\ Len(slab)' >= Len(slab)
      /\ \A key \in 1..Len(slab) : slab[key] # Vacant => slab'[key] = slab[key]
      /\ \A o \in Object : Holds(o)' <=> Holds(o) \/ o = Connection(c)
  BY <1>1, <1>4, <1>5, SlabIs, AddHolds
<1>7. pending_events' \in Seq(1..Len(slab'))
  <2>1. Len(slab) \in Nat /\ Len(slab') \in Nat /\ 1..Len(slab) \subseteq 1..Len(slab')
    BY <1>6, SlabIs DEF SlabTyped
  <2> QED BY ONLY <1>2, <2>1, MoreKeys
<1>8. KeysAccounted'
  <2>1. \A f \in File : Holds(ImageFile(f))' <=> Holds(ImageFile(f))
    BY <1>3, <1>6, Objects
  <2> QED BY <1>1, <1>6, <2>1 DEF Inv, KeysAccounted
<1>9. ListenerKept'
  <2>1. ListenerUp
    BY <1>2 DEF Inv, ListenerKept, Holds
  <2>2. ListenerUp'
    <3>1. Len(slab) \in Nat /\ 1 \in 1..Len(slab)
      BY <1>2, SlabIs DEF SlabTyped
    <3>2. slab'[1] = Listener
      BY <2>1, <3>1, <1>6, Objects DEF ListenerUp, listener_key
    <3> QED BY <3>2 DEF ListenerUp, listener_key, Listener
  <2> QED BY <2>2 DEF ListenerKept
<1>10. BacklogApart'
  <2>1. \A d \in Client : Holds(Connection(d))' <=> Holds(Connection(d)) \/ d = c
    BY <1>3, <1>6, Objects
  <2>2. \A i, j \in 1..Len(backlog') : backlog'[i] = backlog'[j] => i = j
    <3> SUFFICES ASSUME NEW i \in 1..Len(backlog'), NEW j \in 1..Len(backlog'),
                        backlog'[i] = backlog'[j]
                 PROVE  i = j
      OBVIOUS
    <3>1. /\ i + 1 \in 1..Len(backlog) /\ j + 1 \in 1..Len(backlog)
          /\ backlog[i + 1] = backlog[j + 1]
      BY <1>3
    <3>2. i + 1 = j + 1
      BY <3>1 DEF Inv, BacklogApart
    <3>3. i \in Int /\ j \in Int
      OBVIOUS
    <3> QED BY <3>2, <3>3
  <2>3. ASSUME NEW d \in Client, Waiting(d)'
        PROVE  Waiting(d) /\ d # c
    <3>1. PICK i \in 1..Len(backlog') : backlog'[i] = d
      BY <2>3 DEF Waiting
    <3>2. i + 1 \in 1..Len(backlog) /\ backlog[i + 1] = d /\ i + 1 # 1
      BY <1>3, <3>1
    <3>3. d # c
      BY <1>3, <3>2 DEF Inv, BacklogApart
    <3> QED BY <3>2, <3>3 DEF Waiting
  <2> QED BY <1>1, <1>5, <2>1, <2>2, <2>3 DEF Inv, BacklogApart
<1>11. MessagesOnce' /\ FilesOnce' /\ StopOrderly' /\ EofMeansClosedOrderly'
  <2>1. MessagesOnce' /\ FilesOnce'
    BY <1>1 DEF Inv, MessagesOnce, FilesOnce
  <2>2. StopAsked' <=> StopAsked
    BY <1>1 DEF StopAsked
  <2>3. StopOrderly'
    BY <1>1, <2>2 DEF Inv, StopOrderly
  <2>4. EofMeansClosedOrderly'
    BY <1>1 DEF Inv, EofMeansClosedOrderly, EofMeansClosed
  <2> QED BY <2>1, <2>3, <2>4
<1>12. EventsFresh'
  <2>1. ASSUME NEW obj \in Object, ~early, obj # slab[Event], Ready(obj)
        PROVE  Ready(obj)'
    <3>1. obj.type # "listener"
      BY <2>1, <1>2, Objects
    <3> QED BY <2>1, <3>1, <1>1 DEF Ready, FileReady, Fionread
  <2> QED BY <1>1, <1>6, <2>1, RestFresh
<1>13. client' \in [Client -> {"idle", "open", "closed"}] /\ inbox' \in [Client -> Seq(Message)]
       /\ early' \in BOOLEAN
  BY <1>1 DEF Inv
<1> QED BY <1>1, <1>2, <1>3, <1>6, <1>7, <1>8, <1>9, <1>10, <1>11, <1>12, <1>13 DEF Inv, SlabTyped

\* What is known when a message is read.
LEMMA MessageRead ==
  ASSUME Inv, NEW type, ReadMessage(type)
  PROVE  LET c == slab[Event].id
         IN  /\ Dispatch("client")
             /\ c \in Client /\ slab[Event] = Connection(c)
             /\ inbox[c] # << >>
             /\ Head(inbox[c]) \in Message /\ Head(inbox[c]).type = type
             /\ 1 \in 1..Len(inbox[c]) /\ Head(inbox[c]) = inbox[c][1]
             /\ inbox' \in [Client -> Seq(Message)]
             /\ MessagesOnce'
             /\ \A d \in Client : d # c => inbox'[d] = inbox[d]
             /\ \A d \in Client : \A i \in 1..Len(inbox'[d]) :
                  /\ \E j \in 1..Len(inbox[d]) : inbox'[d][i] = inbox[d][j]
                  /\ inbox'[d][i] # Head(inbox[c])
<1> DEFINE c == slab[Event].id
<1>1. /\ Dispatch("client")
      /\ inbox[c] # << >>
      /\ Head(inbox[c]).type = type
      /\ inbox' = [inbox EXCEPT ![c] = Tail(@)]
  BY DEF ReadMessage
<1>2. slab[Event] \in Object /\ slab[Event].type = "client"
  BY <1>1, Dispatched
<1>3. c \in Client /\ slab[Event] = Connection(c)
  BY <1>2, Objects
<1>4. inbox \in [Client -> Seq(Message)] /\ MessagesOnce
  BY DEF Inv
<1> HIDE DEF c
<1>5. /\ inbox' \in [Client -> Seq(Message)]
      /\ MessagesOnce'
      /\ Head(inbox[c]) \in Message
      /\ 1 \in 1..Len(inbox[c]) /\ Head(inbox[c]) = inbox[c][1]
      /\ \A d \in Client : d # c => inbox'[d] = inbox[d]
      /\ \A d \in Client : \A i \in 1..Len(inbox'[d]) :
           /\ \E j \in 1..Len(inbox[d]) : inbox'[d][i] = inbox[d][j]
           /\ inbox'[d][i] # Head(inbox[c])
  BY ONLY <1>1, <1>3, <1>4, Received
<1> QED BY <1>1, <1>3, <1>5 DEF c

\* No message appears when one is read.
LEMMA NoNewMessage ==
  ASSUME Inv, NEW type, ReadMessage(type)
  PROVE  /\ StopAsked' => StopAsked
         /\ \A d \in Client, f \in File :
              (\E i \in 1..Len(inbox'[d]) : inbox'[d][i] = ImageFile(f))
                => /\ \E j \in 1..Len(inbox[d]) : inbox[d][j] = ImageFile(f)
                   /\ Head(inbox[slab[Event].id]) # ImageFile(f)
<1>1. ASSUME NEW d \in Client, NEW i \in 1..Len(inbox'[d])
      PROVE  /\ \E j \in 1..Len(inbox[d]) : inbox'[d][i] = inbox[d][j]
             /\ inbox'[d][i] # Head(inbox[slab[Event].id])
  BY MessageRead
<1>2. ASSUME NEW d \in Client, NEW i \in 1..Len(inbox'[d]), inbox'[d][i] = StopListener
      PROVE  StopAsked
  BY <1>1, <1>2 DEF StopAsked
<1>3. StopAsked' => StopAsked
  BY <1>2 DEF StopAsked, StopListener
<1>4. ASSUME NEW d \in Client, NEW f \in File,
             NEW i \in 1..Len(inbox'[d]), inbox'[d][i] = ImageFile(f)
      PROVE  /\ \E j \in 1..Len(inbox[d]) : inbox[d][j] = ImageFile(f)
             /\ Head(inbox[slab[Event].id]) # ImageFile(f)
  BY <1>1, <1>4
<1> QED BY <1>3, <1>4

\* The file whose pipe has arrived is added.
LEMMA HandleRequestInv ==
  ASSUME Inv, HandleRequest
  PROVE  Inv'
<1> DEFINE f == Head(inbox[slab[Event].id]).id
<1>1. /\ ReadMessage("file")
      /\ PollerAdd(ImageFile(f))
      /\ file_state' = [file_state EXCEPT ![f] = "open"]
      /\ UNCHANGED <<writer, produced, drained, client, backlog, early>>
  BY DEF HandleRequest, sideVars
<1>2. PICK c \in Client :
        /\ slab[Event] = Connection(c) /\ c = slab[Event].id
        /\ inbox[c] # << >> /\ 1 \in 1..Len(inbox[c]) /\ Head(inbox[c]) = inbox[c][1]
        /\ \A d \in Client : d # c => inbox'[d] = inbox[d]
  BY <1>1, MessageRead
<1>3. /\ Dispatch("client") /\ inbox' \in [Client -> Seq(Message)] /\ MessagesOnce'
      /\ Head(inbox[slab[Event].id]) \in Message
      /\ Head(inbox[slab[Event].id]).type = "file"
  BY <1>1, MessageRead
<1>4. f \in File /\ Head(inbox[slab[Event].id]) = ImageFile(f)
  BY <1>3, Messages
<1> HIDE DEF f
<1>5. /\ Event \in 1..Len(slab)
      /\ pending_events' \in Seq(1..Len(slab))
      /\ EventsDistinct'
  BY <1>3, Dispatched
<1>6. file_state[f] = "absent" /\ writer[f] # "none"
  <2>1. inbox[c][1] = ImageFile(f)
    BY <1>2, <1>4
  <2> QED BY <2>1, <1>2, <1>4 DEF Inv, FilesOnce
<1>7. /\ file_state' \in [File -> {"absent", "open", "removed"}]
      /\ file_state'[f] = "open"
      /\ \A g \in File : g # f => file_state'[g] = file_state[g]
  BY <1>1, <1>4 DEF Inv
<1>8. ImageFile(f) \in Object /\ ~Holds(ImageFile(f))
  BY <1>4, <1>6, Objects DEF Inv, KeysAccounted
<1>9. /\ SlabTyped' /\ SlabAccounted'
      /\ Len(slab)' >= Len(slab)
      /\ \A key \in 1..Len(slab) : slab[key] # Vacant => slab'[key] = slab[key]
      /\ \A o \in Object : Holds(o)' <=> Holds(o) \/ o = ImageFile(f)
  BY <1>1, <1>8, SlabIs, AddHolds
<1>10. pending_events' \in Seq(1..Len(slab'))
  <2>1. Len(slab) \in Nat /\ Len(slab') \in Nat /\ 1..Len(slab) \subseteq 1..Len(slab')
    BY <1>9, SlabIs DEF SlabTyped
  <2> QED BY ONLY <1>5, <2>1, MoreKeys
<1>11. KeysAccounted'
  <2>1. \A g \in File : Holds(ImageFile(g))' <=> Holds(ImageFile(g)) \/ g = f
    BY <1>4, <1>9, Objects
  <2> QED BY <1>7, <1>9, <2>1 DEF Inv, KeysAccounted
<1>12. ListenerKept'
  <2>1. SUFFICES ASSUME (StopAsked \/ Holds(Listener))'
                 PROVE  ListenerUp'
    BY DEF ListenerKept
  <2>2. Holds(Listener)' <=> Holds(Listener)
    BY <1>4, <1>9, Objects
  <2>3. ListenerUp
    BY <2>1, <2>2, <1>1, NoNewMessage DEF Inv, ListenerKept
  <2>4. Len(slab) \in Nat /\ 1 \in 1..Len(slab)
    BY <1>5, SlabIs DEF SlabTyped
  <2>5. slab'[1] = Listener
    BY <2>3, <2>4, <1>9, Objects DEF ListenerUp, listener_key
  <2> QED BY <2>5 DEF ListenerUp, listener_key, Listener
<1>13. BacklogApart'
  <2>1. \A d \in Client : Holds(Connection(d))' <=> Holds(Connection(d))
    BY <1>4, <1>9, Objects
  <2>2. \A d \in Client : Waiting(d)' <=> Waiting(d)
    BY <1>1 DEF Waiting
  <2> QED BY <1>1, <2>1, <2>2 DEF Inv, BacklogApart
<1>14. FilesOnce'
  <2>1. ASSUME NEW d \in Client, NEW i \in 1..Len(inbox'[d]), NEW g \in File,
               inbox'[d][i] = ImageFile(g)
        PROVE  file_state'[g] = "absent" /\ writer'[g] # "none"
    <3>1. /\ \E j \in 1..Len(inbox[d]) : inbox[d][j] = ImageFile(g)
          /\ ImageFile(g) # ImageFile(f)
      BY <2>1, <1>1, <1>4, NoNewMessage
    <3>2. file_state[g] = "absent" /\ writer[g] # "none" /\ g # f
      BY <3>1 DEF Inv, FilesOnce
    <3> QED BY <3>2, <1>1, <1>7
  <2>2. \A g \in File : writer'[g] = "none" => file_state'[g] = "absent"
    BY <1>1, <1>6, <1>7 DEF Inv, FilesOnce
  <2> QED BY <2>1, <2>2 DEF FilesOnce, ImageFile
<1>15. StopOrderly' /\ EofMeansClosedOrderly'
  <2>1. StopOrderly'
    BY <1>1, NoNewMessage DEF Inv, StopOrderly
  <2>2. EofMeansClosedOrderly'
    BY <1>1, <1>7 DEF Inv, EofMeansClosedOrderly, EofMeansClosed
  <2> QED BY <2>1, <2>2
<1>16. EventsFresh'
  <2>1. ASSUME NEW obj \in Object, ~early, obj # slab[Event], Ready(obj)
        PROVE  Ready(obj)'
    <3>1. CASE obj.type = "listener"
      BY <2>1, <3>1, <1>1 DEF Ready
    <3>2. CASE obj.type = "client"
      <4>1. obj.id \in Client /\ obj = Connection(obj.id)
        BY <3>2, Objects
      <4>2. obj.id # c
        BY <2>1, <4>1, <1>2
      <4> QED BY <2>1, <3>2, <4>1, <4>2, <1>1, <1>2 DEF Ready
    <3>3. CASE obj.type = "file"
      <4>1. obj.id \in File /\ FileReady(obj.id)
        BY <2>1, <3>3, Objects DEF Ready
      <4>2. FileReady(obj.id)'
        BY <4>1, <1>1, <1>7 DEF FileReady, Fionread
      <4> QED BY <3>3, <4>2 DEF Ready
    <3> QED BY <2>1, <3>1, <3>2, <3>3 DEF Ready
  <2> QED BY <1>1, <1>3, <1>9, <2>1, RestFresh
<1>17. /\ client' \in [Client -> {"idle", "open", "closed"}] /\ backlog' \in Seq(Client)
       /\ writer' \in [File -> {"none", "open", "closed"}]
       /\ produced' \in [File -> Nat] /\ drained' \in [File -> Nat] /\ early' \in BOOLEAN
  BY <1>1 DEF Inv
<1> QED BY <1>3, <1>5, <1>7, <1>9, <1>10, <1>11, <1>12, <1>13, <1>14, <1>15, <1>16, <1>17
        DEF Inv, SlabTyped

\* The listener is dropped: nobody is waiting for it unless a client asked early.
LEMMA HandleStopInv ==
  ASSUME Inv, HandleStop
  PROVE  Inv'
<1>1. /\ ReadMessage("stop-listener")
      /\ PollerRemove(listener_key)
      /\ backlog' = << >>
      /\ UNCHANGED <<writer, file_state, produced, drained, client, early>>
  BY DEF HandleStop, serializerVars, sideVars
<1>2. PICK c \in Client :
        /\ slab[Event] = Connection(c) /\ c = slab[Event].id
        /\ inbox[c] # << >> /\ 1 \in 1..Len(inbox[c]) /\ Head(inbox[c]) = inbox[c][1]
        /\ \A d \in Client : d # c => inbox'[d] = inbox[d]
  BY <1>1, MessageRead
<1>3. /\ Dispatch("client") /\ inbox' \in [Client -> Seq(Message)] /\ MessagesOnce'
      /\ Head(inbox[slab[Event].id]) = StopListener
  BY <1>1, MessageRead, Messages
<1>4. /\ Event \in 1..Len(slab)
      /\ pending_events' \in Seq(1..Len(slab))
      /\ EventsDistinct'
  BY <1>3, Dispatched
<1>5. StopAsked /\ ListenerUp
  <2>1. StopAsked
    BY <1>2, <1>3 DEF StopAsked
  <2> QED BY <2>1 DEF Inv, ListenerKept
<1>6. 1 \in 1..Len(slab) /\ slab[1] = Listener /\ slab[1] # Vacant
  <2>1. Len(slab) \in Nat
    BY SlabIs DEF SlabTyped
  <2> QED BY <2>1, <1>4, <1>5, Objects DEF ListenerUp, listener_key
<1>7. ~StopAsked'
  <2>1. ASSUME NEW d \in Client, NEW i \in 1..Len(inbox'[d]), inbox'[d][i] = StopListener
        PROVE  FALSE
    BY <2>1, <1>1, <1>3, MessageRead
  <2> QED BY <2>1 DEF StopAsked, StopListener
<1>8. /\ SlabTyped' /\ SlabAccounted'
      /\ Len(slab)' = Len(slab)
      /\ \A k \in 1..Len(slab) : k # 1 => slab'[k] = slab[k]
      /\ \A o \in Object : Holds(o)' <=> Holds(o) /\ o # Listener
  <2>1. PollerRemove(1)
    BY <1>1 DEF listener_key
  <2> QED BY <1>6, <2>1, SlabIs, RemoveHolds
<1>9. KeysAccounted'
  <2>1. \A f \in File : Holds(ImageFile(f))' <=> Holds(ImageFile(f))
    BY <1>8, Objects
  <2> QED BY <1>1, <1>8, <2>1 DEF Inv, KeysAccounted
<1>10. ListenerKept'
  <2>1. ~Holds(Listener)'
    BY <1>8, Objects
  <2> QED BY <1>7, <2>1 DEF ListenerKept
<1>11. BacklogApart'
  <2>1. \A d \in Client : Holds(Connection(d))' <=> Holds(Connection(d))
    BY <1>8, Objects
  <2>2. \A d \in Client : ~Waiting(d)'
    BY <1>1 DEF Waiting
  <2> QED BY <1>1, <2>1, <2>2 DEF Inv, BacklogApart
<1>12. FilesOnce'
  <2>1. ASSUME NEW d \in Client, NEW i \in 1..Len(inbox'[d]), NEW g \in File,
               inbox'[d][i] = ImageFile(g)
        PROVE  file_state'[g] = "absent" /\ writer'[g] # "none"
    <3>1. \E j \in 1..Len(inbox[d]) : inbox[d][j] = ImageFile(g)
      BY <2>1, <1>1, NoNewMessage
    <3> QED BY <3>1, <1>1 DEF Inv, FilesOnce
  <2>2. \A g \in File : writer'[g] = "none" => file_state'[g] = "absent"
    BY <1>1 DEF Inv, FilesOnce
  <2> QED BY <2>1, <2>2 DEF FilesOnce, ImageFile
<1>13. StopOrderly' /\ EofMeansClosedOrderly'
  <2>1. StopOrderly'
    BY <1>1 DEF StopOrderly
  <2>2. EofMeansClosedOrderly'
    BY <1>1 DEF Inv, EofMeansClosedOrderly, EofMeansClosed
  <2> QED BY <2>1, <2>2
<1>14. EventsFresh'
  <2>1. CASE early
    BY <2>1, <1>1 DEF EventsFresh
  <2>2. CASE ~early
    <3>1. backlog = << >>
      BY <2>2, <1>5 DEF Inv, StopOrderly
    <3>2. ASSUME NEW obj \in Object, Ready(obj)
          PROVE  obj # Listener /\ (obj # Connection(c) => Ready(obj)')
      <4>1. obj # Listener
        BY <3>1, <3>2 DEF Ready, Listener
      <4>2. CASE obj.type = "listener"
        BY <4>1, <4>2, Objects
      <4>3. ASSUME obj.type = "client", obj # Connection(c)
            PROVE  Ready(obj)'
        <5>1. obj.id \in Client /\ obj = Connection(obj.id)
          BY <4>3, Objects
        <5>2. obj.id # c
          BY <4>3, <5>1
        <5> QED BY <3>2, <4>3, <5>1, <5>2, <1>1, <1>2 DEF Ready
      <4>4. CASE obj.type = "file"
        <5>1. FileReady(obj.id)
          BY <3>2, <4>4 DEF Ready
        <5>2. FileReady(obj.id)'
          BY <5>1, <1>1 DEF FileReady, Fionread
        <5> QED BY <4>1, <4>4, <5>2 DEF Ready
      <4> QED BY <3>2, <4>1, <4>2, <4>3, <4>4 DEF Ready
    <3>3. ASSUME NEW i \in 1..Len(pending_events')
          PROVE  /\ i \in 1..Len(pending_events)
                 /\ pending_events'[i] = pending_events[i]
                 /\ slab'[pending_events[i]] = slab[pending_events[i]]
                 /\ slab[pending_events[i]] # Connection(c)
      <4>1. /\ i \in 1..Len(pending_events)
            /\ pending_events'[i] = pending_events[i]
            /\ pending_events[i] \in 1..Len(slab)
            /\ slab[pending_events[i]] # Vacant
            /\ slab[pending_events[i]] # slab[Event]
        BY <2>2, <1>3, Dispatched
      <4>2. Ready(slab[pending_events[i]])
        BY <2>2, <4>1 DEF Inv, EventsFresh
      <4>3. slab[pending_events[i]] \in Object
        BY <4>1 DEF Inv
      <4>4. slab[pending_events[i]] # Listener
        BY <3>2, <4>2, <4>3
      <4>5. pending_events[i] # 1
        BY <1>6, <4>4
      <4> QED BY <4>1, <4>5, <1>2, <1>8
    <3>4. EventsFresh /\ slab \in Seq(Object \cup {Vacant}) /\ pending_events \in Seq(1..Len(slab))
      BY DEF Inv
    <3> QED BY <1>1, <3>2, <3>3, <3>4, FreshKept
  <2> QED BY <2>1, <2>2
<1>15. /\ client' \in [Client -> {"idle", "open", "closed"}] /\ backlog' \in Seq(Client)
       /\ writer' \in [File -> {"none", "open", "closed"}]
       /\ file_state' \in [File -> {"absent", "open", "removed"}]
       /\ produced' \in [File -> Nat] /\ drained' \in [File -> Nat] /\ early' \in BOOLEAN
  BY <1>1 DEF Inv
<1>16. pending_events' \in Seq(1..Len(slab'))
  BY <1>4, <1>8
<1> QED BY <1>3, <1>4, <1>8, <1>9, <1>10, <1>11, <1>12, <1>13, <1>14, <1>15, <1>16
        DEF Inv, SlabTyped

\* What follows when the object of the event handed out is removed.
LEMMA Removed ==
  ASSUME Inv, NEW type, Dispatch(type), type # "listener", PollerRemove(Event)
  PROVE  /\ SlabTyped' /\ SlabAccounted'
         /\ pending_events' \in Seq(1..Len(slab'))
         /\ EventsDistinct'
         /\ \A key \in 1..Len(slab) : slab[key] # Vacant /\ key # Event => slab'[key] = slab[key]
         /\ \A o \in Object : Holds(o)' <=> Holds(o) /\ o # slab[Event]
         /\ ListenerUp => ListenerUp'
<1>1. /\ Event \in 1..Len(slab) /\ slab[Event] \in Object /\ slab[Event] # Vacant
      /\ slab[Event].type = type
      /\ pending_events' \in Seq(1..Len(slab)) /\ EventsDistinct'
  BY Dispatched
<1>2. /\ SlabTyped' /\ SlabAccounted'
      /\ Len(slab)' = Len(slab)
      /\ \A k \in 1..Len(slab) : k # Event => slab'[k] = slab[k]
      /\ \A o \in Object : Holds(o)' <=> Holds(o) /\ o # slab[Event]
  BY <1>1, SlabIs, RemoveHolds
<1>3. ASSUME ListenerUp
      PROVE  ListenerUp'
  <2>1. Len(slab) \in Nat /\ 1 \in 1..Len(slab) /\ slab[1] = Listener
    BY <1>1, <1>3, SlabIs DEF SlabTyped, ListenerUp, listener_key
  <2>2. Event # 1
    BY <1>1, <2>1 DEF Listener
  <2>3. slab'[1] = Listener
    BY <1>2, <2>1, <2>2
  <2> QED BY <2>3 DEF ListenerUp, listener_key, Listener
<1> QED BY <1>1, <1>2, <1>3

LEMMA HandleHangupInv ==
  ASSUME Inv, HandleHangup
  PROVE  Inv'
<1>1. /\ Dispatch("client") /\ PollerRemove(Event)
      /\ UNCHANGED <<writer, file_state, produced, drained, client, backlog, inbox, early>>
  BY DEF HandleHangup, serializerVars, sideVars
<1>2. PICK c \in Client : slab[Event] = Connection(c)
  BY <1>1, Dispatched, Objects
<1>3. /\ SlabTyped' /\ SlabAccounted'
      /\ pending_events' \in Seq(1..Len(slab')) /\ EventsDistinct'
      /\ \A key \in 1..Len(slab) : slab[key] # Vacant /\ key # Event => slab'[key] = slab[key]
      /\ \A o \in Object : Holds(o)' <=> Holds(o) /\ o # Connection(c)
      /\ ListenerUp => ListenerUp'
  BY <1>1, <1>2, Removed
<1>4. StopAsked' <=> StopAsked
  BY <1>1 DEF StopAsked
<1>5. KeysAccounted'
  <2>1. \A f \in File : Holds(ImageFile(f))' <=> Holds(ImageFile(f))
    BY <1>3, Objects
  <2> QED BY <1>1, <1>3, <2>1 DEF Inv, KeysAccounted
<1>6. BacklogApart'
  <2>1. \A d \in Client : Holds(Connection(d))' => Holds(Connection(d))
    BY <1>3, Objects
  <2>2. \A d \in Client : Waiting(d)' <=> Waiting(d)
    BY <1>1 DEF Waiting
  <2> QED BY <1>1, <2>1, <2>2 DEF Inv, BacklogApart
<1>7. ListenerKept'
  <2>1. Holds(Listener)' => Holds(Listener)
    BY <1>3, Objects
  <2> QED BY <1>3, <1>4, <2>1 DEF Inv, ListenerKept
<1>8. MessagesOnce' /\ FilesOnce' /\ StopOrderly' /\ EofMeansClosedOrderly'
  <2>1. MessagesOnce' /\ FilesOnce'
    BY <1>1 DEF Inv, MessagesOnce, FilesOnce
  <2>2. StopOrderly'
    BY <1>1, <1>4 DEF Inv, StopOrderly
  <2>3. EofMeansClosedOrderly'
    BY <1>1 DEF Inv, EofMeansClosedOrderly, EofMeansClosed
  <2> QED BY <2>1, <2>2, <2>3
<1>9. EventsFresh'
  <2>1. ASSUME NEW obj \in Object, ~early, obj # slab[Event], Ready(obj)
        PROVE  Ready(obj)'
    BY <2>1, <1>1 DEF Ready, FileReady, Fionread
  <2> QED BY <1>1, <1>3, <2>1, RestFresh
<1>10. /\ client' \in [Client -> {"idle", "open", "closed"}] /\ backlog' \in Seq(Client)
       /\ inbox' \in [Client -> Seq(Message)]
       /\ writer' \in [File -> {"none", "open", "closed"}]
       /\ file_state' \in [File -> {"absent", "open", "removed"}]
       /\ produced' \in [File -> Nat] /\ drained' \in [File -> Nat] /\ early' \in BOOLEAN
  BY <1>1 DEF Inv
<1> QED BY <1>3, <1>5, <1>6, <1>7, <1>8, <1>9, <1>10 DEF Inv, SlabTyped

\* A file is drained: at its end, which a fresh event shows to be one, it goes.
LEMMA HandleFileInv ==
  ASSUME Inv, HandleFile
  PROVE  Inv'
<1> DEFINE f == slab[Event].id
<1>1. /\ Dispatch("file") /\ DrainImgFile(f)
      /\ IF file_state'[f] = "removed" THEN PollerRemove(Event) ELSE UNCHANGED <<slab, free>>
      /\ UNCHANGED <<client, backlog, inbox, early>>
  BY DEF HandleFile, sideVars
<1>2. f \in File /\ slab[Event] = ImageFile(f)
  BY <1>1, Dispatched, Objects
<1>3. /\ Event \in 1..Len(slab)
      /\ pending_events' \in Seq(1..Len(slab)) /\ EventsDistinct'
      /\ ~early => Ready(slab[Event])
  BY <1>1, Dispatched
<1> HIDE DEF f
<1>4. /\ drained' = [drained EXCEPT ![f] = produced[f]]
      /\ file_state' = [file_state EXCEPT ![f] = IF IsEof(f) THEN "removed" ELSE @]
      /\ UNCHANGED <<writer, produced>>
  BY <1>1 DEF DrainImgFile
<1>5. file_state[f] = "open"
  <2>1. Holds(ImageFile(f))
    BY <1>2, <1>3 DEF Holds
  <2> QED BY <1>2, <2>1 DEF Inv, KeysAccounted
<1>6. /\ drained' \in [File -> Nat]
      /\ file_state' \in [File -> {"absent", "open", "removed"}]
      /\ \A g \in File : g # f => drained'[g] = drained[g] /\ file_state'[g] = file_state[g]
      /\ drained'[f] = produced[f]
      /\ file_state'[f] = IF IsEof(f) THEN "removed" ELSE "open"
  BY <1>2, <1>4, <1>5 DEF Inv
<1>7. /\ SlabTyped' /\ SlabAccounted'
      /\ pending_events' \in Seq(1..Len(slab'))
      /\ \A key \in 1..Len(slab) : slab[key] # Vacant /\ key # Event => slab'[key] = slab[key]
      /\ \A o \in Object :
           Holds(o)' <=> Holds(o) /\ (o = ImageFile(f) => file_state'[f] = "open")
      /\ ListenerUp => ListenerUp'
  <2>1. CASE file_state'[f] = "removed"
    BY <2>1, <1>1, <1>2, Removed
  <2>2. CASE file_state'[f] # "removed"
    <3>1. UNCHANGED <<slab, free>> /\ file_state'[f] = "open"
      BY <2>2, <1>1, <1>6
    <3>2. SlabTyped' /\ SlabAccounted'
      BY <3>1, SlabIs, SlabStill
    <3>3. \A o \in Object : Holds(o)' <=> Holds(o)
      BY <3>1 DEF Holds
    <3>4. ListenerUp => ListenerUp'
      BY <3>1 DEF ListenerUp
    <3> QED BY <1>3, <3>1, <3>2, <3>3, <3>4
  <2> QED BY <2>1, <2>2
<1>8. StopAsked' <=> StopAsked
  BY <1>1 DEF StopAsked
<1>9. KeysAccounted'
  <2>1. ASSUME NEW g \in File
        PROVE  file_state'[g] = "open" <=> Holds(ImageFile(g))'
    <3>1. Holds(ImageFile(g)) <=> file_state[g] = "open"
      BY DEF Inv, KeysAccounted
    <3>2. Holds(ImageFile(g))' <=> Holds(ImageFile(g)) /\ (g = f => file_state'[f] = "open")
      BY <1>2, <1>7, Objects
    <3> QED BY <3>1, <3>2, <1>5, <1>6
  <2> QED BY <1>7, <2>1 DEF KeysAccounted
<1>10. BacklogApart'
  <2>1. \A d \in Client : Holds(Connection(d))' => Holds(Connection(d))
    BY <1>7, Objects
  <2>2. \A d \in Client : Waiting(d)' <=> Waiting(d)
    BY <1>1 DEF Waiting
  <2> QED BY <1>1, <2>1, <2>2 DEF Inv, BacklogApart
<1>11. ListenerKept'
  <2>1. Holds(Listener)' => Holds(Listener)
    BY <1>7, Objects
  <2> QED BY <1>7, <1>8, <2>1 DEF Inv, ListenerKept
<1>12. MessagesOnce' /\ FilesOnce' /\ StopOrderly'
  <2>1. MessagesOnce'
    BY <1>1 DEF Inv, MessagesOnce
  <2>2. FilesOnce'
    <3>1. \A g \in File : file_state[g] = "absent" => file_state'[g] = "absent"
      BY <1>5, <1>6
    <3> QED BY <1>1, <1>4, <3>1 DEF Inv, FilesOnce
  <2>3. StopOrderly'
    BY <1>1, <1>8 DEF Inv, StopOrderly
  <2> QED BY <2>1, <2>2, <2>3
<1>13. EofMeansClosedOrderly'
  <2>1. ASSUME ~early, NEW g \in File, file_state'[g] = "removed"
        PROVE  writer'[g] = "closed" /\ drained'[g] = produced'[g]
    <3>1. CASE g # f
      BY <2>1, <3>1, <1>4, <1>6 DEF Inv, EofMeansClosedOrderly, EofMeansClosed
    <3>2. CASE g = f
      <4>1. IsEof(f)
        BY <2>1, <3>2, <1>6
      <4>2. FileReady(f)
        BY <2>1, <1>2, <1>3 DEF Ready, ImageFile
      <4>3. writer[f] = "closed"
        BY <4>1, <4>2 DEF IsEof, FileReady
      <4> QED BY <3>2, <4>3, <1>4, <1>6
    <3> QED BY <3>1, <3>2
  <2> QED BY <2>1, <1>1 DEF EofMeansClosedOrderly, EofMeansClosed
<1>14. EventsFresh'
  <2>1. ASSUME NEW obj \in Object, ~early, obj # slab[Event], Ready(obj)
        PROVE  Ready(obj)'
    <3>1. CASE obj.type = "file"
      <4>1. obj.id \in File /\ FileReady(obj.id) /\ obj.id # f
        BY <2>1, <3>1, <1>2, Objects DEF Ready
      <4>2. FileReady(obj.id)'
        BY <4>1, <1>4, <1>6 DEF FileReady, Fionread
      <4> QED BY <3>1, <4>2 DEF Ready
    <3>2. CASE obj.type # "file"
      BY <2>1, <3>2, <1>1 DEF Ready
    <3> QED BY <3>1, <3>2
  <2> QED BY <1>1, <1>7, <2>1, RestFresh
<1>15. /\ client' \in [Client -> {"idle", "open", "closed"}] /\ backlog' \in Seq(Client)
       /\ inbox' \in [Client -> Seq(Message)]
       /\ writer' \in [File -> {"none", "open", "closed"}]
       /\ produced' \in [File -> Nat] /\ early' \in BOOLEAN
  BY <1>1, <1>4 DEF Inv
<1> QED BY <1>3, <1>6, <1>7, <1>9, <1>10, <1>11, <1>12, <1>13, <1>14, <1>15 DEF Inv, SlabTyped

-----------------------------------------------------------------------------
\* The listener is added first, then the external files, each of them once.
LEMMA InitInv ==
  ASSUME Init
  PROVE  Inv
<1>1. PICK files \in SetToSeqs(ExtFile) :
        PollerInit(<<Listener>> \o [i \in 1..Len(files) |-> ImageFile(files[i])])
  BY DEF Init
<1>2. /\ client = [c \in Client |-> "idle"] /\ backlog = << >>
      /\ inbox = [c \in Client |-> << >>] /\ early \in BOOLEAN
      /\ writer = [f \in File |-> IF f \in ExtFile THEN "open" ELSE "none"]
      /\ file_state = [f \in File |-> IF f \in ExtFile THEN "open" ELSE "absent"]
      /\ produced = [f \in File |-> 0] /\ drained = [f \in File |-> 0]
  BY CaptureAssumption DEF Init, SerializerInit
<1> DEFINE n == Cardinality(ExtFile)
<1>3. IsFiniteSet(ExtFile) /\ n \in Nat
  BY CaptureAssumption, FS_CardinalityType
<1>4. /\ files \in [1..n -> ExtFile]
      /\ \A i, j \in 1..n : i # j => files[i] # files[j]
  BY DEF SetToSeqs
<1>5. \A f \in ExtFile : \E i \in 1..n : files[i] = f
  <2>1. files \in Injection(1..n, ExtFile)
    BY <1>4 DEF Injection, IsInjective
  <2>2. Cardinality(1..n) = n
    BY <1>3, FS_Interval
  <2>3. files \in Surjection(1..n, ExtFile)
    BY <1>3, <2>1, <2>2, FS_Injection
  <2> QED BY <2>3 DEF Surjection
<1> HIDE DEF n
<1>6. files \in Seq(ExtFile) /\ Len(files) = n
  BY <1>3, <1>4
<1> DEFINE tail == [i \in 1..n |-> ImageFile(files[i])]
<1>7. tail \in Seq(Object) /\ Len(tail) = n
  <2>1. \A i \in 1..n : ImageFile(files[i]) \in Object
    BY <1>4, Objects, SerializerAssumption
  <2> QED BY <1>3, <2>1
<1>8. slab = <<Listener>> \o tail /\ free = << >> /\ pending_events = << >>
  BY <1>1, <1>6 DEF PollerInit
<1>9. /\ Len(slab) = n + 1
      /\ slab \in Seq(Object)
      /\ slab[1] = Listener
      /\ \A key \in 1..Len(slab) : key # 1 => key - 1 \in 1..n /\ slab[key] = tail[key - 1]
      /\ \A i \in 1..n : i + 1 \in 1..Len(slab) /\ slab[i + 1] = tail[i]
  <2>1. Listener \in Object
    BY Objects
  <2> HIDE DEF tail
  <2> QED BY <1>3, <1>7, <1>8, <2>1
<1>10. \A key \in 1..Len(slab) : key # 1 => key - 1 \in 1..n /\ slab[key] = ImageFile(files[key - 1])
  BY <1>9
<1>11. slab \in Seq(Object \cup {Vacant}) /\ \A key \in 1..Len(slab) : slab[key] # Vacant
  BY <1>9, Objects, MoreKeys
<1>12. \A f \in File : Holds(ImageFile(f)) <=> f \in ExtFile
  <2> SUFFICES ASSUME NEW f \in File
               PROVE  Holds(ImageFile(f)) <=> f \in ExtFile
    OBVIOUS
  <2>1. ASSUME f \in ExtFile
        PROVE  Holds(ImageFile(f))
    <3>1. PICK i \in 1..n : files[i] = f
      BY <2>1, <1>5
    <3>2. i + 1 \in 1..Len(slab) /\ slab[i + 1] = ImageFile(f)
      BY <3>1, <1>9
    <3> QED BY <3>2 DEF Holds
  <2>2. ASSUME NEW key \in 1..Len(slab), slab[key] = ImageFile(f)
        PROVE  f \in ExtFile
    <3>1. key # 1
      BY <2>2, <1>9, Objects
    <3>2. key - 1 \in 1..n /\ ImageFile(f) = ImageFile(files[key - 1])
      BY <2>2, <3>1, <1>10
    <3>3. files[key - 1] \in ExtFile /\ ExtFile \subseteq File
      BY <3>2, <1>4, SerializerAssumption
    <3> QED BY <3>2, <3>3, Objects
  <2> QED BY <2>1, <2>2 DEF Holds
<1>13. KeysAccounted
  <2>1. {free[i] : i \in 1..Len(free)} = {key \in 1..Len(slab) : slab[key] = Vacant}
    <3>1. {free[i] : i \in 1..Len(free)} = {}
      BY <1>8
    <3>2. {key \in 1..Len(slab) : slab[key] = Vacant} = {}
      BY <1>11
    <3> QED BY <3>1, <3>2
  <2>2. \A i, j \in 1..Len(free) : free[i] = free[j] => i = j
    BY <1>8
  <2>3. \A i, j \in Occupied : slab[i] = slab[j] => i = j
    <3> SUFFICES ASSUME NEW i \in 1..Len(slab), NEW j \in 1..Len(slab), slab[i] = slab[j]
                 PROVE  i = j
      BY DEF Occupied
    <3>1. \A key \in 1..Len(slab) : key # 1 => slab[key] # Listener
      <4> TAKE key \in 1..Len(slab)
      <4> HAVE key # 1
      <4>1. slab[key] = ImageFile(files[key - 1]) /\ files[key - 1] \in File
        BY <1>4, <1>10, SerializerAssumption
      <4> QED BY <4>1, Objects
    <3>2. CASE i = 1 \/ j = 1
      BY <3>1, <3>2, <1>9
    <3>3. CASE i # 1 /\ j # 1
      <4>1. /\ i - 1 \in 1..n /\ slab[i] = ImageFile(files[i - 1]) /\ files[i - 1] \in File
            /\ j - 1 \in 1..n /\ slab[j] = ImageFile(files[j - 1]) /\ files[j - 1] \in File
        BY <3>3, <1>4, <1>10, SerializerAssumption
      <4>2. files[i - 1] = files[j - 1]
        BY <4>1, Objects
      <4>3. i - 1 = j - 1
        BY <4>1, <4>2, <1>4
      <4> QED BY <4>3, <1>3, <1>9
    <3> QED BY <3>2, <3>3
  <2>4. \A f \in File : file_state[f] = "open" <=> Holds(ImageFile(f))
    BY <1>2, <1>12
  <2> QED BY <2>1, <2>2, <2>3, <2>4 DEF KeysAccounted, SlabAccounted
<1>14. MessagesOnce /\ FilesOnce /\ ListenerKept /\ StopOrderly /\ EventsDistinct
  <2>1. \A c \in Client : Len(inbox[c]) = 0
    BY <1>2
  <2>2. MessagesOnce
    BY <2>1 DEF MessagesOnce
  <2>3. FilesOnce
    BY <1>2, <2>1 DEF FilesOnce
  <2>4. ListenerKept
    BY <1>9 DEF ListenerKept, ListenerUp, listener_key
  <2>5. StopOrderly
    BY <1>2 DEF StopOrderly
  <2>6. EventsDistinct
    BY <1>8 DEF EventsDistinct
  <2> QED BY <2>2, <2>3, <2>4, <2>5, <2>6
<1>15. BacklogApart
  <2>1. \A c \in Client : ~Holds(Connection(c))
    <3> SUFFICES ASSUME NEW c \in Client, NEW key \in 1..Len(slab)
                 PROVE  slab[key] # Connection(c)
      BY DEF Holds
    <3>1. CASE key = 1
      BY <3>1, <1>9, Objects
    <3>2. CASE key # 1
      <4>1. slab[key] = ImageFile(files[key - 1]) /\ files[key - 1] \in File
        BY <3>2, <1>4, <1>10, SerializerAssumption
      <4> QED BY <4>1, Objects
    <3> QED BY <3>1, <3>2
  <2> QED BY <1>2, <2>1 DEF BacklogApart, Waiting
<1>16. EventsFresh /\ EofMeansClosedOrderly
  <2>1. EventsFresh
    BY <1>8 DEF EventsFresh
  <2>2. EofMeansClosedOrderly
    BY <1>2 DEF EofMeansClosedOrderly, EofMeansClosed
  <2> QED BY <2>1, <2>2
<1>17. /\ free \in Seq(1..Len(slab)) /\ pending_events \in Seq(1..Len(slab))
       /\ backlog \in Seq(Client)
  BY <1>2, <1>8
<1>18. /\ client \in [Client -> {"idle", "open", "closed"}]
       /\ inbox \in [Client -> Seq(Message)]
       /\ writer \in [File -> {"none", "open", "closed"}]
       /\ file_state \in [File -> {"absent", "open", "removed"}]
       /\ produced \in [File -> Nat] /\ drained \in [File -> Nat]
  BY <1>2
<1> QED BY <1>2, <1>11, <1>13, <1>14, <1>15, <1>16, <1>17, <1>18 DEF Inv

LEMMA NextInv ==
  ASSUME Inv, [Next]_vars
  PROVE  Inv'
<1> USE DEF serializerVars, pollerVars, sideVars
<1>1. CASE UNCHANGED vars
  BY <1>1, StillInv DEF vars
<1>2. ASSUME NEW c \in Client, Connect(c) \/ AskToStop(c) \/ Disconnect(c)
      PROVE  Inv'
  BY <1>2, ConnectInv, AskToStopInv, DisconnectInv
<1>3. ASSUME NEW c \in Client, NEW f \in File, Request(c, f)
      PROVE  Inv'
  BY <1>3, RequestInv
<1>4. ASSUME NEW f \in File, FileClient(f)
      PROVE  Inv'
  BY <1>4, FileClientInv
<1>5. CASE Thread
  <2>1. CASE Poll
    BY <2>1, PollInv
  <2>2. CASE HandleListener \/ HandleRequest \/ HandleStop \/ HandleHangup \/ HandleFile
    BY <2>2, HandleListenerInv, HandleRequestInv, HandleStopInv, HandleHangupInv, HandleFileInv
  <2>3. CASE Panic
    BY <2>3, StillInv DEF Panic
  <2>4. CASE EndLoop
    BY <2>4, StillInv DEF EndLoop, WriteImageEof
  <2>5. CASE WriteShards
    BY <2>5, StillInv DEF WriteShards, WritePayload, WriteMarker, CloseShards
  <2> QED BY <1>5, <2>1, <2>2, <2>3, <2>4, <2>5 DEF Thread
<1>6. CASE Exited
  BY <1>6, <1>1 DEF Exited
<1> QED BY <1>1, <1>2, <1>3, <1>4, <1>5, <1>6 DEF Next

\* The poller's keys and events, the messages of the clients and the files keep
\* together: HandleStop finds the listener at its key, a request finds its file
\* not yet added, and, unless a client asks to stop while another is connecting,
\* what a handler does leaves the rest of its batch true.
THEOREM CaptureInv == Spec => []Inv
<1>1. Init => Inv
  BY InitInv
<1>2. Inv /\ [Next]_vars => Inv'
  BY NextInv
<1> QED BY <1>1, <1>2, PTL DEF Spec

\* However often add() and remove() use a key again, a vacant key is free once,
\* nothing is held twice, and capture() holds exactly the files it has not ended.
THEOREM KeysHold == Spec => []KeysAccounted
<1>1. Inv => KeysAccounted
  BY DEF Inv
<1> QED BY <1>1, CaptureInv, PTL

\* poll() hands out no event that a handler before it has made stale, unless a
\* client asks to stop while another is connecting.
THEOREM EventsStayFresh == Spec => []EventsFresh
<1>1. Inv => EventsFresh
  BY DEF Inv
<1> QED BY <1>1, CaptureInv, PTL

\* Unless a client does, drain_img_file() takes for ended only a file whose
\* writer has closed it and of which everything has been read.
THEOREM EndsAreReal == Spec => []EofMeansClosedOrderly
<1>1. Inv => EofMeansClosedOrderly
  BY DEF Inv
<1> QED BY <1>1, CaptureInv, PTL

-----------------------------------------------------------------------------
\* Capture, down to its poller, implements CaptureLoop, unless a client asks to
\* stop while another is connecting; so what StreamProofs proves of CaptureLoop is
\* true of capture().

\* What CaptureLoop calls expecting.
Expecting == \E key \in Occupied : slab[key].type \in {"listener", "client"}

-----------------------------------------------------------------------------
\* The actions of CaptureLoop, with expecting as the poller of Capture has it.

LEMMA LoopDrains ==
  ASSUME NEW f \in File, Idle, FileReady(f), DrainImgFile(f), Expecting' = Expecting
  PROVE  Loop!DrainReady(f)
<1>1. Loop!Idle
  BY DEF Idle, Loop!Idle
<1>2. Loop!FileReady(f)
  BY DEF FileReady, Fionread, Loop!FileReady, Loop!Fionread
<1>3. Loop!DrainImgFile(f)
  BY DEF DrainImgFile, Queue, Numbered, MakeMarker, ClassOf, FilenameFragment, DataFragments,
         DataSize, EofFragment, Fragment, IsEof, Fionread, Listed, pipeVars,
         Loop!DrainImgFile, Loop!Queue, Loop!Numbered, Loop!MakeMarker, Loop!ClassOf,
         Loop!FilenameFragment, Loop!DataFragments, Loop!DataSize, Loop!EofFragment,
         Loop!Fragment, Loop!IsEof, Loop!Fionread, Loop!Listed, Loop!pipeVars
<1> QED BY <1>1, <1>2, <1>3 DEF Loop!DrainReady, Expecting

LEMMA LoopEnds ==
  ASSUME Idle, ~Expecting, ~Expecting', \A f \in File : file_state[f] # "open", WriteImageEof
  PROVE  Loop!EndCapture
<1>1. Loop!Idle
  BY DEF Idle, Loop!Idle
<1>2. Loop!WriteImageEof
  BY DEF WriteImageEof, Numbered, MakeMarker, EndFragments, EofFragment, Fragment, Class, pipeVars,
         Loop!WriteImageEof, Loop!Numbered, Loop!MakeMarker, Loop!EndFragments,
         Loop!EofFragment, Loop!Fragment, Loop!Class, Loop!pipeVars
<1> QED BY <1>1, <1>2 DEF Loop!EndCapture, Expecting

LEMMA LoopWrites ==
  ASSUME WritePayload \/ (\E s \in Shard : WriteMarker(s)) \/ CloseShards, Expecting' = Expecting
  PROVE  Loop!WriteShards
<1>1. ASSUME WritePayload
      PROVE  Loop!WritePayload
  BY <1>1 DEF WritePayload, Put, MakePayload, Loop!WritePayload, Loop!Put, Loop!MakePayload
<1>2. ASSUME NEW s \in Shard, WriteMarker(s)
      PROVE  s \in Loop!Shard /\ Loop!WriteMarker(s)
  BY <1>2 DEF WriteMarker, Idle, ShardsOf, Put, HasPayload, Shard,
              Loop!WriteMarker, Loop!Idle, Loop!ShardsOf, Loop!Put, Loop!HasPayload, Loop!Shard
<1>3. ASSUME CloseShards
      PROVE  Loop!CloseShards
  BY <1>3 DEF CloseShards, Idle, Shard, serializerVars,
              Loop!CloseShards, Loop!Idle, Loop!Shard, Loop!serializerVars
<1> QED BY <1>1, <1>2, <1>3 DEF Loop!WriteShards, Expecting

\* What the clients do to their files, and what the poller is given and gives up.
LEMMA LoopClients ==
  ASSUME NEW f \in File,
         UNCHANGED <<pipeVars, current_filename, seq, metadata, outbox, target, finished>>,
         Expecting' = Expecting
  PROVE  /\ ClientWrite(f) \/ ClientClose(f) => Loop!ClientStep
         /\ /\ Expecting /\ writer[f] = "none" /\ writer' = [writer EXCEPT ![f] = "open"]
            /\ UNCHANGED <<file_state, produced, drained>>
            => Loop!ClientStep
         /\ /\ Idle /\ Expecting /\ writer[f] # "none" /\ file_state[f] = "absent"
            /\ file_state' = [file_state EXCEPT ![f] = "open"]
            /\ UNCHANGED <<writer, produced, drained>>
            => Loop!ClientStep
<1> USE DEF Expecting
<1>1. ASSUME ClientWrite(f) \/ ClientClose(f)
      PROVE  Loop!ClientStep
  <2>1. Loop!ClientWrite(f) \/ Loop!ClientClose(f)
    BY <1>1 DEF ClientWrite, ClientClose, Fionread, pipeVars,
                Loop!ClientWrite, Loop!ClientClose, Loop!Fionread, Loop!pipeVars
  <2> QED BY <2>1 DEF Loop!ClientStep
<1>2. ASSUME Expecting, writer[f] = "none", writer' = [writer EXCEPT ![f] = "open"],
             UNCHANGED <<file_state, produced, drained>>
      PROVE  Loop!ClientStep
  <2>1. Loop!ClientCreate(f)
    BY <1>2 DEF Loop!ClientCreate, pipeVars, Loop!pipeVars
  <2> QED BY <2>1 DEF Loop!ClientStep
<1>3. ASSUME Idle, Expecting, writer[f] # "none", file_state[f] = "absent",
             file_state' = [file_state EXCEPT ![f] = "open"],
             UNCHANGED <<writer, produced, drained>>
      PROVE  Loop!ClientStep
  <2>1. Loop!OpenFile(f)
    BY <1>3 DEF Loop!OpenFile, Idle, Loop!Idle, pipeVars, Loop!pipeVars
  <2> QED BY <2>1 DEF Loop!ClientStep
<1> QED BY <1>1, <1>2, <1>3

\* Steps CaptureLoop does not see, but for the last connection that goes.
LEMMA LoopStays ==
  ASSUME UNCHANGED <<pipeVars, serializerVars>>,
         Expecting' = Expecting \/ (Idle /\ Expecting /\ ~Expecting')
  PROVE  [Loop!LoopNext]_(Loop!loopVars)
<1> USE DEF Expecting
<1>1. UNCHANGED <<Loop!pipeVars, Loop!serializerVars>>
  BY DEF pipeVars, serializerVars, Loop!pipeVars, Loop!serializerVars
<1>2. CASE Expecting' = Expecting
  BY <1>1, <1>2 DEF Loop!loopVars
<1>3. CASE Idle /\ Expecting /\ ~Expecting'
  <2>1. Loop!LastRequest
    BY <1>1, <1>3 DEF Loop!LastRequest, Idle, Loop!Idle
  <2> QED BY <2>1 DEF Loop!LoopNext, Loop!ClientStep
<1> QED BY <1>2, <1>3
-----------------------------------------------------------------------------
\* The poller is expecting requests as long as it holds the listener or a
\* connection.
LEMMA SlabExpects ==
  ASSUME NEW s \in Seq(Object \cup {Vacant})
  PROVE  (\E key \in {k \in 1..Len(s) : s[k] # Vacant} : s[key].type \in {"listener", "client"})
           <=> \E key \in 1..Len(s) : s[key] = Listener \/ \E c \in Client : s[key] = Connection(c)
<1>1. ASSUME NEW key \in 1..Len(s), s[key] # Vacant, s[key].type \in {"listener", "client"}
      PROVE  s[key] = Listener \/ \E c \in Client : s[key] = Connection(c)
  <2>1. s[key] \in Object
    BY <1>1
  <2> QED BY <1>1, <2>1, Objects
<1>2. ASSUME NEW key \in 1..Len(s), s[key] = Listener \/ \E c \in Client : s[key] = Connection(c)
      PROVE  s[key] # Vacant /\ s[key].type \in {"listener", "client"}
  <2>1. Listener.type = "listener" /\ \A c \in Client : Connection(c).type = "client"
    BY DEF Listener, Connection
  <2>2. s[key] # Vacant
    BY <1>2, Objects
  <2> QED BY <1>2, <2>1, <2>2
<1> QED BY <1>1, <1>2

LEMMA ExpectingIs ==
  ASSUME Inv
  PROVE  Expecting <=> Holds(Listener) \/ \E c \in Client : Holds(Connection(c))
<1>1. slab \in Seq(Object \cup {Vacant})
  BY DEF Inv
<1> QED BY <1>1, SlabExpects DEF Expecting, Occupied, Holds

LEMMA ExpectingThen ==
  ASSUME SlabTyped'
  PROVE  Expecting' <=> Holds(Listener)' \/ \E c \in Client : Holds(Connection(c))'
<1>1. slab' \in Seq(Object \cup {Vacant})
  BY DEF SlabTyped
<1>2. Expecting' <=> \E key \in 1..Len(slab') :
                       slab'[key] = Listener \/ \E c \in Client : slab'[key] = Connection(c)
  BY <1>1, SlabExpects DEF Expecting, Occupied
<1>3. (Holds(Listener)' <=> \E key \in 1..Len(slab') : slab'[key] = Listener)
      /\ \A c \in Client : Holds(Connection(c))' <=> \E key \in 1..Len(slab') : slab'[key] = Connection(c)
  BY DEF Holds, Listener, Connection
<1> QED BY <1>2, <1>3

LEMMA ExpectingStill ==
  ASSUME UNCHANGED slab
  PROVE  Expecting' = Expecting
BY DEF Expecting, Occupied

\* A connection waits for a listener that is there.
LoopInv ==
  /\ Inv
  /\ slab # << >>
  /\ backlog # << >> => ListenerUp

LEMMA LoopInvInit ==
  ASSUME Init
  PROVE  /\ LoopInv
         /\ Expecting
<1>1. Inv
  BY InitInv
<1>2. PICK files \in SetToSeqs(ExtFile) :
        PollerInit(<<Listener>> \o [i \in 1..Len(files) |-> ImageFile(files[i])])
  BY DEF Init
<1>3. /\ files \in Seq(ExtFile) /\ Len(files) \in Nat
      /\ \A i \in 1..Len(files) : files[i] \in ExtFile
  <2>1. Cardinality(ExtFile) \in Nat
    BY CaptureAssumption, FS_CardinalityType
  <2>2. files \in [1..Cardinality(ExtFile) -> ExtFile]
    BY <1>2 DEF SetToSeqs
  <2>3. files \in Seq(ExtFile)
    BY <2>1, <2>2
  <2> QED BY <2>3
<1>4. [i \in 1..Len(files) |-> ImageFile(files[i])] \in Seq(Object)
  <2>1. \A i \in 1..Len(files) : ImageFile(files[i]) \in Object
    BY <1>3, Objects, SerializerAssumption
  <2> QED BY <1>3, <2>1
<1> DEFINE tail == [i \in 1..Len(files) |-> ImageFile(files[i])]
<1>5. slab = <<Listener>> \o tail
  BY <1>2 DEF PollerInit
<1>6. Len(slab) \in Nat /\ 1 \in 1..Len(slab) /\ slab[1] = Listener /\ slab # << >>
  <2>1. Listener \in Object /\ tail \in Seq(Object)
    BY <1>4, Objects
  <2> HIDE DEF tail
  <2>2. Len(tail) \in Nat
    BY <2>1
  <2>3. Len(slab) = Len(tail) + 1 /\ slab[1] = Listener /\ slab \in Seq(Object)
    BY <1>5, <2>1, <2>2
  <2> QED BY <2>2, <2>3
<1>7. backlog = << >>
  BY DEF Init
<1>8. Expecting
  BY <1>1, <1>6, ExpectingIs DEF Holds
<1> QED BY <1>1, <1>6, <1>7, <1>8 DEF LoopInv

-----------------------------------------------------------------------------
\* What the handlers take from the poller and give to it.

LEMMA ListenerThen ==
  ASSUME Inv, ListenerUp, slab # << >>,
         Len(slab)' >= Len(slab), SlabTyped',
         \A key \in 1..Len(slab) : slab[key] # Vacant => slab'[key] = slab[key]
  PROVE  ListenerUp'
<1>1. Len(slab) \in Nat /\ 1 \in 1..Len(slab)
  BY SlabIs DEF SlabTyped
<1>2. slab'[1] = Listener
  BY <1>1, Objects DEF ListenerUp, listener_key
<1> QED BY <1>2 DEF ListenerUp, listener_key, Listener

LEMMA Longer ==
  ASSUME Inv, slab # << >>, SlabTyped', Len(slab') >= Len(slab)
  PROVE  slab' # << >>
<1>1. Len(slab) \in Nat /\ Len(slab) > 0
  BY SlabIs DEF SlabTyped
<1> QED BY <1>1

LEMMA ListenerHandled ==
  ASSUME LoopInv, HandleListener
  PROVE  Expecting /\ Expecting' /\ slab' # << >> /\ ListenerUp'
<1> DEFINE c == Head(backlog)
<1>1. Dispatch("listener") /\ backlog # << >> /\ PollerAdd(Connection(c))
  BY DEF HandleListener
<1>2. Inv /\ slab # << >> /\ ListenerUp
  BY <1>1 DEF LoopInv
<1>3. c \in Client /\ Waiting(c)
  <2>1. backlog \in Seq(Client)
    BY <1>2 DEF Inv
  <2>2. c \in Client /\ 1 \in 1..Len(backlog) /\ c = backlog[1]
    BY <2>1, <1>1
  <2> QED BY <2>2 DEF Waiting
<1> HIDE DEF c
<1>4. Connection(c) \in Object /\ ~Holds(Connection(c))
  BY <1>2, <1>3, Objects DEF Inv, BacklogApart
<1>5. /\ SlabTyped' /\ Len(slab)' >= Len(slab)
      /\ \A key \in 1..Len(slab) : slab[key] # Vacant => slab'[key] = slab[key]
      /\ \A o \in Object : Holds(o)' <=> Holds(o) \/ o = Connection(c)
  BY <1>1, <1>2, <1>4, SlabIs, AddHolds
<1>6. Holds(Listener)
  BY <1>1, <1>2, Dispatched, Objects DEF Holds
<1>7. Holds(Listener)'
  BY <1>5, <1>6, Objects
<1>8. ListenerUp' /\ slab' # << >>
  BY <1>2, <1>5, ListenerThen, Longer
<1> QED BY <1>2, <1>5, <1>6, <1>7, <1>8, ExpectingIs, ExpectingThen

LEMMA RequestHandled ==
  ASSUME LoopInv, HandleRequest
  PROVE  /\ \E f \in File : /\ writer[f] # "none" /\ file_state[f] = "absent"
                           /\ file_state' = [file_state EXCEPT ![f] = "open"]
         /\ Expecting /\ Expecting' /\ slab' # << >>
         /\ ListenerUp => ListenerUp'
<1> DEFINE f == Head(inbox[slab[Event].id]).id
<1>1. /\ ReadMessage("file")
      /\ PollerAdd(ImageFile(f))
      /\ file_state' = [file_state EXCEPT ![f] = "open"]
  BY DEF HandleRequest
<1>2. Inv /\ slab # << >>
  BY DEF LoopInv
<1>3. PICK c \in Client :
        /\ slab[Event] = Connection(c) /\ c = slab[Event].id
        /\ 1 \in 1..Len(inbox[c]) /\ Head(inbox[c]) = inbox[c][1]
        /\ Head(inbox[c]) \in Message /\ Head(inbox[c]).type = "file"
  BY <1>1, <1>2, MessageRead
<1>4. Dispatch("client")
  BY <1>1, <1>2, MessageRead
<1>5. f \in File /\ inbox[c][1] = ImageFile(f)
  BY <1>3, Messages
<1> HIDE DEF f
<1>6. file_state[f] = "absent" /\ writer[f] # "none"
  BY <1>2, <1>3, <1>5 DEF Inv, FilesOnce
<1>7. ImageFile(f) \in Object /\ ~Holds(ImageFile(f))
  BY <1>2, <1>5, <1>6, Objects DEF Inv, KeysAccounted
<1>8. /\ SlabTyped' /\ Len(slab)' >= Len(slab)
      /\ \A key \in 1..Len(slab) : slab[key] # Vacant => slab'[key] = slab[key]
      /\ \A o \in Object : Holds(o)' <=> Holds(o) \/ o = ImageFile(f)
  BY <1>1, <1>2, <1>7, SlabIs, AddHolds
<1>9. Holds(Connection(c))
  BY <1>2, <1>3, <1>4, Dispatched DEF Holds
<1>10. Holds(Connection(c))'
  BY <1>8, <1>9, Objects
<1>11. slab' # << >> /\ (ListenerUp => ListenerUp')
  BY <1>2, <1>8, ListenerThen, Longer
<1> QED BY <1>1, <1>2, <1>5, <1>6, <1>8, <1>9, <1>10, <1>11, ExpectingIs, ExpectingThen

LEMMA StopHandled ==
  ASSUME LoopInv, HandleStop
  PROVE  Expecting /\ Expecting' /\ slab' # << >>
<1>1. ReadMessage("stop-listener") /\ PollerRemove(listener_key)
  BY DEF HandleStop
<1>2. Inv /\ slab # << >>
  BY DEF LoopInv
<1>3. PICK c \in Client :
        /\ slab[Event] = Connection(c)
        /\ 1 \in 1..Len(inbox[c]) /\ Head(inbox[c]) = inbox[c][1]
        /\ Head(inbox[c]) \in Message /\ Head(inbox[c]).type = "stop-listener"
  BY <1>1, <1>2, MessageRead
<1>4. Dispatch("client")
  BY <1>1, <1>2, MessageRead
<1>5. ListenerUp
  <2>1. inbox[c][1] = StopListener
    BY <1>3, Messages
  <2>2. StopAsked
    BY <1>3, <2>1 DEF StopAsked
  <2> QED BY <1>2, <2>2 DEF Inv, ListenerKept
<1>6. listener_key \in 1..Len(slab) /\ slab[listener_key] = Listener
  <2>1. Len(slab) \in Nat
    BY <1>2, SlabIs DEF SlabTyped
  <2> QED BY <2>1, <1>2, <1>5, SlabIs DEF ListenerUp, listener_key, SlabTyped
<1>7. /\ SlabTyped' /\ Len(slab)' = Len(slab)
      /\ \A o \in Object : Holds(o)' <=> Holds(o) /\ o # Listener
  BY <1>1, <1>2, <1>6, SlabIs, RemoveHolds, Objects
<1>8. Holds(Connection(c))
  BY <1>2, <1>3, <1>4, Dispatched DEF Holds
<1>9. Holds(Connection(c))'
  BY <1>7, <1>8, Objects
<1>10. slab' # << >>
  <2>1. Len(slab) \in Nat
    BY <1>2, SlabIs DEF SlabTyped
  <2> QED BY <2>1, <1>2, <1>7, Longer
<1> QED BY <1>2, <1>7, <1>8, <1>9, <1>10, ExpectingIs, ExpectingThen

LEMMA HangupHandled ==
  ASSUME LoopInv, HandleHangup
  PROVE  Expecting /\ slab' # << >> /\ (ListenerUp => ListenerUp')
<1>1. Dispatch("client") /\ PollerRemove(Event)
  BY DEF HandleHangup
<1>2. Inv /\ slab # << >>
  BY DEF LoopInv
<1>3. PICK c \in Client : slab[Event] = Connection(c) /\ Event \in 1..Len(slab)
  BY <1>1, <1>2, Dispatched, Objects
<1>4. Expecting
  BY <1>2, <1>3, ExpectingIs DEF Holds
<1>5. ListenerUp => ListenerUp'
  BY <1>1, <1>2, Removed
<1>6. Len(slab') = Len(slab) /\ SlabTyped'
  BY <1>1, <1>2, Dispatched, SlabIs, RemoveHolds
<1>7. slab' # << >>
  <2>1. Len(slab) \in Nat
    BY <1>2, SlabIs DEF SlabTyped
  <2> QED BY <2>1, <1>2, <1>6, Longer
<1> QED BY <1>4, <1>5, <1>7

LEMMA FileHandled ==
  ASSUME LoopInv, HandleFile
  PROVE  /\ Expecting' = Expecting
         /\ slab' # << >>
         /\ ListenerUp => ListenerUp'
<1> DEFINE f == slab[Event].id
<1>1. /\ Dispatch("file")
      /\ PollerRemove(Event) \/ UNCHANGED <<slab, free>>
  BY DEF HandleFile
<1>2. Inv /\ slab # << >>
  BY DEF LoopInv
<1>3. f \in File /\ slab[Event] = ImageFile(f)
  BY <1>1, <1>2, Dispatched, Objects
<1> HIDE DEF f
<1>4. CASE PollerRemove(Event)
  <2>1. /\ SlabTyped' /\ Len(slab') = Len(slab)
        /\ \A o \in Object : Holds(o)' <=> Holds(o) /\ o # ImageFile(f)
    BY <1>1, <1>2, <1>3, <1>4, Dispatched, SlabIs, RemoveHolds
  <2>2. ListenerUp => ListenerUp'
    BY <1>1, <1>2, <1>4, Removed
  <2>3. Len(slab) \in Nat
    BY <1>2, SlabIs DEF SlabTyped
  <2>4. slab' # << >>
    BY <1>2, <2>1, <2>3, Longer
  <2>5. /\ Holds(Listener)' <=> Holds(Listener)
        /\ \A c \in Client : Holds(Connection(c))' <=> Holds(Connection(c))
    BY <1>3, <2>1, Objects
  <2>6. Expecting' <=> Expecting
    BY <1>2, <2>1, <2>5, ExpectingIs, ExpectingThen
  <2> QED BY <2>2, <2>4, <2>6 DEF Expecting
<1>5. CASE UNCHANGED <<slab, free>>
  BY <1>2, <1>5, ExpectingStill DEF ListenerUp, Listener
<1> QED BY <1>1, <1>4, <1>5

LEMMA LoopInvNext ==
  ASSUME LoopInv, [Next]_vars
  PROVE  LoopInv'
<1> USE DEF pollerVars
<1>1. Inv'
  BY NextInv DEF LoopInv
<1>2. ASSUME UNCHANGED slab, UNCHANGED backlog \/ ListenerUp
      PROVE  LoopInv'
  BY <1>1, <1>2 DEF LoopInv, ListenerUp, Listener
<1>3. CASE UNCHANGED vars
  BY <1>2, <1>3 DEF vars
<1>4. ASSUME NEW c \in Client, Connect(c) \/ AskToStop(c) \/ Disconnect(c)
      PROVE  LoopInv'
  BY <1>2, <1>4 DEF Connect, AskToStop, Disconnect
<1>5. ASSUME NEW c \in Client, NEW f \in File, Request(c, f)
      PROVE  LoopInv'
  BY <1>2, <1>5 DEF Request
<1>6. ASSUME NEW f \in File, FileClient(f)
      PROVE  LoopInv'
  BY <1>2, <1>6 DEF FileClient
<1>7. CASE Thread
  <2>1. CASE Poll \/ Panic \/ EndLoop \/ WriteShards
    BY <2>1, <1>2 DEF Poll, EpollWait, Panic, EndLoop, WriteShards
  <2>2. CASE HandleListener
    BY <2>2, <1>1, ListenerHandled DEF LoopInv
  <2>3. CASE HandleRequest
    <3>1. UNCHANGED backlog
      BY <2>3 DEF HandleRequest
    <3> QED BY <2>3, <3>1, <1>1, RequestHandled DEF LoopInv
  <2>4. CASE HandleStop
    <3>1. backlog' = << >>
      BY <2>4 DEF HandleStop
    <3> QED BY <2>4, <3>1, <1>1, StopHandled DEF LoopInv
  <2>5. CASE HandleHangup
    <3>1. UNCHANGED backlog
      BY <2>5 DEF HandleHangup
    <3> QED BY <2>5, <3>1, <1>1, HangupHandled DEF LoopInv
  <2>6. CASE HandleFile
    <3>1. UNCHANGED backlog
      BY <2>6 DEF HandleFile
    <3> QED BY <2>6, <3>1, <1>1, FileHandled DEF LoopInv
  <2> QED BY <1>7, <2>1, <2>2, <2>3, <2>4, <2>5, <2>6 DEF Thread
<1>8. CASE Exited
  BY <1>3, <1>8 DEF Exited
<1> QED BY <1>3, <1>4, <1>5, <1>6, <1>7, <1>8 DEF Next

-----------------------------------------------------------------------------
\* Every step of Capture is one of CaptureLoop, or one it does not see.

LEMMA RefineInit ==
  ASSUME Init
  PROVE  Loop!LoopInit
<1>1. Loop!PipesInit
  BY DEF Init, PipesInit, Shard, Loop!PipesInit, Loop!Shard
<1>2. Loop!SerializerInit
  BY DEF Init, SerializerInit, Class, Loop!SerializerInit, Loop!Class
<1>3. Expecting = TRUE
  BY LoopInvInit DEF Expecting
<1> QED BY <1>1, <1>2, <1>3 DEF Loop!LoopInit, Expecting

LEMMA RefineClient ==
  ASSUME LoopInv,
         NEW f \in File,
         (\E c \in Client : Request(c, f)) \/ FileClient(f)
  PROVE  Loop!ClientStep
<1>1. UNCHANGED <<pipeVars, current_filename, seq, metadata, outbox, target, finished>>
  BY DEF Request, FileClient, ClientWrite, ClientClose
<1>2. Expecting' = Expecting
  BY ExpectingStill DEF Request, FileClient, pollerVars
<1>3. CASE FileClient(f)
  BY <1>1, <1>2, <1>3, LoopClients DEF FileClient
<1>4. ASSUME NEW c \in Client, Request(c, f)
      PROVE  Loop!ClientStep
  <2>1. /\ Holds(Connection(c)) \/ Waiting(c)
        /\ writer[f] = "none" /\ writer' = [writer EXCEPT ![f] = "open"]
        /\ UNCHANGED <<file_state, produced, drained>>
    BY <1>4 DEF Request, Send
  <2>2. Holds(Connection(c)) \/ Holds(Listener)
    <3>1. CASE Waiting(c)
      <4>1. backlog # << >>
        BY <3>1 DEF Waiting
      <4>2. Len(slab) \in Nat /\ 1 \in 1..Len(slab)
        BY SlabIs DEF LoopInv, SlabTyped
      <4>3. slab[1] = Listener
        BY <4>1 DEF LoopInv, ListenerUp, listener_key
      <4> QED BY <4>2, <4>3 DEF Holds
    <3> QED BY <2>1, <3>1
  <2>3. Expecting
    BY <2>2, ExpectingIs DEF LoopInv
  <2> QED BY <1>1, <1>2, <2>1, <2>3, LoopClients
<1> QED BY <1>3, <1>4

LEMMA RefineHandler ==
  ASSUME LoopInv, ~early,
         HandleListener \/ HandleRequest \/ HandleStop \/ HandleHangup \/ HandleFile
  PROVE  [Loop!LoopNext]_(Loop!loopVars)
<1>1. Idle
  BY DEF HandleListener, HandleRequest, HandleStop, HandleHangup, HandleFile, ReadMessage,
         Dispatch, AtPoll
<1>2. CASE HandleListener
  <2>1. Expecting' = Expecting
    BY <1>2, ListenerHandled DEF Expecting
  <2> QED BY <1>2, <2>1, LoopStays DEF HandleListener
<1>3. CASE HandleStop
  <2>1. Expecting' = Expecting
    BY <1>3, StopHandled DEF Expecting
  <2> QED BY <1>3, <2>1, LoopStays DEF HandleStop
<1>4. CASE HandleHangup
  <2>1. Expecting' = Expecting \/ (Expecting /\ ~Expecting')
    BY <1>4, HangupHandled DEF Expecting
  <2>2. UNCHANGED <<pipeVars, serializerVars>>
    BY <1>4 DEF HandleHangup
  <2> QED BY <1>1, <2>1, <2>2, LoopStays
<1>5. CASE HandleRequest
  <2>1. Expecting' = Expecting /\ Expecting
    BY <1>5, RequestHandled DEF Expecting
  <2>2. PICK f \in File : /\ writer[f] # "none" /\ file_state[f] = "absent"
                          /\ file_state' = [file_state EXCEPT ![f] = "open"]
    BY <1>5, RequestHandled
  <2>3. UNCHANGED <<pipeVars, writer, produced, drained, current_filename, seq, metadata,
                    outbox, target, finished>>
    BY <1>5 DEF HandleRequest
  <2>4. Loop!ClientStep
    BY <1>1, <2>1, <2>2, <2>3, LoopClients
  <2> QED BY <2>4 DEF Loop!LoopNext
<1>6. CASE HandleFile
  <2> DEFINE f == slab[Event].id
  <2>1. Dispatch("file") /\ DrainImgFile(f)
    BY <1>6 DEF HandleFile
  <2>2. f \in File /\ Ready(slab[Event]) /\ slab[Event].type = "file"
    BY <2>1, Dispatched, Objects DEF LoopInv
  <2>3. FileReady(f)
    BY <2>2 DEF Ready
  <2>4. Expecting' = Expecting
    BY <1>6, FileHandled
  <2> HIDE DEF f
  <2>5. Loop!DrainReady(f)
    BY <1>1, <2>1, <2>2, <2>3, <2>4, LoopDrains
  <2> QED BY <2>2, <2>5 DEF Loop!LoopNext, Loop!CaptureStep
<1> QED BY <1>2, <1>3, <1>4, <1>5, <1>6

LEMMA RefineEnd ==
  ASSUME LoopInv, EndLoop
  PROVE  Loop!EndCapture
<1>1. Idle /\ Occupied = {} /\ WriteImageEof /\ UNCHANGED slab
  BY DEF EndLoop, pollerVars
<1>2. ~Expecting
  BY <1>1 DEF Expecting
<1>3. ~Expecting'
  BY <1>1, <1>2, ExpectingStill
<1>4. ASSUME NEW f \in File
      PROVE  file_state[f] # "open"
  <2>1. ~Holds(ImageFile(f))
    BY <1>1, Objects DEF Holds, Occupied
  <2> QED BY <2>1 DEF LoopInv, Inv, KeysAccounted
<1> QED BY <1>1, <1>2, <1>3, <1>4, LoopEnds

LEMMA RefineNext ==
  ASSUME LoopInv, [Next]_vars
  PROVE  [early \/ Loop!LoopNext]_(Loop!loopVars)
<1> SUFFICES ASSUME ~early
             PROVE  [Loop!LoopNext]_(Loop!loopVars)
  OBVIOUS
<1>1. ASSUME UNCHANGED <<pipeVars, serializerVars, slab>>
      PROVE  [Loop!LoopNext]_(Loop!loopVars)
  BY <1>1, ExpectingStill, LoopStays
<1>2. CASE UNCHANGED vars
  BY <1>1, <1>2 DEF vars, pollerVars
<1>3. ASSUME NEW c \in Client, Connect(c) \/ AskToStop(c) \/ Disconnect(c)
      PROVE  [Loop!LoopNext]_(Loop!loopVars)
  BY <1>1, <1>3 DEF Connect, AskToStop, Disconnect, pollerVars
<1>4. ASSUME NEW f \in File, (\E c \in Client : Request(c, f)) \/ FileClient(f)
      PROVE  [Loop!LoopNext]_(Loop!loopVars)
  BY <1>4, RefineClient DEF Loop!LoopNext
<1>5. CASE Thread
  <2>1. CASE Poll \/ Panic
    BY <2>1, <1>1 DEF Poll, EpollWait, Panic, pollerVars
  <2>2. CASE HandleListener \/ HandleRequest \/ HandleStop \/ HandleHangup \/ HandleFile
    BY <2>2, RefineHandler
  <2>3. CASE EndLoop
    BY <2>3, RefineEnd DEF Loop!LoopNext, Loop!CaptureStep
  <2>4. CASE WriteShards
    <3>1. Expecting' = Expecting
      BY <2>4, ExpectingStill DEF WriteShards, pollerVars
    <3>2. Loop!WriteShards
      BY <2>4, <3>1, LoopWrites DEF WriteShards
    <3> QED BY <3>2 DEF Loop!LoopNext, Loop!CaptureStep
  <2> QED BY <1>5, <2>1, <2>2, <2>3, <2>4 DEF Thread
<1>6. CASE Exited
  BY <1>2, <1>6 DEF Exited
<1> QED BY <1>2, <1>3, <1>4, <1>5, <1>6 DEF Next

\* Whatever the poller does with keys and batches of events, capture() serves
\* one source that is ready at a time and ends when none is left: all that is
\* said of CaptureLoop holds of it, unless a client asks to stop while another
\* is connecting.
THEOREM CaptureRefinesLoop == Spec => RefinesLoop
<1>1. Init => Loop!LoopInit /\ LoopInv
  BY RefineInit, LoopInvInit
<1>2. LoopInv /\ [Next]_vars => LoopInv'
  BY LoopInvNext
<1>3. LoopInv /\ [Next]_vars => [early \/ Loop!LoopNext]_(Loop!loopVars)
  BY RefineNext
<1> QED BY <1>1, <1>2, <1>3, PTL DEF Spec, RefinesLoop

-----------------------------------------------------------------------------
\* So what is proved of CaptureLoop is true of capture() as well.  Loop and Chunks
\* are the same definitions twice: the proofs that they agree expand them all.

Chunks == INSTANCE StreamProofs WITH expecting <- Expecting

\* The assumptions of StreamProofs are those of Capture.
LEMMA ChunksAssumptions ==
  /\ Chunks!ImageAssumption
  /\ Chunks!NoneAssumption
  /\ Chunks!ShardAssumption
  /\ Chunks!SerializerAssumption
  /\ Chunks!DataAssumption
BY ImageAssumption, NoneAssumption, ShardAssumption, SerializerAssumption, DataAssumption
   DEF Marker, Body, FileName, Image, Chunks!Marker, Chunks!Body, Chunks!FileName,
       Chunks!Image

LEMMA LoopStarts == Loop!LoopInit => Chunks!LoopInv
<1>1. Loop!LoopInit => Chunks!LoopInit
  BY DEF Expecting, Loop!LoopInit, Chunks!LoopInit, Loop!PipesInit, Chunks!PipesInit,
       Loop!SerializerInit, Chunks!SerializerInit, Loop!Shard, Chunks!Shard, Loop!Class,
       Chunks!Class
<1> QED BY <1>1, ChunksAssumptions, Chunks!LoopInvInit

LEMMA LoopGoesOn == Chunks!LoopInv /\ [Loop!LoopNext]_(Loop!loopVars) => Chunks!LoopInv'
<1>1. [Loop!LoopNext]_(Loop!loopVars) => [Chunks!LoopNext]_(Chunks!loopVars)
  BY DEF Expecting, Loop!LoopNext, Chunks!LoopNext, Loop!loopVars, Chunks!loopVars,
       Loop!serializerVars, Chunks!serializerVars, Loop!pipeVars, Chunks!pipeVars,
       Loop!ClientStep, Chunks!ClientStep, Loop!ClientCreate, Chunks!ClientCreate,
       Loop!OpenFile, Chunks!OpenFile, Loop!LastRequest, Chunks!LastRequest,
       Loop!ClientWrite, Chunks!ClientWrite, Loop!ClientClose, Chunks!ClientClose,
       Loop!CaptureStep, Chunks!CaptureStep, Loop!DrainReady, Chunks!DrainReady,
       Loop!EndCapture, Chunks!EndCapture, Loop!WriteShards, Chunks!WriteShards,
       Loop!Exited, Chunks!Exited, Loop!FileReady, Chunks!FileReady, Loop!Fionread,
       Chunks!Fionread, Loop!Idle, Chunks!Idle, Loop!DrainImgFile, Chunks!DrainImgFile,
       Loop!Queue, Chunks!Queue, Loop!Numbered, Chunks!Numbered, Loop!FilenameFragment,
       Chunks!FilenameFragment, Loop!DataFragments, Chunks!DataFragments, Loop!DataSize,
       Chunks!DataSize, Loop!EofFragment, Chunks!EofFragment, Loop!Fragment,
       Chunks!Fragment, Loop!IsEof, Chunks!IsEof, Loop!Listed, Chunks!Listed,
       Loop!WriteMarker, Chunks!WriteMarker, Loop!WritePayload, Chunks!WritePayload,
       Loop!Put, Chunks!Put, Loop!WriteImageEof, Chunks!WriteImageEof, Loop!EndFragments,
       Chunks!EndFragments, Loop!CloseShards, Chunks!CloseShards, Loop!MakeMarker,
       Chunks!MakeMarker, Loop!MakePayload, Chunks!MakePayload, Loop!HasPayload,
       Chunks!HasPayload, Loop!ClassOf, Chunks!ClassOf, Loop!ShardsOf, Chunks!ShardsOf,
       Loop!Shard, Chunks!Shard, Loop!Class, Chunks!Class
<1> QED BY <1>1, ChunksAssumptions, Chunks!LoopInvNext

LEMMA LoopEndsWell == Chunks!LoopInv => Loop!ShardsWellFormed
<1>1. Chunks!ShardsWellFormed => Loop!ShardsWellFormed
  <2>1. Chunks!AllWritten = Loop!AllWritten
    BY DEF Loop!AllWritten, Chunks!AllWritten, Loop!Idle, Chunks!Idle
  <2>2. Chunks!Class = Loop!Class
    BY DEF Chunks!Class, Loop!Class
  <2>3. \A c : Chunks!Numbers(c) = Loop!Numbers(c)
    BY DEF Loop!Numbers, Chunks!Numbers, Loop!MarkersOf, Chunks!MarkersOf, Loop!ShardsOf,
       Chunks!ShardsOf
  <2>4. Chunks!Written = Loop!Written
    BY DEF Loop!Written, Chunks!Written, Loop!MarkersOf, Chunks!MarkersOf, Loop!ChunkAt,
       Chunks!ChunkAt, Loop!HasPayload, Chunks!HasPayload, Loop!ShardsOf, Chunks!ShardsOf,
       Loop!Class, Chunks!Class
  <2>5. \A str : Chunks!WellFormed(str) <=> Loop!WellFormed(str)
    BY DEF Loop!WellFormed, Chunks!WellFormed, Loop!EndsWithMetadata, Chunks!EndsWithMetadata,
       Loop!EndsWithImageEof, Chunks!EndsWithImageEof, Loop!Chunk, Chunks!Chunk,
       Loop!Marker, Chunks!Marker, Loop!Body, Chunks!Body, Loop!FileName, Chunks!FileName,
       Loop!Class, Chunks!Class
  <2>6. \A str, obj : Chunks!Spreads(str, obj) <=> Loop!Spreads(str, obj)
    BY DEF Loop!Spreads, Chunks!Spreads, Loop!Framed, Chunks!Framed, Loop!Increasing,
       Chunks!Increasing, Loop!Covers, Chunks!Covers, Loop!NoTwice, Chunks!NoTwice,
       Loop!MakePayload, Chunks!MakePayload, Loop!HasPayload, Chunks!HasPayload, Loop!Slot,
       Chunks!Slot, Loop!Marker, Chunks!Marker, Loop!Payload, Chunks!Payload, Loop!Body,
       Chunks!Body, Loop!FileName, Chunks!FileName, Loop!ShardsOf, Chunks!ShardsOf,
       Loop!Shard, Chunks!Shard, Loop!Class, Chunks!Class
  <2> QED BY <2>1, <2>2, <2>3, <2>4, <2>5, <2>6 DEF Chunks!ShardsWellFormed, Loop!ShardsWellFormed
<1> QED BY <1>1, ChunksAssumptions, Chunks!InvWellFormed

LEMMA LoopReplaysWell == Chunks!LoopInv => Loop!ShardsReplay
<1>1. Chunks!ShardsReplay => Loop!ShardsReplay
  <2>1. Chunks!AllWritten = Loop!AllWritten
    BY DEF Loop!AllWritten, Chunks!AllWritten, Loop!Idle, Chunks!Idle
  <2>2. Chunks!Written = Loop!Written
    BY DEF Loop!Written, Chunks!Written, Loop!MarkersOf, Chunks!MarkersOf, Loop!ChunkAt,
       Chunks!ChunkAt, Loop!HasPayload, Chunks!HasPayload, Loop!ShardsOf, Chunks!ShardsOf,
       Loop!Class, Chunks!Class
  <2>3. Chunks!EmptyImage = Loop!EmptyImage
    BY DEF Loop!EmptyImage, Chunks!EmptyImage, Loop!FileName, Chunks!FileName
  <2>4. \A c, image, chunks :
          Chunks!ReplayChunks(c, image, chunks) = Loop!ReplayChunks(c, image, chunks)
    BY DEF Loop!ReplayChunks, Chunks!ReplayChunks, Loop!FoldLeft, Chunks!FoldLeft,
       Loop!MapThenFoldSet, Chunks!MapThenFoldSet, Loop!Max, Chunks!Max, Loop!CanApply,
       Chunks!CanApply, Loop!Apply, Chunks!Apply, Loop!SelectImgFile, Chunks!SelectImgFile,
       Loop!ApplyData, Chunks!ApplyData, Loop!ApplyFileEof, Chunks!ApplyFileEof,
       Loop!IsMetadata, Chunks!IsMetadata
  <2> QED BY <2>1, <2>2, <2>3, <2>4 DEF Chunks!ShardsReplay, Loop!ShardsReplay
<1> QED BY <1>1, ChunksAssumptions, Chunks!InvReplays

LEMMA EarlyStays ==
  ASSUME [Next]_vars
  PROVE  early' = early
<1>1. CASE \/ \E c \in Client : Connect(c) \/ AskToStop(c) \/ Disconnect(c)
           \/ \E c \in Client, f \in File : Request(c, f)
           \/ \E f \in File : FileClient(f)
  BY <1>1 DEF Connect, AskToStop, Disconnect, Request, FileClient, sideVars
<1>2. CASE Thread
  BY <1>2 DEF Thread, Poll, EpollWait, HandleListener, HandleRequest, HandleStop, HandleHangup,
       HandleFile, Panic, EndLoop, WriteShards, sideVars
<1>3. CASE Exited \/ UNCHANGED vars
  BY <1>3 DEF Exited, vars, sideVars
<1> QED BY <1>1, <1>2, <1>3 DEF Next

\* What capture() has written when it is done is what extract relies on, and
\* replayed gives back every file as its client wrote it, whatever the poller
\* reports and in which order, unless a client asks to stop while another is
\* connecting.
THEOREM CaptureDelivers == Spec => [](early \/ (Loop!ShardsWellFormed /\ Loop!ShardsReplay))
<1> DEFINE J == LoopInv /\ (early \/ Chunks!LoopInv)
<1>1. Init => J
  BY RefineInit, LoopInvInit, LoopStarts
<1>2. J /\ [Next]_vars => J'
  <2> SUFFICES ASSUME J, [Next]_vars
               PROVE  J'
    OBVIOUS
  <2>1. LoopInv'
    BY LoopInvNext
  <2>2. CASE early
    BY <2>1, <2>2, EarlyStays
  <2>3. CASE ~early
    <3>1. [early \/ Loop!LoopNext]_(Loop!loopVars)
      BY RefineNext
    <3>2. Chunks!LoopInv'
      BY <2>3, <3>1, LoopGoesOn
    <3> QED BY <2>1, <3>2
  <2> QED BY <2>2, <2>3
<1>3. J => early \/ (Loop!ShardsWellFormed /\ Loop!ShardsReplay)
  BY LoopEndsWell, LoopReplaysWell
<1> QED BY <1>1, <1>2, <1>3, PTL DEF Spec

-----------------------------------------------------------------------------
\* The types, also where a client asks to stop while another is connecting.

Queueable == [class : Class, marker : Marker, data : Seq(Data)]

ThreadTyped ==
  /\ SerializerTypeOK
  /\ \A f \in File : drained[f] <= produced[f]
  /\ outbox \in Seq(Queueable)
  /\ target # None => outbox # << >>
  /\ crashed \in BOOLEAN

LEMMA QueuedTyped ==
  ASSUME NEW q \in Seq(Queueable)
  PROVE  \A k \in 1..Len(q) : /\ q[k].class \in Class
                              /\ q[k].marker \in Marker
                              /\ q[k].data \in Seq(Data)
<1> SUFFICES ASSUME NEW k \in 1..Len(q)
             PROVE  /\ q[k].class \in Class
                    /\ q[k].marker \in Marker
                    /\ q[k].data \in Seq(Data)
  OBVIOUS
<1>1. PICK x : x = q[k]
  OBVIOUS
<1>2. x \in Queueable
  BY <1>1
<1>3. x.class \in Class /\ x.marker \in Marker /\ x.data \in Seq(Data)
  BY <1>2 DEF Queueable
<1> QED BY <1>1, <1>3

\* What StreamProofs says of the chunks of a file and of the metadata.
LEMMA FragmentsQueue ==
  ASSUME seq \in [Class -> Nat], NEW class \in Class, NEW fragments,
         fragments \in Seq(Chunks!FragmentSet)
  PROVE  Numbered(class, fragments) \in Seq(Queueable) /\ Len(fragments) \in Nat
<1>1. Chunks!Numbered(class, fragments) = Numbered(class, fragments)
  BY DEF Chunks!Numbered, Numbered, Chunks!MakeMarker, MakeMarker
<1>2. Chunks!Entry = Queueable
  BY DEF Chunks!Entry, Queueable, Chunks!Class, Class, Chunks!Marker, Marker, Chunks!Body, Body,
         Chunks!FileName, FileName
<1>3. Chunks!Class = Class
  BY DEF Chunks!Class, Class
<1>4. Chunks!Numbered(class, fragments) \in Seq(Chunks!Entry)
  BY <1>3, ChunksAssumptions, Chunks!ChunksOfIs
<1> QED BY <1>1, <1>2, <1>4

LEMMA DrainQueues ==
  ASSUME SerializerTypeOK, NEW f \in File, drained[f] <= produced[f], Idle, DrainImgFile(f)
  PROVE  outbox' \in Seq(Queueable) /\ seq' \in [Class -> Nat]
<1> DEFINE fr == FilenameFragment(f) \o (IF IsEof(f) THEN EofFragment ELSE DataFragments(f))
<1>1. /\ produced \in [File -> 0..MaxSize] /\ drained \in [File -> 0..MaxSize]
      /\ seq \in [Class -> Nat]
  BY DEF SerializerTypeOK
<1>2. fr = Chunks!FilenameFragment(f)
             \o (IF Chunks!IsEof(f) THEN Chunks!EofFragment ELSE Chunks!DataFragments(f))
  BY DEF FilenameFragment, Chunks!FilenameFragment, IsEof, Chunks!IsEof, EofFragment,
         Chunks!EofFragment, DataFragments, Chunks!DataFragments, Fragment, Chunks!Fragment,
         Fionread, Chunks!Fionread, DataSize, Chunks!DataSize
<1>3. fr \in Seq(Chunks!Ordinary)
  BY <1>1, <1>2, ChunksAssumptions, Chunks!DrainFragmentsAre
<1> HIDE DEF fr
<1>4. fr \in Seq(Chunks!FragmentSet)
  BY <1>3, ChunksAssumptions, Chunks!OrdinaryIs
<1>5. ClassOf(f) \in Class
  BY DEF ClassOf, Class
<1>6. outbox' = Numbered(ClassOf(f), fr) /\ seq' = [seq EXCEPT ![ClassOf(f)] = @ + Len(fr)]
  <2>1. outbox' = << >> \o Numbered(ClassOf(f), fr)
        /\ seq' = [seq EXCEPT ![ClassOf(f)] = @ + Len(fr)]
    BY DEF DrainImgFile, Queue, Idle, fr
  <2>2. Numbered(ClassOf(f), fr) \in Seq(Queueable)
    BY <1>1, <1>4, <1>5, FragmentsQueue
  <2> QED BY <2>1, <2>2
<1> QED BY <1>1, <1>4, <1>5, <1>6, FragmentsQueue

LEMMA EndQueues ==
  ASSUME SerializerTypeOK, WriteImageEof
  PROVE  outbox' \in Seq(Queueable) /\ seq' \in [Class -> Nat]
<1>1. metadata \in Seq(File) /\ seq \in [Class -> Nat]
  BY DEF SerializerTypeOK
<1>2. EndFragments = Chunks!EndFragments
  BY DEF EndFragments, Chunks!EndFragments, Fragment, Chunks!Fragment, EofFragment,
         Chunks!EofFragment
<1>3. Chunks!EndFragments \in [Class -> Seq(Chunks!FragmentSet)]
  BY <1>1, ChunksAssumptions, Chunks!EndFragmentsAre DEF Chunks!Apart, Chunks!Class, Class
<1>4. PICK e : e = EndFragments
  OBVIOUS
<1>5. e \in [Class -> Seq(Chunks!FragmentSet)] /\ "small" \in Class /\ "main" \in Class
  BY <1>2, <1>3, <1>4 DEF Class
<1>6. \A c \in Class : e[c] \in Seq(Chunks!FragmentSet)
  BY <1>5
<1>7. \A c \in Class : Numbered(c, e[c]) \in Seq(Queueable) /\ Len(e[c]) \in Nat
  BY <1>1, <1>6, FragmentsQueue
<1>8. /\ outbox' = Numbered("small", EndFragments.small) \o Numbered("main", EndFragments.main)
      /\ seq' = [c \in Class |-> seq[c] + Len(EndFragments[c])]
  BY DEF WriteImageEof
<1>9. /\ outbox' = Numbered("small", e["small"]) \o Numbered("main", e["main"])
      /\ seq' = [c \in Class |-> seq[c] + Len(e[c])]
  BY <1>4, <1>8
<1> QED BY <1>1, <1>5, <1>7, <1>9

\* The types by themselves, so that a step need only say what it changes.
LEMMA TypedStill ==
  ASSUME ThreadTyped, UNCHANGED <<serializerVars, crashed>>
  PROVE  ThreadTyped'
BY DEF ThreadTyped, SerializerTypeOK, serializerVars

LEMMA TypedFile ==
  ASSUME ThreadTyped, NEW f \in File,
         ClientWrite(f) \/ ClientClose(f), UNCHANGED crashed
  PROVE  ThreadTyped'
<1>1. /\ writer \in [File -> {"none", "open", "closed"}]
      /\ produced \in [File -> 0..MaxSize] /\ drained \in [File -> 0..MaxSize]
      /\ MaxSize \in Nat
      /\ \A g \in File : drained[g] <= produced[g]
  BY SerializerAssumption DEF ThreadTyped, SerializerTypeOK
<1>2. /\ UNCHANGED <<file_state, drained, current_filename, seq, metadata, outbox, target, finished>>
      /\ writer' \in [File -> {"none", "open", "closed"}]
  BY <1>1 DEF ClientWrite, ClientClose
<1>3. produced' \in [File -> 0..MaxSize] /\ \A g \in File : drained[g] <= produced'[g]
  <2>1. CASE ClientClose(f)
    BY <1>1, <2>1 DEF ClientClose
  <2>2. CASE ClientWrite(f)
    <3>1. produced' = [produced EXCEPT ![f] = produced[f] + 1] /\ produced[f] < MaxSize
      BY <2>2 DEF ClientWrite
    <3>2. \A g \in File : produced'[g] \in 0..MaxSize /\ produced[g] <= produced'[g]
      BY <1>1, <3>1
    <3>3. produced' \in [File -> 0..MaxSize]
      BY <1>1, <3>1, <3>2
    <3>4. ASSUME NEW g \in File
          PROVE  drained[g] <= produced'[g]
      <4>1. drained[g] \in Int /\ produced[g] \in Int /\ produced'[g] \in Int
        BY <1>1, <3>3
      <4> QED BY <1>1, <3>2, <4>1
    <3> QED BY <3>3, <3>4
  <2> QED BY <2>1, <2>2
<1> QED BY <1>2, <1>3 DEF ThreadTyped, SerializerTypeOK

LEMMA TypedDrain ==
  ASSUME ThreadTyped, NEW f \in File, Idle, DrainImgFile(f), UNCHANGED crashed
  PROVE  ThreadTyped'
<1>1. SerializerTypeOK /\ drained[f] <= produced[f] /\ target = None
  BY DEF ThreadTyped, Idle
<1>2. outbox' \in Seq(Queueable) /\ seq' \in [Class -> Nat]
  BY <1>1, DrainQueues
<1>3. /\ UNCHANGED <<writer, produced, target, finished>>
      /\ current_filename' = f
      /\ drained' = [drained EXCEPT ![f] = produced[f]]
      /\ metadata' = Listed(f)
      /\ file_state' = [file_state EXCEPT ![f] = IF IsEof(f) THEN "removed" ELSE @]
  BY DEF DrainImgFile
<1>4. metadata' \in Seq(File)
  BY <1>1, <1>3 DEF Listed, SerializerTypeOK
<1>5. file_state' \in [File -> {"absent", "open", "removed"}]
  BY <1>1, <1>3 DEF SerializerTypeOK
<1>6. drained' \in [File -> 0..MaxSize] /\ \A g \in File : drained'[g] <= produced'[g]
  <2>1. produced[f] \in 0..MaxSize /\ MaxSize \in Nat
    BY <1>1, SerializerAssumption DEF SerializerTypeOK
  <2> QED BY <1>1, <1>3, <2>1 DEF SerializerTypeOK, ThreadTyped
<1>7. \A k \in 1..Len(outbox') : /\ outbox'[k].class \in Class
                                 /\ outbox'[k].marker \in Marker
                                 /\ outbox'[k].data \in Seq(Data)
  BY <1>2, QueuedTyped
<1>8. SerializerTypeOK'
  BY <1>1, <1>2, <1>3, <1>4, <1>5, <1>6, <1>7, Zenon DEF SerializerTypeOK
<1> QED BY <1>1, <1>2, <1>3, <1>6, <1>8 DEF ThreadTyped

LEMMA TypedEnd ==
  ASSUME ThreadTyped, Idle, WriteImageEof, UNCHANGED crashed
  PROVE  ThreadTyped'
<1>1. SerializerTypeOK /\ target = None
  BY DEF ThreadTyped, Idle
<1>2. outbox' \in Seq(Queueable) /\ seq' \in [Class -> Nat]
  BY <1>1, EndQueues
<1>3. /\ UNCHANGED <<writer, file_state, produced, drained, current_filename, metadata, target>>
      /\ finished' = TRUE
  BY DEF WriteImageEof
<1>4. \A k \in 1..Len(outbox') : /\ outbox'[k].class \in Class
                                 /\ outbox'[k].marker \in Marker
                                 /\ outbox'[k].data \in Seq(Data)
  BY <1>2, QueuedTyped
<1>5. SerializerTypeOK'
  BY <1>1, <1>2, <1>3, <1>4, Zenon DEF SerializerTypeOK
<1> QED BY <1>1, <1>2, <1>3, <1>5 DEF ThreadTyped

LEMMA TypedWrites ==
  ASSUME ThreadTyped, WritePayload \/ (\E s \in Shard : WriteMarker(s)) \/ CloseShards,
         UNCHANGED crashed
  PROVE  ThreadTyped'
<1>1. /\ UNCHANGED <<writer, file_state, produced, drained, current_filename, seq, metadata,
                     finished>>
      /\ \/ outbox' = outbox /\ (target' = target \/ outbox # << >>)
         \/ outbox' = Tail(outbox) /\ outbox # << >> /\ target' = None
      /\ target' \in Shard \cup {None}
  <2>1. CASE WritePayload
    BY <2>1 DEF WritePayload, ThreadTyped
  <2>2. ASSUME NEW s \in Shard, WriteMarker(s)
        PROVE  /\ UNCHANGED <<writer, file_state, produced, drained, current_filename, seq,
                              metadata, finished>>
               /\ \/ outbox' = outbox /\ outbox # << >>
                  \/ outbox' = Tail(outbox) /\ outbox # << >> /\ target' = None
               /\ target' \in Shard \cup {None}
    BY <2>2 DEF WriteMarker, Idle
  <2>3. CASE CloseShards
    BY <2>3 DEF CloseShards, serializerVars, ThreadTyped, SerializerTypeOK
  <2> QED BY <2>1, <2>2, <2>3
<1>2. outbox' \in Seq(Queueable)
  BY <1>1 DEF ThreadTyped
<1>3. \A k \in 1..Len(outbox') : /\ outbox'[k].class \in Class
                                 /\ outbox'[k].marker \in Marker
                                 /\ outbox'[k].data \in Seq(Data)
  BY <1>2, QueuedTyped
<1>4. SerializerTypeOK
  BY DEF ThreadTyped
<1>5. SerializerTypeOK'
  BY <1>1, <1>3, <1>4, Zenon DEF SerializerTypeOK
<1>6. target' # None => outbox' # << >>
  BY <1>1 DEF ThreadTyped
<1> QED BY <1>1, <1>2, <1>5, <1>6 DEF ThreadTyped

LEMMA TypedInit ==
  Init => ThreadTyped
<1> SUFFICES ASSUME Init
             PROVE  ThreadTyped
  OBVIOUS
<1>1. /\ writer = [f \in File |-> IF f \in ExtFile THEN "open" ELSE "none"]
      /\ file_state = [f \in File |-> IF f \in ExtFile THEN "open" ELSE "absent"]
      /\ produced = [f \in File |-> 0] /\ drained = [f \in File |-> 0]
      /\ current_filename = None /\ seq = [c \in Class |-> 0] /\ metadata = << >>
      /\ outbox = << >> /\ target = None /\ finished = FALSE /\ crashed = FALSE
  BY DEF Init, SerializerInit
<1>2. 0 \in 0..MaxSize
  BY SerializerAssumption
<1>3. writer \in [File -> {"none", "open", "closed"}]
      /\ file_state \in [File -> {"absent", "open", "removed"}]
  BY <1>1
<1>4. /\ produced \in [File -> 0..MaxSize] /\ drained \in [File -> 0..MaxSize]
      /\ \A f \in File : drained[f] <= produced[f]
  BY <1>1, <1>2
<1>5. /\ seq \in [Class -> Nat] /\ metadata \in Seq(File) /\ outbox \in Seq(Queueable)
      /\ 1..Len(outbox) = {}
  BY <1>1
<1>6. SerializerTypeOK
  BY <1>1, <1>3, <1>4, <1>5 DEF SerializerTypeOK
<1> QED BY <1>1, <1>4, <1>5, <1>6 DEF ThreadTyped

LEMMA TypedNext ==
  ASSUME LoopInv, ThreadTyped, [Next]_vars
  PROVE  ThreadTyped'
<1>1. ASSUME NEW c \in Client, Connect(c) \/ AskToStop(c) \/ Disconnect(c)
      PROVE  ThreadTyped'
  BY <1>1, TypedStill DEF Connect, AskToStop, Disconnect, sideVars
<1>2. ASSUME NEW c \in Client, NEW f \in File, Request(c, f)
      PROVE  ThreadTyped'
  <2>1. /\ writer' = [writer EXCEPT ![f] = "open"]
        /\ UNCHANGED <<file_state, produced, drained, current_filename, seq, metadata, outbox,
                       target, finished, crashed>>
    BY <1>2 DEF Request, sideVars
  <2>2. writer' \in [File -> {"none", "open", "closed"}]
    BY <2>1 DEF ThreadTyped, SerializerTypeOK
  <2> QED BY <2>1, <2>2 DEF ThreadTyped, SerializerTypeOK
<1>3. ASSUME NEW f \in File, FileClient(f)
      PROVE  ThreadTyped'
  BY <1>3, TypedFile DEF FileClient, sideVars
<1>4. CASE Poll \/ HandleListener \/ HandleStop \/ HandleHangup
  BY <1>4, TypedStill DEF Poll, HandleListener, HandleStop, HandleHangup, sideVars
<1>5. CASE HandleRequest
  <2>1. PICK f \in File : file_state' = [file_state EXCEPT ![f] = "open"]
    BY <1>5, RequestHandled
  <2>2. UNCHANGED <<writer, produced, drained, current_filename, seq, metadata, outbox,
                    target, finished, crashed>>
    BY <1>5 DEF HandleRequest, sideVars
  <2>3. file_state' \in [File -> {"absent", "open", "removed"}]
    BY <2>1 DEF ThreadTyped, SerializerTypeOK
  <2> QED BY <2>2, <2>3 DEF ThreadTyped, SerializerTypeOK
<1>6. CASE HandleFile
  <2> DEFINE f == slab[Event].id
  <2>1. Dispatch("file") /\ DrainImgFile(f) /\ UNCHANGED crashed
    BY <1>6 DEF HandleFile, sideVars
  <2>2. f \in File
    BY <2>1, Dispatched, Objects DEF LoopInv
  <2>3. Idle
    BY <2>1 DEF Dispatch, AtPoll
  <2> HIDE DEF f
  <2> QED BY <2>1, <2>2, <2>3, TypedDrain
<1>7. CASE Panic
  <2>1. UNCHANGED serializerVars /\ crashed' = TRUE
    BY <1>7 DEF Panic
  <2> QED BY <2>1 DEF ThreadTyped, SerializerTypeOK, serializerVars
<1>8. CASE EndLoop
  BY <1>8, TypedEnd DEF EndLoop, sideVars
<1>9. CASE WriteShards
  BY <1>9, TypedWrites DEF WriteShards, sideVars
<1>10. CASE Exited \/ UNCHANGED vars
  BY <1>10, TypedStill DEF Exited, vars, sideVars
<1> QED BY <1>1, <1>2, <1>3, <1>4, <1>5, <1>6, <1>7, <1>8, <1>9, <1>10 DEF Next, Thread

\* Whatever the clients ask and in which order, also to stop while another is
\* connecting, what capture() and its poller keep has its type: in particular a
\* queue of chunks is never read past its end.
THEOREM CaptureTyping == Spec => []TypeOK
<1>1. Init => LoopInv /\ ThreadTyped
  BY LoopInvInit, TypedInit
<1>2. LoopInv /\ ThreadTyped /\ [Next]_vars => LoopInv' /\ ThreadTyped'
  BY LoopInvNext, TypedNext
<1>3. LoopInv /\ ThreadTyped => TypeOK
  BY DEF LoopInv, ThreadTyped, Inv, TypeOK
<1> QED BY <1>1, <1>2, <1>3, PTL DEF Spec
=============================================================================
