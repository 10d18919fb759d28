-------------------------------- MODULE Capture --------------------------------
(***************************************************************************)
(* capture(): the loop of CaptureLoop down to the poller.  Clients connect *)
(* to the listener, send requests for files over their connection, each    *)
(* with one end of a pipe, and one of them asks to stop listening.  The    *)
(* thread handles one event at a time, and the events of one epoll_wait()  *)
(* may be older than the handlers that ran since.                          *)
(***************************************************************************)
EXTENDS ImageSerializer, Poller

CONSTANTS Client,    \* the processes that connect
          EarlyStop  \* may a client ask to stop while another is connecting?

VARIABLES client,   \* what each client has done
          backlog,  \* connections the listener has not accepted
          inbox,    \* messages on each connection that have not been read
          crashed,  \* the thread has panicked
          early     \* a client may ask to stop while another is connecting

sideVars == <<crashed, early>>
vars == <<pipeVars, serializerVars, pollerVars, client, backlog, inbox, sideVars>>

Listener      == [type |-> "listener", id |-> None]
Connection(c) == [type |-> "client", id |-> c]
ImageFile(f)  == [type |-> "file", id |-> f]
StopListener  == [type |-> "stop-listener", id |-> None]

\* What the poller is given to hold, and what a client may send.
Object  == {Listener} \cup {Connection(c) : c \in Client} \cup {ImageFile(f) : f \in File}
Message == {StopListener} \cup {ImageFile(f) : f \in File}

ASSUME CaptureAssumption ==
  /\ EarlyStop \subseteq BOOLEAN
  /\ IsFiniteSet(ExtFile)
  /\ Vacant \notin Object

\* The listener is the first object added, then come the external files.
listener_key == 1
ListenerUp   == slab[listener_key] = Listener

Holds(obj) == \E key \in 1..Len(slab) : slab[key] = obj

Init ==
  /\ PipesInit
  /\ SerializerInit
  /\ \E files \in SetToSeqs(ExtFile) :
       PollerInit(<<Listener>> \o [i \in 1..Len(files) |-> ImageFile(files[i])])
  /\ client = [c \in Client |-> "idle"]
  /\ backlog = << >>
  /\ inbox = [c \in Client |-> << >>]
  /\ crashed = FALSE
  /\ early \in EarlyStop

-----------------------------------------------------------------------------
\* The clients.

StopAsked == \E c \in Client : \E i \in 1..Len(inbox[c]) : inbox[c][i] = StopListener

Connect(c) ==
  /\ ListenerUp
  /\ client[c] = "idle"
  /\ early \/ ~StopAsked
  /\ client' = [client EXCEPT ![c] = "open"]
  /\ backlog' = Append(backlog, c)
  /\ UNCHANGED <<pipeVars, serializerVars, pollerVars, inbox, sideVars>>

\* The connection is made and the listener has not accepted it.
Waiting(c) == \E i \in 1..Len(backlog) : backlog[i] = c

\* A message is sent on a connection that has not been reset.
Send(c, message) ==
  /\ client[c] = "open"
  /\ Holds(Connection(c)) \/ Waiting(c)
  /\ inbox' = [inbox EXCEPT ![c] = Append(@, message)]

\* The request for f, one end of its pipe with it.
Request(c, f) ==
  /\ writer[f] = "none"
  /\ Send(c, ImageFile(f))
  /\ writer' = [writer EXCEPT ![f] = "open"]
  /\ UNCHANGED <<pipeVars, file_state, produced, drained, current_filename, seq, metadata,
                 outbox, target, finished, pollerVars, client, backlog, sideVars>>

\* One client asks, once (the bound on these requests).
AskToStop(c) ==
  /\ ListenerUp
  /\ ~StopAsked
  /\ early \/ backlog = << >>
  /\ Send(c, StopListener)
  /\ UNCHANGED <<pipeVars, serializerVars, pollerVars, client, backlog, sideVars>>

Disconnect(c) ==
  /\ client[c] = "open"
  /\ client' = [client EXCEPT ![c] = "closed"]
  /\ UNCHANGED <<pipeVars, serializerVars, pollerVars, backlog, inbox, sideVars>>

FileClient(f) ==
  /\ ClientWrite(f) \/ ClientClose(f)
  /\ UNCHANGED <<pollerVars, client, backlog, inbox, sideVars>>

-----------------------------------------------------------------------------
\* The thread: poll(), then the handler of the event.

Ready(obj) ==
  \/ obj.type = "listener" /\ backlog # << >>
  \/ obj.type = "client" /\ (inbox[obj.id] # << >> \/ client[obj.id] = "closed")
  \/ obj.type = "file" /\ FileReady(obj.id)

AtPoll == Idle /\ ~finished /\ ~crashed /\ Occupied # {}

Poll ==
  /\ AtPoll
  /\ EpollWait({key \in Occupied : Ready(slab[key])})
  /\ UNCHANGED <<pipeVars, serializerVars, client, backlog, inbox, sideVars>>

\* poll() hands out the object at the key of the event.
Dispatch(type) ==
  /\ AtPoll
  /\ PopEvent
  /\ slab[Event] # Vacant
  /\ slab[Event].type = type

HandleListener ==
  /\ Dispatch("listener")
  /\ backlog # << >>
  /\ PollerAdd(Connection(Head(backlog)))
  /\ backlog' = Tail(backlog)
  /\ UNCHANGED <<pipeVars, serializerVars, client, inbox, sideVars>>

ReadMessage(type) ==
  LET c == slab[Event].id
  IN  /\ Dispatch("client")
      /\ inbox[c] # << >>
      /\ Head(inbox[c]).type = type
      /\ inbox' = [inbox EXCEPT ![c] = Tail(@)]

\* Mutant: the file is drained on arrival, before it is polled.
HandleRequest_Drained ==
  /\ ReadMessage("file")
  /\ LET f == Head(inbox[slab[Event].id]).id
     IN  /\ PollerAdd(ImageFile(f))
         /\ file_state' = [file_state EXCEPT ![f] = "open"]
         /\ Queue(ClassOf(f), FilenameFragment(f) \o DataFragments(f))
         /\ current_filename' = f
         /\ drained' = [drained EXCEPT ![f] = produced[f]]
  /\ UNCHANGED <<pipeVars, writer, produced, metadata, target, finished, client, backlog,
                 sideVars>>

HandleRequest ==
  /\ ReadMessage("file")
  /\ LET f == Head(inbox[slab[Event].id]).id
     IN  /\ PollerAdd(ImageFile(f))
         /\ file_state' = [file_state EXCEPT ![f] = "open"]
  /\ UNCHANGED <<pipeVars, writer, produced, drained, current_filename, seq, metadata,
                 outbox, target, finished, client, backlog, sideVars>>

\* The listener is dropped, and with it the connections not accepted yet.
HandleStop ==
  /\ ReadMessage("stop-listener")
  /\ PollerRemove(listener_key)
  /\ backlog' = << >>
  /\ UNCHANGED <<pipeVars, serializerVars, client, sideVars>>

\* Mutant: the connection stays in the poller, readable for ever.
HandleHangup_Kept ==
  /\ Dispatch("client")
  /\ inbox[slab[Event].id] = << >>
  /\ client[slab[Event].id] = "closed"
  /\ UNCHANGED <<pipeVars, serializerVars, slab, free, client, backlog, inbox, sideVars>>

HandleHangup ==
  /\ Dispatch("client")
  /\ inbox[slab[Event].id] = << >>
  /\ client[slab[Event].id] = "closed"
  /\ PollerRemove(Event)
  /\ UNCHANGED <<pipeVars, serializerVars, client, backlog, inbox, sideVars>>

HandleFile ==
  /\ Dispatch("file")
  /\ DrainImgFile(slab[Event].id)
  /\ IF file_state'[slab[Event].id] = "removed"
     THEN PollerRemove(Event)
     ELSE UNCHANGED <<slab, free>>
  /\ UNCHANGED <<client, backlog, inbox, sideVars>>

\* The slab is indexed with a key that is vacant by now.
Panic ==
  /\ AtPoll
  /\ Dangling
  /\ crashed' = TRUE
  /\ UNCHANGED <<pipeVars, serializerVars, pollerVars, client, backlog, inbox, early>>

\* An empty poller ends the loop.
EndLoop ==
  /\ Idle
  /\ Occupied = {}
  /\ WriteImageEof
  /\ UNCHANGED <<pollerVars, client, backlog, inbox, sideVars>>

WriteShards ==
  /\ WritePayload \/ (\E s \in Shard : WriteMarker(s)) \/ CloseShards
  /\ UNCHANGED <<pollerVars, client, backlog, inbox, sideVars>>

Thread ==
  \/ Poll
  \/ HandleListener \/ HandleRequest \/ HandleStop \/ HandleHangup \/ HandleFile
  \/ Panic \/ EndLoop \/ WriteShards

Ended == \A s \in Shard : ending[s] = "eof"

Exited == (Ended \/ crashed) /\ UNCHANGED vars

Next ==
  \/ \E c \in Client : Connect(c) \/ AskToStop(c) \/ Disconnect(c)
  \/ \E c \in Client, f \in File : Request(c, f)
  \/ \E f \in File : FileClient(f)
  \/ Thread
  \/ Exited

Spec == Init /\ [][Next]_vars

\* The thread runs whenever it is not blocked; a client may do nothing.
FairSpec == Spec /\ WF_vars(Thread)

-----------------------------------------------------------------------------
TypeOK ==
  /\ SerializerTypeOK
  /\ slab \in Seq(Object \cup {Vacant})
  /\ free \in Seq(1..Len(slab))
  /\ pending_events \in Seq(1..Len(slab))
  /\ client \in [Client -> {"idle", "open", "closed"}]
  /\ backlog \in Seq(Client)
  /\ inbox \in [Client -> Seq(Message)]
  /\ crashed \in BOOLEAN
  /\ early \in BOOLEAN

\* The vacant keys are the free ones, each of them once, and nothing is held twice.
SlabAccounted ==
  /\ {free[i] : i \in 1..Len(free)} = {key \in 1..Len(slab) : slab[key] = Vacant}
  /\ \A i, j \in 1..Len(free) : free[i] = free[j] => i = j
  /\ \A i, j \in Occupied : slab[i] = slab[j] => i = j

\* The slab, its free list, and what the poller is said to hold agree, however
\* often keys are used again.
KeysAccounted ==
  /\ SlabAccounted
  /\ \A f \in File : file_state[f] = "open" <=> Holds(ImageFile(f))

\* Unless a client asks to stop while another is connecting, an event handed
\* out is one of the object it was reported for, and is still news: nothing else
\* consumes what made the object ready.
EventsFresh ==
  ~early =>
    \A i \in 1..Len(pending_events) :
      LET obj == slab[pending_events[i]] IN obj # Vacant /\ Ready(obj)

\* End of file is concluded of a pipe only when its writer has closed it and
\* all that was written has been read ("only invoked when the poller reports
\* that the image file's pipe is readable (or errored)").
EofMeansClosed ==
  \A f \in File :
    file_state[f] = "removed" => writer[f] = "closed" /\ drained[f] = produced[f]

\* That holds unless a client asks to stop while another is connecting.
EofMeansClosedOrderly == ~early => EofMeansClosed

\* No message is on its way twice.
MessagesOnce ==
  \A c, d \in Client : \A i \in 1..Len(inbox[c]), j \in 1..Len(inbox[d]) :
    inbox[c][i] = inbox[d][j] => c = d /\ i = j

\* A file is added once: not before its pipe is made, nor while it is on its way.
FilesOnce ==
  /\ \A c \in Client : \A i \in 1..Len(inbox[c]) : \A f \in File :
       inbox[c][i] = ImageFile(f) => file_state[f] = "absent" /\ writer[f] # "none"
  /\ \A f \in File : writer[f] = "none" => file_state[f] = "absent"

\* Nothing but the request to stop takes the listener from its key.
ListenerKept == (StopAsked \/ Holds(Listener)) => ListenerUp

\* A connection waits to be accepted once, or is held, or was never made.
BacklogApart ==
  /\ \A i, j \in 1..Len(backlog) : backlog[i] = backlog[j] => i = j
  /\ \A c \in Client : Waiting(c) => client[c] # "idle" /\ ~Holds(Connection(c))
  /\ \A c \in Client : Holds(Connection(c)) => client[c] # "idle"

StopOrderly == ~early /\ StopAsked => backlog = << >>

EventsDistinct ==
  \A i, j \in 1..Len(pending_events) : pending_events[i] = pending_events[j] => i = j

\* What the steps preserve: the types of what the thread and its clients share,
\* and what keeps an event fresh and a key in one place.
Inv ==
  /\ writer \in [File -> {"none", "open", "closed"}]
  /\ file_state \in [File -> {"absent", "open", "removed"}]
  /\ produced \in [File -> Nat]
  /\ drained \in [File -> Nat]
  /\ slab \in Seq(Object \cup {Vacant})
  /\ free \in Seq(1..Len(slab))
  /\ pending_events \in Seq(1..Len(slab))
  /\ client \in [Client -> {"idle", "open", "closed"}]
  /\ backlog \in Seq(Client)
  /\ inbox \in [Client -> Seq(Message)]
  /\ early \in BOOLEAN
  /\ KeysAccounted
  /\ MessagesOnce
  /\ FilesOnce
  /\ ListenerKept
  /\ BacklogApart
  /\ StopOrderly
  /\ EventsDistinct
  /\ EventsFresh
  /\ EofMeansClosedOrderly

\* The thread, its poller and the clients behave as CaptureLoop says, where any
\* source that is ready may be served and nothing else, unless a client asks to
\* stop while another is connecting.
Loop == INSTANCE CaptureLoop
          WITH expecting <- \E key \in Occupied : slab[key].type \in {"listener", "client"}

RefinesLoop == (early \/ Loop!LoopInit) /\ [][early \/ Loop!LoopNext]_(Loop!loopVars)

\* Once the listener is stopped and every client has closed what it opened,
\* capture writes the end of the image and exits.
ClientsDone ==
  /\ ~ListenerUp
  /\ \A c \in Client : Holds(Connection(c)) => client[c] = "closed"
  /\ \A f \in File : writer[f] # "open"

CaptureEnds == (ClientsDone /\ ~early) ~> Ended
=============================================================================
