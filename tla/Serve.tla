--------------------------------- MODULE Serve ---------------------------------
(***************************************************************************)
(* serve(): one thread drains the shards into the channel (FileSender),    *)
(* another receives the chunks, keeps them in store, and gives each file   *)
(* to the client that asks for it, over a pipe the client sends once it    *)
(* has been told that the file is ready.  The second thread blocks only in *)
(* poll(), on a client's pipe that is full, and on a pipe it has been      *)
(* promised; memory is given back as chunks go out.                        *)
(***************************************************************************)
EXTENDS FileSender, Poller

CONSTANTS None,
          SmallContent,  \* the small files and what they hold
          Missing,       \* names clients ask for that the image does not have
          Client,        \* the processes that connect
          ClientRoom,    \* units the pipe of a client holds
          Careful        \* whether the clients behave: see the clients below

VARIABLES server,      \* where the serving thread is
          store,       \* chunks received and not sent, per file
          sending,     \* the chunks being sent, and to whom
          cursor,      \* the open pipe that is next to be flushed
          finished,    \* those that have been sent their last chunk
          open_pipes,  \* clients' pipes that are owed more chunks
          filenames_of_sent_files,
          stopped,
          client,      \* what each client has done
          backlog,     \* connections the listener has not accepted
          inbox,       \* messages on each connection that have not been read
          awaits,      \* the reply each client waits for, or has to act on
          out,         \* units in each pipe of a client
          end,         \* its write end
          got,         \* units read from it
          careful      \* the clients behave

bookVars   == <<cursor, finished, open_pipes, filenames_of_sent_files, stopped>>
threadVars == <<server, store, sending, bookVars>>
clientVars == <<client, inbox, awaits, got, careful>>
otherVars  == <<clientVars, backlog, out, end>>   \* the clients, and what is between
vars == <<senderVars, pollerVars, threadVars, otherVars>>

Small == DOMAIN SmallContent

\* The list of files, as the small file shard gave it.
available_files == Large \cup Small \cup Overlay

Pipe == Client \X (available_files \cup Missing)

\* Chunks, and those being sent: at is where the sender is in the first of them.
Chunk    == [file : available_files, content : Seq(Unit), eof : BOOLEAN]
Delivery == [pipe : Client \X available_files, chunks : Seq(Chunk), at : Nat,
             new : BOOLEAN]

ASSUME ServeAssumption ==
  /\ ClientRoom \in Nat \ {0}
  /\ Careful \subseteq BOOLEAN
  /\ SmallContent \in [Small -> Seq(Unit)]
  /\ Small \cap (Large \cup Overlay) = {}
  /\ None \notin Delivery

Listener      == [type |-> "listener", id |-> None]
Connection(c) == [type |-> "client", id |-> c]
listener_key  == 1
ListenerUp    == slab[listener_key] = Listener

Init ==
  /\ SenderInit
  /\ PollerInit(<<Listener>>)
  /\ server = "collect"
  /\ store = [f \in available_files |-> << >>]
  /\ sending = None
  /\ cursor = 1
  /\ finished = {}
  /\ open_pipes = << >>
  /\ filenames_of_sent_files = {}
  /\ stopped = FALSE
  /\ client = [c \in Client |-> "idle"]
  /\ backlog = << >>
  /\ inbox = [c \in Client |-> << >>]
  /\ awaits = [c \in Client |-> None]
  /\ out = [p \in Pipe |-> << >>]
  /\ end = [p \in Pipe |-> "none"]
  /\ got = [p \in Pipe |-> 0]
  /\ careful \in Careful

-----------------------------------------------------------------------------
\* The draining thread; the end of either thread ends the process.

Alive    == drain \in {"drain", "join"}
Serving  == Alive /\ server \notin {"done", "failed"}
Receiver == server \notin {"done", "failed"}

Join ==
  /\ drain = "join"
  /\ ~Receiver
  /\ drain' = IF server = "done" THEN "done" ELSE "failed"
  /\ UNCHANGED <<count, step, done, chunk, channel, small_file_sender>>

Drain ==
  /\ \/ Create \/ AcquireMemory \/ SendContent(Receiver) \/ Insert(Receiver)
     \/ Overlaid \/ CloseSenders \/ Join
  /\ UNCHANGED <<pollerVars, threadVars, otherVars>>

\* A shard is cut: not for clients to decide, but left out when they behave.
CutShard ==
  /\ ~careful
  /\ DrainError
  /\ UNCHANGED <<pollerVars, threadVars, otherVars>>

-----------------------------------------------------------------------------
\* The serving thread: what it receives and what it sends.

\* An error unwinds out of serve_img(), or a panic ends the thread; either drops
\* the pipes it owns.
Fail ==
  /\ server' = "failed"
  /\ end' = [p \in Pipe |-> IF end[p] \in {"offered", "open"} THEN "closed" ELSE end[p]]
  /\ UNCHANGED <<senderVars, slab, free, store, sending, bookVars, out>>

\* What was sent of a small file: nothing but its end if it is empty.
SmallChunks(f) ==
  IF SmallContent[f] = << >> THEN <<Eof(f)>> ELSE <<Content(f, SmallContent[f]), Eof(f)>>

\* The small files are received until their sender is closed.
CollectSmall ==
  /\ Serving
  /\ server = "collect"
  /\ ~small_file_sender
  /\ store' = [f \in available_files |-> IF f \in Small THEN SmallChunks(f) ELSE << >>]
  /\ server' = "recv"
  /\ UNCHANGED <<senderVars, pollerVars, sending, bookVars, otherVars>>

Receive ==
  /\ Serving
  /\ server = "recv"
  /\ channel # << >>
  /\ store' = [store EXCEPT ![Head(channel).file] = Append(@, Head(channel))]
  /\ channel' = Tail(channel)
  /\ UNCHANGED <<count, drain, step, done, chunk, small_file_sender, pollerVars, server,
                 sending, bookVars, otherVars>>

\* Mutant: the thread polls before it has flushed what it received.
NothingToReceive_NoFlush ==
  /\ Serving
  /\ server = "recv"
  /\ channel = << >>
  /\ \/ server' = "flush"
     \/ server' = "poll"
  /\ UNCHANGED <<senderVars, pollerVars, store, sending, bookVars, otherVars>>

\* try_recv() finds the channel empty, or disconnected too.
NothingToReceive ==
  /\ Serving
  /\ server = "recv"
  /\ channel = << >>
  /\ server' = "flush"
  /\ UNCHANGED <<senderVars, pollerVars, store, sending, bookVars, otherVars>>

\* Mutant: the chunks are not taken out of store.
TakeChunks_Kept(f) == UNCHANGED store

TakeChunks(f) == store' = [store EXCEPT ![f] = << >>]

\* An open pipe is sent what has come in for it.
FlushNext ==
  /\ Serving
  /\ server = "flush"
  /\ cursor <= Len(open_pipes)
  /\ LET p == open_pipes[cursor]
     IN  IF store[p[2]] = << >>
         THEN cursor' = cursor + 1 /\ UNCHANGED <<server, store, sending>>
         ELSE /\ sending' = [pipe |-> p, chunks |-> store[p[2]], at |-> 0, new |-> FALSE]
              /\ TakeChunks(p[2])
              /\ server' = "send"
              /\ UNCHANGED cursor
  /\ UNCHANGED <<senderVars, pollerVars, finished, open_pipes, filenames_of_sent_files,
                 stopped, otherVars>>

\* The open pipes without those that were sent everything.
Kept ==
  FlattenSeq([i \in 1..Len(open_pipes) |-> IF i \in finished THEN << >> ELSE <<open_pipes[i]>>])

FlushEnd ==
  /\ Serving
  /\ server = "flush"
  /\ cursor > Len(open_pipes)
  /\ open_pipes' = Kept
  /\ end' = [p \in Pipe |-> IF end[p] = "open" /\ \E i \in finished : p = open_pipes[i]
                            THEN "closed" ELSE end[p]]
  /\ server' = "poll"
  /\ cursor' = 1
  /\ finished' = {}
  /\ UNCHANGED <<senderVars, pollerVars, store, sending, filenames_of_sent_files, stopped,
                 clientVars, backlog, out>>

\* send_over_chunks(), which is called to flush a pipe or to begin a new one.
NextChunk == Head(sending.chunks)

SendingData == Serving /\ server = "send" /\ sending.chunks # << >> /\ ~NextChunk.eof

\* Mutant: the memory of any chunk is given back, large or small.
GiveBack_Any(f, n) == Release(n)

GiveBack(f, n) == IF f \in Large THEN Release(n) ELSE UNCHANGED count

\* A unit goes into the client's pipe; after the last of a chunk the memory it
\* took is given back.
SendUnit ==
  LET last == sending.at + 1 = Len(NextChunk.content)
  IN  /\ SendingData
      /\ Len(out[sending.pipe]) < ClientRoom
      /\ end[sending.pipe] = "open"
      /\ out' = [out EXCEPT ![sending.pipe] = Append(@, NextChunk.content[sending.at + 1])]
      /\ IF last
         THEN /\ sending' = [sending EXCEPT !.chunks = Tail(@), !.at = 0]
              /\ GiveBack(sending.pipe[2], Len(NextChunk.content))
         ELSE sending' = [sending EXCEPT !.at = @ + 1] /\ UNCHANGED count
  /\ UNCHANGED <<drain, step, done, chunk, channel, small_file_sender, pollerVars, server,
                 store, bookVars, clientVars, backlog, end>>

\* The client has closed its end of the pipe.
SendBroken ==
  /\ SendingData
  /\ end[sending.pipe] = "abandoned"
  /\ Fail
  /\ UNCHANGED <<pending_events, clientVars, backlog>>

\* Mutant: a pipe is dropped once it was sent all there is, Eof or not.
SentAll_SoFar == sending.chunks = << >> \/ NextChunk.eof

SentAll == sending.chunks # << >> /\ NextChunk.eof

\* Nothing more to send for now, or nothing at all after Eof: then a new pipe is
\* dropped at once, one of open_pipes when all were flushed.
SendReturn ==
  /\ Serving
  /\ server = "send"
  /\ sending.chunks = << >> \/ SentAll
  /\ sending' = None
  /\ IF sending.new
     THEN /\ server' = "recv"
          /\ open_pipes' = IF SentAll THEN open_pipes ELSE Append(open_pipes, sending.pipe)
          /\ end' = IF SentAll /\ end[sending.pipe] = "open"
                    THEN [end EXCEPT ![sending.pipe] = "closed"] ELSE end
          /\ UNCHANGED <<cursor, finished>>
     ELSE /\ server' = "flush"
          /\ finished' = IF SentAll THEN finished \cup {cursor} ELSE finished
          /\ cursor' = cursor + 1
          /\ UNCHANGED <<open_pipes, end>>
  /\ UNCHANGED <<senderVars, pollerVars, store, filenames_of_sent_files, stopped,
                 clientVars, backlog, out>>

-----------------------------------------------------------------------------
\* The serving thread: polling, and the handlers.

Ready(obj) ==
  \/ obj.type = "listener" /\ backlog # << >>
  \/ obj.type = "client" /\ (inbox[obj.id] # << >> \/ client[obj.id] = "closed")

ReadyKeys == {key \in Occupied : Ready(slab[key])}

AtPoll == Serving /\ server = "poll"

Poll ==
  /\ AtPoll
  /\ EpollWait(ReadyKeys)
  /\ UNCHANGED <<senderVars, threadVars, otherVars>>

\* Nothing happened for as long as the timeout.
PollTimeout ==
  /\ AtPoll
  /\ pending_events = << >>
  /\ ReadyKeys = {}
  /\ server' = IF stopped /\ open_pipes = << >> THEN "done" ELSE "recv"
  /\ UNCHANGED <<senderVars, pollerVars, store, sending, bookVars, otherVars>>

\* The slab is indexed with the key of the listener, which is gone.
Panic ==
  /\ AtPoll
  /\ Dangling
  /\ Fail
  /\ UNCHANGED <<pending_events, clientVars, backlog>>

Dispatch(type) ==
  /\ AtPoll
  /\ PopEvent
  /\ slab[Event] # Vacant
  /\ slab[Event].type = type

HandleListener ==
  /\ Dispatch("listener")
  /\ backlog # << >>
  /\ PollerAdd(Connection(Head(backlog)))
  /\ backlog' = Tail(backlog)
  /\ server' = "recv"
  /\ UNCHANGED <<senderVars, store, sending, bookVars, clientVars, out, end>>

Sender == slab[Event].id

\* The message of the client c is read.
Message(c, type) ==
  /\ Dispatch("client")
  /\ Sender = c
  /\ inbox[c] # << >>
  /\ Head(inbox[c]).type = type
  /\ inbox' = [inbox EXCEPT ![c] = Tail(@)]
  /\ UNCHANGED <<client, got, careful>>

Reply(c, status) ==
  /\ client[c] = "open"
  /\ awaits' = [awaits EXCEPT ![c] = status]

\* stop-listener: the listener is dropped with what it has not accepted.
HandleStop(c) ==
  /\ Message(c, "stop-listener")
  /\ PollerRemove(listener_key)
  /\ stopped' = TRUE
  /\ backlog' = << >>
  /\ server' = IF open_pipes = << >> THEN "done" ELSE "recv"
  /\ UNCHANGED <<senderVars, store, sending, cursor, finished, open_pipes,
                 filenames_of_sent_files, awaits, out, end>>

\* A pattern, and the list of the files that match it.
HandleList(c) ==
  /\ Message(c, "list")
  /\ Reply(c, "list")
  /\ server' = "recv"
  /\ UNCHANGED <<senderVars, slab, free, store, sending, bookVars, backlog, out, end>>

\* The list does not fit into a message: pb_write() panics.
HandleListLong(c) ==
  /\ ~careful
  /\ Message(c, "list")
  /\ client[c] = "open"
  /\ Fail
  /\ UNCHANGED <<awaits, backlog>>

Requested(c) == Head(inbox[c]).id

\* The file has chunks in store: the client is to send a pipe for them.
HandleReady(c) ==
  LET f == Requested(c)
  IN  /\ Message(c, "file")
      /\ f \in available_files /\ store[f] # << >>
      /\ Reply(c, "ready")
      /\ filenames_of_sent_files' = filenames_of_sent_files \cup {f}
      /\ sending' = [pipe |-> <<c, f>>, chunks |-> store[f], at |-> 0, new |-> TRUE]
      /\ TakeChunks(f)
      /\ server' = "pipe"
      /\ UNCHANGED <<senderVars, slab, free, cursor, finished, open_pipes, stopped,
                     backlog, out, end>>

\* Not listed, or listed and still to come.
HandleNotReady(c) ==
  LET f == Requested(c)
  IN  /\ Message(c, "file")
      /\ f \in available_files => store[f] = << >> /\ f \notin filenames_of_sent_files
      /\ Reply(c, IF f \in available_files THEN "not-ready" ELSE "missing")
      /\ server' = "recv"
      /\ UNCHANGED <<senderVars, slab, free, store, sending, bookVars, backlog, out, end>>

\* A second request for a file that was given away is an error.
HandleAgain(c) ==
  LET f == Requested(c)
  IN  /\ Message(c, "file")
      /\ f \in filenames_of_sent_files /\ store[f] = << >>
      /\ Fail
      /\ UNCHANGED <<awaits, backlog>>

\* So is a reply to a client that is gone.
HandleBroken(c) ==
  /\ Message(c, "file") \/ Message(c, "list")
  /\ client[c] = "closed"
  /\ Head(inbox[c]).type = "file" =>
       ~(Requested(c) \in filenames_of_sent_files /\ store[Requested(c)] = << >>)
  /\ Fail
  /\ UNCHANGED <<awaits, backlog>>

\* recv_pipe() waits for the pipe.
ReceivePipe ==
  /\ Serving
  /\ server = "pipe"
  /\ end[sending.pipe] = "offered"
  /\ end' = [end EXCEPT ![sending.pipe] = "open"]
  /\ server' = "send"
  /\ UNCHANGED <<senderVars, pollerVars, store, sending, bookVars, clientVars, backlog,
                 out>>

NoPipe ==
  /\ Serving
  /\ server = "pipe"
  /\ client[sending.pipe[1]] = "closed"
  /\ end[sending.pipe] # "offered"
  /\ Fail
  /\ UNCHANGED <<pending_events, clientVars, backlog>>

\* The end of a connection is reported again and again.
HandleHangup(c) ==
  /\ Dispatch("client")
  /\ Sender = c
  /\ inbox[c] = << >>
  /\ client[c] = "closed"
  /\ server' = "recv"
  /\ UNCHANGED <<senderVars, slab, free, store, sending, bookVars, otherVars>>

Thread ==
  \/ CollectSmall \/ Receive \/ NothingToReceive
  \/ FlushNext \/ FlushEnd
  \/ SendUnit \/ SendBroken \/ SendReturn
  \/ Poll \/ PollTimeout \/ Panic \/ HandleListener
  \/ \E c \in Client : HandleStop(c) \/ HandleList(c) \/ HandleListLong(c)
                         \/ HandleReady(c) \/ HandleNotReady(c) \/ HandleAgain(c)
                         \/ HandleBroken(c) \/ HandleHangup(c)
  \/ ReceivePipe \/ NoPipe
=============================================================================
