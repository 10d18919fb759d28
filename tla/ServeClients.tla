------------------------------ MODULE ServeClients ------------------------------
(***************************************************************************)
(* serve() with its clients.  Careful clients ask for the large files in   *)
(* the order in which they were dumped, each for a file nobody else has    *)
(* asked for, read what they are given to its end, and stop the listener   *)
(* once they have everything; and their shards are whole.  The others do   *)
(* what they like, and what a killed process does.                         *)
(***************************************************************************)
EXTENDS Serve

Gone  == ~Alive \/ ~Receiver
Taken(f)   == \E c \in Client : end[<<c, f>>] # "none"
Fetched(f) == \E c \in Client : end[<<c, f>>] = "closed" /\ out[<<c, f>>] = << >>

AskedFor(f) ==
  \/ \E c \in Client : \E i \in 1..Len(inbox[c]) : inbox[c][i] = [type |-> "file", id |-> f]
  \/ sending # None /\ sending.pipe[2] = f

Created(f) == CHOOSE i \in 1..Len(Script) : Script[i].op = "create" /\ Script[i].file = f

\* What a careful client may ask for.
Due(f) ==
  /\ f \in Large \cup Small
  /\ ~Taken(f)
  /\ ~AskedFor(f)
  /\ f \in Large => \A g \in Large : Created(g) < Created(f) => Fetched(g)

StopAsked ==
  \/ stopped
  \/ \E c \in Client : \E i \in 1..Len(inbox[c]) : inbox[c][i].type = "stop-listener"

\* The streamer announces its socket once the small files are collected.
Listening == Serving /\ ListenerUp /\ server # "collect"

\* A client may begin with a request for the list of files.
Connect(c) ==
  /\ Listening
  /\ client[c] = "idle"
  /\ careful => ~StopAsked
  /\ client' = [client EXCEPT ![c] = "open"]
  /\ backlog' = Append(backlog, c)
  /\ \/ UNCHANGED <<inbox, awaits>>
     \/ /\ inbox' = [inbox EXCEPT ![c] = <<[type |-> "list", id |-> None]>>]
        /\ awaits' = [awaits EXCEPT ![c] = "asked"]
  /\ UNCHANGED <<senderVars, pollerVars, threadVars, got, careful, out, end>>

\* A message is sent once the reply to the last one has been read.
Send(c, message) ==
  /\ ~Gone
  /\ client[c] = "open"
  /\ awaits[c] = None
  /\ inbox' = [inbox EXCEPT ![c] = Append(@, message)]
  /\ UNCHANGED <<senderVars, pollerVars, threadVars, client, got, careful, backlog, out, end>>

Request(c, f) ==
  /\ careful => Due(f)
  /\ Send(c, [type |-> "file", id |-> f])
  /\ awaits' = [awaits EXCEPT ![c] = "asked"]

\* The listener is stopped once, by one of the clients.
AskToStop(c) ==
  /\ ~StopAsked
  /\ careful => backlog = << >> /\ \A f \in Large \cup Small : Fetched(f)
  /\ Send(c, [type |-> "stop-listener", id |-> None])
  /\ UNCHANGED awaits

\* The client gives up, or asks again later.
Resume(c) ==
  /\ awaits[c] \in {"list", "not-ready", "missing"}
  /\ awaits' = [awaits EXCEPT ![c] = None]
  /\ UNCHANGED <<senderVars, pollerVars, threadVars, client, inbox, got, careful, backlog,
                 out, end>>

\* The write end of a new pipe is sent.
Offer(c) ==
  /\ client[c] = "open"
  /\ awaits[c] = "ready"
  /\ server = "pipe"
  /\ awaits' = [awaits EXCEPT ![c] = None]
  /\ end' = [end EXCEPT ![sending.pipe] = "offered"]
  /\ UNCHANGED <<senderVars, pollerVars, threadVars, client, inbox, got, careful, backlog, out>>

ReadUnit(p) ==
  /\ out[p] # << >>
  /\ out' = [out EXCEPT ![p] = Tail(@)]
  /\ got' = [got EXCEPT ![p] = @ + 1]
  /\ UNCHANGED <<senderVars, pollerVars, threadVars, client, inbox, awaits, careful, backlog,
                 end>>

Abandon(p) ==
  /\ ~careful
  /\ end[p] = "open"
  /\ end' = [end EXCEPT ![p] = "abandoned"]
  /\ out' = [out EXCEPT ![p] = << >>]
  /\ UNCHANGED <<senderVars, pollerVars, threadVars, clientVars, backlog>>

Disconnect(c) ==
  /\ client[c] = "open"
  /\ careful => StopAsked /\ awaits[c] = None
  /\ client' = [client EXCEPT ![c] = "closed"]
  /\ UNCHANGED <<senderVars, pollerVars, threadVars, inbox, awaits, got, careful, backlog, out,
                 end>>

ClientStep ==
  \/ \E c \in Client : Connect(c) \/ AskToStop(c) \/ Resume(c) \/ Offer(c) \/ Disconnect(c)
  \/ \E c \in Client, f \in available_files \cup Missing : Request(c, f)
  \/ \E p \in Pipe : ReadUnit(p) \/ Abandon(p)

\* The process is gone.
Exited == ~Alive /\ UNCHANGED vars

Next == ClientStep \/ Drain \/ CutShard \/ Thread \/ Exited

Spec == Init /\ [][Next]_vars

\* Either thread runs whenever it is not blocked.
ThreadsFair == WF_vars(Drain) /\ WF_vars(Thread)

\* Clients that behave do not stop half way.
ClientsFair ==
  /\ \A c \in Client : WF_vars(Connect(c)) /\ WF_vars(Resume(c)) /\ WF_vars(Offer(c))
                         /\ WF_vars(AskToStop(c))
  /\ \A c \in Client, f \in Large \cup Small : SF_vars(careful /\ Request(c, f))
  /\ \A p \in Pipe : WF_vars(ReadUnit(p))

FairSpec  == Spec /\ ThreadsFair
FairServe == FairSpec /\ ClientsFair

-----------------------------------------------------------------------------
TypeOK ==
  /\ count \in 0..Limit
  /\ drain \in {"drain", "join", "done", "failed"}
  /\ server \in {"collect", "recv", "flush", "send", "pipe", "poll", "done", "failed"}
  /\ step \in 1..(Len(Script) + 1)
  /\ server # "failed" => (sending # None <=> server \in {"pipe", "send"})
  /\ cursor \in 1..(Len(open_pipes) + 1)
  /\ finished \subseteq 1..(cursor - 1)
  /\ \A i \in 1..Len(open_pipes) : open_pipes[i] \in Pipe
  /\ filenames_of_sent_files \subseteq available_files
  /\ end \in [Pipe -> {"none", "offered", "open", "closed", "abandoned"}]

\* What is in chunks, and what is in those of the file f.
Units(chunks) == FlattenSeq([i \in 1..Len(chunks) |-> chunks[i].content])
UnitsOf(f, chunks) ==
  FlattenSeq([i \in 1..Len(chunks) |-> IF chunks[i].file = f THEN chunks[i].content ELSE << >>])
BeingSent == IF sending = None THEN << >> ELSE sending.chunks

\* The memory of every chunk of a large file is accounted for, from the moment
\* before it is read from the shard to the moment its last unit is in a client's
\* pipe, and the total never exceeds the limit: the two threads acquire and
\* release it at different times, in different quantities.
InMemory(f) == Len(Units(store[f])) + Len(UnitsOf(f, BeingSent))

MemoryAccounted ==
  Serving =>
    LET held == FoldFunctionOnSet(+, 0, [f \in Large |-> InMemory(f)], Large)
    IN  count + Len(chunk) + Len(Units(channel)) + held = Limit

\* A file is given away once: none that was is ever answered ready again, and the
\* pipe offered for one is the first of all clients, its own among them, so that its
\* chunks are never split between two pipes, though its entry leaves store and comes
\* back as chunks arrive.
OneReader ==
  [][/\ server # "pipe" /\ server' = "pipe" =>
          sending'.pipe[2] \notin filenames_of_sent_files
     /\ \A p \in Pipe : end[p] # "offered" /\ end'[p] = "offered" =>
          \A c \in Client : end[<<c, p[2]>>] = "none"]_vars

\* What the draining thread has sent of f.
Forwarded(f) ==
  LET calls == [i \in 1..Len(Script) |->
                  IF Script[i].op # "data" \/ Script[i].file # f \/ i > step THEN << >>
                  ELSE IF i < step THEN Script[i].data
                  ELSE SubSeq(Script[i].data, 1, done)]
  IN  FlattenSeq(calls)

\* No unit of a large file is lost, repeated or overtaken on its way: what its
\* client has read, its pipe, the rest of what is being sent, store and channel
\* make up, in this order, what was taken from the shards.  And a client finds
\* the end of its pipe only behind the last unit.
Reading(f) == {p \in Pipe : p[2] = f /\ end[p] # "none"}

OnItsWay(f) ==
  LET sent == UnitsOf(f, BeingSent)
      rest == IF sending # None /\ sending.pipe[2] = f
              THEN SubSeq(sent, sending.at + 1, Len(sent)) ELSE sent
  IN  rest \o Units(store[f]) \o UnitsOf(f, channel)

ServedInOrder ==
  /\ Serving => \A f \in Large : \A p \in Reading(f) :
       end[p] # "abandoned" =>
         out[p] \o OnItsWay(f) = SubSeq(Forwarded(f), got[p] + 1, Len(Forwarded(f)))
  /\ Receiver => \A f \in Large : \A p \in Reading(f) :
       end[p] = "closed" => step > Len(Script) \/ \A i \in step..Len(Script) : Script[i].file # f

\* With clients that behave every file is served, in as little memory as one
\* chunk takes, and the process ends.
Served == drain = "done" /\ \A f \in Large \cup Small : Fetched(f)

ServeCompletes == careful => <>Served

\* "Pending files will still be processed", and once none is pending and the
\* listener has been stopped the thread leaves its loop.
StopEnds ==
  (Serving /\ server = "poll" /\ stopped /\ open_pipes = << >>)
    ~> (~Serving)
=============================================================================
