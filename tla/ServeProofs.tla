------------------------------- MODULE ServeProofs -------------------------------
(***************************************************************************)
(* Every file is served to one reader, in order, and the memory of every   *)
(* chunk is accounted for: proofs about serve() with any clients.          *)
(***************************************************************************)
EXTENDS ServeClients, DataLemmas

-----------------------------------------------------------------------------
\* The invariant.

\* An end of file has no content, and nothing else has none.
ChunkOf(F) == {ch \in Chunk : ch.file \in F /\ (ch.eof <=> ch.content = << >>)}

Places == {"collect", "recv", "flush", "send", "pipe", "poll", "done", "failed"}
Ends   == {"none", "offered", "open", "closed", "abandoned"}

Holders == Client \X available_files

DrainTyped ==
  /\ count \in 0..Limit
  /\ drain \in {"drain", "join", "done", "failed"}
  /\ step \in 1..(Len(Script) + 1)
  /\ done \in Nat
  /\ chunk \in Seq(Unit)
  /\ channel \in Seq(ChunkOf(Large))

ServerTyped ==
  /\ server \in Places
  /\ store = [f \in available_files |-> store[f]]
  /\ \A f \in available_files : store[f] \in Seq(ChunkOf({f}))
  /\ sending # None => /\ sending \in Delivery
                       /\ sending.chunks \in Seq(ChunkOf({sending.pipe[2]}))
  /\ open_pipes \in Seq(Holders)
  /\ filenames_of_sent_files \subseteq available_files

PipesTyped ==
  /\ out \in [Pipe -> Seq(Unit)]
  /\ end \in [Pipe -> Ends]
  /\ got \in [Pipe -> Nat]

Typed == DrainTyped /\ ServerTyped /\ PipesTyped

\* Where the serving thread is, in open_pipes and in what it sends.
Turns ==
  /\ cursor \in 1..(Len(open_pipes) + 1)
  /\ finished \subseteq 1..(cursor - 1)
  /\ server # "failed" => (sending # None <=> server \in {"pipe", "send"})
  /\ server \in {"collect", "recv", "poll", "pipe"} => cursor = 1
  /\ server = "pipe" => sending.new /\ sending.at = 0
  /\ server = "send" =>
       IF sending.new THEN cursor = 1
       ELSE cursor <= Len(open_pipes) /\ sending.pipe = open_pipes[cursor]
  /\ sending # None =>
       \/ sending.at = 0
       \/ sending.chunks # << >> /\ sending.at < Len(Head(sending.chunks).content)

\* The draining thread holds a piece of the data it is at.
InData ==
  /\ step <= Len(Script) /\ Script[step].op = "data" /\ Script[step].file \in Large

Draining ==
  /\ done # 0 => InData /\ done < Len(Script[step].data)
  /\ chunk # << >> =>
       /\ InData
       /\ done + Len(chunk) <= Len(Script[step].data)
       /\ chunk = SubSeq(Script[step].data, done + 1, done + Len(chunk))

\* Nothing more of f comes out of the script, or out of the channel, or of store.
ScriptOver(f) == \A i \in step..Len(Script) : Script[i].file # f
NoMore(f)     == ScriptOver(f) /\ \A i \in 1..Len(channel) : channel[i].file # f
Over(f)       == NoMore(f) /\ store[f] = << >>

\* Nothing of a file is behind its end.
EndsInChannel ==
  \A i \in 1..Len(channel) : channel[i].eof =>
    /\ ScriptOver(channel[i].file)
    /\ \A j \in (i + 1)..Len(channel) : channel[j].file # channel[i].file

EndsInStore ==
  \A f \in available_files : \A i \in 1..Len(store[f]) : store[f][i].eof =>
    i = Len(store[f]) /\ NoMore(f)

EndsInSending ==
  sending # None => \A i \in 1..Len(sending.chunks) : sending.chunks[i].eof =>
    i = Len(sending.chunks) /\ Over(sending.pipe[2])

EndsLast == EndsInChannel /\ EndsInStore /\ EndsInSending

\* A pipe has been asked of p[1] for p[2]; more may come for it.
Sending(p) == sending # None /\ sending.pipe = p
Held(p)    == end[p] # "none" \/ Sending(p)
Open(p)    == Has(open_pipes, p)

OneHolder == \A p, q \in Holders : Held(p) /\ Held(q) /\ p[2] = q[2] => p = q

\* Who has asked for a file is owed chunks or has had all there are.
HolderOwed ==
  server # "failed" => \A p \in Holders : Held(p) => Open(p) \/ Sending(p) \/ Over(p[2])

\* So far open pipes have been sent what came in: what is in store when a client is
\* heard has no holder.
FlushedUpTo(n) == \A i \in 1..n : store[open_pipes[i][2]] = << >>

Flushed ==
  /\ server \in {"poll", "pipe"} => FlushedUpTo(Len(open_pipes))
  /\ server = "send" /\ sending.new => FlushedUpTo(Len(open_pipes))
  /\ server = "flush" => FlushedUpTo(cursor - 1)
  /\ server = "send" /\ ~sending.new => FlushedUpTo(cursor)

FinishedOver == server # "failed" => \A i \in finished : Over(open_pipes[i][2])
ClosedOver   == server # "failed" => \A p \in Holders : end[p] = "closed" => Over(p[2])

AllOffered ==
  /\ server = "send" => end[sending.pipe] # "none"
  /\ \A i \in 1..Len(open_pipes) : end[open_pipes[i]] # "none"

NotBegun ==
  server = "collect" =>
    /\ open_pipes = << >>
    /\ \A f \in available_files : store[f] = << >>
    /\ \A p \in Pipe : end[p] = "none"

Owed ==
  OneHolder /\ HolderOwed /\ Flushed /\ FinishedOver /\ ClosedOver /\ AllOffered /\ NotBegun

Inv == Typed /\ Turns /\ Draining /\ EndsLast /\ Owed

\* The pipe that is waited for is new, and a file that was given away has a holder.
Given ==
  /\ server = "pipe" => end[sending.pipe] \in {"none", "offered"}
  /\ \A f \in filenames_of_sent_files : \E p \in Holders : p[2] = f /\ Held(p)

\* What the client of p has read and what it will read are all there is of p[2].
Whole(p) ==
  /\ got[p] <= Len(Forwarded(p[2]))
  /\ out[p] \o OnItsWay(p[2]) = Suffix(Forwarded(p[2]), got[p])

InOrder ==
  /\ \A p \in Pipe : end[p] = "none" => out[p] = << >> /\ got[p] = 0
  /\ server = "pipe" => end[sending.pipe] \in {"none", "offered"}
  /\ Serving =>
       \A p \in Holders : p[2] \in Large /\ end[p] # "abandoned" =>
         Whole(p) \/ \E q \in Holders : q # p /\ q[2] = p[2] /\ Held(q)

-----------------------------------------------------------------------------
\* What a step does to the variables the invariant is about.

SameDrain == /\ count' = count /\ drain' = drain /\ step' = step /\ done' = done
             /\ chunk' = chunk /\ channel' = channel
SameBooks == /\ cursor' = cursor /\ finished' = finished /\ open_pipes' = open_pipes
             /\ filenames_of_sent_files' = filenames_of_sent_files
SameServer == server' = server /\ store' = store /\ sending' = sending /\ SameBooks
SamePipes == out' = out /\ end' = end /\ got' = got

Skips ==
  /\ drain = "drain" /\ step <= Len(Script)
  /\ Script[step].op = "create" \/ Script[step].file \in Overlay
  /\ step' = step + 1
  /\ count' = count /\ drain' = drain /\ done' = done /\ chunk' = chunk
  /\ channel' = channel
  /\ SameServer /\ SamePipes

Acquires ==
  /\ drain = "drain" /\ InData
  /\ chunk = << >>
  /\ Acquire(Len(Piece))
  /\ chunk' = Piece
  /\ drain' = drain /\ step' = step /\ done' = done /\ channel' = channel
  /\ SameServer /\ SamePipes

Forwards ==
  /\ drain = "drain" /\ InData
  /\ chunk # << >>
  /\ chunk' = << >>
  /\ channel' = IF Receiver THEN Append(channel, Content(Script[step].file, chunk)) ELSE channel
  /\ IF done + Len(chunk) = Len(Script[step].data)
     THEN done' = 0 /\ step' = step + 1 ELSE done' = done + Len(chunk) /\ step' = step
  /\ count' = count /\ drain' = drain
  /\ SameServer /\ SamePipes

Inserts ==
  /\ drain = "drain" /\ step <= Len(Script)
  /\ Script[step].op = "insert" /\ Script[step].file \in Large
  /\ Receiver
  /\ channel' = Append(channel, Eof(Script[step].file))
  /\ step' = step + 1
  /\ count' = count /\ drain' = drain /\ done' = done /\ chunk' = chunk
  /\ SameServer /\ SamePipes

Finishes ==
  /\ drain' \in {"join", "done", "failed"}
  /\ Alive' => Alive
  /\ count' = count /\ step' = step /\ done' = done /\ chunk' = chunk /\ channel' = channel
  /\ SameServer /\ SamePipes

Fails ==
  /\ server' = "failed"
  /\ end' = [p \in Pipe |-> IF end[p] \in {"offered", "open"} THEN "closed" ELSE end[p]]
  /\ store' = store /\ sending' = sending /\ out' = out /\ got' = got
  /\ SameDrain /\ SameBooks

Collects ==
  /\ Serving /\ server = "collect" /\ server' = "recv"
  /\ store' = [f \in available_files |-> IF f \in Small THEN SmallChunks(f) ELSE << >>]
  /\ sending' = sending
  /\ SameDrain /\ SameBooks /\ SamePipes

Receives ==
  /\ Serving /\ server = "recv" /\ server' = "recv"
  /\ channel # << >>
  /\ store' = [store EXCEPT ![Head(channel).file] = Append(@, Head(channel))]
  /\ channel' = Tail(channel)
  /\ count' = count /\ drain' = drain /\ step' = step /\ done' = done /\ chunk' = chunk
  /\ sending' = sending
  /\ SameBooks /\ SamePipes

GoesOn ==
  /\ Serving /\ server = "recv" /\ server' = "flush"
  /\ store' = store /\ sending' = sending
  /\ SameDrain /\ SameBooks /\ SamePipes

Passes ==
  /\ Serving /\ server = "flush" /\ server' = "flush"
  /\ cursor <= Len(open_pipes) /\ store[open_pipes[cursor][2]] = << >>
  /\ cursor' = cursor + 1
  /\ finished' = finished /\ open_pipes' = open_pipes
  /\ filenames_of_sent_files' = filenames_of_sent_files
  /\ store' = store /\ sending' = sending
  /\ SameDrain /\ SamePipes

Flushes ==
  /\ Serving /\ server = "flush" /\ server' = "send"
  /\ cursor <= Len(open_pipes)
  /\ sending' = [pipe |-> open_pipes[cursor], chunks |-> store[open_pipes[cursor][2]],
                 at |-> 0, new |-> FALSE]
  /\ store' = [store EXCEPT ![open_pipes[cursor][2]] = << >>]
  /\ SameDrain /\ SameBooks /\ SamePipes

Drops ==
  /\ Serving /\ server = "flush" /\ server' = "poll"
  /\ cursor > Len(open_pipes)
  /\ open_pipes' = Kept
  /\ end' = [p \in Pipe |-> IF end[p] = "open" /\ \E i \in finished : p = open_pipes[i]
                            THEN "closed" ELSE end[p]]
  /\ cursor' = 1 /\ finished' = {}
  /\ filenames_of_sent_files' = filenames_of_sent_files
  /\ store' = store /\ sending' = sending /\ out' = out /\ got' = got
  /\ SameDrain

\* The unit goes out, and the chunk with it if it is the last.
Splices ==
  /\ SendingData
  /\ end[sending.pipe] = "open"
  /\ out' = [out EXCEPT ![sending.pipe] = Append(@, NextChunk.content[sending.at + 1])]
  /\ IF sending.at + 1 = Len(NextChunk.content)
     THEN /\ sending' = [sending EXCEPT !.chunks = Tail(@), !.at = 0]
          /\ GiveBack(sending.pipe[2], Len(NextChunk.content))
     ELSE sending' = [sending EXCEPT !.at = @ + 1] /\ count' = count
  /\ drain' = drain /\ step' = step /\ done' = done /\ chunk' = chunk /\ channel' = channel
  /\ server' = server /\ store' = store /\ end' = end /\ got' = got
  /\ SameBooks

ReturnsNew ==
  /\ Serving /\ server = "send" /\ server' = "recv"
  /\ sending.chunks = << >> \/ SentAll
  /\ sending.new /\ sending' = None
  /\ open_pipes' = IF SentAll THEN open_pipes ELSE Append(open_pipes, sending.pipe)
  /\ end' = IF SentAll /\ end[sending.pipe] = "open"
            THEN [end EXCEPT ![sending.pipe] = "closed"] ELSE end
  /\ cursor' = cursor /\ finished' = finished
  /\ filenames_of_sent_files' = filenames_of_sent_files
  /\ store' = store /\ out' = out /\ got' = got
  /\ SameDrain

ReturnsOld ==
  /\ Serving /\ server = "send" /\ server' = "flush"
  /\ sending.chunks = << >> \/ SentAll
  /\ ~sending.new /\ sending' = None
  /\ finished' = IF SentAll THEN finished \cup {cursor} ELSE finished
  /\ cursor' = cursor + 1
  /\ open_pipes' = open_pipes
  /\ filenames_of_sent_files' = filenames_of_sent_files
  /\ store' = store
  /\ SameDrain /\ SamePipes

Heard ==
  /\ Serving /\ server = "poll"
  /\ server' \in {"recv", "done"}
  /\ store' = store /\ sending' = sending
  /\ SameDrain /\ SameBooks /\ SamePipes

Promises(p) ==
  /\ Serving /\ server = "poll" /\ server' = "pipe"
  /\ store[p[2]] # << >>
  /\ sending' = [pipe |-> p, chunks |-> store[p[2]], at |-> 0, new |-> TRUE]
  /\ store' = [store EXCEPT ![p[2]] = << >>]
  /\ filenames_of_sent_files' = filenames_of_sent_files \cup {p[2]}
  /\ cursor' = cursor /\ finished' = finished /\ open_pipes' = open_pipes
  /\ SameDrain /\ SamePipes

\* The pipe is offered, or received.
Opens ==
  /\ server = "pipe" /\ server' \in {"pipe", "send"}
  /\ \E e \in {"offered", "open"} : end' = [end EXCEPT ![sending.pipe] = e]
  /\ server' = "pipe" => end' = [end EXCEPT ![sending.pipe] = "offered"]
  /\ store' = store /\ sending' = sending /\ out' = out /\ got' = got
  /\ SameDrain /\ SameBooks

Reads(p) ==
  /\ out[p] # << >>
  /\ out' = [out EXCEPT ![p] = Tail(@)]
  /\ got' = [got EXCEPT ![p] = @ + 1]
  /\ end' = end
  /\ SameDrain /\ SameServer

Abandons(p) ==
  /\ end[p] = "open"
  /\ end' = [end EXCEPT ![p] = "abandoned"]
  /\ out' = [out EXCEPT ![p] = << >>]
  /\ got' = got
  /\ SameDrain /\ SameServer

Rests == SameDrain /\ SameServer /\ SamePipes

DrainStep == Skips \/ Acquires \/ Forwards \/ Inserts \/ Finishes

ServerStep ==
  \/ Fails \/ Collects \/ Receives \/ GoesOn \/ Passes \/ Flushes \/ Drops
  \/ Splices \/ ReturnsNew \/ ReturnsOld \/ Heard \/ Opens
  \/ \E p \in Holders : Promises(p)

CoreStep == DrainStep \/ ServerStep \/ (\E p \in Pipe : Reads(p) \/ Abandons(p)) \/ Rests

LEMMA DrainSteps ==
  ASSUME Drain \/ CutShard
  PROVE  DrainStep
<1> USE DEF SameServer, SameBooks, SamePipes, threadVars, otherVars, bookVars, clientVars,
            At
<1>1. ASSUME Drain
      PROVE  /\ server' = server /\ store' = store /\ sending' = sending
             /\ SameBooks /\ SamePipes
             /\ \/ Create \/ AcquireMemory \/ SendContent(Receiver) \/ Insert(Receiver)
                \/ Overlaid \/ CloseSenders \/ Join
  BY <1>1 DEF Drain
<1>2. CASE Drain /\ Create
  BY <1>1, <1>2 DEF Create, DrainStep, Skips
<1>3. CASE Drain /\ AcquireMemory
  BY <1>1, <1>3 DEF AcquireMemory, DrainStep, Acquires, InData
<1>4. CASE Drain /\ SendContent(Receiver)
  <2>1. Forwards
    BY <1>1, <1>4 DEF SendContent, Forwards, InData
  <2> QED BY <2>1 DEF DrainStep
<1>5. CASE Drain /\ Insert(Receiver)
  <2>1. CASE Receiver
    BY <1>1, <1>5, <2>1 DEF Insert, DrainStep, Inserts
  <2>2. CASE ~Receiver
    BY <1>1, <1>5, <2>2 DEF Insert, DrainStep, Finishes, Alive
  <2> QED BY <2>1, <2>2
<1>6. CASE Drain /\ Overlaid
  BY <1>1, <1>6 DEF Overlaid, DrainStep, Skips
<1>7. CASE Drain /\ (CloseSenders \/ Join)
  BY <1>1, <1>7 DEF CloseSenders, Join, DrainStep, Finishes, Alive
<1>8. CASE CutShard
  BY <1>8 DEF CutShard, DrainError, DrainStep, Finishes, Alive
<1> QED BY <1>1, <1>2, <1>3, <1>4, <1>5, <1>6, <1>7, <1>8

LEMMA ThreadSteps ==
  ASSUME Thread
  PROVE  ServerStep \/ Rests
<1> USE DEF SameDrain, SameServer, SameBooks, SamePipes, senderVars, pollerVars, threadVars,
            otherVars, bookVars, clientVars
<1>1. CASE CollectSmall
  BY <1>1 DEF CollectSmall, ServerStep, Collects
<1>2. CASE Receive
  BY <1>2 DEF Receive, ServerStep, Receives
<1>3. CASE NothingToReceive
  BY <1>3 DEF NothingToReceive, ServerStep, GoesOn
<1>4. CASE FlushNext
  <2>1. CASE store[open_pipes[cursor][2]] = << >>
    BY <1>4, <2>1 DEF FlushNext, ServerStep, Passes
  <2>2. CASE store[open_pipes[cursor][2]] # << >>
    BY <1>4, <2>2 DEF FlushNext, TakeChunks, ServerStep, Flushes
  <2> QED BY <2>1, <2>2
<1>5. CASE FlushEnd
  BY <1>5 DEF FlushEnd, ServerStep, Drops
<1>6. CASE SendUnit
  <2>1. Splices
    BY <1>6 DEF SendUnit, Splices
  <2> QED BY <2>1 DEF ServerStep
<1>7. CASE SendBroken
  BY <1>7 DEF SendBroken, Fail, ServerStep, Fails
<1>8. CASE SendReturn
  <2>1. CASE sending.new
    <3>1. ReturnsNew
      BY <1>8, <2>1 DEF SendReturn, ReturnsNew
    <3> QED BY <3>1 DEF ServerStep
  <2>2. CASE ~sending.new
    <3>1. ReturnsOld
      BY <1>8, <2>2 DEF SendReturn, ReturnsOld
    <3> QED BY <3>1 DEF ServerStep
  <2> QED BY <2>1, <2>2
<1>9. CASE Poll
  BY <1>9 DEF Poll, Rests
<1>10. CASE PollTimeout
  BY <1>10 DEF PollTimeout, AtPoll, ServerStep, Heard
<1>11. CASE Panic
  BY <1>11 DEF Panic, Fail, ServerStep, Fails
<1>12. CASE HandleListener
  BY <1>12 DEF HandleListener, Dispatch, AtPoll, ServerStep, Heard
<1>13. CASE ReceivePipe
  BY <1>13 DEF ReceivePipe, ServerStep, Opens
<1>14. CASE NoPipe
  BY <1>14 DEF NoPipe, Fail, ServerStep, Fails
<1>15. ASSUME NEW c \in Client, HandleStop(c)
       PROVE  ServerStep
  BY <1>15 DEF HandleStop, Message, Dispatch, AtPoll, ServerStep, Heard
<1>16. ASSUME NEW c \in Client, HandleList(c)
       PROVE  ServerStep
  BY <1>16 DEF HandleList, Message, Dispatch, AtPoll, ServerStep, Heard
<1>17. ASSUME NEW c \in Client, HandleReady(c)
       PROVE  ServerStep
  <2>1. PICK f \in available_files : f = Requested(c)
    BY <1>17 DEF HandleReady
  <2>2. PICK p \in Holders : p = <<c, f>>
    BY DEF Holders
  <2>3. p[2] = f
    BY <2>2
  <2>4. Promises(p)
    BY <1>17, <2>1, <2>2, <2>3
       DEF HandleReady, Message, Dispatch, AtPoll, TakeChunks, Promises
  <2> QED BY <2>4 DEF ServerStep
<1>18. ASSUME NEW c \in Client, HandleNotReady(c)
       PROVE  ServerStep
  BY <1>18 DEF HandleNotReady, Message, Dispatch, AtPoll, ServerStep, Heard
<1>19. ASSUME NEW c \in Client, HandleAgain(c) \/ HandleBroken(c) \/ HandleListLong(c)
       PROVE  ServerStep
  <2>1. Fails
    BY <1>19 DEF HandleAgain, HandleBroken, HandleListLong, Message, Fail, Fails
  <2> QED BY <2>1 DEF ServerStep
<1>20. ASSUME NEW c \in Client, HandleHangup(c)
       PROVE  ServerStep
  BY <1>20 DEF HandleHangup, Dispatch, AtPoll, ServerStep, Heard
<1> QED BY <1>1, <1>2, <1>3, <1>4, <1>5, <1>6, <1>7, <1>8, <1>9, <1>10, <1>11, <1>12, <1>13,
           <1>14, <1>15, <1>16, <1>17, <1>18, <1>19, <1>20 DEF Thread

LEMMA ClientSteps ==
  ASSUME ClientStep
  PROVE  CoreStep
<1> USE DEF SameDrain, SameServer, SameBooks, SamePipes, senderVars, pollerVars, threadVars,
            otherVars, bookVars, clientVars
<1>1. ASSUME NEW c \in Client, Connect(c) \/ Resume(c) \/ Disconnect(c)
      PROVE  Rests
  BY <1>1 DEF Connect, Resume, Disconnect, Rests
<1>2. ASSUME NEW c \in Client, AskToStop(c)
      PROVE  Rests
  BY <1>2 DEF AskToStop, Send, Rests
<1>3. ASSUME NEW c \in Client, NEW f, Request(c, f)
      PROVE  Rests
  BY <1>3 DEF Request, Send, Rests
<1>4. ASSUME NEW c \in Client, Offer(c)
      PROVE  ServerStep
  <2>1. Opens
    BY <1>4 DEF Offer, Opens
  <2> QED BY <2>1 DEF ServerStep
<1>5. ASSUME NEW p \in Pipe, ReadUnit(p)
      PROVE  Reads(p)
  BY <1>5 DEF ReadUnit, Reads
<1>6. ASSUME NEW p \in Pipe, Abandon(p)
      PROVE  Abandons(p)
  BY <1>6 DEF Abandon, Abandons
<1> QED BY <1>1, <1>2, <1>3, <1>4, <1>5, <1>6, Zenon DEF ClientStep, CoreStep

LEMMA Steps ==
  ASSUME [Next]_vars
  PROVE  CoreStep
<1>1. CASE ClientStep
  BY <1>1, ClientSteps
<1>2. CASE Drain \/ CutShard
  BY <1>2, DrainSteps DEF CoreStep
<1>3. CASE Thread
  BY <1>3, ThreadSteps DEF CoreStep
<1>4. CASE Exited \/ UNCHANGED vars
  BY <1>4 DEF Exited, CoreStep, Rests, vars, SameDrain, SameServer, SameBooks, SamePipes,
              senderVars, pollerVars, threadVars, otherVars, bookVars, clientVars
<1> QED BY <1>1, <1>2, <1>3, <1>4 DEF Next

-----------------------------------------------------------------------------
\* What the assumptions say.

LEMMA Assumed ==
  /\ Limit \in Nat
  /\ ChunkSize \in Nat \ {0}
  /\ IsFiniteSet(Large) /\ Large \cap Overlay = {}
  /\ Script \in Seq([op : {"create", "data", "insert"}, file : Large \cup Overlay,
                     data : Seq(Unit)])
  /\ Small \cap (Large \cup Overlay) = {}
  /\ None \notin Delivery
  /\ Large \subseteq available_files
  /\ Holders \subseteq Pipe
BY LimitAssumption, SenderAssumption, ServeAssumption
   DEF available_files, Holders, Pipe

LEMMA ScriptFacts ==
  ASSUME NEW i \in 1..Len(Script)
  PROVE  /\ Script[i].op \in {"create", "data", "insert"}
         /\ Script[i].file \in Large \cup Overlay
         /\ Script[i].data \in Seq(Unit)
         /\ Script[i].op = "data" => Script[i].data # << >>
         /\ Script[i].op = "insert" =>
              \A j \in (i + 1)..Len(Script) : Script[j].file # Script[i].file
<1>1. PICK R : R = [op : {"create", "data", "insert"}, file : Large \cup Overlay,
                    data : Seq(Unit)]
  OBVIOUS
<1>2. Script \in Seq(R)
  BY <1>1, SenderAssumption
<1>3. Script[i] \in R
  BY <1>2
<1> QED BY <1>1, <1>3, SenderAssumption

LEMMA ScriptLength == Len(Script) \in Nat
<1>1. PICK R : R = [op : {"create", "data", "insert"}, file : Large \cup Overlay,
                    data : Seq(Unit)]
  OBVIOUS
<1>2. Script \in Seq(R)
  BY <1>1, SenderAssumption
<1> QED BY <1>2

LEMMA InvInit ==
  ASSUME Init
  PROVE  Inv
<1>1. /\ count = Limit /\ drain = "drain" /\ step = 1 /\ done = 0 /\ chunk = << >>
      /\ channel = << >> /\ server = "collect" /\ sending = None /\ cursor = 1
      /\ finished = {} /\ open_pipes = << >> /\ filenames_of_sent_files = {}
      /\ store = [f \in available_files |-> << >>]
      /\ out = [p \in Pipe |-> << >>] /\ end = [p \in Pipe |-> "none"]
      /\ got = [p \in Pipe |-> 0]
  BY DEF Init, SenderInit, SemaphoreInit
<1>2. Typed
  <2>1. \A f \in available_files : store[f] = << >>
    BY <1>1
  <2>2. store = [f \in available_files |-> store[f]]
    BY <1>1, <2>1
  <2>3. step \in 1..(Len(Script) + 1)
    BY <1>1, ScriptLength
  <2>4. \A f \in available_files : store[f] \in Seq(ChunkOf({f}))
    <3>1. \A R : << >> \in Seq(R)
      OBVIOUS
    <3> QED BY <2>1, <3>1, Zenon
  <2>5. count \in 0..Limit
    BY <1>1, Assumed
  <2>6. out \in [Pipe -> Seq(Unit)] /\ end \in [Pipe -> Ends] /\ got \in [Pipe -> Nat]
    BY <1>1 DEF Ends
  <2> QED BY <1>1, <2>2, <2>3, <2>4, <2>5, <2>6 DEF Typed, DrainTyped, ServerTyped, PipesTyped, Places
<1>3. Turns /\ Draining
  BY <1>1 DEF Turns, Draining
<1>4. EndsLast
  BY <1>1 DEF EndsLast, EndsInChannel, EndsInStore, EndsInSending
<1>5. Owed
  <2>1. \A p \in Pipe : end[p] = "none"
    BY <1>1
  <2>2. \A p \in Holders : ~Held(p) /\ end[p] # "closed"
    BY <1>1, <2>1, Assumed DEF Held, Sending
  <2> QED BY <1>1, <2>1, <2>2
          DEF Owed, OneHolder, HolderOwed, Flushed, FinishedOver, ClosedOver, AllOffered, NotBegun
<1> QED BY <1>2, <1>3, <1>4, <1>5 DEF Inv

-----------------------------------------------------------------------------
\* Sequences of chunks.

LEMMA HeadAndTail ==
  ASSUME NEW R, NEW s \in Seq(R), s # << >>
  PROVE  /\ Head(s) \in R /\ Head(s) = s[1]
         /\ Tail(s) \in Seq(R) /\ Len(Tail(s)) = Len(s) - 1
         /\ \A i \in 1..Len(Tail(s)) : i + 1 \in 1..Len(s) /\ Tail(s)[i] = s[i + 1]
         /\ Len(s) \in Nat \ {0}
OBVIOUS

LEMMA Appended ==
  ASSUME NEW R, NEW s \in Seq(R), NEW x \in R
  PROVE  /\ Append(s, x) \in Seq(R) /\ Len(Append(s, x)) = Len(s) + 1
         /\ \A i \in 1..Len(s) : Append(s, x)[i] = s[i]
         /\ Append(s, x)[Len(s) + 1] = x
         /\ Len(s) \in Nat
OBVIOUS

LEMMA ElementIn ==
  ASSUME NEW R, NEW s \in Seq(R), NEW i \in 1..Len(s)
  PROVE  s[i] \in R
OBVIOUS

LEMMA NoneIn ==
  ASSUME NEW R
  PROVE  << >> \in Seq(R)
OBVIOUS

LEMMA ChunkFacts ==
  ASSUME NEW F, NEW ch \in ChunkOf(F)
  PROVE  /\ ch.file \in F /\ ch.file \in available_files
         /\ ch.content \in Seq(Unit)
         /\ ch.eof \in BOOLEAN
         /\ ch.eof <=> ch.content = << >>
         /\ ch \in ChunkOf({ch.file}) /\ ch \in Chunk
BY DEF ChunkOf, Chunk

LEMMA ChunksMade ==
  ASSUME NEW f \in available_files, NEW u \in Seq(Unit)
  PROVE  /\ u # << >> => Content(f, u) \in ChunkOf({f})
         /\ Eof(f) \in ChunkOf({f})
         /\ Content(f, u).file = f /\ Content(f, u).content = u /\ Content(f, u).eof = FALSE
         /\ Eof(f).file = f /\ Eof(f).content = << >> /\ Eof(f).eof = TRUE
BY DEF ChunkOf, Chunk, Content, Eof

LEMMA ChunksWithin ==
  ASSUME NEW F, NEW f \in F, NEW s \in Seq(ChunkOf({f}))
  PROVE  s \in Seq(ChunkOf(F)) /\ s \in Seq(Chunk)
<1>1. PICK A, B, C : A = ChunkOf({f}) /\ B = ChunkOf(F) /\ C = Chunk
  OBVIOUS
<1>2. A \subseteq B /\ A \subseteq C
  BY <1>1 DEF ChunkOf
<1>3. s \in Seq(A)
  BY <1>1
<1>4. s \in Seq(B) /\ s \in Seq(C)
  BY <1>2, <1>3
<1> QED BY <1>1, <1>4

\* The piece that is taken next: it is not empty, and in the data.
LEMMA PieceFacts ==
  ASSUME Typed, Draining, InData, chunk = << >>
  PROVE  /\ Piece \in Seq(Unit) /\ Piece # << >> /\ Len(Piece) \in Nat \ {0}
         /\ done + Len(Piece) <= Len(Script[step].data)
         /\ Piece = SubSeq(Script[step].data, done + 1, done + Len(Piece))
<1>1. PICK d \in Seq(Unit) : d = Script[step].data
  BY ScriptFacts DEF InData, Typed, DrainTyped
<1>2. d # << >> /\ Len(d) \in Nat \ {0}
  <2>1. d # << >>
    BY <1>1, ScriptFacts DEF InData, Typed, DrainTyped
  <2> QED BY <2>1
<1>3. done \in Nat /\ done < Len(d) /\ ChunkSize \in Nat \ {0}
  BY <1>1, <1>2, Assumed DEF Draining, Typed, DrainTyped
<1>4. PICK k \in Nat : k = IF done + ChunkSize < Len(d) THEN done + ChunkSize ELSE Len(d)
  BY <1>2, <1>3
<1>5. k > done /\ k <= Len(d)
  BY <1>2, <1>3, <1>4
<1>6. Piece = SubSeq(d, done + 1, k)
  BY <1>1, <1>4 DEF Piece
<1>7. SubSeq(d, done + 1, k) \in Seq(Unit) /\ Len(SubSeq(d, done + 1, k)) = k - done
  BY <1>3, <1>5
<1>8. PICK u, n : u = Piece /\ n = Len(u)
  OBVIOUS
<1>9. u \in Seq(Unit) /\ n = k - done
  BY <1>6, <1>7, <1>8
<1>10. n \in Nat \ {0} /\ done + n = k
  BY ONLY <1>3, <1>5, <1>9, k \in Nat
<1>11. u # << >>
  BY <1>8, <1>10
<1> QED BY <1>1, <1>5, <1>6, <1>8, <1>9, <1>10, <1>11

-----------------------------------------------------------------------------
\* Types are kept.

LEMMA SendingFacts ==
  ASSUME Typed, sending # None
  PROVE  /\ sending.pipe \in Holders /\ sending.pipe \in Pipe
         /\ sending.pipe[2] \in available_files
         /\ sending.chunks \in Seq(ChunkOf({sending.pipe[2]}))
         /\ sending.at \in Nat /\ sending.new \in BOOLEAN
         /\ sending = [pipe |-> sending.pipe, chunks |-> sending.chunks, at |-> sending.at,
                       new |-> sending.new]
<1>1. sending \in Delivery /\ sending.chunks \in Seq(ChunkOf({sending.pipe[2]}))
  BY DEF Typed, ServerTyped
<1>2. PICK C : C = Seq(Chunk)
  OBVIOUS
<1>3. sending \in [pipe : Client \X available_files, chunks : C, at : Nat, new : BOOLEAN]
  BY <1>1, <1>2 DEF Delivery
<1> QED BY <1>1, <1>3, Assumed DEF Holders

LEMMA DrainTypedNext ==
  ASSUME Inv, CoreStep
  PROVE  DrainTyped'
<1>0. DrainTyped /\ Typed /\ Draining /\ Turns
  BY DEF Inv, Typed
<1>1. CASE SameDrain
  BY <1>0, <1>1 DEF DrainTyped, SameDrain
<1>2. CASE Skips
  BY <1>0, <1>2, ScriptLength DEF DrainTyped, Skips
<1>3. CASE Acquires
  <2>1. Piece \in Seq(Unit) /\ Len(Piece) \in Nat
    BY <1>0, <1>3, PieceFacts DEF Acquires
  <2>2. /\ count >= Len(Piece) /\ count' = count - Len(Piece) /\ chunk' = Piece
        /\ drain' = drain /\ step' = step /\ done' = done /\ channel' = channel
    BY <1>3 DEF Acquires, Acquire
  <2>3. count' \in 0..Limit
    BY <1>0, <2>1, <2>2, Assumed DEF DrainTyped
  <2> QED BY <1>0, <2>1, <2>2, <2>3 DEF DrainTyped
<1>4. CASE Forwards
  <2>1. /\ count' = count /\ drain' = drain /\ chunk' = << >>
        /\ step' = step \/ step' = step + 1
        /\ done' = 0 \/ done' = done + Len(chunk)
        /\ step <= Len(Script)
    BY <1>4 DEF Forwards, InData
  <2>2. Script[step].file \in Large /\ Script[step].file \in available_files
    BY <1>4, Assumed DEF Forwards, InData
  <2>3. Content(Script[step].file, chunk) \in ChunkOf(Large)
    <3>1. Content(Script[step].file, chunk) \in ChunkOf({Script[step].file})
      BY <1>0, <1>4, <2>2, ChunksMade DEF Forwards, DrainTyped
    <3> QED BY <2>2, <3>1 DEF ChunkOf
  <2>4. channel' = Append(channel, Content(Script[step].file, chunk)) \/ channel' = channel
    BY <1>4 DEF Forwards
  <2>5. channel' \in Seq(ChunkOf(Large))
    BY <1>0, <2>3, <2>4, Appended DEF DrainTyped
  <2>6. Len(chunk) \in Nat /\ << >> \in Seq(Unit)
    BY <1>0 DEF DrainTyped
  <2>7. step' \in 1..(Len(Script) + 1) /\ done' \in Nat
    BY <1>0, <2>1, <2>6, ScriptLength DEF DrainTyped
  <2> QED BY <1>0, <2>1, <2>5, <2>6, <2>7 DEF DrainTyped
<1>5. CASE Inserts
  <2>1. /\ count' = count /\ drain' = drain /\ chunk' = chunk /\ step' = step + 1
        /\ done' = done /\ step <= Len(Script)
        /\ channel' = Append(channel, Eof(Script[step].file))
    BY <1>5 DEF Inserts
  <2>2. Eof(Script[step].file) \in ChunkOf(Large)
    <3>1. Script[step].file \in Large /\ Script[step].file \in available_files
      BY <1>5, Assumed DEF Inserts
    <3>2. Eof(Script[step].file) \in ChunkOf({Script[step].file})
      BY <3>1, NoneIn, ChunksMade
    <3> QED BY <3>1, <3>2 DEF ChunkOf
  <2>3. channel' \in Seq(ChunkOf(Large))
    BY <1>0, <2>1, <2>2, Appended DEF DrainTyped
  <2> QED BY <1>0, <2>1, <2>3, ScriptLength DEF DrainTyped
<1>6. CASE Finishes
  BY <1>0, <1>6 DEF DrainTyped, Finishes
<1>7. CASE Receives
  <2>1. channel' \in Seq(ChunkOf(Large))
    BY <1>0, <1>7, HeadAndTail DEF DrainTyped, Receives
  <2> QED BY <1>0, <1>7, <2>1 DEF DrainTyped, Receives
<1>8. CASE Splices
  <2>1. count' \in 0..Limit
    <3>1. CASE count' = count
      BY <1>0, <3>1 DEF DrainTyped
    <3>2. CASE count' # count
      <4>1. /\ sending.chunks # << >>
            /\ Release(Len(Head(sending.chunks).content))
            /\ sending # None
        BY <1>0, <1>8, <3>2 DEF Splices, SendingData, GiveBack, NextChunk, Serving, Turns
      <4>2. Head(sending.chunks).content \in Seq(Unit)
        BY <1>0, <4>1, SendingFacts, HeadAndTail, ChunkFacts
      <4>3. Len(Head(sending.chunks).content) \in Nat
        BY <4>2
      <4>4. PICK n \in Nat : n = Len(Head(sending.chunks).content)
        BY <4>3
      <4>5. Release(n) /\ count \in Nat /\ Limit \in Nat
        BY <1>0, <4>1, <4>4, Assumed DEF DrainTyped
      <4> QED BY ONLY <4>5 DEF Release
    <3> QED BY <3>1, <3>2
  <2> QED BY <1>0, <1>8, <2>1 DEF DrainTyped, Splices
<1>9. CASE Fails \/ Collects \/ GoesOn \/ Passes \/ Flushes \/ Drops \/ ReturnsNew \/ ReturnsOld
             \/ Heard \/ Opens \/ Rests \/ \E p \in Holders : Promises(p)
  <2>1. SameDrain
    BY <1>9 DEF Fails, Collects, GoesOn, Passes, Flushes, Drops, ReturnsNew, ReturnsOld, Heard,
                Opens, Rests, Promises
  <2> QED BY <1>1, <2>1
<1>10. CASE \E p \in Pipe : Reads(p) \/ Abandons(p)
  <2>1. SameDrain
    BY <1>10 DEF Reads, Abandons
  <2> QED BY <1>1, <2>1
<1> QED BY <1>2, <1>3, <1>4, <1>5, <1>6, <1>7, <1>8, <1>9, <1>10
       DEF CoreStep, DrainStep, ServerStep

LEMMA StoreSet ==
  ASSUME ServerTyped, NEW f \in available_files, NEW x \in Seq(ChunkOf({f})),
         store' = [store EXCEPT ![f] = x]
  PROVE  /\ store' = [g \in available_files |-> store'[g]]
         /\ \A g \in available_files : store'[g] \in Seq(ChunkOf({g}))
         /\ store'[f] = x
         /\ \A g \in available_files : g # f => store'[g] = store[g]
<1>1. store = [g \in available_files |-> store[g]]
  BY DEF ServerTyped
<1>2. store'[f] = x /\ \A g \in available_files : g # f => store'[g] = store[g]
  BY <1>1
<1>3. store' = [g \in available_files |-> store'[g]]
  BY <1>1, <1>2
<1>4. ASSUME NEW g \in available_files
      PROVE  store'[g] \in Seq(ChunkOf({g}))
  <2>1. store[g] \in Seq(ChunkOf({g}))
    BY DEF ServerTyped
  <2>2. CASE g = f
    BY <1>2, <2>2
  <2>3. CASE g # f
    BY <1>2, <2>1, <2>3
  <2> QED BY <2>2, <2>3
<1> QED BY <1>2, <1>3, <1>4

LEMMA KeptFacts ==
  ASSUME open_pipes \in Seq(Holders)
  PROVE  /\ Kept \in Seq(Holders)
         /\ \A p : Has(Kept, p) <=>
              \E i \in 1..Len(open_pipes) : i \notin finished /\ open_pipes[i] = p
<1>1. PICK s : s = [i \in 1..Len(open_pipes) |->
                      IF i \in finished THEN << >> ELSE <<open_pipes[i]>>]
  OBVIOUS
<1>2. PICK n \in Nat : n = Len(open_pipes)
  OBVIOUS
<1>3. \A i \in 1..n : /\ i \in finished => s[i] = << >>
                      /\ i \notin finished => s[i] = <<open_pipes[i]>>
                      /\ open_pipes[i] \in Holders
  BY <1>1, <1>2
<1>4. \A i \in 1..n : s[i] \in Seq(Holders)
  <2>1. \A x \in Holders : <<x>> \in Seq(Holders)
    OBVIOUS
  <2> QED BY <1>3, <2>1, NoneIn, Zenon
<1>5. s = [i \in 1..n |-> s[i]]
  BY <1>1, <1>2
<1>6. s \in Lists(Holders) /\ Len(s) = n
  BY <1>4, <1>5, ListIs
<1>7. Kept = FlattenSeq(s)
  BY <1>1 DEF Kept
<1>8. ASSUME NEW p, NEW i \in 1..n
      PROVE  Has(s[i], p) <=> i \notin finished /\ open_pipes[i] = p
  <2>1. CASE i \in finished
    <3>1. s[i] = << >>
      BY <1>3, <2>1
    <3> QED BY <2>1, <3>1 DEF Has
  <2>2. CASE i \notin finished
    <3>1. s[i] = <<open_pipes[i]>>
      BY <1>3, <2>2
    <3>2. \A x : Len(<<x>>) = 1 /\ <<x>>[1] = x
      OBVIOUS
    <3> QED BY <2>2, <3>1, <3>2 DEF Has
  <2> QED BY <2>1, <2>2
<1>9. ASSUME NEW p
      PROVE  Has(Kept, p) <=> \E i \in 1..Len(open_pipes) : i \notin finished /\ open_pipes[i] = p
  BY <1>2, <1>6, <1>7, <1>8, FlattenHas
<1> QED BY <1>6, <1>7, <1>9, FlattenType

LEMMA DeliveryMade ==
  ASSUME NEW p \in Holders, NEW s \in Seq(ChunkOf({p[2]})), NEW n \in Nat, NEW b \in BOOLEAN,
         NEW d, d = [pipe |-> p, chunks |-> s, at |-> n, new |-> b]
  PROVE  /\ d \in Delivery /\ d # None
         /\ d.pipe = p /\ d.chunks = s /\ d.at = n /\ d.new = b
         /\ d.chunks \in Seq(ChunkOf({d.pipe[2]}))
<1>1. PICK C : C = Seq(Chunk)
  OBVIOUS
<1>2. s \in C
  BY <1>1, ChunksWithin
<1>3. d \in Delivery
  BY <1>1, <1>2 DEF Delivery, Holders
<1> QED BY <1>3, Assumed

\* What is in store for p begins to be sent.
LEMMA DeliveryBegun ==
  ASSUME ServerTyped, NEW p \in Holders, NEW b \in BOOLEAN,
         NEW d, d = [pipe |-> p, chunks |-> store[p[2]], at |-> 0, new |-> b]
  PROVE  /\ p[2] \in available_files /\ store[p[2]] \in Seq(ChunkOf({p[2]}))
         /\ d \in Delivery /\ d # None
         /\ d.pipe = p /\ d.chunks = store[p[2]] /\ d.at = 0 /\ d.new = b
         /\ d.chunks \in Seq(ChunkOf({d.pipe[2]}))
<1>1. p[2] \in available_files
  BY DEF Holders
<1>2. store[p[2]] \in Seq(ChunkOf({p[2]}))
  BY <1>1 DEF ServerTyped
<1>3. PICK n \in Nat, s \in Seq(ChunkOf({p[2]})) : n = 0 /\ s = store[p[2]]
  BY <1>2
<1>4. d = [pipe |-> p, chunks |-> s, at |-> n, new |-> b]
  BY <1>3
<1>5. d \in Delivery /\ d # None /\ d.chunks \in Seq(ChunkOf({d.pipe[2]}))
  BY <1>4, DeliveryMade
<1>6. d.pipe = p /\ d.chunks = s /\ d.at = n /\ d.new = b
  BY <1>4
<1> QED BY <1>1, <1>2, <1>3, <1>5, <1>6

\* What is sent after one unit more.
LEMMA Spliced ==
  ASSUME Inv, Splices
  PROVE  /\ sending # None
         /\ sending.chunks # << >> /\ NextChunk = sending.chunks[1]
         /\ NextChunk \in ChunkOf({sending.pipe[2]})
         /\ sending.at + 1 \in 1..Len(NextChunk.content) /\ sending.at \in Nat
         /\ NextChunk.content \in Seq(Unit)
         /\ sending' = [pipe |-> sending.pipe, new |-> sending.new,
                        chunks |-> IF sending.at + 1 = Len(NextChunk.content)
                                   THEN Tail(sending.chunks) ELSE sending.chunks,
                        at |-> IF sending.at + 1 = Len(NextChunk.content)
                               THEN 0 ELSE sending.at + 1]
         /\ sending' \in Delivery /\ sending' # None
         /\ sending'.pipe = sending.pipe /\ sending'.new = sending.new
         /\ sending'.chunks \in Seq(ChunkOf({sending.pipe[2]}))
<1>1. sending # None /\ sending.chunks # << >> /\ ~NextChunk.eof
  BY DEF Inv, Turns, Splices, SendingData, Serving
<1>2. Typed
  BY DEF Inv
<1>3. NextChunk = sending.chunks[1] /\ NextChunk \in ChunkOf({sending.pipe[2]})
      /\ Tail(sending.chunks) \in Seq(ChunkOf({sending.pipe[2]}))
  BY <1>1, <1>2, SendingFacts, HeadAndTail DEF NextChunk
<1>4. NextChunk.content \in Seq(Unit) /\ NextChunk.content # << >>
  BY <1>1, <1>3, ChunkFacts
<1>5. sending.at \in Nat /\ sending.new \in BOOLEAN /\ sending.pipe \in Holders
  BY <1>1, <1>2, SendingFacts
<1>6. sending.at = 0 \/ sending.at < Len(NextChunk.content)
  BY <1>1 DEF Inv, Turns, NextChunk
<1>7. sending.at + 1 \in 1..Len(NextChunk.content)
  BY <1>4, <1>5, <1>6
<1>8. PICK P, S, A, N : P = sending.pipe /\ S = sending.chunks /\ A = sending.at /\ N = sending.new
  OBVIOUS
<1>9. sending = [pipe |-> P, chunks |-> S, at |-> A, new |-> N]
  BY <1>1, <1>2, <1>8, SendingFacts
<1>10. sending' = [pipe |-> P, new |-> N,
                   chunks |-> IF A + 1 = Len(NextChunk.content) THEN Tail(S) ELSE S,
                   at |-> IF A + 1 = Len(NextChunk.content) THEN 0 ELSE A + 1]
  <2>1. CASE A + 1 = Len(NextChunk.content)
    <3>1. sending' = [sending EXCEPT !.chunks = Tail(@), !.at = 0]
      BY <1>8, <2>1 DEF Splices
    <3> QED BY <1>9, <2>1, <3>1
  <2>2. CASE A + 1 # Len(NextChunk.content)
    <3>1. sending' = [sending EXCEPT !.at = @ + 1]
      BY <1>8, <2>2 DEF Splices
    <3> QED BY <1>9, <2>2, <3>1
  <2> QED BY <2>1, <2>2
<1>11. sending'.pipe = sending.pipe /\ sending'.new = sending.new
  BY <1>8, <1>10
<1>12. sending' \in Delivery /\ sending' # None
       /\ sending'.chunks \in Seq(ChunkOf({sending.pipe[2]}))
  <2>1. PICK s \in Seq(ChunkOf({P[2]})), n \in Nat :
          /\ s = (IF A + 1 = Len(NextChunk.content) THEN Tail(S) ELSE S)
          /\ n = (IF A + 1 = Len(NextChunk.content) THEN 0 ELSE A + 1)
    <3>1. S \in Seq(ChunkOf({P[2]})) /\ Tail(S) \in Seq(ChunkOf({P[2]})) /\ A \in Nat
      BY <1>1, <1>2, <1>3, <1>8, SendingFacts
    <3>2. (IF A + 1 = Len(NextChunk.content) THEN Tail(S) ELSE S) \in Seq(ChunkOf({P[2]}))
      BY <3>1, Zenon
    <3>3. (IF A + 1 = Len(NextChunk.content) THEN 0 ELSE A + 1) \in Nat
      BY <3>1
    <3> QED BY <3>2, <3>3, Zenon
  <2>2. sending' = [pipe |-> P, chunks |-> s, at |-> n, new |-> N]
    BY <1>10, <2>1
  <2> QED BY <1>5, <1>8, <2>2, DeliveryMade
<1> QED BY <1>1, <1>3, <1>4, <1>5, <1>7, <1>8, <1>10, <1>11, <1>12

LEMMA ServerTypedNext ==
  ASSUME Inv, CoreStep
  PROVE  ServerTyped'
<1>0. ServerTyped /\ Typed /\ Turns /\ DrainTyped
  BY DEF Inv, Typed
<1>1. CASE SameServer
  <2>1. /\ server' = server /\ store' = store /\ sending' = sending
        /\ open_pipes' = open_pipes /\ filenames_of_sent_files' = filenames_of_sent_files
    BY <1>1 DEF SameServer, SameBooks
  <2> QED BY <1>0, <2>1 DEF ServerTyped
<1>2. CASE server' \in Places /\ store' = store /\ sending' = sending
             /\ open_pipes' \in Seq(Holders)
             /\ filenames_of_sent_files' = filenames_of_sent_files
  BY <1>0, <1>2 DEF ServerTyped
<1>3. CASE Fails \/ GoesOn \/ Passes \/ Heard \/ Opens
  <2>1. /\ server' \in Places /\ store' = store /\ sending' = sending
        /\ open_pipes' = open_pipes /\ filenames_of_sent_files' = filenames_of_sent_files
    BY <1>3 DEF Fails, GoesOn, Passes, Heard, Opens, SameBooks, Places
  <2> QED BY <1>0, <1>2, <2>1 DEF ServerTyped
<1>4. CASE Collects
  <2>1. /\ server' = "recv" /\ sending' = sending
        /\ open_pipes' = open_pipes /\ filenames_of_sent_files' = filenames_of_sent_files
        /\ store' = [f \in available_files |-> IF f \in Small THEN SmallChunks(f) ELSE << >>]
    BY <1>4 DEF Collects, SameBooks
  <2>2. ASSUME NEW f \in available_files
        PROVE  store'[f] \in Seq(ChunkOf({f}))
    <3>1. CASE f \in Small
      <4>1. SmallContent[f] \in Seq(Unit) /\ store'[f] = SmallChunks(f)
        BY <2>1, <3>1, ServeAssumption
      <4>2. CASE SmallContent[f] = << >>
        <5>1. Eof(f) \in ChunkOf({f})
          BY NoneIn, ChunksMade
        <5> QED BY <4>1, <4>2, <5>1 DEF SmallChunks
      <4>3. CASE SmallContent[f] # << >>
        <5>1. Eof(f) \in ChunkOf({f}) /\ Content(f, SmallContent[f]) \in ChunkOf({f})
          BY <4>1, <4>3, ChunksMade
        <5>2. PICK e \in ChunkOf({f}), u \in ChunkOf({f}) :
                e = Eof(f) /\ u = Content(f, SmallContent[f])
          BY <5>1
        <5>3. <<u, e>> \in Seq(ChunkOf({f}))
          OBVIOUS
        <5> QED BY <4>1, <4>3, <5>2, <5>3 DEF SmallChunks
      <4> QED BY <4>2, <4>3
    <3>2. CASE f \notin Small
      <4>1. store'[f] = << >>
        BY <2>1, <3>2
      <4> QED BY <4>1, NoneIn
    <3> QED BY <3>1, <3>2
  <2>3. store' = [f \in available_files |-> store'[f]]
    <3>1. \A f \in available_files : store'[f] = IF f \in Small THEN SmallChunks(f) ELSE << >>
      BY <2>1
    <3> QED BY <2>1, <3>1, Zenon
  <2>4. "recv" \in Places
    BY DEF Places
  <2> QED BY <1>0, <2>1, <2>2, <2>3, <2>4 DEF ServerTyped
<1>5. CASE Receives
  <2>1. PICK f \in Large : f = Head(channel).file
    BY <1>0, <1>5, HeadAndTail, ChunkFacts DEF DrainTyped, Receives
  <2>2. f \in available_files /\ Head(channel) \in ChunkOf({f})
    BY <1>0, <1>5, <2>1, HeadAndTail, ChunkFacts, Assumed DEF DrainTyped, Receives
  <2>3. store' = [store EXCEPT ![f] = Append(store[f], Head(channel))]
    BY <1>5, <2>1 DEF Receives
  <2>4. Append(store[f], Head(channel)) \in Seq(ChunkOf({f}))
    BY <1>0, <2>2, Appended DEF ServerTyped
  <2>5. /\ store' = [g \in available_files |-> store'[g]]
        /\ \A g \in available_files : store'[g] \in Seq(ChunkOf({g}))
    BY <1>0, <2>2, <2>3, <2>4, StoreSet
  <2>6. /\ server' = server /\ sending' = sending
        /\ open_pipes' = open_pipes /\ filenames_of_sent_files' = filenames_of_sent_files
    BY <1>5 DEF Receives, SameBooks
  <2> QED BY <1>0, <2>5, <2>6 DEF ServerTyped
<1>6. ASSUME NEW p \in Holders, NEW b \in BOOLEAN,
             sending' = [pipe |-> p, chunks |-> store[p[2]], at |-> 0, new |-> b],
             store' = [store EXCEPT ![p[2]] = << >>], server' \in Places,
             open_pipes' = open_pipes, filenames_of_sent_files' \subseteq available_files
      PROVE  ServerTyped'
  <2>1. p[2] \in available_files
    BY DEF Holders
  <2>2. store[p[2]] \in Seq(ChunkOf({p[2]}))
    BY <1>0, <2>1 DEF ServerTyped
  <2>3. sending' \in Delivery /\ sending'.chunks \in Seq(ChunkOf({sending'.pipe[2]}))
    BY <1>6, <2>2, DeliveryMade
  <2>4. /\ store' = [g \in available_files |-> store'[g]]
        /\ \A g \in available_files : store'[g] \in Seq(ChunkOf({g}))
    BY <1>0, <1>6, <2>1, NoneIn, StoreSet
  <2> QED BY <1>0, <1>6, <2>3, <2>4 DEF ServerTyped
<1>7. CASE Flushes
  <2>1. PICK p \in Holders : p = open_pipes[cursor]
    BY <1>0, <1>7, ElementIn DEF ServerTyped, Flushes, Turns
  <2>2. /\ sending' = [pipe |-> p, chunks |-> store[p[2]], at |-> 0, new |-> FALSE]
        /\ store' = [store EXCEPT ![p[2]] = << >>] /\ server' = "send"
        /\ open_pipes' = open_pipes /\ filenames_of_sent_files' = filenames_of_sent_files
    BY <1>7, <2>1 DEF Flushes, SameBooks
  <2>3. "send" \in Places /\ filenames_of_sent_files \subseteq available_files
    BY <1>0 DEF Places, ServerTyped
  <2> QED BY <1>6, <2>2, <2>3
<1>8. ASSUME NEW p \in Holders, Promises(p)
      PROVE  ServerTyped'
  <2>1. /\ sending' = [pipe |-> p, chunks |-> store[p[2]], at |-> 0, new |-> TRUE]
        /\ store' = [store EXCEPT ![p[2]] = << >>] /\ server' = "pipe"
        /\ open_pipes' = open_pipes
        /\ filenames_of_sent_files' = filenames_of_sent_files \cup {p[2]}
    BY <1>8 DEF Promises
  <2>2. "pipe" \in Places /\ filenames_of_sent_files' \subseteq available_files
    BY <1>0, <2>1 DEF Places, ServerTyped, Holders
  <2> QED BY <1>6, <2>1, <2>2
<1>9. CASE Drops
  <2>1. open_pipes' \in Seq(Holders)
    BY <1>0, <1>9, KeptFacts DEF ServerTyped, Drops
  <2>2. /\ server' = "poll" /\ store' = store /\ sending' = sending
        /\ filenames_of_sent_files' = filenames_of_sent_files
    BY <1>9 DEF Drops
  <2>3. "poll" \in Places
    BY DEF Places
  <2> QED BY <1>2, <2>1, <2>2, <2>3
<1>10. CASE Splices
  <2>1. sending' \in Delivery /\ sending'.chunks \in Seq(ChunkOf({sending'.pipe[2]}))
    BY <1>10, Spliced
  <2>2. /\ server' = server /\ store' = store
        /\ open_pipes' = open_pipes /\ filenames_of_sent_files' = filenames_of_sent_files
    BY <1>10 DEF Splices, SameBooks
  <2> QED BY <1>0, <2>1, <2>2 DEF ServerTyped
<1>11. CASE ReturnsNew
  <2>1. /\ server' = "recv" /\ store' = store /\ sending' = None
        /\ filenames_of_sent_files' = filenames_of_sent_files
    BY <1>11 DEF ReturnsNew
  <2>2. open_pipes' \in Seq(Holders)
    <3>1. sending # None
      BY <1>0, <1>11 DEF ReturnsNew, Turns
    <3>2. sending.pipe \in Holders
      BY <1>0, <3>1, SendingFacts
    <3>3. open_pipes' = open_pipes \/ open_pipes' = Append(open_pipes, sending.pipe)
      BY <1>11 DEF ReturnsNew
    <3> QED BY <1>0, <3>2, <3>3, Appended DEF ServerTyped
  <2> QED BY <1>0, <2>1, <2>2 DEF ServerTyped, Places
<1>12. CASE ReturnsOld
  <2>1. /\ server' = "flush" /\ store' = store /\ sending' = None
        /\ open_pipes' = open_pipes /\ filenames_of_sent_files' = filenames_of_sent_files
    BY <1>12 DEF ReturnsOld
  <2> QED BY <1>0, <2>1 DEF ServerTyped, Places
<1>13. CASE DrainStep \/ Rests \/ \E p \in Pipe : Reads(p) \/ Abandons(p)
  <2>1. SameServer
    BY <1>13 DEF DrainStep, Skips, Acquires, Forwards, Inserts, Finishes, Rests, Reads, Abandons
  <2> QED BY <1>1, <2>1
<1> QED BY <1>3, <1>4, <1>5, <1>7, <1>8, <1>9, <1>10, <1>11, <1>12, <1>13
       DEF CoreStep, ServerStep

LEMMA PipesTypedNext ==
  ASSUME Inv, CoreStep
  PROVE  PipesTyped'
<1>0. PipesTyped /\ Typed /\ Turns
  BY DEF Inv, Typed
<1>1. CASE SamePipes
  BY <1>0, <1>1 DEF SamePipes, PipesTyped
<1>2. CASE end' \in [Pipe -> Ends] /\ out' = out /\ got' = got
  BY <1>0, <1>2 DEF PipesTyped
<1>3. CASE Fails
  BY <1>0, <1>2, <1>3 DEF Fails, PipesTyped, Ends
<1>4. CASE Drops
  BY <1>0, <1>2, <1>4 DEF Drops, PipesTyped, Ends
<1>5. CASE ReturnsNew
  BY <1>0, <1>2, <1>5 DEF ReturnsNew, PipesTyped, Ends
<1>6. CASE Opens
  BY <1>0, <1>2, <1>6 DEF Opens, PipesTyped, Ends
<1>7. CASE Splices
  <2>1. /\ sending.at + 1 \in 1..Len(NextChunk.content) /\ NextChunk.content \in Seq(Unit)
        /\ sending # None
    BY <1>7, Spliced
  <2>2. PICK u \in Unit, p \in Pipe : u = NextChunk.content[sending.at + 1] /\ p = sending.pipe
    BY <1>0, <2>1, ElementIn, SendingFacts
  <2>3. out' = [out EXCEPT ![p] = Append(out[p], u)] /\ end' = end /\ got' = got
    BY <1>7, <2>2 DEF Splices
  <2>4. Append(out[p], u) \in Seq(Unit)
    BY <1>0 DEF PipesTyped
  <2>5. out' \in [Pipe -> Seq(Unit)]
    BY <1>0, <2>3, <2>4 DEF PipesTyped
  <2> QED BY <1>0, <2>3, <2>5 DEF PipesTyped
<1>8. ASSUME NEW p \in Pipe, Reads(p)
      PROVE  PipesTyped'
  <2>1. Tail(out[p]) \in Seq(Unit) /\ got[p] + 1 \in Nat
    BY <1>0, <1>8 DEF PipesTyped, Reads
  <2>2. out' = [out EXCEPT ![p] = Tail(out[p])] /\ got' = [got EXCEPT ![p] = got[p] + 1]
        /\ end' = end
    BY <1>8 DEF Reads
  <2> QED BY <1>0, <2>1, <2>2 DEF PipesTyped
<1>9. ASSUME NEW p \in Pipe, Abandons(p)
      PROVE  PipesTyped'
  <2>1. /\ out' = [out EXCEPT ![p] = << >>] /\ got' = got
        /\ end' = [end EXCEPT ![p] = "abandoned"]
    BY <1>9 DEF Abandons
  <2>2. << >> \in Seq(Unit) /\ "abandoned" \in Ends
    BY DEF Ends
  <2> QED BY <1>0, <2>1, <2>2 DEF PipesTyped
<1>10. CASE DrainStep \/ Rests \/ Collects \/ Receives \/ GoesOn \/ Passes \/ Flushes
              \/ ReturnsOld \/ Heard \/ \E p \in Holders : Promises(p)
  <2>1. SamePipes
    BY <1>10 DEF DrainStep, Skips, Acquires, Forwards, Inserts, Finishes, Rests, Collects,
                 Receives, GoesOn, Passes, Flushes, ReturnsOld, Heard, Promises
  <2> QED BY <1>1, <2>1
<1> QED BY <1>3, <1>4, <1>5, <1>6, <1>7, <1>8, <1>9, <1>10 DEF CoreStep, ServerStep

-----------------------------------------------------------------------------
\* The turns of the two threads.

LEMMA TurnsNext ==
  ASSUME Inv, CoreStep
  PROVE  Turns'
<1>0. Turns /\ Typed /\ ServerTyped
  BY DEF Inv, Typed
<1> USE <1>0
<1>n. Len(open_pipes) \in Nat
  BY DEF ServerTyped
<1>1. CASE SameServer
  <2>1. /\ server' = server /\ sending' = sending /\ cursor' = cursor
        /\ finished' = finished /\ open_pipes' = open_pipes
    BY <1>1 DEF SameServer, SameBooks
  <2> QED BY <2>1 DEF Turns
<1>2. CASE Fails
  <2>1. /\ server' = "failed" /\ sending' = sending /\ cursor' = cursor
        /\ finished' = finished /\ open_pipes' = open_pipes
    BY <1>2 DEF Fails, SameBooks
  <2> QED BY <2>1 DEF Turns
<1>3. CASE Collects \/ Receives \/ GoesOn \/ Heard
  <2>1. /\ server' \in {"recv", "flush", "done"} /\ sending' = sending /\ cursor' = cursor
        /\ finished' = finished /\ open_pipes' = open_pipes
        /\ server \in {"collect", "recv", "poll"}
    BY <1>3 DEF Collects, Receives, GoesOn, Heard, SameBooks
  <2>2. sending = None /\ cursor = 1
    BY <2>1 DEF Turns
  <2> QED BY <2>1, <2>2 DEF Turns
<1>4. CASE Passes
  <2>1. /\ server' = "flush" /\ sending' = sending /\ cursor' = cursor + 1
        /\ finished' = finished /\ open_pipes' = open_pipes
        /\ server = "flush" /\ cursor <= Len(open_pipes)
    BY <1>4 DEF Passes
  <2>2. sending = None
    BY <2>1 DEF Turns
  <2> QED BY <1>n, <2>1, <2>2 DEF Turns
<1>5. CASE Flushes
  <2>1. /\ server' = "send" /\ cursor' = cursor
        /\ finished' = finished /\ open_pipes' = open_pipes
        /\ server = "flush" /\ cursor <= Len(open_pipes)
    BY <1>5 DEF Flushes, SameBooks
  <2>2. PICK p \in Holders : p = open_pipes[cursor]
    BY <2>1, ElementIn DEF ServerTyped, Turns
  <2>3. PICK b \in BOOLEAN : b = FALSE
    OBVIOUS
  <2>4. sending' = [pipe |-> p, chunks |-> store[p[2]], at |-> 0, new |-> b]
    BY <1>5, <2>2, <2>3 DEF Flushes
  <2>5. sending' # None /\ sending'.at = 0 /\ sending'.new = FALSE /\ sending'.pipe = p
    BY <2>3, <2>4, DeliveryBegun
  <2> QED BY <2>1, <2>2, <2>5 DEF Turns
<1>6. CASE Drops
  <2>1. /\ server' = "poll" /\ sending' = sending /\ cursor' = 1 /\ finished' = {}
        /\ open_pipes' = Kept /\ server = "flush"
    BY <1>6 DEF Drops
  <2>2. Len(open_pipes') \in Nat
    BY <2>1, KeptFacts DEF ServerTyped
  <2>3. sending = None
    BY <2>1 DEF Turns
  <2> QED BY <2>1, <2>2, <2>3 DEF Turns
<1>7. CASE Splices
  <2>1. /\ server' = server /\ cursor' = cursor /\ server = "send"
        /\ finished' = finished /\ open_pipes' = open_pipes
    BY <1>7 DEF Splices, SameBooks, SendingData
  <2>2. /\ sending # None /\ sending' # None
        /\ sending'.pipe = sending.pipe /\ sending'.new = sending.new
    BY <1>7, Spliced
  <2>3. \/ sending'.at = 0
        \/ sending'.chunks # << >> /\ sending'.at < Len(Head(sending'.chunks).content)
    <3>1. /\ sending.at + 1 \in 1..Len(NextChunk.content) /\ NextChunk.content \in Seq(Unit)
          /\ sending.at \in Nat /\ sending.chunks # << >>
      BY <1>7, Spliced
    <3>2. CASE sending.at + 1 = Len(NextChunk.content)
      <4>1. sending'.at = 0
        BY <1>7, <3>2, Spliced
      <4> QED BY <4>1
    <3>3. CASE sending.at + 1 # Len(NextChunk.content)
      <4>1. sending'.at = sending.at + 1 /\ sending'.chunks = sending.chunks
        BY <1>7, <3>3, Spliced
      <4>2. sending.at + 1 < Len(NextChunk.content)
        BY <3>1, <3>3
      <4> QED BY <3>1, <4>1, <4>2 DEF NextChunk
    <3> QED BY <3>2, <3>3
  <2> QED BY <2>1, <2>2, <2>3 DEF Turns
<1>8. CASE ReturnsNew
  <2>1. /\ server' = "recv" /\ sending' = None /\ cursor' = cursor /\ finished' = finished
        /\ server = "send" /\ sending.new
        /\ open_pipes' = open_pipes \/ open_pipes' = Append(open_pipes, sending.pipe)
    BY <1>8 DEF ReturnsNew
  <2>2. cursor = 1 /\ sending # None
    BY <2>1 DEF Turns
  <2>3. Len(open_pipes') \in Nat
    <3>1. sending.pipe \in Holders
      BY <2>2, SendingFacts
    <3> QED BY <1>n, <2>1, <3>1, Appended DEF ServerTyped
  <2> QED BY <2>1, <2>2, <2>3 DEF Turns
<1>9. CASE ReturnsOld
  <2>1. /\ server' = "flush" /\ sending' = None /\ cursor' = cursor + 1
        /\ finished' = finished \/ finished' = finished \cup {cursor}
        /\ server = "send" /\ ~sending.new
        /\ open_pipes' = open_pipes
    BY <1>9 DEF ReturnsOld
  <2>2. cursor <= Len(open_pipes) /\ cursor \in 1..(Len(open_pipes) + 1)
        /\ finished \subseteq 1..(cursor - 1)
    BY <2>1 DEF Turns
  <2>3. cursor + 1 \in 1..(Len(open_pipes) + 1)
    BY <1>n, <2>2
  <2>4. finished' \subseteq 1..((cursor + 1) - 1)
    <3>1. (cursor + 1) - 1 = cursor /\ cursor \in 1..cursor /\ 1..(cursor - 1) \subseteq 1..cursor
      BY <1>n, <2>2
    <3>2. finished' \subseteq 1..cursor
      BY <2>1, <2>2, <3>1
    <3> QED BY <3>1, <3>2
  <2> QED BY <2>1, <2>3, <2>4 DEF Turns
<1>10. CASE Opens
  <2>1. /\ server = "pipe" /\ server' \in {"pipe", "send"} /\ sending' = sending
        /\ cursor' = cursor /\ finished' = finished /\ open_pipes' = open_pipes
    BY <1>10 DEF Opens, SameBooks
  <2> QED BY <2>1 DEF Turns
<1>11. ASSUME NEW p \in Holders, Promises(p)
       PROVE  Turns'
  <2>1. /\ server' = "pipe" /\ cursor' = cursor
        /\ finished' = finished /\ open_pipes' = open_pipes
        /\ server = "poll"
        /\ sending' = [pipe |-> p, chunks |-> store[p[2]], at |-> 0, new |-> TRUE]
    BY <1>11 DEF Promises
  <2>2. PICK b \in BOOLEAN : b = TRUE
    OBVIOUS
  <2>3. sending' # None /\ sending'.at = 0 /\ sending'.new = TRUE
    BY <2>1, <2>2, DeliveryBegun
  <2> QED BY <2>1, <2>3 DEF Turns
<1>12. CASE DrainStep \/ Rests \/ \E p \in Pipe : Reads(p) \/ Abandons(p)
  <2>1. SameServer
    BY <1>12 DEF DrainStep, Skips, Acquires, Forwards, Inserts, Finishes, Rests, Reads, Abandons
  <2> QED BY <1>1, <2>1
<1> QED BY <1>2, <1>3, <1>4, <1>5, <1>6, <1>7, <1>8, <1>9, <1>10, <1>11, <1>12
       DEF CoreStep, ServerStep

LEMMA DrainingNext ==
  ASSUME Inv, CoreStep
  PROVE  Draining'
<1>0. Draining /\ Typed /\ DrainTyped /\ Turns
  BY DEF Inv, Typed
<1>1. CASE step' = step /\ done' = done /\ chunk' = chunk
  BY <1>0, <1>1 DEF Draining, InData
<1>2. CASE Skips \/ Inserts
  <2>1. ~InData /\ step' = step + 1 /\ done' = done /\ chunk' = chunk
    <3>1. step \in 1..Len(Script)
      BY <1>0, <1>2, ScriptLength DEF DrainTyped, Skips, Inserts
    <3>2. Script[step].op # "data" \/ Script[step].file \in Overlay
      BY <1>2 DEF Skips, Inserts
    <3> QED BY <1>2, <3>2, Assumed DEF Skips, Inserts, InData
  <2>2. done = 0 /\ chunk = << >>
    BY <1>0, <2>1 DEF Draining
  <2> QED BY <2>1, <2>2 DEF Draining
<1>3. CASE Acquires
  <2>1. /\ step' = step /\ done' = done /\ chunk' = Piece /\ InData
        /\ done + Len(Piece) <= Len(Script[step].data)
        /\ Piece = SubSeq(Script[step].data, done + 1, done + Len(Piece))
    BY <1>0, <1>3, PieceFacts DEF Acquires
  <2> QED BY <1>0, <2>1 DEF Draining, InData
<1>4. CASE Forwards
  <2>1. chunk' = << >> /\ InData /\ chunk # << >>
    BY <1>4 DEF Forwards
  <2>2. done + Len(chunk) <= Len(Script[step].data) /\ Len(chunk) \in Nat /\ done \in Nat
    BY <1>0, <2>1 DEF Draining, DrainTyped
  <2>3. Len(Script[step].data) \in Nat
    <3>1. Script[step].data \in Seq(Unit)
      BY <1>0, <2>1, ScriptFacts DEF InData, DrainTyped
    <3> QED BY <3>1
  <2>4. CASE done + Len(chunk) = Len(Script[step].data)
    <3>1. done' = 0
      BY <1>4, <2>4 DEF Forwards
    <3> QED BY <2>1, <3>1 DEF Draining
  <2>5. CASE done + Len(chunk) # Len(Script[step].data)
    <3>1. done' = done + Len(chunk) /\ step' = step
      BY <1>4, <2>5 DEF Forwards
    <3>2. done' < Len(Script[step].data)
      BY <2>2, <2>3, <2>5, <3>1
    <3> QED BY <2>1, <3>1, <3>2 DEF Draining, InData
  <2> QED BY <2>4, <2>5
<1>5. CASE Finishes \/ ServerStep \/ Rests \/ \E p \in Pipe : Reads(p) \/ Abandons(p)
  <2>1. step' = step /\ done' = done /\ chunk' = chunk
    BY <1>5 DEF Finishes, ServerStep, Fails, Collects, Receives, GoesOn, Passes, Flushes, Drops,
                Splices, ReturnsNew, ReturnsOld, Heard, Opens, Promises, Rests, Reads, Abandons,
                SameDrain
  <2> QED BY <1>1, <2>1
<1> QED BY <1>2, <1>3, <1>4, <1>5 DEF CoreStep, DrainStep

-----------------------------------------------------------------------------
\* Chunks move from the script to the channel to store to what is sent.

LEMMA ScriptMoves ==
  ASSUME Inv, CoreStep
  PROVE  /\ step' = step \/ step' = step + 1
         /\ \/ channel' = channel
            \/ Receives
            \/ /\ step <= Len(Script)
               /\ \/ /\ Inserts /\ step' = step + 1
                     /\ channel' = Append(channel, Eof(Script[step].file))
                  \/ channel' = Append(channel, Content(Script[step].file, chunk)) /\ chunk # << >>
<1>1. CASE Skips \/ Acquires \/ Finishes
  BY <1>1 DEF Skips, Acquires, Finishes
<1>2. CASE Forwards
  BY <1>2 DEF Forwards, InData
<1>3. CASE Inserts
  BY <1>3 DEF Inserts
<1>4. CASE Receives
  BY <1>4 DEF Receives
<1>5. CASE Fails \/ Collects \/ GoesOn \/ Passes \/ Flushes \/ Drops \/ Splices \/ ReturnsNew
             \/ ReturnsOld \/ Heard \/ Opens \/ Rests \/ (\E p \in Holders : Promises(p))
             \/ (\E p \in Pipe : Reads(p) \/ Abandons(p))
  <2>1. step' = step /\ channel' = channel
    BY <1>5 DEF Fails, Collects, GoesOn, Passes, Flushes, Drops, Splices, ReturnsNew,
                ReturnsOld, Heard, Opens, Rests, Promises, Reads, Abandons, SameDrain
  <2> QED BY <2>1
<1> QED BY <1>1, <1>2, <1>3, <1>4, <1>5 DEF CoreStep, DrainStep, ServerStep

LEMMA StoreMoves ==
  ASSUME Inv, CoreStep, ~Collects, NEW f \in available_files
  PROVE  \/ store'[f] = store[f] /\ ~(Receives /\ f = Head(channel).file)
         \/ store'[f] = << >>
         \/ /\ Receives /\ channel # << >> /\ f = Head(channel).file
            /\ store'[f] = Append(store[f], Head(channel))
<1>0. store = [g \in available_files |-> store[g]] /\ DrainTyped /\ ServerTyped /\ Turns
  BY DEF Inv, Typed, ServerTyped
<1>1. CASE Receives
  <2>1. PICK g \in available_files : g = Head(channel).file
    BY <1>0, <1>1, HeadAndTail, ChunkFacts DEF DrainTyped, Receives
  <2>2. store' = [store EXCEPT ![g] = Append(store[g], Head(channel))] /\ channel # << >>
    BY <1>1, <2>1 DEF Receives
  <2> QED BY <1>0, <1>1, <2>1, <2>2
<1>2. ASSUME NEW p \in Holders, store' = [store EXCEPT ![p[2]] = << >>], ~Receives
      PROVE  store'[f] = store[f] \/ store'[f] = << >>
  <2>1. CASE f = p[2]
    BY <1>0, <1>2, <2>1
  <2>2. CASE f # p[2]
    BY <1>0, <1>2, <2>2
  <2> QED BY <2>1, <2>2
<1>3. CASE Flushes
  <2>1. PICK p \in Holders : p = open_pipes[cursor]
    BY <1>0, <1>3, ElementIn DEF ServerTyped, Flushes, Turns
  <2>2. ~Receives /\ store' = [store EXCEPT ![p[2]] = << >>]
    BY <1>3, <2>1 DEF Flushes, Receives
  <2> QED BY <1>2, <2>2
<1>4. CASE \E p \in Holders : Promises(p)
  <2>1. PICK p \in Holders : Promises(p)
    BY <1>4
  <2>2. ~Receives /\ store' = [store EXCEPT ![p[2]] = << >>]
    BY <2>1 DEF Promises, Receives
  <2> QED BY <1>2, <2>2
<1>5. CASE DrainStep \/ Fails \/ GoesOn \/ Passes \/ Drops \/ Splices \/ ReturnsNew
             \/ ReturnsOld \/ Heard \/ Opens \/ Rests
             \/ (\E p \in Pipe : Reads(p) \/ Abandons(p))
  <2>1. store' = store
    BY <1>5 DEF DrainStep, Skips, Acquires, Forwards, Inserts, Finishes, Fails, GoesOn, Passes,
                Drops, Splices, ReturnsNew, ReturnsOld, Heard, Opens, Rests, Reads, Abandons,
                SameServer
  <2>2. CASE Receives
    BY <1>1, <2>2
  <2> QED BY <2>1, <2>2
<1> QED BY <1>1, <1>3, <1>4, <1>5 DEF CoreStep, ServerStep

LEMMA ScriptOverKept ==
  ASSUME Inv, CoreStep, NEW f, ScriptOver(f)
  PROVE  ScriptOver(f)'
<1>1. step' \in Nat /\ step \in Nat /\ step' >= step
  BY ScriptMoves, ScriptLength DEF Inv, Typed, DrainTyped
<1>2. \A i \in step'..Len(Script) : i \in step..Len(Script)
  BY <1>1, ScriptLength
<1> QED BY <1>2 DEF ScriptOver

LEMMA NoMoreKept ==
  ASSUME Inv, CoreStep, NEW f, NoMore(f)
  PROVE  NoMore(f)'
<1>0. channel \in Seq(ChunkOf(Large)) /\ DrainTyped
  BY DEF Inv, Typed, DrainTyped
<1>1. ScriptOver(f)'
  BY ScriptOverKept DEF NoMore
<1>2. CASE channel' = channel
  BY <1>1, <1>2 DEF NoMore
<1>3. CASE Receives
  <2>1. channel' = Tail(channel) /\ channel # << >>
    BY <1>3 DEF Receives
  <2>2. \A i \in 1..Len(channel') : channel'[i].file # f
    BY <1>0, <2>1, HeadAndTail DEF NoMore
  <2> QED BY <1>1, <2>2 DEF NoMore
<1>4. ASSUME NEW ch, channel' = Append(channel, ch), ch.file = Script[step].file,
             step <= Len(Script)
      PROVE  NoMore(f)'
  <2>1. ch.file # f
    BY <1>0, <1>4, ScriptLength DEF NoMore, ScriptOver, DrainTyped
  <2>2. \A i \in 1..Len(channel') : channel'[i].file # f
    BY <1>0, <1>4, <2>1 DEF NoMore
  <2> QED BY <1>1, <2>2 DEF NoMore
<1>5. Eof(Script[step].file).file = Script[step].file
      /\ Content(Script[step].file, chunk).file = Script[step].file
  BY DEF Eof, Content
<1> QED BY <1>2, <1>3, <1>4, <1>5, ScriptMoves

LEMMA OverKept ==
  ASSUME Inv, CoreStep, ~Collects, NEW f \in available_files, Over(f)
  PROVE  Over(f)'
<1>1. NoMore(f)'
  BY NoMoreKept DEF Over
<1>2. ~(Receives /\ channel # << >> /\ f = Head(channel).file)
  <2>1. CASE channel # << >>
    <3>1. Head(channel) = channel[1] /\ 1 \in 1..Len(channel)
      BY <2>1, HeadAndTail DEF Inv, Typed, DrainTyped
    <3> QED BY <3>1 DEF Over, NoMore
  <2> QED BY <2>1
<1>3. store'[f] = << >>
  BY <1>2, StoreMoves DEF Over
<1> QED BY <1>1, <1>3 DEF Over

\* The first chunk of the channel goes to store behind everything of its file.
LEMMA ReceiveFacts ==
  ASSUME Inv, Receives
  PROVE  \E f \in Large :
           /\ f = Head(channel).file /\ f = channel[1].file
           /\ channel # << >> /\ Head(channel) = channel[1] /\ channel' = Tail(channel)
           /\ channel \in Seq(ChunkOf(Large)) /\ step' = step
           /\ Head(channel) \in ChunkOf({f})
           /\ ~NoMore(f)
           /\ channel[1].eof => NoMore(f)'
<1>1. channel \in Seq(ChunkOf(Large)) /\ channel # << >> /\ channel' = Tail(channel) /\ step' = step
  BY DEF Inv, Typed, DrainTyped, Receives
<1>2. Head(channel) = channel[1] /\ 1 \in 1..Len(channel) /\ channel[1] \in ChunkOf(Large)
  BY <1>1, HeadAndTail
<1>3. channel[1].file \in Large /\ channel[1] \in ChunkOf({channel[1].file})
  BY <1>2, ChunkFacts
<1>4. PICK f \in Large : f = channel[1].file
  BY <1>3
<1>5. ASSUME channel[1].eof
      PROVE  NoMore(f)'
  <2>1. ScriptOver(f) /\ \A j \in (1 + 1)..Len(channel) : channel[j].file # f
    BY <1>2, <1>4, <1>5 DEF Inv, EndsLast, EndsInChannel
  <2>2. ScriptOver(f)'
    BY <1>1, <2>1 DEF ScriptOver
  <2>3. \A i \in 1..Len(channel') : channel'[i].file # f
    <3>1. \A i \in 1..Len(Tail(channel)) : Tail(channel)[i] = channel[i + 1] /\ i + 1 \in (1 + 1)..Len(channel)
      BY <1>1
    <3> QED BY <1>1, <2>1, <3>1
  <2> QED BY <2>2, <2>3 DEF NoMore
<1>6. ~NoMore(f)
  BY <1>2, <1>4 DEF NoMore
<1> QED BY <1>1, <1>2, <1>3, <1>4, <1>5, <1>6

-----------------------------------------------------------------------------
\* Nothing comes behind the end of a file.

LEMMA EndsInChannelNext ==
  ASSUME Inv, CoreStep
  PROVE  EndsInChannel'
<1>0. EndsInChannel /\ channel \in Seq(ChunkOf(Large)) /\ DrainTyped /\ Len(Script) \in Nat
  BY ScriptLength DEF Inv, Typed, DrainTyped, EndsLast
<1>1. CASE channel' = channel
  <2>1. ASSUME NEW i \in 1..Len(channel'), channel'[i].eof
        PROVE  /\ ScriptOver(channel[i].file)'
               /\ \A j \in (i + 1)..Len(channel) : channel[j].file # channel[i].file
    <3>1. PICK f : f = channel[i].file
      OBVIOUS
    <3>2. ScriptOver(f) /\ \A j \in (i + 1)..Len(channel) : channel[j].file # f
      BY <1>0, <1>1, <2>1, <3>1 DEF EndsInChannel
    <3>3. ScriptOver(f)'
      BY <3>2, ScriptOverKept
    <3>4. channel'[i].file = f
      BY <1>1, <3>1
    <3> QED BY <3>1, <3>2, <3>3, <3>4
  <2> QED BY <1>1, <2>1 DEF EndsInChannel
<1>2. CASE Receives
  <2>1. /\ channel' = Tail(channel) /\ step' = step
        /\ \A i \in 1..Len(Tail(channel)) : i + 1 \in 1..Len(channel) /\ Tail(channel)[i] = channel[i + 1]
        /\ Len(Tail(channel)) = Len(channel) - 1 /\ Len(channel) \in Nat
    BY <1>2, ReceiveFacts, HeadAndTail
  <2>2. ASSUME NEW i \in 1..Len(channel'), channel'[i].eof
        PROVE  /\ ScriptOver(channel'[i].file)
               /\ \A j \in (i + 1)..Len(channel') : channel'[j].file # channel'[i].file
    <3>1. PICK k \in 1..Len(channel) : k = i + 1 /\ channel'[i] = channel[k]
      BY <2>1
    <3>2. ScriptOver(channel[k].file) /\ \A j \in (k + 1)..Len(channel) : channel[j].file # channel[k].file
      BY <1>0, <2>2, <3>1 DEF EndsInChannel
    <3>3. \A j \in (i + 1)..Len(channel') : j + 1 \in (k + 1)..Len(channel) /\ channel'[j] = channel[j + 1]
      BY <2>1, <3>1
    <3> QED BY <3>1, <3>2, <3>3
  <2> QED BY <2>1, <2>2 DEF EndsInChannel, ScriptOver
<1>3. ASSUME NEW ch, channel' = Append(channel, ch), ch.file = Script[step].file,
             step <= Len(Script), ch.eof => Inserts /\ step' = step + 1
      PROVE  EndsInChannel'
  <2>1. /\ Len(channel') = Len(channel) + 1 /\ channel'[Len(channel) + 1] = ch
        /\ \A i \in 1..Len(channel) : channel'[i] = channel[i]
        /\ Len(channel) \in Nat /\ step \in 1..Len(Script)
    BY <1>0, <1>3 DEF DrainTyped
  <2>2. ASSUME NEW i \in 1..Len(channel'), channel'[i].eof, NEW f, f = channel'[i].file
        PROVE  ScriptOver(f)' /\ \A j \in (i + 1)..Len(channel') : channel'[j].file # f
    <3>1. CASE i \in 1..Len(channel)
      <4>1. ScriptOver(f) /\ \A j \in (i + 1)..Len(channel) : channel[j].file # f
        BY <1>0, <2>1, <2>2, <3>1 DEF EndsInChannel
      <4>2. ch.file # f
        BY <1>3, <2>1, <4>1 DEF ScriptOver
      <4>3. \A j \in (i + 1)..Len(channel') : j \in (i + 1)..Len(channel) \/ j = Len(channel) + 1
        BY <2>1, <3>1
      <4>4. \A j \in (i + 1)..Len(channel') : channel'[j].file # f
        BY <2>1, <4>1, <4>2, <4>3
      <4> QED BY <4>1, <4>4, ScriptOverKept
    <3>2. CASE i \notin 1..Len(channel)
      <4>1. i = Len(channel) + 1 /\ (i + 1)..Len(channel') = {}
        BY <2>1, <3>2
      <4>2. ch.eof /\ f = Script[step].file
        BY <1>3, <2>1, <2>2, <4>1
      <4>3. step' = step + 1 /\ Script[step].op = "insert"
        BY <1>3, <4>2 DEF Inserts
      <4>4. ScriptOver(f)'
        BY <2>1, <4>2, <4>3, ScriptFacts DEF ScriptOver
      <4> QED BY <4>1, <4>4
    <3> QED BY <3>1, <3>2
  <2>3. ASSUME NEW i \in 1..Len(channel'), channel'[i].eof
        PROVE  /\ ScriptOver(channel[i].file)'
               /\ \A j \in (i + 1)..Len(channel') : channel'[j].file # channel'[i].file
    <3>1. PICK f : f = channel'[i].file
      OBVIOUS
    <3>2. ScriptOver(f)' /\ \A j \in (i + 1)..Len(channel') : channel'[j].file # f
      BY <2>2, <2>3, <3>1
    <3> QED BY <3>1, <3>2
  <2> QED BY <2>3 DEF EndsInChannel
<1>4. /\ Eof(Script[step].file).file = Script[step].file
      /\ Content(Script[step].file, chunk).file = Script[step].file
      /\ ~Content(Script[step].file, chunk).eof
  BY DEF Eof, Content
<1> QED BY <1>1, <1>2, <1>3, <1>4, ScriptMoves

LEMMA EndsInStoreNext ==
  ASSUME Inv, CoreStep
  PROVE  EndsInStore'
<1> SUFFICES ASSUME NEW f \in available_files, NEW i \in 1..Len(store'[f]), store'[f][i].eof
             PROVE  i = Len(store'[f]) /\ NoMore(f)'
  BY DEF EndsInStore
<1>0. EndsInStore /\ store[f] \in Seq(ChunkOf({f})) /\ DrainTyped
  BY DEF Inv, Typed, ServerTyped, EndsLast
<1>1. CASE Collects
  <2>1. store'[f] = (IF f \in Small THEN SmallChunks(f) ELSE << >>) /\ step' = step /\ channel' = channel
    BY <1>1 DEF Collects, SameDrain
  <2>2. f \in Small /\ store'[f] = SmallChunks(f)
    BY <2>1
  <2>3. i = Len(store'[f])
    <3>1. SmallContent[f] \in Seq(Unit)
      BY <2>2, ServeAssumption
    <3>2. SmallChunks(f) = <<Eof(f)>>
          \/ SmallChunks(f) = <<Content(f, SmallContent[f]), Eof(f)>>
      BY DEF SmallChunks
    <3>3. ~Content(f, SmallContent[f]).eof
      BY DEF Content
    <3>4. CASE store'[f] = <<Eof(f)>>
      BY <3>4
    <3>5. CASE store'[f] = <<Content(f, SmallContent[f]), Eof(f)>>
      <4>1. PICK c, e : c = Content(f, SmallContent[f]) /\ e = Eof(f)
        OBVIOUS
      <4>2. store'[f] = <<c, e>> /\ ~c.eof
        BY <3>3, <3>5, <4>1
      <4> QED BY <4>2
    <3> QED BY <2>2, <3>2, <3>4, <3>5
  <2>4. f \notin Large \cup Overlay
    BY <2>2, Assumed
  <2>5. ScriptOver(f)
    BY <1>0, <2>4, ScriptFacts, ScriptLength DEF ScriptOver, DrainTyped
  <2>6. \A j \in 1..Len(channel) : channel[j].file # f
    <3> SUFFICES ASSUME NEW j \in 1..Len(channel) PROVE channel[j].file # f
      OBVIOUS
    <3>1. channel[j] \in ChunkOf(Large)
      BY <1>0, ElementIn DEF DrainTyped
    <3> QED BY <2>4, <3>1, ChunkFacts
  <2> QED BY <2>1, <2>3, <2>5, <2>6 DEF NoMore, ScriptOver
<1>2. CASE ~Collects /\ store'[f] = store[f]
  <2>1. i = Len(store[f]) /\ NoMore(f)
    BY <1>0, <1>2 DEF EndsInStore
  <2> QED BY <1>2, <2>1, NoMoreKept
<1>3. CASE store'[f] = << >>
  BY <1>3
<1>4. CASE /\ Receives /\ f = Head(channel).file
           /\ store'[f] = Append(store[f], Head(channel))
  <2>1. ~NoMore(f) /\ (Head(channel).eof => NoMore(f)')
    BY <1>4, ReceiveFacts
  <2>2. PICK ch : ch = Head(channel)
    OBVIOUS
  <2>3. store'[f] = Append(store[f], ch) /\ Len(store[f]) \in Nat
    BY <1>0, <1>4, <2>2
  <2>4. i \notin 1..Len(store[f])
    <3>1. ASSUME i \in 1..Len(store[f])
          PROVE  FALSE
      <4>1. store'[f][i] = store[f][i]
        BY <2>3, <1>0, <3>1
      <4> QED BY <1>0, <2>1, <3>1, <4>1 DEF EndsInStore
    <3> QED BY <3>1
  <2>5. i = Len(store[f]) + 1 /\ Len(store'[f]) = Len(store[f]) + 1 /\ store'[f][i] = ch
    BY <1>0, <2>3, <2>4
  <2> QED BY <2>1, <2>2, <2>5
<1> QED BY <1>1, <1>2, <1>3, <1>4, StoreMoves

LEMMA NotCollecting ==
  ASSUME Inv, Collects
  PROVE  sending = None /\ sending' = None /\ Receiver
BY DEF Inv, Turns, Collects, Receiver

\* What begins to be sent is all there is in store.
LEMMA BegunEnds ==
  ASSUME Inv, CoreStep, ~Collects, NEW p \in Holders, store' = [store EXCEPT ![p[2]] = << >>],
         NEW b \in BOOLEAN,
         sending' = [pipe |-> p, chunks |-> store[p[2]], at |-> 0, new |-> b]
  PROVE  EndsInSending'
<1>1. ServerTyped /\ EndsInStore
  BY DEF Inv, Typed, EndsLast
<1>2. PICK f \in available_files : f = p[2]
  BY DEF Holders
<1>3. sending'.chunks = store[f] /\ sending'.pipe = p
  BY <1>1, <1>2, DeliveryBegun
<1>4. store'[f] = << >>
  BY <1>1, <1>2 DEF ServerTyped
<1>5. ASSUME NEW i \in 1..Len(store[f]), store[f][i].eof
      PROVE  i = Len(store[f]) /\ Over(f)'
  <2>1. i = Len(store[f]) /\ NoMore(f)
    BY <1>1, <1>5 DEF EndsInStore
  <2>2. NoMore(f)'
    BY <2>1, NoMoreKept
  <2> QED BY <1>4, <2>1, <2>2 DEF Over
<1>6. sending'.pipe[2] = f
  BY <1>2, <1>3
<1>7. \A i \in 1..Len(sending'.chunks) : sending'.chunks[i].eof =>
        i = Len(sending'.chunks) /\ Over(f)'
  BY <1>3, <1>5
<1> QED BY <1>6, <1>7 DEF EndsInSending

LEMMA EndsInSendingNext ==
  ASSUME Inv, CoreStep
  PROVE  EndsInSending'
<1>0. EndsInSending /\ Typed /\ Turns /\ ServerTyped
  BY DEF Inv, Typed, EndsLast
<1>1. CASE sending' = None
  BY <1>1 DEF EndsInSending
<1>2. ASSUME sending # None, sending' # None, ~Collects, sending'.pipe = sending.pipe,
             \/ sending'.chunks = sending.chunks
             \/ sending.chunks # << >> /\ sending'.chunks = Tail(sending.chunks)
      PROVE  EndsInSending'
  <2>1. PICK f \in available_files : f = sending.pipe[2]
    BY <1>0, <1>2, SendingFacts
  <2>2. ASSUME Over(f)
        PROVE  Over(f)'
    BY <1>2, <2>2, OverKept
  <2>3. sending.chunks \in Seq(ChunkOf({f}))
    BY <1>0, <1>2, <2>1, SendingFacts
  <2>4. \A i \in 1..Len(sending.chunks) : sending.chunks[i].eof => i = Len(sending.chunks) /\ Over(f)
    BY <1>0, <1>2, <2>1 DEF EndsInSending
  <2>5. \A i \in 1..Len(sending'.chunks) : sending'.chunks[i].eof =>
          i = Len(sending'.chunks) /\ Over(f)'
    <3>1. CASE sending'.chunks = sending.chunks
      BY <2>2, <2>4, <3>1
    <3>2. CASE sending.chunks # << >> /\ sending'.chunks = Tail(sending.chunks)
      <4>1. PICK s, t : s = sending.chunks /\ t = Tail(s)
        OBVIOUS
      <4>2. /\ Len(t) = Len(s) - 1 /\ Len(s) \in Nat
            /\ \A i \in 1..Len(t) : i + 1 \in 1..Len(s) /\ t[i] = s[i + 1]
        BY <2>3, <3>2, <4>1, HeadAndTail
      <4>3. \A i \in 1..Len(t) : t[i].eof => i = Len(t) /\ Over(f)
        BY <2>4, <4>1, <4>2
      <4> QED BY <2>2, <3>2, <4>1, <4>3
    <3> QED BY <1>2, <3>1, <3>2
  <2>6. sending'.pipe[2] = f
    BY <1>2, <2>1
  <2> QED BY <2>5, <2>6 DEF EndsInSending
<1>3. CASE sending' = sending
  <2>1. CASE Collects
    BY <1>1, <2>1, NotCollecting
  <2>2. CASE sending # None /\ ~Collects
    <3>1. sending' # None /\ sending'.pipe = sending.pipe /\ sending'.chunks = sending.chunks
      BY <1>3, <2>2
    <3> QED BY <1>2, <2>2, <3>1
  <2>3. CASE sending = None
    BY <1>1, <1>3, <2>3
  <2> QED BY <2>1, <2>2, <2>3
<1>4. CASE Splices
  <2>1. ~Collects
    BY <1>4 DEF Splices, SendingData, Collects
  <2>2. sending # None /\ sending' # None /\ sending'.pipe = sending.pipe /\ sending.chunks # << >>
    BY <1>4, Spliced
  <2>3. sending'.chunks = sending.chunks \/ sending'.chunks = Tail(sending.chunks)
    BY <1>4, Spliced
  <2> QED BY <1>2, <2>1, <2>2, <2>3
<1>5. CASE Flushes
  <2>1. PICK p \in Holders : p = open_pipes[cursor]
    BY <1>0, <1>5, ElementIn DEF ServerTyped, Flushes, Turns
  <2>2. PICK b \in BOOLEAN : b = FALSE
    OBVIOUS
  <2>3. /\ sending' = [pipe |-> p, chunks |-> store[p[2]], at |-> 0, new |-> b]
        /\ store' = [store EXCEPT ![p[2]] = << >>] /\ ~Collects
    BY <1>5, <2>1, <2>2 DEF Flushes, Collects
  <2> QED BY <2>3, BegunEnds
<1>6. ASSUME NEW p \in Holders, Promises(p)
      PROVE  EndsInSending'
  <2>1. PICK b \in BOOLEAN : b = TRUE
    OBVIOUS
  <2>2. /\ sending' = [pipe |-> p, chunks |-> store[p[2]], at |-> 0, new |-> b]
        /\ store' = [store EXCEPT ![p[2]] = << >>] /\ ~Collects
    BY <1>6, <2>1 DEF Promises, Collects
  <2> QED BY <2>2, BegunEnds
<1>7. CASE ReturnsNew \/ ReturnsOld
  BY <1>1, <1>7 DEF ReturnsNew, ReturnsOld
<1>8. CASE DrainStep \/ Fails \/ Collects \/ Receives \/ GoesOn \/ Passes \/ Drops \/ Heard
             \/ Opens \/ Rests \/ (\E p \in Pipe : Reads(p) \/ Abandons(p))
  <2>1. sending' = sending
    BY <1>8 DEF DrainStep, Skips, Acquires, Forwards, Inserts, Finishes, Fails, Collects,
                Receives, GoesOn, Passes, Drops, Heard, Opens, Rests, Reads, Abandons, SameServer
  <2> QED BY <1>3, <2>1
<1> QED BY <1>4, <1>5, <1>6, <1>7, <1>8 DEF CoreStep, ServerStep

LEMMA EndsLastNext ==
  ASSUME Inv, CoreStep
  PROVE  EndsLast'
BY EndsInChannelNext, EndsInStoreNext, EndsInSendingNext DEF EndsLast

-----------------------------------------------------------------------------
\* Holders.

\* The client a chunk is for is sent it, or the end of the file was sent.
LEMMA SentAllOver ==
  ASSUME Inv, server = "send", SentAll
  PROVE  Over(sending.pipe[2])
<1>1. sending # None /\ sending.chunks # << >> /\ NextChunk.eof
  BY DEF Inv, Turns, SentAll
<1>2. NextChunk = sending.chunks[1] /\ 1 \in 1..Len(sending.chunks)
  BY <1>1, SendingFacts, HeadAndTail DEF Inv, NextChunk
<1> QED BY <1>1, <1>2 DEF Inv, EndsLast, EndsInSending

LEMMA NobodyYet ==
  ASSUME Inv, server = "collect"
  PROVE  /\ \A p \in Holders : ~Held(p) /\ end[p] # "closed"
         /\ finished = {}
BY Assumed DEF Inv, Turns, Owed, NotBegun, Held, Sending

\* Nobody holds a file that is in store when a client is heard.
LEMMA NobodyHolds ==
  ASSUME Inv, NEW p \in Holders, server = "poll", store[p[2]] # << >>
  PROVE  \A q \in Holders : q[2] = p[2] => ~Held(q)
<1> SUFFICES ASSUME NEW q \in Holders, q[2] = p[2], Held(q) PROVE FALSE
  OBVIOUS
<1>1. ~Sending(q)
  BY DEF Inv, Turns, Sending
<1>2. ~Over(q[2])
  BY DEF Over
<1>3. Open(q)
  BY <1>1, <1>2 DEF Inv, Owed, HolderOwed
<1>4. PICK i \in 1..Len(open_pipes) : open_pipes[i] = q
  BY <1>3 DEF Open, Has
<1>5. store[q[2]] = << >>
  BY <1>4 DEF Inv, Owed, Flushed, FlushedUpTo
<1> QED BY <1>5

LEMMA HeldMoves ==
  ASSUME Inv, CoreStep, NEW p \in Holders
  PROVE  Held(p)' <=> Held(p) \/ Promises(p)
<1>0. Typed /\ Turns /\ PipesTyped /\ p \in Pipe
  BY Assumed DEF Inv, Typed
<1>1. CASE end' = end /\ sending' = sending /\ ~Promises(p)
  BY <1>1 DEF Held, Sending
<1>2. CASE Fails
  <2>1. sending' = sending /\ (end'[p] # "none" <=> end[p] # "none")
    BY <1>0, <1>2 DEF Fails, PipesTyped
  <2>2. ~Promises(p)
    BY <1>2 DEF Fails, Promises
  <2> QED BY <2>1, <2>2 DEF Held, Sending
<1>3. CASE Drops
  <2>1. sending' = sending /\ (end'[p] # "none" <=> end[p] # "none")
    BY <1>0, <1>3 DEF Drops, PipesTyped
  <2>2. ~Promises(p)
    BY <1>3 DEF Drops, Promises
  <2> QED BY <2>1, <2>2 DEF Held, Sending
<1>4. CASE Opens
  <2>1. sending' = sending /\ sending # None
    BY <1>0, <1>4 DEF Opens, Turns
  <2>2. end'[p] # "none" \/ sending.pipe = p <=> end[p] # "none" \/ sending.pipe = p
    BY <1>0, <1>4 DEF Opens, PipesTyped
  <2>3. ~Promises(p)
    BY <1>4 DEF Opens, Promises
  <2> QED BY <2>1, <2>2, <2>3 DEF Held, Sending
<1>5. CASE Flushes
  <2>1. PICK q \in Holders : q = open_pipes[cursor] /\ cursor \in 1..Len(open_pipes)
    BY <1>0, <1>5, ElementIn DEF Typed, ServerTyped, Flushes, Turns
  <2>2. end[q] # "none"
    BY <2>1 DEF Inv, Owed, AllOffered
  <2>3. PICK b \in BOOLEAN : b = FALSE
    OBVIOUS
  <2>4. sending' = [pipe |-> q, chunks |-> store[q[2]], at |-> 0, new |-> b]
        /\ end' = end /\ sending = None
    BY <1>0, <1>5, <2>1, <2>3 DEF Flushes, SamePipes, Turns
  <2>5. sending' # None /\ sending'.pipe = q
    BY <1>0, <2>4, DeliveryBegun DEF Typed
  <2>6. ~Promises(p)
    BY <1>5 DEF Flushes, Promises
  <2> QED BY <2>2, <2>4, <2>5, <2>6 DEF Held, Sending
<1>6. CASE Splices
  <2>1. sending # None /\ sending' # None /\ sending'.pipe = sending.pipe
    BY <1>6, Spliced
  <2>2. end' = end /\ ~Promises(p)
    BY <1>6 DEF Splices, SendingData, Promises
  <2> QED BY <2>1, <2>2 DEF Held, Sending
<1>7. CASE ReturnsNew \/ ReturnsOld
  <2>1. /\ sending # None /\ sending' = None /\ end[sending.pipe] # "none" /\ ~Promises(p)
    BY <1>0, <1>7 DEF ReturnsNew, ReturnsOld, Turns, Inv, Owed, AllOffered, Promises
  <2>2. end'[p] # "none" <=> end[p] # "none"
    BY <1>0, <1>7, <2>1 DEF ReturnsNew, ReturnsOld, SamePipes, PipesTyped
  <2> QED BY <2>1, <2>2 DEF Held, Sending
<1>8. ASSUME NEW q \in Holders, Promises(q)
      PROVE  Held(p)' <=> Held(p) \/ Promises(p)
  <2>1. PICK b \in BOOLEAN : b = TRUE
    OBVIOUS
  <2>2. sending' = [pipe |-> q, chunks |-> store[q[2]], at |-> 0, new |-> b]
        /\ end' = end /\ sending = None
    BY <1>0, <1>8, <2>1 DEF Promises, SamePipes, Turns
  <2>3. sending' # None /\ sending'.pipe = q
    BY <1>0, <2>2, DeliveryBegun DEF Typed
  <2>4. Promises(p) <=> p = q
    <3>1. ASSUME Promises(p)
          PROVE  p = q
      <4>1. sending' = [pipe |-> p, chunks |-> store[p[2]], at |-> 0, new |-> b]
        BY <2>1, <3>1 DEF Promises
      <4>2. sending'.pipe = p
        BY <4>1
      <4> QED BY <2>3, <4>2
    <3> QED BY <1>8, <3>1
  <2> QED BY <2>2, <2>3, <2>4 DEF Held, Sending
<1>9. ASSUME NEW q \in Pipe, Reads(q) \/ Abandons(q)
      PROVE  Held(p)' <=> Held(p) \/ Promises(p)
  <2>1. sending' = sending /\ (end'[p] # "none" <=> end[p] # "none") /\ server' = server
    BY <1>0, <1>9 DEF Reads, Abandons, PipesTyped, SameServer
  <2>2. ~Promises(p)
    BY <2>1 DEF Promises
  <2> QED BY <2>1, <2>2 DEF Held, Sending
<1>10. CASE DrainStep \/ Rests \/ Collects \/ Receives \/ GoesOn \/ Passes \/ Heard
  <2>1. end' = end /\ sending' = sending /\ (server' = server \/ server' # "pipe")
    BY <1>10 DEF DrainStep, Skips, Acquires, Forwards, Inserts, Finishes, Rests, Collects,
                 Receives, GoesOn, Passes, Heard, SameServer, SamePipes
  <2>2. ~Promises(p)
    BY <2>1 DEF Promises
  <2> QED BY <1>1, <2>1, <2>2
<1> QED BY <1>2, <1>3, <1>4, <1>5, <1>6, <1>7, <1>8, <1>9, <1>10 DEF CoreStep, ServerStep

LEMMA OneHolderNext ==
  ASSUME Inv, CoreStep
  PROVE  OneHolder'
<1> SUFFICES ASSUME NEW p \in Holders, NEW q \in Holders, Held(p)', Held(q)', p[2] = q[2]
             PROVE  p = q
  BY DEF OneHolder
<1>1. (Held(p) \/ Promises(p)) /\ (Held(q) \/ Promises(q))
  BY HeldMoves
<1>2. CASE Held(p) /\ Held(q)
  BY <1>2 DEF Inv, Owed, OneHolder
<1>3. CASE Promises(p)
  <2>1. ~Held(q)
    BY <1>3, NobodyHolds DEF Promises
  <2>2. Promises(q)
    BY <1>1, <2>1
  <2>3. sending'.pipe = p /\ sending'.pipe = q
    BY <1>3, <2>2 DEF Promises
  <2> QED BY <2>3
<1>4. CASE Promises(q) /\ Held(p)
  BY <1>4, NobodyHolds DEF Promises
<1> QED BY <1>1, <1>2, <1>3, <1>4

LEMMA StillServing ==
  ASSUME Inv, CoreStep, server' # "failed"
  PROVE  server # "failed"
BY DEF CoreStep, DrainStep, Skips, Acquires, Forwards, Inserts, Finishes, ServerStep, Fails,
       Collects, Receives, GoesOn, Passes, Flushes, Drops, Splices, SendingData, ReturnsNew,
       ReturnsOld, Heard, Opens, Promises, Reads, Abandons, Rests, SameServer

\* Pipes leave open_pipes with the last chunk of their file, and what was sent goes
\* there if it had more to come.
LEMMA OpenMoves ==
  ASSUME Inv, CoreStep, server' # "failed", NEW p \in Holders, Open(p) \/ Sending(p)
  PROVE  Open(p)' \/ Sending(p)' \/ Over(p[2])
<1>0. Typed /\ Turns /\ ServerTyped /\ open_pipes \in Seq(Holders) /\ server # "failed"
  BY StillServing DEF Inv, Typed, ServerTyped
<1>1. CASE open_pipes' = open_pipes /\ (sending' = sending \/ sending = None)
  BY <1>1 DEF Open, Sending
<1>2. CASE Drops
  <2>1. sending = None /\ open_pipes' = Kept
    BY <1>0, <1>2 DEF Drops, Turns
  <2>2. PICK i \in 1..Len(open_pipes) : open_pipes[i] = p
    BY <2>1 DEF Open, Has, Sending
  <2>3. CASE i \in finished
    BY <1>0, <2>2, <2>3 DEF Inv, Owed, FinishedOver
  <2>4. CASE i \notin finished
    BY <1>0, <2>1, <2>2, <2>4, KeptFacts DEF Open
  <2> QED BY <2>3, <2>4
<1>3. CASE Splices
  <2>1. /\ sending # None /\ sending' # None /\ sending'.pipe = sending.pipe
        /\ open_pipes' = open_pipes
    BY <1>3, Spliced DEF Splices, SameBooks
  <2> QED BY <2>1 DEF Open, Sending
<1>4. CASE ReturnsNew
  <2>1. CASE SentAll
    <3>1. open_pipes' = open_pipes /\ Over(sending.pipe[2])
      BY <1>4, <2>1, SentAllOver DEF ReturnsNew
    <3> QED BY <3>1 DEF Open, Sending
  <2>2. CASE ~SentAll
    <3>1. sending # None /\ sending.pipe \in Holders /\ open_pipes' = Append(open_pipes, sending.pipe)
      BY <1>0, <1>4, <2>2, SendingFacts DEF ReturnsNew, Turns
    <3>2. PICK q \in Holders : q = sending.pipe
      BY <3>1
    <3>3. /\ Len(open_pipes') = Len(open_pipes) + 1 /\ open_pipes'[Len(open_pipes) + 1] = q
          /\ \A i \in 1..Len(open_pipes) : open_pipes'[i] = open_pipes[i]
          /\ Len(open_pipes) \in Nat
      BY <1>0, <3>1, <3>2, Appended
    <3>4. CASE Sending(p)
      <4>1. p = q /\ Len(open_pipes) + 1 \in 1..Len(open_pipes')
        BY <3>2, <3>3, <3>4 DEF Sending
      <4> QED BY <3>3, <4>1 DEF Open, Has
    <3>5. CASE Open(p)
      <4>1. PICK i \in 1..Len(open_pipes) : open_pipes[i] = p
        BY <3>5 DEF Open, Has
      <4>2. i \in 1..Len(open_pipes')
        BY <3>3
      <4> QED BY <3>3, <4>1, <4>2 DEF Open, Has
    <3> QED BY <3>4, <3>5
  <2> QED BY <2>1, <2>2
<1>5. CASE ReturnsOld
  <2>1. cursor \in 1..Len(open_pipes) /\ sending.pipe = open_pipes[cursor] /\ open_pipes' = open_pipes
    BY <1>0, <1>5 DEF ReturnsOld, Turns
  <2>2. Open(p)
    BY <2>1 DEF Open, Has, Sending
  <2> QED BY <2>1, <2>2 DEF Open
<1>6. CASE Flushes \/ \E q \in Holders : Promises(q)
  <2>1. sending = None /\ open_pipes' = open_pipes
    BY <1>0, <1>6 DEF Flushes, Promises, Turns, SameBooks
  <2> QED BY <1>1, <2>1
<1>7. CASE DrainStep \/ Rests \/ Collects \/ Receives \/ GoesOn \/ Passes \/ Heard \/ Opens
             \/ (\E q \in Pipe : Reads(q) \/ Abandons(q))
  <2>1. open_pipes' = open_pipes /\ sending' = sending
    BY <1>7 DEF DrainStep, Skips, Acquires, Forwards, Inserts, Finishes, Rests, Collects,
                Receives, GoesOn, Passes, Heard, Opens, Reads, Abandons, SameServer, SameBooks
  <2> QED BY <1>1, <2>1
<1>8. ~Fails
  BY DEF Fails
<1> QED BY <1>2, <1>3, <1>4, <1>5, <1>6, <1>7, <1>8 DEF CoreStep, ServerStep

LEMMA HolderOwedNext ==
  ASSUME Inv, CoreStep
  PROVE  HolderOwed'
<1> SUFFICES ASSUME server' # "failed", NEW p \in Holders, Held(p)'
             PROVE  (Open(p) \/ Sending(p) \/ Over(p[2]))'
  BY DEF HolderOwed
<1>0. PICK f \in available_files : f = p[2]
  BY DEF Holders
<1>1. Held(p) \/ Promises(p)
  BY HeldMoves
<1>2. CASE Promises(p)
  <2>1. PICK b \in BOOLEAN : b = TRUE
    OBVIOUS
  <2>2. sending' = [pipe |-> p, chunks |-> store[p[2]], at |-> 0, new |-> b]
    BY <1>2, <2>1 DEF Promises
  <2>3. sending' # None /\ sending'.pipe = p
    BY <2>2, DeliveryBegun DEF Inv, Typed
  <2> QED BY <2>3 DEF Sending
<1>3. CASE Held(p)
  <2>1. ~Collects
    BY <1>3, NobodyYet DEF Collects
  <2>2. Open(p) \/ Sending(p) \/ Over(f)
    BY <1>0, <1>3, StillServing DEF Inv, Owed, HolderOwed
  <2>3. Open(p)' \/ Sending(p)' \/ Over(f)
    BY <1>0, <2>2, OpenMoves
  <2>4. Over(f) => Over(f)'
    BY <2>1, OverKept
  <2> QED BY <1>0, <2>3, <2>4
<1> QED BY <1>1, <1>2, <1>3

\* What is taken out of store stays flushed.
LEMMA FlushedStill ==
  ASSUME ServerTyped, NEW n \in Nat, n <= Len(open_pipes), NEW f \in available_files,
         FlushedUpTo(n), open_pipes' = open_pipes, store' = [store EXCEPT ![f] = << >>]
  PROVE  FlushedUpTo(n)'
<1> SUFFICES ASSUME NEW i \in 1..n PROVE store'[open_pipes[i][2]] = << >>
  BY DEF FlushedUpTo
<1>1. open_pipes[i] \in Holders
  BY ElementIn DEF ServerTyped
<1>2. PICK g \in available_files : g = open_pipes[i][2]
  BY <1>1 DEF Holders
<1>3. store[g] = << >>
  BY <1>2 DEF FlushedUpTo
<1>4. store'[g] = << >>
  BY <1>3 DEF ServerTyped
<1> QED BY <1>2, <1>4

LEMMA FlushedNext ==
  ASSUME Inv, CoreStep
  PROVE  Flushed'
<1>0. Typed /\ Turns /\ Flushed /\ ServerTyped /\ open_pipes \in Seq(Holders)
      /\ Len(open_pipes) \in Nat /\ cursor \in Nat \ {0}
  BY DEF Inv, Typed, Owed, ServerTyped, Turns
<1>1. CASE server' \in {"recv", "done", "failed"}
  BY <1>1 DEF Flushed
<1>2. CASE SameServer
  BY <1>0, <1>2 DEF SameServer, SameBooks, Flushed, FlushedUpTo
<1>3. CASE GoesOn
  <2>1. server' = "flush" /\ cursor' = 1
    BY <1>0, <1>3 DEF GoesOn, Turns, SameBooks
  <2> QED BY <2>1 DEF Flushed, FlushedUpTo
<1>4. CASE Passes
  <2>1. server' = "flush" /\ cursor' = cursor + 1 /\ open_pipes' = open_pipes /\ store' = store
    BY <1>4 DEF Passes
  <2>2. FlushedUpTo(cursor - 1) /\ store[open_pipes[cursor][2]] = << >>
    BY <1>0, <1>4 DEF Passes, Flushed
  <2>3. \A i \in 1..cursor : store[open_pipes[i][2]] = << >>
    BY <1>0, <2>2 DEF FlushedUpTo
  <2> QED BY <1>0, <2>1, <2>3 DEF Flushed, FlushedUpTo
<1>5. CASE Flushes
  <2>1. PICK p \in Holders : p = open_pipes[cursor]
    BY <1>0, <1>5, ElementIn DEF Flushes
  <2>2. PICK f \in available_files : f = p[2]
    BY DEF Holders
  <2>3. /\ server' = "send" /\ cursor' = cursor /\ open_pipes' = open_pipes
        /\ cursor <= Len(open_pipes) /\ store' = [store EXCEPT ![f] = << >>]
    BY <1>5, <2>1, <2>2 DEF Flushes, SameBooks
  <2>4. FlushedUpTo(cursor - 1)
    BY <1>0, <1>5 DEF Flushes, Flushed
  <2>5. \A i \in 1..(cursor - 1) : store'[open_pipes[i][2]] = << >>
    <3>1. PICK n \in Nat : n = cursor - 1
      BY <1>0
    <3>2. n <= Len(open_pipes) /\ FlushedUpTo(n)
      BY <1>0, <2>3, <2>4, <3>1
    <3>3. FlushedUpTo(n)'
      BY <1>0, <2>3, <3>2, FlushedStill, Zenon
    <3> QED BY <2>3, <3>1, <3>3 DEF FlushedUpTo
  <2>6. store'[f] = << >>
    BY <1>0, <2>3 DEF ServerTyped
  <2>7. \A i \in 1..cursor : store'[open_pipes[i][2]] = << >>
    BY <1>0, <2>1, <2>2, <2>5, <2>6
  <2>8. PICK b \in BOOLEAN : b = FALSE
    OBVIOUS
  <2>9. sending' = [pipe |-> p, chunks |-> store[p[2]], at |-> 0, new |-> b]
    BY <1>5, <2>1, <2>8 DEF Flushes
  <2>10. ~sending'.new
    BY <1>0, <2>8, <2>9, DeliveryBegun
  <2>11. server' # "flush" /\ server' \notin {"poll", "pipe"}
    BY <2>3
  <2> QED BY <2>3, <2>7, <2>10, <2>11 DEF Flushed, FlushedUpTo
<1>6. CASE Drops
  <2>1. server' = "poll" /\ open_pipes' = Kept /\ store' = store /\ cursor > Len(open_pipes)
    BY <1>6 DEF Drops
  <2>2. \A i \in 1..Len(open_pipes) : store[open_pipes[i][2]] = << >>
    <3>1. FlushedUpTo(cursor - 1)
      BY <1>0, <1>6 DEF Drops, Flushed
    <3> QED BY <1>0, <2>1, <3>1 DEF FlushedUpTo
  <2>3. ASSUME NEW i \in 1..Len(Kept)
        PROVE  store[Kept[i][2]] = << >>
    <3>1. PICK p : p = Kept[i]
      OBVIOUS
    <3>2. Has(Kept, p)
      BY <3>1 DEF Has
    <3>3. PICK j \in 1..Len(open_pipes) : open_pipes[j] = p
      BY <1>0, <3>2, KeptFacts
    <3> QED BY <2>2, <3>1, <3>3
  <2>4. \A i \in 1..Len(open_pipes') : store'[open_pipes'[i][2]] = << >>
    BY <2>1, <2>3
  <2> QED BY <2>1, <2>4 DEF Flushed, FlushedUpTo
<1>7. CASE Splices
  <2>1. /\ sending # None /\ sending'.new = sending.new
        /\ server' = server /\ open_pipes' = open_pipes /\ cursor' = cursor /\ store' = store
    BY <1>7, Spliced DEF Splices, SameBooks
  <2> QED BY <1>0, <2>1 DEF Flushed, FlushedUpTo
<1>8. CASE ReturnsOld
  <2>1. /\ server' = "flush" /\ cursor' = cursor + 1 /\ open_pipes' = open_pipes
        /\ store' = store
    BY <1>8 DEF ReturnsOld
  <2>2. \A i \in 1..cursor : store[open_pipes[i][2]] = << >>
    BY <1>0, <1>8 DEF ReturnsOld, Flushed, FlushedUpTo
  <2> QED BY <1>0, <2>1, <2>2 DEF Flushed, FlushedUpTo
<1>9. ASSUME NEW p \in Holders, Promises(p)
      PROVE  Flushed'
  <2>1. PICK f \in available_files : f = p[2]
    BY DEF Holders
  <2>2. /\ server' = "pipe" /\ open_pipes' = open_pipes /\ store' = [store EXCEPT ![f] = << >>]
    BY <1>9, <2>1 DEF Promises
  <2>3. PICK n \in Nat : n = Len(open_pipes)
    BY <1>0
  <2>4. FlushedUpTo(n) /\ n <= Len(open_pipes)
    BY <1>0, <1>9, <2>3 DEF Promises, Flushed
  <2>5. FlushedUpTo(n)'
    BY <1>0, <2>2, <2>4, FlushedStill, Zenon
  <2> QED BY <2>2, <2>3, <2>5 DEF Flushed, FlushedUpTo
<1>10. CASE Opens
  <2>1. /\ server = "pipe" /\ server' \in {"pipe", "send"} /\ sending'.new
        /\ open_pipes' = open_pipes /\ store' = store
    BY <1>0, <1>10 DEF Opens, Turns, SameBooks
  <2> QED BY <1>0, <2>1 DEF Flushed, FlushedUpTo
<1>11. CASE DrainStep \/ Rests \/ (\E p \in Pipe : Reads(p) \/ Abandons(p))
  <2>1. SameServer
    BY <1>11 DEF DrainStep, Skips, Acquires, Forwards, Inserts, Finishes, Rests, Reads,
                 Abandons
  <2> QED BY <1>2, <2>1
<1>12. CASE Fails \/ Collects \/ Receives \/ ReturnsNew \/ Heard
  <2>1. server' \in {"recv", "done", "failed"}
    BY <1>12 DEF Fails, Collects, Receives, ReturnsNew, Heard
  <2> QED BY <1>1, <2>1
<1> QED BY <1>3, <1>4, <1>5, <1>6, <1>7, <1>8, <1>9, <1>10, <1>11, <1>12
        DEF CoreStep, ServerStep

LEMMA FinishedOverNext ==
  ASSUME Inv, CoreStep
  PROVE  FinishedOver'
<1> SUFFICES ASSUME server' # "failed", NEW i \in finished'
             PROVE  Over(open_pipes[i][2])'
  BY DEF FinishedOver
<1>0. /\ Typed /\ Turns /\ open_pipes \in Seq(Holders) /\ server # "failed"
      /\ Len(open_pipes) \in Nat /\ cursor \in 1..(Len(open_pipes) + 1)
      /\ finished \subseteq 1..(cursor - 1)
  BY StillServing DEF Inv, Typed, ServerTyped, Turns
<1>1. CASE Drops \/ Collects
  <2>1. CASE Drops
    BY <2>1 DEF Drops
  <2>2. CASE Collects
    BY <2>2, NobodyYet DEF Collects, SameBooks
  <2> QED BY <1>1, <2>1, <2>2
<1>2. ASSUME ~Collects, i \in 1..Len(open_pipes), open_pipes'[i] = open_pipes[i],
             Over(open_pipes[i][2])
      PROVE  Over(open_pipes[i][2])'
  <2>1. PICK f \in available_files : f = open_pipes[i][2]
    BY <1>0, <1>2, ElementIn DEF Holders
  <2>2. Over(f)'
    BY <1>2, <2>1, OverKept
  <2> QED BY <1>2, <2>1, <2>2
<1>3. ASSUME i \in finished
      PROVE  i \in 1..Len(open_pipes) /\ Over(open_pipes[i][2])
  BY <1>0, <1>3 DEF Inv, Owed, FinishedOver
<1>4. CASE finished' = finished /\ open_pipes' = open_pipes /\ ~Collects
  BY <1>2, <1>3, <1>4
<1>5. CASE ReturnsNew
  <2>1. finished' = {}
    BY <1>0, <1>5 DEF ReturnsNew, Turns
  <2> QED BY <2>1
<1>6. CASE ReturnsOld
  <2>1. /\ open_pipes' = open_pipes /\ ~Collects /\ cursor \in 1..Len(open_pipes)
        /\ sending.pipe = open_pipes[cursor] /\ server = "send"
    BY <1>0, <1>6 DEF ReturnsOld, Turns, Collects
  <2>2. CASE i \in finished
    BY <1>2, <1>3, <2>1, <2>2
  <2>3. CASE i \notin finished
    <3>1. i = cursor /\ SentAll
      BY <1>6, <2>3 DEF ReturnsOld
    <3>2. Over(open_pipes[i][2])
      BY <2>1, <3>1, SentAllOver
    <3> QED BY <1>2, <2>1, <3>1, <3>2
  <2> QED BY <2>2, <2>3
<1>7. CASE DrainStep \/ Rests \/ Receives \/ GoesOn \/ Passes \/ Flushes \/ Splices \/ Heard
             \/ Opens \/ (\E p \in Holders : Promises(p)) \/ (\E p \in Pipe : Reads(p) \/ Abandons(p))
  <2>1. finished' = finished /\ open_pipes' = open_pipes
    BY <1>7 DEF DrainStep, Skips, Acquires, Forwards, Inserts, Finishes, Rests, Receives,
                GoesOn, Passes, Flushes, Splices, Heard, Opens, Promises, Reads, Abandons,
                SameServer, SameBooks
  <2> QED BY <1>1, <1>4, <2>1
<1>8. ~Fails
  BY DEF Fails
<1> QED BY <1>1, <1>5, <1>6, <1>7, <1>8 DEF CoreStep, ServerStep

LEMMA ClosedOverNext ==
  ASSUME Inv, CoreStep
  PROVE  ClosedOver'
<1> SUFFICES ASSUME server' # "failed", NEW p \in Holders, end'[p] = "closed"
             PROVE  Over(p[2])'
  BY DEF ClosedOver
<1>0. /\ Typed /\ Turns /\ PipesTyped /\ p \in Pipe /\ open_pipes \in Seq(Holders)
      /\ server # "failed"
  BY StillServing, Assumed DEF Inv, Typed, ServerTyped
<1>1. PICK f \in available_files : f = p[2]
  BY DEF Holders
<1>2. CASE Collects
  <2>1. end[p] # "closed"
    BY <1>2, NobodyYet DEF Collects
  <2> QED BY <1>2, <2>1 DEF Collects, SamePipes
<1>3. ASSUME ~Collects, Over(f)
      PROVE  Over(p[2])'
  BY <1>1, <1>3, OverKept
<1>4. CASE end[p] = "closed" /\ ~Collects
  BY <1>0, <1>1, <1>3, <1>4 DEF Inv, Owed, ClosedOver
<1>5. CASE Drops
  <2>1. end[p] = "closed" \/ \E i \in finished : p = open_pipes[i]
    BY <1>0, <1>5 DEF Drops
  <2>2. ASSUME NEW i \in finished, p = open_pipes[i]
        PROVE  Over(f)
    BY <1>0, <1>1, <2>2 DEF Inv, Owed, FinishedOver
  <2>3. ~Collects
    BY <1>5 DEF Drops, Collects
  <2> QED BY <1>3, <1>4, <2>1, <2>2, <2>3
<1>6. CASE ReturnsNew
  <2>1. end[p] = "closed" \/ (SentAll /\ sending.pipe = p)
    BY <1>0, <1>6 DEF ReturnsNew, PipesTyped
  <2>2. ~Collects /\ server = "send"
    BY <1>6 DEF ReturnsNew, Collects
  <2>3. SentAll /\ sending.pipe = p => Over(f)
    BY <1>1, <2>2, SentAllOver
  <2> QED BY <1>3, <1>4, <2>1, <2>2, <2>3
<1>7. CASE Opens \/ \E q \in Pipe : Abandons(q)
  <2>1. end[p] = "closed"
    BY <1>0, <1>7 DEF Opens, Abandons, PipesTyped
  <2> QED BY <1>2, <1>4, <2>1
<1>8. CASE DrainStep \/ Rests \/ Receives \/ GoesOn \/ Passes \/ Flushes \/ Splices \/ Heard
             \/ ReturnsOld \/ (\E q \in Holders : Promises(q)) \/ (\E q \in Pipe : Reads(q))
  <2>1. end[p] = "closed"
    BY <1>8 DEF DrainStep, Skips, Acquires, Forwards, Inserts, Finishes, Rests, Receives,
                GoesOn, Passes, Flushes, Splices, Heard, ReturnsOld, Promises, Reads, SamePipes
  <2> QED BY <1>2, <1>4, <2>1
<1>9. ~Fails
  BY DEF Fails
<1> QED BY <1>2, <1>5, <1>6, <1>7, <1>8, <1>9 DEF CoreStep, ServerStep

\* A pipe that was asked for is not forgotten.
LEMMA EndKept ==
  ASSUME Inv, CoreStep, NEW p \in Pipe, end[p] # "none"
  PROVE  end'[p] # "none"
<1>0. PipesTyped
  BY DEF Inv, Typed
<1>1. CASE Fails \/ Drops \/ ReturnsNew
  BY <1>0, <1>1 DEF Fails, Drops, ReturnsNew, PipesTyped
<1>2. CASE Opens \/ \E q \in Pipe : Abandons(q)
  BY <1>0, <1>2 DEF Opens, Abandons, PipesTyped
<1>3. CASE DrainStep \/ Rests \/ Collects \/ Receives \/ GoesOn \/ Passes \/ Flushes \/ Splices
             \/ Heard \/ ReturnsOld \/ (\E q \in Holders : Promises(q)) \/ (\E q \in Pipe : Reads(q))
  BY <1>3 DEF DrainStep, Skips, Acquires, Forwards, Inserts, Finishes, Rests, Collects,
              Receives, GoesOn, Passes, Flushes, Splices, Heard, ReturnsOld, Promises, Reads,
              SamePipes
<1> QED BY <1>1, <1>2, <1>3 DEF CoreStep, ServerStep

LEMMA AllOfferedNext ==
  ASSUME Inv, CoreStep
  PROVE  AllOffered'
<1>0. /\ Typed /\ Turns /\ ServerTyped /\ PipesTyped /\ open_pipes \in Seq(Holders)
      /\ Holders \subseteq Pipe /\ AllOffered
  BY Assumed DEF Inv, Typed, ServerTyped, Owed
<1>1. ASSUME NEW p \in Holders, Has(open_pipes, p)
      PROVE  end'[p] # "none"
  BY <1>0, <1>1, EndKept DEF Has, AllOffered
<1>2. ASSUME NEW i \in 1..Len(open_pipes')
      PROVE  end'[open_pipes'[i]] # "none"
  <2>0. ServerTyped'
    BY ServerTypedNext
  <2>1. PICK p \in Holders : p = open_pipes'[i]
    BY <2>0, ElementIn DEF ServerTyped
  <2>2. CASE open_pipes' = open_pipes
    BY <1>1, <2>1, <2>2 DEF Has
  <2>3. CASE Drops
    BY <1>0, <1>1, <2>1, <2>3, KeptFacts DEF Drops, Has
  <2>4. CASE ReturnsNew /\ open_pipes' # open_pipes
    <3>1. /\ sending # None /\ open_pipes' = Append(open_pipes, sending.pipe)
          /\ end[sending.pipe] # "none"
      BY <1>0, <2>4 DEF ReturnsNew, Turns, AllOffered
    <3>2. PICK q \in Holders : q = sending.pipe
      BY <1>0, <3>1, SendingFacts
    <3>3. \A j \in 1..Len(open_pipes') : open_pipes'[j] = q \/ Has(open_pipes, open_pipes'[j])
      BY <1>0, <3>1, <3>2, Appended DEF Has
    <3>4. CASE p = q
      BY <1>0, <2>1, <3>1, <3>2, <3>4, EndKept
    <3>5. CASE p # q
      BY <1>1, <2>1, <3>3, <3>5
    <3> QED BY <3>4, <3>5
  <2>5. open_pipes' = open_pipes \/ Drops \/ ReturnsNew
    BY DEF CoreStep, DrainStep, Skips, Acquires, Forwards, Inserts, Finishes, ServerStep, Fails,
           Collects, Receives, GoesOn, Passes, Flushes, Splices, ReturnsOld, Heard, Opens,
           Promises, Reads, Abandons, Rests, SameServer, SameBooks
  <2> QED BY <2>2, <2>3, <2>4, <2>5
<1>3. ASSUME server' = "send"
      PROVE  end'[sending'.pipe] # "none"
  <2>1. CASE SameServer
    <3>1. server = "send" /\ sending # None /\ sending' = sending
      BY <1>0, <1>3, <2>1 DEF SameServer, Turns
    <3>2. PICK q \in Holders : q = sending.pipe /\ q = sending'.pipe
      BY <1>0, <3>1, SendingFacts
    <3> QED BY <1>0, <3>1, <3>2, EndKept DEF AllOffered
  <2>2. CASE Opens
    <3>1. sending # None /\ sending' = sending
      BY <1>0, <2>2 DEF Opens, Turns
    <3>2. PICK q \in Holders : q = sending.pipe /\ q = sending'.pipe
      BY <1>0, <3>1, SendingFacts
    <3> QED BY <1>0, <2>2, <3>2 DEF Opens, PipesTyped
  <2>3. CASE Splices
    <3>1. server = "send" /\ sending # None /\ sending'.pipe = sending.pipe
      BY <2>3, Spliced DEF Splices, SendingData
    <3>2. PICK q \in Holders : q = sending.pipe /\ q = sending'.pipe
      BY <1>0, <3>1, SendingFacts
    <3> QED BY <1>0, <3>1, <3>2, EndKept DEF AllOffered
  <2>4. CASE Flushes
    <3>1. PICK q \in Holders : q = open_pipes[cursor] /\ cursor \in 1..Len(open_pipes)
      BY <1>0, <2>4, ElementIn DEF Flushes, Turns
    <3>2. PICK b \in BOOLEAN : b = FALSE
      OBVIOUS
    <3>3. sending' = [pipe |-> q, chunks |-> store[q[2]], at |-> 0, new |-> b]
      BY <2>4, <3>1, <3>2 DEF Flushes
    <3>4. sending'.pipe = q
      BY <3>3
    <3> QED BY <1>1, <3>1, <3>4 DEF Has
  <2>5. SameServer \/ Opens \/ Splices \/ Flushes
    BY <1>3 DEF CoreStep, DrainStep, Skips, Acquires, Forwards, Inserts, Finishes, ServerStep,
                Fails, Collects, Receives, GoesOn, Passes, Drops, ReturnsNew, ReturnsOld, Heard,
                Promises, Reads, Abandons, Rests
  <2> QED BY <2>1, <2>2, <2>3, <2>4, <2>5
<1> QED BY <1>2, <1>3 DEF AllOffered

LEMMA NotBegunNext ==
  ASSUME Inv, CoreStep
  PROVE  NotBegun'
<1> SUFFICES ASSUME server' = "collect"
             PROVE  NotBegun'
  BY DEF NotBegun
<1>1. SameServer /\ (SamePipes \/ \E p \in Pipe : Reads(p) \/ Abandons(p))
  BY DEF CoreStep, DrainStep, Skips, Acquires, Forwards, Inserts, Finishes, ServerStep, Fails,
         Collects, Receives, GoesOn, Passes, Flushes, Drops, Splices, SendingData, ReturnsNew,
         ReturnsOld, Heard, Opens, Promises, Reads, Abandons, Rests, SameServer
<1>2. /\ open_pipes = << >> /\ \A f \in available_files : store[f] = << >>
      /\ \A p \in Pipe : end[p] = "none"
  BY <1>1 DEF Inv, Owed, NotBegun, SameServer
<1>3. end' = end
  BY <1>1, <1>2 DEF SamePipes, Reads, Abandons
<1> QED BY <1>1, <1>2, <1>3 DEF NotBegun, SameServer, SameBooks

LEMMA OwedNext ==
  ASSUME Inv, CoreStep
  PROVE  Owed'
BY OneHolderNext, HolderOwedNext, FlushedNext, FinishedOverNext, ClosedOverNext, AllOfferedNext,
   NotBegunNext DEF Owed

LEMMA InvNext ==
  ASSUME Inv, [Next]_vars
  PROVE  Inv'
<1>1. CoreStep
  BY Steps
<1>2. Typed'
  BY <1>1, DrainTypedNext, ServerTypedNext, PipesTypedNext DEF Typed
<1> QED BY <1>1, <1>2, TurnsNext, DrainingNext, EndsLastNext, OwedNext DEF Inv

\* The serving thread's books agree with its clients' pipes, whatever they do: Inv.
THEOREM ServeInvariant == Spec => []Inv
<1>1. Init => Inv
  BY InvInit
<1>2. Inv /\ [Next]_vars => Inv'
  BY InvNext
<1> QED BY <1>1, <1>2, PTL DEF Spec

\* Every variable of the two threads keeps its type, and the books are where the
\* serving thread is: TypeOK.
THEOREM TypesKept == Spec => []TypeOK
<1>1. ASSUME Inv
      PROVE  TypeOK
  <2>1. /\ DrainTyped /\ ServerTyped /\ PipesTyped /\ Turns
    BY <1>1 DEF Inv, Typed
  <2>2. \A i \in 1..Len(open_pipes) : open_pipes[i] \in Pipe
    BY <2>1, ElementIn, Assumed DEF ServerTyped
  <2> QED BY <2>1, <2>2 DEF TypeOK, DrainTyped, ServerTyped, PipesTyped, Turns, Places, Ends
<1>2. Inv => TypeOK
  BY <1>1
<1> QED BY <1>2, ServeInvariant, PTL

-----------------------------------------------------------------------------
\* Files are given away once.

\* The pipe that is waited for is new.
LEMMA AwaitedNext ==
  ASSUME Inv, CoreStep, server = "pipe" => end[sending.pipe] \in {"none", "offered"},
         server' = "pipe"
  PROVE  end'[sending'.pipe] \in {"none", "offered"}
<1>0. Typed /\ Turns /\ PipesTyped /\ ServerTyped
  BY DEF Inv, Typed
<1>1. CASE server = "pipe" /\ end' = end /\ sending' = sending
  BY <1>1
<1>2. ASSUME NEW p \in Holders, Promises(p)
      PROVE  end'[sending'.pipe] \in {"none", "offered"}
  <2>1. ~Held(p) /\ end' = end
    BY <1>2, NobodyHolds DEF Promises, SamePipes
  <2>2. PICK b \in BOOLEAN : b = TRUE
    OBVIOUS
  <2>3. sending' = [pipe |-> p, chunks |-> store[p[2]], at |-> 0, new |-> b]
    BY <1>2, <2>2 DEF Promises
  <2>4. sending'.pipe = p
    BY <1>0, <2>3, DeliveryBegun
  <2> QED BY <2>1, <2>4 DEF Held
<1>3. CASE Opens
  <2>1. sending.pipe \in Pipe /\ sending' = sending /\ end' = [end EXCEPT ![sending.pipe] = "offered"]
    BY <1>0, <1>3, SendingFacts DEF Opens, Turns
  <2> QED BY <1>0, <2>1 DEF PipesTyped
<1>4. ASSUME NEW q \in Pipe, Abandons(q)
      PROVE  end'[sending'.pipe] \in {"none", "offered"}
  <2>1. /\ server = "pipe" /\ sending' = sending /\ sending.pipe # q
        /\ end' = [end EXCEPT ![q] = "abandoned"]
    BY <1>4 DEF Abandons, SameServer
  <2>2. sending.pipe \in Pipe
    BY <1>0, <2>1, SendingFacts DEF Turns
  <2> QED BY <1>0, <2>1, <2>2 DEF PipesTyped
<1>5. CASE DrainStep \/ Rests \/ \E q \in Pipe : Reads(q)
  BY <1>1, <1>5 DEF DrainStep, Skips, Acquires, Forwards, Inserts, Finishes, Rests, Reads,
                    SameServer, SamePipes
<1>6. ~Fails /\ ~Collects /\ ~Receives /\ ~GoesOn /\ ~Passes /\ ~Flushes /\ ~Drops /\ ~Splices
      /\ ~ReturnsNew /\ ~ReturnsOld /\ ~Heard
  BY DEF Fails, Collects, Receives, GoesOn, Passes, Flushes, Drops, Splices, SendingData,
         ReturnsNew, ReturnsOld, Heard
<1> QED BY <1>2, <1>3, <1>4, <1>5, <1>6 DEF CoreStep, ServerStep

LEMMA GivenNext ==
  ASSUME Inv, Given, CoreStep
  PROVE  Given'
<1>1. ASSUME server' = "pipe"
      PROVE  end'[sending'.pipe] \in {"none", "offered"}
  BY <1>1, AwaitedNext DEF Given
<1>2. ASSUME NEW f \in filenames_of_sent_files'
      PROVE  \E p \in Holders : p[2] = f /\ Held(p)'
  <2>1. CASE f \in filenames_of_sent_files
    <3>1. PICK p \in Holders : p[2] = f /\ Held(p)
      BY <2>1 DEF Given
    <3> QED BY <3>1, HeldMoves
  <2>2. CASE f \notin filenames_of_sent_files
    <3>1. PICK p \in Holders : Promises(p)
      BY <1>2, <2>2 DEF CoreStep, DrainStep, Skips, Acquires, Forwards, Inserts, Finishes,
                        ServerStep, Fails, Collects, Receives, GoesOn, Passes, Flushes, Drops,
                        Splices, ReturnsNew, ReturnsOld, Heard, Opens, Reads, Abandons, Rests,
                        SameServer, SameBooks
    <3>2. p[2] = f
      BY <1>2, <2>2, <3>1 DEF Promises
    <3> QED BY <3>1, <3>2, HeldMoves
  <2> QED BY <2>1, <2>2
<1> QED BY <1>1, <1>2 DEF Given

\* Who is answered ready is the first to ask for what is in store.
LEMMA AnsweredOnce ==
  ASSUME Inv, Given, CoreStep, server # "pipe", server' = "pipe"
  PROVE  sending'.pipe[2] \notin filenames_of_sent_files
<1>1. PICK p \in Holders : Promises(p)
  BY DEF CoreStep, DrainStep, Skips, Acquires, Forwards, Inserts, Finishes, ServerStep, Fails,
         Collects, Receives, GoesOn, Passes, Flushes, Drops, Splices, SendingData, ReturnsNew,
         ReturnsOld, Heard, Opens, Reads, Abandons, Rests, SameServer
<1>2. sending'.pipe = p
  BY <1>1 DEF Promises
<1>3. \A q \in Holders : q[2] = p[2] => ~Held(q)
  BY <1>1, NobodyHolds DEF Promises
<1> QED BY <1>2, <1>3 DEF Given

\* The pipe that is offered is the one that is waited for, and nobody had one.
LEMMA OfferedOnce ==
  ASSUME Inv, Given, CoreStep, NEW p \in Pipe, end[p] # "offered", end'[p] = "offered",
         NEW c \in Client
  PROVE  end[<<c, p[2]>>] = "none"
<1>0. Typed /\ Turns /\ PipesTyped /\ OneHolder
  BY DEF Inv, Typed, Owed
<1>1. Opens
  <2>1. ~Fails /\ ~Drops /\ ~ReturnsNew /\ \A q \in Pipe : ~Abandons(q)
    BY <1>0 DEF Fails, Drops, ReturnsNew, Abandons, PipesTyped
  <2>2. end' # end
    OBVIOUS
  <2> QED BY <2>1, <2>2 DEF CoreStep, DrainStep, Skips, Acquires, Forwards, Inserts, Finishes,
                            ServerStep, Collects, Receives, GoesOn, Passes, Flushes, Splices,
                            ReturnsOld, Heard, Promises, Reads, Rests, SamePipes
<1>2. sending # None /\ end[sending.pipe] \in {"none", "offered"}
  BY <1>0, <1>1 DEF Opens, Turns, Given
<1>3. PICK q \in Holders : q = sending.pipe
  BY <1>0, <1>2, SendingFacts
<1>4. p = q
  BY <1>0, <1>1, <1>3 DEF Opens, PipesTyped
<1>5. Held(q) /\ end[q] = "none"
  BY <1>2, <1>3, <1>4 DEF Held, Sending
<1>6. PICK r \in Holders : r = <<c, p[2]>> /\ r[2] = q[2]
  <2>1. PICK f \in available_files : f = q[2] /\ f = p[2]
    BY <1>4 DEF Holders
  <2>2. <<c, f>> \in Holders
    BY DEF Holders
  <2> QED BY <2>1, <2>2
<1>7. ~Held(r) \/ r = q
  BY <1>0, <1>5, <1>6 DEF OneHolder
<1> QED BY <1>5, <1>6, <1>7 DEF Held

\* A file is answered ready to one client, once, and one pipe is offered for it,
\* whatever the clients ask for and whenever their requests and the chunks come in:
\* OneReader.
THEOREM OneReaderOnly == Spec => OneReader
<1>1. Init => Inv /\ Given
  <2>1. Init => Given
    BY DEF Init, Given
  <2> QED BY <2>1, InvInit
<1>2. Inv /\ Given /\ [Next]_vars => Inv' /\ Given'
  BY Steps, InvNext, GivenNext
<1>3. ASSUME Inv, Given, [Next]_vars
      PROVE  /\ server # "pipe" /\ server' = "pipe" =>
                  sending'.pipe[2] \notin filenames_of_sent_files
             /\ \A p \in Pipe : end[p] # "offered" /\ end'[p] = "offered" =>
                  \A c \in Client : end[<<c, p[2]>>] = "none"
  <2>1. CoreStep
    BY <1>3, Steps
  <2>2. server # "pipe" /\ server' = "pipe" => sending'.pipe[2] \notin filenames_of_sent_files
    BY <1>3, <2>1, AnsweredOnce
  <2>3. ASSUME NEW p \in Pipe, end[p] # "offered", end'[p] = "offered", NEW c \in Client
        PROVE  end[<<c, p[2]>>] = "none"
    BY <1>3, <2>1, <2>3, OfferedOnce
  <2> QED BY <2>2, <2>3
<1> QED BY <1>1, <1>2, <1>3, PTL DEF Spec, OneReader

-----------------------------------------------------------------------------
\* What chunks hold.

LEMMA FlattenJoin ==
  ASSUME NEW U, NEW s \in Lists(U), NEW r \in Lists(U),
         Len(r) = Len(s) + 1, \A i \in 1..Len(s) : r[i] = s[i]
  PROVE  FlattenSeq(r) = FlattenSeq(s) \o r[Len(r)] /\ r[Len(r)] \in Seq(U)
<1>1. Len(r) \in 1..Len(r)
  BY ListsAre
<1> QED BY <1>1, ListsAre, FlattenNext


Contents(s)      == [i \in 1..Len(s) |-> s[i].content]
ContentsOf(f, s) == [i \in 1..Len(s) |-> IF s[i].file = f THEN s[i].content ELSE << >>]

LEMMA ContentsAre ==
  ASSUME NEW s \in Seq(Chunk), NEW f
  PROVE  /\ Contents(s) \in Lists(Unit) /\ Len(Contents(s)) = Len(s)
         /\ ContentsOf(f, s) \in Lists(Unit) /\ Len(ContentsOf(f, s)) = Len(s)
         /\ \A i \in 1..Len(s) :
              /\ Contents(s)[i] = s[i].content
              /\ ContentsOf(f, s)[i] = IF s[i].file = f THEN s[i].content ELSE << >>
         /\ Len(s) \in Nat
<1>1. \A i \in 1..Len(s) : s[i] \in Chunk
  BY ElementIn
<1>2. \A i \in 1..Len(s) : s[i].content \in Seq(Unit) /\ << >> \in Seq(Unit)
  BY <1>1 DEF Chunk
<1>3. PICK n \in Nat : n = Len(s)
  OBVIOUS
<1>4. PICK t : t = Contents(s)
  OBVIOUS
<1>5. PICK u : u = ContentsOf(f, s)
  OBVIOUS
<1>6. /\ t = [i \in 1..n |-> t[i]]
      /\ \A i \in 1..n : t[i] = s[i].content /\ t[i] \in Seq(Unit)
  BY <1>2, <1>3, <1>4 DEF Contents
<1>7. /\ u = [i \in 1..n |-> u[i]]
      /\ \A i \in 1..n : u[i] = IF s[i].file = f THEN s[i].content ELSE << >>
  BY <1>2, <1>3, <1>5 DEF ContentsOf
<1>10. \A i \in 1..n : u[i] \in Seq(Unit)
  BY <1>2, <1>3, <1>7
<1>8. t \in Lists(Unit) /\ Len(t) = n
  BY <1>6, ListIs
<1>9. u \in Lists(Unit) /\ Len(u) = n
  BY <1>7, <1>10, ListIs
<1>11. Contents(s) \in Lists(Unit) /\ Len(Contents(s)) = Len(s)
  BY <1>3, <1>4, <1>8, Zenon
<1>12. ContentsOf(f, s) \in Lists(Unit) /\ Len(ContentsOf(f, s)) = Len(s)
  BY <1>3, <1>5, <1>9, Zenon
<1>13. ASSUME NEW i \in 1..Len(s)
       PROVE  /\ Contents(s)[i] = s[i].content
              /\ ContentsOf(f, s)[i] = IF s[i].file = f THEN s[i].content ELSE << >>
  <2>1. i \in 1..n
    BY <1>3
  <2> QED BY <1>4, <1>5, <1>6, <1>7, <2>1, Zenon
<1> QED BY <1>3, <1>11, <1>12, <1>13

LEMMA UnitsAre ==
  ASSUME NEW s, NEW f
  PROVE  Units(s) = FlattenSeq(Contents(s)) /\ UnitsOf(f, s) = FlattenSeq(ContentsOf(f, s))
BY DEF Units, UnitsOf, Contents, ContentsOf

LEMMA UnitsType ==
  ASSUME NEW s \in Seq(Chunk), NEW f
  PROVE  Units(s) \in Seq(Unit) /\ UnitsOf(f, s) \in Seq(Unit)
BY ContentsAre, UnitsAre, FlattenType

LEMMA UnitsAppend ==
  ASSUME NEW s \in Seq(Chunk), NEW x \in Chunk, NEW f
  PROVE  /\ Units(Append(s, x)) = Units(s) \o x.content
         /\ x.file = f => UnitsOf(f, Append(s, x)) = UnitsOf(f, s) \o x.content
         /\ x.file # f => UnitsOf(f, Append(s, x)) = UnitsOf(f, s)
<1>1. PICK r : r = Append(s, x)
  OBVIOUS
<1>2. /\ r \in Seq(Chunk) /\ Len(r) = Len(s) + 1 /\ r[Len(r)] = x /\ Len(s) \in Nat
      /\ \A i \in 1..Len(s) : r[i] = s[i]
  BY <1>1, Appended
<1>3. Len(r) \in 1..Len(r) /\ \A i \in 1..Len(s) : i \in 1..Len(r)
  BY <1>2
<1>4. Units(r) = Units(s) \o x.content
  <2>1. PICK t, u : t = Contents(s) /\ u = Contents(r)
    OBVIOUS
  <2>2. /\ t \in Lists(Unit) /\ u \in Lists(Unit) /\ Len(t) = Len(s) /\ Len(u) = Len(r)
        /\ \A i \in 1..Len(s) : t[i] = s[i].content
        /\ \A i \in 1..Len(r) : u[i] = r[i].content
    BY <1>2, <2>1, ContentsAre
  <2>3. u[Len(u)] = x.content /\ \A i \in 1..Len(t) : u[i] = t[i]
    BY <1>2, <1>3, <2>2
  <2>4. FlattenSeq(u) = FlattenSeq(t) \o u[Len(u)]
    BY <1>2, <2>2, <2>3, FlattenJoin
  <2> QED BY <2>1, <2>3, <2>4, UnitsAre
<1>5. PICK t, u : t = ContentsOf(f, s) /\ u = ContentsOf(f, r)
  OBVIOUS
<1>6. /\ t \in Lists(Unit) /\ u \in Lists(Unit) /\ Len(t) = Len(s) /\ Len(u) = Len(r)
      /\ \A i \in 1..Len(s) : t[i] = IF s[i].file = f THEN s[i].content ELSE << >>
      /\ \A i \in 1..Len(r) : u[i] = IF r[i].file = f THEN r[i].content ELSE << >>
  BY <1>2, <1>5, ContentsAre
<1>7. /\ u[Len(u)] = IF x.file = f THEN x.content ELSE << >>
      /\ \A i \in 1..Len(t) : u[i] = t[i]
  BY <1>2, <1>3, <1>6
<1>8. FlattenSeq(u) = FlattenSeq(t) \o u[Len(u)]
  BY ONLY <1>2, <1>6, <1>7, FlattenJoin
<1>9. UnitsOf(f, r) = UnitsOf(f, s) \o u[Len(u)] /\ UnitsOf(f, s) \in Seq(Unit)
  BY <1>5, <1>8, UnitsAre, UnitsType
<1>10. x.file # f => UnitsOf(f, r) = UnitsOf(f, s)
  BY <1>7, <1>9
<1> QED BY <1>1, <1>4, <1>7, <1>9, <1>10

LEMMA UnitsFirst ==
  ASSUME NEW s \in Seq(Chunk), s # << >>, NEW f
  PROVE  /\ Units(s) = s[1].content \o Units(Tail(s))
         /\ s[1].file = f => UnitsOf(f, s) = s[1].content \o UnitsOf(f, Tail(s))
         /\ s[1].file # f => UnitsOf(f, s) = UnitsOf(f, Tail(s))
<1>1. PICK r : r = Tail(s)
  OBVIOUS
<1>2. /\ r \in Seq(Chunk) /\ Len(s) = Len(r) + 1 /\ 1 \in 1..Len(s) /\ Len(r) \in Nat
      /\ \A i \in 1..Len(r) : i + 1 \in 1..Len(s) /\ r[i] = s[i + 1]
  BY <1>1, HeadAndTail
<1>3. Units(s) = s[1].content \o Units(r)
  <2>1. PICK t, u : t = Contents(s) /\ u = Contents(r)
    OBVIOUS
  <2>2. /\ t \in Lists(Unit) /\ u \in Lists(Unit) /\ Len(t) = Len(s) /\ Len(u) = Len(r)
        /\ \A i \in 1..Len(s) : t[i] = s[i].content
        /\ \A i \in 1..Len(r) : u[i] = r[i].content
    BY <1>2, <2>1, ContentsAre
  <2>3. t[1] = s[1].content /\ \A i \in 1..Len(u) : t[i + 1] = u[i]
    BY <1>2, <2>2
  <2>4. FlattenSeq(t) = t[1] \o FlattenSeq(u)
    BY <1>2, <2>2, <2>3, FlattenFirst
  <2> QED BY <2>1, <2>3, <2>4, UnitsAre
<1>5. PICK t, u : t = ContentsOf(f, s) /\ u = ContentsOf(f, r)
  OBVIOUS
<1>6. /\ t \in Lists(Unit) /\ u \in Lists(Unit) /\ Len(t) = Len(s) /\ Len(u) = Len(r)
      /\ \A i \in 1..Len(s) : t[i] = IF s[i].file = f THEN s[i].content ELSE << >>
      /\ \A i \in 1..Len(r) : u[i] = IF r[i].file = f THEN r[i].content ELSE << >>
  BY <1>2, <1>5, ContentsAre
<1>7. /\ t[1] = IF s[1].file = f THEN s[1].content ELSE << >>
      /\ \A i \in 1..Len(u) : t[i + 1] = u[i]
  BY <1>2, <1>6
<1>8. FlattenSeq(t) = t[1] \o FlattenSeq(u)
  <2>1. /\ t \in Lists(Unit) /\ u \in Lists(Unit) /\ Len(t) = Len(u) + 1
        /\ \A i \in 1..Len(u) : t[i + 1] = u[i]
    BY <1>2, <1>6, <1>7
  <2> QED BY ONLY <2>1, FlattenFirst
<1>9. UnitsOf(f, s) = t[1] \o UnitsOf(f, r) /\ UnitsOf(f, r) \in Seq(Unit)
  BY <1>2, <1>5, <1>8, UnitsAre, UnitsType
<1>10. s[1].file # f => UnitsOf(f, s) = UnitsOf(f, r)
  BY <1>7, <1>9
<1> QED BY <1>1, <1>3, <1>7, <1>9, <1>10

LEMMA UnitsNone ==
  ASSUME NEW f
  PROVE  Units(<< >>) = << >> /\ UnitsOf(f, << >>) = << >>
<1>1. Contents(<< >>) = << >> /\ ContentsOf(f, << >>) = << >>
  BY DEF Contents, ContentsOf
<1>2. FlattenSeq(<< >>) = << >>
  BY FlattenEmpty
<1> QED BY <1>1, <1>2, UnitsAre

\* The chunks are all of one file.
LEMMA UnitsOfOne ==
  ASSUME NEW f \in available_files, NEW s \in Seq(ChunkOf({f})), NEW g
  PROVE  /\ g = f => UnitsOf(g, s) = Units(s)
         /\ g # f => UnitsOf(g, s) = << >>
<1>0. \A i \in 1..Len(s) : s[i] \in ChunkOf({f})
  BY ElementIn
<1>1. \A i \in 1..Len(s) : s[i].file = f
  BY <1>0 DEF ChunkOf
<1>2. CASE g = f
  <2>1. ContentsOf(g, s) = Contents(s)
    BY <1>1, <1>2 DEF Contents, ContentsOf
  <2> QED BY <1>2, <2>1, UnitsAre
<1>3. CASE g # f
  <2>1. s \in Seq(Chunk)
    BY ChunksWithin
  <2>2. PICK u : u = ContentsOf(g, s)
    OBVIOUS
  <2>3. u \in Lists(Unit) /\ Len(u) = Len(s) /\ \A i \in 1..Len(s) : u[i] = << >>
    BY <1>1, <1>3, <2>1, <2>2, ContentsAre
  <2>4. FlattenSeq(u) = << >>
    BY <2>3, FlattenNone
  <2> QED BY <1>3, <2>2, <2>4, UnitsAre
<1> QED BY <1>2, <1>3

-----------------------------------------------------------------------------
\* Memory.

\* What a file takes in store and on its way out.
Mem(f, stored, sent) == Len(Units(stored)) + Len(UnitsOf(f, sent))

Memory == [f \in Large |-> InMemory(f)]

Accounted ==
  Serving => count + Len(chunk) + Len(Units(channel)) + SumOver(Memory, Large) = Limit

LEMMA Lengths ==
  ASSUME NEW a \in Seq(Unit), NEW b \in Seq(Unit)
  PROVE  Len(a \o b) = Len(a) + Len(b) /\ Len(a) \in Nat /\ Len(b) \in Nat
OBVIOUS

LEMMA MemType ==
  ASSUME NEW f, NEW s \in Seq(Chunk), NEW r \in Seq(Chunk)
  PROVE  Mem(f, s, r) \in Nat
<1>1. Units(s) \in Seq(Unit) /\ UnitsOf(f, r) \in Seq(Unit)
  BY UnitsType
<1>2. Len(Units(s)) \in Nat /\ Len(UnitsOf(f, r)) \in Nat
  BY <1>1
<1> QED BY <1>2 DEF Mem

LEMMA MemoryIs ==
  /\ \A f \in Large : Memory[f] = Mem(f, store[f], BeingSent)
  /\ \A f \in Large : Memory'[f] = Mem(f, store'[f], BeingSent')
BY DEF Memory, InMemory, Mem, BeingSent

LEMMA ChunksKept ==
  ASSUME Typed
  PROVE  /\ \A f \in available_files : store[f] \in Seq(ChunkOf({f})) /\ store[f] \in Seq(Chunk)
         /\ BeingSent \in Seq(Chunk)
         /\ channel \in Seq(Chunk)
         /\ \A f \in Large : Memory[f] \in Nat
<1>1. \A f \in available_files : store[f] \in Seq(ChunkOf({f})) /\ store[f] \in Seq(Chunk)
  BY ChunksWithin DEF Typed, ServerTyped
<1>2. BeingSent \in Seq(Chunk)
  <2>1. CASE sending = None
    BY <2>1, NoneIn DEF BeingSent
  <2>2. CASE sending # None
    <3>1. PICK f \in available_files : f = sending.pipe[2]
      BY <2>2, SendingFacts
    <3>2. sending.chunks \in Seq(ChunkOf({f}))
      BY <2>2, <3>1, SendingFacts
    <3>3. sending.chunks \in Seq(Chunk)
      BY <3>2, ChunksWithin
    <3> QED BY <2>2, <3>3 DEF BeingSent
  <2> QED BY <2>1, <2>2
<1>3. channel \in Seq(Chunk)
  <2>1. ChunkOf(Large) \subseteq Chunk
    BY DEF ChunkOf
  <2> QED BY <2>1 DEF Typed, DrainTyped
<1>4. ASSUME NEW f \in Large
      PROVE  Memory[f] \in Nat
  <2>1. store[f] \in Seq(Chunk) /\ Memory[f] = Mem(f, store[f], BeingSent)
    BY <1>1, MemoryIs, Assumed
  <2> QED BY <1>2, <2>1, MemType
<1> QED BY <1>1, <1>2, <1>3, <1>4

\* Chunks are no more and no less when the thread turns to sending them.
LEMMA BegunMemory ==
  ASSUME Typed, sending = None, NEW f \in available_files, NEW g \in Large,
         store'[f] = << >>, g # f => store'[g] = store[g], BeingSent' = store[f]
  PROVE  Mem(g, store'[g], BeingSent') = Mem(g, store[g], BeingSent)
<1>1. g \in available_files /\ store[f] \in Seq(ChunkOf({f})) /\ store[g] \in Seq(Chunk)
  BY ChunksKept, Assumed
<1>2. BeingSent = << >> /\ Units(<< >>) = << >> /\ UnitsOf(g, << >>) = << >>
  BY UnitsNone DEF BeingSent
<1>3. Units(store[g]) \in Seq(Unit)
  BY <1>1, UnitsType
<1>4. CASE g = f
  <2>1. UnitsOf(g, store[f]) = Units(store[g])
    BY <1>1, <1>4, UnitsOfOne
  <2>2. Mem(g, store'[g], BeingSent') = Len(Units(<< >>)) + Len(Units(store[g]))
    BY <1>4, <2>1 DEF Mem
  <2>3. Mem(g, store[g], BeingSent) = Len(Units(store[g])) + Len(UnitsOf(g, << >>))
    BY <1>2 DEF Mem
  <2> QED BY <1>2, <1>3, <2>2, <2>3
<1>5. CASE g # f
  <2>1. UnitsOf(g, store[f]) = << >>
    BY <1>1, <1>5, UnitsOfOne
  <2> QED BY <1>2, <1>5, <2>1 DEF Mem
<1> QED BY <1>4, <1>5

\* Nothing is left of what was being sent.
LEMMA ReturnedMemory ==
  ASSUME Inv, server = "send", sending.chunks = << >> \/ SentAll, NEW g
  PROVE  UnitsOf(g, sending.chunks) = << >>
<1>1. sending # None /\ Typed
  BY DEF Inv, Turns
<1>2. PICK f \in available_files : f = sending.pipe[2]
  BY <1>1, SendingFacts
<1>3. PICK s : s = sending.chunks
  OBVIOUS
<1>4. s \in Seq(ChunkOf({f})) /\ s \in Seq(Chunk)
  <2>1. s \in Seq(ChunkOf({f}))
    BY <1>1, <1>2, <1>3, SendingFacts
  <2> QED BY <2>1, ChunksWithin
<1>5. CASE s = << >>
  BY <1>3, <1>5, UnitsNone
<1>6. CASE s # << >>
  <2>1. s[1].eof /\ 1 \in 1..Len(s)
    BY <1>3, <1>4, <1>6, HeadAndTail DEF SentAll, NextChunk
  <2>2. Len(s) = 1
    BY <1>1, <1>3, <2>1 DEF Inv, EndsLast, EndsInSending
  <2>3. s[1] \in ChunkOf({f})
    BY <1>4, <2>1, ElementIn
  <2>4. s[1].content = << >>
    BY <2>1, <2>3, ChunkFacts
  <2>5. Tail(s) = << >>
    BY <1>4, <1>6, <2>2
  <2>6. UnitsOf(g, Tail(s)) = << >>
    BY <2>5, UnitsNone
  <2>7. UnitsOf(g, s) = s[1].content \o UnitsOf(g, Tail(s)) \/ UnitsOf(g, s) = UnitsOf(g, Tail(s))
    BY <1>4, <1>6, UnitsFirst
  <2> QED BY <1>3, <2>4, <2>6, <2>7
<1> QED BY <1>5, <1>6

LEMMA ServingBefore ==
  ASSUME Inv, CoreStep, Serving'
  PROVE  Serving
BY DEF CoreStep, DrainStep, Skips, Acquires, Forwards, Inserts, Finishes, ServerStep, Fails,
       Collects, Receives, GoesOn, Passes, Flushes, Drops, Splices, SendingData, ReturnsNew,
       ReturnsOld, Heard, Opens, Promises, Reads, Abandons, Rests, SameServer, SameDrain,
       Serving, Alive

\* Memory a file has in store and on its way out changes only when a chunk is
\* received or was sent.
LEMMA MemoryKept ==
  ASSUME Inv, CoreStep, Serving, ~Receives, ~Splices, server' # "failed", NEW g \in Large
  PROVE  Memory'[g] = Memory[g]
<1>0. Typed /\ Turns /\ ServerTyped /\ g \in available_files
  BY Assumed DEF Inv, Typed
<1>1. CASE store'[g] = store[g] /\ BeingSent' = BeingSent
  BY <1>1, MemoryIs
<1>2. CASE store' = store /\ sending' = sending
  BY <1>1, <1>2 DEF BeingSent
<1>3. CASE Collects
  <2>1. store[g] = << >> /\ sending = None /\ sending' = None
    BY <1>0, <1>3, NotCollecting DEF Inv, Owed, NotBegun, Collects
  <2>2. store'[g] = << >>
    BY <1>0, <1>3, Assumed DEF Collects
  <2> QED BY <1>1, <2>1, <2>2 DEF BeingSent
<1>4. ASSUME NEW p \in Holders, sending = None, store' = [store EXCEPT ![p[2]] = << >>],
             NEW b \in BOOLEAN,
             sending' = [pipe |-> p, chunks |-> store[p[2]], at |-> 0, new |-> b]
      PROVE  Memory'[g] = Memory[g]
  <2>1. PICK f \in available_files : f = p[2]
    BY DEF Holders
  <2>2. sending' # None /\ sending'.chunks = store[f]
    BY <1>0, <1>4, <2>1, DeliveryBegun
  <2>3. BeingSent' = store[f]
    BY <2>2 DEF BeingSent
  <2>4. store'[f] = << >> /\ (g # f => store'[g] = store[g])
    BY <1>0, <1>4, <2>1 DEF ServerTyped
  <2>5. Mem(g, store'[g], BeingSent') = Mem(g, store[g], BeingSent)
    BY <1>0, <1>4, <2>3, <2>4, BegunMemory
  <2> QED BY <2>5, MemoryIs
<1>5. CASE Flushes
  <2>1. PICK p \in Holders : p = open_pipes[cursor]
    BY <1>0, <1>5, ElementIn DEF ServerTyped, Flushes, Turns
  <2>2. PICK b \in BOOLEAN : b = FALSE
    OBVIOUS
  <2>3. sending = None
    BY <1>0, <1>5 DEF Flushes, Turns
  <2>4. /\ sending' = [pipe |-> p, chunks |-> store[p[2]], at |-> 0, new |-> b]
        /\ store' = [store EXCEPT ![p[2]] = << >>]
    BY <1>5, <2>1, <2>2 DEF Flushes
  <2> QED BY <1>4, <2>3, <2>4
<1>6. ASSUME NEW p \in Holders, Promises(p)
      PROVE  Memory'[g] = Memory[g]
  <2>1. PICK b \in BOOLEAN : b = TRUE
    OBVIOUS
  <2>2. sending = None
    BY <1>0, <1>6 DEF Promises, Turns
  <2>3. /\ sending' = [pipe |-> p, chunks |-> store[p[2]], at |-> 0, new |-> b]
        /\ store' = [store EXCEPT ![p[2]] = << >>]
    BY <1>6, <2>1 DEF Promises
  <2> QED BY <1>4, <2>2, <2>3
<1>7. CASE ReturnsNew \/ ReturnsOld
  <2>1. /\ server = "send" /\ sending # None /\ sending' = None /\ store' = store
        /\ sending.chunks = << >> \/ SentAll
    BY <1>0, <1>7 DEF ReturnsNew, ReturnsOld, Turns
  <2>2. BeingSent = sending.chunks /\ BeingSent' = << >>
    BY <2>1 DEF BeingSent
  <2>3. UnitsOf(g, BeingSent) = << >> /\ UnitsOf(g, BeingSent') = << >>
    BY <2>1, <2>2, ReturnedMemory, UnitsNone
  <2>4. Mem(g, store'[g], BeingSent') = Mem(g, store[g], BeingSent)
    BY <2>1, <2>3 DEF Mem
  <2> QED BY <2>4, MemoryIs
<1>8. CASE DrainStep \/ Rests \/ GoesOn \/ Passes \/ Drops \/ Heard \/ Opens
             \/ (\E p \in Pipe : Reads(p) \/ Abandons(p))
  <2>1. store' = store /\ sending' = sending
    BY <1>8 DEF DrainStep, Skips, Acquires, Forwards, Inserts, Finishes, Rests, GoesOn, Passes,
                Drops, Heard, Opens, Reads, Abandons, SameServer
  <2> QED BY <1>2, <2>1
<1>9. ~Fails
  BY DEF Fails
<1> QED BY <1>3, <1>5, <1>6, <1>7, <1>8, <1>9 DEF CoreStep, ServerStep

\* The chunk that comes in is what its file's memory grows by.
LEMMA ReceivedMemory ==
  ASSUME Inv, Receives
  PROVE  \E f \in Large : \E c \in Seq(Unit) :
           /\ Memory'[f] = Memory[f] + Len(c)
           /\ Len(Units(channel)) = Len(c) + Len(Units(channel'))
           /\ Len(c) \in Nat /\ Len(Units(channel')) \in Nat
           /\ \A g \in Large : g # f => Memory'[g] = Memory[g]
<1>0. Typed /\ ServerTyped
  BY DEF Inv, Typed
<1>1. PICK f \in Large : /\ f = Head(channel).file /\ channel # << >>
                         /\ Head(channel) = channel[1] /\ channel' = Tail(channel)
                         /\ Head(channel) \in ChunkOf({f})
  BY ReceiveFacts
<1>2. PICK ch : ch = Head(channel)
  OBVIOUS
<1>3. ch \in Chunk /\ ch \in ChunkOf({f}) /\ ch.content \in Seq(Unit) /\ f \in available_files
  BY <1>1, <1>2, ChunkFacts, Assumed
<1>4. /\ channel \in Seq(Chunk) /\ store[f] \in Seq(Chunk) /\ BeingSent \in Seq(Chunk)
      /\ channel' \in Seq(Chunk)
  <2>1. channel \in Seq(Chunk) /\ store[f] \in Seq(Chunk) /\ BeingSent \in Seq(Chunk)
    BY <1>0, <1>3, ChunksKept
  <2> QED BY <1>1, <2>1, HeadAndTail
<1>5. Len(Units(channel)) = Len(ch.content) + Len(Units(channel'))
      /\ Len(ch.content) \in Nat /\ Len(Units(channel')) \in Nat
  <2>1. Units(channel) = ch.content \o Units(channel')
    BY <1>1, <1>2, <1>4, UnitsFirst
  <2>2. Units(channel') \in Seq(Unit)
    BY <1>4, UnitsType
  <2> QED BY <1>3, <2>1, <2>2, Lengths
<1>6. BeingSent' = BeingSent
  BY DEF Receives, BeingSent
<1>7. store'[f] = Append(store[f], ch) /\ \A g \in Large : g # f => store'[g] = store[g]
  BY <1>0, <1>1, <1>2, <1>3, Assumed DEF Receives, ServerTyped
<1>8. Memory'[f] = Memory[f] + Len(ch.content)
  <2>1. Units(store'[f]) = Units(store[f]) \o ch.content
    BY <1>3, <1>4, <1>7, UnitsAppend
  <2>2. Units(store[f]) \in Seq(Unit) /\ UnitsOf(f, BeingSent) \in Seq(Unit)
    BY <1>4, UnitsType
  <2>3. /\ Len(Units(store'[f])) = Len(Units(store[f])) + Len(ch.content)
        /\ Len(Units(store[f])) \in Nat /\ Len(ch.content) \in Nat
        /\ Len(UnitsOf(f, BeingSent)) \in Nat
    BY <1>3, <2>1, <2>2, Lengths
  <2>4. /\ Memory[f] = Len(Units(store[f])) + Len(UnitsOf(f, BeingSent))
        /\ Memory'[f] = Len(Units(store'[f])) + Len(UnitsOf(f, BeingSent))
    BY <1>6, MemoryIs DEF Mem
  <2>5. PICK a, b, c, d : /\ a = Len(Units(store[f])) /\ b = Len(ch.content)
                          /\ c = Len(UnitsOf(f, BeingSent)) /\ d = Len(Units(store'[f]))
    OBVIOUS
  <2>6. a \in Nat /\ b \in Nat /\ c \in Nat /\ d = a + b
    BY <2>3, <2>5, Zenon
  <2>7. Memory[f] = a + c /\ Memory'[f] = d + c
    BY <2>4, <2>5, Zenon
  <2>8. \A x, y : x = a + c /\ y = d + c => y = x + b
    BY ONLY <2>6
  <2>9. Memory'[f] = Memory[f] + b
    BY ONLY <2>7, <2>8, Zenon
  <2> QED BY <2>5, <2>9, Zenon
<1>9. \A g \in Large : g # f => Memory'[g] = Memory[g]
  BY <1>6, <1>7, MemoryIs
<1> QED BY <1>3, <1>5, <1>8, <1>9

\* The chunk that went out is what its file's memory shrinks by.
LEMMA SplicedMemory ==
  ASSUME Inv, Splices
  PROVE  \/ /\ \A g \in Large : Memory'[g] = Memory[g]
            /\ count' = count
         \/ \E f \in Large : \E n \in Nat :
              /\ Memory'[f] = Memory[f] - n /\ Memory'[f] \in Nat
              /\ \A g \in Large : g # f => Memory'[g] = Memory[g]
              /\ Release(n)
<1>0. Typed /\ ServerTyped
  BY DEF Inv, Typed
<1>1. /\ sending # None /\ sending.chunks # << >> /\ NextChunk = sending.chunks[1]
      /\ sending' # None /\ store' = store
  BY Spliced DEF Splices
<1>2. PICK f \in available_files : f = sending.pipe[2]
  BY <1>0, <1>1, SendingFacts
<1>3. PICK s : s = sending.chunks
  OBVIOUS
<1>4. s \in Seq(ChunkOf({f})) /\ s \in Seq(Chunk) /\ Tail(s) \in Seq(Chunk) /\ s # << >>
  <2>1. s \in Seq(ChunkOf({f}))
    BY <1>0, <1>1, <1>2, <1>3, SendingFacts
  <2>2. s \in Seq(Chunk)
    BY <2>1, ChunksWithin
  <2> QED BY <1>1, <1>3, <2>1, <2>2, HeadAndTail
<1>5. s[1].content \in Seq(Unit) /\ s[1].file = f /\ Len(s[1].content) \in Nat
  <2>1. s[1] \in ChunkOf({f})
    BY <1>4, HeadAndTail
  <2>2. s[1].content \in Seq(Unit)
    BY <2>1, ChunkFacts
  <2> QED BY <2>1, <2>2 DEF ChunkOf
<1>6. BeingSent = s
  BY <1>1, <1>3 DEF BeingSent
<1>7. CASE sending.at + 1 # Len(NextChunk.content)
  <2>1. sending'.chunks = s /\ count' = count
    BY <1>3, <1>7, Spliced DEF Splices
  <2>2. BeingSent' = BeingSent
    BY <1>1, <1>6, <2>1 DEF BeingSent
  <2> QED BY <1>1, <2>1, <2>2, MemoryIs
<1>8. CASE sending.at + 1 = Len(NextChunk.content)
  <2>1. sending'.chunks = Tail(s)
    BY <1>3, <1>8, Spliced
  <2>2. BeingSent' = Tail(s)
    BY <1>1, <2>1 DEF BeingSent
  <2>3. GiveBack(f, Len(s[1].content))
    BY <1>1, <1>2, <1>3, <1>8 DEF Splices
  <2>4. ASSUME NEW g \in Large, g # f
        PROVE  Memory'[g] = Memory[g]
    <3>1. UnitsOf(g, s) = UnitsOf(g, Tail(s))
      BY <1>4, <1>5, <2>4, UnitsFirst
    <3> QED BY <1>1, <1>6, <2>2, <3>1, MemoryIs DEF Mem
  <2>5. CASE f \in Large
    <3>1. UnitsOf(f, s) = s[1].content \o UnitsOf(f, Tail(s))
      BY <1>4, <1>5, UnitsFirst
    <3>2. UnitsOf(f, Tail(s)) \in Seq(Unit) /\ Units(store[f]) \in Seq(Unit)
      BY <1>0, <1>4, UnitsType, ChunksKept
    <3>3. /\ Len(UnitsOf(f, s)) = Len(s[1].content) + Len(UnitsOf(f, Tail(s)))
          /\ Len(UnitsOf(f, Tail(s))) \in Nat /\ Len(Units(store[f])) \in Nat
      BY <1>5, <3>1, <3>2, Lengths
    <3>4. /\ Memory[f] = Len(Units(store[f])) + Len(UnitsOf(f, s))
          /\ Memory'[f] = Len(Units(store[f])) + Len(UnitsOf(f, Tail(s)))
      BY <1>1, <1>6, <2>2, <2>5, MemoryIs DEF Mem
    <3>5. Release(Len(s[1].content))
      BY <2>3, <2>5 DEF GiveBack
    <3>6. Memory'[f] = Memory[f] - Len(s[1].content) /\ Memory'[f] \in Nat
      <4>1. PICK a, b, c, d : /\ a = Len(Units(store[f])) /\ b = Len(s[1].content)
                              /\ c = Len(UnitsOf(f, Tail(s))) /\ d = Len(UnitsOf(f, s))
        OBVIOUS
      <4>2. a \in Nat /\ b \in Nat /\ c \in Nat /\ d = b + c
        BY <1>5, <3>3, <4>1, Zenon
      <4>3. Memory[f] = a + d /\ Memory'[f] = a + c
        BY <3>4, <4>1, Zenon
      <4>4. \A x, y : x = a + d /\ y = a + c => y = x - b /\ y \in Nat
        BY ONLY <4>2
      <4>5. Memory'[f] = Memory[f] - b /\ Memory'[f] \in Nat
        BY ONLY <4>3, <4>4, Zenon
      <4> QED BY <4>1, <4>5, Zenon
    <3> QED BY <1>5, <2>4, <2>5, <3>5, <3>6
  <2>6. CASE f \notin Large
    <3>1. count' = count
      BY <2>3, <2>6 DEF GiveBack
    <3> QED BY <2>4, <2>6, <3>1
  <2> QED BY <2>5, <2>6
<1> QED BY <1>7, <1>8

LEMMA AccountedNext ==
  ASSUME Inv, CoreStep, Accounted
  PROVE  Accounted'
<1> SUFFICES ASSUME Serving'
             PROVE  count' + Len(chunk') + Len(Units(channel')) + SumOver(Memory', Large) = Limit
  BY DEF Accounted
<1>0. /\ Typed /\ Serving /\ server' # "failed" /\ Limit \in Nat
      /\ Draining /\ IsFiniteSet(Large)
  BY ServingBefore, Assumed DEF Inv, Typed, Serving
<1>1. /\ count \in 0..Limit /\ chunk \in Seq(Unit) /\ channel \in Seq(Chunk)
      /\ Len(chunk) \in Nat /\ Units(channel) \in Seq(Unit) /\ Len(Units(channel)) \in Nat
  <2>1. count \in 0..Limit /\ chunk \in Seq(Unit) /\ channel \in Seq(Chunk)
    BY <1>0, ChunksKept DEF Typed, DrainTyped
  <2>2. Units(channel) \in Seq(Unit)
    BY <2>1, UnitsType
  <2> QED BY <2>1, <2>2
<1>2. PICK m : m = Memory
  OBVIOUS
<1>3. PICK n : n = Memory'
  OBVIOUS
<1>4. (\A g \in Large : m[g] \in Nat) /\ SumOver(m, Large) \in Nat
  <2>1. \A g \in Large : m[g] \in Nat
    BY <1>0, <1>2, ChunksKept
  <2> QED BY <1>0, <2>1, SumNatural
<1>5. count + Len(chunk) + Len(Units(channel)) + SumOver(m, Large) = Limit
  BY <1>0, <1>2 DEF Accounted
<1>6. ASSUME NEW f \in Large, n[f] \in Nat, \A g \in Large : g # f => n[g] = m[g]
      PROVE  SumOver(n, Large) = SumOver(m, Large) - m[f] + n[f] /\ SumOver(n, Large) \in Nat
  <2>1. \A g \in Large : n[g] \in Nat
    BY <1>4, <1>6
  <2>2. SumOver(n, Large) \in Nat
    BY <1>0, <2>1, SumNatural
  <2>3. IntegersOn(m, Large) /\ IntegersOn(n, Large)
    BY <1>4, <2>1 DEF IntegersOn
  <2>4. \A g \in Large \ {f} : n[g] = m[g]
    BY <1>6
  <2> QED BY <1>0, <1>6, <2>2, <2>3, <2>4, SumUpdate
<1>7. ASSUME \A g \in Large : n[g] = m[g]
      PROVE  SumOver(n, Large) = SumOver(m, Large)
  BY <1>0, <1>7, SumSame
<1>8. CASE Receives
  <2>1. PICK f \in Large, c \in Seq(Unit) :
           /\ n[f] = m[f] + Len(c)
           /\ Len(Units(channel)) = Len(c) + Len(Units(channel'))
           /\ Len(c) \in Nat /\ Len(Units(channel')) \in Nat
           /\ \A g \in Large : g # f => n[g] = m[g]
    BY <1>2, <1>3, <1>8, ReceivedMemory
  <2>2. m[f] \in Nat /\ n[f] \in Nat
    BY <1>4, <2>1
  <2>3. SumOver(n, Large) = SumOver(m, Large) - m[f] + n[f]
    BY <1>6, <2>1, <2>2
  <2>4. count' = count /\ chunk' = chunk
    BY <1>8 DEF Receives
  <2> QED BY <1>1, <1>3, <1>4, <1>5, <2>1, <2>2, <2>3, <2>4
<1>9. CASE Splices
  <2>1. chunk' = chunk /\ channel' = channel
    BY <1>9 DEF Splices
  <2>2. CASE (\A g \in Large : n[g] = m[g]) /\ count' = count
    BY <1>3, <1>5, <1>7, <2>1, <2>2
  <2>3. ASSUME NEW f \in Large, NEW k \in Nat, n[f] = m[f] - k, n[f] \in Nat, Release(k),
               \A g \in Large : g # f => n[g] = m[g]
        PROVE  count' + Len(chunk) + Len(Units(channel)) + SumOver(n, Large) = Limit
    <3>1. SumOver(n, Large) = SumOver(m, Large) - m[f] + n[f] /\ SumOver(n, Large) \in Nat
      BY <1>6, <2>3
    <3>2. m[f] \in Nat
      BY <1>4
    <3>3. SumOver(n, Large) = SumOver(m, Large) - k
      BY <1>4, <2>3, <3>1, <3>2
    <3>4. count + k <= Limit
      BY <1>0, <1>1, <1>4, <1>5, <3>1, <3>3
    <3>5. count' = count + k
      BY <1>0, <1>1, <2>3, <3>4 DEF Release
    <3> QED BY <1>0, <1>1, <1>4, <1>5, <3>3, <3>5
  <2> QED BY <1>2, <1>3, <1>9, <2>1, <2>2, <2>3, SplicedMemory
<1>10. ASSUME ~Receives, ~Splices
       PROVE  SumOver(n, Large) = SumOver(m, Large)
  <2>1. \A g \in Large : n[g] = m[g]
    BY <1>0, <1>2, <1>3, <1>10, MemoryKept
  <2> QED BY <1>7, <2>1
<1>11. CASE count' = count /\ chunk' = chunk /\ channel' = channel /\ ~Receives /\ ~Splices
  BY <1>3, <1>5, <1>10, <1>11
<1>12. ASSUME SameServer
       PROVE  SumOver(n, Large) = SumOver(m, Large)
  <2>1. \A g \in Large : n[g] = m[g]
    BY <1>2, <1>3, <1>12, MemoryIs DEF SameServer, BeingSent
  <2> QED BY <1>7, <2>1
<1>13. CASE Acquires
  <2>1. SumOver(n, Large) = SumOver(m, Large)
    BY <1>12, <1>13 DEF Acquires
  <2>2. /\ count' = count - Len(Piece) /\ chunk' = Piece /\ chunk = << >> /\ channel' = channel
        /\ InData
    BY <1>13 DEF Acquires, Acquire
  <2>3. Len(Piece) \in Nat
    BY <1>0, <2>2, PieceFacts
  <2>4. Len(chunk) = 0 /\ Len(chunk') = Len(Piece)
    BY <2>2
  <2>5. count' + Len(Piece) = count
    BY <1>1, <2>2, <2>3
  <2> QED BY <1>0, <1>1, <1>3, <1>4, <1>5, <2>1, <2>2, <2>3, <2>4, <2>5
<1>14. CASE Forwards
  <2>1. SumOver(n, Large) = SumOver(m, Large)
    BY <1>12, <1>14 DEF Forwards
  <2>2. PICK f \in available_files : f = Script[step].file
    BY <1>14, Assumed DEF Forwards, InData
  <2>3. /\ count' = count /\ chunk' = << >> /\ channel' = Append(channel, Content(f, chunk))
        /\ chunk # << >>
    BY <1>0, <1>14, <2>2 DEF Forwards, Serving, Receiver
  <2>4. Content(f, chunk) \in Chunk /\ Content(f, chunk).content = chunk
    <3>1. Content(f, chunk) \in ChunkOf({f}) /\ Content(f, chunk).content = chunk
      BY <1>1, <2>2, <2>3, ChunksMade
    <3> QED BY <3>1, ChunkFacts
  <2>5. Units(channel') = Units(channel) \o chunk
    BY <1>1, <2>3, <2>4, UnitsAppend
  <2>6. Len(Units(channel')) = Len(Units(channel)) + Len(chunk)
    BY <1>1, <2>5, Lengths
  <2>7. Len(chunk') = 0
    BY <2>3
  <2> QED BY <1>0, <1>1, <1>3, <1>4, <1>5, <2>1, <2>3, <2>6, <2>7
<1>15. CASE Inserts
  <2>1. SumOver(n, Large) = SumOver(m, Large)
    BY <1>12, <1>15 DEF Inserts
  <2>2. PICK f \in available_files : f = Script[step].file
    BY <1>15, Assumed DEF Inserts
  <2>3. count' = count /\ chunk' = chunk /\ channel' = Append(channel, Eof(f))
    BY <1>15, <2>2 DEF Inserts
  <2>4. Eof(f) \in Chunk /\ Eof(f).content = << >>
    <3>1. Eof(f) \in ChunkOf({f}) /\ Eof(f).content = << >>
      BY <2>2, NoneIn, ChunksMade
    <3> QED BY <3>1, ChunkFacts
  <2>5. Units(channel') = Units(channel) \o << >>
    BY <1>1, <2>3, <2>4, UnitsAppend
  <2>6. Units(channel') = Units(channel)
    BY <1>1, <2>5
  <2> QED BY <1>3, <1>5, <2>1, <2>3, <2>6
<1>16. CASE Skips \/ Finishes \/ Rests \/ \E p \in Pipe : Reads(p) \/ Abandons(p)
  <2>1. SameServer /\ count' = count /\ chunk' = chunk /\ channel' = channel
    BY <1>16 DEF Skips, Finishes, Rests, Reads, Abandons, SameDrain
  <2>2. SumOver(n, Large) = SumOver(m, Large)
    BY <1>12, <2>1
  <2> QED BY <1>3, <1>5, <2>1, <2>2
<1>17. CASE \/ Fails \/ Collects \/ GoesOn \/ Passes \/ Flushes \/ Drops \/ ReturnsNew
            \/ ReturnsOld \/ Heard \/ Opens \/ \E p \in Holders : Promises(p)
  <2>1. count' = count /\ chunk' = chunk /\ channel' = channel
    BY <1>17 DEF Fails, Collects, GoesOn, Passes, Flushes, Drops, ReturnsNew, ReturnsOld, Heard,
                 Opens, Promises, SameDrain
  <2>2. CASE Receives \/ Splices
    BY <1>8, <1>9, <2>2
  <2>3. CASE ~Receives /\ ~Splices
    BY <1>11, <2>1, <2>3
  <2> QED BY <2>2, <2>3
<1> QED BY <1>8, <1>9, <1>13, <1>14, <1>15, <1>16, <1>17 DEF CoreStep, DrainStep, ServerStep

LEMMA AccountedInit ==
  ASSUME Init
  PROVE  Accounted
<1>1. /\ count = Limit /\ chunk = << >> /\ channel = << >> /\ sending = None
      /\ \A f \in available_files : store[f] = << >>
  BY DEF Init, SenderInit, SemaphoreInit
<1>2. PICK m : m = Memory
  OBVIOUS
<1>3. ASSUME NEW f \in Large
      PROVE  m[f] = 0
  <2>1. BeingSent = << >> /\ store[f] = << >>
    BY <1>1, Assumed DEF BeingSent
  <2>2. m[f] = Len(Units(<< >>)) + Len(UnitsOf(f, << >>))
    BY <1>2, <2>1, MemoryIs DEF Mem
  <2>3. Len(Units(<< >>)) = 0 /\ Len(UnitsOf(f, << >>)) = 0
    BY UnitsNone
  <2> QED BY <2>2, <2>3
<1>4. SumOver(m, Large) = 0
  <2>1. IsFiniteSet(Large) /\ IntegersOn(m, Large) /\ \A f \in Large : m[f] \in Nat /\ m[f] <= 0
    BY <1>3, Assumed DEF IntegersOn
  <2>2. SumOver(m, Large) \in Nat
    BY <2>1, SumNatural
  <2>3. SumOver(m, Large) <= 0 * Cardinality(Large)
    BY <2>1, SumBound
  <2>4. Cardinality(Large) \in Nat
    BY <2>1, FS_CardinalityType
  <2> QED BY <2>2, <2>3, <2>4
<1>5. Len(chunk) = 0 /\ Len(Units(channel)) = 0
  BY <1>1, UnitsNone
<1>6. SumOver(Memory, Large) = 0
  BY <1>2, <1>4, Zenon
<1>7. PICK a, b, c : a = Len(chunk) /\ b = Len(Units(channel)) /\ c = SumOver(Memory, Large)
  OBVIOUS
<1>8. a = 0 /\ b = 0 /\ c = 0
  BY <1>5, <1>6, <1>7, Zenon
<1>9. count + a + b + c = Limit
  BY <1>1, <1>8, Assumed
<1> QED BY <1>7, <1>9, Zenon DEF Accounted

\* Memory acquired for the chunks of large files is held by a chunk that is read, in
\* the channel, in store or being sent, or has been given back, however acquire()
\* and release() interleave: MemoryAccounted.
THEOREM MemoryIsAccounted == Spec => []MemoryAccounted
<1>1. Init => Inv /\ Accounted
  BY InvInit, AccountedInit
<1>2. ASSUME Inv, Accounted, [Next]_vars
      PROVE  Accounted'
  <2>1. CoreStep
    BY <1>2, Steps
  <2> QED BY <1>2, <2>1, AccountedNext
<1>3. Inv /\ Accounted /\ [Next]_vars => Inv' /\ Accounted'
  BY <1>2, InvNext
<1>4. Accounted => MemoryAccounted
  BY DEF Accounted, MemoryAccounted, Memory, SumOver
<1> QED BY <1>1, <1>3, <1>4, PTL DEF Spec

-----------------------------------------------------------------------------
\* What was taken from the shards: Forwarded(f) is Drawn(f, step, done).

Call1(f, s, d, i) ==
  IF Script[i].op # "data" \/ Script[i].file # f \/ i > s THEN << >>
  ELSE IF i < s THEN Script[i].data
  ELSE SubSeq(Script[i].data, 1, d)

Calls(f, s, d) == [i \in 1..Len(Script) |-> Call1(f, s, d, i)]
Drawn(f, s, d) == FlattenSeq(Calls(f, s, d))

\* d units of the data at s have gone, if it is data of f.
DrawnTo(f, s, d) ==
  s <= Len(Script) /\ Script[s].op = "data" /\ Script[s].file = f => d <= Len(Script[s].data)

LEMMA ForwardedIs ==
  ASSUME NEW f
  PROVE  Forwarded(f) = Drawn(f, step, done) /\ Forwarded(f)' = Drawn(f, step', done')
BY DEF Forwarded, Drawn, Calls, Call1

LEMMA CallFacts ==
  ASSUME NEW f, NEW s \in Nat, NEW d \in Nat, NEW i \in 1..Len(Script), DrawnTo(f, s, d)
  PROVE  /\ Script[i].op # "data" \/ Script[i].file # f \/ i > s => Call1(f, s, d, i) = << >>
         /\ Script[i].op = "data" /\ Script[i].file = f /\ i < s =>
              Call1(f, s, d, i) = Script[i].data
         /\ Script[i].op = "data" /\ Script[i].file = f /\ i = s =>
              Call1(f, s, d, i) = SubSeq(Script[i].data, 1, d) /\ d <= Len(Script[i].data)
         /\ Call1(f, s, d, i) \in Seq(Unit)
         /\ Calls(f, s, d)[i] = Call1(f, s, d, i)
<1>0. s \in Nat /\ i \in Nat /\ Script[i].data \in Seq(Unit)
  BY ScriptFacts
<1>1. CASE Script[i].op # "data" \/ Script[i].file # f \/ i > s
  BY <1>0, <1>1, NoneIn DEF Call1, Calls
<1>2. CASE Script[i].op = "data" /\ Script[i].file = f /\ i < s
  BY <1>0, <1>2 DEF Call1, Calls
<1>3. CASE Script[i].op = "data" /\ Script[i].file = f /\ i = s
  <2>1. d <= Len(Script[i].data)
    BY <1>3, ScriptLength DEF DrawnTo
  <2>2. Call1(f, s, d, i) = SubSeq(Script[i].data, 1, d)
    BY <1>3 DEF Call1
  <2>3. SubSeq(Script[i].data, 1, d) \in Seq(Unit)
    <3>1. PICK t \in Seq(Unit) : t = Script[i].data
      BY <1>0
    <3>2. \A j \in 1..d : t[j] \in Unit
      BY <2>1, <3>1
    <3>3. SubSeq(t, 1, d) \in Seq(Unit)
      BY <3>2, SubSeqProperties
    <3> QED BY <3>1, <3>3
  <2>4. Calls(f, s, d)[i] = Call1(f, s, d, i)
    BY DEF Calls
  <2> QED BY <1>0, <1>3, <2>1, <2>2, <2>3, <2>4
<1> QED BY <1>0, <1>1, <1>2, <1>3

LEMMA CallsAre ==
  ASSUME NEW f, NEW s \in Nat, NEW d \in Nat, DrawnTo(f, s, d)
  PROVE  Calls(f, s, d) \in Lists(Unit) /\ Len(Calls(f, s, d)) = Len(Script)
<1>1. PICK t : t = Calls(f, s, d)
  OBVIOUS
<1>2. PICK n \in Nat : n = Len(Script)
  BY ScriptLength
<1>3. t = [i \in 1..n |-> t[i]]
  BY <1>1, <1>2 DEF Calls
<1>4. ASSUME NEW i \in 1..n
      PROVE  t[i] \in Seq(Unit)
  <2>1. i \in 1..Len(Script)
    BY <1>2
  <2>2. Call1(f, s, d, i) \in Seq(Unit) /\ Calls(f, s, d)[i] = Call1(f, s, d, i)
    BY <2>1, CallFacts
  <2> QED BY <1>1, <2>2
<1>5. t \in Lists(Unit) /\ Len(t) = n
  BY <1>3, <1>4, ListIs
<1> QED BY <1>1, <1>2, <1>5

LEMMA DrawnType ==
  ASSUME NEW f, NEW s \in Nat, NEW d \in Nat, DrawnTo(f, s, d)
  PROVE  Drawn(f, s, d) \in Seq(Unit)
BY CallsAre, FlattenType DEF Drawn

\* A call of another kind, or for another file, adds nothing.
LEMMA DrawnPast ==
  ASSUME NEW f, NEW s \in Nat, s >= 1, s <= Len(Script), NEW d \in Nat,
         Script[s].op # "data" \/ Script[s].file # f,
         NEW r \in Nat, NEW e \in Nat, (r = s /\ TRUE) \/ (r = s + 1 /\ e = 0)
  PROVE  Drawn(f, r, e) = Drawn(f, s, d) /\ DrawnTo(f, s, d) /\ DrawnTo(f, r, e)
<1>1. DrawnTo(f, s, d)
  BY DEF DrawnTo
<1>2. DrawnTo(f, r, e)
  <2>1. CASE r = s
    BY <2>1 DEF DrawnTo
  <2>2. CASE r = s + 1 /\ e = 0
    <3>1. r <= Len(Script) => Script[r].data \in Seq(Unit)
      BY <2>2, ScriptLength, ScriptFacts
    <3>2. \A t \in Seq(Unit) : 0 <= Len(t)
      OBVIOUS
    <3> QED BY <2>2, <3>1, <3>2 DEF DrawnTo
  <2> QED BY <2>1, <2>2
<1>3. ASSUME NEW i \in 1..Len(Script)
      PROVE  Call1(f, r, e, i) = Call1(f, s, d, i)
  <2>1. CASE Script[i].op # "data" \/ Script[i].file # f
    BY <1>1, <1>2, <2>1, CallFacts
  <2>2. CASE Script[i].op = "data" /\ Script[i].file = f /\ i < s
    <3>1. i < r
      BY <2>2, ScriptLength
    <3> QED BY <1>1, <1>2, <2>2, <3>1, CallFacts
  <2>3. CASE Script[i].op = "data" /\ Script[i].file = f /\ i > s
    <3>1. Call1(f, s, d, i) = << >>
      BY <1>1, <2>3, CallFacts
    <3>2. CASE i > r
      BY <1>2, <3>1, <3>2, CallFacts
    <3>3. CASE i <= r
      <4>1. i = r /\ e = 0
        BY <2>3, <3>3, ScriptLength
      <4>2. Call1(f, r, e, i) = SubSeq(Script[i].data, 1, 0)
        BY <1>2, <2>3, <4>1, CallFacts
      <4> QED BY <3>1, <4>2, SubSeqEmpty
    <3> QED BY <3>2, <3>3, ScriptLength
  <2>4. i # s \/ Script[i].op # "data" \/ Script[i].file # f
    OBVIOUS
  <2> QED BY <2>1, <2>2, <2>3, <2>4, ScriptLength
<1>4. Calls(f, r, e) = Calls(f, s, d)
  BY <1>3 DEF Calls
<1> QED BY <1>1, <1>2, <1>4 DEF Drawn

\* The piece c of the data of the call s, drawn up to d, is drawn, and with the last
\* one the call is over.
DrawsNext(f, s, d, c, r, e) ==
  /\ s \in Nat /\ s >= 1 /\ s <= Len(Script) /\ d \in Nat /\ c \in Seq(Unit)
  /\ Script[s].op = "data" /\ f = Script[s].file
  /\ d + Len(c) <= Len(Script[s].data)
  /\ c = SubSeq(Script[s].data, d + 1, d + Len(c))
  /\ r \in Nat /\ e \in Nat
  /\ \/ r = s + 1 /\ e = 0 /\ d + Len(c) = Len(Script[s].data)
     \/ r = s /\ e = d + Len(c)

\* The next piece of the data adds the piece.
LEMMA DrawnMore ==
  ASSUME NEW s, NEW d, NEW c, NEW r, NEW e, NEW f, DrawsNext(f, s, d, c, r, e)
  PROVE  /\ Drawn(f, r, e) = Drawn(f, s, d) \o c
         /\ DrawnTo(f, s, d) /\ DrawnTo(f, r, e)
<1>d. /\ s \in Nat /\ s >= 1 /\ s <= Len(Script) /\ d \in Nat /\ c \in Seq(Unit)
      /\ Script[s].op = "data" /\ f = Script[s].file
      /\ d + Len(c) <= Len(Script[s].data)
      /\ c = SubSeq(Script[s].data, d + 1, d + Len(c))
      /\ r \in Nat /\ e \in Nat
      /\ \/ r = s + 1 /\ e = 0 /\ d + Len(c) = Len(Script[s].data)
         \/ r = s /\ e = d + Len(c)
  BY DEF DrawsNext
<1> USE <1>d
<1>0. PICK k \in 1..Len(Script) : k = s
  BY ScriptLength
<1>1. PICK t \in Seq(Unit) : t = Script[s].data
  BY <1>0, ScriptFacts
<1>2. Len(c) \in Nat /\ Len(t) \in Nat /\ d + Len(c) <= Len(t)
  BY <1>1
<1>3. DrawnTo(f, s, d)
  BY <1>1, <1>2 DEF DrawnTo
<1>4. DrawnTo(f, r, e)
  <2>1. CASE r = s /\ e = d + Len(c)
    BY <2>1 DEF DrawnTo
  <2>2. CASE r = s + 1 /\ e = 0
    <3>1. r <= Len(Script) => Script[r].data \in Seq(Unit)
      BY <2>2, ScriptLength, ScriptFacts
    <3>2. \A u \in Seq(Unit) : 0 <= Len(u)
      OBVIOUS
    <3> QED BY <2>2, <3>1, <3>2 DEF DrawnTo
  <2> QED BY <2>1, <2>2
<1>5. Call1(f, s, d, k) = SubSeq(t, 1, d)
  BY <1>0, <1>1, <1>3, CallFacts
<1>6. Call1(f, r, e, k) = SubSeq(t, 1, d + Len(c))
  <2>1. CASE r = s /\ e = d + Len(c)
    BY <1>0, <1>1, <1>4, <2>1, CallFacts
  <2>2. CASE r = s + 1 /\ d + Len(c) = Len(t)
    <3>1. Call1(f, r, e, k) = t
      BY <1>0, <1>1, <1>4, <2>2, CallFacts
    <3> QED BY <2>2, <3>1, SubSeqFull
  <2> QED BY <1>1, <1>d, <2>1, <2>2
<1>7. SubSeq(t, 1, d + Len(c)) = SubSeq(t, 1, d) \o c
  <2>1. PICK n \in Nat : n = d + Len(c)
    BY <1>2
  <2>2. 1 \in 1..Len(t) + 1 /\ d \in (1 - 1)..Len(t) /\ n \in d..Len(t)
    BY <1>2, <2>1
  <2>3. SubSeq(t, 1, d) \o SubSeq(t, d + 1, n) = SubSeq(t, 1, n)
    BY <2>2, ConcatAdjacentSubSeq
  <2>4. c = SubSeq(t, d + 1, n)
    BY <1>1, <2>1
  <2> QED BY <2>1, <2>3, <2>4
<1>8. ASSUME NEW i \in 1..Len(Script), i # k
      PROVE  Call1(f, r, e, i) = Call1(f, s, d, i)
  <2>1. CASE Script[i].op # "data" \/ Script[i].file # f
    BY <1>3, <1>4, <2>1, CallFacts
  <2>2. CASE Script[i].op = "data" /\ Script[i].file = f /\ i < s
    <3>1. i < r
      BY <2>2, ScriptLength
    <3>2. Call1(f, r, e, i) = Script[i].data
      BY <1>4, <2>2, <3>1, CallFacts
    <3>3. Call1(f, s, d, i) = Script[i].data
      BY <1>3, <2>2, CallFacts
    <3> QED BY <3>2, <3>3
  <2>3. CASE Script[i].op = "data" /\ Script[i].file = f /\ i > s
    <3>1. Call1(f, s, d, i) = << >>
      BY <1>3, <2>3, CallFacts
    <3>2. CASE i > r
      BY <1>4, <3>1, <3>2, CallFacts
    <3>3. CASE i <= r
      <4>1. i = r /\ e = 0
        BY <2>3, <3>3, ScriptLength
      <4>2. Call1(f, r, e, i) = SubSeq(Script[i].data, 1, 0)
        BY <1>4, <2>3, <4>1, CallFacts
      <4> QED BY <3>1, <4>2, SubSeqEmpty
    <3> QED BY <3>2, <3>3, ScriptLength
  <2> QED BY <1>0, <1>8, <2>1, <2>2, <2>3, ScriptLength
<1>9. ASSUME NEW i \in 1..Len(Script), i > k
      PROVE  Call1(f, s, d, i) = << >>
  BY <1>0, <1>3, <1>9, CallFacts
<1>10. PICK a, b : a = Calls(f, s, d) /\ b = Calls(f, r, e)
  OBVIOUS
<1>11. /\ a \in Lists(Unit) /\ b \in Lists(Unit)
       /\ Len(a) = Len(Script) /\ Len(b) = Len(Script)
  BY <1>3, <1>4, <1>10, CallsAre
<1>12. \A i \in 1..Len(Script) : a[i] = Call1(f, s, d, i) /\ b[i] = Call1(f, r, e, i)
  BY <1>3, <1>4, <1>10, CallFacts
<1>13. b[k] = a[k] \o c
  BY <1>5, <1>6, <1>7, <1>12
<1>14. \A i \in 1..Len(a) : i # k => b[i] = a[i]
  BY <1>8, <1>11, <1>12
<1>15. \A i \in 1..Len(a) : i > k => a[i] = << >>
  BY <1>9, <1>11, <1>12
<1>16. k \in 1..Len(a) /\ Len(b) = Len(a)
  BY <1>11
<1>17. FlattenSeq(b) = FlattenSeq(a) \o c
  <2>1. Grows(Unit, a, b, c, k)
    BY <1>11, <1>13, <1>14, <1>15, <1>16 DEF Grows
  <2> QED BY ONLY <2>1, FlattenGrow
<1> QED BY <1>3, <1>4, <1>10, <1>17 DEF Drawn

\* Forwarded grows by the chunk that is forwarded, and with nothing else.
LEMMA DrawnSoFar ==
  ASSUME Inv, NEW f
  PROVE  DrawnTo(f, step, done) /\ Forwarded(f) \in Seq(Unit)
<1>1. step \in Nat /\ step >= 1 /\ done \in Nat /\ Draining
  BY ScriptLength DEF Inv, Typed, DrainTyped
<1>2. DrawnTo(f, step, done)
  <2>1. CASE done # 0
    BY <1>1, <2>1 DEF DrawnTo, Draining
  <2>2. CASE done = 0
    <3>1. step <= Len(Script) => Script[step].data \in Seq(Unit)
      BY <1>1, ScriptLength, ScriptFacts
    <3>2. \A t \in Seq(Unit) : 0 <= Len(t)
      OBVIOUS
    <3> QED BY <2>2, <3>1, <3>2 DEF DrawnTo
  <2> QED BY <2>1, <2>2
<1> QED BY <1>1, <1>2, DrawnType, ForwardedIs

LEMMA ForwardedKept ==
  ASSUME Inv, CoreStep, NEW f \in Large, ~(Forwards /\ f = Script[step].file)
  PROVE  Forwarded(f)' = Forwarded(f)
<1>0. step \in Nat /\ step >= 1 /\ done \in Nat /\ Draining /\ chunk \in Seq(Unit)
  BY ScriptLength DEF Inv, Typed, DrainTyped
<1>1. CASE step' = step /\ done' = done
  BY <1>1, ForwardedIs
<1>2. CASE Skips \/ Inserts
  <2>1. /\ step <= Len(Script) /\ step' = step + 1 /\ done' = done
        /\ Script[step].op # "data" \/ Script[step].file \in Overlay
    BY <1>2 DEF Skips, Inserts
  <2>2. done = 0
    BY <1>0, <2>1, Assumed DEF Draining, InData
  <2>3. Script[step].op # "data" \/ Script[step].file # f
    BY <2>1, Assumed
  <2>4. Drawn(f, step', done') = Drawn(f, step, done)
    BY <1>0, <2>1, <2>2, <2>3, DrawnPast
  <2> QED BY <2>4, ForwardedIs
<1>3. CASE Forwards
  <2>1. /\ step <= Len(Script) /\ Script[step].file # f
        /\ \/ step' = step + 1 /\ done' = 0
           \/ step' = step /\ done' = done + Len(chunk)
    BY <1>3 DEF Forwards, InData
  <2>2. step' \in Nat /\ done' \in Nat
    BY <1>0, <2>1
  <2>3. Drawn(f, step', done') = Drawn(f, step, done)
    BY <1>0, <2>1, <2>2, DrawnPast
  <2> QED BY <2>3, ForwardedIs
<1>4. CASE Acquires \/ Finishes \/ Rests \/ ServerStep \/ \E p \in Pipe : Reads(p) \/ Abandons(p)
  <2>1. step' = step /\ done' = done
    BY <1>4 DEF Acquires, Finishes, Rests, ServerStep, Fails, Collects, Receives, GoesOn, Passes,
                Flushes, Drops, Splices, ReturnsNew, ReturnsOld, Heard, Opens, Promises, Reads,
                Abandons, SameDrain
  <2> QED BY <1>1, <2>1
<1> QED BY <1>2, <1>3, <1>4 DEF CoreStep, DrainStep

LEMMA ForwardedMore ==
  ASSUME Inv, Forwards, NEW f \in Large, f = Script[step].file
  PROVE  Forwarded(f)' = Forwarded(f) \o chunk
<1>0. step \in Nat /\ step >= 1 /\ done \in Nat /\ Draining /\ chunk \in Seq(Unit)
  BY ScriptLength DEF Inv, Typed, DrainTyped
<1>1. /\ step <= Len(Script) /\ Script[step].op = "data"
      /\ done + Len(chunk) <= Len(Script[step].data)
      /\ chunk = SubSeq(Script[step].data, done + 1, done + Len(chunk))
  BY <1>0 DEF Forwards, InData, Draining
<1>2. \/ step' = step + 1 /\ done' = 0 /\ done + Len(chunk) = Len(Script[step].data)
      \/ step' = step /\ done' = done + Len(chunk)
  BY DEF Forwards
<1>3. step' \in Nat /\ done' \in Nat
  BY <1>0, <1>2
<1>5. PICK s, d, c, r, e : s = step /\ d = done /\ c = chunk /\ r = step' /\ e = done'
  OBVIOUS
<1>4. Drawn(f, r, e) = Drawn(f, s, d) \o c
  <2>1. s \in Nat /\ s >= 1 /\ d \in Nat /\ c \in Seq(Unit) /\ r \in Nat /\ e \in Nat
    BY <1>0, <1>3, <1>5
  <2>2. /\ s <= Len(Script) /\ Script[s].op = "data" /\ d + Len(c) <= Len(Script[s].data)
        /\ c = SubSeq(Script[s].data, d + 1, d + Len(c)) /\ f = Script[s].file
    BY <1>1, <1>5
  <2>3. \/ r = s + 1 /\ e = 0 /\ d + Len(c) = Len(Script[s].data)
        \/ r = s /\ e = d + Len(c)
    BY <1>2, <1>5
  <2>4. DrawsNext(f, s, d, c, r, e)
    BY <2>1, <2>2, <2>3 DEF DrawsNext
  <2> QED BY ONLY <2>4, DrawnMore
<1> QED BY <1>4, <1>5, ForwardedIs

-----------------------------------------------------------------------------
\* What is on its way.

Rest(f, d) == IF d # None /\ d.pipe[2] = f THEN Suffix(Units(d.chunks), d.at) ELSE << >>

WayOf(f, d, s, c) ==
  LET sent == UnitsOf(f, IF d = None THEN << >> ELSE d.chunks)
      rest == IF d # None /\ d.pipe[2] = f THEN SubSeq(sent, d.at + 1, Len(sent)) ELSE sent
  IN  rest \o Units(s) \o UnitsOf(f, c)

LEMMA WayIs ==
  ASSUME NEW f
  PROVE  /\ OnItsWay(f) = WayOf(f, sending, store[f], channel)
         /\ OnItsWay(f)' = WayOf(f, sending', store'[f], channel')
BY DEF OnItsWay, WayOf, BeingSent

LEMMA WayFor ==
  ASSUME NEW f \in available_files, NEW d, NEW s, NEW c,
         d # None => d.pipe[2] \in available_files /\ d.chunks \in Seq(ChunkOf({d.pipe[2]}))
  PROVE  WayOf(f, d, s, c) = Rest(f, d) \o Units(s) \o UnitsOf(f, c)
<1>1. CASE d = None
  <2>1. UnitsOf(f, << >>) = << >>
    BY UnitsNone
  <2> QED BY <1>1, <2>1 DEF WayOf, Rest
<1>2. CASE d # None
  <2>1. PICK g \in available_files : g = d.pipe[2]
    BY <1>2
  <2>2. d.chunks \in Seq(ChunkOf({g}))
    BY <1>2, <2>1
  <2>3. CASE g = f
    <3>1. UnitsOf(f, d.chunks) = Units(d.chunks)
      BY <2>2, <2>3, UnitsOfOne
    <3> QED BY <1>2, <2>1, <2>3, <3>1 DEF WayOf, Rest, Suffix
  <2>4. CASE g # f
    <3>1. UnitsOf(f, d.chunks) = << >>
      BY <2>2, <2>4, UnitsOfOne
    <3> QED BY <1>2, <2>1, <2>4, <3>1 DEF WayOf, Rest
  <2> QED BY <2>3, <2>4
<1> QED BY <1>1, <1>2

LEMMA WayNow ==
  ASSUME Inv, NEW f \in available_files
  PROVE  /\ OnItsWay(f) = Rest(f, sending) \o Units(store[f]) \o UnitsOf(f, channel)
         /\ Rest(f, sending) \in Seq(Unit) /\ Units(store[f]) \in Seq(Unit)
         /\ UnitsOf(f, channel) \in Seq(Unit)
         /\ OnItsWay(f) \in Seq(Unit)
         /\ sending # None => sending.at \in 0..Len(Units(sending.chunks))
<1>0. Typed /\ Turns
  BY DEF Inv
<1>1. sending # None => /\ sending.pipe[2] \in available_files
                        /\ sending.chunks \in Seq(ChunkOf({sending.pipe[2]}))
  BY <1>0, SendingFacts
<1>2. OnItsWay(f) = Rest(f, sending) \o Units(store[f]) \o UnitsOf(f, channel)
  <2>1. WayOf(f, sending, store[f], channel)
          = Rest(f, sending) \o Units(store[f]) \o UnitsOf(f, channel)
    BY <1>1, WayFor
  <2> QED BY <2>1, WayIs
<1>3. Units(store[f]) \in Seq(Unit) /\ UnitsOf(f, channel) \in Seq(Unit)
  BY <1>0, ChunksKept, UnitsType
<1>4. ASSUME sending # None
      PROVE  /\ Units(sending.chunks) \in Seq(Unit)
             /\ sending.at \in 0..Len(Units(sending.chunks))
  <2>1. PICK g \in available_files : g = sending.pipe[2]
    BY <1>1, <1>4
  <2>2. PICK s \in Seq(ChunkOf({g})) : s = sending.chunks
    BY <1>1, <1>4, <2>1
  <2>3. s \in Seq(Chunk)
    BY ChunksWithin
  <2>4. Units(s) \in Seq(Unit)
    BY <2>3, UnitsType
  <2>5. sending.at \in Nat /\ Len(Units(s)) \in Nat
    BY <1>0, <1>4, <2>4, SendingFacts
  <2>6. CASE s # << >> /\ sending.at < Len(Head(s).content)
    <3>1. Head(s) = s[1] /\ s[1] \in ChunkOf({g}) /\ Tail(s) \in Seq(Chunk)
      BY <2>3, <2>6, HeadAndTail
    <3>2. s[1].content \in Seq(Unit) /\ Units(Tail(s)) \in Seq(Unit)
      BY <3>1, ChunkFacts, UnitsType
    <3>3. Units(s) = s[1].content \o Units(Tail(s))
      BY <2>3, <2>6, UnitsFirst
    <3>4. /\ Len(Units(s)) = Len(s[1].content) + Len(Units(Tail(s)))
          /\ Len(s[1].content) \in Nat /\ Len(Units(Tail(s))) \in Nat
      BY <3>2, <3>3, Lengths
    <3>5. sending.at < Len(s[1].content)
      BY <2>6, <3>1
    <3>6. \A a, b, c, d \in Nat : d < b /\ a = b + c => d \in 0..a
      OBVIOUS
    <3>7. sending.at \in 0..Len(Units(s))
      BY <2>5, <3>4, <3>5, <3>6
    <3> QED BY <2>2, <2>4, <3>7
  <2>7. sending.at = 0 \/ (s # << >> /\ sending.at < Len(Head(s).content))
    BY <1>0, <1>4, <2>2 DEF Turns
  <2> QED BY <2>2, <2>4, <2>5, <2>6, <2>7
<1>5. Rest(f, sending) \in Seq(Unit)
  <2>1. CASE sending # None /\ sending.pipe[2] = f
    <3>0. PICK t \in Seq(Unit) : t = Units(sending.chunks)
      BY <1>4, <2>1
    <3>1. PICK n \in 0..Len(t) : n = sending.at
      BY <1>4, <2>1, <3>0
    <3>2. Suffix(t, n) \in Seq(Unit)
      BY SuffixType
    <3> QED BY <2>1, <3>0, <3>1, <3>2 DEF Rest
  <2>2. CASE ~(sending # None /\ sending.pipe[2] = f)
    BY <2>2, NoneIn DEF Rest
  <2> QED BY <2>1, <2>2
<1>6. OnItsWay(f) \in Seq(Unit)
  BY <1>2, <1>3, <1>5, ConcatProperties
<1> QED BY <1>2, <1>3, <1>4, <1>5, <1>6

LEMMA WayThen ==
  ASSUME Inv, CoreStep, NEW f \in available_files
  PROVE  OnItsWay(f)' = Rest(f, sending') \o Units(store'[f]) \o UnitsOf(f, channel')
<1>1. ServerTyped'
  BY ServerTypedNext
<1>2. ASSUME sending' # None
      PROVE  sending'.pipe[2] \in available_files /\ sending'.chunks \in Seq(ChunkOf({sending'.pipe[2]}))
  BY <1>1, <1>2 DEF ServerTyped, Delivery
<1>3. WayOf(f, sending', store'[f], channel')
        = Rest(f, sending') \o Units(store'[f]) \o UnitsOf(f, channel')
  BY <1>2, WayFor
<1> QED BY <1>3, WayIs

LEMMA JoinThree == \A a, b, c \in Seq(Unit) : a \o (b \o c) = (a \o b) \o c
<1> SUFFICES ASSUME NEW a \in Seq(Unit), NEW b \in Seq(Unit), NEW c \in Seq(Unit)
             PROVE  a \o (b \o c) = (a \o b) \o c
  OBVIOUS
<1> QED BY ConcatAssociative

\* A chunk goes from the channel to store.
LEMMA WayReceived ==
  ASSUME Inv, CoreStep, Receives, NEW f \in available_files
  PROVE  OnItsWay(f)' = OnItsWay(f)
<1>0. Typed /\ ServerTyped
  BY DEF Inv, Typed
<1>1. PICK g \in Large : /\ g = Head(channel).file /\ channel # << >>
                         /\ Head(channel) = channel[1] /\ channel' = Tail(channel)
                         /\ Head(channel) \in ChunkOf({g})
  BY ReceiveFacts
<1>2. PICK ch : ch = Head(channel)
  OBVIOUS
<1>3. ch \in Chunk /\ ch.content \in Seq(Unit) /\ ch.file = g /\ g \in available_files
  BY <1>1, <1>2, ChunkFacts, Assumed
<1>4. channel \in Seq(Chunk) /\ store[f] \in Seq(Chunk) /\ channel' \in Seq(Chunk)
  <2>1. channel \in Seq(Chunk) /\ store[f] \in Seq(Chunk)
    BY <1>0, ChunksKept
  <2> QED BY <1>1, <2>1, HeadAndTail
<1>5. sending' = sending
  BY DEF Receives
<1>6. PICK r, s, t, u, v : /\ r = Rest(f, sending) /\ s = Units(store[f]) /\ t = UnitsOf(f, channel)
                           /\ u = Units(store'[f]) /\ v = UnitsOf(f, channel')
  OBVIOUS
<1>7. /\ OnItsWay(f) = r \o s \o t /\ OnItsWay(f)' = r \o u \o v
      /\ r \in Seq(Unit) /\ s \in Seq(Unit) /\ t \in Seq(Unit)
  BY <1>5, <1>6, WayNow, WayThen
<1>8. v \in Seq(Unit)
  BY <1>4, <1>6, UnitsType
<1>9. CASE g # f
  <2>1. store'[f] = store[f]
    BY <1>0, <1>1, <1>9 DEF Receives, ServerTyped
  <2>2. t = v
    BY <1>1, <1>2, <1>3, <1>4, <1>6, <1>9, UnitsFirst
  <2> QED BY <1>6, <1>7, <2>1, <2>2
<1>10. CASE g = f
  <2>1. store'[f] = Append(store[f], ch)
    BY <1>0, <1>1, <1>2, <1>10 DEF Receives, ServerTyped
  <2>2. u = s \o ch.content
    BY <1>3, <1>4, <1>6, <2>1, UnitsAppend
  <2>3. t = ch.content \o v
    BY <1>1, <1>2, <1>3, <1>4, <1>6, <1>10, UnitsFirst
  <2>4. PICK x \in Seq(Unit) : x = ch.content
    BY <1>3
  <2>5. r \o s \o (x \o v) = r \o (s \o x) \o v
    <3>1. PICK a \in Seq(Unit) : a = r \o s
      BY <1>7, ConcatProperties
    <3>2. a \o (x \o v) = (a \o x) \o v
      BY <1>8, JoinThree
    <3>3. (r \o s) \o x = r \o (s \o x)
      BY ONLY <1>7, <2>4, JoinThree
    <3> QED BY <3>1, <3>2, <3>3
  <2> QED BY <1>7, <2>2, <2>3, <2>4, <2>5
<1> QED BY <1>9, <1>10

\* The thread turns to sending what is in store.
LEMMA WayBegun ==
  ASSUME Inv, CoreStep, sending = None, NEW f \in available_files,
         NEW p \in Holders, store' = [store EXCEPT ![p[2]] = << >>],
         NEW b \in BOOLEAN,
         sending' = [pipe |-> p, chunks |-> store[p[2]], at |-> 0, new |-> b],
         channel' = channel
  PROVE  OnItsWay(f)' = OnItsWay(f)
<1>0. Typed /\ ServerTyped
  BY DEF Inv, Typed
<1>1. PICK g \in available_files : g = p[2]
  BY DEF Holders
<1>2. sending' # None /\ sending'.chunks = store[g] /\ sending'.pipe = p /\ sending'.at = 0
  BY <1>0, <1>1, DeliveryBegun
<1>3. store'[g] = << >> /\ (f # g => store'[f] = store[f])
  BY <1>0, <1>1 DEF ServerTyped
<1>4. PICK s, t : s = Units(store[f]) /\ t = UnitsOf(f, channel)
  OBVIOUS
<1>5. Rest(f, sending) = << >>
  BY DEF Rest
<1>6. OnItsWay(f) = << >> \o s \o t /\ s \in Seq(Unit) /\ t \in Seq(Unit)
  BY <1>4, <1>5, WayNow
<1>7. OnItsWay(f)' = Rest(f, sending') \o Units(store'[f]) \o t
  BY <1>4, WayThen
<1>8. CASE f # g
  <2>1. Rest(f, sending') = << >>
    BY <1>1, <1>2, <1>8 DEF Rest
  <2> QED BY <1>3, <1>4, <1>6, <1>7, <1>8, <2>1
<1>9. CASE f = g
  <2>1. Rest(f, sending') = Suffix(s, 0)
    BY <1>1, <1>2, <1>4, <1>9 DEF Rest
  <2>2. Rest(f, sending') = s
    BY <1>6, <2>1, SuffixNone
  <2>3. Units(store'[f]) = << >>
    BY <1>3, <1>9, UnitsNone
  <2>4. s \o << >> = s /\ << >> \o s = s
    BY <1>6, ConcatEmptySeq
  <2> QED BY <1>6, <1>7, <2>2, <2>3, <2>4
<1> QED BY <1>8, <1>9

\* It has nothing left to send.
LEMMA WayReturned ==
  ASSUME Inv, CoreStep, ReturnsNew \/ ReturnsOld, NEW f \in available_files
  PROVE  OnItsWay(f)' = OnItsWay(f)
<1>0. Typed /\ Turns
  BY DEF Inv
<1>1. /\ server = "send" /\ sending # None /\ sending' = None /\ store' = store
      /\ sending.chunks = << >> \/ SentAll
      /\ channel' = channel
  BY <1>0 DEF ReturnsNew, ReturnsOld, Turns, SameDrain
<1>2. PICK g \in available_files : g = sending.pipe[2]
  BY <1>0, <1>1, SendingFacts
<1>3. PICK s : s = sending.chunks
  OBVIOUS
<1>4. s \in Seq(ChunkOf({g}))
  BY <1>0, <1>1, <1>2, <1>3, SendingFacts
<1>5. UnitsOf(g, s) = << >>
  BY <1>1, <1>3, ReturnedMemory
<1>6. Units(s) = << >>
  BY <1>4, <1>5, UnitsOfOne
<1>7. sending.at \in 0..Len(Units(s))
  BY <1>1, <1>3, WayNow
<1>8. sending.at = 0
  BY <1>6, <1>7
<1>9. Suffix(<< >>, 0) = << >>
  BY SuffixNone, NoneIn
<1>10. Rest(f, sending) = << >>
  BY <1>3, <1>6, <1>8, <1>9 DEF Rest
<1>11. Rest(f, sending') = << >>
  BY <1>1 DEF Rest
<1> QED BY <1>1, <1>10, <1>11, WayNow, WayThen

\* What is on its way to a reader changes only when a chunk is sent into the channel
\* and when a unit goes out.
LEMMA WayKept ==
  ASSUME Inv, CoreStep, server' # "failed", NEW f \in Large,
         ~(Forwards /\ f = Script[step].file),
         ~(Splices /\ f = sending.pipe[2])
  PROVE  OnItsWay(f)' = OnItsWay(f)
<1>0. Typed /\ Turns /\ ServerTyped /\ f \in available_files
  BY Assumed DEF Inv, Typed
<1>1. CASE channel' = channel /\ store'[f] = store[f] /\ sending' = sending
  BY <1>1, WayIs
<1>2. CASE channel' = channel /\ store' = store /\ sending' = sending
  BY <1>1, <1>2
<1>3. ASSUME NEW g \in Large, NEW x \in ChunkOf({g}), channel' = Append(channel, x),
             store' = store, sending' = sending, g # f \/ x.content = << >>
      PROVE  OnItsWay(f)' = OnItsWay(f)
  <2>0. channel \in Seq(Chunk)
    BY <1>0, ChunksKept
  <2>1. x \in Chunk /\ x.file \in {g}
    BY ChunkFacts, Zenon
  <2>2. UnitsOf(f, channel) \in Seq(Unit)
    BY <2>0, UnitsType
  <2>3. UnitsOf(f, channel') = UnitsOf(f, channel)
    <3>1. CASE g # f
      BY <1>3, <2>0, <2>1, <3>1, UnitsAppend
    <3>2. CASE g = f
      <4>1. UnitsOf(f, channel') = UnitsOf(f, channel) \o << >>
        BY <1>3, <2>0, <2>1, <3>2, UnitsAppend
      <4> QED BY <2>2, <4>1, ConcatEmptySeq
    <3> QED BY <3>1, <3>2
  <2> QED BY <1>0, <1>3, <2>3, WayNow, WayThen
<1>4. CASE Forwards
  <2>1. CASE ~Receiver
    BY <1>2, <1>4, <2>1 DEF Forwards, SameServer
  <2>2. CASE Receiver
    <3>1. PICK g \in Large : g = Script[step].file /\ g # f /\ g \in available_files
      BY <1>4, Assumed DEF Forwards, InData
    <3>2. chunk \in Seq(Unit) /\ chunk # << >>
      BY <1>0, <1>4 DEF Forwards, Typed, DrainTyped
    <3>3. PICK x \in ChunkOf({g}) : x = Content(g, chunk)
      BY <3>1, <3>2, ChunksMade
    <3> QED BY <1>3, <1>4, <2>2, <3>1, <3>3 DEF Forwards, SameServer
  <2> QED BY <2>1, <2>2
<1>5. CASE Inserts
  <2>1. PICK g \in Large : g = Script[step].file /\ g \in available_files
    BY <1>5, Assumed DEF Inserts
  <2>2. PICK x \in ChunkOf({g}) : x = Eof(g) /\ x.content = << >>
    BY <2>1, ChunksMade, NoneIn
  <2> QED BY <1>3, <1>5, <2>1, <2>2 DEF Inserts, SameServer
<1>6. CASE Collects
  <2>1. store[f] = << >> /\ sending' = sending /\ channel' = channel
    BY <1>0, <1>6 DEF Inv, Owed, NotBegun, Collects, SameDrain
  <2>2. store'[f] = << >>
    BY <1>0, <1>6, Assumed DEF Collects
  <2> QED BY <1>1, <2>1, <2>2
<1>7. CASE Receives
  BY <1>0, <1>7, WayReceived
<1>8. CASE Flushes
  <2>1. PICK p \in Holders : p = open_pipes[cursor]
    BY <1>0, <1>8, ElementIn DEF ServerTyped, Flushes, Turns
  <2>2. PICK b \in BOOLEAN : b = FALSE
    OBVIOUS
  <2>3. sending = None
    BY <1>0, <1>8 DEF Flushes, Turns
  <2>4. /\ sending' = [pipe |-> p, chunks |-> store[p[2]], at |-> 0, new |-> b]
        /\ store' = [store EXCEPT ![p[2]] = << >>]
        /\ channel' = channel
    BY <1>8, <2>1, <2>2 DEF Flushes, SameDrain
  <2> QED BY <1>0, <2>3, <2>4, WayBegun
<1>9. ASSUME NEW p \in Holders, Promises(p)
      PROVE  OnItsWay(f)' = OnItsWay(f)
  <2>1. PICK b \in BOOLEAN : b = TRUE
    OBVIOUS
  <2>2. sending = None
    BY <1>0, <1>9 DEF Promises, Turns
  <2>3. /\ sending' = [pipe |-> p, chunks |-> store[p[2]], at |-> 0, new |-> b]
        /\ store' = [store EXCEPT ![p[2]] = << >>]
        /\ channel' = channel
    BY <1>9, <2>1 DEF Promises, SameDrain
  <2> QED BY <1>0, <2>2, <2>3, WayBegun
<1>10. CASE Splices
  <2>1. /\ sending # None /\ sending' # None /\ sending'.pipe = sending.pipe /\ store' = store
        /\ channel' = channel /\ sending.pipe[2] # f
    BY <1>10, Spliced DEF Splices
  <2>2. Rest(f, sending) = << >> /\ Rest(f, sending') = << >>
    BY <2>1 DEF Rest
  <2> QED BY <1>0, <2>1, <2>2, WayNow, WayThen
<1>11. CASE ReturnsNew \/ ReturnsOld
  BY <1>0, <1>11, WayReturned
<1>12. CASE Skips \/ Acquires \/ Finishes \/ GoesOn \/ Passes \/ Drops \/ Heard \/ Opens \/ Rests
              \/ \E p \in Pipe : Reads(p) \/ Abandons(p)
  <2>1. channel' = channel /\ store' = store /\ sending' = sending
    BY <1>12 DEF Skips, Acquires, Finishes, GoesOn, Passes, Drops, Heard, Opens, Rests, Reads,
                 Abandons, SameDrain, SameServer
  <2> QED BY <1>2, <2>1
<1>13. ~Fails
  BY DEF Fails
<1> QED BY <1>4, <1>5, <1>6, <1>7, <1>8, <1>9, <1>10, <1>11, <1>12, <1>13
        DEF CoreStep, DrainStep, ServerStep

\* What is forwarded is on its way behind everything else of its file.
LEMMA WayForwarded ==
  ASSUME Inv, CoreStep, Forwards, Receiver, NEW f \in Large, f = Script[step].file
  PROVE  OnItsWay(f)' = OnItsWay(f) \o chunk /\ chunk \in Seq(Unit)
<1>0. Typed /\ f \in available_files /\ chunk \in Seq(Unit) /\ chunk # << >>
  BY Assumed DEF Inv, Typed, DrainTyped, Forwards
<1>9. PICK y : y = Content(f, chunk)
  OBVIOUS
<1>10. y \in ChunkOf({f}) /\ y.file = f /\ y.content = chunk
  BY <1>0, <1>9, ChunksMade
<1>1. PICK x \in ChunkOf({f}) : x = Content(f, chunk) /\ x.file = f /\ x.content = chunk
  BY <1>9, <1>10
<1>2. channel \in Seq(Chunk) /\ x \in Chunk
  BY <1>0, ChunksKept, ChunkFacts
<1>3. channel' = Append(channel, x) /\ store' = store /\ sending' = sending
  BY <1>1 DEF Forwards, SameServer
<1>4. UnitsOf(f, channel') = UnitsOf(f, channel) \o chunk
  <2>0. channel \in Seq(Chunk) /\ x \in Chunk /\ x.file = f
    BY <1>1, <1>2
  <2>1. UnitsOf(f, Append(channel, x)) = UnitsOf(f, channel) \o x.content
    BY ONLY <2>0, UnitsAppend
  <2> QED BY <1>1, <1>3, <2>1
<1>5. PICK r, s, t, c : /\ r = Rest(f, sending) /\ s = Units(store[f]) /\ t = UnitsOf(f, channel)
                        /\ c = chunk
  OBVIOUS
<1>6. /\ OnItsWay(f) = r \o s \o t /\ OnItsWay(f)' = r \o s \o (t \o c)
      /\ r \in Seq(Unit) /\ s \in Seq(Unit) /\ t \in Seq(Unit) /\ c \in Seq(Unit)
  BY <1>0, <1>3, <1>4, <1>5, WayNow, WayThen
<1>7. PICK a \in Seq(Unit) : a = r \o s
  BY <1>6, ConcatProperties
<1>8. a \o (t \o c) = (a \o t) \o c
  BY <1>6, <1>7, JoinThree
<1> QED BY <1>0, <1>5, <1>6, <1>7, <1>8

\* A unit is no longer on its way once it is in the pipe.
LEMMA WaySpliced ==
  ASSUME Inv, CoreStep, Splices, NEW f \in Large, f = sending.pipe[2]
  PROVE  /\ OnItsWay(f) # << >> /\ OnItsWay(f)' = Tail(OnItsWay(f))
         /\ out' = [out EXCEPT ![sending.pipe] = Append(@, OnItsWay(f)[1])]
<1>0. Typed /\ f \in available_files
  BY Assumed DEF Inv, Typed
<1>1. /\ sending # None /\ sending' # None /\ sending'.pipe = sending.pipe /\ store' = store
      /\ channel' = channel /\ sending.chunks # << >> /\ NextChunk = sending.chunks[1]
      /\ out' = [out EXCEPT ![sending.pipe] = Append(@, NextChunk.content[sending.at + 1])]
  BY Spliced DEF Splices
<1>2. PICK s : s = sending.chunks
  OBVIOUS
<1>3. s \in Seq(ChunkOf({f})) /\ s \in Seq(Chunk) /\ Tail(s) \in Seq(Chunk) /\ s # << >>
  <2>1. s \in Seq(ChunkOf({f}))
    BY <1>0, <1>1, <1>2, SendingFacts
  <2>2. s \in Seq(Chunk)
    BY <2>1, ChunksWithin
  <2> QED BY <1>1, <1>2, <2>1, <2>2, HeadAndTail
<1>4. PICK x, n : x = s[1].content /\ n = sending.at
  OBVIOUS
<1>5. x \in Seq(Unit) /\ n \in Nat /\ n + 1 \in 1..Len(x) /\ Len(x) \in Nat
  BY <1>1, <1>2, <1>4, Spliced
<1>6. PICK y \in Seq(Unit) : y = Units(Tail(s))
  BY <1>3, UnitsType
<1>7. Units(s) = x \o y
  BY <1>3, <1>4, <1>6, UnitsFirst
<1>8. PICK t \in Seq(Unit) : t = x \o y
  BY <1>5, ConcatProperties
<1>9. n \in 0..Len(t) /\ n < Len(t) /\ t[n + 1] = x[n + 1] /\ Len(t) = Len(x) + Len(y)
  <2>1. /\ Len(t) = Len(x) + Len(y) /\ Len(y) \in Nat
        /\ \A i \in 1..(Len(x) + Len(y)) : t[i] = IF i <= Len(x) THEN x[i] ELSE y[i - Len(x)]
    BY <1>5, <1>8, ConcatProperties
  <2>2. n + 1 \in 1..(Len(x) + Len(y)) /\ n + 1 <= Len(x) /\ n \in 0..Len(t) /\ n < Len(t)
    BY <1>5, <2>1
  <2> QED BY <2>1, <2>2
<1>10. PICK r : r = Suffix(t, n)
  OBVIOUS
<1>11. r \in Seq(Unit) /\ r # << >>
  <2>1. r \in Seq(Unit) /\ Len(r) = Len(t) - n
    BY <1>9, <1>10, SuffixType
  <2>2. Len(r) # 0
    BY <1>5, <1>9, <2>1
  <2> QED BY <2>1, <2>2
<1>12. r[1] = x[n + 1] /\ Tail(r) = Suffix(t, n + 1)
  BY <1>9, <1>10, <1>11, SuffixNext
<1>13. Rest(f, sending) = r
  BY <1>1, <1>2, <1>4, <1>7, <1>8, <1>10 DEF Rest
<1>14. Rest(f, sending') = Tail(r)
  <2>1. CASE n + 1 # Len(x)
    <3>1. sending'.chunks = s /\ sending'.at = n + 1
      BY <1>1, <1>2, <1>4, <2>1, Spliced
    <3> QED BY <1>1, <1>7, <1>8, <1>12, <3>1 DEF Rest
  <2>2. CASE n + 1 = Len(x)
    <3>1. sending'.chunks = Tail(s) /\ sending'.at = 0
      BY <1>1, <1>2, <1>4, <2>2, Spliced
    <3>2. Rest(f, sending') = Suffix(y, 0)
      BY <1>1, <1>6, <3>1 DEF Rest
    <3>3. Suffix(y, 0) = y
      BY SuffixNone
    <3>4. Suffix(t, Len(x)) = y
      BY <1>5, <1>8, SuffixPast
    <3> QED BY <1>12, <2>2, <3>2, <3>3, <3>4
  <2> QED BY <2>1, <2>2
<1>15. PICK u, v : u = Units(store[f]) /\ v = UnitsOf(f, channel)
  OBVIOUS
<1>16. /\ OnItsWay(f) = r \o u \o v /\ OnItsWay(f)' = Tail(r) \o u \o v
       /\ u \in Seq(Unit) /\ v \in Seq(Unit)
  BY <1>0, <1>1, <1>13, <1>14, <1>15, WayNow, WayThen
<1>17. /\ Tail(r \o u) = Tail(r) \o u /\ r \o u # << >> /\ r \o u \in Seq(Unit)
  BY <1>11, <1>16, TailJoin, ConcatProperties
<1>18. Tail((r \o u) \o v) = Tail(r \o u) \o v /\ (r \o u) \o v # << >>
  BY <1>16, <1>17, TailJoin
<1>19. ((r \o u) \o v)[1] = r[1]
  <2>1. PICK a \in Seq(Unit) : a = r \o u
    BY <1>17
  <2>2. Len(r) \in Nat \ {0} /\ Len(a) \in Nat \ {0} /\ Len(u) \in Nat /\ Len(v) \in Nat
    BY <1>11, <1>16, <1>17, <2>1
  <2>3. 1 \in 1..(Len(r) + Len(u)) /\ 1 \in 1..(Len(a) + Len(v)) /\ 1 <= Len(r) /\ 1 <= Len(a)
    BY <2>2
  <2>4. a[1] = r[1]
    BY <1>11, <1>16, <2>1, <2>3, ConcatProperties
  <2>5. (a \o v)[1] = a[1]
    BY <1>16, <2>3, ConcatProperties
  <2> QED BY <2>1, <2>4, <2>5
<1>20. OnItsWay(f)[1] = NextChunk.content[sending.at + 1]
  BY <1>1, <1>2, <1>4, <1>12, <1>16, <1>19
<1> QED BY <1>1, <1>16, <1>17, <1>18, <1>20

-----------------------------------------------------------------------------
\* Readers get every unit, in order.

\* A pipe nobody has offered is empty, and was never read.
LEMMA UnofferedNext ==
  ASSUME Inv, CoreStep, NEW p \in Pipe, end'[p] = "none",
         end[p] = "none" => out[p] = << >> /\ got[p] = 0
  PROVE  out'[p] = << >> /\ got'[p] = 0
<1>0. PipesTyped /\ end[p] = "none" /\ out[p] = << >> /\ got[p] = 0
  BY EndKept DEF Inv, Typed
<1>1. CASE out' = out /\ got' = got
  BY <1>0, <1>1
<1>2. CASE Splices
  BY <1>0, <1>2 DEF Splices, PipesTyped
<1>3. ASSUME NEW q \in Pipe, Reads(q) \/ Abandons(q)
      PROVE  out'[p] = << >> /\ got'[p] = 0
  BY <1>0, <1>3 DEF Reads, Abandons, PipesTyped
<1>4. CASE DrainStep \/ Rests
  BY <1>1, <1>4 DEF DrainStep, Skips, Acquires, Forwards, Inserts, Finishes, Rests, SamePipes
<1>5. CASE ServerStep /\ ~Splices
  BY <1>1, <1>5 DEF ServerStep, Fails, Collects, Receives, GoesOn, Passes, Flushes, Drops,
                    ReturnsNew, ReturnsOld, Heard, Opens, Promises, SamePipes
<1> QED BY <1>2, <1>3, <1>4, <1>5 DEF CoreStep

\* A pipe whose reader is gone is not taken up again.
LEMMA AbandonedStays ==
  ASSUME Inv, CoreStep, server = "pipe" => end[sending.pipe] \in {"none", "offered"},
         server' # "failed", NEW p \in Pipe, end[p] = "abandoned"
  PROVE  end'[p] = "abandoned"
<1>0. PipesTyped
  BY DEF Inv, Typed
<1>1. CASE Drops \/ ReturnsNew
  BY <1>0, <1>1 DEF Drops, ReturnsNew, PipesTyped
<1>2. CASE Opens \/ \E q \in Pipe : Abandons(q)
  BY <1>0, <1>2 DEF Opens, Abandons, PipesTyped
<1>3. CASE DrainStep \/ Rests \/ Collects \/ Receives \/ GoesOn \/ Passes \/ Flushes \/ Splices
             \/ Heard \/ ReturnsOld \/ (\E q \in Holders : Promises(q)) \/ (\E q \in Pipe : Reads(q))
  BY <1>3 DEF DrainStep, Skips, Acquires, Forwards, Inserts, Finishes, Rests, Collects,
              Receives, GoesOn, Passes, Flushes, Splices, Heard, ReturnsOld, Promises, Reads,
              SamePipes
<1>4. ~Fails
  BY DEF Fails
<1> QED BY <1>1, <1>2, <1>3, <1>4 DEF CoreStep, ServerStep

\* Only units that go out, and the reader, change what is in a pipe.
LEMMA PipeKept ==
  ASSUME Inv, CoreStep, NEW p \in Pipe, ~Reads(p), ~Abandons(p),
         ~(Splices /\ p = sending.pipe)
  PROVE  out'[p] = out[p] /\ got'[p] = got[p]
<1>0. PipesTyped
  BY DEF Inv, Typed
<1>1. CASE out' = out /\ got' = got
  BY <1>1
<1>2. CASE Splices
  BY <1>0, <1>2 DEF Splices, PipesTyped
<1>3. ASSUME NEW q \in Pipe, Reads(q) \/ Abandons(q)
      PROVE  out'[p] = out[p] /\ got'[p] = got[p]
  BY <1>0, <1>3 DEF Reads, Abandons, PipesTyped
<1>4. CASE DrainStep \/ Rests
  BY <1>1, <1>4 DEF DrainStep, Skips, Acquires, Forwards, Inserts, Finishes, Rests, SamePipes
<1>5. CASE ServerStep /\ ~Splices
  BY <1>1, <1>5 DEF ServerStep, Fails, Collects, Receives, GoesOn, Passes, Flushes, Drops,
                    ReturnsNew, ReturnsOld, Heard, Opens, Promises, SamePipes
<1> QED BY <1>2, <1>3, <1>4, <1>5 DEF CoreStep

LEMMA WholeNext ==
  ASSUME Inv, CoreStep, Serving, server' # "failed", NEW p \in Holders, p[2] \in Large,
         end[p] # "abandoned", end'[p] # "abandoned", Whole(p)
  PROVE  Whole(p)' \/ \E q \in Holders : q # p /\ q[2] = p[2] /\ Held(q)
<1>0. Typed /\ PipesTyped /\ p \in Pipe /\ Receiver
  BY Assumed DEF Inv, Typed, Serving, Receiver
<1>1. PICK f \in Large : f = p[2] /\ f \in available_files
  BY Assumed
<1>2. PICK F, G, w, v, o, a : /\ F = Forwarded(f) /\ G = Forwarded(f)' /\ w = OnItsWay(f)
                              /\ v = OnItsWay(f)' /\ o = out[p] /\ a = got[p]
  OBVIOUS
<1>3. F \in Seq(Unit) /\ w \in Seq(Unit) /\ o \in Seq(Unit) /\ a \in Nat
  BY <1>0, <1>1, <1>2, DrawnSoFar, WayNow DEF PipesTyped
<1>4. a \in 0..Len(F) /\ o \o w = Suffix(F, a)
  <2>1. a <= Len(F) /\ o \o w = Suffix(F, a)
    BY <1>1, <1>2, Zenon DEF Whole
  <2>2. Len(F) \in Nat
    BY <1>3
  <2> QED BY <1>3, <2>1, <2>2
<1>5. ASSUME got'[p] \in 0..Len(G), out'[p] \o v = Suffix(G, got'[p])
      PROVE  Whole(p)'
  <2>1. got'[p] <= Len(G)
    BY <1>3, <1>5
  <2> QED BY <1>1, <1>2, <1>5, <2>1 DEF Whole
<1>6. CASE Forwards /\ f = Script[step].file
  <2>1. v = w \o chunk /\ G = F \o chunk /\ chunk \in Seq(Unit)
    BY <1>0, <1>1, <1>2, <1>6, WayForwarded, ForwardedMore
  <2>2. out'[p] = o /\ got'[p] = a
    BY <1>2, <1>6 DEF Forwards, SamePipes
  <2>3. Suffix(F \o chunk, a) = Suffix(F, a) \o chunk /\ a \in 0..Len(F \o chunk)
    BY <1>3, <1>4, <2>1, SuffixGrow
  <2>4. o \o (w \o chunk) = (o \o w) \o chunk
    BY <1>3, <2>1, JoinThree
  <2> QED BY <1>4, <1>5, <2>1, <2>2, <2>3, <2>4
<1>7. ASSUME ~(Forwards /\ f = Script[step].file)
      PROVE  G = F
  BY <1>1, <1>2, <1>7, ForwardedKept
<1>8. ASSUME ~(Forwards /\ f = Script[step].file), ~(Splices /\ f = sending.pipe[2])
      PROVE  v = w
  BY <1>1, <1>2, <1>8, WayKept
<1>9. CASE Splices /\ f = sending.pipe[2]
  <2>1. ~Forwards /\ sending # None
    BY <1>9, Spliced DEF Splices, Forwards
  <2>2. sending.pipe \in Holders
    BY <1>0, <2>1, SendingFacts
  <2>3. CASE p # sending.pipe
    BY <1>1, <1>9, <2>1, <2>2, <2>3 DEF Held, Sending
  <2>4. CASE p = sending.pipe
    <3>1. /\ w # << >> /\ v = Tail(w)
          /\ out' = [out EXCEPT ![sending.pipe] = Append(@, OnItsWay(f)[1])]
      BY <1>1, <1>2, <1>9, WaySpliced
    <3>2. out'[p] = Append(o, w[1]) /\ got'[p] = a
      BY <1>0, <1>2, <1>9, <2>4, <3>1 DEF PipesTyped, Splices
    <3>3. Append(o, w[1]) \o Tail(w) = o \o w
      BY <1>3, <3>1, PassOn
    <3> QED BY <1>4, <1>5, <1>7, <2>1, <3>1, <3>2, <3>3
  <2> QED BY <2>3, <2>4
<1>10. CASE Reads(p)
  <2>1. ~Forwards /\ ~Splices /\ o # << >> /\ out'[p] = Tail(o) /\ got'[p] = a + 1
    <3>1. ~Forwards /\ ~Splices
      BY <1>0, <1>10 DEF Reads, Forwards, Splices, PipesTyped, SameDrain
    <3> QED BY <1>0, <1>2, <1>10, <3>1 DEF Reads, PipesTyped
  <2>2. Tail(o \o w) = Tail(o) \o w /\ o \o w # << >>
    BY <1>3, <2>1, TailJoin
  <2>3. a + 1 \in 0..Len(F) /\ Tail(Suffix(F, a)) = Suffix(F, a + 1)
    BY <1>3, <1>4, <2>2, SuffixNext
  <2> QED BY <1>4, <1>5, <1>7, <1>8, <2>1, <2>2, <2>3
<1>11. CASE ~Reads(p) /\ ~(Forwards /\ f = Script[step].file) /\ ~(Splices /\ f = sending.pipe[2])
  <2>1. ~Abandons(p)
    BY <1>0 DEF Abandons, PipesTyped
  <2>2. out'[p] = o /\ got'[p] = a
    BY <1>0, <1>1, <1>2, <1>11, <2>1, PipeKept
  <2> QED BY <1>4, <1>5, <1>7, <1>8, <1>11, <2>2
<1> QED BY <1>6, <1>9, <1>10, <1>11

LEMMA InOrderNext ==
  ASSUME Inv, InOrder, CoreStep
  PROVE  InOrder'
<1>0. \A p \in Holders : p \in Pipe
  BY Assumed
<1>1. ASSUME NEW p \in Pipe, end'[p] = "none"
      PROVE  out'[p] = << >> /\ got'[p] = 0
  BY <1>1, UnofferedNext DEF InOrder
<1>2. ASSUME server' = "pipe"
      PROVE  end'[sending'.pipe] \in {"none", "offered"}
  BY <1>2, AwaitedNext DEF InOrder
<1>3. ASSUME Serving', NEW p \in Holders, p[2] \in Large, end'[p] # "abandoned"
      PROVE  Whole(p)' \/ \E q \in Holders : q # p /\ q[2] = p[2] /\ Held(q)'
  <2>1. Serving /\ server' # "failed"
    BY <1>3, ServingBefore DEF Serving
  <2>2. end[p] # "abandoned"
    BY <1>0, <1>3, <2>1, AbandonedStays DEF InOrder
  <2>3. Whole(p) \/ \E q \in Holders : q # p /\ q[2] = p[2] /\ Held(q)
    BY <1>3, <2>1, <2>2 DEF InOrder
  <2>4. Whole(p)' \/ \E q \in Holders : q # p /\ q[2] = p[2] /\ Held(q)
    BY <1>3, <2>1, <2>2, <2>3, WholeNext
  <2> QED BY <2>4, HeldMoves
<1> QED BY <1>1, <1>2, <1>3 DEF InOrder

LEMMA InOrderInit ==
  ASSUME Init
  PROVE  InOrder
<1>0. Inv
  BY InvInit
<1>1. /\ out = [p \in Pipe |-> << >>] /\ end = [p \in Pipe |-> "none"]
      /\ got = [p \in Pipe |-> 0] /\ server = "collect" /\ sending = None
      /\ store = [f \in available_files |-> << >>] /\ channel = << >> /\ step = 1 /\ done = 0
  BY DEF Init, SenderInit
<1>2. ASSUME NEW p \in Holders, p[2] \in Large
      PROVE  Whole(p)
  <2>1. PICK f \in Large : f = p[2] /\ f \in available_files /\ p \in Pipe
    BY <1>2, Assumed
  <2>2. Rest(f, sending) = << >> /\ Units(store[f]) = << >> /\ UnitsOf(f, channel) = << >>
    BY <1>1, <2>1, UnitsNone DEF Rest
  <2>3. OnItsWay(f) = << >>
    BY <1>0, <2>1, <2>2, WayNow
  <2>4. Forwarded(f) = << >>
    <3>1. DrawnTo(f, 1, 0) /\ Forwarded(f) = Drawn(f, 1, 0)
      BY <1>0, <1>1, DrawnSoFar, ForwardedIs
    <3>2. ASSUME NEW i \in 1..Len(Script)
          PROVE  Calls(f, 1, 0)[i] = << >>
      <4>1. Call1(f, 1, 0, i) = << >>
        <5>1. CASE Script[i].op # "data" \/ Script[i].file # f \/ i > 1
          BY <5>1 DEF Call1
        <5>2. CASE Script[i].op = "data" /\ Script[i].file = f /\ i = 1
          BY <5>2, SubSeqEmpty DEF Call1
        <5> QED BY <5>1, <5>2, ScriptLength
      <4> QED BY <3>1, <4>1, CallFacts
    <3>3. PICK u : u = Calls(f, 1, 0)
      OBVIOUS
    <3>4. u \in Lists(Unit) /\ \A i \in 1..Len(u) : u[i] = << >>
      BY <3>1, <3>2, <3>3, CallsAre
    <3> QED BY <3>1, <3>3, <3>4, FlattenNone DEF Drawn
  <2>5. got[p] = 0 /\ out[p] = << >>
    BY <1>1, <2>1
  <2>6. Suffix(<< >>, 0) = << >>
    BY SuffixNone, NoneIn
  <2> QED BY <2>1, <2>3, <2>4, <2>5, <2>6 DEF Whole
<1> QED BY <1>1, <1>2 DEF InOrder

\* Units of large files reach their readers all, once and in the order of the dump,
\* whatever is read, sent and received meanwhile, and a pipe ends behind the last of
\* them: ServedInOrder.
THEOREM InOrderServed == Spec => []ServedInOrder
<1>1. ASSUME Inv, InOrder
      PROVE  ServedInOrder
  <2>1. ASSUME Serving, NEW f \in Large, NEW p \in Reading(f), end[p] # "abandoned"
        PROVE  out[p] \o OnItsWay(f) = SubSeq(Forwarded(f), got[p] + 1, Len(Forwarded(f)))
    <3>1. p \in Holders /\ p[2] = f /\ Held(p)
      BY <2>1, Assumed DEF Reading, Held, Pipe, Holders
    <3>2. ~\E q \in Holders : q # p /\ q[2] = p[2] /\ Held(q)
      BY <1>1, <3>1 DEF Inv, Owed, OneHolder
    <3>3. Whole(p)
      BY <1>1, <2>1, <3>1, <3>2 DEF InOrder
    <3> QED BY <3>1, <3>3 DEF Whole, Suffix
  <2>2. ASSUME Receiver, NEW f \in Large, NEW p \in Reading(f), end[p] = "closed"
        PROVE  step > Len(Script) \/ \A i \in step..Len(Script) : Script[i].file # f
    <3>1. p \in Holders /\ p[2] = f
      BY <2>2, Assumed DEF Reading, Pipe, Holders
    <3>2. Over(f)
      BY <1>1, <2>2, <3>1 DEF Inv, Owed, ClosedOver, Receiver
    <3> QED BY <3>2 DEF Over, NoMore, ScriptOver
  <2> QED BY <2>1, <2>2 DEF ServedInOrder
<1>2. Init => Inv /\ InOrder
  BY InvInit, InOrderInit
<1>3. ASSUME Inv, InOrder, [Next]_vars
      PROVE  InOrder'
  <2>1. CoreStep
    BY <1>3, Steps
  <2> QED BY <1>3, <2>1, InOrderNext
<1>4. Inv /\ InOrder /\ [Next]_vars => Inv' /\ InOrder'
  BY <1>3, InvNext
<1>5. Inv /\ InOrder => ServedInOrder
  BY <1>1
<1> QED BY <1>2, <1>4, <1>5, PTL DEF Spec
=============================================================================
