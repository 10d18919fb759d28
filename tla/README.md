# A TLA+ development of the image streamer

`cedana-image-streamer` moves the image of a checkpointed process (a set of
files) between the program that writes them (CRIU, the cedana daemon) and
object storage, without touching the disk. `capture` reads the image files from
pipes, cuts them into chunks and spreads the chunks over several *shards*
(pipes, each with an upload behind it). `extract` and `serve` read the shards
back, whatever the speed of each, and rebuild the files: on disk, or in memory
for clients that ask for them over a socket.

This directory holds models of that program, the configurations that
model-check them with TLC, and proofs checked by TLAPS. Paths of the source are
given relative to the root of the repository (`src/extract.rs`); `PROJECT.json`
maps every definition that models code to its lines.

Contents: [inventory](#inventory), [modules](#modules),
[abstractions](#abstractions), [runs](#runs), [fairness](#fairness),
[findings](#findings), [proofs](#proofs), [not modelled](#not-modelled),
[plan](#plan).

## Inventory

| Part | State | Operations | What makes it correct |
| --- | --- | --- | --- |
| Image stream (`proto/image.proto`, `util.rs`) | a marker: a number and one of Filename, FileData, FileEof, ImageEof; a payload behind FileData | `pb_write`, `pb_read_next`, `is_small_file` | a reader is never one payload off; large and small files are numbered apart |
| Image serializer (`capture.rs`) | `seq`, `small_file_seq`, `current_filename`, `metadata`, the shards in a heap by their remaining space | `drain_img_file`, `maybe_write_filename_marker`, `write_chunk`, `write_image_eof` | what is in the shards can be replayed, whichever shard each chunk went to |
| Capture loop (`capture.rs`, `connection.rs`) | the listener, connections and image files in a poller | `capture` | every file is drained to its end, and only then listed; the loop ends |
| Poller (`poller.rs`) | a slab of objects, the events of one `epoll_wait` | `add`, `remove`, `poll` | an event reaches the object it is about |
| Image deserializer (`extract.rs`) | `shards`, `readable_shards`, `pending_markers` (a heap), `seq`, `img_files`, `current_img_file`, `image_eof` | `drain_small_file_shard`, `drain_all` and what they call | chunks are applied in the order of their numbers; no shard is forgotten; Ok means the whole image; no read blocks while there is data elsewhere |
| Serving thread (`extract.rs`, `connection.rs`) | `store`, `open_pipes`, `filenames_of_sent_files`, a poller with the listener and connections | `serve_img`, `send_over_chunks`, `recv_pipe` | a file goes to one client, in order, once; the thread ends once it is asked to |
| File sender (`image_store/fs_parallel.rs`) and semaphore (`semaphore.rs`) | two channels, the memory that is left | `create`, `insert`, `write_all_from_pipe`, `acquire`, `release` | memory taken by one thread is given back by the other, exactly, and neither waits for ever |
| Room in the shards (`capture.rs`, `unix_pipe.rs`) | `remaining_space` of each shard, `shard_pipe_capacity` | `increase_capacity`, `chunk_max_data_size`, `refresh_remaining_space`, the pick of `write_chunk` | all pipes have the capacity reckoned with; a chunk goes where there is room for it |
| Disk, overlay and memory stores (`image_store/fs.rs`, `fs_overlay.rs`, `mem.rs`, `mmap_buf.rs`) | files, chunks of memory | `create`, `insert`, `write_all_from_pipe` | no piece is lost, doubled or misplaced, however partial the reads |
| Port remapping (`image_patcher.rs`) | `tcp_listen_remaps` | `patch_img` | exactly the sockets asked for change; nothing is served otherwise |
| Pipes and framing (`unix_pipe.rs`, `util.rs`) | a file descriptor | `splice_all`, `fionread`, `read_bytes_next` | loops move every byte or fail; the end of a shard is seen only where it is one |
| Command line (`main.rs`, `lib.rs`) | none | parsing and validation | |

How they interact. Clients connect to the listener of `capture` and send the
read end of a pipe with each request; the capture thread polls listener,
connections and pipes, and blocks when a shard pipe is full. The shards are
independent pipes: nothing keeps them in step, and any may end early when its
upload or download fails. The deserializer calls `create`,
`write_all_from_pipe` and `insert` of an image store. In `serve` that store is
the file sender, which blocks on the semaphore and sends chunks over a channel
to the serving thread, which polls its clients, blocks on their pipes, and
releases the memory. The end of either thread ends the process.

What is hard. Chunks of one file arrive over several shards in any order, and a
marker whose turn has not come keeps its shard out of use, since its payload is
the next thing in that pipe. Blocking reads are chosen by polling. The events of
one `epoll_wait` are handled after handlers that may have removed the objects
they are about, whose keys are used again. End of file is inferred from a pipe
that is readable and empty. Memory is acquired and released by two threads at
different times. Two programs connected back to back may wait for each other.
Capture picks a shard by an estimate of its room that is refreshed only now and
then. Reads, writes and splices are partial, and a writer may be gone after any
byte. The `hazards` of `PROJECT.json` give each of these at the line where it
bites, with the properties that are about it.

## Modules

State and actions correspond to the code as follows; a variable has the name of
the field or local it stands for wherever there is one.

**The stream.** `ImageStream` defines markers, slots and the effect of a chunk
on the image being rebuilt (`select_img_file`, `process_marker`,
`process_small_file_marker`). `ShardPipes` is the shared state between writers
and readers: `pipe[s]` holds the slots in a shard, `ending[s]` whether its
write end is open, closed at a slot boundary (`eof`) or within a slot
(`torn`). `ShardObjects` says what two well-formed streams spread over shards
are: the contract between capture, which is checked to produce it, and extract,
which is checked and proved under it.

**Extract.** `ImageDeserializer` has one action per blocking step of
`drain_small_file_shard()` and `drain_all()`. `phase` is where the thread is: in
`"small"` it waits for a marker of the small shard, in `"small_data"` for its
payload; `"select"` is the loop that applies the markers whose turn it is and
then looks for a shard; `"read"` the wait for a marker of `picked`; `"data"` the
wait for the payload of `held`. Every marker that is processed or refused is
applied with the same operators as in `ImageStream`. `PollShards` moves all
readable shards from `shards` to `readable_shards`, `PopReadable` takes the next
one, `PopLoneShard` is the case of a single shard, which is read without
polling. `Restore` composes it with stored shards that are delivered by programs
of their own, any of which may be cut, at a slot boundary or within a slot; or
by one program that writes all main shards in the order of the chunks and blocks
on the one that is full. Which of these it is, and which shards may be cut,
belongs to the stored image (`delivery`). `SequentialReplay` is the abstract
specification: one reader that applies the chunks of the small stream and then
of the main stream, one at a time, in the order of their numbers, and may fail
only where the stream itself calls for it or a shard is damaged. `ShardReader`
states what holds of extract wherever its shards come from, in terms of the
streams, the shards as far as they exist, and how much of each was put in its
pipe; the invariant of `Restore` and that of `Migration` are both made of it.

**Capture.** `ImageSerializer` models `drain_img_file()`: what `fionread()`
reports is cut into chunks of at most `ChunkMax` units, numbered and queued in
`outbox`; `WriteMarker` and `WritePayload` write them, slot by slot, and block
on full pipes. The thread does nothing else until `outbox` is empty, as in the
code. Any main shard may be picked: which one, `ShardSpace` is about.
`CaptureLoop` adds the loop with polling reduced to its promise (any source that
is ready may be served, and no other). `Capture` has the poller, the clients,
their connections and messages, and the panic of the slab, and refines
`CaptureLoop`. `Poller` is the slab with its free list and the batch of events.
Whether a client may ask to stop while another is connecting is fixed from the
start (`early`): if not, the loop is orderly.

**Room in the shards.** `ShardSpace` is the part of capture that
`ImageSerializer` abstracts from. `SetCapacity`, `SetCapacityFails` and `Sized`
are `increase_capacity()`: the pipes are set to the desired capacity one by one;
at the first that the user's limit does not permit, the capacity is halved and
all are set anew. Then the files are drained (`DrainFile`, `NextChunk`), in
chunks of at most `ChunkMax`. Each chunk begins with a look at the estimates
(`BeginChunk`); if the best is too low, all main shards are refreshed, one
`fionread()` per step; the shard with the greatest estimate is picked (`Pick`),
written (`WriteMarker`, `SpliceData`) and its estimate lowered (`Deduct`). The
uploads take units out of the pipes between any two of these steps. A pipe is a
count of units and of the pages they are spread over: it is full when its pages
are, though the estimates count units.

**Bytes of a shard.** `ShardBytes` is one shard down to the byte: the loops of
`pb_write()`, `splice_all()` and `read_bytes_next()`, each step of which moves
as much as it happens to, and `write_all_from_pipe()` of the three stores: to
disk as one piece; of the file sender in pieces of `ChunkSize`; of the memory
store, where a small file is one buffer that becomes the first chunk of a large
file before it outgrows `SmallMax`. The writer may be gone at any byte.
`SlotStream` is the shard as the other modules have it, written and read slot by
slot, and `RefinesSlots` says that the first implements the second. The one
exception is marked (`short`): into a small file of the memory store, a payload
that is cut is read as if it had been whole.

**Ports.** `ImagePatcher` is `patch_img()` of `files.img`, entry by entry, which
`serve` runs after the small files are there and before its socket is announced.
`PatchedAsAsked` compares what is served with a definition that looks at the whole
file at once.

**Live migration.** `Migration` composes `CaptureLoop` and `ImageDeserializer`
over the same bounded pipes, and implements `ImageTransfer`: files that grow at
one side are copied to the other; a copy is always the first part of its file, is
sealed only when whole, and the image is complete only when all are.

**Serve.** `Semaphore` and `FileSender` model the memory and the thread that
drains the shards: `write_all_from_pipe()` acquires memory for a piece, reads
and sends it, then the next; files given to `--ext-file-fds` bypass channel and
semaphore and go to a pipe of the user's (`Overlaid`). `Serve` is the serving
thread, one action per step that may block or that another process may observe:
receiving from the channel, flushing the open pipes one after the other, sending
unit by unit, polling, and one handler per message and outcome, with the errors
that end the thread (`Fail`) and its panics: the event of a stopped listener,
and a list of files longer than a message may be (`HandleListLong`).
`ServeClients` adds the clients, and two kinds of them: *careful* ones ask for
the large files in dump order, one at a time, read to the end and stop the
listener when they have everything; the others connect, ask for anything,
abandon pipes, leave and stop the listener at any time, and the shards they come
with may be cut.

`MCRestore`, `MCCaptureLoop`, `MCCapture`, `MCMigration`, `MCServe`,
`MCShardSpace`, `MCShardBytes` and `MCImagePatcher` define the instances. The
operators with a suffix (`InOrder_AnyTop`, `IsEof_Short`) are plausible bugs:
each property of a passing run is violated when the one named under `mutants`
takes the place of the original.

## Abstractions

- File names are model values; `LargeFile` are those that `is_small_file()` is
  false for. A unit of payload is `<<file, position>>`, so that content that is
  lost, repeated, reordered or put in another file is seen. The metadata is the
  sequence of listed names, as one payload.
- A marker, or a payload, is one slot of a shard pipe, written and read whole.
  Partial transfers within a slot show only as a shard that ends within it
  (`torn`), which the reader sees as an error, never as the end of file.
  `ShardBytes` is where that is checked; it leaves out that the file sender waits
  for memory between two pieces, which `FileSender` has.
- `poll()` and `epoll_wait()` return a nonempty set of what is ready; `epoll`
  returns as many as it can, at most `MaxEvents`, in any order.
- In `ImageSerializer` and what is built on it any main shard is picked for a
  chunk; the code picks the one it estimates to have most room (`ShardSpace`).
  Every property there holds for any choice.
- In `ShardSpace` a marker is one unit of its page, and the content of a pipe is
  its units and pages. The kernel's part is external: when `F_SETPIPE_SZ` is
  permitted, and that a pipe takes data only into a free page, or behind data
  in the last one. The small file shard takes part in the sizes only; that its
  estimate is lowered but never refreshed is noted among the hazards.
- In `ImagePatcher` an entry is whether it is a TCP socket that listens, and its
  port. The code converts the port to 16 bits before it looks for a remap, which
  changes nothing of a port the kernel gave. All else in an entry is copied;
  that decoding and encoding it again drops the protobuf fields the streamer
  does not know is left out.
- In `Serve` what `drain_all()` does to the store is a script of `create`,
  data and `insert`, in the order that `Restore` and `CaptureLoop` are about.
- In `Capture` a request and the pipe that follows it are one message: a client
  that dies between the two, which ends capture with an error, is left out.
- One client asks for the listener to be stopped, once. A client sends its next
  message after it has read the reply to the last one, as the protocol has it.

## Runs

| Run | Instance | What it shows |
| --- | --- | --- |
| `RestoreImages` | five images over up to three main shards, every assignment of chunks to shards, pipes of one slot; whole ones delivered independently or by one blocking program; two of them with each of the three pipes possibly cut anywhere | the inductive invariant `RestoreInv`; `RefinesReplay`: extract rebuilds what a sequential reader would, or a beginning of it; `AcceptedIsWhole`: never Ok for a part; `DrainTerminates`: never blocked on a shard that is over |
| `CaptureFiles` | a small and two large files, chunks of up to two units, two main shards | `ShardsWellFormed`: what capture leaves is what `Restore` assumes; `ShardsReplay`: replaying it gives every file and the list |
| `MigrationRoomy` | a small and a large file of two units, pipes that hold the image | `RefinesTransfer`: what arrives of a file is at all times a first part of it; `Delivered`: Ok only for exactly the files sent, whole and for good; `MetadataComplete`, `NeverRefused`, `MigrationCompletes`; `MigrationTypeOK` |
| `MigrationTight` | the same, pipes of two slots | `NoMutualBlocking` is violated: finding 1 |
| `PollerFiles` | two clients, a file given on the command line and a requested one; a client may ask to stop while another is connecting, or not | if not, `EventsFresh`, `EofMeansClosedOrderly`, `RefinesLoop`, `CaptureEnds`; in any case `KeysAccounted`: slab, free list and files agree however keys are used again; the inductive invariant `Inv` of the proof |
| `PollerStaleEvent` | three clients, one of which asks to stop while another is connecting | `EofMeansClosed` is violated: finding 2 |
| `ShardRoom` | five hosts: two main shards whose pipes may grow to four pages, to two, not at all, or to four pages of one unit; one main shard with chunks of several units | `SizesAgree`: all pipes get one capacity, the greatest of those tried that the limit permits; `EstimateIsLowerBound`; `PickedHasRoom`: if some shard has room for a chunk, by units, the chunk goes to one that has; `DrainReturns` |
| `ShardBytes` | four short shards, read into each of the three stores through a pipe of three bytes | `FileHolds`: the pieces the store has are what was read; `RefinesSlots`; `ReaderEnds` |
| `PortRemaps` | `files.img` of up to three entries on two ports, or cut, or of another magic; up to two remaps, so swaps, chains and two of one port | `PatchedAsAsked`, `RefusedForCause` and the inductive invariant `Inv` |
| `ServeCareful` | two careful clients, a small and two large files, an overlaid file dumped between chunks of another, memory for one chunk | `MemoryAccounted`, `ServedInOrder`, `ServeCompletes` |
| `ServeCareless` | two careless clients, a large file, a file that bypasses the store, a name that does not exist, a list that may be too long, shards that may be cut | `MemoryAccounted`, `OneReader`, `ServedInOrder` |
| `ServeStop` | one careless client | `StopEnds` is violated: finding 3 |

Why the bounds are enough. Chunks can overtake each other as soon as two shards
hold one each; three are needed for a shard to be readable while one holds a
marker that waits for its turn and another the marker whose turn it is. The
images of `MCRestore` interleave two large files, repeat a file under the same
name (for which capture writes no second Filename marker, so that extract
refuses the chunks), and lack large files entirely. Pipes of one slot make every
read and write block. Two large files make Filename markers necessary between
the chunks of one file. Memory for one chunk is the least with which `serve` can
work, and makes both threads wait for each other at every chunk. In
`PollerFiles` a batch holds up to three events, enough for one to be handled
after the handlers of two others; the key of the listener is used again with one
more client. In `ShardRoom` the limit is met at the first pipe, at a later one
after others have grown, and never; a pipe holds several chunks or less than
one, so that estimates go negative; and two main shards are the least among
which there is a choice. In `ShardBytes` the payloads are longer than the pipe,
than a piece of the sender and than a small file of the memory store, and a file
of several payloads passes the boundary between small and large within one. In
`PortRemaps` two entries on one port and a third on another are what a remap can
be mistaken about; the proof is for any number. `MaxSize`, `ClientRoom`,
`Capacity`, `ChunkMax`, `MaxEvents`, `Limit`, `ChunkSize`, `DesiredCapacity`,
`InitialPages`, `MaxReadable`, `PipeRoom`, `Prefix` and `SmallMax` are the
bounds, each named where it is declared; `MaxReadable` bounds what is drained at
once, and the limits and pages of `ShardSpace` belong to its hosts.

`CHECK_DEADLOCK FALSE` is given where the program really may wait for ever: a
`capture` whose clients left without asking to stop the listener (that is what
`CaptureEnds` excludes), a `serve` whose clients never ask for the file that
holds the memory, and the two programs of finding 1. Elsewhere deadlock is
checked, with the exit of the process as an explicit step.

## Fairness

Each thread of the program is weakly fair as a whole: it runs whenever it is not
blocked (`WF_vars(Read)`, `WF_vars(Thread)`, `WF_vars(Drain)`,
`WF_vars(Capture)`, `WF_vars(Extract)`, `WF_vars(Reader)`). That is what the
scheduler of the operating system gives; no fairness is assumed among the steps
of a thread, the choice of the poller or the order of events. Deliveries of
shards are weakly fair until they end or are cut: a download goes on or fails;
so are the writer of `ShardBytes` and each upload of `ShardSpace`, for an upload
that stops without closing its pipe does stop capture. What there is to drain
has no fairness. Clients have no fairness in `Capture`, `Migration` and
`ServeStop`: the properties say what follows once clients are done. In
`ServeCareful` the clients are part of the claim: each of their steps is weakly
fair, and requests are strongly fair, for a file that is not ready is asked for
again and is disabled in between.

## Findings

1. *Live migration with pipes smaller than the image blocks.*
   `drain_small_file_shard()` reads to the end of the small shard before
   any other shard is looked at (`src/extract.rs:346`), and capture ends that
   shard last (`src/capture.rs:313`, then process exit). Capture waits for room
   in a main shard, extract for the end of the small one. The comment at
   `src/extract.rs:255-263` speaks of live migrations as a workload to tolerate.
2. *A stale event ends a file early.* When a client asks to stop the listener
   while another is connecting, an event of the listener may be pending. Its key
   is freed and may be given to the next image file, which is then drained though
   not readable: `fionread()` is 0 and the file is taken to be at its end, while
   its client is about to write. With no file to take the key the slab panics.
   The comment at `src/capture.rs:290` says that the code is only invoked for a
   pipe reported readable.
3. *`serve` may spin for ever after the listener is stopped.* A connection that
   has ended stays in the poller (`src/extract.rs:566`) and is reported by every
   `poll()`, whose timeout is where the loop would end. When stop-listener is
   read while a file is pending, the loop never gets there.

## Proofs

Eight modules hold proofs: `ExtractProofs` of extract, alone and connected to
capture, `CaptureProofs` and `StreamProofs` of capture, `ServeProofs` of serve, `ShardSpaceProofs`,
`ShardBytesProofs` and `ImagePatcherProofs` of the parts of their names, and
`DataLemmas`, which has what they need to know about sums, powers and sequences.
Those of capture and extract meet in the shards: what `StreamProofs` proves of
capture is what `ExtractProofs` assumes of the stored image, and what it builds on
when the two are connected; and what both take for one step, the reading of a slot,
`ShardBytesProofs` shows the loops over bytes to implement.

The first part of `ExtractProofs` is about `Restore`, for every set of main shards,
every set of images that are well-formed streams spread over them, every capacity and every
choice of shards that may be cut:

- `InvHolds`: `Spec => []RestoreInv`;
- `TypeCorrect`: `Spec => []TypeOK`;
- `AcceptedWhole`: `Spec => []AcceptedIsWhole`: `drain_all()` returns Ok only if
  every chunk of the large files was applied, and all of the small ones but for
  the last marker of the metadata, whose absence goes unnoticed.

They rest on the assumptions the modules name: `ImageAssumption` and
`NoneAssumption` (the model value `None` is none of the others, nor an image),
`ShardAssumption` (the small shard is not a main one, there is a main one) and
`StoreAssumption` (what is stored is well-formed: `ShardsWellFormed`, proved of
capture in `StreamProofs`).

`AcceptedIsWhole` is not inductive. That the numbers applied reach the end of
the stream when ImageEof is applied follows only if the marker that is applied
is the one of that number in the stream, so the argument has to follow each slot
from the stored shard to the image: `Fifo` (a pipe holds what was delivered and
not yet taken), `ShardsAccounted` (a shard is in exactly one collection, so that
only one marker taken from it is unprocessed), `MarkersAccounted` (each marker
taken is applied, or pending, or held), `FramingKept` (a payload is next exactly
behind a held or pending marker, so that nothing else is read as a marker) and
`EndsReached` (which connects `img` to the numbers applied). These, with the types,
are `Reading` of `ShardReader`, of any streams, shards and amounts put in the pipes;
`RestoreInv` is `Reading` of what is stored and delivered, with `TypeOK`, `Stored` (streams
and shards are well-formed) and `CutShort` (only a shard that is cut ends early).
`ReaderStep` says that each step of extract keeps `Reading`, whatever the streams.
Lemmas about pipes (`NextSlot`, `TakeFifo`, `PutFifo`), about the effect of a chunk (`ApplyType`, `ApplyEnds`), about
numbers (`DistinctNumbers`, `LaterIsHigher`) and about steps alike
(`StandStill`, `QuietStep`, `CollectionsStep`, `ChunkApplied`, `ChunkCounted`,
`MarkerSetAside`) carry the step proofs, one per action.

The second part compares this with a sequential reader, under the
same assumptions:

- `RestoreReplays`: `Spec => RefinesReplay`, the refinement of
  `SequentialReplay`: initial states map to initial states, every step of
  `drain_all()` is a step of the sequential reader or not seen by it, and what
  extract refuses the abstract reader may refuse too.

The abstract step that applies a chunk is matched by the step of `process_marker()`
that applies it, with its number for the abstract position. The marker must
then be the one the sequential reader has next: `RestoreInv` gives that a number stands
for one chunk. The rest of the argument is about the ends of streams. What is
read from a pipe for a marker is the marker of a chunk not applied yet
(`HeadIsMarker`); the next chunk due is always still somewhere, in a shard, in
flight, held or pending (`NextIsStored`, `DueIsAhead`), so the one small shard yields chunks
in their order, and extract is left with nothing only when nothing is left or a
shard was cut (`NothingRemains`); each refusal has one of the reasons
`SequentialReplay` names (`Refused`).

The third part is about `Migration`, for every set of files and main shards, every
length of the files, capacity of the pipes, room and size of a chunk, and however the
steps of clients, capture and extract interleave, from `ShardAssumption`,
`ImageAssumption`, `NoneAssumption`, `SerializerAssumption` and `DataAssumption`:

- `MigrationHolds`: `MigrationSpec => []MigrationInv`;
- `MigrationTyping`: `MigrationSpec => []MigrationTypeOK`;
- `MetadataReachesExtract`: `MigrationSpec => []MetadataComplete`;
- `MigrationNeverRefused`: `MigrationSpec => []NeverRefused`;
- `MigrationRefinesTransfer`: `MigrationSpec => RefinesTransfer`, the refinement of
  `ImageTransfer`;
- `MigrationDelivers`: `MigrationSpec => []Delivered`.

Neither of the two halves can be taken as it is: what `StreamProofs` says of pipes that
nobody reads, and `Restore` of streams that are complete, must hold of pipes that are
read while the streams still grow. So the invariant (`Transported`) says that there
are streams and shards such that the streams are what capture has numbered so far and
the shards what it has written of them (`Carried`, `Ends` and `Replays` of
`StreamProofs`, of shards instead of pipes), that extract is somewhere in them
(`Reading` of `ShardReader`), and that the image is what replaying as many chunks as
were applied makes of the empty one (`Rebuilt`). A step of capture continues streams
and shards (`LoopCarried`) and leaves extract where it is (`PutsReading`); a step of
extract leaves them alone and takes the image to the replay of one chunk more, or
leaves it (`RebuiltStep`). Streams and shards are bound by a quantifier over all of
them, so TLC cannot evaluate `MigrationInv` itself; it checks what follows from it.

That nothing is refused (`NoError`) needs both halves: the chunk that extract has next
is one that can be applied, as a beginning of the streams is one of their replay
(`NextCanApply`); the end of a shard is not reached before capture has written all of
it (`Lasting`, `NotCutShort`); and when the small shard, or all of them, is at its end
every chunk was applied, hence the metadata and ImageEof (`SmallWhole`, `MainWhole`).
`Listing` connects the list to the files removed from the poller.

For the refinement the images *between* the first chunk and the last matter.
`Growing`, part of `Replays`, says of every one of them that each file has a first part
of what was drained, and all of it if it is handed over (`Partial`); it is kept
although what is drained grows meanwhile. Each step of extract then replays one chunk
(`OneChunk`), which is a `Copy`, a `Seal` or not seen (`ChunkTransfers`, by the kinds
of marker), or returns (`MainWhole` again, for `Complete`). A step of capture or of a
client begins, grows or closes a file, or is not seen (`LoopTransfers`). `Delivered`
adds what the abstract transfer does not promise, that nothing joins or grows once
`drain_all()` has returned: extract cannot have come so far unless `capture()` has
ended, with no request left to come (`AllIn`, inductive relative to `MigrationInv`).

`CaptureProofs` is about `Capture` with its `Poller`, for every set of clients,
set of files, size of a batch of events and choice of `EarlyStop`, from
`CaptureAssumption` (the external files are finitely many, no object is a vacant
entry) and `SerializerAssumption`:

- `CaptureInv`: `Spec => []Inv`;
- `CaptureTyping`: `Spec => []TypeOK`;
- `KeysHold`: `Spec => []KeysAccounted`;
- `EventsStayFresh`: `Spec => []EventsFresh`, hence no panic in the slab, unless
  a client asks to stop while another is connecting;
- `EndsAreReal`: `Spec => []EofMeansClosedOrderly`.

`EventsFresh` is what makes `drain_img_file()` right to conclude the end of a file
from `fionread() = 0`, and it is inductive only with much of the rest of the state:
the events of a batch are distinct (`EventsDistinct`) and so are the objects
(`SlabAccounted`), so that what a handler consumes is not what a later event was
reported for; the one handler that removes an object other than its own, that of
stop-listener, finds the backlog empty (`StopOrderly`) and so the listener in no
later event; and the objects it adds go to vacant keys, which no fresh event
names. `SlabAccounted` needs that nothing is added twice (`FilesOnce`,
`MessagesOnce`, `BacklogApart`) and that the listener is still at its key when it
is removed (`ListenerKept`). `AddHolds` and `RemoveHolds` say what `add()` and
`remove()` do to the slab for any object; then there is one lemma per action. The
invariant relies on the clients of the model: each file is requested once.

The second part of `CaptureProofs` is about the loop, under the same assumptions:

- `CaptureRefinesLoop`: `Spec => RefinesLoop`, the refinement of `CaptureLoop`:
  until a client asks to stop while another is connecting, every step of the
  thread, down to the poller, is an action of `CaptureLoop` or not seen by it;
- `CaptureDelivers`:
  `Spec => [](early \/ (Loop!ShardsWellFormed /\ Loop!ShardsReplay))`: with the
  same exception, what `capture()` leaves in the shards is what extract relies on,
  and gives every file back. It composes the refinement with the invariant of
  `StreamProofs` (below), of which it takes an instance.

What `CaptureLoop` calls `expecting` is that the poller holds the listener or a
connection (`Expecting`). That it is never true again once false needs more than
`Inv`: a connection waits only for a listener that is there, and the slab is never
empty while the thread polls (`LoopInv`). A handler of a file is a step of
`CaptureLoop` only if the file really is ready, which is `EventsFresh`; so the
refinement, like it, has the exception `early`.

`StreamProofs` is about `CaptureLoop`, for every set of files and main shards, every
length of the files, size of the pipes and of a chunk, and every choice of shards,
from `ShardAssumption`, `ImageAssumption`, `NoneAssumption`, `SerializerAssumption`
and `DataAssumption` (the units and the listed names are data):

- `LoopTyping`: `LoopSpec => []LoopTypeOK`;
- `CaptureWellFormed`: `LoopSpec => []ShardsWellFormed`;
- `CaptureReplays`: `LoopSpec => []ShardsReplay`.

`ShardsWellFormed` speaks of the end, and gathers the streams from the shards by
their numbers. The invariant says at every step that there are streams of
consecutive numbers which the state carries (`Carried`): all chunks numbered so
far are in them (`Streams`), those still to be written are in `outbox` in their
order (`Queued`), what is in a pipe is a marker of the streams with its payload
behind it, but for the one whose payload is due (`Placed`), the numbers increase
along each pipe and on into `outbox`, and none is in two pipes (`Ordered`), and
none is missing (`Complete`). The streams have the metadata and ImageEof at their
ends when `capture()` has ended and nowhere before (`Ends`). Writing a slot leaves
the streams alone and moves the head of `outbox` (`WriteMarkerCarried`,
`WritePayloadCarried`); draining a file and the end of `capture()` extend them
(`NumberedCarried`), by chunks that are of their types because no more is cut than
`fionread()` reported (`DataFragmentsAre`). With `outbox` empty the streams are
those the shards yield (`WrittenIs`).

`ShardsReplay` says what these chunks are good for: replayed, they give every file as
its client wrote it, although the drains of the files interleave. For that the
invariant says what replaying the chunks numbered *so far* makes of any image no
chunk of the class has touched (`Effect`, under `Replays`): the files begun are those
drained in part, each has its first `drained[f]` units and no more, those handed over
are those removed, and the file that receives data is the one the serializer takes
for its current (so that leaving out its Filename marker is right). `Sides` connects
this with the clients: a file is removed when its writer has closed it and it is
drained to the end. A drain goes through the images between its chunks (`Midway`,
`MidwayAll`); the end of `capture()` adds the list and ImageEof (`EndReplays`). A
fold has no recursion equation that could be cited: `ReplayTableExists` proves that
the function by which `FoldLeft` is defined exists, by induction over the size of a
set as in `DataLemmas`, and `ReplayGoesOn` that a replay which goes on passes through
what it was.

`ShardSpaceProofs` is about `ShardSpace`, for every number of shards, limit, size
of a page and length of the files, from `SpaceAssumption` (among it: there is a main
shard, and no shard is `None`):

- `RoomKept`: `Spec => []RoomInv`;
- `EstimatesHold`: `Spec => []EstimateIsLowerBound`;
- `PickHasRoom`: `Spec => []PickedHasRoom`;
- `SizesEqual`: `Spec => []SizesAgree`;
- `TypesKept`: `Spec => []TypeOK`.

Neither property is inductive. While a chunk is being written, the pipe has a
part of it and the estimate is not lowered yet: `Lag` is that difference, and
the lower bound holds with it at every step. That the shard picked has room
needs the step before: while shards are refreshed, one of those with room is
either still to be refreshed or has an estimate that says so; uploads that go on
meanwhile only make room. `RoomInv` is both, with the types they need. The
lemmas are one per step or kind of step (`BeginChunkRoom`, `RefreshRoom` and so
on).

`SizesAgree` is about the loop of `increase_capacity()` that halves the capacity and
begins anew. Its invariant (`SizesInv`) says which pipes were reached by this try and
which by the tries before, and that the capacity is a page times a power of two, so
that halving is exact (`Doubling`). At the pipe that is refused, the pages of all
pipes together would be more than the limit; as no pipe is then above the capacity
that was tried, all of them at that capacity would be too (`TooMuch`, by `SumBound`
and `SumUpdate`): that is why twice what is settled on was not permitted. The same
invariant gives that the halving stops at a page, where the pipes already are.

`ImagePatcherProofs` is about `ImagePatcher`, for every `files.img`, every list
of remaps and every set of ports, from `PatcherAssumption` (they are of their
types, and `NoFile` is not a file):

- `PatcherInv`: `Spec => []Inv`;
- `ServedAsAsked`: `Spec => []PatchedAsAsked`;
- `RefusesForCause`: `Spec => []RefusedForCause`.

`Inv` says what the loop has done after some entries: those are as they should
be, and the map holds the remaps that found no socket among them. The step that
uses up a remap needs that it is taken out once, by the first socket on its
port, and that no port it is changed to is looked up again.

`ShardBytesProofs` is about `ShardBytes`, for every list of markers and payloads of
any lengths, every room in the pipe, size of a chunk and limit of a small file, from
`BytesAssumption` (a payload is behind a marker and not empty; a small file fits
into a chunk):

- `BytesInvariant`: `Spec => []BytesInv`;
- `TypesKept`: `Spec => []TypeOK`;
- `FilesHeld`: `Spec => []FileHolds`;
- `ImplementsSlots`: `Spec => RefinesSlots`, the refinement of `SlotStream`.

`ReaderAt` says for each loop how far into the shard it is: behind the frames taken
(`Offset`, a sum) by what it has of the next one. A payload is read just where one is
due, so that no byte of a payload is taken for a length, and a reader that finds the
pipe empty and closed stands at a boundary exactly if it has read nothing of a prefix.
`ReaderShort` is where the reader of a small file of the memory store may be once it
has taken a part of a payload for the whole. `FileFits` and `FileSum` are what the
stores keep: the case of the memory store needs that the first chunk of a large file
has the room its small buffer did not use (`ReserveFits`, `CopyFits`). In the
refinement a slot is in the pipe once all its bytes are written; since offsets grow
with the frames (`OffsetGrows`), each step adds one slot, takes one, ends the shard
or is not seen.

`ServeProofs` is about `Serve` with `ServeClients`, for every script of the draining
thread, memory limit, size of a chunk, room in the pipes, set of clients and files,
and clients of both kinds, from `LimitAssumption`, `SenderAssumption` and
`ServeAssumption`. These say that a file has one class, that no payload is empty, and
that a file is inserted once, as its last call: what extract would do with an image
in which a name comes twice is not covered, and `serve_img()` would indeed mix the
two.

- `ServeInvariant`: `Spec => []Inv`;
- `TypesKept`: `Spec => []TypeOK`, with the bounds of the semaphore;
- `OneReaderOnly`: `Spec => OneReader`;
- `MemoryIsAccounted`: `Spec => []MemoryAccounted`;
- `InOrderServed`: `Spec => []ServedInOrder`.

What the serving thread knows of a file is spread over `store`, `open_pipes`,
`finished`, `filenames_of_sent_files`, `sending` and the pipes, and a file has an
entry in `store` at some times and none at others. `OneReader` is about steps: no
file in `filenames_of_sent_files` is answered ready again, and a pipe is offered
only for a file for which no client, the same or another, ever offered one. It
holds because whoever holds a pipe for a file is owed more of it or has all there is
(`HolderOwed`), and because open pipes are flushed before anybody is heard
(`Flushed`): so a request that finds chunks in `store` is for a file nobody holds
(`NobodyHolds`). `Given` adds that every file in `filenames_of_sent_files` has a
holder, and that the pipe that is waited for is new; it is inductive over `Inv`.
That nothing comes for a file
that was sent to its end rests on `EndsLast`: behind an end of file there is nothing
of that file in the channel, in `store`, in what is being sent, or to come from the
script. `Turns` is where the loop over `open_pipes` is. The invariant was checked on
the instances of `ServeCareful` and `ServeCareless` before it was proved.

The actions come down to some twenty kinds of steps by what they do to these
variables (`CoreStep`, from `Skips` to `Rests`; `DrainSteps`, `ThreadSteps` and
`ClientSteps` show that each action is one); there is one lemma per part of the
invariant, with one case per kind. `MemoryAccounted` is inductive over `Inv` as a sum
over the large files (`Accounted`): a step moves units from one summand to another
(`SumNextIn`), and those of a file that is being received or sent are counted by
`UnitsAppend` and `UnitsFirst`. For `ServedInOrder`, `Whole` says of a pipe that what
is in it and on its way is what the draining thread has forwarded of the file but for
what was read; it is kept by every step but those of another pipe for the same file,
of which `OneHolder` says that there is none. What was forwarded is the join of parts
of the calls of the script (`Drawn`), which a step makes longer in one place
(`DrawnMore`, `FlattenGrow`).

`DataLemmas` does the inductions. The theorems of the library about induction take a
predicate for a parameter, which no backend here instantiates; but induction over the
subsets of a finite set, or over numbers, can be said of a *set* of them
(`SubsetInduction`, `SetInduction`, from the well-foundedness that the library
proves). That way a recursive function is shown to have a value at every argument,
and to be the only one (`TableExists`, `TablesAgree` for the sum of a function over
a finite set; `RowExists`, `RowsAgree` for sequences that are joined), whence the
lemmas about sums (`SumUpdate`, `SumBound` and others) and joined sequences
(`FlattenNext`, `FlattenHas` and others).

Only model-checked: liveness (`DrainTerminates`, `CaptureEnds`, `MigrationCompletes`,
`DrainReturns`, `ReaderEnds`, `ServeCompletes`), which with `ENABLED` is out of the
prover's reach, and the three properties that are violated.

## Not modelled

- What reads the memory store (`drain()`, `reader()`) and `mmap_buf.rs`: pages
  that are mapped and unmapped; the store itself is modelled only up to what is
  written to it, and `main.rs` no longer reaches it. `fs_overlay.rs` beyond the
  choice between its two stores.
- The estimate of the small file shard, which is lowered and never read for a
  choice: after 2 GiB of small files its counter leaves the range of its type.
  The difference between units, by which room is estimated, and pages, by which
  a pipe is full: in `ShardSpace` a pipe may be full although its estimate is
  not used up, so a chunk may still block on it while another has room by pages.
  `PickedHasRoom` speaks of units, as the code does.
- `filter_files()` (the pattern in a request for the list), statistics, progress
  output, parsing of the command line, and the exit status (0 whatever
  happened).
- Kernel errors that a pipe or a socket in good order does not give. The end of a
  connection is one that was closed: reading from one that was reset is an error,
  which would end the serving thread as a reply to a closed one does.
- Crashes with recovery: nothing is persisted, and a restart is a new run. A
  crash of a process shows at the other ones as pipes and connections that end,
  which is modelled.

## Plan

In order; what is above the line is done.

1. `ImageStream`, `ShardPipes`, `ImageDeserializer`, `Restore` with
   `SequentialReplay`; run `RestoreImages`; invariant and refinement proved.
2. `ImageSerializer`, `CaptureLoop`, `ShardObjects`; run `CaptureFiles`; types,
   well-formedness and replay proved.
3. `Migration` with `ShardReader` and `ImageTransfer`; runs `MigrationRoomy`,
   `MigrationTight`; invariant, refinement and delivery proved.
4. `Poller`, `Capture`; runs `PollerFiles`, `PollerStaleEvent`; keys, events
   and the refinement of `CaptureLoop` proved.
5. `Semaphore`, `FileSender`, `Serve`, `ServeClients`; runs `ServeCareful`,
   `ServeCareless`, `ServeStop`; readers, memory and order proved.
6. `ShardSpace`; run `ShardRoom`; types, sizes, estimates and pick proved.
7. `SlotStream`, `ShardBytes`; run `ShardBytes`; invariant and
   refinement proved.
8. `ImagePatcher`; run `PortRemaps`; proved.

---

9. The small file shard in `ShardSpace`, once its estimate is read for something;
   the reading side of the memory store, if `main.rs` reaches it again; and clients
   that die between a request and the pipe that follows it.
