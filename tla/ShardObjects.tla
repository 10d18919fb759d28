------------------------------ MODULE ShardObjects ------------------------------
(***************************************************************************)
(* What capture leaves in the shards and extract relies on: two streams of *)
(* numbered chunks, each spread over the shards of its class.  Checked of  *)
(* capture in CaptureLoop, assumed of what is stored in Restore.           *)
(***************************************************************************)
EXTENDS ShardPipes

\* A class is written as chunks numbered from 0; the small files end with the
\* three chunks of the metadata, the large ones with ImageEof.
EndsWithMetadata(chunks) ==
  LET n == Len(chunks)
  IN  /\ n >= 3
      /\ \A k \in 1..n : chunks[k].marker.file = MetadataFile <=> k = n - 2
      /\ chunks[n-1].marker.body = "FileData"
      /\ chunks[n].marker.body = "FileEof"

EndsWithImageEof(chunks) ==
  LET n == Len(chunks)
  IN  /\ n >= 1
      /\ \A k \in 1..n : chunks[k].marker.body = "ImageEof" <=> k = n

WellFormed(stream) ==
  /\ stream \in [Class -> Seq(Chunk)]
  /\ \A c \in Class : \A k \in 1..Len(stream[c]) :
       /\ stream[c][k].marker.seq = k - 1
       /\ stream[c][k].marker.body = "Filename" <=> stream[c][k].marker.file # None
       /\ c = "main" => stream[c][k].marker.file # MetadataFile
       /\ c = "small" => stream[c][k].marker.body # "ImageEof"
  /\ EndsWithMetadata(stream["small"])
  /\ EndsWithImageEof(stream["main"])

\* An object spreads the chunks of stream over the shards: every marker in a
\* shard is that of a chunk of its class, with the payload behind it; within a
\* shard the numbers increase; and every chunk is in one shard.
Framed(stream, obj, class, s) ==
  \A i \in 1..Len(obj[s]) :
    /\ obj[s][i].kind = "marker" =>
         LET k == obj[s][i].seq + 1
         IN  /\ k \in 1..Len(stream[class])
             /\ obj[s][i] = stream[class][k].marker
             /\ HasPayload(obj[s][i]) =>
                  /\ i + 1 \in 1..Len(obj[s])
                  /\ obj[s][i+1] = MakePayload(stream[class][k].data)
    /\ obj[s][i].kind = "payload" =>
         /\ i - 1 \in 1..Len(obj[s])
         /\ obj[s][i-1].kind = "marker"
         /\ HasPayload(obj[s][i-1])

Increasing(obj, s) ==
  \A i, j \in 1..Len(obj[s]) :
    (i < j /\ obj[s][i].kind = "marker" /\ obj[s][j].kind = "marker")
      => obj[s][i].seq < obj[s][j].seq

Covers(stream, obj, class) ==
  \A k \in 1..Len(stream[class]) :
    \E s \in ShardsOf(class) : \E i \in 1..Len(obj[s]) :
      obj[s][i] = stream[class][k].marker

NoTwice(obj) ==
  \A s, t \in MainShard : s # t =>
    \A i \in 1..Len(obj[s]), j \in 1..Len(obj[t]) :
      (obj[s][i].kind = "marker" /\ obj[t][j].kind = "marker")
        => obj[s][i].seq # obj[t][j].seq

Spreads(stream, obj) ==
  /\ obj \in [Shard -> Seq(Slot)]
  /\ \A c \in Class :
       /\ \A s \in ShardsOf(c) : Framed(stream, obj, c, s) /\ Increasing(obj, s)
       /\ Covers(stream, obj, c)
  /\ NoTwice(obj)
=============================================================================
