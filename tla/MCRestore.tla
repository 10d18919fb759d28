------------------------------- MODULE MCRestore -------------------------------
(***************************************************************************)
(* Small images for Restore.  Each scenario gives the chunks of the small  *)
(* and of the large files as capture numbers them; Spread has all the ways *)
(* of writing the large ones to the main shards, chunk by chunk.           *)
(***************************************************************************)
EXTENDS Restore, SequencesExt

CONSTANTS a, K, L,   \* a small file, two large ones
          m1, m2, m3, s0

MCData == {a, K, L} \cup ({a, K, L} \X (1..3))

Named(f)      == [body |-> "Filename", file |-> f, data |-> << >>]
Bytes(units)  == [body |-> "FileData", file |-> None, data |-> units]
FileEnd       == [body |-> "FileEof",  file |-> None, data |-> << >>]
ImageEnd      == [body |-> "ImageEof", file |-> None, data |-> << >>]

Numbered(list) ==
  [k \in 1..Len(list) |->
     [marker |-> MakeMarker(k - 1, list[k].body, list[k].file), data |-> list[k].data]]

Metadata(files) == <<Named(MetadataFile), Bytes(files), FileEnd>>

\* Two large files whose chunks interleave.
TwoFiles ==
  [small |-> Numbered(Metadata(<<L, K>>)),
   main  |-> Numbered(<<Named(K), Bytes(<< <<K, 1>> >>), Named(L), Bytes(<< <<L, 1>> >>),
                        FileEnd, Named(K), FileEnd, ImageEnd>>)]

\* A small file, and a large one of one chunk.
SmallAndLarge ==
  [small |-> Numbered(<<Named(a), Bytes(<< <<a, 1>> >>), FileEnd>> \o Metadata(<<a, L>>)),
   main  |-> Numbered(<<Named(L), Bytes(<< <<L, 1>> >>), FileEnd, ImageEnd>>)]

\* No large file at all.
SmallOnly ==
  [small |-> Numbered(<<Named(a), Bytes(<< <<a, 1>> >>), FileEnd>> \o Metadata(<<a>>)),
   main  |-> Numbered(<<ImageEnd>>)]

\* The same large file sent twice in a row: capture names it only once.
SentTwice ==
  [small |-> Numbered(Metadata(<<L, L>>)),
   main  |-> Numbered(<<Named(L), Bytes(<< <<L, 1>> >>), FileEnd,
                        Bytes(<< <<L, 1>> >>), FileEnd, ImageEnd>>)]

\* The same of a small file.
SmallSentTwice ==
  [small |-> Numbered(<<Named(a), FileEnd, Bytes(<< <<a, 1>> >>), FileEnd>>
                        \o Metadata(<<a, a>>)),
   main  |-> Numbered(<<ImageEnd>>)]

SlotsOfAll(chunks) == FlattenSeq([k \in 1..Len(chunks) |-> SlotsOf(chunks[k])])

\* A stream with its objects over some shards; its first chunk goes to m1, for
\* shards are alike.
Spread(chunks, over) ==
  LET n == Len(chunks["main"])
      Homes == {home \in [1..n -> over] : home[1] = m1}
      Of(home, s) == SlotsOfAll(SelectSeq(chunks["main"],
                                          LAMBDA ch : home[ch.marker.seq + 1] = s))
  IN  {[stream |-> chunks,
        object |-> [s \in Shard |-> IF s = SmallShard THEN SlotsOfAll(chunks["small"])
                                                      ELSE Of(home, s)]] : home \in Homes}

Delivered(images, deliveries) ==
  {[stream |-> image.stream, object |-> image.object, delivery |-> d] :
     image \in images, d \in deliveries}

\* Images that arrive whole, from one program or from one for each shard.
WholeImages ==
  Delivered(Spread(TwoFiles, {m1, m2}) \cup Spread(SentTwice, {m1, m2}) \cup
              Spread(SmallSentTwice, {m1}) \cup Spread(SmallAndLarge, {m1, m2, m3}),
            [coupled : BOOLEAN, fragile : {{}}])

\* Images of which any shard in use may be cut, anywhere.
CutImages ==
  Delivered(Spread(SmallAndLarge, {m1, m2}) \cup Spread(SmallOnly, {m1}),
            [coupled : {FALSE}, fragile : {{s0, m1, m2}}])

MCImages == WholeImages \cup CutImages
=============================================================================
