------------------------------ MODULE MCShardBytes ------------------------------
(***************************************************************************)
(* Small shards for ShardBytes.                                            *)
(***************************************************************************)
EXTENDS ShardBytes

M(n) == [kind |-> "marker", len |-> n]
P(n) == [kind |-> "payload", len |-> n]

\* A file in one payload, in two, in many small ones, and no payload at all; an
\* empty message is one without a body.
MCFrames ==
  {<<M(1), M(2), P(5), M(1)>>, <<M(1), P(1), M(1), P(4)>>,
   <<M(1), P(1), M(1), P(1), M(1), P(1), M(1), P(3), M(1)>>, <<M(0), M(1), M(2)>>}
=============================================================================
