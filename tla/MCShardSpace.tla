------------------------------ MODULE MCShardSpace ------------------------------
(***************************************************************************)
(* Small instances of ShardSpace: two main shards of four pages, where the *)
(* limit does not permit more; of two pages, where it permits six in all   *)
(* or no growth; of four pages of one unit; and a single one with so many  *)
(* that a quarter of it is more than a page.                               *)
(***************************************************************************)
EXTENDS ShardSpace

CONSTANTS s0, m1, m2

Host(page, most, pipes) == [PAGE_SIZE |-> page, limit |-> most, shard_pipes |-> pipes]

OneMain == <<s0, m1>>
TwoMain == <<s0, m1, m2>>

MCHosts == {Host(2, 16, TwoMain), Host(2, 6, TwoMain), Host(2, 1, TwoMain),
            Host(1, 20, TwoMain), Host(1, 32, OneMain)}
=============================================================================
