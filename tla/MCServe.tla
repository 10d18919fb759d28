-------------------------------- MODULE MCServe --------------------------------
(***************************************************************************)
(* Small images for ServeClients: a small file, two large ones, one of     *)
(* them in two chunks, and one that is overlaid, interleaved with another. *)
(***************************************************************************)
EXTENDS ServeClients, TLC

CONSTANTS a, e, K, L

ClientSymmetry == Permutations(Client)

MCUnit == {a, e, K, L} \X (1..3)

MCSmall == [f \in {a} |-> <<<<a, 1>>>>]

MCNoSmall == [f \in {} |-> << >>]

OneLarge == <<Call("create", L, << >>), Call("data", L, <<<<L, 1>>, <<L, 2>>, <<L, 3>>>>),
              Call("insert", L, << >>)>>

OneSmaller == <<Call("create", L, << >>), Call("data", L, <<<<L, 1>>, <<L, 2>>>>),
                Call("insert", L, << >>)>>

TwoLarge == <<Call("create", K, << >>), Call("data", K, <<<<K, 1>>, <<K, 2>>>>),
              Call("create", e, << >>), Call("insert", K, << >>),
              Call("data", e, <<<<e, 1>>>>), Call("insert", e, << >>),
              Call("create", L, << >>), Call("data", L, <<<<L, 1>>>>),
              Call("insert", L, << >>)>>
=============================================================================
