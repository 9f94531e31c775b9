------------------------------- MODULE MCShards -------------------------------
(***************************************************************************)
(* Shards with a forward thread, a prefetch worker and one pool thread on  *)
(* two shards, the header of one of which is not understood.               *)
(***************************************************************************)
EXTENDS Shards, TLC

CONSTANTS forward, prefetch, pool, a, b

OneModel == (forward :> "model") @@ (prefetch :> "model")
TwoModels == (forward :> "one") @@ (prefetch :> "two")
\* Two callers of one model are alike.
Alike == Permutations({forward, prefetch})
MCSizes == (a :> <<4, 1, 1>>) @@ (b :> <<1, 3>>)
\* Every selection of up to four rows of a tensor of four, in any order.
ASSUME RowsCheck == \A rows \in BoundedSeq(0 .. 3, 4) : RowsInOrder(rows)

Setting(kind, count) == [kind |-> kind, count |-> count]
MCSettings == {Setting("auto", 0), Setting("direct", 0), Setting("count", 2)}
Host(charges, little, headroom) ==
    [charges |-> charges, little |-> little, headroom |-> headroom, footprint |-> 6, largest |-> 3,
     floor |-> 2, ceiling |-> 4]
MCMachines == {Host(FALSE, TRUE, 0), Host(TRUE, TRUE, 4), Host(TRUE, TRUE, 12), Host(TRUE, FALSE, 4)}
\* Without those that hold every file.
SmallMachines == {Host(TRUE, TRUE, 4), Host(TRUE, FALSE, 4)}
===============================================================================
