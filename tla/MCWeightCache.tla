----------------------------- MODULE MCWeightCache -----------------------------
(* Instances of WeightCache for TLC: three dense units and two experts at most, of unequal size. *)
EXTENDS WeightCache, TLC

CONSTANTS d1, d2, d3, e1, e2

SizeOf == (d1 :> 1 @@ d2 :> 2 @@ d3 :> 1 @@ e1 :> 1 @@ e2 :> 2)
MCSize == [k \in Keys |-> SizeOf[k]]
ExpertPlans == {{}, {d1}, {e1}}
DensePlans == {{}, {d1}, {d1, d2}}
================================================================================
