------------------------------ MODULE MCPlacement ------------------------------
(***************************************************************************)
(* Small values of the constants of Placement: a dense layer, a shared     *)
(* expert and two routed experts on different layers, on a device of       *)
(* twelve units of memory.                                                 *)
(***************************************************************************)
EXTENDS Placement

CONSTANTS attention, shared, big, small, l1, l2

AllUnits == {attention, shared, big, small}
Classes == attention :> Always @@ shared :> Shared @@ big :> Routed @@ small :> Routed
Sizes == attention :> 2 @@ shared :> 4 @@ big :> 2 @@ small :> 1
Names == attention :> 0 @@ shared :> 1 @@ big :> 2 @@ small :> 3
Routes == l1 :> {big} @@ l2 :> {small}
Quarter == <<1, 4>>
Third == <<1, 3>>
================================================================================
