------------------------------- MODULE Residency -------------------------------
(***************************************************************************)
(* What the weight cache promises the forward pass, and nothing about how: *)
(* a module that has been claimed has its weights bound, and they stay     *)
(* bound until the last claim on it is given up.  Everything the cache     *)
(* decides beyond that (which tier, which victim, what is pinned) is a     *)
(* performance decision, as the class comment of TieredWeightCache says    *)
(* (memory/cache.py, 97-100).                                              *)
(*                                                                         *)
(* The promise has one exception, which is why it is stated with `bare`    *)
(* and `crowd`: a claim on a unit that is not resident is granted without  *)
(* its weights when as many others are in use as the window is wide.       *)
(* WeightCache is shown to implement this.                                 *)
(***************************************************************************)
EXTENDS Naturals, FiniteSets

CONSTANTS Keys,      \* the units of weights that can be streamed
          Width      \* how many of them the window is meant for

VARIABLES resident,  \* the units whose weights are bound to their module
          claims,    \* how many claims the running forward holds on each
          bare,      \* the claimed units whose weights the cache does not answer for
          crowd      \* the units in use that fill the window

vars == <<resident, claims, bare, crowd>>

Init == /\ resident = {} /\ bare = {} /\ crowd = {}
        /\ claims = [k \in Keys |-> 0]

\* Weights are bound before anybody is told they are there.
Bind(k) == /\ k \notin resident
           /\ resident' = resident \cup {k}
           /\ UNCHANGED <<claims, bare>>

\* Weights the cache still holds elsewhere are bound and claimed in one go.
Provide(k) == /\ k \notin resident
              /\ resident' = resident \cup {k}
              /\ claims' = [claims EXCEPT ![k] = @ + 1]
              /\ bare' \in {bare, bare \ {k}}

\* A unit with bound weights is claimed.
Claim(k) == /\ k \in resident
            /\ claims' = [claims EXCEPT ![k] = @ + 1]
            /\ UNCHANGED <<resident, bare>>

\* The window had no room for one more: the claim counts, and the weights are gone.
Refuse(k) == /\ k \notin resident
             /\ Cardinality(crowd \ {k}) >= Width
             /\ claims' = [claims EXCEPT ![k] = @ + 1]
             /\ bare' = bare \cup {k}
             /\ UNCHANGED resident

\* A claim is given up; the last one may take the weights with it.
Unclaim(k) == /\ claims[k] > 0
              /\ claims' = [claims EXCEPT ![k] = @ - 1]
              /\ bare' = IF claims'[k] = 0 THEN bare \ {k} ELSE bare
              /\ \/ UNCHANGED resident
                 \/ (claims'[k] = 0 \/ k \in bare) /\ resident' = resident \ {k}

\* The forward pass died: every claim is gone, no weights moved.
Abandon == /\ claims' = [k \in Keys |-> 0] /\ bare' = {}
           /\ UNCHANGED resident

\* Units nobody relies on may lose their weights at any moment.
Unbind(S) == /\ \A k \in S : claims[k] = 0 \/ k \in bare
             /\ resident' = resident \ S
             /\ UNCHANGED <<claims, bare>>

\* Who is in use changes with every step; in use is only what is resident.
Next == /\ crowd' \subseteq resident'
        /\ \/ \E k \in Keys : Bind(k) \/ Provide(k) \/ Claim(k) \/ Refuse(k) \/ Unclaim(k)
           \/ Abandon
           \/ \E S \in SUBSET resident : Unbind(S)

Spec == Init /\ [][Next]_vars

(***************************************************************************)
(* The hard invariant of the cache, as the forward sees it: a claimed unit *)
(* has bound weights, unless it was claimed into a window that was full of *)
(* units in use.                                                           *)
(***************************************************************************)
ClaimedIsResident == \A k \in Keys : claims[k] > 0 => k \in resident \cup bare
================================================================================
