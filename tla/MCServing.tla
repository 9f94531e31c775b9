------------------------------- MODULE MCServing -------------------------------
(***************************************************************************)
(* Small values of the constants of Serving: a job whose text is any, by   *)
(* itself, or jobs that say one word and take their turns.                 *)
(***************************************************************************)
EXTENDS Serving

CONSTANTS talker, first, second, x, y, p, q, pq

AloneOrInTurn == {{talker}, {first, second}}
Longest == [j \in Jobs |-> IF j = talker THEN 4 ELSE 1]
AnyText == [j \in Jobs |-> IF j = talker THEN {x, y, p, q} ELSE {x}]

\* A stop sequence of two characters, and one that is a codepoint
TwoStops == {<<x, y>>, <<pq>>}
================================================================================
