------------------------------ MODULE MCGeneration ------------------------------
(***************************************************************************)
(* Small values of the constants of Generation.                            *)
(***************************************************************************)
EXTENDS Generation

CONSTANTS a, b      \* two tokens

\* A conversation, its next turn, and a turn whose tail the client has rewritten
Turns == {<<a, b, a>>, <<a, b, a, a, b>>, <<a, b, b>>}
OneTurn == {<<a, b, a, a>>}
================================================================================
