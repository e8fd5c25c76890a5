------------------------------- MODULE Loops -------------------------------
(***************************************************************************)
(* A loop over data: its state after a number of turns, and the first      *)
(* place where something holds.                                            *)
(***************************************************************************)
EXTENDS Integers, FiniteSetsExt

\* The state of a loop after its first n turns.
Iterated(Turn(_, _), start, n) ==
    LET after[k \in 0..n] == IF k = 0 THEN start ELSE Turn(after[k - 1], k)
    IN after[n]

\* The least of some positions, 0 if there is none.
First(places) == IF places = {} THEN 0 ELSE Min(places)
=============================================================================
