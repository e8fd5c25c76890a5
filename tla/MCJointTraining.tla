-------------------------- MODULE MCJointTraining --------------------------
(* Two clips and four epochs: the order turns at every odd draw. *)
EXTENDS JointTraining, TLC
MCShuffle(order, draw) == IF draw % 2 = 1 THEN order ELSE [i \in 1..Clips |-> order[Clips + 1 - i]]
Symm == Permutations(Procs) \cup Permutations(Recipes)
=============================================================================
