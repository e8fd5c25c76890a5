---------------------------- MODULE MCTaskStore ----------------------------
(* TaskStore with two threads in one service and one in a second one.      *)
EXTENDS TaskStore, TLC
CONSTANTS P1, P2, T1, T2, T3
MCHome == T1 :> P1 @@ T2 :> P1 @@ T3 :> P2
=============================================================================
