------------------------------ MODULE MCWorker ------------------------------
(* Instances of Worker for TLC. *)
EXTENDS Worker, TLC

CONSTANTS c1, c2, w1, w2

OwnIds == c1 :> w1 @@ c2 :> w2
=============================================================================
