------------------------- MODULE MCConcurrencyGate -------------------------
(* Instances of ConcurrencyGate for TLC. *)
EXTENDS ConcurrencyGate, TLC

CONSTANTS p1, p2, p3

(* p1 and p2 are two starts of the same worker, p3 is another worker. *)
TwoNames == p1 :> "a" @@ p2 :> "a" @@ p3 :> "b"
=============================================================================
