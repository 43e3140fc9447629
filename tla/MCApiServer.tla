----------------------------- MODULE MCApiServer -----------------------------
(* One plugin that declares two kinds and offers one, and a later version  *)
(* whose code offers both while its manifest declares one: it fails to     *)
(* register, unless the record still has the manifest of the first.        *)
EXTENDS ApiServer

CONSTANTS c1, c2

MCOffers == [c \in Codes |-> IF c = c1 THEN {"checks"} ELSE {"checks", "reports"}]
MCVersions == {[provides |-> {}, code |-> None],
               [provides |-> {"checks", "reports"}, code |-> c1],
               [provides |-> {"checks"}, code |-> c2]}
=============================================================================
