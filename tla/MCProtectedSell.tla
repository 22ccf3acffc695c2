---------------------------- MODULE MCProtectedSell ----------------------------
(* Small instance of ProtectedSell: two flattening attempts and one retry of *)
(* the other kinds, one eviction and one refused write.                      *)
EXTENDS ProtectedSell

MCKillLimits == [k \in KillKinds |-> IF k = "flatten" THEN 2 ELSE 1]
=============================================================================
