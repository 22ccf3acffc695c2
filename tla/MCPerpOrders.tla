----------------------------- MODULE MCPerpOrders -----------------------------
(* Small instance of PerpOrders: the operators of the specification, with   *)
(* two orders, so that one can starve or race another.                      *)
EXTENDS PerpOrders
=============================================================================
