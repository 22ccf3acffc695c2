------------------------------ MODULE MCPortfolio ------------------------------
(* Two products of one unit each under a cap of one unit: an alarm and a    *)
(* request may be in flight together.                                       *)
EXTENDS Portfolio
================================================================================
