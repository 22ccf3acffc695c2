------------------------------ MODULE MCP7Shadow ------------------------------
(* A campaign of one day: a decision per product, three hours, one report  *)
(* before the last.                                                        *)
EXTENDS P7Shadow

MCInterim == {4}
=============================================================================
