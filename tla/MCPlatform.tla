----------------------------- MODULE MCPlatform -----------------------------
(* Small instances of Platform for TLC: three invoices are a full chunk and  *)
(* an incomplete one.                                                        *)
EXTENDS Platform

Positions == 1..3
=============================================================================
