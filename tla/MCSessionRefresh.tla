--------------------------- MODULE MCSessionRefresh ---------------------------
(* Instances of SessionRefresh for TLC.                                      *)
EXTENDS SessionRefresh, TLC

CONSTANTS a, b, u1, u2, c1, c2, r1, r2
=============================================================================
