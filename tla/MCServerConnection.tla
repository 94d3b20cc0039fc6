------------------------- MODULE MCServerConnection -------------------------
(* ServerConnection with a few servers; which of them it is makes no        *)
(* difference.                                                              *)
EXTENDS ServerConnection, TLC

CONSTANTS a, b
=============================================================================
