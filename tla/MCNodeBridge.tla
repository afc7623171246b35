---------------------------- MODULE MCNodeBridge ----------------------------
(* Small instances of NodeBridge.                                          *)
EXTENDS NodeBridge

CONSTANTS u1, u2

=============================================================================
