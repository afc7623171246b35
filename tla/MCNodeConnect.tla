--------------------------- MODULE MCNodeConnect ---------------------------
(* Small instances of NodeConnect.                                         *)
EXTENDS NodeConnect

NoBadSettings == {}
OneBadSettings == {1}
=============================================================================
