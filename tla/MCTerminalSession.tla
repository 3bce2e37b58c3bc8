--------------------------- MODULE MCTerminalSession ---------------------------
(* Small instances of one terminal session and its workers. *)
EXTENDS TerminalSession, TLC
=============================================================================
