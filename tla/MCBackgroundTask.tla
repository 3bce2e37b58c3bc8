---------------------------- MODULE MCBackgroundTask ----------------------------
(* Small instances of the background tasks of a reply. *)
EXTENDS BackgroundTask, TLC
=============================================================================
