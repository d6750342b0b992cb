---------------------------- MODULE MCOutputFlow ----------------------------
(* Small instances of OutputFlow.  The byte limits keep the order of the    *)
(* real ones, normal batch < flood batch < high watermark < catastrophic    *)
(* backlog with the low watermark far below the high one, and a single read *)
(* may cross a whole batch.                                                 *)
EXTENDS OutputFlow
=============================================================================
