-------------------------- MODULE MCTerminalOutput --------------------------
(***************************************************************************)
(* Output events for TLC: one byte that may be the first half of a begin   *)
(* sequence (and is plain text if the rest does not follow), the rest of   *)
(* it with stateful content, the frame's end and the begin of the next,    *)
(* an empty frame, and a frame that repaints the screen.                   *)
(***************************************************************************)
EXTENDS TerminalOutput

MCChunks ==
    {<<"cut">>, <<"tail_begin", "stateful", "end", "begin">>,
     <<"begin", "end">>, <<"begin", "reset", "end">>}
=============================================================================
