-------------------------- MODULE MCCommandHistory --------------------------
(* CommandHistory for TLC.  The commands are interchangeable.               *)
EXTENDS CommandHistory, TLC

Symmetry == Permutations(Command)
=============================================================================
