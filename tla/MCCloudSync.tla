---------------------------- MODULE MCCloudSync ----------------------------
(* CloudSync for TLC.  The devices are interchangeable: symmetry is used for *)
(* the runs that check safety only.                                          *)
EXTENDS CloudSync, TLC

Symmetry == Permutations(Device)
=============================================================================
