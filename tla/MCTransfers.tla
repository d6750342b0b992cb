----------------------------- MODULE MCTransfers -----------------------------
(* The transfer queue for TLC: transfers are interchangeable.               *)
EXTENDS Transfers, TLC

Symmetry == Permutations(Ids)
=============================================================================
