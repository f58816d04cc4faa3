---------------------------- MODULE MCMovements ----------------------------
(* Small instances of Movements for TLC. *)
EXTENDS Movements, TLC

\* Keys are interchangeable: they are only compared for equality.
KeySymmetry == Permutations(Keys)

=============================================================================
