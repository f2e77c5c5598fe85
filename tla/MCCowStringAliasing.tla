------------------------- MODULE MCCowStringAliasing -------------------------
(* CowStringAliasing on a small instance: see CowStringAliasing.cfg.         *)
EXTENDS CowStringAliasing, TLC

CONSTANT c1

Text == <<c1>>

Symmetry == Permutations(Handle) \cup Permutations(Address)
=============================================================================
