---------------------------- MODULE MCCajaSegura ----------------------------
(* Instances of CajaSegura for TLC; files, buffers and keys are              *)
(* interchangeable.                                                          *)
EXTENDS CajaSegura, TLC

Symmetry == Permutations(Id) \cup Permutations(Buf) \cup Permutations(Key)
=============================================================================
