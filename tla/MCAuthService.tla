--------------------------- MODULE MCAuthService ---------------------------
(* Instances of AuthService for TLC; calls, buffers and keys are              *)
(* interchangeable.                                                           *)
EXTENDS AuthService, TLC

Symmetry == Permutations(Call) \cup Permutations(Buf) \cup Permutations(Key)
=============================================================================
