------------------------- MODULE MCVaultRepository -------------------------
(* Instances of VaultRepository for TLC; documents, ids, buffers and keys are *)
(* interchangeable.                                                           *)
EXTENDS VaultRepository, TLC

Symmetry == Permutations(Doc) \cup Permutations(Id)
                \cup Permutations(Buf) \cup Permutations(Key)
=============================================================================
