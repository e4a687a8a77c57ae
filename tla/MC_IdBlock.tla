----------------------------- MODULE MC_IdBlock -----------------------------
(* Small instances of IdBlock for TLC.                                     *)
EXTENDS IdBlock, TLC

Symmetry == Permutations(Gen) \cup Permutations(Digest) \cup Permutations(Ids)

==============================================================================
