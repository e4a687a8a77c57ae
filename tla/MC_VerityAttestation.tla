------------------------- MODULE MC_VerityAttestation -------------------------
(* Small instances of VerityAttestation for TLC.                           *)
EXTENDS VerityAttestation, TLC

\* Runs and keys are interchangeable: sound for the safety runs.
Symmetry == Permutations(Script) \cup Permutations(SshKey)

==============================================================================
