----------------------------- MODULE MCDeltaUpload -----------------------------
(* DeltaUpload on small instances. Hashes, digests and scans are told apart   *)
(* only by equality, so the safety runs use them as symmetry sets.            *)
EXTENDS DeltaUpload, TLC

Symmetry == Permutations(Sessions) \cup Permutations(Digests) \cup Permutations(Scans)
=============================================================================
