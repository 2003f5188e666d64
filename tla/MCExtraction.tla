----------------------------- MODULE MCExtraction ------------------------------
(* Extraction on a small instance: the second session started within 24 hours *)
(* after the first, which comes to make a plan artifact. Scans are told apart  *)
(* only by equality.                                                           *)
EXTENDS Extraction, TLC

TwoInARow == {<<1, 2>>}
ThreeFiles == {<<1, "main">>, <<2, "main">>, <<2, "subs">>}
Symmetry == Permutations(Scans)
=============================================================================
