------------------------------- MODULE MCConsent -------------------------------
(***************************************************************************)
(* Small instances of Consent: two agents with recent sessions, and one    *)
(* account or two that alternate.                                          *)
(***************************************************************************)
EXTENDS Consent, TLC

Symmetry == Permutations(Accounts) \cup Permutations(Scans) \cup Permutations(Agents)
=============================================================================
