------------------------------ MODULE MCFakeIP ------------------------------
(* Small instances of FakeIP for TLC. *)
EXTENDS FakeIP, TLC

Symm == Permutations(Domains) \cup Permutations(Creators)
=============================================================================
