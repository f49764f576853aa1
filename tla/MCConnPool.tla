----------------------------- MODULE MCConnPool -----------------------------
(* Small instances of ConnPool for TLC. *)
EXTENDS ConnPool, TLC

Symm == Permutations(Clients) \cup Permutations(Conns) \cup Permutations(Gens)
=============================================================================
