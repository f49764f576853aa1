---------------------------- MODULE MCMultiplexer ----------------------------
(* Small instances of Multiplexer for TLC. *)
EXTENDS Multiplexer, TLC

MCClients == Queries \X {1, 2}
Symm == Permutations(Conns) \cup Permutations(Gens) \cup Permutations(Queries)
=============================================================================
