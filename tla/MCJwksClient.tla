---------------------------- MODULE MCJwksClient ----------------------------
(***************************************************************************)
(* A small instance of JwksClient: the provider adds a key, and later      *)
(* withdraws the one it had.                                               *)
(***************************************************************************)
EXTENDS JwksClient, TLC

CONSTANTS k1, k2

MCPublished == <<{k1}, {k1, k2}, {k2}>>

RequestSymmetry == Permutations(Requests)

=============================================================================
