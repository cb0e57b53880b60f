--------------------------- MODULE MCConnections ---------------------------
(* Two windows and a few transfers, for TLC. *)
EXTENDS Connections, TLC

CONSTANTS w1, w2, j1, j2, s1, s2, s3, s4, h1, h2

\* Descriptors are interchangeable.
SymmetricSocks == Permutations(Socks)
=============================================================================
