----------------------------- MODULE MCConnection -----------------------------
(* Instances of Connection for TLC.                                        *)
EXTENDS Connection, TLC

\* Servers are only compared with one another.
Symmetry == Permutations(Server)
=============================================================================
