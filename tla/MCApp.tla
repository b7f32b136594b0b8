--------------------------------- MODULE MCApp ---------------------------------
(* Instances of App for TLC.                                               *)
EXTENDS App, TLC

\* Servers, and logouts, are only compared with one another.
AppSymmetry == Permutations(Server) \union Permutations(Logout)
=============================================================================
