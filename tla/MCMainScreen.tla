------------------------------ MODULE MCMainScreen ------------------------------
(* MainScreen with two servers, two ports, two pushes and a quick connect.     *)
EXTENDS MainScreen
=============================================================================
