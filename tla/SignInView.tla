------------------------------- MODULE SignInView -------------------------------
(***************************************************************************)
(* What the login screen and the session promise together: who uses the    *)
(* program (src/pvpn_tui/proton_api/auth.py), and how he comes to the main *)
(* screen (src/pvpn_tui/screens/login.py), however workers are replaced,   *)
(* the API answers, logouts overlap and the program restarts.              *)
(*                                                                         *)
(*   - once the API has asked for a second factor, nobody gets in without; *)
(*   - only a logout, on the main screen, signs a user out;                *)
(*   - a user stays signed in over restarts, half a login does not.        *)
(***************************************************************************)
VARIABLES
  who,     \* "nobody", "half" (the second factor is missing) or "user"
  asked,   \* has the API asked for a second factor since the program started?
  home     \* is the main screen there?

signInView == <<who, asked, home>>

SignInViewInit ==
  /\ who \in {"nobody", "user"}
  /\ asked = FALSE
  /\ home = FALSE

\* The session was restored.
Welcome ==
  /\ who = "user" /\ ~home
  /\ home' = TRUE
  /\ UNCHANGED <<who, asked>>

\* The password was right, and is not enough.
AskSecondFactor ==
  /\ who = "nobody" /\ ~asked /\ ~home
  /\ who' = "half"
  /\ asked' = TRUE
  /\ UNCHANGED home

\* The API drops the pending second factor.
DropSecondFactor ==
  /\ who = "half"
  /\ who' = "nobody"
  /\ UNCHANGED <<asked, home>>

LetIn ==
  /\ ~home
  /\ who = IF asked THEN "half" ELSE "nobody"
  /\ who' = "user"
  /\ home' = TRUE
  /\ UNCHANGED asked

SignOut ==
  /\ who = "user" /\ home
  /\ who' = "nobody"
  /\ UNCHANGED <<asked, home>>

\* The program ends, or dies, and starts again.
Restart ==
  /\ who' = IF who = "user" THEN "user" ELSE "nobody"
  /\ asked' = FALSE
  /\ home' = FALSE

SignInViewNext ==
  \/ Welcome \/ AskSecondFactor \/ DropSecondFactor
  \/ LetIn \/ SignOut \/ Restart

SignInViewSpec == SignInViewInit /\ [][SignInViewNext]_signInView
=============================================================================
