-------------------------------- MODULE Session --------------------------------
(***************************************************************************)
(* src/pvpn_tui/proton_api/auth.py and src/pvpn_tui/screens/login.py: the  *)
(* one Proton session of the program, and the form that signs in.          *)
(*                                                                         *)
(* The form runs one worker at a time: a new one cancels the one before it *)
(* (exclusive=True).  What the API answers is external.                    *)
(***************************************************************************)
VARIABLES
  session,       \* _session: "none", "out" (not signed in), "half" (the second
                 \*   factor is missing) or "in"
  screen,        \* the screen at the bottom of the stack
  worker,        \* the form's worker: created, or waiting for the API
  twofaPending,  \* _twofa_pending
  formDisabled   \* _set_form_disabled

formVars    == <<worker, twofaPending, formDisabled>>
sessionVars == <<session, screen, formVars>>

Sessions == {"none", "out", "half", "in"}
Screens  == {"none", "login", "main"}
Created  == {"login_new", "twofa_new"}
Calling  == {"login_call", "twofa_call"}

SessionTypeOK ==
  /\ session \in Sessions
  /\ screen \in Screens
  /\ worker \in {"none"} \union Created \union Calling
  /\ twofaPending \in BOOLEAN
  /\ formDisabled \in BOOLEAN

SessionInit ==
  /\ session \in {"none", "in"}
  /\ screen = "none"
  /\ worker = "none"
  /\ twofaPending = FALSE
  /\ formDisabled = FALSE

-----------------------------------------------------------------------------
(* AuthService.                                                            *)

SignedIn == session = "in"

\* wg_credentials is None without a session: nothing may be dialled with it.
HasCredentials == session # "none"

\* ensure_session_data raises, or meets a session that has gone meanwhile.
HasServers == session # "none"

\* Mutant of Restored: what the keyring holds is taken as it is.
Restored_Raw == IF SignedIn THEN "in" ELSE "logged_out"

\* Only a session that is still signed in survives the program, in the keyring.
Restored == IF SignedIn THEN "in" ELSE "none"

\* The next process restores its session from the keyring.
NewSession ==
  /\ session' = Restored
  /\ screen' = "none"
  /\ worker' = "none"
  /\ twofaPending' = FALSE
  /\ formDisabled' = FALSE

-----------------------------------------------------------------------------
(* LoginScreen.                                                            *)

\* Mutant of Submit: the form asks for the password again, and submits that.
Submit_PasswordAgain ==
  /\ screen = "login"
  /\ ~formDisabled
  /\ worker' = "login_new"
  /\ UNCHANGED <<session, screen, twofaPending, formDisabled>>

\* _submit with the fields filled in; with an empty field nothing happens.
Submit ==
  /\ screen = "login"
  /\ ~formDisabled
  /\ worker' = IF twofaPending THEN "twofa_new" ELSE "login_new"
  /\ UNCHANGED <<session, screen, twofaPending, formDisabled>>

\* The worker's first step: the form is disabled.  login() replaces the session.
CallApi ==
  /\ worker \in Created
  /\ formDisabled' = TRUE
  /\ \/ worker = "login_new" /\ worker' = "login_call" /\ session' = "out"
     \/ worker = "twofa_new" /\ worker' = "twofa_call" /\ UNCHANGED session
  /\ UNCHANGED <<screen, twofaPending>>

\* Mutant of Refused: an exception leaves the form as it is.
Refused_StaysDisabled ==
  /\ worker \in Calling
  /\ session' \in {session, "out"}
  /\ worker' = "none"
  /\ UNCHANGED <<screen, twofaPending, formDisabled>>

\* The API raises or refuses.  It may have dropped the pending second factor.
Refused ==
  /\ worker \in Calling
  /\ session' \in {session, "out"}
  /\ worker' = "none"
  /\ formDisabled' = FALSE
  /\ UNCHANGED <<screen, twofaPending>>

TwofaRequired ==
  /\ worker = "login_call"
  /\ session' = "half"
  /\ twofaPending' = TRUE
  /\ formDisabled' = FALSE
  /\ worker' = "none"
  /\ UNCHANGED screen

\* Mutant of SignIn: success is enough, even if a second factor is missing.
SignIn_SuccessIsEnough ==
  /\ \/ worker = "login_call" /\ session' \in {"half", "in"}
     \/ worker = "twofa_call" /\ session = "half" /\ session' = "in"
  /\ screen' = "main"
  /\ worker' = "none"
  /\ UNCHANGED <<twofaPending, formDisabled>>

\* Success: the form is dismissed, and _on_login_done shows the main screen.
SignIn ==
  /\ \/ worker = "login_call"
     \/ worker = "twofa_call" /\ session = "half"
  /\ session' = "in"
  /\ screen' = "main"
  /\ worker' = "none"
  /\ UNCHANGED <<twofaPending, formDisabled>>
=============================================================================
