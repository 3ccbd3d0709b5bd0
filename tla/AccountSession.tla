--------------------------- MODULE AccountSession ---------------------------
(***************************************************************************)
(* What the session promises its screens: the snapshot they render by.     *)
(* An account is shown only after a period of "loading" in which nobody    *)
(* is; it never turns into another account; loading always ends.           *)
(***************************************************************************)
CONSTANTS Users, None

VARIABLES status, user

vars == <<status, user>>

Init == status = "loading" /\ user = None

(* login() begins, or the process starts again.                            *)
SignIn == status' = "loading" /\ user' = None

Establish(u) ==
  /\ status = "loading"
  /\ status' = "authenticated"
  /\ user' = u

(* forget(), whatever the reason.                                          *)
Discard == status' = "signedOut" /\ user' = None

Settle == status = "loading" /\ (Discard \/ \E u \in Users : Establish(u))

Next == SignIn \/ Discard \/ \E u \in Users : Establish(u)

Spec == Init /\ [][Next]_vars /\ WF_vars(Settle)
=============================================================================
