------------------------------ MODULE UserFlow ------------------------------
(***************************************************************************)
(* What the user is promised: the app opens on a splash screen, which gives *)
(* way to the login screen by itself; signing in leads to the home screen   *)
(* of one account, and it stays that account until the user signs out.      *)
(***************************************************************************)
CONSTANTS Users, NoUser

VARIABLES screen, user

vars == <<screen, user>>

Screens == {"closed", "splash", "login", "home"}

Init == screen = "closed" /\ user = NoUser

Open == /\ screen = "closed" /\ screen' = "splash"
        /\ UNCHANGED user

ShowLogin == /\ screen = "splash" /\ screen' = "login"
             /\ UNCHANGED user

SignIn == /\ screen = "login" /\ screen' = "home"
          /\ user' \in Users

SignOut == /\ screen = "home" /\ screen' = "login"
           /\ user' = NoUser

Close == /\ screen # "closed" /\ screen' = "closed"
         /\ user' = NoUser

Next == Open \/ ShowLogin \/ SignIn \/ SignOut \/ Close

Spec == Init /\ [][Next]_vars /\ WF_vars(ShowLogin)
=============================================================================
