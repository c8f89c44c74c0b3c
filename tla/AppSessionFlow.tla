--------------------------- MODULE AppSessionFlow ---------------------------
(***************************************************************************)
(* AppSession implements UserFlow for a user who starts one call at a time  *)
(* on a page (CallsPerPage = 1).                                            *)
(***************************************************************************)
EXTENDS AppSession

Showing(page) == \E r \in Present(routes) : r.page = page

\* Articles lie above the home page and do not change where the user is.
Screen ==
    IF Showing("splash") THEN "splash"
    ELSE IF Showing("login") THEN "login"
    ELSE IF Showing("home") THEN "home"
    ELSE "closed"

SessionUser == IF Screen = "home" THEN currentUser ELSE NoUser

Flow == INSTANCE UserFlow WITH screen <- Screen, user <- SessionUser

\* The app keeps the promise of UserFlow: one home screen, of an account that
\* is signed in, which no late answer, listener event or half-done sign-out
\* changes under the user; and the splash screen never stays.
ImplementsUserFlow == Flow!Spec
=============================================================================
