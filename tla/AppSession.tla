----------------------------- MODULE AppSession -----------------------------
(***************************************************************************)
(* The session of the app: the pages the user moves through and the calls   *)
(* to FirebaseAuth and GoogleSignIn that those pages start and do not wait  *)
(* for.  The splash page gives way to the login page, a completed sign-in   *)
(* replaces the login page by the home page, signing out replaces the home  *)
(* page by a login page, and articles are pushed on top of the home page.   *)
(*                                                                          *)
(* Nothing disables a button while a call is in flight, so a page may have  *)
(* several calls under way, and a call may be answered when its page has    *)
(* been replaced (still mounted, its transition running) or disposed.       *)
(***************************************************************************)
EXTENDS Naturals, FiniteSets, Navigator

CONSTANTS
    Users,          \* the accounts
    NoUser,         \* "nobody is signed in"
    AssertsOn,      \* a debug build: Dart asserts are evaluated
    CallsPerPage,   \* bound: calls one page may have in flight
    MaxRoutes,      \* bound: pages a user opens per process
    MaxCalls        \* bound: calls a user starts per process

ASSUME NoUserAssumption == NoUser \notin Users
ASSUME AssertsOnAssumption == AssertsOn \in BOOLEAN
ASSUME BoundsAssumption == {CallsPerPage, MaxRoutes, MaxCalls} \subseteq Nat

VARIABLES
    running,        \* the process exists
    routes,         \* the history of the root Navigator
    nextRoute,      \* id of the next page to be pushed
    calls,          \* the calls under way
    nextCall,       \* ticket of the next message to the native plugin
    currentUser,    \* FirebaseAuth.instance.currentUser, in Dart
    native          \* the native SDK's current user, which is in the keychain

vars == <<running, routes, nextRoute, calls, nextCall, currentUser, native>>

MaybeUser == Users \cup {NoUser}

Route == [id : Nat, page : {"splash", "login", "home", "detail"},
          phase : Phases, signup : {"none", "ok", "failed"}]

\* picker: the account chooser is open        tokens: awaiting .authentication
\* sent: the native SDK works on it           ok, failed: its reply is on its way
\* idToken: awaiting getIdToken() inside an assert
Call == [ticket : Nat, kind : {"email", "google", "register", "signOut"},
         page : Nat, user : MaybeUser,
         stage : {"picker", "tokens", "sent", "ok", "failed", "idToken"}]

TypeOK ==
    /\ running \in BOOLEAN
    /\ routes \in SUBSET Route
    /\ nextRoute \in Nat
    /\ calls \in SUBSET Call
    /\ nextCall \in Nat
    /\ currentUser \in MaybeUser
    /\ native \in MaybeUser

-----------------------------------------------------------------------------
(***************************************************************************)
(* Pages.                                                                   *)
(***************************************************************************)
\* Mutant: the form starts with an empty message instead of none.
NewPageWithEmptyMessage(page) ==
    [id |-> nextRoute, page |-> page, phase |-> "pushing", signup |-> ""]

NewPage(page) ==
    [id |-> nextRoute, page |-> page, phase |-> "pushing", signup |-> "none"]

Replace(page) ==
    /\ routes' = PushReplacement(routes, NewPage(page))
    /\ nextRoute' = nextRoute + 1

Boot ==
    /\ ~running
    /\ running' = TRUE
    /\ routes' = {[id |-> 1, page |-> "splash", phase |-> "idle",
                   signup |-> "none"]}
    /\ nextRoute' = 2
    /\ calls' = {}
    /\ nextCall' = 1
    /\ currentUser' = native
    /\ UNCHANGED native

\* The process ends; only what the native SDK keeps in the keychain survives.
EndProcess ==
    /\ running' = FALSE
    /\ routes' = {}
    /\ nextRoute' = 1
    /\ calls' = {}
    /\ nextCall' = 1
    /\ currentUser' = NoUser
    /\ UNCHANGED native

Kill == running /\ EndProcess

\* Mutant: push instead of pushReplacement.
SplashTimeoutPushes ==
    /\ \E r \in Present(routes) : r.page = "splash"
    /\ routes' = Push(routes, NewPage("login"))
    /\ nextRoute' = nextRoute + 1
    /\ UNCHANGED <<running, calls, nextCall, currentUser, native>>

SplashTimeout ==
    /\ \E r \in Present(routes) : r.page = "splash"
    /\ Replace("login")
    /\ UNCHANGED <<running, calls, nextCall, currentUser, native>>

OpenArticle ==
    /\ nextRoute <= MaxRoutes
    /\ \E r \in routes : IsTop(routes, r) /\ r.page = "home"
    /\ routes' = Push(routes, NewPage("detail"))
    /\ nextRoute' = nextRoute + 1
    /\ UNCHANGED <<running, calls, nextCall, currentUser, native>>

\* The system back button: the top page is popped; the last one takes the
\* process with it.
Back ==
    \E r \in routes :
        /\ IsTop(routes, r)
        /\ \/ /\ Present(routes) = {r}
              /\ EndProcess
           \/ /\ Present(routes) # {r}
              /\ routes' = Pop(routes, r)
              /\ UNCHANGED <<running, nextRoute, calls, nextCall, currentUser,
                             native>>

EnterPage(i) ==
    \E r \in routes :
        /\ r.id = i /\ r.phase = "pushing"
        /\ routes' = Entered(routes, r)
        /\ UNCHANGED <<running, nextRoute, calls, nextCall, currentUser, native>>

LeavePage(i) ==
    \E r \in routes :
        /\ r.id = i /\ r.phase = "popping"
        /\ routes' = Exited(routes, r)
        /\ UNCHANGED <<running, nextRoute, calls, nextCall, currentUser, native>>

-----------------------------------------------------------------------------
(***************************************************************************)
(* Starting a call: the handler of a button of the page on top.             *)
(***************************************************************************)
Start(r, kind, user, stage) ==
    /\ calls' = calls \cup {[ticket |-> nextCall, kind |-> kind,
                             page |-> r.id, user |-> user, stage |-> stage]}
    /\ nextCall' = nextCall + 1

TapOn(page, r) ==
    /\ nextCall <= MaxCalls
    /\ IsTop(routes, r) /\ r.page = page
    /\ Cardinality({c \in calls : c.page = r.id}) < CallsPerPage

TapLogin(user) ==
    \E r \in routes :
        /\ TapOn("login", r)
        /\ Start(r, "email", user, "sent")
        /\ UNCHANGED <<running, routes, nextRoute, currentUser, native>>

TapRegister(user) ==
    \E r \in routes :
        /\ TapOn("login", r)
        /\ Start(r, "register", user, "sent")
        /\ UNCHANGED <<running, routes, nextRoute, currentUser, native>>

TapGoogle ==
    \E r \in routes :
        /\ TapOn("login", r)
        /\ Start(r, "google", NoUser, "picker")
        /\ UNCHANGED <<running, routes, nextRoute, currentUser, native>>

\* Mutant: the login page is pushed above the home page.
TapSignOutPushes ==
    \E r \in routes :
        /\ nextRoute <= MaxRoutes
        /\ TapOn("home", r)
        /\ Start(r, "signOut", NoUser, "sent")
        /\ routes' = Push(routes, NewPage("login"))
        /\ nextRoute' = nextRoute + 1
        /\ UNCHANGED <<running, currentUser, native>>

\* signOut() is not awaited: the login page is pushed in the same handler.
TapSignOut ==
    \E r \in routes :
        /\ nextRoute <= MaxRoutes
        /\ TapOn("home", r)
        /\ Start(r, "signOut", NoUser, "sent")
        /\ Replace("login")
        /\ UNCHANGED <<running, currentUser, native>>

-----------------------------------------------------------------------------
(***************************************************************************)
(* What the platform does with a call.                                      *)
(***************************************************************************)
Advance(c, stage) ==
    /\ calls' = (calls \ {c}) \cup {[c EXCEPT !.stage = stage]}
    /\ UNCHANGED nextCall

\* The call goes on with another message, queued behind those sent before.
SendNext(c, stage) ==
    /\ calls' = (calls \ {c}) \cup
                {[c EXCEPT !.ticket = nextCall, !.stage = stage]}
    /\ nextCall' = nextCall + 1

\* The user chooses an account, or cancels.
PickAccount(t) ==
    \E c \in calls :
        /\ c.ticket = t /\ c.stage = "picker"
        /\ \/ \E u \in Users :
                calls' = (calls \ {c}) \cup
                         {[c EXCEPT !.user = u, !.stage = "tokens"]}
           \/ calls' = (calls \ {c}) \cup {[c EXCEPT !.stage = "failed"]}
        /\ UNCHANGED <<running, routes, nextRoute, nextCall, currentUser, native>>

\* With the tokens of the account, signInWithCredential is sent.
SendCredential(t) ==
    \E c \in calls :
        /\ c.ticket = t /\ c.stage = "tokens"
        /\ SendNext(c, "sent") \/ Advance(c, "failed")
        /\ UNCHANGED <<running, routes, nextRoute, currentUser, native>>

\* Mutant: signOut is queued like any other call and can be overtaken.
SignOutOvertaken(c, stages) == FALSE

\* Mutant: a signOut waits for itself.
SignOutAheadOfItself(c, stages) ==
    \E d \in calls :
        /\ d.kind = "signOut" /\ d.ticket <= c.ticket
        /\ d.stage \in stages

\* The native plugin handles signOut synchronously: a message behind one is
\* neither handled nor answered before it.
SignOutAhead(c, stages) ==
    \E d \in calls :
        /\ d.kind = "signOut" /\ d.ticket < c.ticket
        /\ d.stage \in stages

\* The native SDK completes a call.  It saves the new current user to the
\* keychain first, and keeps the old one when that fails.
NativeAnswer(t) ==
    \E c \in calls :
        /\ c.ticket = t /\ c.stage = "sent"
        /\ ~SignOutAhead(c, {"sent"})
        /\ \/ /\ native' = c.user
              /\ Advance(c, "ok")
           \/ /\ c.kind = "signOut" => native # NoUser
              /\ Advance(c, "failed")
              /\ UNCHANGED native
        /\ UNCHANGED <<running, routes, nextRoute, currentUser>>

\* The native listener tells Dart who the current user is.
AuthStateEvent ==
    /\ running
    /\ currentUser # native
    /\ currentUser' = native
    /\ UNCHANGED <<running, routes, nextRoute, calls, nextCall, native>>

-----------------------------------------------------------------------------
(***************************************************************************)
(* The code behind an await: it runs when the reply arrives, whatever has   *)
(* become of its page.  On an unmounted page State.context is null, and     *)
(* nothing after the await takes effect.                                    *)
(***************************************************************************)
Finish(c) == calls' = calls \ {c} /\ UNCHANGED nextCall

\* Mutant: the navigator is reached without the context of the page.
GoHomeFromAnywhere(c) == Replace("home")

\* Mutant: an answer is heeded only once the page has finished its entrance.
GoHomeOnceEntered(c) ==
    IF \E r \in routes : r.id = c.page /\ r.phase = "idle"
    THEN Replace("home")
    ELSE UNCHANGED <<routes, nextRoute>>

GoHome(c) ==
    IF Mounted(routes, c.page)
    THEN Replace("home")
    ELSE UNCHANGED <<routes, nextRoute>>

Arrives(c, t, stage) ==
    /\ c.ticket = t /\ c.stage = stage
    /\ ~SignOutAhead(c, {"sent", "ok", "failed"})
    /\ UNCHANGED <<running, native>>

\* _signInWithEmailAndPassword
SignedIn(t) ==
    \E c \in calls :
        /\ c.kind = "email" /\ Arrives(c, t, "ok")
        /\ currentUser' = c.user
        /\ Finish(c) /\ GoHome(c)

\* Mutant: the credential is exchanged, but the session is not switched.
SignedInWithGoogleElsewhere(t) ==
    \E c \in calls :
        /\ c.kind = "google" /\ Arrives(c, t, "ok")
        /\ UNCHANGED currentUser
        /\ IF AssertsOn
           THEN SendNext(c, "idToken") /\ UNCHANGED <<routes, nextRoute>>
           ELSE Finish(c) /\ GoHome(c)

\* _signInWithGoogle: a debug build goes on to await getIdToken().
SignedInWithGoogle(t) ==
    \E c \in calls :
        /\ c.kind = "google" /\ Arrives(c, t, "ok")
        /\ currentUser' = c.user
        /\ IF AssertsOn
           THEN SendNext(c, "idToken") /\ UNCHANGED <<routes, nextRoute>>
           ELSE Finish(c) /\ GoHome(c)

\* The rest of _signInWithGoogle: assert(user.uid == currentUser.uid), whose
\* failure, like that of getIdToken() itself, is caught and shown.
IdTokenArrives(t) ==
    \E c \in calls :
        /\ c.kind = "google" /\ Arrives(c, t, "idToken")
        /\ Finish(c)
        /\ IF currentUser = c.user
           THEN GoHome(c)
           ELSE UNCHANGED <<routes, nextRoute>>
        /\ UNCHANGED currentUser

IdTokenFails(t) ==
    \E c \in calls :
        /\ c.kind = "google" /\ Arrives(c, t, "idToken")
        /\ Finish(c)
        /\ UNCHANGED <<routes, nextRoute, currentUser>>

\* setState of the sign-up form
ShowSignup(c, result) ==
    /\ routes' = {IF r.id = c.page THEN [r EXCEPT !.signup = result] ELSE r :
                    r \in routes}
    /\ UNCHANGED nextRoute

\* _register
Registered(t) ==
    \E c \in calls :
        /\ c.kind = "register" /\ Arrives(c, t, "ok")
        /\ currentUser' = c.user
        /\ Finish(c) /\ ShowSignup(c, "ok")

RegisterFailed(t) ==
    \E c \in calls :
        /\ c.kind = "register" /\ Arrives(c, t, "failed")
        /\ Finish(c) /\ ShowSignup(c, "failed")
        /\ UNCHANGED currentUser

\* A sign-in that failed shows a message and stays where it is.
SignInFailed(t) ==
    \E c \in calls :
        /\ c.kind \in {"email", "google"} /\ Arrives(c, t, "failed")
        /\ Finish(c)
        /\ UNCHANGED <<routes, nextRoute, currentUser>>

\* Mutant: Dart forgets the user also when the keychain kept it.
SignOutAnsweredBlindly(t) ==
    \E c \in calls :
        /\ c.kind = "signOut"
        /\ Arrives(c, t, "ok") \/ Arrives(c, t, "failed")
        /\ currentUser' = NoUser
        /\ Finish(c)
        /\ UNCHANGED <<routes, nextRoute>>

\* The plugin's own continuation; nobody awaits signOut().
SignOutAnswered(t) ==
    \E c \in calls :
        /\ c.kind = "signOut"
        /\ \/ Arrives(c, t, "ok") /\ currentUser' = NoUser
           \/ Arrives(c, t, "failed") /\ UNCHANGED currentUser
        /\ Finish(c)
        /\ UNCHANGED <<routes, nextRoute>>

-----------------------------------------------------------------------------
Tickets == 1 .. 3 * MaxCalls
RouteIds == 1 .. MaxRoutes + 2 * MaxCalls + 2

Reply(t) ==
    \/ SignedIn(t) \/ SignedInWithGoogle(t) \/ SignInFailed(t)
    \/ IdTokenArrives(t) \/ IdTokenFails(t)
    \/ Registered(t) \/ RegisterFailed(t)
    \/ SignOutAnswered(t)

Platform(t) == PickAccount(t) \/ SendCredential(t) \/ NativeAnswer(t)

User ==
    \/ Boot \/ Kill \/ Back \/ OpenArticle \/ TapGoogle \/ TapSignOut
    \/ \E u \in Users : TapLogin(u) \/ TapRegister(u)

Next ==
    \/ User
    \/ SplashTimeout
    \/ \E i \in RouteIds : EnterPage(i) \/ LeavePage(i)
    \/ \E t \in Tickets : Platform(t) \/ Reply(t)
    \/ AuthStateEvent

Init ==
    /\ running = FALSE
    /\ routes = {}
    /\ nextRoute = 1
    /\ calls = {}
    /\ nextCall = 1
    /\ currentUser = NoUser
    /\ native \in MaybeUser

Spec == Init /\ [][Next]_vars

\* Timers fire, transitions end, the SDK answers or times out, and replies and
\* events are delivered.  The user may do nothing at all.
Fairness ==
    /\ WF_vars(SplashTimeout)
    /\ WF_vars(AuthStateEvent)
    /\ \A i \in RouteIds : WF_vars(EnterPage(i)) /\ WF_vars(LeavePage(i))
    /\ \A t \in Tickets :
        WF_vars(SendCredential(t)) /\ WF_vars(NativeAnswer(t)) /\ WF_vars(Reply(t))

FairSpec == Spec /\ Fairness

-----------------------------------------------------------------------------
(***************************************************************************)
(* Properties that hold however many calls a page has in flight.            *)
(***************************************************************************)

\* The splash page and a login page are left for good (pushReplacement at
\* spash_screen.dart:19 and login_page.dart:251, 284): nothing is ever shown
\* above them to which the back button could return.
NoWayBack ==
    \A r \in Present(routes) : r.page \in {"splash", "login"} => IsTop(routes, r)

\* A login page whose entrance is over gives way to the home page only for a
\* call of its own, or of a login page that the back button is just closing:
\* the late answer of a login page that was replaced finds it disposed.
SettledLoginKeepsOwnCalls ==
    [][\A r \in routes :
         r.page = "login" /\ r.phase = "idle" /\ InPhase(r, "removing") \in routes'
           => \E c \in calls \ calls' : \E q \in routes :
                 q.id = c.page /\ (q = r \/ q.phase = "popping")]_vars

\* A sign-up form that reports success (login_page.dart:592) does so to a user
\* who is signed in: a signOut() still under way when the account was created
\* cannot overtake it.
SignedUpMeansSignedIn ==
    \A r \in Present(routes) : r.signup = "ok" => currentUser # NoUser

\* A replaced page is disposed in the end, also when other pages are pushed
\* and popped above it meanwhile.
ReplacedPagesDisposed ==
    \A i \in RouteIds :
        (\E r \in routes : r.id = i /\ r.phase = "removing")
            ~> ~ \E r \in routes : r.id = i /\ r.phase = "removing"

\* Once the user has chosen an account, every call is answered: no two calls
\* wait for each other in the plugin's queue.
CallsAnswered ==
    \A t \in Tickets :
        (\E c \in calls : c.ticket = t /\ c.stage # "picker")
            ~> ~ \E c \in calls : c.ticket = t

\* An e-mail sign-in that the SDK has accepted for a login page on screen is seen
\* through (login_page.dart:251, where it takes the page's context after the
\* await): a home page comes on top, whichever of the page's calls is answered
\* first and whatever sign-out is answered before, unless the process ends.
AcceptedLeadsHome ==
    \A t \in Tickets :
        (\E c \in calls, r \in Present(routes) :
            /\ c.ticket = t /\ c.kind = "email" /\ c.stage = "ok"
            /\ c.page = r.id /\ r.page = "login")
        ~> (~running \/ \E r \in routes : IsTop(routes, r) /\ r.page = "home")

(***************************************************************************)
(* Properties for a user who starts one call at a time on a page.           *)
(***************************************************************************)

\* The drawer of a home page reads currentUser.email (home_page.dart:137):
\* while a home page can be seen, somebody is signed in.
HomeHasUser == (\E r \in Present(routes) : r.page = "home") => currentUser # NoUser

\* When no call is under way the Dart and the native session agree.
QuiescentAgreement == running /\ calls = {} => currentUser = native

\* assert(user.uid == currentUser.uid), login_page.dart:278: nobody else has
\* become the current user while the id token was awaited.
SameUserAfterToken ==
    [][\A t \in Tickets : IdTokenArrives(t) =>
         \E c \in calls \ calls' : c.stage = "idToken" /\ currentUser = c.user]_vars
=============================================================================
