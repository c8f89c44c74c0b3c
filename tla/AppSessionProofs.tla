-------------------------- MODULE AppSessionProofs --------------------------
(***************************************************************************)
(* What AppSession guarantees for every set of accounts and every bound.    *)
(***************************************************************************)
EXTENDS AppSession, TLAPS

(***************************************************************************)
(* The history operators.                                                   *)
(***************************************************************************)

\* Flush only takes entries away, only replaced ones, and leaves none that is
\* not held.
LEMMA FlushFacts ==
    ASSUME NEW history
    PROVE  /\ Flush(history) \subseteq history
           /\ \A e \in history : e.phase # "removing" => e \in Flush(history)
           /\ \A e \in Flush(history) :
                 e.phase = "removing" => Held(Flush(history), e)
BY DEF Flush, Held, Above

\* InPhase changes the phase of an entry and nothing else.
LEMMA InPhaseFacts ==
    ASSUME NEW r \in Route, NEW phase \in Phases
    PROVE  /\ InPhase(r, phase) \in Route
           /\ InPhase(r, phase).id = r.id
           /\ InPhase(r, phase).page = r.page
           /\ InPhase(r, phase).phase = phase
           /\ InPhase(r, phase).signup = r.signup
BY DEF InPhase, Route

LEMMA PushReplacementType ==
    ASSUME NEW history \in SUBSET Route, NEW new \in Route
    PROVE  PushReplacement(history, new) \in SUBSET Route
<1>1. \A r \in history : InPhase(r, "removing") \in Route
  BY InPhaseFacts DEF Phases
<1>2. {IF IsTop(history, e) THEN InPhase(e, "removing") ELSE e : e \in history}
        \cup {new} \in SUBSET Route
  BY <1>1
<1> QED BY <1>2, FlushFacts DEF PushReplacement

-----------------------------------------------------------------------------
(***************************************************************************)
(* Type correctness.                                                        *)
(***************************************************************************)

\* Replacing the top page keeps the history well typed.
LEMMA ReplaceType ==
    ASSUME TypeOK, NEW page \in {"splash", "login", "home", "detail"}, Replace(page)
    PROVE  routes' \in SUBSET Route /\ nextRoute' \in Nat
<1>1. NewPage(page) \in Route
  BY DEF TypeOK, NewPage, Route, Phases
<1> QED BY <1>1, PushReplacementType DEF TypeOK, Replace

\* A call that has moved on is still a call.
LEMMA CallUpdateType ==
    ASSUME TypeOK, NEW c \in calls, NEW d \in Call
    PROVE  (calls \ {c}) \cup {d} \in SUBSET Call
BY DEF TypeOK

LEMMA AdvanceType ==
    ASSUME TypeOK, NEW c \in calls,
           NEW stage \in {"picker", "tokens", "sent", "ok", "failed", "idToken"},
           Advance(c, stage) \/ SendNext(c, stage)
    PROVE  calls' \in SUBSET Call /\ nextCall' \in Nat
<1>1. c \in Call
  BY DEF TypeOK
<1>2. [c EXCEPT !.stage = stage] \in Call
  BY <1>1 DEF Call
<1>3. nextCall \in Nat
  BY DEF TypeOK
<1>4. [c EXCEPT !.ticket = nextCall, !.stage = stage] \in Call
  BY <1>1, <1>3 DEF Call
<1> QED BY <1>2, <1>3, <1>4, CallUpdateType DEF Advance, SendNext

LEMMA StartType ==
    ASSUME TypeOK, NEW r \in routes, NEW user \in MaybeUser,
           NEW kind \in {"email", "google", "register", "signOut"},
           NEW stage \in {"picker", "sent"}, Start(r, kind, user, stage)
    PROVE  calls' \in SUBSET Call /\ nextCall' \in Nat
<1>1. r.id \in Nat /\ nextCall \in Nat
  BY DEF TypeOK, Route
<1>2. [ticket |-> nextCall, kind |-> kind, page |-> r.id, user |-> user,
       stage |-> stage] \in Call
  BY <1>1 DEF Call
<1> QED BY <1>1, <1>2 DEF Start, TypeOK

LEMMA GoHomeType ==
    ASSUME TypeOK, NEW c, GoHome(c)
    PROVE  routes' \in SUBSET Route /\ nextRoute' \in Nat
BY ReplaceType DEF GoHome, TypeOK

LEMMA ShowSignupType ==
    ASSUME TypeOK, NEW c, NEW result \in {"ok", "failed"}, ShowSignup(c, result)
    PROVE  routes' \in SUBSET Route /\ nextRoute' \in Nat
<1>1. \A r \in routes : [r EXCEPT !.signup = result] \in Route
  BY DEF TypeOK, Route
<1> QED BY <1>1 DEF ShowSignup, TypeOK

LEMMA FinishType ==
    ASSUME TypeOK, NEW c, Finish(c)
    PROVE  calls' \in SUBSET Call /\ nextCall' \in Nat
BY DEF Finish, TypeOK

LEMMA EndProcessType ==
    ASSUME TypeOK, EndProcess
    PROVE  TypeOK'
<1>1. running' \in BOOLEAN
  BY Zenon DEF EndProcess
<1>2. NoUser \in MaybeUser
  BY DEF MaybeUser
<1>3. routes' \in SUBSET Route /\ calls' \in SUBSET Call
  BY DEF EndProcess
<1>4. nextRoute' \in Nat /\ nextCall' \in Nat
  BY DEF EndProcess
<1> QED BY <1>1, <1>2, <1>3, <1>4 DEF TypeOK, EndProcess

LEMMA TypeInit == Init => TypeOK
<1> SUFFICES ASSUME Init PROVE TypeOK
  OBVIOUS
<1>1. running \in BOOLEAN
  BY Zenon DEF Init
<1>2. NoUser \in MaybeUser
  BY DEF MaybeUser
<1>3. routes \in SUBSET Route /\ calls \in SUBSET Call
  BY DEF Init
<1>4. nextRoute \in Nat /\ nextCall \in Nat
  BY DEF Init
<1> QED BY <1>1, <1>2, <1>3, <1>4 DEF TypeOK, Init

LEMMA TypeStep == TypeOK /\ [Next]_vars => TypeOK'
<1> SUFFICES ASSUME TypeOK, [Next]_vars PROVE TypeOK'
  OBVIOUS
<1>u. \A c \in calls : c.user \in MaybeUser /\ c \in Call
  BY DEF TypeOK, Call
<1>1. CASE Boot
  <2>1. [id |-> 1, page |-> "splash", phase |-> "idle", signup |-> "none"]
          \in Route
    BY DEF Route, Phases
  <2> QED BY <1>1, <2>1 DEF Boot, TypeOK
<1>2. CASE Kill
  BY <1>2, EndProcessType DEF Kill
<1>3. CASE Back
  <2>1. PICK r \in routes :
          \/ EndProcess
          \/ /\ routes' = Pop(routes, r)
             /\ UNCHANGED <<running, nextRoute, calls, nextCall, currentUser,
                            native>>
    BY <1>3 DEF Back
  <2>2. InPhase(r, "popping") \in Route
    BY InPhaseFacts DEF TypeOK, Phases
  <2>3. Pop(routes, r) \in SUBSET Route
    BY <2>2, FlushFacts DEF Pop, TypeOK
  <2> QED BY <2>1, <2>3, EndProcessType DEF TypeOK
<1>4. CASE OpenArticle
  <2>1. NewPage("detail") \in Route
    BY DEF TypeOK, NewPage, Route, Phases
  <2> QED BY <1>4, <2>1, FlushFacts DEF OpenArticle, Push, TypeOK
<1>5. CASE TapGoogle
  BY <1>5, StartType DEF TapGoogle, TypeOK, MaybeUser
<1>6. CASE TapSignOut
  BY <1>6, StartType, ReplaceType DEF TapSignOut, TypeOK, MaybeUser
<1>7. ASSUME NEW u \in Users, TapLogin(u) \/ TapRegister(u) PROVE TypeOK'
  BY <1>7, StartType DEF TapLogin, TapRegister, TypeOK, MaybeUser
<1>8. CASE SplashTimeout
  BY <1>8, ReplaceType DEF SplashTimeout, TypeOK
<1>9. ASSUME NEW i, EnterPage(i) PROVE TypeOK'
  <2>1. PICK r \in routes : routes' = Entered(routes, r)
    BY <1>9 DEF EnterPage
  <2>2. InPhase(r, "idle") \in Route
    BY InPhaseFacts DEF TypeOK, Phases
  <2> QED BY <1>9, <2>1, <2>2, FlushFacts DEF EnterPage, Entered, TypeOK
<1>10. ASSUME NEW i, LeavePage(i) PROVE TypeOK'
  BY <1>10, FlushFacts DEF LeavePage, Exited, TypeOK
<1>11. ASSUME NEW t, PickAccount(t) PROVE TypeOK'
  <2>1. PICK c \in calls :
          \/ \E u \in Users :
               calls' = (calls \ {c}) \cup {[c EXCEPT !.user = u, !.stage = "tokens"]}
          \/ calls' = (calls \ {c}) \cup {[c EXCEPT !.stage = "failed"]}
    BY <1>11 DEF PickAccount
  <2>2. [c EXCEPT !.stage = "failed"] \in Call
    BY <1>u DEF Call
  <2>3. \A u \in Users : [c EXCEPT !.user = u, !.stage = "tokens"] \in Call
    BY <1>u DEF Call, MaybeUser
  <2>4. calls' \in SUBSET Call
    BY <2>1, <2>2, <2>3, CallUpdateType
  <2> QED BY <1>11, <2>4 DEF PickAccount, TypeOK
<1>12. ASSUME NEW t, SendCredential(t) PROVE TypeOK'
  BY <1>12, AdvanceType DEF SendCredential, TypeOK
<1>13. ASSUME NEW t, NativeAnswer(t) PROVE TypeOK'
  BY <1>13, <1>u, AdvanceType DEF NativeAnswer, TypeOK
<1>14. CASE AuthStateEvent
  BY <1>14 DEF AuthStateEvent, TypeOK
<1>15. ASSUME NEW t, SignedIn(t) PROVE TypeOK'
  BY <1>15, <1>u, FinishType, GoHomeType DEF SignedIn, Arrives, TypeOK
<1>16. ASSUME NEW t, SignedInWithGoogle(t) PROVE TypeOK'
  BY <1>16, <1>u, FinishType, AdvanceType, GoHomeType
     DEF SignedInWithGoogle, Arrives, TypeOK
<1>17. ASSUME NEW t, SignInFailed(t) \/ IdTokenFails(t) PROVE TypeOK'
  BY <1>17, FinishType DEF SignInFailed, IdTokenFails, Arrives, TypeOK
<1>18. ASSUME NEW t, IdTokenArrives(t) PROVE TypeOK'
  BY <1>18, FinishType, GoHomeType DEF IdTokenArrives, Arrives, TypeOK
<1>19. ASSUME NEW t, Registered(t) \/ RegisterFailed(t) PROVE TypeOK'
  BY <1>19, <1>u, FinishType, ShowSignupType
     DEF Registered, RegisterFailed, Arrives, TypeOK
<1>20. ASSUME NEW t, SignOutAnswered(t) PROVE TypeOK'
  BY <1>20, FinishType DEF SignOutAnswered, Arrives, TypeOK, MaybeUser
<1>21. CASE UNCHANGED vars
  BY <1>21 DEF vars, TypeOK
<1> QED
  BY <1>1, <1>2, <1>3, <1>4, <1>5, <1>6, <1>7, <1>8, <1>9, <1>10, <1>11, <1>12,
     <1>13, <1>14, <1>15, <1>16, <1>17, <1>18, <1>19, <1>20, <1>21
  DEF Next, User, Platform, Reply

\* Every reachable state is well typed: no call carries an account that does
\* not exist, and no page is in a phase the Navigator does not know.
THEOREM TypeCorrect == Spec => []TypeOK
BY TypeInit, TypeStep, PTL DEF Spec

-----------------------------------------------------------------------------
(***************************************************************************)
(* The history.  NoWayBack is not inductive: the step that replaces the top *)
(* page keeps it only because ids are distinct and increasing, and the late *)
(* answers that replace pages are tied to the pages they came from.         *)
(***************************************************************************)
IdsDistinct == \A r, s \in routes : r.id = s.id => r = s

IdsBelow == \A r \in routes : r.id < nextRoute

NothingAbove ==
    \A r \in Present(routes) :
        r.page \in {"splash", "login"} => \A s \in routes : s.id <= r.id

AllHeld == \A r \in routes : r.phase = "removing" => Held(routes, r)

HistoryShape == IdsDistinct /\ IdsBelow /\ NothingAbove /\ AllHeld

\* Only login pages start the calls that lead to the home page.
CallPages ==
    \A c \in calls : c.kind # "signOut" =>
        /\ c.page < nextRoute
        /\ \A r \in routes : r.id = c.page => r.page = "login"

HistoryInv == TypeOK /\ HistoryShape /\ CallPages

\* Where the entries of the next history come from: each is new, or continues
\* an entry with its id and page.
Continues == \A r \in routes' :
    r.id >= nextRoute \/ \E s \in routes : s.id = r.id /\ s.page = r.page

LEMMA ReplaceShape ==
    ASSUME TypeOK, HistoryShape,
           NEW page \in {"splash", "login", "home", "detail"}, Replace(page)
    PROVE  HistoryShape' /\ Continues
<1> DEFINE new == NewPage(page)
<1>1. new.id = nextRoute /\ new.phase = "pushing" /\ nextRoute \in Nat
  BY DEF NewPage, TypeOK
<1>2. \A e \in routes : e \in Route /\ e.id \in Nat /\ e.id < nextRoute
  BY DEF TypeOK, Route, HistoryShape, IdsBelow
<1>3. \A r \in routes' : r = new \/ \E e \in routes :
         /\ r.id = e.id /\ r.page = e.page
         /\ IsTop(routes, e) => r.phase = "removing"
         /\ ~IsTop(routes, e) => r = e
  <2>1. \A r \in routes' : r = new \/ \E e \in routes :
           r = IF IsTop(routes, e) THEN InPhase(e, "removing") ELSE e
    BY FlushFacts DEF Replace, PushReplacement
  <2>2. \A e \in routes : /\ InPhase(e, "removing").id = e.id
                          /\ InPhase(e, "removing").page = e.page
                          /\ InPhase(e, "removing").phase = "removing"
    BY <1>2, InPhaseFacts DEF Phases
  <2> QED BY <2>1, <2>2
<1>4. IdsBelow' /\ Continues
  BY <1>1, <1>2, <1>3 DEF IdsBelow, Replace, Continues
<1>5. IdsDistinct'
  <2> SUFFICES ASSUME NEW r \in routes', NEW s \in routes', r.id = s.id
               PROVE  r = s
    BY DEF IdsDistinct
  <2>1. CASE r = new \/ s = new
    BY <2>1, <1>1, <1>2, <1>3
  <2>2. CASE r # new /\ s # new
    <3>1. PICK e \in routes : r = IF IsTop(routes, e) THEN InPhase(e, "removing") ELSE e
      BY <2>2, FlushFacts DEF Replace, PushReplacement
    <3>2. PICK f \in routes : s = IF IsTop(routes, f) THEN InPhase(f, "removing") ELSE f
      BY <2>2, FlushFacts DEF Replace, PushReplacement
    <3>3. r.id = e.id /\ s.id = f.id
      BY <3>1, <3>2, <1>2, InPhaseFacts DEF Phases
    <3>4. e = f
      BY <3>3 DEF HistoryShape, IdsDistinct
    <3> QED BY <3>1, <3>2, <3>4
  <2> QED BY <2>1, <2>2
<1>6. NothingAbove'
  <2> SUFFICES ASSUME NEW r \in Present(routes'), r.page \in {"splash", "login"},
                      NEW s \in routes'
               PROVE  s.id <= r.id
    BY DEF NothingAbove, Present
  <2>1. CASE r = new
    BY <2>1, <1>1, <1>2, <1>3
  <2>2. CASE r # new
    <3>1. r \in routes /\ ~IsTop(routes, r) /\ r \in Present(routes)
      BY <2>2, <1>3 DEF Present
    <3> QED BY <3>1, <1>2 DEF HistoryShape, NothingAbove, IsTop, Present
  <2> QED BY <2>1, <2>2
<1>7. AllHeld'
  BY FlushFacts DEF Replace, PushReplacement, AllHeld
<1> QED BY <1>4, <1>5, <1>6, <1>7 DEF HistoryShape

LEMMA PushShape ==
    ASSUME TypeOK, HistoryShape, OpenArticle
    PROVE  HistoryShape' /\ Continues
<1> DEFINE new == NewPage("detail")
<1>1. new.id = nextRoute /\ new.page = "detail" /\ nextRoute \in Nat
  BY DEF NewPage, TypeOK
<1>2. \A e \in routes : e.id \in Nat /\ e.id < nextRoute
  BY DEF TypeOK, Route, HistoryShape, IdsBelow
<1>3. \A r \in routes' : r = new \/ r \in routes
  BY FlushFacts DEF OpenArticle, Push
<1>4. IdsBelow' /\ Continues /\ IdsDistinct'
  BY <1>1, <1>2, <1>3
  DEF IdsBelow, Continues, IdsDistinct, OpenArticle, HistoryShape
<1>5. NothingAbove'
  \* The page on top is a home page: no splash or login page is present.
  <2>1. PICK h \in routes : IsTop(routes, h) /\ h.page = "home"
    BY DEF OpenArticle
  <2>2. \A r \in Present(routes) : r.page \notin {"splash", "login"}
    <3> SUFFICES ASSUME NEW r \in Present(routes), r.page \in {"splash", "login"}
                 PROVE  FALSE
      OBVIOUS
    <3>1. h.id <= r.id /\ r.id <= h.id /\ r \in routes
      BY <2>1 DEF HistoryShape, NothingAbove, IsTop, Present
    <3>2. r = h
      BY <3>1, <1>2 DEF HistoryShape, IdsDistinct
    <3> QED BY <3>2, <2>1
  <2> QED BY <2>2, <1>1, <1>3 DEF NothingAbove, Present
<1>6. AllHeld'
  BY FlushFacts DEF OpenArticle, Push, AllHeld
<1> QED BY <1>4, <1>5, <1>6 DEF HistoryShape

\* The top page starts to leave, or a page has entered.
LEMMA PhaseShape ==
    ASSUME TypeOK, HistoryShape, NEW r \in routes, NEW phase \in Phases,
           routes' = Flush((routes \ {r}) \cup {InPhase(r, phase)}),
           phase = "idle" => r.phase = "pushing",
           phase \in {"idle", "popping"}, UNCHANGED nextRoute
    PROVE  HistoryShape' /\ Continues
<1> DEFINE new == InPhase(r, phase)
<1>1. new.id = r.id /\ new.page = r.page /\ new.phase = phase
  BY InPhaseFacts DEF TypeOK
<1>2. \A e \in routes' : e = new \/ (e \in routes /\ e # r)
  BY FlushFacts
<1>3. IdsBelow' /\ Continues
  BY <1>1, <1>2 DEF IdsBelow, Continues, HistoryShape
<1>4. IdsDistinct'
  BY <1>1, <1>2 DEF IdsDistinct, HistoryShape
<1>5. NothingAbove'
  BY <1>1, <1>2 DEF NothingAbove, HistoryShape, Present
<1>6. AllHeld'
  BY FlushFacts DEF AllHeld
<1> QED BY <1>3, <1>4, <1>5, <1>6 DEF HistoryShape

LEMMA ExitShape ==
    ASSUME TypeOK, HistoryShape, NEW r \in routes,
           routes' = Exited(routes, r), UNCHANGED nextRoute
    PROVE  HistoryShape' /\ Continues
<1>1. \A e \in routes' : e \in routes
  BY FlushFacts DEF Exited
<1>2. AllHeld'
  BY FlushFacts DEF AllHeld, Exited
<1> QED BY <1>1, <1>2
        DEF HistoryShape, IdsBelow, IdsDistinct, NothingAbove, Present, Continues

\* The message of the sign-up form is no matter for the history.
LEMMA SignupShape ==
    ASSUME TypeOK, HistoryShape, NEW c, NEW result \in {"ok", "failed"},
           ShowSignup(c, result)
    PROVE  HistoryShape' /\ Continues
<1> DEFINE shown(e) == IF e.id = c.page THEN [e EXCEPT !.signup = result] ELSE e
<1>1. routes' = {shown(e) : e \in routes} /\ nextRoute' = nextRoute
  BY DEF ShowSignup
<1>2. \A e \in routes : /\ shown(e).id = e.id /\ shown(e).page = e.page
                        /\ shown(e).phase = e.phase
  BY DEF TypeOK, Route
<1> HIDE DEF shown
<1>3. \A r \in routes' : \E e \in routes : r = shown(e)
  BY <1>1
<1>4. \A e \in routes : shown(e) \in routes'
  BY <1>1
<1>5. IdsBelow' /\ Continues
  BY <1>1, <1>2, <1>3 DEF IdsBelow, Continues, HistoryShape
<1>6. IdsDistinct'
  BY <1>2, <1>3 DEF IdsDistinct, HistoryShape
<1>7. NothingAbove'
  BY <1>2, <1>3 DEF NothingAbove, HistoryShape, Present
<1>8. AllHeld'
  <2> SUFFICES ASSUME NEW r \in routes', r.phase = "removing"
               PROVE  Held(routes', r)
    BY DEF AllHeld
  <2>1. PICK e \in routes : r = shown(e)
    BY <1>3
  <2>2. e.id = r.id /\ Held(routes, e)
    BY <2>1, <1>2 DEF HistoryShape, AllHeld
  <2>3. \E f \in Above(routes', r) : f.phase # "removing"
    BY <2>2, <1>2, <1>4 DEF Held, Above
  <2>4. \A f \in Above(routes', r) : f.phase # "idle"
    BY <2>2, <1>2, <1>3 DEF Held, Above
  <2> QED BY <2>3, <2>4 DEF Held
<1> QED BY <1>5, <1>6, <1>7, <1>8 DEF HistoryShape

\* An ended process has no history.
LEMMA EndShape == EndProcess => HistoryShape' /\ CallPages' /\ Continues
BY DEF EndProcess, HistoryShape, IdsDistinct, IdsBelow, NothingAbove, AllHeld,
       CallPages, Present, Continues

LEMMA GoHomeShape ==
    ASSUME TypeOK, HistoryShape, NEW c, GoHome(c)
    PROVE  HistoryShape' /\ Continues
<1>1. UNCHANGED <<routes, nextRoute>> => HistoryShape' /\ Continues
  BY DEF HistoryShape, IdsDistinct, IdsBelow, NothingAbove, AllHeld, Present,
         Continues
<1> QED BY <1>1, ReplaceShape DEF GoHome

-----------------------------------------------------------------------------
(***************************************************************************)
(* The calls.                                                               *)
(***************************************************************************)

\* Every call of the next state continues a call of the same kind and page, or
\* was started by the page on top.
Follows == \A c \in calls' :
    \/ c.kind = "signOut"
    \/ \E d \in calls : d.kind = c.kind /\ d.page = c.page
    \/ \E r \in routes : r.page = "login" /\ r.id = c.page

LEMMA CallPagesStep ==
    ASSUME TypeOK, HistoryShape, CallPages, Continues, Follows,
           nextRoute' \in Nat, nextRoute <= nextRoute', IdsDistinct'
    PROVE  CallPages'
<1> SUFFICES ASSUME NEW c \in calls', c.kind # "signOut"
             PROVE  /\ c.page < nextRoute'
                    /\ \A r \in routes' : r.id = c.page => r.page = "login"
  BY DEF CallPages
<1>1. /\ c.page \in Nat /\ c.page < nextRoute
      /\ \A r \in routes : r.id = c.page => r.page = "login"
  <2>1. CASE \E d \in calls : d.kind = c.kind /\ d.page = c.page
    BY <2>1 DEF CallPages, TypeOK, Call
  <2>2. CASE \E r \in routes : r.page = "login" /\ r.id = c.page
    BY <2>2 DEF HistoryShape, IdsBelow, IdsDistinct, TypeOK, Route
  <2> QED BY <2>1, <2>2 DEF Follows
<1>2. nextRoute \in Nat
  BY DEF TypeOK
<1>3. c.page < nextRoute'
  BY <1>1, <1>2
<1>4. \A r \in routes' : r.id = c.page => r.page = "login"
  BY <1>1, <1>2 DEF Continues
<1> QED BY <1>3, <1>4

LEMMA SameShape ==
    ASSUME TypeOK, HistoryShape, UNCHANGED <<routes, nextRoute>>
    PROVE  HistoryShape' /\ Continues
BY DEF HistoryShape, IdsDistinct, IdsBelow, NothingAbove, AllHeld, Present,
       Continues

LEMMA AdvanceFollows ==
    ASSUME TypeOK, NEW c \in calls, NEW stage,
           Advance(c, stage) \/ SendNext(c, stage)
    PROVE  Follows
<1>1. c \in Call
  BY DEF TypeOK
<1>2. /\ [c EXCEPT !.stage = stage].kind = c.kind
      /\ [c EXCEPT !.stage = stage].page = c.page
      /\ [c EXCEPT !.ticket = nextCall, !.stage = stage].kind = c.kind
      /\ [c EXCEPT !.ticket = nextCall, !.stage = stage].page = c.page
  BY <1>1 DEF Call
<1> QED BY <1>2 DEF Advance, SendNext, Follows

LEMMA HistoryInit == Init => HistoryInv
BY TypeInit DEF Init, HistoryInv, HistoryShape, IdsDistinct, IdsBelow,
                NothingAbove, AllHeld, CallPages, Present

LEMMA HistoryStep == HistoryInv /\ [Next]_vars => HistoryInv'
<1> SUFFICES ASSUME HistoryInv, [Next]_vars PROVE HistoryInv'
  OBVIOUS
<1> USE DEF HistoryInv
<1>t. TypeOK'
  BY TypeStep
<1>n. nextRoute \in Nat /\ nextRoute' \in Nat
  BY <1>t DEF TypeOK
<1>a. ASSUME HistoryShape', Continues, Follows, nextRoute <= nextRoute'
      PROVE  HistoryInv'
  BY <1>a, <1>t, <1>n, CallPagesStep DEF HistoryShape
<1>b. calls' \subseteq calls => Follows
  BY DEF Follows
<1>c. ASSUME NEW c, GoHome(c) PROVE nextRoute <= nextRoute'
  BY <1>c, <1>n DEF GoHome, Replace
<1>1. CASE Boot
  BY <1>1, <1>t DEF Boot, HistoryShape, IdsDistinct, IdsBelow, NothingAbove,
                    AllHeld, CallPages, Present
<1>2. CASE EndProcess
  BY <1>2, <1>t, EndShape
<1>3. CASE Back
  <2>1. PICK r \in routes :
          \/ EndProcess
          \/ /\ routes' = Pop(routes, r)
             /\ UNCHANGED <<running, nextRoute, calls, nextCall, currentUser,
                            native>>
    BY <1>3 DEF Back
  <2>2. CASE routes' = Pop(routes, r) /\ UNCHANGED <<nextRoute, calls>>
    <3>1. HistoryShape' /\ Continues
      BY <2>2, PhaseShape DEF Pop, Phases
    <3> QED BY <3>1, <2>2, <1>a, <1>b, <1>n
  <2> QED BY <2>1, <2>2, <1>2
<1>4. CASE OpenArticle
  BY <1>4, <1>a, <1>b, <1>n, PushShape DEF OpenArticle
<1>5. ASSUME NEW r \in routes, NEW kind, NEW user, NEW stage,
             TapOn("login", r), Start(r, kind, user, stage),
             UNCHANGED <<routes, nextRoute>>
      PROVE  HistoryInv'
  <2>1. Follows
    BY <1>5 DEF Follows, Start, TapOn
  <2> QED BY <1>5, <2>1, <1>a, <1>n, SameShape
<1>6. CASE TapSignOut
  <2>1. Follows
    BY <1>6 DEF Follows, TapSignOut, Start
  <2> QED BY <1>6, <2>1, <1>a, <1>n, ReplaceShape DEF TapSignOut, Replace
<1>7. CASE TapGoogle \/ \E u \in Users : TapLogin(u) \/ TapRegister(u)
  BY <1>7, <1>5 DEF TapGoogle, TapLogin, TapRegister
<1>8. CASE SplashTimeout
  BY <1>8, <1>a, <1>b, <1>n, ReplaceShape DEF SplashTimeout, Replace
<1>9. ASSUME NEW i, EnterPage(i) PROVE HistoryInv'
  <2>1. PICK r \in routes :
          /\ r.phase = "pushing" /\ routes' = Entered(routes, r)
          /\ UNCHANGED <<nextRoute, calls>>
    BY <1>9 DEF EnterPage
  <2>2. HistoryShape' /\ Continues
    BY <2>1, PhaseShape DEF Entered, Phases
  <2> QED BY <2>1, <2>2, <1>a, <1>b, <1>n
<1>10. ASSUME NEW i, LeavePage(i) PROVE HistoryInv'
  BY <1>10, <1>a, <1>b, <1>n, ExitShape DEF LeavePage
<1>11. ASSUME NEW t, PickAccount(t) PROVE HistoryInv'
  <2>1. Follows
    <3>1. PICK c \in calls :
            \/ \E u \in Users :
                 calls' = (calls \ {c}) \cup {[c EXCEPT !.user = u, !.stage = "tokens"]}
            \/ calls' = (calls \ {c}) \cup {[c EXCEPT !.stage = "failed"]}
      BY <1>11 DEF PickAccount
    <3>2. /\ [c EXCEPT !.stage = "failed"].kind = c.kind
          /\ [c EXCEPT !.stage = "failed"].page = c.page
          /\ \A u : /\ [c EXCEPT !.user = u, !.stage = "tokens"].kind = c.kind
                    /\ [c EXCEPT !.user = u, !.stage = "tokens"].page = c.page
      BY DEF TypeOK, Call
    <3> QED BY <3>1, <3>2 DEF Follows
  <2>2. UNCHANGED <<routes, nextRoute>>
    BY <1>11 DEF PickAccount
  <2>3. HistoryShape' /\ Continues
    BY <2>2, SameShape
  <2> QED BY <2>1, <2>2, <2>3, <1>a, <1>n
<1>12. ASSUME NEW t, SendCredential(t) \/ NativeAnswer(t) PROVE HistoryInv'
  <2>1. Follows
    BY <1>12, AdvanceFollows DEF SendCredential, NativeAnswer
  <2> QED BY <2>1, <1>12, <1>a, <1>n, SameShape DEF SendCredential, NativeAnswer
<1>13. CASE AuthStateEvent
  BY <1>13, <1>a, <1>b, <1>n, SameShape DEF AuthStateEvent
<1>14. ASSUME NEW t, SignedIn(t) \/ IdTokenArrives(t) PROVE HistoryInv'
  <2>1. PICK c \in calls :
          /\ Finish(c)
          /\ GoHome(c) \/ UNCHANGED <<routes, nextRoute>>
    BY <1>14 DEF SignedIn, IdTokenArrives
  <2> QED BY <2>1, <1>a, <1>b, <1>c, <1>n, GoHomeShape, SameShape DEF Finish
<1>15. ASSUME NEW t, SignedInWithGoogle(t) PROVE HistoryInv'
  <2>1. PICK c \in calls :
          \/ SendNext(c, "idToken") /\ UNCHANGED <<routes, nextRoute>>
          \/ Finish(c) /\ GoHome(c)
    BY <1>15 DEF SignedInWithGoogle
  <2>2. CASE SendNext(c, "idToken") /\ UNCHANGED <<routes, nextRoute>>
    BY <2>2, <1>a, <1>n, AdvanceFollows, SameShape
  <2>3. CASE Finish(c) /\ GoHome(c)
    BY <2>3, <1>a, <1>b, <1>c, GoHomeShape DEF Finish
  <2> QED BY <2>1, <2>2, <2>3
<1>16. ASSUME NEW t, SignInFailed(t) \/ IdTokenFails(t) \/ SignOutAnswered(t)
       PROVE  HistoryInv'
  BY <1>16, <1>a, <1>b, <1>n, SameShape
  DEF SignInFailed, IdTokenFails, SignOutAnswered, Finish
<1>17. ASSUME NEW t, Registered(t) \/ RegisterFailed(t) PROVE HistoryInv'
  <2>1. PICK c \in calls, result \in {"ok", "failed"} :
          Finish(c) /\ ShowSignup(c, result)
    BY <1>17 DEF Registered, RegisterFailed
  <2>2. HistoryShape' /\ Continues
    BY <2>1, SignupShape
  <2>3. nextRoute' = nextRoute /\ calls' \subseteq calls
    BY <2>1 DEF Finish, ShowSignup
  <2> QED BY <2>2, <2>3, <1>a, <1>b, <1>n
<1>18. CASE UNCHANGED vars
  BY <1>18, <1>a, <1>b, <1>n, SameShape DEF vars
<1> QED
  BY <1>1, <1>2, <1>3, <1>4, <1>6, <1>7, <1>8, <1>9, <1>10, <1>11, <1>12, <1>13,
     <1>14, <1>15, <1>16, <1>17, <1>18
  DEF Next, User, Kill, Platform, Reply

LEMMA HistoryAlways == Spec => []HistoryInv
BY HistoryInit, HistoryStep, PTL DEF Spec

\* Whatever is pressed and however late the answers come, a login page or the
\* splash page that can be seen is on top: the back button never returns to
\* one from a page above it.
THEOREM NoWayBackTheorem == Spec => []NoWayBack
<1>1. HistoryInv => NoWayBack
  BY DEF HistoryInv, HistoryShape, NothingAbove, NoWayBack, IsTop, Present
<1> QED BY <1>1, HistoryAlways, PTL

-----------------------------------------------------------------------------
(***************************************************************************)
(* Late answers.                                                            *)
(***************************************************************************)

\* No step but a replacement marks an entry as replaced.
NoneReplaced == \A e \in routes' :
    e.phase = "removing" => \E f \in routes : f.id = e.id /\ f.phase = "removing"

\* The page on top, when it is neither a splash nor a login page, or when a
\* splash page is present, is no settled login page.
LEMMA TopIsUnique ==
    ASSUME HistoryInv, NEW r \in Present(routes), NEW s \in Present(routes),
           r.page = "login", s.page = "splash" \/ IsTop(routes, s)
    PROVE  r = s
<1>1. r \in routes /\ s \in routes /\ r.id \in Nat /\ s.id \in Nat
  BY DEF HistoryInv, TypeOK, Route, Present
<1>2. s.id <= r.id
  BY <1>1 DEF HistoryInv, HistoryShape, NothingAbove
<1>3. r.id <= s.id
  BY <1>1 DEF HistoryInv, HistoryShape, NothingAbove, IsTop
<1> QED BY <1>1, <1>2, <1>3 DEF HistoryInv, HistoryShape, IdsDistinct

\* A call that leads home while a settled login page is shown was started by
\* that page or by a page that is being popped.
LEMMA GoHomeFrom ==
    ASSUME HistoryInv, NEW c \in calls, c.kind # "signOut",
           NEW q \in routes, q.id = c.page,
           NEW r \in routes, r.page = "login", r.phase = "idle"
    PROVE  q = r \/ q.phase = "popping"
<1>1. q.page = "login" /\ q.phase \in Phases /\ q.id \in Nat /\ r.id \in Nat
  BY DEF HistoryInv, CallPages, TypeOK, Route
<1>2. r \in Present(routes) /\ q.id <= r.id
  BY DEF HistoryInv, HistoryShape, NothingAbove, Present
<1>3. CASE q.phase \in {"pushing", "idle"}
  <2>1. q \in Present(routes) /\ r.id <= q.id
    BY <1>1, <1>3 DEF HistoryInv, HistoryShape, NothingAbove, Present
  <2> QED BY <1>1, <1>2, <2>1 DEF HistoryInv, HistoryShape, IdsDistinct
<1>4. CASE q.phase = "removing"
  <2>1. q.id # r.id
    BY <1>4 DEF HistoryInv, HistoryShape, IdsDistinct
  <2>2. r \in Above(routes, q)
    BY <1>1, <1>2, <2>1 DEF Above
  <2> QED BY <1>4, <2>2 DEF HistoryInv, HistoryShape, AllHeld, Held
<1> QED BY <1>1, <1>3, <1>4 DEF Phases

LEMMA PhaseNoneReplaced ==
    ASSUME NEW r \in routes, NEW phase \in {"idle", "popping"}, TypeOK,
           routes' = Flush((routes \ {r}) \cup {InPhase(r, phase)})
    PROVE  NoneReplaced
<1>1. InPhase(r, phase).phase = phase
  BY InPhaseFacts DEF TypeOK, Phases
<1>2. \A e \in routes' : e = InPhase(r, phase) \/ e \in routes
  BY FlushFacts
<1> QED BY <1>1, <1>2 DEF NoneReplaced

LEMMA SignupNoneReplaced ==
    ASSUME TypeOK, NEW c, NEW result, ShowSignup(c, result)
    PROVE  NoneReplaced
<1>1. \A e \in routes : /\ [e EXCEPT !.signup = result].id = e.id
                        /\ [e EXCEPT !.signup = result].phase = e.phase
  BY DEF TypeOK, Route
<1> SUFFICES ASSUME NEW e \in routes', e.phase = "removing"
             PROVE  \E f \in routes : f.id = e.id /\ f.phase = "removing"
  BY DEF NoneReplaced
<1>2. PICK f \in routes :
        e = IF f.id = c.page THEN [f EXCEPT !.signup = result] ELSE f
  BY DEF ShowSignup
<1>3. f.id = e.id /\ f.phase = e.phase
  BY <1>1, <1>2
<1> QED BY <1>3

LEMMA SettledLoginStep ==
    ASSUME HistoryInv, [Next]_vars,
           NEW r \in routes, r.page = "login", r.phase = "idle",
           InPhase(r, "removing") \in routes'
    PROVE  \E c \in calls \ calls' : \E q \in routes :
              q.id = c.page /\ (q = r \/ q.phase = "popping")
<1> USE DEF HistoryInv
<1>1. /\ InPhase(r, "removing").id = r.id
      /\ InPhase(r, "removing").phase = "removing"
  BY InPhaseFacts DEF TypeOK, Phases
<1>2. ~NoneReplaced
  BY <1>1 DEF NoneReplaced, HistoryShape, IdsDistinct
<1>3. r \in Present(routes)
  BY DEF Present
<1>u. UNCHANGED routes => NoneReplaced
  BY DEF NoneReplaced
<1>4. CASE Boot
  BY <1>4, <1>1, <1>2 DEF Boot, NoneReplaced
<1>5. CASE EndProcess
  BY <1>5, <1>2 DEF EndProcess, NoneReplaced
<1>6. CASE Back
  <2>1. PICK s \in routes : EndProcess \/ routes' = Pop(routes, s)
    BY <1>6 DEF Back
  <2> QED BY <2>1, <1>2, <1>5, PhaseNoneReplaced DEF Pop
<1>7. CASE OpenArticle
  <2>1. \A e \in routes' : e = NewPage("detail") \/ e \in routes
    BY <1>7, FlushFacts DEF OpenArticle, Push
  <2> QED BY <2>1, <1>2 DEF NoneReplaced, NewPage
<1>8. CASE \E i : EnterPage(i)
  <2>1. PICK s \in routes : routes' = Entered(routes, s)
    BY <1>8 DEF EnterPage
  <2> QED BY <2>1, <1>2, PhaseNoneReplaced DEF Entered
<1>9. CASE \E i : LeavePage(i)
  <2>1. routes' \subseteq routes
    BY <1>9, FlushFacts DEF LeavePage, Exited
  <2> QED BY <2>1, <1>2 DEF NoneReplaced
<1>10. CASE SplashTimeout
  BY <1>10, <1>3, TopIsUnique DEF SplashTimeout
<1>11. CASE TapSignOut
  BY <1>11, <1>3, TopIsUnique DEF TapSignOut, TapOn, IsTop
<1>12. ASSUME NEW c \in calls, c.kind # "signOut", Finish(c), GoHome(c)
       PROVE  \E d \in calls \ calls' : \E q \in routes :
                 q.id = d.page /\ (q = r \/ q.phase = "popping")
  <2>1. Mounted(routes, c.page)
    BY <1>12, <1>2, <1>u DEF GoHome
  <2>2. PICK q \in routes : q.id = c.page
    BY <2>1 DEF Mounted
  <2>3. q = r \/ q.phase = "popping"
    BY <1>12, <2>2, GoHomeFrom
  <2> QED BY <1>12, <2>2, <2>3 DEF Finish
<1>13. CASE \E t : SignedIn(t)
  BY <1>13, <1>12 DEF SignedIn
<1>14. CASE \E t : SignedInWithGoogle(t)
  BY <1>14, <1>12, <1>2, <1>u DEF SignedInWithGoogle
<1>15. CASE \E t : IdTokenArrives(t)
  BY <1>15, <1>12, <1>2, <1>u DEF IdTokenArrives
<1>16. CASE \E t : Registered(t) \/ RegisterFailed(t)
  BY <1>16, <1>2, SignupNoneReplaced DEF Registered, RegisterFailed
<1>17. CASE \/ UNCHANGED vars \/ AuthStateEvent \/ TapGoogle
            \/ \E u \in Users : TapLogin(u) \/ TapRegister(u)
            \/ \E t : Platform(t) \/ SignInFailed(t) \/ IdTokenFails(t)
                      \/ SignOutAnswered(t)
  <2>1. UNCHANGED routes
    BY <1>17 DEF vars, AuthStateEvent, TapGoogle, TapLogin, TapRegister, Platform,
                 PickAccount, SendCredential, NativeAnswer, SignInFailed,
                 IdTokenFails, SignOutAnswered
  <2> QED BY <2>1, <1>2, <1>u
<1> QED
  BY <1>4, <1>5, <1>6, <1>7, <1>8, <1>9, <1>10, <1>11, <1>13, <1>14, <1>15,
     <1>16, <1>17
  DEF Next, User, Kill, Reply

\* For any number of accounts and of overlapping calls, the answer of a login
\* page that was replaced never takes a settled login page away.
THEOREM SettledLoginTheorem == Spec => SettledLoginKeepsOwnCalls
<1>1. HistoryInv /\ [Next]_vars =>
        \A r \in routes :
          r.page = "login" /\ r.phase = "idle" /\ InPhase(r, "removing") \in routes'
            => \E c \in calls \ calls' : \E q \in routes :
                  q.id = c.page /\ (q = r \/ q.phase = "popping")
  BY SettledLoginStep
<1> QED BY <1>1, HistoryAlways, PTL DEF Spec, SettledLoginKeepsOwnCalls

-----------------------------------------------------------------------------
(***************************************************************************)
(* Sign-up.  A form that reports success is shown to a user who is signed   *)
(* in, whatever sign-out was under way when the account was created.        *)
(*                                                                          *)
(* The argument is about the order of two calls.  A sign-out sent before    *)
(* the registration is carried out and answered before it, by the order of  *)
(* the plugin.  A sign-out sent after it was started on a home page, and    *)
(* the form's page was no longer present by then.                           *)
(***************************************************************************)
\* A page that can be shown now or after the pages above it are popped.
Shown(i) == \E r \in Present(routes) : r.id = i

SignupPages == \A r \in routes : r.signup # "none" => r.page = "login"

CallsInOrder ==
    /\ \A c \in calls : c.ticket < nextCall
    /\ \A c, d \in calls : c.ticket = d.ticket => c = d

\* Only a Google sign-in has more stages than being sent and answered, and a
\* call that can sign somebody in knows whom.
CallStages ==
    \A c \in calls :
        /\ c.stage \in {"picker", "tokens", "idToken"} => c.kind = "google"
        /\ c.kind # "signOut" /\ c.stage \in {"tokens", "sent", "ok", "idToken"}
             => c.user \in Users

\* The page of a registration sent before a sign-out is not present.
LaterSignOut ==
    \A c, d \in calls :
        c.kind = "register" /\ d.kind = "signOut" /\ c.ticket < d.ticket
          => ~Shown(c.page)

\* Once the account is created nothing is left that could sign it out.
AccountStays ==
    \A c \in calls :
        c.kind = "register" /\ c.stage = "ok" /\ Shown(c.page) =>
          /\ native \in Users
          /\ \A d \in calls : d.kind = "signOut" => d.stage # "sent"

SignedUp ==
    \A r \in Present(routes) : r.signup = "ok" =>
        /\ currentUser \in Users /\ native \in Users
        /\ \A d \in calls : d.kind # "signOut"

SignUpInv ==
    /\ SignupPages /\ CallsInOrder /\ CallStages
    /\ LaterSignOut /\ AccountStays /\ SignedUp

LEMMA SignUpInit == Init => SignUpInv
BY DEF Init, SignUpInv, SignupPages, CallsInOrder, CallStages, LaterSignOut,
       AccountStays, SignedUp, Present

-----------------------------------------------------------------------------
(***************************************************************************)
(* Pages: what is shown after a step was shown before it with the same      *)
(* message, or is a new page without one.                                   *)
(***************************************************************************)
SamePages ==
    /\ \A r \in routes' :
          \/ r.id = nextRoute /\ r.signup = "none"
          \/ \E s \in routes : s.id = r.id /\ s.page = r.page /\ s.signup = r.signup
    /\ \A r \in Present(routes') :
          \/ r.id = nextRoute /\ r.signup = "none"
          \/ \E s \in Present(routes) : s.id = r.id /\ s.signup = r.signup

LEMMA SameRoutes ==
    ASSUME UNCHANGED routes
    PROVE  SamePages
BY DEF SamePages

LEMMA ReplacePages ==
    ASSUME TypeOK, NEW page, Replace(page)
    PROVE  SamePages
<1> DEFINE new == NewPage(page)
<1>1. new.id = nextRoute /\ new.signup = "none"
  BY DEF NewPage
<1>2. \A e \in routes : /\ InPhase(e, "removing").id = e.id
                        /\ InPhase(e, "removing").page = e.page
                        /\ InPhase(e, "removing").phase = "removing"
                        /\ InPhase(e, "removing").signup = e.signup
  BY InPhaseFacts DEF TypeOK, Phases
<1>3. \A r \in routes' : r = new \/ \E e \in routes :
         r = IF IsTop(routes, e) THEN InPhase(e, "removing") ELSE e
  BY FlushFacts DEF Replace, PushReplacement
<1>4. \A r \in routes' : r = new \/ \E e \in routes :
         r.id = e.id /\ r.page = e.page /\ r.signup = e.signup
  BY <1>2, <1>3
<1>5. \A r \in Present(routes') : r = new \/ r \in Present(routes)
  BY <1>2, <1>3 DEF Present
<1> QED BY <1>1, <1>4, <1>5 DEF SamePages

LEMMA PushPages ==
    ASSUME OpenArticle
    PROVE  SamePages
<1>1. \A r \in routes' : r = NewPage("detail") \/ r \in routes
  BY FlushFacts DEF OpenArticle, Push
<1> QED BY <1>1 DEF SamePages, NewPage, Present

LEMMA PhasePages ==
    ASSUME TypeOK, NEW r \in routes, NEW phase \in {"idle", "popping"},
           routes' = Flush((routes \ {r}) \cup {InPhase(r, phase)}),
           phase = "idle" => r.phase = "pushing"
    PROVE  SamePages
<1> DEFINE new == InPhase(r, phase)
<1>1. /\ new.id = r.id /\ new.page = r.page /\ new.signup = r.signup
      /\ new.phase = phase
  BY InPhaseFacts DEF TypeOK, Phases
<1>2. \A e \in routes' : e = new \/ e \in routes
  BY FlushFacts
<1>3. \A e \in Present(routes') : (e = new /\ r \in Present(routes)) \/ e \in Present(routes)
  BY <1>1, <1>2 DEF Present
<1> QED BY <1>1, <1>2, <1>3 DEF SamePages

LEMMA ExitPages ==
    ASSUME NEW r \in routes, routes' = Exited(routes, r)
    PROVE  SamePages
<1>1. routes' \subseteq routes
  BY FlushFacts DEF Exited
<1> QED BY <1>1 DEF SamePages, Present

LEMMA GoHomePages ==
    ASSUME TypeOK, NEW c, GoHome(c)
    PROVE  SamePages
BY ReplacePages, SameRoutes DEF GoHome

\* Such a step shows no page of an earlier registration anew.
LEMMA PagesFacts ==
    ASSUME HistoryInv, SignupPages, SamePages
    PROVE  /\ SignupPages'
           /\ \A c \in calls : c.kind # "signOut" /\ Shown(c.page)' => Shown(c.page)
           /\ \A r \in Present(routes') : r.signup = "ok" =>
                 \E s \in Present(routes) : s.id = r.id /\ s.signup = "ok"
<1>1. SignupPages'
  BY DEF SignupPages, SamePages
<1>2. ASSUME NEW c \in calls, c.kind # "signOut", Shown(c.page)'
      PROVE  Shown(c.page)
  <2>1. c.page \in Nat /\ nextRoute \in Nat /\ c.page < nextRoute
    BY <1>2 DEF HistoryInv, CallPages, TypeOK, Call
  <2>2. PICK r \in Present(routes') : r.id = c.page
    BY <1>2 DEF Shown
  <2> QED BY <2>1, <2>2 DEF SamePages, Shown
<1>3. \A r \in Present(routes') : r.signup = "ok" =>
          \E s \in Present(routes) : s.id = r.id /\ s.signup = "ok"
  BY DEF SamePages
<1> QED BY <1>1, <1>2, <1>3

-----------------------------------------------------------------------------
(***************************************************************************)
(* Steps.                                                                   *)
(***************************************************************************)

\* A step that ends calls, or none, and gives Dart a user or the native one.
LEMMA AnswerKeeps ==
    ASSUME HistoryInv, SignUpInv, SamePages,
           calls' \subseteq calls, nextCall' = nextCall, native' = native,
           \/ currentUser' \in Users \cup {currentUser, native}
           \/ \E d \in calls : d.kind = "signOut"
    PROVE  SignUpInv'
<1> USE DEF SignUpInv
<1>1. SignupPages'
  BY PagesFacts
<1>2. CallsInOrder' /\ CallStages'
  BY DEF CallsInOrder, CallStages
<1>3. LaterSignOut'
  BY PagesFacts DEF LaterSignOut
<1>4. AccountStays'
  BY PagesFacts DEF AccountStays
<1>5. SignedUp'
  BY PagesFacts DEF SignedUp
<1> QED BY <1>1, <1>2, <1>3, <1>4, <1>5

\* The press of a button of a login page.
LEMMA StartKeeps ==
    ASSUME HistoryInv, SignUpInv, UNCHANGED <<routes, currentUser, native>>,
           NEW r \in routes, NEW kind \in {"email", "google", "register"},
           NEW user, NEW stage, Start(r, kind, user, stage),
           \/ stage = "sent" /\ user \in Users
           \/ stage = "picker" /\ kind = "google"
    PROVE  SignUpInv'
<1> USE DEF SignUpInv
<1> DEFINE new == [ticket |-> nextCall, kind |-> kind, page |-> r.id,
                   user |-> user, stage |-> stage]
<1>1. /\ calls' = calls \cup {new} /\ nextCall' = nextCall + 1
      /\ nextCall \in Nat
      /\ \A c \in calls : c.ticket \in Nat /\ c.ticket < nextCall
  BY DEF Start, HistoryInv, TypeOK, Call, CallsInOrder
<1>2. /\ new.ticket = nextCall /\ new.kind = kind /\ new.stage = stage
      /\ new.user = user
  OBVIOUS
<1> HIDE DEF new
<1>3. SignupPages'
  BY DEF SignupPages
<1>4. CallsInOrder'
  BY <1>1, <1>2 DEF CallsInOrder
<1>5. CallStages'
  BY <1>1, <1>2 DEF CallStages
<1>6. \A i : Shown(i)' <=> Shown(i)
  BY DEF Shown
<1>7. LaterSignOut'
  BY <1>1, <1>2, <1>6 DEF LaterSignOut
<1>8. AccountStays'
  BY <1>1, <1>2, <1>6 DEF AccountStays
<1>9. SignedUp'
  BY <1>1, <1>2 DEF SignedUp
<1> QED BY <1>3, <1>4, <1>5, <1>7, <1>8, <1>9

\* With a home page on top no login page is present, so that no registration's
\* page is, and no form that reports success.
LEMMA SignOutKeeps ==
    ASSUME HistoryInv, SignUpInv, TapSignOut
    PROVE  SignUpInv'
<1> USE DEF SignUpInv
<1>1. PICK h \in routes : /\ IsTop(routes, h) /\ h.page = "home"
                          /\ Start(h, "signOut", NoUser, "sent")
                          /\ Replace("login")
                          /\ UNCHANGED <<currentUser, native>>
  BY DEF TapSignOut, TapOn
<1> DEFINE new == [ticket |-> nextCall, kind |-> "signOut", page |-> h.id,
                   user |-> NoUser, stage |-> "sent"]
<1>2. /\ calls' = calls \cup {new} /\ nextCall' = nextCall + 1
      /\ nextCall \in Nat
      /\ \A c \in calls : c.ticket \in Nat /\ c.ticket < nextCall
  BY <1>1 DEF Start, HistoryInv, TypeOK, Call, CallsInOrder
<1>3. new.ticket = nextCall /\ new.kind = "signOut" /\ new.stage = "sent"
  OBVIOUS
<1> HIDE DEF new
<1>4. SamePages
  BY <1>1, ReplacePages DEF HistoryInv
<1>5. \A s \in Present(routes) : s.page # "login"
  BY <1>1, TopIsUnique DEF IsTop
<1>6. \A c \in calls : c.kind # "signOut" => ~Shown(c.page)'
  <2>1. \A c \in calls : c.kind # "signOut" => ~Shown(c.page)
    BY <1>5 DEF Shown, Present, HistoryInv, CallPages
  <2> QED BY <2>1, <1>4, PagesFacts
<1>7. \A r \in Present(routes') : r.signup # "ok"
  <2>1. \A s \in Present(routes) : s.signup # "ok"
    BY <1>5 DEF SignupPages, Present
  <2> QED BY <2>1, <1>4, PagesFacts
<1>8. SignupPages'
  BY <1>4, PagesFacts
<1>9. CallsInOrder' /\ CallStages'
  BY <1>2, <1>3 DEF CallsInOrder, CallStages
<1>10. LaterSignOut' /\ AccountStays'
  BY <1>2, <1>3, <1>6 DEF LaterSignOut, AccountStays
<1>11. SignedUp'
  BY <1>7 DEF SignedUp
<1> QED BY <1>8, <1>9, <1>10, <1>11

\* A Google sign-in moves on, with its ticket or a new one.
LEMMA GoogleKeeps ==
    ASSUME HistoryInv, SignUpInv, UNCHANGED <<routes, native>>,
           NEW c \in calls, c.kind = "google", NEW d, d.kind = "google",
           calls' = (calls \ {c}) \cup {d},
           \/ d.ticket = c.ticket /\ nextCall' = nextCall
           \/ d.ticket = nextCall /\ nextCall' = nextCall + 1,
           d.stage = "failed" \/ d.user \in Users,
           currentUser' \in Users \cup {currentUser}
    PROVE  SignUpInv'
<1> USE DEF SignUpInv
<1>1. /\ nextCall \in Nat
      /\ \A e \in calls : e.ticket \in Nat /\ e.ticket < nextCall
  BY DEF HistoryInv, TypeOK, Call, CallsInOrder
<1>2. SignupPages'
  BY DEF SignupPages
<1>3. CallsInOrder'
  BY <1>1 DEF CallsInOrder
<1>4. CallStages'
  BY DEF CallStages
<1>5. \A i : Shown(i)' <=> Shown(i)
  BY DEF Shown
<1>6. LaterSignOut'
  BY <1>5 DEF LaterSignOut
<1>7. AccountStays'
  BY <1>5 DEF AccountStays
<1>8. SignedUp'
  BY DEF SignedUp
<1> QED BY <1>2, <1>3, <1>4, <1>6, <1>7, <1>8

\* The SDK completes a call: it takes the user away only for a sign-out, and
\* completes a registration only when no earlier sign-out is left to be done.
LEMMA NativeKeeps ==
    ASSUME HistoryInv, SignUpInv, NEW t, NativeAnswer(t)
    PROVE  SignUpInv'
<1> USE DEF SignUpInv
<1>1. PICK c \in calls, stage \in {"ok", "failed"} :
        /\ c.stage = "sent" /\ ~SignOutAhead(c, {"sent"})
        /\ Advance(c, stage)
        /\ stage = "ok" => native' = c.user
        /\ stage = "failed" => native' = native
        /\ UNCHANGED <<routes, currentUser>>
  BY DEF NativeAnswer
<1> DEFINE new == [c EXCEPT !.stage = stage]
<1>2. /\ calls' = (calls \ {c}) \cup {new} /\ nextCall' = nextCall
      /\ new.ticket = c.ticket /\ new.kind = c.kind /\ new.page = c.page
      /\ new.user = c.user /\ new.stage = stage
      /\ \A e \in calls : e.ticket \in Nat
  BY <1>1 DEF Advance, HistoryInv, TypeOK, Call
<1> HIDE DEF new
<1>3. SignupPages'
  BY <1>1 DEF SignupPages
<1>4. CallsInOrder'
  BY <1>2 DEF CallsInOrder
<1>5. CallStages'
  BY <1>1, <1>2 DEF CallStages
<1>6. \A i : Shown(i)' <=> Shown(i)
  BY <1>1 DEF Shown
<1>7. LaterSignOut'
  BY <1>2, <1>6 DEF LaterSignOut
<1>8. AccountStays'
  <2> SUFFICES ASSUME NEW e \in calls', e.kind = "register", e.stage = "ok",
                      Shown(e.page)'
               PROVE  /\ native' \in Users
                      /\ \A d \in calls' : d.kind = "signOut" => d.stage # "sent"
    BY DEF AccountStays
  <2>1. CASE e = new
    \* Sign-outs before it are done, and sign-outs after it would have found
    \* its page gone.
    <3>1. /\ stage = "ok" /\ c.kind = "register" /\ Shown(c.page)
          /\ native' \in Users
      BY <1>1, <1>2, <1>6, <2>1 DEF CallStages
    <3>2. ASSUME NEW d \in calls, d.kind = "signOut" PROVE d.stage # "sent"
      <4>1. d.ticket # c.ticket
        BY <3>1, <3>2 DEF CallsInOrder
      <4>2. ~(c.ticket < d.ticket)
        BY <3>1, <3>2 DEF LaterSignOut
      <4>3. d.ticket < c.ticket
        BY <1>2, <4>1, <4>2
      <4> QED BY <1>1, <3>2, <4>3 DEF SignOutAhead
    <3> QED BY <1>1, <1>2, <3>1, <3>2
  <2>2. CASE e # new
    \* With another account just created, no sign-out was being done.
    <3>1. e \in calls /\ Shown(e.page) /\ native \in Users
      BY <1>2, <1>6, <2>2 DEF AccountStays
    <3>2. \A d \in calls : d.kind = "signOut" => d.stage # "sent"
      BY <3>1 DEF AccountStays
    <3>3. native' \in Users
      BY <1>1, <3>1, <3>2 DEF CallStages
    <3> QED BY <1>1, <1>2, <3>2, <3>3
  <2> QED BY <2>1, <2>2
<1>9. SignedUp'
  <2> SUFFICES ASSUME NEW r \in Present(routes), r.signup = "ok"
               PROVE  /\ currentUser' \in Users /\ native' \in Users
                      /\ \A d \in calls' : d.kind # "signOut"
    BY <1>1 DEF SignedUp
  <2>1. /\ currentUser \in Users /\ native \in Users
        /\ \A d \in calls : d.kind # "signOut"
    BY DEF SignedUp
  <2> QED BY <1>1, <1>2, <2>1 DEF CallStages
<1> QED BY <1>3, <1>4, <1>5, <1>7, <1>8, <1>9

\* The form shows its message.
LEMMA RegisterKeeps ==
    ASSUME HistoryInv, SignUpInv, NEW t, Registered(t) \/ RegisterFailed(t)
    PROVE  SignUpInv'
<1> USE DEF SignUpInv
<1>1. PICK c \in calls, result \in {"ok", "failed"} :
        /\ c.kind = "register"
        /\ c.stage = result
        /\ ~SignOutAhead(c, {"sent", "ok", "failed"})
        /\ Finish(c) /\ ShowSignup(c, result)
        /\ native' = native
        /\ result = "ok" => currentUser' = c.user
        /\ result = "failed" => currentUser' = currentUser
  BY DEF Registered, RegisterFailed, Arrives
<1> DEFINE told(r) == IF r.id = c.page THEN [r EXCEPT !.signup = result] ELSE r
<1>2. /\ calls' = calls \ {c} /\ nextCall' = nextCall
      /\ \A r \in routes' : \E s \in routes : r = told(s)
      /\ \A d \in calls : d.ticket \in Nat /\ d.stage \in
            {"picker", "tokens", "sent", "ok", "failed", "idToken"}
  BY <1>1 DEF Finish, ShowSignup, HistoryInv, TypeOK, Call
<1>3. \A s \in routes :
        /\ told(s).id = s.id /\ told(s).page = s.page /\ told(s).phase = s.phase
        /\ told(s).signup = IF s.id = c.page THEN result ELSE s.signup
  BY DEF HistoryInv, TypeOK, Route
<1> HIDE DEF told
<1>4. \A r \in routes' : \E s \in routes :
        /\ r.id = s.id /\ r.page = s.page /\ r.phase = s.phase
        /\ r.signup = IF s.id = c.page THEN result ELSE s.signup
  BY <1>2, <1>3
<1>5. \A i : Shown(i)' => Shown(i)
  BY <1>4 DEF Shown, Present
<1>6. SignupPages'
  BY <1>1, <1>4 DEF SignupPages, HistoryInv, CallPages
<1>7. CallsInOrder' /\ CallStages'
  BY <1>2 DEF CallsInOrder, CallStages
<1>8. LaterSignOut' /\ AccountStays'
  BY <1>1, <1>2, <1>5 DEF LaterSignOut, AccountStays
<1>9. SignedUp'
  <2> SUFFICES ASSUME NEW r \in Present(routes'), r.signup = "ok"
               PROVE  /\ currentUser' \in Users /\ native' \in Users
                      /\ \A d \in calls' : d.kind # "signOut"
    BY DEF SignedUp
  <2>1. PICK s \in routes :
          /\ r.id = s.id /\ r.phase = s.phase
          /\ r.signup = IF s.id = c.page THEN result ELSE s.signup
    BY <1>4 DEF Present
  <2>2. s \in Present(routes)
    BY <2>1 DEF Present
  <2>3. CASE s.id = c.page
    <3>1. /\ result = "ok" /\ Shown(c.page)
          /\ currentUser' \in Users /\ native' \in Users
      BY <1>1, <2>1, <2>2, <2>3 DEF Shown, CallStages, AccountStays
    <3>2. ASSUME NEW d \in calls, d.kind = "signOut" PROVE FALSE
      <4>1. d.stage \in {"sent", "ok", "failed"}
        BY <1>2, <3>2 DEF CallStages
      <4>2. d.ticket # c.ticket
        BY <1>1, <3>2 DEF CallsInOrder
      <4>3. ~(c.ticket < d.ticket)
        BY <1>1, <3>1, <3>2 DEF LaterSignOut
      <4>4. d.ticket < c.ticket
        BY <1>2, <4>2, <4>3
      <4> QED BY <1>1, <3>2, <4>1, <4>4 DEF SignOutAhead
    <3> QED BY <1>2, <3>1, <3>2
  <2>4. CASE s.id # c.page
    <3>1. /\ currentUser \in Users /\ native \in Users
          /\ \A d \in calls : d.kind # "signOut"
      BY <2>1, <2>2, <2>4 DEF SignedUp
    <3> QED BY <1>1, <1>2, <3>1 DEF CallStages
  <2> QED BY <2>3, <2>4
<1> QED BY <1>6, <1>7, <1>8, <1>9

LEMMA BeginKeeps ==
    ASSUME Boot \/ EndProcess
    PROVE  SignUpInv'
BY DEF Boot, EndProcess, SignUpInv, SignupPages, CallsInOrder, CallStages,
       LaterSignOut, AccountStays, SignedUp, Present

LEMMA SignUpStep == HistoryInv /\ SignUpInv /\ [Next]_vars => SignUpInv'
<1> SUFFICES ASSUME HistoryInv, SignUpInv, [Next]_vars PROVE SignUpInv'
  OBVIOUS
<1>t. TypeOK
  BY DEF HistoryInv
<1>1. CASE Boot \/ EndProcess
  BY <1>1, BeginKeeps
<1>2. CASE Back
  <2>1. PICK r \in routes :
          \/ EndProcess
          \/ /\ routes' = Pop(routes, r)
             /\ UNCHANGED <<calls, nextCall, currentUser, native>>
    BY <1>2 DEF Back
  <2>2. routes' = Pop(routes, r) => SamePages
    BY <1>t, PhasePages DEF Pop
  <2> QED BY <2>1, <2>2, <1>1, AnswerKeeps
<1>3. CASE OpenArticle
  BY <1>3, PushPages, AnswerKeeps DEF OpenArticle
<1>4. CASE SplashTimeout
  BY <1>t, <1>4, ReplacePages, AnswerKeeps DEF SplashTimeout
<1>5. ASSUME NEW i, EnterPage(i) PROVE SignUpInv'
  <2>1. PICK r \in routes :
          /\ r.phase = "pushing" /\ routes' = Entered(routes, r)
          /\ UNCHANGED <<calls, nextCall, currentUser, native>>
    BY <1>5 DEF EnterPage
  <2>2. SamePages
    BY <1>t, <2>1, PhasePages DEF Entered
  <2> QED BY <2>1, <2>2, AnswerKeeps
<1>6. ASSUME NEW i, LeavePage(i) PROVE SignUpInv'
  BY <1>6, ExitPages, AnswerKeeps DEF LeavePage
<1>7. ASSUME NEW u \in Users, TapLogin(u) \/ TapRegister(u) PROVE SignUpInv'
  BY <1>7, StartKeeps DEF TapLogin, TapRegister
<1>8. CASE TapGoogle
  BY <1>8, StartKeeps DEF TapGoogle
<1>9. CASE TapSignOut
  BY <1>9, SignOutKeeps
<1>10. ASSUME NEW t, PickAccount(t) PROVE SignUpInv'
  <2>1. PICK c \in calls :
          /\ c.stage = "picker"
          /\ \/ \E u \in Users :
                  calls' = (calls \ {c}) \cup {[c EXCEPT !.user = u, !.stage = "tokens"]}
             \/ calls' = (calls \ {c}) \cup {[c EXCEPT !.stage = "failed"]}
          /\ UNCHANGED <<routes, nextCall, currentUser, native>>
    BY <1>10 DEF PickAccount
  <2>2. c \in Call /\ c.kind = "google"
    BY <1>t, <2>1 DEF TypeOK, SignUpInv, CallStages
  <2>3. PICK d : /\ calls' = (calls \ {c}) \cup {d}
                 /\ \/ \E u \in Users : d = [c EXCEPT !.user = u, !.stage = "tokens"]
                    \/ d = [c EXCEPT !.stage = "failed"]
    BY <2>1
  <2>4. /\ d.kind = "google" /\ d.ticket = c.ticket
        /\ d.stage = "failed" \/ d.user \in Users
    BY <2>2, <2>3 DEF Call
  <2> QED BY <2>1, <2>2, <2>3, <2>4, GoogleKeeps
<1>11. ASSUME NEW c \in calls, c.kind = "google", c.user \in Users,
              NEW stage, Advance(c, stage) \/ SendNext(c, stage),
              UNCHANGED <<routes, native>>,
              currentUser' \in Users \cup {currentUser}
       PROVE  SignUpInv'
  <2>1. c \in Call
    BY <1>t DEF TypeOK
  <2>2. PICK d : /\ calls' = (calls \ {c}) \cup {d}
                 /\ \/ /\ d = [c EXCEPT !.stage = stage]
                       /\ nextCall' = nextCall
                    \/ /\ d = [c EXCEPT !.ticket = nextCall, !.stage = stage]
                       /\ nextCall' = nextCall + 1
    BY <1>11 DEF Advance, SendNext
  <2>3. /\ d.kind = "google" /\ d.user \in Users
        /\ \/ d.ticket = c.ticket /\ nextCall' = nextCall
           \/ d.ticket = nextCall /\ nextCall' = nextCall + 1
    BY <1>11, <2>1, <2>2 DEF Call
  <2> QED BY <1>11, <2>2, <2>3, GoogleKeeps
<1>12. ASSUME NEW t, SendCredential(t) PROVE SignUpInv'
  <2>1. PICK c \in calls : /\ c.stage = "tokens"
                           /\ SendNext(c, "sent") \/ Advance(c, "failed")
                           /\ UNCHANGED <<routes, currentUser, native>>
    BY <1>12 DEF SendCredential
  <2>2. c.kind = "google" /\ c.user \in Users
    BY <2>1 DEF SignUpInv, CallStages
  <2> QED BY <2>1, <2>2, <1>11
<1>13. ASSUME NEW t, NativeAnswer(t) PROVE SignUpInv'
  BY <1>13, NativeKeeps
<1>14. CASE AuthStateEvent
  BY <1>14, SameRoutes, AnswerKeeps DEF AuthStateEvent
<1>15. ASSUME NEW t, SignedIn(t) PROVE SignUpInv'
  <2>1. PICK c \in calls : /\ c.kind = "email" /\ c.stage = "ok"
                           /\ currentUser' = c.user /\ native' = native
                           /\ Finish(c) /\ GoHome(c)
    BY <1>15 DEF SignedIn, Arrives
  <2>2. c.user \in Users
    BY <2>1 DEF SignUpInv, CallStages
  <2> QED BY <1>t, <2>1, <2>2, GoHomePages, AnswerKeeps DEF Finish
<1>16. ASSUME NEW t, SignedInWithGoogle(t) PROVE SignUpInv'
  <2>1. PICK c \in calls :
          /\ c.kind = "google" /\ c.stage = "ok"
          /\ currentUser' = c.user /\ native' = native
          /\ \/ SendNext(c, "idToken") /\ UNCHANGED <<routes, nextRoute>>
             \/ Finish(c) /\ GoHome(c)
    BY <1>16 DEF SignedInWithGoogle, Arrives
  <2>2. c.user \in Users
    BY <2>1 DEF SignUpInv, CallStages
  <2>3. CASE SendNext(c, "idToken") /\ UNCHANGED <<routes, nextRoute>>
    BY <2>1, <2>2, <2>3, <1>11
  <2>4. CASE Finish(c) /\ GoHome(c)
    BY <1>t, <2>1, <2>2, <2>4, GoHomePages, AnswerKeeps DEF Finish
  <2> QED BY <2>1, <2>3, <2>4
<1>17. ASSUME NEW t, IdTokenArrives(t) PROVE SignUpInv'
  <2>1. PICK c \in calls : /\ Finish(c) /\ native' = native
                           /\ GoHome(c) \/ UNCHANGED <<routes, nextRoute>>
                           /\ UNCHANGED currentUser
    BY <1>17 DEF IdTokenArrives, Arrives
  <2>2. SamePages
    BY <1>t, <2>1, GoHomePages, SameRoutes
  <2> QED BY <2>1, <2>2, AnswerKeeps DEF Finish
<1>18. ASSUME NEW t, SignInFailed(t) \/ IdTokenFails(t) PROVE SignUpInv'
  BY <1>18, SameRoutes, AnswerKeeps DEF SignInFailed, IdTokenFails, Arrives, Finish
<1>19. ASSUME NEW t, Registered(t) \/ RegisterFailed(t) PROVE SignUpInv'
  BY <1>19, RegisterKeeps
<1>20. ASSUME NEW t, SignOutAnswered(t) PROVE SignUpInv'
  BY <1>20, SameRoutes, AnswerKeeps DEF SignOutAnswered, Arrives, Finish
<1>21. CASE UNCHANGED vars
  BY <1>21, SameRoutes, AnswerKeeps DEF vars
<1> QED
  BY <1>1, <1>2, <1>3, <1>4, <1>5, <1>6, <1>7, <1>8, <1>9, <1>10, <1>12, <1>13,
     <1>14, <1>15, <1>16, <1>17, <1>18, <1>19, <1>20, <1>21
  DEF Next, User, Kill, Platform, Reply

LEMMA SignUpAlways == Spec => []SignUpInv
BY SignUpInit, SignUpStep, HistoryAlways, PTL DEF Spec

\* However many calls overlap, the sign-up form that says it created an account
\* is not shown to somebody whom the sign-out before it has signed out since.
THEOREM SignedUpTheorem == Spec => []SignedUpMeansSignedIn
<1>1. SignUpInv => SignedUpMeansSignedIn
  BY NoUserAssumption DEF SignUpInv, SignedUp, SignedUpMeansSignedIn, NoUserAssumption
<1> QED BY <1>1, SignUpAlways, PTL
=============================================================================
