-------------------------- MODULE SessionFlowProofs --------------------------
(***************************************************************************)
(* AppSession keeps the promise of UserFlow to a user who starts one call   *)
(* at a time on a page, for every set of accounts, both kinds of build and  *)
(* any number of pages and calls.                                           *)
(*                                                                          *)
(* Such a user leaves a login page only for the answer of its only call,    *)
(* and a home page only for its sign-out.  So there are never more than two *)
(* calls, a sign-out and a later call of the login page shown, and by the   *)
(* order of the plugin the sign-out is over when the later one ends: a home *)
(* page finds no call that could change the user under it.                  *)
(***************************************************************************)
EXTENDS AppSessionFlow, AppSessionProofs, FiniteSetTheorems

\* The pages that can be shown, now or when those above are popped.
Seen == {[id |-> r.id, page |-> r.page] : r \in Present(routes)}

\* A splash, login or home page is alone, but for the articles above the latter.
ArticlesAboveHome(pages) ==
    \A x, y \in pages : x.page # "detail" /\ x # y =>
        x.page = "home" /\ y.page = "detail" /\ x.id < y.id

OneScreen ==
    /\ ArticlesAboveHome(Seen)
    /\ running => \E x \in Seen : x.page # "detail"
    /\ ~running => Seen = {}

CallsFinite == IsFiniteSet(calls)

\* A call that can lead home belongs to the login page that is shown.
OwnCalls ==
    \A c \in calls : c.kind # "signOut" => [id |-> c.page, page |-> "login"] \in Seen

OneOfEach ==
    \A c, d \in calls : (c.kind = "signOut" <=> d.kind = "signOut") => c = d

SignOutFirst ==
    \A c, d \in calls : c.kind = "signOut" /\ d.kind # "signOut" => c.ticket < d.ticket

SignOutOfUser == \A c \in calls : c.kind = "signOut" => c.user = NoUser

HomeIsCalm == \A x \in Seen : x.page = "home" => calls = {} /\ native \in Users

\* Who has signed in natively is the native user, until Dart hears of it.
OkIsNative ==
    \A c \in calls : c.kind # "signOut" /\ c.stage = "ok" =>
        /\ native = c.user
        /\ \A d \in calls : d.kind = "signOut" => d.stage # "sent"

TokenIsCurrent ==
    \A c \in calls : c.stage = "idToken" =>
        native = c.user /\ currentUser = c.user /\ calls = {c}

\* The sessions differ only while somebody's success is on its way.
DifferMeansOk ==
    running /\ currentUser # native => \E c \in calls : c.stage = "ok"

SignedOutOrIn ==
    \A d \in calls : d.kind = "signOut" /\ d.stage = "ok" =>
        native = NoUser \/ \E c \in calls : c.kind # "signOut" /\ c.stage = "ok"

Calm ==
    /\ OneScreen
    /\ CallsFinite /\ OwnCalls /\ OneOfEach /\ SignOutFirst /\ SignOutOfUser
    /\ HomeIsCalm /\ OkIsNative /\ TokenIsCurrent /\ DifferMeansOk /\ SignedOutOrIn

\* What holds of every user.
Base == HistoryInv /\ SignUpInv

-----------------------------------------------------------------------------
(***************************************************************************)
(* Pages.                                                                   *)
(***************************************************************************)

\* What the invariants so far say of pages and calls.
LEMMA BaseFacts ==
    ASSUME Base
    PROVE  /\ TypeOK /\ HistoryShape /\ CallsInOrder /\ CallStages
           /\ \A r \in routes : r \in Route /\ r.id \in Nat /\ r.id < nextRoute
           /\ \A r, s \in routes : r.id = s.id => r = s
           /\ nextRoute \in Nat /\ nextCall \in Nat
           /\ \A c \in calls : /\ c \in Call /\ c.ticket \in Nat /\ c.ticket < nextCall
                               /\ c.stage \in {"picker", "tokens", "sent", "ok", "failed", "idToken"}
BY DEF Base, HistoryInv, HistoryShape, IdsDistinct, IdsBelow, SignUpInv, CallsInOrder,
       TypeOK, Route, Call

LEMMA SeenFacts ==
    /\ \A x \in Seen : \E r \in Present(routes) : x.id = r.id /\ x.page = r.page
    /\ \A r \in Present(routes) : /\ [id |-> r.id, page |-> r.page] \in Seen
                                  /\ r \in routes
BY DEF Seen, Present

\* A splash or login page, and a home page on top, is the only page.
LEMMA OnlyPage ==
    ASSUME Base, OneScreen, NEW r \in Present(routes), r.page # "detail",
           r.page = "home" => IsTop(routes, r)
    PROVE  Present(routes) = {r}
<1> SUFFICES ASSUME NEW s \in Present(routes), s # r PROVE FALSE
  OBVIOUS
<1> DEFINE x == [id |-> r.id, page |-> r.page]
           y == [id |-> s.id, page |-> s.page]
<1>1. x \in Seen /\ y \in Seen /\ r \in routes /\ s \in routes
  BY SeenFacts
<1>2. r.id # s.id /\ r.id \in Nat /\ s.id \in Nat
  BY <1>1, BaseFacts
<1>3. x # y /\ x.page = r.page /\ x.id = r.id /\ y.id = s.id
  BY <1>2
<1>4. r.page = "home" /\ r.id < s.id
  BY <1>1, <1>3 DEF OneScreen, ArticlesAboveHome
<1> QED BY <1>2, <1>4 DEF IsTop

LEMMA ReplaceSeen ==
    ASSUME Base, NEW r, Present(routes) = {r}, r \in routes,
           NEW page \in {"splash", "login", "home", "detail"}, Replace(page)
    PROVE  Seen' = {[id |-> nextRoute, page |-> page]}
<1> DEFINE new == NewPage(page)
<1>1. /\ new.id = nextRoute /\ new.page = page /\ new.phase = "pushing"
  BY DEF NewPage
<1>2. \A e \in routes : InPhase(e, "removing").phase = "removing"
  BY BaseFacts, InPhaseFacts DEF Phases
<1>3. IsTop(routes, r)
  <2>1. r.id \in Nat
    BY BaseFacts
  <2> QED BY <2>1 DEF IsTop
<1>4. \A e \in routes' : e = new \/ \E f \in routes :
         e = IF IsTop(routes, f) THEN InPhase(f, "removing") ELSE f
  BY FlushFacts DEF Replace, PushReplacement
<1>5. new \in routes'
  BY <1>1, FlushFacts DEF Replace, PushReplacement
<1>6. \A e \in Present(routes') : e = new
  BY <1>2, <1>3, <1>4 DEF Present
<1>7. Present(routes') = {new}
  BY <1>1, <1>5, <1>6 DEF Present
<1> QED BY <1>1, <1>7 DEF Seen

LEMMA PushSeen ==
    ASSUME OpenArticle
    PROVE  Seen' = Seen \cup {[id |-> nextRoute, page |-> "detail"]}
<1> DEFINE new == NewPage("detail")
<1>1. new.id = nextRoute /\ new.page = "detail" /\ new.phase = "pushing"
  BY DEF NewPage
<1>2. Present(routes') = Present(routes) \cup {new}
  BY <1>1, FlushFacts DEF OpenArticle, Push, Present
<1> QED BY <1>1, <1>2 DEF Seen

LEMMA PopSeen ==
    ASSUME Base, NEW r \in Present(routes), routes' = Pop(routes, r)
    PROVE  Seen' = Seen \ {[id |-> r.id, page |-> r.page]}
<1> DEFINE new == InPhase(r, "popping")
<1>1. r \in routes /\ new.phase = "popping"
  BY SeenFacts, BaseFacts, InPhaseFacts DEF Phases
<1>2. Present(routes') = Present(routes) \ {r}
  BY <1>1, FlushFacts DEF Pop, Present
<1>3. \A s \in Present(routes) : s # r => s.id # r.id
  BY <1>1, BaseFacts, SeenFacts
<1>4. \A x \in Seen' : x \in Seen /\ x # [id |-> r.id, page |-> r.page]
  BY <1>2, <1>3 DEF Seen
<1>5. \A x \in Seen : x # [id |-> r.id, page |-> r.page] => x \in Seen'
  BY <1>2 DEF Seen
<1> QED BY <1>4, <1>5

LEMMA EnterSeen ==
    ASSUME Base, NEW r \in routes, r.phase = "pushing", routes' = Entered(routes, r)
    PROVE  Seen' = Seen
<1> DEFINE new == InPhase(r, "idle")
<1>1. new.phase = "idle" /\ new.id = r.id /\ new.page = r.page /\ r \in Present(routes)
  BY BaseFacts, InPhaseFacts DEF Phases, Present
<1>2. Present(routes') = (Present(routes) \ {r}) \cup {new}
  BY <1>1, FlushFacts DEF Entered, Present
<1> HIDE DEF new
<1>3. \A x \in Seen' : x \in Seen
  BY <1>1, <1>2 DEF Seen
<1>4. \A x \in Seen : x \in Seen'
  BY <1>1, <1>2 DEF Seen
<1> QED BY <1>3, <1>4

LEMMA LeaveSeen ==
    ASSUME NEW r \in routes, r.phase = "popping", routes' = Exited(routes, r)
    PROVE  Seen' = Seen
<1>1. Present(routes') = Present(routes)
  BY FlushFacts DEF Exited, Present
<1> QED BY <1>1 DEF Seen

LEMMA SignupSeen ==
    ASSUME Base, NEW c, NEW result, ShowSignup(c, result)
    PROVE  Seen' = Seen
<1> DEFINE told(r) == IF r.id = c.page THEN [r EXCEPT !.signup = result] ELSE r
<1>1. routes' = {told(r) : r \in routes}
  BY DEF ShowSignup
<1>2. \A r \in routes : told(r).id = r.id /\ told(r).page = r.page /\ told(r).phase = r.phase
  BY BaseFacts DEF Route
<1> HIDE DEF told
<1>3. \A x \in Seen' : x \in Seen
  BY <1>1, <1>2 DEF Seen, Present
<1>4. \A x \in Seen : x \in Seen'
  BY <1>1, <1>2 DEF Seen, Present
<1> QED BY <1>3, <1>4

-----------------------------------------------------------------------------
(***************************************************************************)
(* Screens.                                                                 *)
(***************************************************************************)
FlowStep == [Flow!Next]_(Flow!vars)

LEMMA ShowingSeen ==
    ASSUME NEW page
    PROVE  /\ Showing(page) <=> \E x \in Seen : x.page = page
           /\ Showing(page)' <=> \E x \in Seen' : x.page = page
<1>1. ASSUME NEW S
      PROVE  (\E r \in S : r.page = page)
                <=> \E x \in {[id |-> r.id, page |-> r.page] : r \in S} : x.page = page
  <2>1. \A r \in S : [id |-> r.id, page |-> r.page].page = r.page
    OBVIOUS
  <2> QED BY <2>1
<1> QED BY <1>1 DEF Showing, Seen

LEMMA PagesOfSeen ==
    ASSUME Base
    PROVE  \A x \in Seen : x.page \in {"splash", "login", "home", "detail"}
BY SeenFacts, BaseFacts DEF Route

\* Steps of the app that the user's promise does not mention.
LEMMA StayFlow ==
    ASSUME \A x \in Seen' : x.page # "detail" => x \in Seen,
           \A x \in Seen : x.page # "detail" => x \in Seen',
           \A x \in Seen : x.page = "home" => currentUser' = currentUser
    PROVE  FlowStep
<1>1. \A page \in {"splash", "login", "home"} : Showing(page)' <=> Showing(page)
  BY ShowingSeen
<1>2. Screen' = Screen
  BY <1>1 DEF Screen
<1>3. Screen = "home" => \E x \in Seen : x.page = "home"
  BY ShowingSeen DEF Screen
<1>4. SessionUser' = SessionUser
  BY <1>2, <1>3 DEF SessionUser
<1> QED BY <1>2, <1>4 DEF FlowStep, Flow!vars

\* What is shown when one page is.
LEMMA ScreenOfOne ==
    ASSUME NEW x
    PROVE  /\ Seen = {x} /\ x.page \in {"splash", "login", "home"} => Screen = x.page
           /\ Seen' = {x} /\ x.page \in {"splash", "login", "home"} => Screen' = x.page
           /\ Seen = {} => Screen = "closed"
           /\ Seen' = {} => Screen' = "closed"
<1>1. Seen = {x} => \A page : Showing(page) <=> x.page = page
  BY ShowingSeen
<1>2. Seen' = {x} => \A page : Showing(page)' <=> x.page = page
  BY ShowingSeen
<1>3. Seen = {} => \A page : ~Showing(page)
  BY ShowingSeen
<1>4. Seen' = {} => \A page : ~Showing(page)'
  BY ShowingSeen
<1> QED BY <1>1, <1>2, <1>3, <1>4 DEF Screen

\* A page of its own is replaced by another one.
LEMMA MoveFlow ==
    ASSUME NEW x, NEW y, Seen = {x}, Seen' = {y},
           \/ x.page = "splash" /\ y.page = "login"
           \/ x.page = "login" /\ y.page = "home" /\ currentUser' \in Users
           \/ x.page = "home" /\ y.page = "login"
    PROVE  FlowStep
<1>1. Screen = x.page /\ Screen' = y.page
  BY ScreenOfOne
<1> QED
  BY <1>1 DEF FlowStep, SessionUser, Flow!vars, Flow!Next, Flow!ShowLogin, Flow!SignIn, Flow!SignOut

-----------------------------------------------------------------------------
(***************************************************************************)
(* Steps of the pages alone.                                                *)
(***************************************************************************)
LEMMA PageCalm ==
    ASSUME Base, Calm, UNCHANGED <<running, calls, native, currentUser>>,
           ArticlesAboveHome(Seen'), Seen = {} => Seen' = {},
           \A x \in Seen' : x.page # "detail" => x \in Seen,
           \A x \in Seen : x.page # "detail" => x \in Seen'
    PROVE  Calm' /\ FlowStep
<1> USE DEF Calm
<1>1. FlowStep
  BY StayFlow
<1>2. OneScreen'
  BY DEF OneScreen
<1>3. OwnCalls'
  BY DEF OwnCalls
<1>4. HomeIsCalm'
  BY DEF HomeIsCalm
<1>5. CallsFinite' /\ OneOfEach' /\ SignOutFirst' /\ SignOutOfUser'
  BY DEF CallsFinite, OneOfEach, SignOutFirst, SignOutOfUser
<1>6. OkIsNative' /\ TokenIsCurrent' /\ DifferMeansOk' /\ SignedOutOrIn'
  BY DEF OkIsNative, TokenIsCurrent, DifferMeansOk, SignedOutOrIn
<1> QED BY <1>1, <1>2, <1>3, <1>4, <1>5, <1>6

LEMMA ArticleCalm ==
    ASSUME Base, Calm, OpenArticle
    PROVE  Calm' /\ FlowStep
<1> DEFINE new == [id |-> nextRoute, page |-> "detail"]
<1>1. PICK h \in routes : IsTop(routes, h) /\ h.page = "home"
  BY DEF OpenArticle
<1>2. h \in Present(routes)
  BY <1>1 DEF IsTop
<1>3. Present(routes) = {h}
  BY <1>1, <1>2, OnlyPage DEF Calm
<1>4. Seen = {[id |-> h.id, page |-> "home"]} /\ h.id < nextRoute
  BY <1>1, <1>3, BaseFacts DEF Seen
<1>5. Seen' = Seen \cup {new}
  BY PushSeen
<1>6. ArticlesAboveHome(Seen')
  BY <1>4, <1>5, BaseFacts DEF ArticlesAboveHome
<1>7. /\ Seen # {}
      /\ \A x \in Seen' : x.page # "detail" => x \in Seen
      /\ \A x \in Seen : x \in Seen'
  BY <1>4, <1>5
<1>8. UNCHANGED <<running, calls, native, currentUser>>
  BY DEF OpenArticle
<1> QED BY <1>6, <1>7, <1>8, PageCalm

LEMMA SameCalm ==
    ASSUME Base, Calm, UNCHANGED <<running, calls, native, currentUser>>, Seen' = Seen
    PROVE  Calm' /\ FlowStep
<1>1. ArticlesAboveHome(Seen')
  BY DEF Calm, OneScreen
<1> QED BY <1>1, PageCalm

LEMMA EndCalm ==
    ASSUME Base, Calm, running, EndProcess
    PROVE  Calm' /\ FlowStep
<1>1. Seen' = {} /\ calls' = {} /\ running' = FALSE
  BY DEF EndProcess, Seen, Present
<1>2. CallsFinite'
  BY <1>1, FS_EmptySet DEF CallsFinite
<1>3. Calm'
  <2>1. OneScreen'
    BY <1>1 DEF OneScreen, ArticlesAboveHome
  <2>2. OwnCalls' /\ OneOfEach' /\ SignOutFirst' /\ SignOutOfUser' /\ HomeIsCalm'
    BY <1>1 DEF OwnCalls, OneOfEach, SignOutFirst, SignOutOfUser, HomeIsCalm
  <2>3. OkIsNative' /\ TokenIsCurrent' /\ DifferMeansOk' /\ SignedOutOrIn'
    BY <1>1 DEF OkIsNative, TokenIsCurrent, DifferMeansOk, SignedOutOrIn
  <2> QED BY <1>2, <2>1, <2>2, <2>3 DEF Calm
<1>4. Screen # "closed"
  <2>1. PICK x \in Seen : x.page # "detail"
    BY DEF Calm, OneScreen
  <2>2. x.page \in {"splash", "login", "home"}
    BY <2>1, PagesOfSeen
  <2>3. \E page \in {"splash", "login", "home"} : Showing(page)
    BY <2>1, <2>2, ShowingSeen
  <2> QED BY <2>3 DEF Screen
<1>5. Screen' = "closed"
  BY <1>1, ScreenOfOne
<1> QED BY <1>3, <1>4, <1>5 DEF FlowStep, SessionUser, Flow!vars, Flow!Next, Flow!Close

LEMMA BootCalm ==
    ASSUME Base, Calm, Boot
    PROVE  Calm' /\ FlowStep
<1>1. /\ Seen = {} /\ running' /\ calls' = {} /\ currentUser' = native'
  BY DEF Boot, Calm, OneScreen
<1>2. Seen' = {[id |-> 1, page |-> "splash"]}
  <2>1. PICK r : /\ routes' = {r}
                 /\ r = [id |-> 1, page |-> "splash", phase |-> "idle", signup |-> "none"]
    BY DEF Boot
  <2>2. r.id = 1 /\ r.page = "splash" /\ r.phase = "idle"
    BY <2>1
  <2>3. Present(routes') = {r}
    BY <2>1, <2>2 DEF Present
  <2> QED BY <2>2, <2>3 DEF Seen
<1>3. CallsFinite'
  BY <1>1, FS_EmptySet DEF CallsFinite
<1>4. Calm'
  BY <1>1, <1>2, <1>3 DEF Calm, OneScreen, ArticlesAboveHome, OwnCalls, OneOfEach,
     SignOutFirst, SignOutOfUser, HomeIsCalm, OkIsNative, TokenIsCurrent, DifferMeansOk,
     SignedOutOrIn
<1>5. Screen = "closed" /\ Screen' = "splash"
  <2>1. [id |-> 1, page |-> "splash"].page = "splash"
    OBVIOUS
  <2> QED BY <1>1, <1>2, <2>1, ScreenOfOne
<1> QED BY <1>4, <1>5 DEF FlowStep, SessionUser, Flow!vars, Flow!Next, Flow!Open

\* The page that is popped lies above another one, so it is an article.
LEMMA BackCalm ==
    ASSUME Base, Calm, Back
    PROVE  Calm' /\ FlowStep
<1>1. PICK r \in routes :
        /\ IsTop(routes, r)
        /\ \/ Present(routes) = {r} /\ EndProcess
           \/ /\ Present(routes) # {r} /\ routes' = Pop(routes, r)
              /\ UNCHANGED <<running, calls, currentUser, native>>
  BY DEF Back
<1>2. r \in Present(routes) /\ [id |-> r.id, page |-> r.page] \in Seen
  BY <1>1, SeenFacts DEF IsTop
<1>3. CASE EndProcess
  <2>1. running
    BY <1>2 DEF Calm, OneScreen
  <2> QED BY <1>3, <2>1, EndCalm
<1>4. CASE /\ Present(routes) # {r} /\ routes' = Pop(routes, r)
           /\ UNCHANGED <<running, calls, currentUser, native>>
  <2>1. r.page = "detail"
    BY <1>1, <1>2, <1>4, OnlyPage DEF Calm
  <2>2. Seen' = Seen \ {[id |-> r.id, page |-> r.page]}
    BY <1>2, <1>4, PopSeen
  <2>3. ArticlesAboveHome(Seen')
    BY <2>2 DEF Calm, OneScreen, ArticlesAboveHome
  <2>4. /\ \A x \in Seen' : x \in Seen
        /\ \A x \in Seen : x.page # "detail" => x \in Seen'
    BY <2>1, <2>2
  <2> QED BY <1>2, <1>4, <2>3, <2>4, PageCalm
<1> QED BY <1>1, <1>3, <1>4

\* A page that stands alone is replaced.
LEMMA OneScreenNew ==
    ASSUME NEW page \in {"splash", "login", "home"}, NEW id,
           Seen' = {[id |-> id, page |-> page]}, running'
    PROVE  OneScreen'
<1>1. [id |-> id, page |-> page].page # "detail"
  OBVIOUS
<1> QED BY <1>1 DEF OneScreen, ArticlesAboveHome

LEMMA SplashCalm ==
    ASSUME Base, Calm, SplashTimeout
    PROVE  Calm' /\ FlowStep
<1>1. PICK r \in Present(routes) : r.page = "splash"
  BY DEF SplashTimeout
<1>2. Present(routes) = {r} /\ r \in routes
  BY <1>1, OnlyPage, SeenFacts DEF Calm
<1>3. Seen = {[id |-> r.id, page |-> "splash"]}
  BY <1>1, <1>2 DEF Seen
<1>4. Seen' = {[id |-> nextRoute, page |-> "login"]}
  BY <1>2, ReplaceSeen DEF SplashTimeout
<1>5. /\ UNCHANGED <<running, calls, currentUser, native>> /\ running
  BY <1>3 DEF SplashTimeout, Calm, OneScreen
<1>6. OneScreen'
  BY <1>4, <1>5, OneScreenNew
<1>7. \A c \in calls : c.kind = "signOut"
  BY <1>3 DEF Calm, OwnCalls
<1>8. OwnCalls' /\ HomeIsCalm'
  BY <1>4, <1>5, <1>7 DEF OwnCalls, HomeIsCalm
<1>9. /\ CallsFinite' /\ OneOfEach' /\ SignOutFirst' /\ SignOutOfUser'
      /\ OkIsNative' /\ TokenIsCurrent' /\ DifferMeansOk' /\ SignedOutOrIn'
  BY <1>5 DEF Calm, CallsFinite, OneOfEach, SignOutFirst, SignOutOfUser, OkIsNative,
     TokenIsCurrent, DifferMeansOk, SignedOutOrIn
<1> QED BY <1>3, <1>4, <1>6, <1>8, <1>9, MoveFlow DEF Calm

-----------------------------------------------------------------------------
(***************************************************************************)
(* Calls start.                                                             *)
(***************************************************************************)

\* A login page on which a button can be pressed has no call under way.
LEMMA LoginIsIdle ==
    ASSUME Base, Calm, CallsPerPage <= 1, NEW r \in routes, TapOn("login", r)
    PROVE  /\ Seen = {[id |-> r.id, page |-> "login"]} /\ running
           /\ \A c \in calls : c.kind = "signOut"
<1> DEFINE own == {c \in calls : c.page = r.id}
<1>1. Present(routes) = {r}
  BY OnlyPage DEF Calm, TapOn, IsTop
<1>2. Seen = {[id |-> r.id, page |-> "login"]}
  BY <1>1 DEF Seen, TapOn
<1>3. own = {}
  <2>1. IsFiniteSet(own)
    BY FS_Subset DEF Calm, CallsFinite
  <2>2. Cardinality(own) \in Nat /\ Cardinality(own) < CallsPerPage
    BY <2>1, FS_CardinalityType DEF TapOn
  <2>3. CallsPerPage \in Nat
    BY BoundsAssumption
  <2>4. Cardinality(own) = 0
    BY <2>2, <2>3
  <2> QED BY <2>1, <2>4, FS_EmptySet
<1>4. ASSUME NEW c \in calls, c.kind # "signOut"
      PROVE  FALSE
  <2>1. [id |-> c.page, page |-> "login"] = [id |-> r.id, page |-> "login"]
    BY <1>2, <1>4 DEF Calm, OwnCalls
  <2>2. c.page = r.id
    BY <2>1
  <2> QED BY <1>3, <2>2
<1>5. running
  BY <1>2 DEF Calm, OneScreen
<1> QED BY <1>2, <1>4, <1>5

LEMMA StartCalm ==
    ASSUME Base, Calm, CallsPerPage <= 1, NEW r \in routes, TapOn("login", r),
           NEW kind \in {"email", "google", "register"}, NEW user,
           NEW stage \in {"picker", "sent"}, Start(r, kind, user, stage),
           UNCHANGED <<running, routes, currentUser, native>>
    PROVE  Calm' /\ FlowStep
<1> DEFINE new == [ticket |-> nextCall, kind |-> kind, page |-> r.id,
                   user |-> user, stage |-> stage]
<1>1. /\ new.ticket = nextCall /\ new.kind = kind /\ new.page = r.id
      /\ new.stage = stage
  OBVIOUS
<1>2. calls' = calls \cup {new}
  BY DEF Start
<1> HIDE DEF new
<1>3. /\ Seen = {[id |-> r.id, page |-> "login"]}
      /\ \A c \in calls : c.kind = "signOut"
  BY LoginIsIdle
<1>4. Seen' = Seen
  BY DEF Seen
<1>5. FlowStep
  BY <1>4, StayFlow
<1>6. OneScreen' /\ HomeIsCalm'
  <2>1. \A x \in Seen : x.page # "home"
    BY <1>3
  <2> QED BY <1>4, <2>1 DEF Calm, OneScreen, HomeIsCalm
<1>7. CallsFinite'
  BY <1>2, FS_AddElement DEF Calm, CallsFinite
<1>8. OwnCalls' /\ OneOfEach'
  BY <1>1, <1>2, <1>3, <1>4 DEF Calm, OwnCalls, OneOfEach
<1>9. SignOutFirst'
  BY <1>1, <1>2, <1>3, BaseFacts DEF SignOutFirst
<1>10. SignOutOfUser'
  BY <1>1, <1>2 DEF Calm, SignOutOfUser
<1>11. OkIsNative' /\ SignedOutOrIn' /\ DifferMeansOk'
  BY <1>1, <1>2, <1>3 DEF Calm, OkIsNative, SignedOutOrIn, DifferMeansOk
<1>12. TokenIsCurrent'
  BY <1>1, <1>2, <1>3, BaseFacts DEF Calm, TokenIsCurrent, CallStages
<1> QED BY <1>5, <1>6, <1>7, <1>8, <1>9, <1>10, <1>11, <1>12 DEF Calm

LEMMA SignOutCalm ==
    ASSUME Base, Calm, TapSignOut
    PROVE  Calm' /\ FlowStep
<1>1. PICK h \in routes : /\ IsTop(routes, h) /\ h.page = "home"
                          /\ Start(h, "signOut", NoUser, "sent")
                          /\ Replace("login")
                          /\ UNCHANGED <<running, currentUser, native>>
  BY DEF TapSignOut, TapOn
<1> DEFINE new == [ticket |-> nextCall, kind |-> "signOut", page |-> h.id,
                   user |-> NoUser, stage |-> "sent"]
<1>2. new.kind = "signOut" /\ new.stage = "sent" /\ new.user = NoUser
  OBVIOUS
<1>3. calls' = calls \cup {new}
  BY <1>1 DEF Start
<1> HIDE DEF new
<1>4. Present(routes) = {h}
  BY <1>1, OnlyPage DEF Calm, IsTop
<1>5. Seen = {[id |-> h.id, page |-> "home"]}
  BY <1>1, <1>4 DEF Seen
<1>6. Seen' = {[id |-> nextRoute, page |-> "login"]}
  BY <1>1, <1>4, ReplaceSeen
<1>7. running /\ calls = {} /\ currentUser = native
  BY <1>5 DEF Calm, OneScreen, HomeIsCalm, DifferMeansOk
<1>8. OneScreen'
  BY <1>1, <1>6, <1>7, OneScreenNew
<1>9. CallsFinite'
  BY <1>3, FS_AddElement DEF Calm, CallsFinite
<1>10. calls' = {new}
  BY <1>3, <1>7
<1>11. OwnCalls' /\ OneOfEach' /\ SignOutFirst' /\ SignOutOfUser'
  BY <1>2, <1>10 DEF OwnCalls, OneOfEach, SignOutFirst, SignOutOfUser
<1>12. HomeIsCalm'
  BY <1>6 DEF HomeIsCalm
<1>13. OkIsNative' /\ TokenIsCurrent' /\ SignedOutOrIn' /\ DifferMeansOk'
  BY <1>1, <1>2, <1>7, <1>10 DEF OkIsNative, TokenIsCurrent, SignedOutOrIn, DifferMeansOk
<1> QED BY <1>5, <1>6, <1>8, <1>9, <1>11, <1>12, <1>13, MoveFlow DEF Calm

-----------------------------------------------------------------------------
(***************************************************************************)
(* Calls go on.                                                             *)
(***************************************************************************)

\* A call takes its next step, with its ticket or, unless it signs out, a new one.
LEMMA NextStageCalm ==
    ASSUME Base, Calm, NEW c \in calls, NEW d,
           d.kind = c.kind, d.page = c.page, c.kind = "signOut" => d.user = c.user,
           d.ticket = c.ticket \/ (d.ticket = nextCall /\ c.kind # "signOut"),
           calls' = (calls \ {c}) \cup {d}, UNCHANGED <<running, routes>>
    PROVE  /\ FlowStep /\ OneScreen' /\ CallsFinite' /\ OwnCalls' /\ OneOfEach'
           /\ SignOutFirst' /\ SignOutOfUser' /\ HomeIsCalm'
<1>1. Seen' = Seen
  BY DEF Seen
<1>2. \A x \in Seen : x.page # "home"
  BY DEF Calm, HomeIsCalm
<1>3. FlowStep
  BY <1>1, <1>2, StayFlow
<1>4. OneScreen' /\ HomeIsCalm'
  BY <1>1, <1>2 DEF Calm, OneScreen, HomeIsCalm
<1>5. CallsFinite'
  <2>1. IsFiniteSet(calls \ {c})
    BY FS_RemoveElement DEF Calm, CallsFinite
  <2> QED BY <2>1, FS_AddElement DEF CallsFinite
<1>6. OwnCalls' /\ OneOfEach'
  BY <1>1 DEF Calm, OwnCalls, OneOfEach
<1>7. SignOutFirst'
  BY BaseFacts DEF Calm, SignOutFirst
<1>8. SignOutOfUser'
  BY DEF Calm, SignOutOfUser
<1> QED BY <1>3, <1>4, <1>5, <1>6, <1>7, <1>8

\* The user chooses an account, and its tokens are exchanged.
LEMMA GoogleCalm ==
    ASSUME Base, Calm, NEW c \in calls, c.stage \in {"picker", "tokens"}, NEW d,
           d.kind = c.kind, d.page = c.page, d.ticket \in {c.ticket, nextCall},
           d.stage \in {"tokens", "sent", "failed"},
           calls' = (calls \ {c}) \cup {d},
           UNCHANGED <<running, routes, currentUser, native>>
    PROVE  Calm' /\ FlowStep
<1>1. c.kind = "google"
  BY BaseFacts DEF CallStages
<1>2. /\ FlowStep /\ OneScreen' /\ CallsFinite' /\ OwnCalls' /\ OneOfEach'
      /\ SignOutFirst' /\ SignOutOfUser' /\ HomeIsCalm'
  BY <1>1, NextStageCalm
<1>3. OkIsNative'
  BY <1>1 DEF Calm, OkIsNative
<1>4. TokenIsCurrent'
  <2>1. \A e \in calls : e.stage # "idToken"
    BY DEF Calm, TokenIsCurrent
  <2> QED BY <2>1 DEF TokenIsCurrent
<1>5. DifferMeansOk'
  BY DEF Calm, DifferMeansOk
<1>6. SignedOutOrIn'
  BY <1>1 DEF Calm, SignedOutOrIn
<1> QED BY <1>2, <1>3, <1>4, <1>5, <1>6 DEF Calm

\* The SDK signs in whom a call names only when no sign-out is left to be done.
LEMMA NativeCalm ==
    ASSUME Base, Calm, NEW t, NativeAnswer(t)
    PROVE  Calm' /\ FlowStep
<1>1. PICK c \in calls, stage \in {"ok", "failed"} :
        /\ c.stage = "sent" /\ ~SignOutAhead(c, {"sent"})
        /\ Advance(c, stage)
        /\ stage = "ok" => native' = c.user
        /\ stage = "failed" => native' = native
        /\ UNCHANGED <<running, routes, currentUser>>
  BY DEF NativeAnswer
<1> DEFINE d == [c EXCEPT !.stage = stage]
<1>2. /\ calls' = (calls \ {c}) \cup {d}
      /\ d.ticket = c.ticket /\ d.kind = c.kind /\ d.page = c.page
      /\ d.user = c.user /\ d.stage = stage
  BY <1>1, BaseFacts DEF Advance, Call
<1> HIDE DEF d
<1>3. /\ FlowStep /\ OneScreen' /\ CallsFinite' /\ OwnCalls' /\ OneOfEach'
      /\ SignOutFirst' /\ SignOutOfUser' /\ HomeIsCalm'
  BY <1>1, <1>2, NextStageCalm
<1>4. OkIsNative'
  <2> SUFFICES ASSUME NEW e \in calls', e.kind # "signOut", e.stage = "ok",
                      NEW s \in calls'
               PROVE  native' = e.user /\ (s.kind = "signOut" => s.stage # "sent")
    BY <1>2 DEF OkIsNative
  <2>1. CASE e = d
    <3>1. native' = e.user /\ c.kind # "signOut"
      BY <1>1, <1>2, <2>1
    <3>2. ASSUME s.kind = "signOut" PROVE s.stage # "sent"
      <4>1. s \in calls
        BY <1>2, <3>1, <3>2
      <4>2. s.ticket < c.ticket
        BY <3>1, <3>2, <4>1 DEF Calm, SignOutFirst
      <4> QED BY <1>1, <3>2, <4>1, <4>2 DEF SignOutAhead
    <3> QED BY <3>1, <3>2
  <2>2. CASE e # d
    <3>1. e \in calls /\ e # c
      BY <1>2, <2>2
    <3>2. c.kind = "signOut"
      BY <3>1 DEF Calm, OneOfEach
    <3> QED BY <1>1, <3>1, <3>2 DEF Calm, OkIsNative
  <2> QED BY <2>1, <2>2
<1>5. TokenIsCurrent'
  <2>1. \A e \in calls : e.stage # "idToken"
    BY <1>1 DEF Calm, TokenIsCurrent
  <2> QED BY <1>1, <1>2, <2>1 DEF TokenIsCurrent
<1>6. DifferMeansOk'
  BY <1>1, <1>2 DEF Calm, DifferMeansOk
<1>7. SignedOutOrIn'
  <2>1. CASE stage = "failed"
    BY <1>1, <1>2, <2>1 DEF Calm, SignedOutOrIn
  <2>2. CASE stage = "ok" /\ c.kind = "signOut"
    BY <1>1, <1>2, <2>2 DEF Calm, SignOutOfUser, SignedOutOrIn
  <2>3. CASE stage = "ok" /\ c.kind # "signOut"
    BY <1>2, <2>3 DEF SignedOutOrIn
  <2> QED BY <1>1, <2>1, <2>2, <2>3
<1> QED BY <1>3, <1>4, <1>5, <1>6, <1>7 DEF Calm

\* The listener finds something to tell only on a login page.
LEMMA AuthStateCalm ==
    ASSUME Base, Calm, AuthStateEvent
    PROVE  Calm' /\ FlowStep
<1>1. /\ running /\ currentUser # native /\ currentUser' = native
      /\ UNCHANGED <<running, routes, calls, native>>
  BY DEF AuthStateEvent
<1>2. Seen' = Seen
  BY <1>1 DEF Seen
<1>3. \A x \in Seen : x.page # "home"
  BY <1>1 DEF Calm, HomeIsCalm, DifferMeansOk
<1>4. FlowStep
  BY <1>2, <1>3, StayFlow
<1>5. OneScreen' /\ OwnCalls' /\ HomeIsCalm'
  BY <1>1, <1>2 DEF Calm, OneScreen, OwnCalls, HomeIsCalm
<1>6. CallsFinite' /\ OneOfEach' /\ SignOutFirst' /\ SignOutOfUser'
  BY <1>1 DEF Calm, CallsFinite, OneOfEach, SignOutFirst, SignOutOfUser
<1>7. OkIsNative' /\ TokenIsCurrent' /\ DifferMeansOk' /\ SignedOutOrIn'
  BY <1>1 DEF Calm, OkIsNative, TokenIsCurrent, DifferMeansOk, SignedOutOrIn
<1> QED BY <1>4, <1>5, <1>6, <1>7 DEF Calm

-----------------------------------------------------------------------------
(***************************************************************************)
(* Calls end.                                                               *)
(***************************************************************************)

\* A call of the login page that is answered is the only call there is.
LEMMA Alone ==
    ASSUME Base, Calm, NEW c \in calls, c.kind # "signOut",
           ~SignOutAhead(c, {"sent", "ok", "failed"})
    PROVE  /\ calls = {c} /\ running
           /\ \E r \in Present(routes) : r.id = c.page /\ Present(routes) = {r}
<1>1. ASSUME NEW e \in calls, e # c PROVE FALSE
  <2>1. e.kind = "signOut"
    BY <1>1 DEF Calm, OneOfEach
  <2>2. e.ticket < c.ticket
    BY <2>1 DEF Calm, SignOutFirst
  <2>3. e.stage \in {"sent", "ok", "failed"}
    BY <2>1, BaseFacts DEF CallStages
  <2> QED BY <2>1, <2>2, <2>3 DEF SignOutAhead
<1>2. [id |-> c.page, page |-> "login"] \in Seen
  BY DEF Calm, OwnCalls
<1>3. running
  BY <1>2 DEF Calm, OneScreen
<1>4. PICK r \in Present(routes) : r.id = c.page /\ r.page = "login"
  BY <1>2, SeenFacts
<1>5. Present(routes) = {r}
  BY <1>4, OnlyPage DEF Calm
<1> QED BY <1>1, <1>3, <1>4, <1>5

\* Its answer leaves the pages as they are.
LEMMA StayFinished ==
    ASSUME Base, Calm, NEW c \in calls, c.kind # "signOut",
           ~SignOutAhead(c, {"sent", "ok", "failed"}), Finish(c),
           Seen' = Seen, currentUser' = native, UNCHANGED <<running, native>>
    PROVE  Calm' /\ FlowStep
<1>1. calls = {c} /\ calls' = {}
  BY Alone DEF Finish
<1>2. \A x \in Seen : x.page # "home"
  BY <1>1 DEF Calm, HomeIsCalm
<1>3. FlowStep
  BY <1>2, StayFlow
<1>4. OneScreen' /\ HomeIsCalm'
  BY <1>2 DEF Calm, OneScreen, HomeIsCalm
<1>5. CallsFinite'
  BY <1>1, FS_EmptySet DEF CallsFinite
<1>6. OwnCalls' /\ OneOfEach' /\ SignOutFirst' /\ SignOutOfUser'
  BY <1>1 DEF OwnCalls, OneOfEach, SignOutFirst, SignOutOfUser
<1>7. OkIsNative' /\ TokenIsCurrent' /\ DifferMeansOk' /\ SignedOutOrIn'
  BY <1>1 DEF OkIsNative, TokenIsCurrent, DifferMeansOk, SignedOutOrIn
<1> QED BY <1>3, <1>4, <1>5, <1>6, <1>7 DEF Calm

\* Its answer replaces the login page by a home page of the native user.
LEMMA HomeFinished ==
    ASSUME Base, Calm, NEW c \in calls, c.kind # "signOut",
           ~SignOutAhead(c, {"sent", "ok", "failed"}), Finish(c), GoHome(c),
           native \in Users, currentUser' = native, UNCHANGED <<running, native>>
    PROVE  Calm' /\ FlowStep
<1>1. calls = {c} /\ calls' = {} /\ running
  BY Alone DEF Finish
<1>2. PICK r \in Present(routes) : r.id = c.page /\ Present(routes) = {r}
  BY Alone
<1>3. r \in routes
  BY <1>2, SeenFacts
<1>4. Replace("home")
  BY <1>2, <1>3 DEF GoHome, Mounted
<1>5. Seen' = {[id |-> nextRoute, page |-> "home"]}
  BY <1>2, <1>3, <1>4, ReplaceSeen
<1>6. Seen = {[id |-> c.page, page |-> "login"]}
  <2>1. Seen = {[id |-> r.id, page |-> r.page]}
    BY <1>2 DEF Seen
  <2> QED BY <2>1 DEF Calm, OwnCalls
<1>7. FlowStep
  <2>1. currentUser' \in Users
    OBVIOUS
  <2> QED BY <1>5, <1>6, <2>1, MoveFlow
<1>8. OneScreen'
  BY <1>1, <1>5, OneScreenNew
<1>9. CallsFinite'
  BY <1>1, FS_EmptySet DEF CallsFinite
<1>10. OwnCalls' /\ OneOfEach' /\ SignOutFirst' /\ SignOutOfUser' /\ HomeIsCalm'
  BY <1>1 DEF OwnCalls, OneOfEach, SignOutFirst, SignOutOfUser, HomeIsCalm
<1>11. OkIsNative' /\ TokenIsCurrent' /\ DifferMeansOk' /\ SignedOutOrIn'
  BY <1>1 DEF OkIsNative, TokenIsCurrent, DifferMeansOk, SignedOutOrIn
<1> QED BY <1>7, <1>8, <1>9, <1>10, <1>11 DEF Calm

\* A success that arrives names the native user.
LEMMA OkFacts ==
    ASSUME Base, Calm, NEW c \in calls, c.kind # "signOut", c.stage \in {"ok", "idToken"}
    PROVE  /\ native = c.user /\ native \in Users
           /\ c.stage = "idToken" => currentUser = c.user
<1>1. native = c.user /\ (c.stage = "idToken" => currentUser = c.user)
  BY DEF Calm, OkIsNative, TokenIsCurrent
<1>2. c.user \in Users
  BY BaseFacts DEF CallStages
<1> QED BY <1>1, <1>2

LEMMA SignInCalm ==
    ASSUME Base, Calm, NEW t, SignedIn(t) \/ SignedInWithGoogle(t)
    PROVE  Calm' /\ FlowStep
<1>1. PICK c \in calls :
        /\ c.kind \in {"email", "google"} /\ c.stage = "ok"
        /\ ~SignOutAhead(c, {"sent", "ok", "failed"})
        /\ currentUser' = c.user /\ UNCHANGED <<running, native>>
        /\ \/ Finish(c) /\ GoHome(c)
           \/ SendNext(c, "idToken") /\ UNCHANGED <<routes, nextRoute>>
  BY DEF SignedIn, SignedInWithGoogle, Arrives
<1>2. native = c.user /\ native \in Users
  BY <1>1, OkFacts
<1>3. CASE Finish(c) /\ GoHome(c)
  BY <1>1, <1>2, <1>3, HomeFinished
<1>4. CASE SendNext(c, "idToken") /\ UNCHANGED <<routes, nextRoute>>
  <2> DEFINE d == [c EXCEPT !.ticket = nextCall, !.stage = "idToken"]
  <2>1. /\ calls' = (calls \ {c}) \cup {d}
        /\ d.ticket = nextCall /\ d.kind = c.kind /\ d.page = c.page
        /\ d.user = c.user /\ d.stage = "idToken"
    BY <1>4, BaseFacts DEF SendNext, Call
  <2> HIDE DEF d
  <2>2. /\ FlowStep /\ OneScreen' /\ CallsFinite' /\ OwnCalls' /\ OneOfEach'
        /\ SignOutFirst' /\ SignOutOfUser' /\ HomeIsCalm'
    BY <1>1, <1>4, <2>1, NextStageCalm
  <2>3. calls' = {d}
    BY <1>1, <2>1, Alone
  <2>4. OkIsNative' /\ TokenIsCurrent' /\ DifferMeansOk' /\ SignedOutOrIn'
    BY <1>1, <1>2, <2>1, <2>3 DEF OkIsNative, TokenIsCurrent, DifferMeansOk, SignedOutOrIn
  <2> QED BY <2>2, <2>4 DEF Calm
<1> QED BY <1>1, <1>3, <1>4

LEMMA TokenCalm ==
    ASSUME Base, Calm, NEW t, IdTokenArrives(t) \/ IdTokenFails(t)
    PROVE  Calm' /\ FlowStep
<1>1. PICK c \in calls :
        /\ c.kind = "google" /\ c.stage = "idToken"
        /\ ~SignOutAhead(c, {"sent", "ok", "failed"})
        /\ Finish(c) /\ UNCHANGED <<running, native, currentUser>>
        /\ GoHome(c) \/ UNCHANGED <<routes, nextRoute>>
  BY DEF IdTokenArrives, IdTokenFails, Arrives
<1>2. native = c.user /\ native \in Users /\ currentUser = c.user
  BY <1>1, OkFacts
<1>3. CASE GoHome(c)
  BY <1>1, <1>2, <1>3, HomeFinished
<1>4. CASE UNCHANGED <<routes, nextRoute>>
  <2>1. Seen' = Seen
    BY <1>4 DEF Seen
  <2> QED BY <1>1, <1>2, <2>1, StayFinished
<1> QED BY <1>1, <1>3, <1>4

LEMMA RegisterCalm ==
    ASSUME Base, Calm, NEW t, Registered(t)
    PROVE  Calm' /\ FlowStep
<1>1. PICK c \in calls :
        /\ c.kind = "register" /\ c.stage = "ok"
        /\ ~SignOutAhead(c, {"sent", "ok", "failed"})
        /\ currentUser' = c.user /\ UNCHANGED <<running, native>>
        /\ Finish(c) /\ ShowSignup(c, "ok")
  BY DEF Registered, Arrives
<1>2. native = c.user
  BY <1>1, OkFacts
<1>3. Seen' = Seen
  BY <1>1, SignupSeen
<1> QED BY <1>1, <1>2, <1>3, StayFinished

\* With the only call failed, the two sessions are the same.
LEMMA FailCalm ==
    ASSUME Base, Calm, NEW t, SignInFailed(t) \/ RegisterFailed(t)
    PROVE  Calm' /\ FlowStep
<1>1. PICK c \in calls :
        /\ c.kind # "signOut" /\ c.stage = "failed"
        /\ ~SignOutAhead(c, {"sent", "ok", "failed"})
        /\ Finish(c) /\ UNCHANGED <<running, native, currentUser>>
        /\ ShowSignup(c, "failed") \/ UNCHANGED <<routes, nextRoute>>
  BY DEF SignInFailed, RegisterFailed, Arrives
<1>2. calls = {c} /\ running
  BY <1>1, Alone
<1>3. currentUser = native
  BY <1>1, <1>2 DEF Calm, DifferMeansOk
<1>4. UNCHANGED routes => Seen' = Seen
  BY DEF Seen
<1>5. Seen' = Seen
  BY <1>1, <1>4, SignupSeen
<1> QED BY <1>1, <1>3, <1>5, StayFinished

\* A sign-out is over: whoever has signed in natively since then is about to
\* be heard of.
LEMMA SignOutAnsweredCalm ==
    ASSUME Base, Calm, NEW t, SignOutAnswered(t)
    PROVE  Calm' /\ FlowStep
<1>1. PICK c \in calls :
        /\ c.kind = "signOut"
        /\ \/ c.stage = "ok" /\ currentUser' = NoUser
           \/ c.stage = "failed" /\ currentUser' = currentUser
        /\ calls' = calls \ {c}
        /\ UNCHANGED <<running, routes, native>>
  BY DEF SignOutAnswered, Arrives, Finish
<1>2. Seen' = Seen
  BY <1>1 DEF Seen
<1>3. \A x \in Seen : x.page # "home"
  BY <1>1 DEF Calm, HomeIsCalm
<1>4. FlowStep
  BY <1>2, <1>3, StayFlow
<1>5. OneScreen' /\ OwnCalls' /\ HomeIsCalm'
  BY <1>1, <1>2, <1>3 DEF Calm, OneScreen, OwnCalls, HomeIsCalm
<1>6. CallsFinite'
  BY <1>1, FS_RemoveElement DEF Calm, CallsFinite
<1>7. OneOfEach' /\ SignOutFirst' /\ SignOutOfUser' /\ OkIsNative'
  BY <1>1 DEF Calm, OneOfEach, SignOutFirst, SignOutOfUser, OkIsNative
<1>8. TokenIsCurrent'
  BY <1>1, BaseFacts DEF Calm, TokenIsCurrent, CallStages
<1>9. SignedOutOrIn'
  BY <1>1 DEF Calm, OneOfEach, SignedOutOrIn
<1>10. DifferMeansOk'
  BY <1>1 DEF Calm, DifferMeansOk, SignedOutOrIn
<1> QED BY <1>4, <1>5, <1>6, <1>7, <1>8, <1>9, <1>10 DEF Calm

-----------------------------------------------------------------------------
(***************************************************************************)
(* The invariant and what follows from it.                                  *)
(***************************************************************************)
LEMMA CalmInit == Init => Calm /\ Flow!Init
<1> SUFFICES ASSUME Init PROVE Calm /\ Flow!Init
  OBVIOUS
<1>1. ~running /\ Seen = {} /\ calls = {}
  BY DEF Init, Seen, Present
<1>2. CallsFinite
  BY <1>1, FS_EmptySet DEF CallsFinite
<1>3. OneScreen
  BY <1>1 DEF OneScreen, ArticlesAboveHome
<1>4. Calm
  BY <1>1, <1>2, <1>3 DEF Calm, OwnCalls, OneOfEach, SignOutFirst, SignOutOfUser,
     HomeIsCalm, OkIsNative, TokenIsCurrent, DifferMeansOk, SignedOutOrIn
<1>5. Screen = "closed"
  BY <1>1, ScreenOfOne
<1> QED BY <1>4, <1>5 DEF Flow!Init, SessionUser

LEMMA CalmStep ==
    ASSUME CallsPerPage <= 1
    PROVE  Base /\ Calm /\ [Next]_vars => Calm' /\ FlowStep
<1> SUFFICES ASSUME Base, Calm, [Next]_vars PROVE Calm' /\ FlowStep
  OBVIOUS
<1>1. CASE Boot
  BY <1>1, BootCalm
<1>2. CASE Kill
  BY <1>2, EndCalm DEF Kill
<1>3. CASE Back
  BY <1>3, BackCalm
<1>4. CASE OpenArticle
  BY <1>4, ArticleCalm
<1>5. CASE SplashTimeout
  BY <1>5, SplashCalm
<1>6. ASSUME NEW i, EnterPage(i) PROVE Calm' /\ FlowStep
  BY <1>6, EnterSeen, SameCalm DEF EnterPage
<1>7. ASSUME NEW i, LeavePage(i) PROVE Calm' /\ FlowStep
  BY <1>7, LeaveSeen, SameCalm DEF LeavePage
<1>8. ASSUME NEW u \in Users, TapLogin(u) \/ TapRegister(u) PROVE Calm' /\ FlowStep
  BY <1>8, StartCalm DEF TapLogin, TapRegister
<1>9. CASE TapGoogle
  BY <1>9, StartCalm DEF TapGoogle
<1>10. CASE TapSignOut
  BY <1>10, SignOutCalm
<1>11. ASSUME NEW t, PickAccount(t) PROVE Calm' /\ FlowStep
  <2>1. PICK c \in calls : /\ c.stage = "picker"
                           /\ \/ \E u \in Users : calls' = (calls \ {c}) \cup
                                   {[c EXCEPT !.user = u, !.stage = "tokens"]}
                              \/ calls' = (calls \ {c}) \cup {[c EXCEPT !.stage = "failed"]}
                           /\ UNCHANGED <<running, routes, currentUser, native>>
    BY <1>11 DEF PickAccount
  <2>2. PICK d : /\ calls' = (calls \ {c}) \cup {d}
                 /\ \/ \E u \in Users : d = [c EXCEPT !.user = u, !.stage = "tokens"]
                    \/ d = [c EXCEPT !.stage = "failed"]
    BY <2>1
  <2>3. /\ d.kind = c.kind /\ d.page = c.page /\ d.ticket = c.ticket
        /\ d.stage \in {"tokens", "failed"}
    BY <2>2, BaseFacts DEF Call
  <2> QED BY <2>1, <2>2, <2>3, GoogleCalm
<1>12. ASSUME NEW t, SendCredential(t) PROVE Calm' /\ FlowStep
  <2>1. PICK c \in calls : /\ c.stage = "tokens"
                           /\ SendNext(c, "sent") \/ Advance(c, "failed")
                           /\ UNCHANGED <<running, routes, currentUser, native>>
    BY <1>12 DEF SendCredential
  <2>2. PICK d : /\ calls' = (calls \ {c}) \cup {d}
                 /\ \/ d = [c EXCEPT !.ticket = nextCall, !.stage = "sent"]
                    \/ d = [c EXCEPT !.stage = "failed"]
    BY <2>1 DEF SendNext, Advance
  <2>3. /\ d.kind = c.kind /\ d.page = c.page /\ d.ticket \in {c.ticket, nextCall}
        /\ d.stage \in {"sent", "failed"}
    BY <2>2, BaseFacts DEF Call
  <2> QED BY <2>1, <2>2, <2>3, GoogleCalm
<1>13. ASSUME NEW t, NativeAnswer(t) PROVE Calm' /\ FlowStep
  BY <1>13, NativeCalm
<1>14. CASE AuthStateEvent
  BY <1>14, AuthStateCalm
<1>15. ASSUME NEW t, Reply(t) PROVE Calm' /\ FlowStep
  BY <1>15, SignInCalm, TokenCalm, RegisterCalm, FailCalm, SignOutAnsweredCalm DEF Reply
<1>16. CASE UNCHANGED vars
  <2>1. Seen' = Seen
    BY <1>16 DEF vars, Seen
  <2> QED BY <1>16, <2>1, SameCalm DEF vars
<1> QED
  BY <1>1, <1>2, <1>3, <1>4, <1>5, <1>6, <1>7, <1>8, <1>9, <1>10, <1>11, <1>12, <1>13,
     <1>14, <1>15, <1>16
  DEF Next, User, Platform

LEMMA CalmAlways ==
    CallsPerPage <= 1 => (Spec => [](Base /\ Calm) /\ Flow!Init /\ [][FlowStep]_vars)
<1> SUFFICES ASSUME CallsPerPage <= 1
             PROVE  Spec => [](Base /\ Calm) /\ Flow!Init /\ [][FlowStep]_vars
  OBVIOUS
<1>1. Base /\ Calm /\ [Next]_vars => Calm' /\ FlowStep
  BY CalmStep
<1>2. Spec => []Base
  BY HistoryAlways, SignUpAlways, PTL DEF Base
<1> QED BY <1>1, <1>2, CalmInit, PTL DEF Spec

\* The drawer of a home page always finds somebody signed in (home_page.dart:137),
\* for a user who starts one call at a time on a page: no late answer, no event
\* of the listener and no half-done sign-out takes the user from under it.
THEOREM HomeHasUserTheorem == CallsPerPage <= 1 => (Spec => []HomeHasUser)
<1> SUFFICES ASSUME CallsPerPage <= 1 PROVE Spec => []HomeHasUser
  OBVIOUS
<1>1. Calm => HomeHasUser
  <2> SUFFICES ASSUME Calm, NEW r \in Present(routes), r.page = "home"
               PROVE  currentUser # NoUser
    BY DEF HomeHasUser
  <2>1. [id |-> r.id, page |-> r.page] \in Seen
    BY SeenFacts
  <2>2. native \in Users /\ calls = {} /\ running
    BY <2>1 DEF Calm, HomeIsCalm, OneScreen
  <2>3. currentUser = native
    BY <2>2 DEF Calm, DifferMeansOk
  <2> QED BY <2>2, <2>3, NoUserAssumption DEF NoUserAssumption
<1> QED BY <1>1, CalmAlways, PTL

\* With no call under way the Dart and the native session agree, for the same user.
THEOREM QuiescentTheorem == CallsPerPage <= 1 => (Spec => []QuiescentAgreement)
<1> SUFFICES ASSUME CallsPerPage <= 1 PROVE Spec => []QuiescentAgreement
  OBVIOUS
<1>1. Calm => QuiescentAgreement
  BY DEF Calm, DifferMeansOk, QuiescentAgreement
<1> QED BY <1>1, CalmAlways, PTL

\* The assert behind the id token (login_page.dart:278) never fails, for the same user.
THEOREM SameUserTheorem == CallsPerPage <= 1 => (Spec => SameUserAfterToken)
<1> SUFFICES ASSUME CallsPerPage <= 1 PROVE Spec => SameUserAfterToken
  OBVIOUS
<1> DEFINE Same == \A t \in Tickets : IdTokenArrives(t) =>
                     \E c \in calls \ calls' : c.stage = "idToken" /\ currentUser = c.user
<1>1. Calm => Same
  <2> SUFFICES ASSUME Calm, NEW t \in Tickets, IdTokenArrives(t)
               PROVE  \E c \in calls \ calls' : c.stage = "idToken" /\ currentUser = c.user
    OBVIOUS
  <2>1. PICK c \in calls : c.stage = "idToken" /\ calls' = calls \ {c}
    BY DEF IdTokenArrives, Arrives, Finish
  <2> QED BY <2>1 DEF Calm, TokenIsCurrent
<1>2. [](Base /\ Calm) => [][Same]_vars
  <2> HIDE DEF Same
  <2> QED BY <1>1, PTL
<1>3. Spec => [](Base /\ Calm)
  BY CalmAlways
<1> QED BY <1>2, <1>3 DEF SameUserAfterToken

\* Every step of the app is a step of the promise, or one that the promise does
\* not mention: the safety part of ImplementsUserFlow, for the same user.
THEOREM KeepsThePromise ==
    CallsPerPage <= 1 => (Spec => Flow!Init /\ [][Flow!Next]_(Flow!vars))
<1> SUFFICES ASSUME CallsPerPage <= 1
             PROVE  Spec => Flow!Init /\ [][Flow!Next]_(Flow!vars)
  OBVIOUS
<1>1. Base /\ Calm /\ [Next]_vars => FlowStep
  BY CalmStep
<1>2. Spec => [](Base /\ Calm) /\ Flow!Init
  BY CalmAlways
<1> QED BY <1>1, <1>2, PTL DEF Spec, FlowStep

\* What a user sees of it: the home screen stays that of one account until the
\* user signs out or the app ends, whatever answers and events arrive meanwhile.
THEOREM HomeKeepsItsAccount ==
    CallsPerPage <= 1 =>
        (Spec => [][Screen = "home" /\ Screen' = "home" => SessionUser' = SessionUser]_vars)
<1> DEFINE Kept == Screen = "home" /\ Screen' = "home" => SessionUser' = SessionUser
<1> SUFFICES ASSUME CallsPerPage <= 1 PROVE Spec => [][Kept]_vars
  OBVIOUS
<1>1. FlowStep => Kept
  BY DEF FlowStep, Flow!vars, Flow!Next, Flow!Open, Flow!ShowLogin, Flow!SignIn,
     Flow!SignOut, Flow!Close
<1>2. Spec => [][FlowStep]_vars
  BY CalmAlways
<1> HIDE DEF Kept
<1> QED BY <1>1, <1>2, PTL
=============================================================================
