# newsApp: specifications and proofs

TLA+ modules, TLC configurations and TLAPS proofs for the Flutter news app in
`src/`. The app has two screens of substance, a login page and a home page.
Its size is small and its concurrency is not: every button starts an
asynchronous call that nothing waits for, every build of a news widget sends a
request, and the native Firebase SDK keeps a session of its own beside the one
Dart sees. The specifications are about those: first the program's own logic,
about 1,600 lines of Dart, and then the two parts of the vendored SDK that hold the
app's state for it, the native auth object and the path of a Firestore write. The rest
of the repository, BoringSSL, gRPC, LevelDB and other pods, is third-party code that
the app does not configure.

Paths below are relative to `src/`.

## 1. Inventory

| Part | State it keeps | Operations | Talks to |
|---|---|---|---|
| Start and splash (`lib/main.dart`, `lib/spash_screen.dart`) | a 5 s timer | `main`, `initState` | Navigator |
| Login form (`lib/login_page.dart` 96-296) | text fields, password visibility; the continuations behind its awaits | `_signInWithEmailAndPassword`, `_signInWithGoogle` | FirebaseAuth, GoogleSignIn, Navigator |
| Sign-up form (`lib/login_page.dart` 430-631) | text fields, `_success`, `_message` | `_register` | FirebaseAuth |
| Sign-up sheet (`lib/login_page.dart` 298-388) | an `AnimationController` | `_toggle`, `_handleDragUpdate`, `_handleDragEnd` | the gesture recognisers |
| Home app bar (`lib/pages/home_page.dart` 12-101) | `_isSearching`, `searchQuery`, `query`, the route's local history | `startSearch`, `stopSearching`, `clearSearchQuery`, `updateSearchQuery` | drawer, back button |
| Drawer (`lib/pages/home_page.dart` 102-193) | none; reads `currentUser` | sign-out, about box | FirebaseAuth, Navigator |
| News list (`lib/pages/wholeNews.dart`) | a `FutureBuilder` | `getData`, item builder, `onTap` | newsapi.org, Navigator |
| Breaking-news strip and slider (`lib/pages/breakingNewsScroll.dart`, `lib/pages/home_page.dart` 222-278) | `currentPage`, a `FutureBuilder` | `getData`, scroll listener | newsapi.org |
| Decoding (`lib/data/news_response.dart`) | none | `newsFromJson` (`newsToJson` is there and never called) | |
| Article page (`lib/pages/detailed_new.dart`) | none | open in browser, share | URL launcher, share sheet |
| Animations (`lib/animation/`) | none of its own | | |
| Native Firebase Auth (`ios/Pods/FirebaseAuth`, vendored) | user objects and the current one, keychain, token requests, refresh timers, the last token notified | sign-in, sign-out, token refresh, notices to listeners | Dart, through the plugin; Firestore |
| Firestore write path (`ios/Pods/FirebaseFirestore`, vendored) | batches of each user on disk, write pipeline, write stream, token requests, callbacks | write, wait for writes, enable and disable network, change of the user | Firebase Auth; the service, through gRPC |

Firestore is named in `pubspec.yaml:30` and registered in
`ios/Runner/GeneratedPluginRegistrant.m:52`, but no line of `lib/` calls it: its model
is of what the app carries and could use, from the client's own code.

What is hard in it, and what makes each part correct:

* **Session.** A call outlives the press that started it. Its answer meets a
  page that may still be on top, be covered by another one, be replaced but
  still mounted while the new page slides in, or be disposed. `signOut()` is
  not awaited (`home_page.dart:172`), so the login page comes up, and calls are
  started on it, while the old session is still there, and possibly stays there
  when the keychain refuses. Dart's `currentUser` is written by replies *and* by
  listener events. Correct means: a home page always has a user, and the same
  one until the sign-out; a login page cannot be reached again by the back
  button; the pages and calls left behind go away in the end.
* **Feeds.** Each build hands the `FutureBuilder` a new future. Correct means
  that what is shown is the answer to the latest request, never goes back to an
  older one, and that the spinner does not stay.
* **Rows and cards.** One undecodable article loses the response; the list asks
  for 19 rows and the strip for five cards, whatever the response has; an article may
  lack its image or its title. Correct means that each row shows what the service sent
  for it, that the list and the strip do not disagree about a response, and that the
  cards are painted in order, with the one in front whole where the screen allows it.
* **Sheet.** A drag stops the animation that it meets. Correct means that the
  sheet never hangs between its edges with nothing moving it.
* **App bar.** Searches and the drawer share the route's local history with the
  back button. Correct means that the back button takes off the right entry,
  and that no text of an earlier search survives.
* **Auth object.** Answers to sign-ins and token requests come late, for user objects
  that are not current any more; the keychain may refuse; a notice is posted in one
  place and acted upon in another, later; refresh timers outlive their tokens.
  Correct means that user, keychain and listeners agree, over process ends too.
* **Firestore writes.** A token is fetched on one queue for a stream of another, while
  the user changes; a response names no write and is matched by its place; a
  stream may break, and the process end, between any two steps, a callback and
  the removal from disk among them. Correct means that no write is lost, none is sent
  in another user's name, and every write is answered if nothing keeps breaking.

`PROJECT.json` lists the hazards line by line, with the properties aimed at each.

## 2. Modules

| Module | Models | Built on |
|---|---|---|
| `Navigator` | the history of one Flutter `Navigator` (external) | |
| `AppSession` | pages, calls, Dart and native session | `Navigator` |
| `UserFlow` | what the user is promised: five steps over a screen and an account | |
| `AppSessionFlow` | the refinement mapping from `AppSession` to `UserFlow` | `AppSession`, `UserFlow` |
| `MCAppSession` | two accounts and their symmetry, for TLC | `AppSessionFlow` |
| `AppSessionProofs` | theorems about `AppSession`, however many calls overlap | `AppSession` |
| `SessionFlowProofs` | theorems for one call at a time, and the refinement's safety | `AppSessionFlow`, `AppSessionProofs` |
| `NewsFeed` | requests and `FutureBuilder` snapshots of the two news widgets | |
| `CardStrip` | where the strip puts its cards: pure operators | |
| `NewsList` | decoding, the rows built from the articles, the strip and its slider | `CardStrip` |
| `MCNewsList` | which keys the articles may lack, for TLC | `NewsList` |
| `BottomSheet` | the sign-up sheet | |
| `HomeSearch` | search, drawer and back button of the home page | |
| `FirAuth` | the native auth object | |
| `MCFirAuth` | the symmetry of its accounts, for TLC | `FirAuth` |
| `CloudWrites` | Firestore's way of a write to the service | |
| `NewsFeedProofs`, `NewsListProofs`, `BottomSheetProofs`, `HomeSearchProofs`, `FirAuthProofs`, `CloudWritesProofs` | theorems about these | each its module |

The parts meet in few places, and the modules keep to them. Signing out on the
drawer of `HomeSearch` is `TapSignOut` of `AppSession` and `Unmount` of
`NewsFeed`. A tap on a row of `NewsList` is `OpenArticle` of `AppSession`.
`Answered` and `Failed` of `NewsFeed` stand for a `getData()` whose decoding is
`NewsList`'s `Decode`. `AppSession`'s native session is `FirAuth`'s `current` and
`keychain`: `SignedInIsSaved` and `SignedOutIsForgotten` are what its `Boot` relies on,
`ListenersCatchUp` what its listener events do. `CloudWrites`' `authUser` and its
notices are `FirAuth`'s `current` and `main`: it relies on `NoticeOfEveryChange`. Its `LookUp` and `Answer` are
`FIRAuth`'s `getTokenForcingRefresh`.

### AppSession

`routes` is the Navigator's history: a record per page with its phase.
`pushing` and `idle` pages are *present*; a page replaced by `pushReplacement`
is `removing`, still mounted, until a page above it is `idle` or nothing is
left above it (`Navigator!Held`); a popped one is `popping` until its transition
ends. `calls` holds the calls under way. A call is one run of
`_signInWithEmailAndPassword`, `_signInWithGoogle`, `_register` or
`_auth.signOut()`; its stage is the `await` that it stands at:

| stage | meaning |
|---|---|
| `picker`, `tokens` | awaiting `googleSignIn.signIn()`, then `.authentication` (lines 265, 266) |
| `sent` | the message is with the native plugin |
| `ok`, `failed` | the native SDK has decided, the reply is on its way to Dart |
| `idToken` | awaiting `user.getIdToken()`, which is inside an `assert` (line 275) and therefore not there in a release build (`AssertsOn`) |

The tickets order the messages: `SendNext` gives a call that sends a second
message a new one. One action stands for one handler: `TapX` for the press of a
button up to its first `await`, the actions named after replies (`SignedIn`,
`Registered`, ...) for the code behind it, with the write of `currentUser` that
the plugin makes before it completes the future. `GoHome` is
`Navigator.pushReplacement(context, HomePage)`: it replaces whatever page is on
top, provided that the *calling* page is still mounted. On an unmounted page
`State.context` is null, the snack bar before the navigation throws, so does the
one in the handler of that exception, and nothing happens. `Kill` ends the
process at any moment, `Boot` starts it again with what the keychain has, and
always on the splash page: nothing in the code looks at `currentUser` there.

Where a call fails matters only as far as its effect differs: `SignInFailed`
stands for both `catch` clauses, `RegisterFailed` for the `catch` of
`_register`. The branch `user == null` behind a successful answer never runs:
a `UserCredential` that the plugin delivers has a user.

### The other modules

`NewsFeed` numbers the requests in the order in which the builds send them, the
strip first. `view[f]` is the `AsyncSnapshot` of a feed's builder and the
request it listens to. `Mount` sends four: each feed's `initState` calls
`getData()` for nothing, and its first build calls it again.

`NewsList` keeps of an article what can make a step fail or a row differ: the keys
`source`, `title`, `urlToImage` and `publishedAt`. A JSON article is an object with some
of them, each with a value of that article's own, so that a key read under another name, or
a row taken from another article, shows; `Lookup` reads null for a key that is not there, as
a Dart map does, and `ArticleFromJson` fills the fields one by one. The body is any list
of such articles, or something without `articles`. A row is built when it is asked for
(`BuildRow`): an index past the articles throws, and so does, in a debug build, the
`Text` of a title that is null; the list then has an error row, and goes on. The strip is
built at once: `StripThrows` when the response is shorter than the strip or, in a
debug build, when a card has no image or no title. The slider moves `page` by a step at a time,
and past its ends as far as a drag does. `CardStrip` computes, as the builder does,
where each card starts and how wide it is at such a page, in a unit in
which every length is whole.

`BottomSheet` counts the controller's value in `Top` steps. A fling moves it
step by step to the edge and then settles its status, as a spring of Flutter's
`fling` does; setting `value` stops it and derives the status as the framework
does.

`HomeSearch` holds the route's local history as a sequence. `stopSearching`
sets `_isSearching` to TRUE, as the code does, and is called only by the removal
of a search entry.

### FirAuth

A step is a block of the SDK's global work queue (`Load`, `SignIn`, `SignInAnswered`,
`SignOut`, `GetIdToken`, `FetchAnswered`, `Fire`, ...), a block of the main queue
(`Deliver`), or the end of the process. `users` are the `FIRUser` objects of the process; two of
them may have one account. Each has its line of token requests, as `FIRUser`'s
`_tokenService` and its serial task queue keep them: an answer is for the object
that asked, which may not be `current` any more. `updateCurrentUser` writes the
keychain first and becomes effective only if it took it (`UpdateCurrentUser`); by
force, as when the service says that an account is gone, it is effective anyway, and `kept`
records that the keychain still has the user. `main` holds the notices, each
with the account it was posted for; `Deliver` calls the listener with the account of
*now*, as the SDK does. `timers` and `scheduled` are the token refresh that other parts of
Firebase turn on, with the app in the background or not.

### CloudWrites

A step is an operation of Firestore's worker queue, a block of the main queue, a step
of Firebase Auth, of gRPC or of the service, or the end of the process. Each
operation is whole: a response, for instance, calls the callbacks, wakes those who wait,
takes the batch off the disk, refills the pipeline, sends what is new and starts the
stream if it is off (`OnWriteStreamMutationResult` with `FillWritePipeline`).

* `queue` is what is on disk per user; `pipeline` the batches under way; `callbacks` and
  `waits` are the application's, kept by batch id, and ids start again when nothing
  is on disk (`LoadNextBatchIdFromDb`).
* The stream goes from `Initial` or `Error` by way of `Starting` or `Backoff` to `Open`.
  In `Starting` a token is awaited: a request to Firebase Auth, which looks at its user
  (`LookUp`), answers on the main queue (`GetTokenAnswered`, where a notice handled
  meanwhile makes it ask again), and is handed to the worker queue
  (`ResumeStartWithCredentials`, where a stream closed meanwhile ignores it).
  `token_counter` and `close_count` are the two counters that decide so.
* `call` has both ends of the gRPC call: requests the service has not taken, responses
  not read, and the completions on the worker queue. The service answers in order or
  ends the call at a write that it refuses.
* The process may end anywhere, also inside the operations that both call the application
  and write the disk, each of which has an action of its own for it
  (`KillInSuccessfulWrite`, `KillInRejectedWrite`).
* `owner`, `told` and `committed` record, per write, in whose queue it was put, what its
  callback heard, and in whose name the service took it.

## 3. Runs

| Run | Question | Properties |
|---|---|---|
| `overlap` | What holds when buttons are pressed again before an answer? | `TypeOK`, `NoWayBack`, `SignedUpMeansSignedIn`, `SettledLoginKeepsOwnCalls` |
| `calm` | Does the app keep its promise to a user who waits for an answer? | `HomeHasUser`, `QuiescentAgreement`, `SameUserAfterToken`, `ImplementsUserFlow` |
| `live` | Does everything left behind go away, and a sign-in come through? | `ReplacedPagesDisposed`, `CallsAnswered`, `AcceptedLeadsHome` |
| `assert` | Does the assert of `login_page.dart:278` hold? It does not | `SameUserAfterToken` violated |
| `feed` | Are the feeds right whatever order answers arrive in? | `RestsOnLatest`, `NeverOlder`, `BrokenOnlyAtFirst`, `FeedsSettle`, `TypeOK` |
| `rows` | Do rows and strip show what the body has, and are the cards where they should be? | `RowsAreShowable`, `StripDrawnWithRows`, `CardsInOrder`, `FrontCardInView`, `TypeOK` |
| `rows_max` | Is `itemCount` a maximum? It is not | `ItemCountIsAMaximum` violated |
| `sheet` | Can the sheet get stuck? | `AtRestAtAnEdge`, `ReachesItsEdge`, `TypeOK` |
| `search` | Do search, drawer and back button agree? | `DrawerIsNewest`, `NoStaleText`, `TypeOK` |
| `auth` | Do current user, keychain, listeners and refresh timers agree? | `SignedInIsSaved`, `SignedOutIsForgotten`, `ListenersCatchUp`, `RefreshNeverLost`, `NoticeOfEveryChange`, `TypeOK` |
| `writes` | Does each write reach the service in its owner's name, and get its answer? | `PipelineInStep`, `WrittenByOwner`, `NothingLost`, `WaitMeansDone`, `WritesDrain`, `TypeOK` |
| `writes_refused` | Is a write that the client rejects one that the service refused? It need not be | `RejectedWasRefused` violated |

### What the runs show of the session

With one call at a time on a page (`calm`) the app is right, the sign-out that
nobody awaits included: it implements `UserFlow`. The reason is the plugin's
handling of `signOut`: later messages are handled and answered behind it
(`SignOutAhead`). Without that order, which the Dart code does nothing to
enforce, the refinement and `SignedUpMeansSignedIn` both fail; their mutants
drop it.

With two calls in flight (`overlap`) some of it is lost, and the properties of
that run are what is left. Known behaviours, each found by TLC:

* Two presses of the login button: the first answer shows the home page, the
  user opens an article while the login page is still mounted, and the second
  answer replaces *the article* by a second home page. Signing out there puts a
  login page above the first home page; the back button leads to a home page
  without a user, whose drawer reads `currentUser.email` of null
  (`home_page.dart:137`).
* Two sign-ins of different accounts: the second answer, arriving on a page that
  is already disposed, switches the account under the home page in silence.
* A login page that is being popped is mounted for the length of its exit
  transition. A late answer to one of its calls replaces whatever is on top,
  a settled login page of a later sign-out among them. This is the exception
  that `SettledLoginKeepsOwnCalls` makes.
* `_signInWithGoogle` reads `currentUser` after an `await` and asserts that
  nobody else has signed in meanwhile; in a debug build the assert can fail
  (`assert`).

`AcceptedLeadsHome` says that `GoHome`, which needs the page to be mounted, comes in time for
every page on screen: what can take the page away before its own answer is another answer,
which leads home as well, the back button or the end of the process. It is about e-mail
sign-ins, since a debug build may still fail to fetch a Google user's id token. A sign-in
accepted for a page that has been disposed switches the account and shows nothing.

`BrokenOnlyAtFirst` states precisely what `case null` in
`breakingNewsScroll.dart:38` costs: no connection state is null, so the strip
reads the articles of a null snapshot until the first answer to its page has
arrived, and never again on that page.

### What the runs show of cards, auth object and writes

Rows and strip fail differently on one response (each widget sends its own request; the
claims are about equal answers). An article without an image ends the list there, one
without a title costs a debug build that row only, and either costs a debug build the whole strip:
`StripDrawnWithRows` says that there is no third way, the strip is drawn exactly if the
first rows are good ones. A release build draws cards and rows without titles, and cards
without images.

The cards start in order on every screen. The front one is whole only on some:
`FrontCardInView` says that it is exactly for strips up to 380 pixels high, that is on screens
up to 553 wide, and for the last card. Above that the next card covers its edge, since a
card grows faster with the strip than the distance by which the next one is pushed
aside. Phones held upright are narrower; phones on their side and tablets are
not, and the app runs on both (`ios/Runner/Info.plist:40-52`; `main.dart` sets no
orientation).

The auth object keeps user, keychain and listeners in step. `RefreshNeverLost` holds only
while the current token is the last one notified: a refreshed token whose keychain save failed,
outside the scheduled refresh, is neither posted nor scheduled, and the timer of the
old token then finds that it is not current and does nothing, where
`FIRAuth.m:1844` says "Another auto refresh must have been scheduled".

Firestore's writes come through: the two counters are enough for a token never to open
a stream for another user, the place in the pipeline to find the write of a response. `NothingLost`
says that a success was a commit and that a write leaves the disk only committed or
refused. It does not say that a write is committed once: one whose response was lost
is sent again, and told apart by the service through the stream token, which is
not modelled. What fails is `RejectedWasRefused`. When the service refuses a write
while a later one is being sent, the failure of that send may finish the call
with earlier responses unread, and `HandleWriteError` (`remote_store.cc:515`) gives up the batch at
the front of the pipeline, which the service has committed. The refused one is sent
again, and refused again, so nothing is lost but the truth of one callback.

### Bounds, and why they are enough

`AppSession`: `CallsPerPage` (calls of one page in flight), `MaxRoutes` (pages
that the user opens per process) and `MaxCalls` (calls that the user starts per
process) occur only in the guards of the user's own taps (`TapOn`,
`OpenArticle`, `TapSignOut`), so that they bound what the user does and never what
the program does with it. Six pages and four calls allow the cycle login, home,
sign-out, login, home with an overlapping call left from the first page, and
articles in between: the stacked homes above need four pages and three calls.
Restarts are not bounded. `Tickets` and `RouteIds` only name the numbers that
these bounds allow, a call sending three messages at most and an answer pushing
one page. `overlap` is a release build, since
`idToken` only lengthens a call; `calm` and `assert` are debug builds.
Two accounts are enough to confuse them. `live` has one: its properties compare
users with "nobody", and symmetry may not be used with liveness.

`NewsFeed`: eight requests are two home pages, or one with two full rebuilds, or
one with four scroll steps. `NewsList`: up to four articles, three rows and three
cards give responses shorter, as long and longer than list and strip ask for, in the
place of 19 and 5; three positions per page and two past each end stand for the
slider's continuous movement. The heights are those of a small phone and of a common one, 180
and 245 pixels, both sides of the limit, and a phone on its side, 459. `SomeShapes` lets an article
that can be decoded lack a title, an image or both, and makes one undecodable in three ways: no
source, no date, a date that is none; what else such an article lacks makes no
difference, since the response is lost. `rows` is a debug build, in which both asserts
are live; for release builds the theorems stand. `BottomSheet`: eleven steps, an odd number so that half of the way is no
step; any number shows the same. `HomeSearch`: six local history entries, more
than any that differ in effect, since a search entry can be left behind each
time the clear icon ends a search.

`FirAuth`: two user objects per process (one current, one late), four tokens over all
processes, one token request asked for by callers and one timer or request with which
the app goes to the background. `MaxUsers`, `MaxTokens` and `MaxFetches` bound callers
and the service. `MaxPending` bounds what would pile up otherwise: each
way to the background and back may add a timer for the same token.

`CloudWrites`: two users, three writes of which the second is refused, a pipeline of two
(so that it is full, refilled and empty), one wait, one sign-in, and one
*disturbance*, which is a broken stream, a refused token, a change of the
network or the end of the process, at any step: 336,522 states. Two sign-ins with one
disturbance (12.9 million states) and one with two (5.2 million) were explored as
well, without liveness and with the same result; they take too long to run each time.
`writes_refused` needs one user, four writes and no disturbance.

### Fairness

What the platform owes the app is fair: the splash timer fires, page
transitions end, the SDK answers or times out, replies and listener events are
delivered, frames are drawn, requests are answered or fail. What the user does
is not: the account chooser may stay open, no button needs to be
pressed. Starting and killing the process are the user's.

In `CloudWrites` the main queue, the worker queue, the backoff timer, gRPC's completions
and transport, Firebase Auth and the service go on: dispatch queues run what they are
handed, a call is answered or ends. The application, the idle timer
and the disturbances are not fair. Disturbances are bounded, so `WritesDrain` says
that a write is answered once streams stop breaking, and takes a change of the user, a
disabled network and the end of the process as its exceptions. `FirAuth` has no liveness property: its
service and its users owe nothing.

`CHECK_DEADLOCK FALSE` is set where the system really may stop: a home page that
was left, a response whose rows are all built, a client with nothing to write.

## 4. Proofs

`AppSessionProofs` proves for every set of accounts, both kinds of
build and all values of the bounds, from the assumptions in `AppSession` (`NoUser` is no
account, `AssertsOn` is Boolean, the bounds are naturals):

* `TypeCorrect`: `Spec => []TypeOK`.
* `NoWayBackTheorem`: `Spec => []NoWayBack`. A present splash or login page is on
  top of the history. `NoWayBack` is not inductive: it says nothing about the ids
  of new pages, so a page pushed over a login page might count as lying below it.
  `HistoryInv` adds that ids are distinct (`IdsDistinct`) and below `nextRoute`
  (`IdsBelow`), so that a new page lies above all others; and, for the next
  theorem, that nothing at all lies above a present splash or login page, not
  even a page on its way out (`NothingAbove`), that every replaced page is still
  held by a page above it (`AllHeld`), since each change of the history ends in
  a flush, and that the calls that lead home belong to login pages that were
  given an id (`CallPages`).
* `SettledLoginTheorem`: `Spec => SettledLoginKeepsOwnCalls`, an action
  property, from the same invariant. If a settled login page is replaced, the page
  of the call that did it is mounted. It is not above the login page, by
  `NothingAbove`. If it is below and present, it is a login page by `CallPages`,
  with something above it, against `NothingAbove`; if it is below and replaced,
  `AllHeld` says that nothing above it is settled, and the login page is. So it is
  the login page itself or a page being popped.

* `SignedUpTheorem`: `Spec => []SignedUpMeansSignedIn`, also with
  overlapping calls. The argument orders two calls by their tickets. A sign-out
  sent before the registration is handled and answered before it; a sign-out sent
  after it was started on a home page, and then the form's page is no longer
  present (`LaterSignOut`). `SignUpInv` adds that tickets are distinct
  (`CallsInOrder`), which stages a call can be in (`CallStages`), and that between
  the native answer and its reply nothing signs the new account out
  (`AccountStays`). It rests on `HistoryInv` for the pages.

`SessionFlowProofs` is about a user who starts one call at a time on a page: its theorems
have the hypothesis `CallsPerPage <= 1`, and otherwise hold for every set of accounts, both
kinds of build and any `MaxRoutes` and `MaxCalls`. The hypothesis is about the user, not about
the code: nothing disables a button, and with overlapping calls `HomeHasUser` is false, as
described above.

* `HomeHasUserTheorem`, `QuiescentTheorem` and `SameUserTheorem`:
  `Spec => []HomeHasUser`, `Spec => []QuiescentAgreement`, `Spec => SameUserAfterToken`.
* `KeepsThePromise`: `Spec => Flow!Init /\ [][Flow!Next]_(Flow!vars)`, the refinement of
  `UserFlow` step by step. Each action of `AppSession` changes the screen as one action of
  `UserFlow` does (`MoveFlow`, `EndCalm`, `BootCalm`) or leaves screen and account alone
  (`StayFlow`). `HomeKeepsItsAccount` is what the user sees of it.

None of these is inductive: whether an answer may change the user depends on which calls are
left when a home page is shown. The invariant is `Calm`, on top of `HistoryInv` and
`SignUpInv`. There is one screen, with articles above a home page only (`OneScreen`). A call
that can lead home belongs to the login page shown (`OwnCalls`), so that there is one of them
at most, and at most one sign-out (`OneOfEach`), sent before it (`SignOutFirst`): a home page
is left for a sign-out only when nothing else is under way. The plugin's order then says
that the answer that leads home is the last (`Alone`), hence `HomeIsCalm`: a home page finds no
call. What the two sessions do meanwhile is in the rest. A success that is on its way is of
the native user, with no sign-out left that could undo it (`OkIsNative`); the sessions differ
only while there is a success on its way (`DifferMeansOk`); a sign-out whose success is on
its way has left nobody behind, or the user of a later call that has succeeded since
(`SignedOutOrIn`), so that hearing of it sets the sessions apart in no other way; and the id
token is awaited by the only call, for a user that both sessions have (`TokenIsCurrent`).

The lemmas before them state, once, what each Navigator operation does to such a
history (`Flush`, `Push`, `PushReplacement`, `Pop`, `Entered`, `Exited`), and each
invariant's step is proved action by action.

The other proofs, each for every value of the module's constants:

* `NewsFeedProofs`: `RestsOnLatestTheorem`, `NeverOlderTheorem` and
  `BrokenOnlyAtFirstTheorem`, from `FeedInv`: on a mounted page the articles held are
  of no later request than the one listened to, and that request has been sent.
  `TypeCorrect` is part of it.
* `BottomSheetProofs`: `TypeCorrect` and `AtRestTheorem`, from `SheetInv`: `AtRestAtAnEdge` is about a
  lifted finger only; a finger that lies still lies on a resting or moving
  sheet, and a status of `completed` means that the sheet is open, without which the
  early return of `_handleDragEnd` could leave it anywhere.
* `HomeSearchProofs`: `TypeCorrect` and `DrawerIsNewestTheorem`, from `SearchInv`: below the newest entry
  there are only searches; and `NoStaleTextTheorem`, which is inductive as it stands.
* `NewsListProofs`: `TypeCorrect`, `RowsAreShowableTheorem` and
  `StripDrawnWithRowsTheorem`, from `RowsInv`: the articles are what `ArticleFromJson` makes of the
  body, row `i` is what the item builder makes of index `i`, no row lies past an article
  without an image, and a list that has ended did so before one. They hold for articles
  that lack any of the keys (`Shapes` is any set of shapes) and for both kinds of build.
  `CardsInOrderTheorem` and `FrontCardInViewTheorem` are arithmetic, for any
  number of cards, any position and any height from 20 pixels on, below which the two paddings
  of ten leave no card to draw (`SizesAssumption`).
* `FirAuthProofs`: `TypeCorrect`, `SignedInIsSavedTheorem`, `SignedOutIsForgottenTheorem`,
  `ListenersCatchUpTheorem` and `NoticeOfEveryChangeTheorem`, from `IInv`, and
  `RefreshNeverLostTheorem`. A change of the
  account is posted only if its token differs from the last one notified; so tokens
  must be distinct and issued (`Tokens`), the token of an unanswered sign-in never notified
  (`Unanswered`), and no user have been notified exactly if there is none (`Notified`).
  `Starting` is the state before the keychain is read, in which only the notice of the added
  listener is under way, and `Told` is `ListenersCatchUp` without that exception.
  `RefreshNeverLost` says nothing of the background, so it is not inductive: the return to
  the foreground schedules a refresh only if none is scheduled. `RefreshAlive` adds that
  with no timer and no request of the refresh left, none is scheduled.
* `CloudWritesProofs`: `TypeCorrect`, `PipelineStaysInStep`, `WrittenByTheOwner`,
  `NothingIsLost` and `WaitingEndsWhenDone`, in four layers. The first is `IInv`, with `PipelineInStep` itself: ids ascend in
  each queue and lie below the next one (`QueuesInOrder`), without which a refill might
  repeat or skip a batch; a stream that is not open has no call, and the shape of the others
  (`StreamInStep`); the completions of a call come in one of a few orders
  (`CallInOrder`); without a process nothing of it is left (`ProcessGone`); and a
  token that counts finds its stream `Starting`, with no second one under way
  (`TokensInStep`), so that no answer opens a stream that is open. The client's own
  assertions about these are consequences. The second layer is `OwnersInStep`. A token
  says nothing of the user that it is fetched for, and three copies of the user
  change at different times. `UsersFit` follows them: the last notice in the worker queue, or
  else the sync engine's user, is whom the main queue starts from, and its last
  notice, or else that one, is whom Firebase Auth has; an answer whose counter is
  current, with no notice before it, is for that user. With it the token that opens
  a stream is for the sync engine's user, so is the call (`CallIsUsers`), and
  what the call carries is from that user's queue (`QueuesAreUsers`, `PipelineInStep`).
  The third is `AnsweredInStep`, which contains `NothingLost`. The responses that wait
  on a stream whose handshake is done are for the first batches of the pipeline, all
  committed, and a write that ended the call with an error lies behind them with only
  committed ones before it (`AnswersInStep`); a callback is for a batch still in the queue, so
  that an id used again does not meet the callback of an older write (`CallbacksInStep`); and no
  write is in two batches (`WritesDistinct`). The fourth is `WaitsInStep`: of what a wait covers,
  each write is settled or still in the queue with an id no larger than the one waited for.

Only model-checked: the liveness properties (`ReplacedPagesDisposed`, `CallsAnswered`,
`AcceptedLeadsHome`, `FeedsSettle`, `ReachesItsEdge`, `WritesDrain`, and the fairness of
`UserFlow` in `ImplementsUserFlow`), since TLAPS does not reason about `ENABLED`. Every invariant
and every action property that a passing run checks is proved.

## 5. What is assumed of code that is not here

* **Flutter's Navigator and State** (1.22, the version the app's plugins name):
  the phases above, the rule of when a replaced route is disposed, `context` of
  an unmounted `State` being null. `FutureBuilder` keeps data and error while it
  waits for a new future and ignores the old one. `AnimationController` and
  `LocalHistoryRoute` as described in the modules.
* **The Firebase plugin on iOS**, from its vendored SDK in `ios/Pods`:
  `signOut` is carried out synchronously (`FIRAuth.m:1365`), and the plugin's
  messages are handled in the order in which they were sent. The new user is
  saved to the keychain before it becomes the current one, and a save that fails
  leaves both as they were (`FIRAuth.m:1991`). Listeners are told of a change
  (`FIRAuth.m:1728`). `AuthStateEvent` gives Dart the native user *of that
  moment*: it stands for the last of the events under way. Replies of different
  calls may overtake each other in the model, except a sign-out's; on the
  device they share one channel, so the model allows more than can happen.
* **Hosts.** The order of sign-out and later messages is that of the iOS host, whose
  SDK is in the repository. The system back button, which can also close the
  app, is that of the Android host; iOS only has a subset of its effects. The end
  of the process takes the calls under way with it: a native answer that would have
  come later is a `NativeAnswer` before the end, or is lost.
* **The Google chooser** ends with an account or is cancelled.
* **The auth service** issues no token twice. Setting and removing a keychain entry may
  be refused; the app has no access group and no tenant.
* **The Firestore service** answers the writes of a stream in order, refuses a write
  whatever stream it comes on (`Refused` is an attribute of the write), and does
  not end a stream without an error while writes are unanswered. What it takes of a broken
  stream it takes before what comes on the next one. The handshake carries no stream token
  (`write_stream.cc:73`). The token counter, which the client reads without a lock
  between the queues, is read and written in whole steps here, in every order.

## 6. Not modelled

Validators, password visibility and text fields (calls start with credentials
that passed); the article page, whose
route appears as `detail`, and the about box, which is a route of the same kind;
animations, images, text and layout but for the cards' places; `author`, `description`, `url` and
`content` of an article, which decoding passes on whether null or not (a null URL is turned
into text, `wholeNews.dart:61`); `newsToJson` and the `toJson` under it, which nothing
calls. Of Firebase Auth: access groups, tenants, account linking, phone and e-mail-link
sign-in, which the app never uses. Of Firestore: listens, transactions, the local
view of documents, stream tokens, and the invalidation of a token that the service
did not take. The other vendored pods, generated host code, and the
template's counter test (`test/widget_test.dart`), which exercises a widget that
the app does not have. `README.md` says that the slider and the search do not work;
the models say what their state does all the same.

## 7. Plan

1. *Session core* (done): `Navigator`, `AppSession`, `UserFlow`, refinement, and the
   theorems that hold for overlapping calls.
2. *Widgets* (done): `NewsFeed`, `NewsList`, `BottomSheet`, `HomeSearch`, and their
   theorems.
3. *Cards* (done): `CardStrip`, and the strip and its slider in `NewsList`, with their
   theorems.
4. *Native session* (done): `FirAuth` and its theorems.
5. *Firestore writes* (done): `CloudWrites`, and the theorems on pipeline, owners, lost writes and
   waits.
6. *Composition*: the home page with its feeds and its local history inside the session,
   where a replaced home page goes on rebuilding until it is disposed; and the session
   on top of `FirAuth`, with the refinement of the contract that `AppSession` states.
7. *Theorems* (done): for one call at a time on a page, the invariant `Calm`, and from it
   `HomeHasUser`, `QuiescentAgreement`, `SameUserAfterToken` and the safety part of
   `ImplementsUserFlow`.
