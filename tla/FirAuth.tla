------------------------------ MODULE FirAuth ------------------------------
(***************************************************************************)
(* The native Firebase Auth object of the app: the current user, its copy   *)
(* in the keychain, the refresh of its token, and the notices that tell     *)
(* listeners of changes.  A step is a block of the global work queue, a     *)
(* block of the main queue, or the end of the process.                     *)
(***************************************************************************)
EXTENDS Naturals, Sequences

CONSTANTS
    Uid,            \* accounts
    None,           \* no account; also: the listener was not called yet
    MaxUsers,       \* bound: user objects of one process
    MaxTokens,      \* bound: tokens the service issues
    MaxFetches,     \* bound: token requests of a user object asked for by callers
    MaxPending      \* bound: timers and requests with which the app goes to the background

ASSUME AuthAssumption ==
    /\ None \notin Uid \cup {"unset"} /\ "unset" \notin Uid
    /\ MaxUsers \in Nat \ {0} /\ MaxTokens \in Nat /\ MaxFetches \in Nat /\ MaxPending \in Nat

VARIABLES
    users,          \* the user objects: account, token and token requests in line
    current,        \* the current user, an index of users, or 0
    keychain,       \* the account and token saved on the device
    signingIn,      \* user objects of sign-ins that are not answered
    issued,         \* tokens issued so far, each different
    lastNotified,   \* the token of the last notice
    main,           \* the main queue: blocks that call the listeners
    told,           \* the account the listener was last called with
    autoRefresh,    \* tokens are refreshed before they expire
    scheduled,      \* _autoRefreshScheduled
    timers,         \* tokens for which a refresh is scheduled
    background,     \* _isAppInBackground
    loaded,         \* the keychain has been read
    kept            \* history: the keychain refused what would have settled it

refresh == <<autoRefresh, scheduled, timers, background>>

vars == <<users, current, keychain, signingIn, issued, lastNotified, main, told,
          refresh, loaded, kept>>

Token == 0 .. MaxTokens     \* 0 is no token

Saved == [uid : Uid, token : Token]

Nothing == [uid |-> None, token |-> 0]

UserObject == [uid : Uid, token : Token, fetches : Seq({"call", "auto"})]

UidOf(u) == IF u = 0 THEN None ELSE users[u].uid

TokenOf(u) == IF u = 0 THEN 0 ELSE users[u].token

Without(seq, i) == [j \in 1 .. Len(seq) - 1 |-> IF j < i THEN seq[j] ELSE seq[j + 1]]

-----------------------------------------------------------------------------
\* Mutant: also without a token.
ScheduleAlways(token) == scheduled' = TRUE /\ timers' = Append(timers, token)

\* A timer for a token; without a token there is nothing to refresh.
Schedule(token) ==
    IF token = 0
    THEN UNCHANGED <<scheduled, timers>>
    ELSE scheduled' = TRUE /\ timers' = Append(timers, token)

\* Mutant: losing the token is not a change.
PostOfTokens(uid, token) ==
    IF token \in {0, lastNotified}
    THEN UNCHANGED <<lastNotified, main, scheduled, timers>>
    ELSE /\ lastNotified' = token
         /\ main' = Append(main, uid)
         /\ IF autoRefresh THEN Schedule(token) ELSE UNCHANGED <<scheduled, timers>>

\* A change of the current user's token is posted to the main queue, with the
\* account it has then.
PossiblyPost(uid, token) ==
    IF token = lastNotified
    THEN UNCHANGED <<lastNotified, main, scheduled, timers>>
    ELSE /\ lastNotified' = token
         /\ main' = Append(main, uid)
         /\ IF autoRefresh THEN Schedule(token) ELSE UNCHANGED <<scheduled, timers>>

quiet == <<lastNotified, main, scheduled, timers>>

\* saveUser: what the next process finds.
SaveUser(u) ==
    keychain' = IF u = 0 THEN Nothing ELSE [uid |-> UidOf(u), token |-> TokenOf(u)]

Become(u) == current' = u /\ PossiblyPost(UidOf(u), TokenOf(u))

\* updateCurrentUser for another user object, or for none, takes effect if the
\* keychain takes it.
UpdateCurrentUser(u) ==
    \/ SaveUser(u) /\ Become(u) /\ kept' = FALSE
    \/ UNCHANGED <<keychain, current, quiet, kept>>

\* By force it takes effect even if the keychain refuses.
SignOutByForce ==
    \/ SaveUser(0) /\ Become(0) /\ kept' = FALSE
    \/ Become(0) /\ kept' = TRUE /\ UNCHANGED keychain

-----------------------------------------------------------------------------
\* The first block of the work queue: the user saved by an earlier process.
\* A keychain that cannot be read leaves its user where it is.
Load ==
    /\ ~loaded /\ loaded' = TRUE
    /\ \/ /\ keychain # Nothing
          /\ users' = <<[uid |-> keychain.uid, token |-> keychain.token, fetches |-> <<>>]>>
          /\ current' = 1
          /\ PossiblyPost(keychain.uid, keychain.token)
          /\ kept' = FALSE
       \/ /\ keychain # Nothing /\ kept' = TRUE
          /\ UNCHANGED <<users, current, quiet>>
       \/ /\ keychain = Nothing
          /\ UNCHANGED <<users, current, quiet, kept>>
    /\ UNCHANGED <<keychain, signingIn, issued, told, autoRefresh, background>>

\* A sign-in: the service has issued a token and the account is being looked up.
SignIn(uid) ==
    /\ loaded /\ Len(users) < MaxUsers /\ issued < MaxTokens
    /\ issued' = issued + 1
    /\ users' = Append(users, [uid |-> uid, token |-> issued + 1, fetches |-> <<>>])
    /\ signingIn' = signingIn \cup {Len(users) + 1}
    /\ UNCHANGED <<current, keychain, lastNotified, main, told, refresh, loaded, kept>>

\* The answer to a sign-in replaces whoever is signed in.  A sign-in the service
\* refuses changes as little as one the keychain refuses.
SignInAnswered(u) ==
    /\ u \in signingIn
    /\ signingIn' = signingIn \ {u}
    /\ UpdateCurrentUser(u)
    /\ UNCHANGED <<users, issued, told, autoRefresh, background, loaded>>

SignOut ==
    /\ loaded /\ current # 0
    /\ UpdateCurrentUser(0)
    /\ UNCHANGED <<users, signingIn, issued, told, autoRefresh, background, loaded>>

-----------------------------------------------------------------------------
InLine(u, by) == [users EXCEPT ![u].fetches = Append(@, by)]

\* A user's token is asked for: the request waits in the user's own line.
GetIdToken ==
    /\ loaded /\ current # 0 /\ Len(users[current].fetches) < MaxFetches
    /\ users' = InLine(current, "call")
    /\ UNCHANGED <<current, keychain, signingIn, issued, quiet, told, autoRefresh,
                   background, loaded, kept>>

\* Another part of Firebase asks for the token, which turns the refresh on.
GetTokenForcingRefresh ==
    /\ loaded
    /\ current # 0 => Len(users[current].fetches) < MaxFetches
    /\ autoRefresh' = TRUE
    /\ IF autoRefresh THEN UNCHANGED <<scheduled, timers>> ELSE Schedule(TokenOf(current))
    /\ users' = IF current = 0 THEN users ELSE InLine(current, "call")
    /\ UNCHANGED <<current, keychain, signingIn, issued, lastNotified, main, told,
                   background, loaded, kept>>

\* A scheduled refresh that failed is tried again, provided its account is still
\* the current one.
Retry(u, by, token) ==
    IF by = "auto" /\ users[u].uid = UidOf(current)
    THEN Schedule(token) /\ UNCHANGED <<lastNotified, main>>
    ELSE UNCHANGED quiet

\* Mutant: the new token of any user object is saved.
KeepTokenOfAny(u, by, token) ==
    \/ /\ keychain' = [uid |-> users[u].uid, token |-> token]
       /\ PossiblyPost(users[u].uid, token)
    \/ /\ UNCHANGED keychain
       /\ Retry(u, by, token)

\* updateKeychain: the new token of the current user is saved and posted; that
\* of a user object that is not current any more is of no interest.
KeepToken(u, by, token) ==
    IF u # current
    THEN UNCHANGED <<keychain, quiet>>
    ELSE \/ /\ keychain' = [uid |-> users[u].uid, token |-> token]
            /\ PossiblyPost(users[u].uid, token)
         \/ /\ UNCHANGED keychain
            /\ Retry(u, by, token)

\* The answer to the first request in the line of a user object: a new token, an
\* error, or that the account may not have one, which signs it out by force.
FetchAnswered(u) ==
    LET by == Head(users[u].fetches)
        rest == [users EXCEPT ![u].fetches = Tail(@)]
    IN
    /\ users[u].fetches # <<>>
    /\ \/ /\ issued < MaxTokens /\ issued' = issued + 1
          /\ users' = [rest EXCEPT ![u].token = issued + 1]
          /\ KeepToken(u, by, issued + 1)
          /\ UNCHANGED <<current, kept>>
       \/ /\ users' = rest
          /\ Retry(u, by, TokenOf(current))
          /\ UNCHANGED <<issued, current, keychain, kept>>
       \/ /\ u = current /\ users' = rest
          /\ SignOutByForce
          /\ UNCHANGED issued
    /\ UNCHANGED <<signingIn, told, autoRefresh, background, loaded>>

-----------------------------------------------------------------------------
\* A timer fires.  If the token is not the current one any more another timer
\* must have been set for that; in the background the refresh is left undone.
Fire(i) ==
    /\ timers' = Without(timers, i)
    /\ IF timers[i] # TokenOf(current)
       THEN UNCHANGED <<users, scheduled>>
       ELSE /\ scheduled' = FALSE
            /\ users' = IF background THEN users ELSE InLine(current, "auto")
    /\ UNCHANGED <<current, keychain, signingIn, issued, lastNotified, main, told,
                   autoRefresh, background, loaded, kept>>

\* The app is observed once the refresh is on.
EnterBackground ==
    /\ autoRefresh /\ ~background /\ background' = TRUE
    /\ Len(timers) + (IF current = 0 THEN 0 ELSE Len(users[current].fetches)) <= MaxPending
    /\ UNCHANGED <<users, current, keychain, signingIn, issued, quiet, told,
                   autoRefresh, loaded, kept>>

\* Mutant: coming back schedules nothing.
BecomeActiveOnly ==
    /\ autoRefresh /\ background /\ background' = FALSE
    /\ UNCHANGED <<users, current, keychain, signingIn, issued, quiet, told,
                   autoRefresh, loaded, kept>>

BecomeActive ==
    /\ autoRefresh /\ background /\ background' = FALSE
    /\ IF scheduled THEN UNCHANGED <<scheduled, timers>> ELSE Schedule(TokenOf(current))
    /\ UNCHANGED <<users, current, keychain, signingIn, issued, lastNotified, main,
                   told, autoRefresh, loaded, kept>>

\* A block of the main queue: the listener is called with the account of now,
\* unless it was called with that one last.
Deliver ==
    /\ main # <<>> /\ main' = Tail(main)
    /\ told' = UidOf(current)
    /\ UNCHANGED <<users, current, keychain, signingIn, issued, lastNotified, refresh,
                   loaded, kept>>

\* The process ends; the next one adds its listener and loads the user.
Restart ==
    /\ users' = <<>> /\ current' = 0 /\ signingIn' = {}
    /\ lastNotified' = 0 /\ main' = <<"added">> /\ told' = "unset"
    /\ autoRefresh' = FALSE /\ scheduled' = FALSE /\ timers' = <<>>
    /\ background' = FALSE /\ loaded' = FALSE
    /\ UNCHANGED <<keychain, issued, kept>>

Init ==
    /\ users = <<>> /\ current = 0 /\ signingIn = {}
    /\ keychain = Nothing /\ issued = 0
    /\ lastNotified = 0 /\ main = <<"added">> /\ told = "unset"
    /\ autoRefresh = FALSE /\ scheduled = FALSE /\ timers = <<>>
    /\ background = FALSE /\ loaded = FALSE /\ kept = FALSE

Next ==
    \/ Load \/ SignOut \/ GetIdToken \/ GetTokenForcingRefresh
    \/ EnterBackground \/ BecomeActive \/ Deliver \/ Restart
    \/ \E uid \in Uid : SignIn(uid)
    \/ \E u \in DOMAIN users : SignInAnswered(u) \/ FetchAnswered(u)
    \/ \E i \in DOMAIN timers : Fire(i)

Spec == Init /\ [][Next]_vars

-----------------------------------------------------------------------------
TypeOK ==
    /\ users \in Seq(UserObject) /\ Len(users) <= MaxUsers
    /\ current \in 0 .. Len(users)
    /\ keychain \in Saved \cup {Nothing}
    /\ signingIn \subseteq 1 .. Len(users)
    /\ issued \in Token /\ lastNotified \in Token
    /\ main \in Seq(Uid \cup {None, "added"})
    /\ told \in Uid \cup {None, "unset"}
    /\ autoRefresh \in BOOLEAN /\ scheduled \in BOOLEAN /\ background \in BOOLEAN
    /\ timers \in Seq(Token \ {0})
    /\ loaded \in BOOLEAN /\ kept \in BOOLEAN

\* Whoever is signed in is who the next process will find: answers to requests
\* of users that are not current any more never reach the keychain.
SignedInIsSaved == current # 0 => keychain.uid = UidOf(current)

\* With nobody signed in nothing is saved, unless the keychain could not be read
\* or refused to forget: no sign-out is undone by a late answer.
SignedOutIsForgotten == loaded /\ current = 0 /\ keychain # Nothing => kept

\* A notice follows each change of the account, with the account it changed to,
\* in the order of the changes: what the Firestore client relies on.
NoticeOfEveryChange ==
    [][loaded' /\ UidOf(current)' # UidOf(current)
       => main' = Append(main, UidOf(current)')]_vars

\* When no notice is on its way the listener knows who is signed in, although a
\* notice is acted upon later than it is posted and the user loaded later than
\* the listener is added.
ListenersCatchUp == loaded /\ main = <<>> => told = UidOf(current)

\* "Another auto refresh must have been scheduled" (FIRAuth.m:1844): once the
\* refresh is on, a token that was notified has a timer or is being refreshed,
\* unless the app is in the background.
RefreshNeverLost ==
    /\ autoRefresh /\ current # 0 /\ ~background
    /\ TokenOf(current) = lastNotified
    => \/ \E i \in DOMAIN timers : timers[i] = lastNotified
       \/ \E i \in DOMAIN users[current].fetches : users[current].fetches[i] = "auto"
=============================================================================
