--------------------------- MODULE FirAuthProofs ---------------------------
(***************************************************************************)
(* What the native Auth object keeps in step: the current user, what the    *)
(* keychain holds, what was posted, what the listener was told, and the     *)
(* refresh of the token, for any number of accounts, sign-ins, token        *)
(* requests and restarts.                                                   *)
(***************************************************************************)
EXTENDS FirAuth, TLAPS

\* Tokens are those issued so far, and each is one user object's.
Tokens ==
    /\ \A u \in DOMAIN users : users[u].token \in 1 .. issued
    /\ \A u, v \in DOMAIN users : u # v => users[u].token # users[v].token
    /\ keychain # Nothing => keychain.uid \in Uid /\ keychain.token \in 1 .. issued
    /\ lastNotified <= issued

\* A user whose sign-in is not answered is new to everyone.
Unanswered ==
    \A u \in signingIn : u # current /\ users[u].token # lastNotified

\* Nothing was notified of no user, and something of any other.
Notified == current = 0 <=> lastNotified = 0

Starting == ~loaded => current = 0 /\ users = <<>> /\ signingIn = {}

Told == main = <<>> => told = UidOf(current)

IInv == /\ TypeOK /\ Tokens /\ Unanswered /\ Notified /\ Starting
        /\ Told /\ SignedInIsSaved /\ SignedOutIsForgotten

-----------------------------------------------------------------------------
LEMMA InitInv ==
    ASSUME Init
    PROVE  IInv
  <1>1. TypeOK
    <2>1. users \in Seq(UserObject) /\ Len(users) = 0 /\ timers \in Seq(Token \ {0})
      BY DEF Init
    <2>2. main \in Seq(Uid \cup {None, "added"})
      BY DEF Init
    <2>3. issued \in Token /\ lastNotified \in Token /\ MaxUsers \in Nat
      BY AuthAssumption DEF Init, Token
    <2>4. /\ current \in 0 .. Len(users) /\ signingIn \subseteq 1 .. Len(users)
          /\ Len(users) <= MaxUsers
      BY <2>1, <2>3 DEF Init
    <2>5. /\ keychain \in Saved \cup {Nothing} /\ told \in Uid \cup {None, "unset"}
          /\ autoRefresh \in BOOLEAN /\ scheduled \in BOOLEAN /\ background \in BOOLEAN
          /\ loaded \in BOOLEAN /\ kept \in BOOLEAN
      BY DEF Init
    <2> QED  BY <2>1, <2>2, <2>3, <2>4, <2>5 DEF TypeOK
  <1>2. Tokens /\ Unanswered /\ Notified /\ Starting
    BY DEF Init, Tokens, Unanswered, Notified, Starting
  <1>3. Told /\ SignedInIsSaved /\ SignedOutIsForgotten
    BY DEF Init, Told, SignedInIsSaved, SignedOutIsForgotten
  <1> QED  BY <1>1, <1>2, <1>3 DEF IInv

\* What a user object is.
LEMMA UserFields ==
    ASSUME TypeOK, NEW u \in DOMAIN users
    PROVE  /\ users[u] \in UserObject /\ users[u].uid \in Uid /\ users[u].uid # None
           /\ users[u].token \in Token /\ users[u].fetches \in Seq({"call", "auto"})
           /\ u \in 1 .. Len(users) /\ u \in Nat /\ u # 0 /\ Len(users) \in Nat
           /\ DOMAIN users = 1 .. Len(users)
  <1>1. users \in Seq(UserObject) /\ DOMAIN users = 1 .. Len(users) /\ Len(users) \in Nat
    BY DEF TypeOK
  <1>2. users[u] \in UserObject
    BY <1>1
  <1> QED  BY <1>1, <1>2, AuthAssumption DEF UserObject

LEMMA TokenFacts ==
    /\ MaxTokens \in Nat /\ Token = 0 .. MaxTokens /\ 0 \in Token
    /\ None \notin Uid /\ None # "unset" /\ "unset" \notin Uid
  BY AuthAssumption DEF Token

LEMMA ScheduleFacts ==
    ASSUME TypeOK, NEW token \in Token, Schedule(token)
    PROVE  scheduled' \in BOOLEAN /\ timers' \in Seq(Token \ {0})
  <1>1. timers \in Seq(Token \ {0}) /\ scheduled \in BOOLEAN
    BY DEF TypeOK
  <1>2. CASE token = 0
    BY <1>1, <1>2 DEF Schedule
  <1>3. CASE token # 0
    <2>1. token \in Token \ {0}
      BY <1>3
    <2>2. Append(timers, token) \in Seq(Token \ {0})
      BY <1>1, <2>1
    <2> QED  BY <1>3, <2>2 DEF Schedule
  <1> QED  BY <1>2, <1>3

\* A post brings lastNotified up to date, and with it the main queue.
LEMMA PostFacts ==
    ASSUME TypeOK, NEW uid \in Uid \cup {None}, NEW token \in Token,
           PossiblyPost(uid, token)
    PROVE  /\ lastNotified' = token
           /\ main' \in Seq(Uid \cup {None, "added"})
           /\ scheduled' \in BOOLEAN /\ timers' \in Seq(Token \ {0})
           /\ token = lastNotified => main' = main
           /\ token # lastNotified => main' = Append(main, uid) /\ main' # <<>>
  <1>1. /\ main \in Seq(Uid \cup {None, "added"}) /\ scheduled \in BOOLEAN
        /\ timers \in Seq(Token \ {0})
    BY DEF TypeOK
  <1>2. CASE token = lastNotified
    BY <1>1, <1>2 DEF PossiblyPost
  <1>3. CASE token # lastNotified
    <2>1. /\ lastNotified' = token /\ main' = Append(main, uid)
          /\ Schedule(token) \/ UNCHANGED <<scheduled, timers>>
      BY <1>3 DEF PossiblyPost
    <2>2. scheduled' \in BOOLEAN /\ timers' \in Seq(Token \ {0})
      BY <1>1, <2>1, ScheduleFacts
    <2>3. Append(main, uid) \in Seq(Uid \cup {None, "added"}) /\ Append(main, uid) # <<>>
      BY <1>1
    <2> QED  BY <1>3, <2>1, <2>2, <2>3
  <1> QED  BY <1>2, <1>3

\* A user object, or none, that was not notified of becomes the current one.
LEMMA BecomeFacts ==
    ASSUME TypeOK, NEW u \in {0} \cup DOMAIN users, Become(u),
           TokenOf(u) # lastNotified
    PROVE  /\ current' = u /\ current' \in 0 .. Len(users)
           /\ UidOf(u) \in Uid \cup {None} /\ TokenOf(u) \in Token
           /\ lastNotified' = TokenOf(u)
           /\ main' = Append(main, UidOf(u)) /\ main' # <<>>
           /\ main' \in Seq(Uid \cup {None, "added"})
           /\ scheduled' \in BOOLEAN /\ timers' \in Seq(Token \ {0})
  <1>1. UidOf(u) \in Uid \cup {None} /\ TokenOf(u) \in Token
    BY UserFields, TokenFacts DEF UidOf, TokenOf
  <1>2. current' = u /\ PossiblyPost(UidOf(u), TokenOf(u))
    BY DEF Become
  <1>3. u \in 0 .. Len(users)
    <2>1. CASE u = 0
      BY <2>1 DEF TypeOK
    <2>2. CASE u # 0
      BY <2>2, UserFields
    <2> QED  BY <2>1, <2>2
  <1> QED  BY <1>1, <1>2, <1>3, PostFacts

-----------------------------------------------------------------------------
LEMMA LoadInv ==
    ASSUME IInv, Load
    PROVE  IInv'
  <1>0. /\ TypeOK /\ current = 0 /\ users = <<>> /\ signingIn = {} /\ lastNotified = 0
        /\ loaded' = TRUE /\ UNCHANGED <<keychain, signingIn, issued, told, autoRefresh, background>>
    BY DEF IInv, Starting, Notified, Load
  <1>1. CASE /\ keychain # Nothing
             /\ users' = <<[uid |-> keychain.uid, token |-> keychain.token, fetches |-> <<>>]>>
             /\ current' = 1
             /\ PossiblyPost(keychain.uid, keychain.token)
             /\ kept' = FALSE
    <2>1. /\ keychain.uid \in Uid /\ keychain.token \in 1 .. issued /\ issued \in Token
          /\ keychain.token \in Token /\ keychain.token # 0 /\ keychain.token # lastNotified
      BY <1>0, <1>1, TokenFacts DEF IInv, Tokens, TypeOK
    <2>2. /\ users' \in Seq(UserObject) /\ Len(users') = 1 /\ DOMAIN users' = {1}
          /\ users'[1].uid = keychain.uid /\ users'[1].token = keychain.token
      <3>1. [uid |-> keychain.uid, token |-> keychain.token, fetches |-> <<>>] \in UserObject
        BY <2>1 DEF UserObject
      <3> QED  BY <1>1, <3>1
    <2>3. /\ lastNotified' = keychain.token /\ main' # <<>>
          /\ main' \in Seq(Uid \cup {None, "added"})
          /\ scheduled' \in BOOLEAN /\ timers' \in Seq(Token \ {0})
      BY <1>0, <1>1, <2>1, PostFacts
    <2>4. TypeOK'
      <3>1. current' \in 0 .. Len(users') /\ Len(users') <= MaxUsers /\ signingIn' \subseteq 1 .. Len(users')
        BY <1>0, <1>1, <2>2, AuthAssumption
      <3>2. kept' \in BOOLEAN /\ loaded' \in BOOLEAN
        BY <1>0, <1>1
      <3>3. lastNotified' \in Token
        BY <2>1, <2>3
      <3> QED  BY <1>0, <2>2, <2>3, <3>1, <3>2, <3>3 DEF TypeOK
    <2>5. Tokens'
      BY <1>0, <2>1, <2>2, <2>3, TokenFacts DEF Tokens, IInv
    <2>6. Unanswered' /\ Notified' /\ Starting' /\ Told'
      BY <1>0, <1>1, <2>1, <2>3 DEF Unanswered, Notified, Starting, Told
    <2>7. SignedInIsSaved' /\ SignedOutIsForgotten'
      BY <1>0, <1>1, <2>2 DEF SignedInIsSaved, SignedOutIsForgotten, UidOf
    <2> QED  BY <2>4, <2>5, <2>6, <2>7 DEF IInv
  <1>2. CASE /\ UNCHANGED <<users, current, quiet>>
             /\ \/ keychain # Nothing /\ kept' = TRUE
                \/ keychain = Nothing /\ UNCHANGED kept
    <2>1. UNCHANGED <<users, current, lastNotified, main, scheduled, timers>>
      BY <1>2 DEF quiet
    <2>2. kept' \in BOOLEAN /\ (keychain # Nothing => kept')
      BY <1>0, <1>2 DEF TypeOK
    <2>3. TypeOK'
      BY <1>0, <2>1, <2>2 DEF TypeOK
    <2>4. Tokens'
      BY <1>0, <2>1 DEF Tokens, IInv
    <2>5. Unanswered' /\ Notified' /\ Starting'
      BY <1>0, <2>1 DEF Unanswered, Notified, Starting, IInv
    <2>6. Told' /\ SignedInIsSaved' /\ SignedOutIsForgotten'
      BY <1>0, <2>1, <2>2 DEF Told, SignedInIsSaved, SignedOutIsForgotten, IInv, UidOf
    <2> QED  BY <2>3, <2>4, <2>5, <2>6 DEF IInv
  <1>3. QED
    <2>1. CASE keychain # Nothing /\ kept' = TRUE /\ UNCHANGED <<users, current, quiet>>
      BY <1>2, <2>1
    <2>2. CASE keychain = Nothing /\ UNCHANGED <<users, current, quiet, kept>>
      BY <1>2, <2>2
    <2> QED  BY <1>1, <2>1, <2>2 DEF Load

\* A step that changes nothing of the user objects but their lines.
SameUsers ==
    /\ users' \in Seq(UserObject) /\ Len(users') = Len(users)
    /\ \A i \in DOMAIN users : /\ users'[i].uid = users[i].uid
                               /\ users'[i].token = users[i].token

\* A user whose sign-in is answered, or nobody, becomes the current user, and
\* the keychain takes it, or is left with the one that was forced out.
LEMMA ChangeInv ==
    ASSUME IInv, NEW u \in {0} \cup signingIn, u = 0 => current # 0,
           Become(u), SameUsers, signingIn' = signingIn \ {u},
           \/ SaveUser(u) /\ kept' = FALSE
           \/ u = 0 /\ kept' = TRUE /\ UNCHANGED keychain,
           UNCHANGED <<issued, told, autoRefresh, background, loaded>>
    PROVE  IInv' /\ main' = Append(main, UidOf(current)')
  <1>1. TypeOK /\ Tokens /\ Unanswered /\ Notified /\ Starting
    BY DEF IInv
  <1>2. u \in {0} \cup DOMAIN users /\ signingIn \subseteq DOMAIN users
    BY <1>1 DEF TypeOK
  <1>3. TokenOf(u) # lastNotified
    <2>1. CASE u = 0
      BY <1>1, <2>1 DEF TokenOf, Notified
    <2>2. CASE u # 0
      BY <1>1, <2>2 DEF TokenOf, Unanswered
    <2> QED  BY <2>1, <2>2
  <1>4. /\ current' = u /\ current' \in 0 .. Len(users)
        /\ UidOf(u) \in Uid \cup {None} /\ TokenOf(u) \in Token
        /\ lastNotified' = TokenOf(u)
        /\ main' = Append(main, UidOf(u)) /\ main' # <<>>
        /\ main' \in Seq(Uid \cup {None, "added"})
        /\ scheduled' \in BOOLEAN /\ timers' \in Seq(Token \ {0})
    BY <1>1, <1>2, <1>3, BecomeFacts
  <1>5. /\ users' \in Seq(UserObject) /\ Len(users') = Len(users) /\ DOMAIN users' = DOMAIN users
        /\ \A i \in DOMAIN users : users'[i].uid = users[i].uid /\ users'[i].token = users[i].token
    BY <1>1 DEF SameUsers, TypeOK
  <1>6. u # 0 => /\ UidOf(u) = users[u].uid /\ TokenOf(u) = users[u].token
                 /\ users[u].uid \in Uid /\ users[u].token \in Token /\ u \in DOMAIN users
    BY <1>1, <1>2, UserFields DEF UidOf, TokenOf
  <1>7. UidOf(current)' = UidOf(u)
    BY <1>4, <1>5, <1>6 DEF UidOf
  <1>8. /\ keychain' \in Saved \cup {Nothing}
        /\ \/ UNCHANGED keychain
           \/ keychain' = Nothing
           \/ u # 0 /\ keychain' = [uid |-> users[u].uid, token |-> users[u].token]
    <2>1. CASE UNCHANGED keychain
      BY <1>1, <2>1 DEF TypeOK
    <2>2. CASE SaveUser(u) /\ u = 0
      BY <2>2 DEF SaveUser
    <2>3. CASE SaveUser(u) /\ u # 0
      BY <1>6, <2>3 DEF SaveUser, Saved
    <2> QED  BY <2>1, <2>2, <2>3
  <1>9. TypeOK'
    <2>1. signingIn' \subseteq 1 .. Len(users') /\ Len(users') <= MaxUsers /\ current' \in 0 .. Len(users')
      BY <1>1, <1>4, <1>5 DEF TypeOK
    <2>2. kept' \in BOOLEAN /\ issued' \in Token /\ lastNotified' \in Token
      BY <1>1, <1>4 DEF TypeOK
    <2> QED  BY <1>1, <1>4, <1>5, <1>8, <2>1, <2>2 DEF TypeOK
  <1>10. Tokens'
    <2>1. \A i \in DOMAIN users : users[i].token \in 1 .. issued
      BY <1>1 DEF Tokens
    <2>2. lastNotified' <= issued' /\ issued' = issued
      BY <1>1, <1>4, <1>6, <2>1, TokenFacts DEF TokenOf, TypeOK
    <2>3. keychain' # Nothing => keychain'.uid \in Uid /\ keychain'.token \in 1 .. issued
      <3>1. CASE UNCHANGED keychain
        BY <1>1, <3>1 DEF Tokens
      <3>2. CASE u # 0 /\ keychain' = [uid |-> users[u].uid, token |-> users[u].token]
        BY <1>6, <2>1, <3>2
      <3> QED  BY <1>8, <3>1, <3>2
    <2>4. \A i, j \in DOMAIN users : i # j => users'[i].token # users'[j].token
      BY <1>1, <1>5 DEF Tokens
    <2> QED  BY <1>5, <2>1, <2>2, <2>3, <2>4 DEF Tokens
  <1>11. Unanswered'
    <2> SUFFICES ASSUME NEW i \in signingIn, i # u
                 PROVE  i # current' /\ users'[i].token # lastNotified'
      BY DEF Unanswered
    <2>1. i \in DOMAIN users /\ users'[i].token = users[i].token /\ users[i].token # 0
      BY <1>1, <1>2, <1>5, TokenFacts DEF Tokens, TypeOK
    <2>2. CASE u = 0
      BY <1>4, <2>1, <2>2 DEF TokenOf
    <2>3. CASE u # 0
      BY <1>1, <1>4, <1>6, <2>1, <2>3 DEF Tokens
    <2> QED  BY <1>4, <2>1, <2>2, <2>3
  <1>12. Notified'
    <2>1. u # 0 => TokenOf(u) # 0
      BY <1>1, <1>6, TokenFacts DEF Tokens, TypeOK
    <2> QED  BY <1>4, <2>1 DEF Notified, TokenOf
  <1>13. Starting' /\ Told'
    BY <1>1, <1>4 DEF Starting, Told
  <1>14. SignedInIsSaved' /\ SignedOutIsForgotten'
    <2>1. CASE SaveUser(u) /\ kept' = FALSE
      BY <1>4, <1>6, <1>7, <2>1 DEF SaveUser, SignedInIsSaved, SignedOutIsForgotten
    <2>2. CASE u = 0 /\ kept' = TRUE
      BY <1>4, <2>2 DEF SignedInIsSaved, SignedOutIsForgotten
    <2> QED  BY <2>1, <2>2
  <1> QED
    BY <1>4, <1>7, <1>9, <1>10, <1>11, <1>12, <1>13, <1>14 DEF IInv

\* A step of the refresh alone.
LEMMA RefreshInv ==
    ASSUME IInv, SameUsers,
           UNCHANGED <<current, keychain, signingIn, issued, lastNotified, main, told, loaded, kept>>,
           autoRefresh' \in BOOLEAN, background' \in BOOLEAN,
           scheduled' \in BOOLEAN, timers' \in Seq(Token \ {0})
    PROVE  IInv' /\ UidOf(current)' = UidOf(current)
  <1>1. TypeOK /\ Tokens /\ Unanswered /\ Notified /\ Starting
    BY DEF IInv
  <1>2. /\ users' \in Seq(UserObject) /\ Len(users') = Len(users) /\ DOMAIN users' = DOMAIN users
        /\ \A i \in DOMAIN users : users'[i].uid = users[i].uid /\ users'[i].token = users[i].token
        /\ current \in {0} \cup DOMAIN users /\ signingIn \subseteq DOMAIN users
        /\ Len(users) \in Nat /\ DOMAIN users = 1 .. Len(users)
    BY <1>1 DEF SameUsers, TypeOK
  <1>3. UidOf(current)' = UidOf(current)
    BY <1>2 DEF UidOf
  <1>4. TypeOK'
    BY <1>1, <1>2 DEF TypeOK
  <1>5. Tokens' /\ Unanswered' /\ Notified'
    BY <1>1, <1>2 DEF Tokens, Unanswered, Notified
  <1>6. Starting'
    <2>1. ~loaded => users' = <<>>
      BY <1>1, <1>2 DEF Starting
    <2> QED  BY <1>1, <2>1 DEF Starting
  <1>7. Told' /\ SignedInIsSaved' /\ SignedOutIsForgotten'
    BY <1>3 DEF IInv, Told, SignedInIsSaved, SignedOutIsForgotten
  <1> QED  BY <1>3, <1>4, <1>5, <1>6, <1>7 DEF IInv

\* A request enters a line, or leaves it.
LEMMA LineIsSame ==
    ASSUME TypeOK, NEW u \in DOMAIN users, NEW line \in Seq({"call", "auto"}),
           users' = [users EXCEPT ![u].fetches = line]
    PROVE  SameUsers
  <1>1. users \in Seq(UserObject) /\ users[u] \in UserObject
    BY DEF TypeOK
  <1>2. [users[u] EXCEPT !.fetches = line] \in UserObject
    BY <1>1 DEF UserObject
  <1>3. users' = [users EXCEPT ![u] = [users[u] EXCEPT !.fetches = line]]
    OBVIOUS
  <1> QED  BY <1>1, <1>2, <1>3 DEF SameUsers

LEMMA InLineIsSame ==
    ASSUME TypeOK, NEW u \in DOMAIN users, NEW by \in {"call", "auto"},
           users' = InLine(u, by)
    PROVE  SameUsers
  <1>1. Append(users[u].fetches, by) \in Seq({"call", "auto"})
    BY UserFields
  <1>2. users' = [users EXCEPT ![u].fetches = Append(users[u].fetches, by)]
    BY DEF InLine
  <1> QED  BY <1>1, <1>2, LineIsSame

LEMMA UnchangedIsSame ==
    ASSUME TypeOK, UNCHANGED users
    PROVE  SameUsers
  BY DEF SameUsers, TypeOK

LEMMA CurrentIsUser ==
    ASSUME TypeOK, current # 0
    PROVE  current \in DOMAIN users
  BY DEF TypeOK

-----------------------------------------------------------------------------
\* The account changes only together with a notice of it.
Noticed == UidOf(current)' # UidOf(current) => main' = Append(main, UidOf(current)')

LEMMA SignInInv ==
    ASSUME IInv, NEW uid \in Uid, SignIn(uid)
    PROVE  IInv' /\ Noticed
  <1> DEFINE new == [uid |-> uid, token |-> issued + 1, fetches |-> <<>>]
             n == Len(users) + 1
  <1>1. TypeOK /\ Tokens /\ Unanswered /\ Notified /\ Starting /\ loaded
    BY DEF IInv, SignIn
  <1>2. /\ users' = Append(users, new) /\ signingIn' = signingIn \cup {n}
        /\ issued' = issued + 1 /\ issued < MaxTokens /\ Len(users) < MaxUsers
        /\ UNCHANGED <<current, keychain, lastNotified, main, told, autoRefresh, scheduled,
                       timers, background, loaded, kept>>
    BY DEF SignIn, refresh
  <1>3. issued \in Nat /\ MaxTokens \in Nat /\ issued' \in Token /\ issued + 1 \in Token
    BY <1>1, <1>2, TokenFacts DEF TypeOK
  <1>4. new \in UserObject
    BY <1>3 DEF UserObject
  <1>5. /\ users' \in Seq(UserObject) /\ Len(users') = n /\ n \in Nat /\ Len(users) \in Nat
        /\ DOMAIN users' = 1 .. n /\ DOMAIN users = 1 .. Len(users)
        /\ users'[n] = new /\ \A i \in DOMAIN users : users'[i] = users[i]
        /\ current \in 0 .. Len(users) /\ signingIn \subseteq 1 .. Len(users)
    BY <1>1, <1>2, <1>4 DEF TypeOK
  <1>6. UidOf(current)' = UidOf(current)
    BY <1>2, <1>5 DEF UidOf
  <1>7. TypeOK'
    <2>1. current' \in 0 .. Len(users') /\ signingIn' \subseteq 1 .. Len(users') /\ Len(users') <= MaxUsers
      <3>1. Len(users') <= MaxUsers /\ current' \in 0 .. Len(users')
        BY <1>2, <1>5, AuthAssumption
      <3>2. 1 .. Len(users) \subseteq 1 .. n /\ n \in 1 .. n
        BY <1>5
      <3> QED  BY <1>2, <1>5, <3>1, <3>2
    <2> QED  BY <1>1, <1>2, <1>3, <1>5, <2>1 DEF TypeOK
  <1>8. Tokens'
    <2>1. \A i \in DOMAIN users : users'[i].token \in 1 .. issued /\ users'[i].token # issued + 1
      BY <1>1, <1>3, <1>5 DEF Tokens
    <2>2. users'[n].token = issued + 1
      BY <1>5
    <2>3. \A i \in DOMAIN users' : users'[i].token \in 1 .. issued'
      BY <1>2, <1>3, <1>5, <2>1, <2>2
    <2>4. ASSUME NEW i \in DOMAIN users', NEW j \in DOMAIN users', i # j
          PROVE  users'[i].token # users'[j].token
      <3>1. CASE i \in DOMAIN users /\ j \in DOMAIN users
        BY <1>1, <1>5, <2>4, <3>1 DEF Tokens
      <3>2. CASE i = n /\ j \in DOMAIN users
        BY <2>1, <2>2, <3>2
      <3>3. CASE j = n /\ i \in DOMAIN users
        BY <2>1, <2>2, <3>3
      <3>4. i = n \/ i \in DOMAIN users
        BY <1>5
      <3>5. j = n \/ j \in DOMAIN users
        BY <1>5
      <3> QED  BY <2>4, <3>1, <3>2, <3>3, <3>4, <3>5
    <2>5. lastNotified' <= issued'
      BY <1>1, <1>2, <1>3, TokenFacts DEF Tokens, TypeOK
    <2>6. keychain' # Nothing => keychain'.uid \in Uid /\ keychain'.token \in 1 .. issued'
      BY <1>1, <1>2, <1>3 DEF Tokens
    <2> QED  BY <2>3, <2>4, <2>5, <2>6 DEF Tokens
  <1>9. Unanswered'
    <2>1. n # current /\ users'[n].token # lastNotified
      BY <1>1, <1>3, <1>5, TokenFacts DEF Tokens, TypeOK
    <2>2. \A i \in signingIn : i # current /\ users'[i].token # lastNotified
      BY <1>1, <1>5 DEF Unanswered
    <2> QED  BY <1>2, <2>1, <2>2 DEF Unanswered
  <1>10. Notified' /\ Starting'
    BY <1>1, <1>2 DEF Notified, Starting
  <1>11. Told' /\ SignedInIsSaved' /\ SignedOutIsForgotten'
    BY <1>2, <1>6 DEF IInv, Told, SignedInIsSaved, SignedOutIsForgotten
  <1> QED  BY <1>6, <1>7, <1>8, <1>9, <1>10, <1>11 DEF IInv, Noticed

LEMMA SignInAnsweredInv ==
    ASSUME IInv, NEW u \in DOMAIN users, SignInAnswered(u)
    PROVE  IInv' /\ Noticed
  <1>1. /\ TypeOK /\ u # 0 /\ u \in signingIn /\ signingIn' = signingIn \ {u}
        /\ UNCHANGED <<users, issued, told, autoRefresh, background, loaded>>
    BY UserFields DEF IInv, SignInAnswered
  <1>2. CASE SaveUser(u) /\ Become(u) /\ kept' = FALSE
    BY <1>1, <1>2, ChangeInv, UnchangedIsSame DEF Noticed
  <1>3. CASE UNCHANGED <<keychain, current, quiet, kept>>
    <2>1. UNCHANGED <<keychain, current, kept, lastNotified, main, scheduled, timers>>
      BY <1>3 DEF quiet
    <2>2. TypeOK' /\ Unanswered'
      BY <1>1, <2>1 DEF IInv, TypeOK, Unanswered
    <2>3. Tokens' /\ Notified' /\ Starting' /\ UidOf(current)' = UidOf(current)
      BY <1>1, <2>1 DEF IInv, Tokens, Notified, Starting, UidOf
    <2>4. Told' /\ SignedInIsSaved' /\ SignedOutIsForgotten'
      BY <1>1, <2>1, <2>3 DEF IInv, Told, SignedInIsSaved, SignedOutIsForgotten
    <2> QED  BY <2>2, <2>3, <2>4 DEF IInv, Noticed
  <1> QED  BY <1>2, <1>3 DEF SignInAnswered, UpdateCurrentUser

LEMMA SignOutInv ==
    ASSUME IInv, SignOut
    PROVE  IInv' /\ Noticed
  <1>1. /\ TypeOK /\ current # 0 /\ signingIn' = signingIn \ {0}
        /\ UNCHANGED <<users, signingIn, issued, told, autoRefresh, background, loaded>>
    BY DEF IInv, SignOut, TypeOK
  <1>2. CASE SaveUser(0) /\ Become(0) /\ kept' = FALSE
    BY <1>1, <1>2, ChangeInv, UnchangedIsSame DEF Noticed
  <1>3. CASE UNCHANGED <<keychain, current, quiet, kept>>
    BY <1>1, <1>3, RefreshInv, UnchangedIsSame DEF quiet, TypeOK, Noticed
  <1> QED  BY <1>2, <1>3 DEF SignOut, UpdateCurrentUser

LEMMA GetIdTokenInv ==
    ASSUME IInv, GetIdToken
    PROVE  IInv' /\ Noticed
  <1>1. TypeOK /\ current \in DOMAIN users /\ users' = InLine(current, "call")
    BY CurrentIsUser DEF IInv, GetIdToken
  <1>2. SameUsers
    BY <1>1, InLineIsSame
  <1> QED  BY <1>1, <1>2, RefreshInv DEF GetIdToken, quiet, TypeOK, Noticed

LEMMA GetTokenForcingRefreshInv ==
    ASSUME IInv, GetTokenForcingRefresh
    PROVE  IInv' /\ Noticed
  <1>1. TypeOK
    BY DEF IInv
  <1>2. SameUsers
    <2>1. CASE current = 0
      BY <1>1, <2>1, UnchangedIsSame DEF GetTokenForcingRefresh
    <2>2. CASE current # 0
      BY <1>1, <2>2, CurrentIsUser, InLineIsSame DEF GetTokenForcingRefresh
    <2> QED  BY <2>1, <2>2
  <1>3. scheduled' \in BOOLEAN /\ timers' \in Seq(Token \ {0})
    <2>1. TokenOf(current) \in Token
      BY <1>1, CurrentIsUser, UserFields, TokenFacts DEF TokenOf
    <2>2. CASE Schedule(TokenOf(current))
      BY <1>1, <2>1, <2>2, ScheduleFacts
    <2>3. CASE UNCHANGED <<scheduled, timers>>
      BY <1>1, <2>3 DEF TypeOK
    <2> QED  BY <2>2, <2>3 DEF GetTokenForcingRefresh
  <1> QED  BY <1>1, <1>2, <1>3, RefreshInv DEF GetTokenForcingRefresh, TypeOK, Noticed

LEMMA ActivityInv ==
    ASSUME IInv, EnterBackground \/ BecomeActive
    PROVE  IInv' /\ Noticed
  <1>1. TypeOK /\ SameUsers
    BY UnchangedIsSame DEF IInv, EnterBackground, BecomeActive
  <1>2. scheduled' \in BOOLEAN /\ timers' \in Seq(Token \ {0})
    <2>1. TokenOf(current) \in Token
      BY <1>1, CurrentIsUser, UserFields, TokenFacts DEF TokenOf
    <2>2. CASE Schedule(TokenOf(current))
      BY <1>1, <2>1, <2>2, ScheduleFacts
    <2>3. CASE UNCHANGED <<scheduled, timers>>
      BY <1>1, <2>3 DEF TypeOK
    <2> QED  BY <2>2, <2>3 DEF EnterBackground, BecomeActive, quiet
  <1>3. background' \in BOOLEAN
    BY DEF EnterBackground, BecomeActive
  <1>4. UNCHANGED <<current, keychain, signingIn, issued, lastNotified, main, told,
                    autoRefresh, loaded, kept>>
    BY DEF EnterBackground, BecomeActive, quiet
  <1> QED  BY <1>1, <1>2, <1>3, <1>4, RefreshInv DEF TypeOK, Noticed

LEMMA WithoutIsSeq ==
    ASSUME NEW S, NEW seq \in Seq(S), NEW i \in DOMAIN seq
    PROVE  Without(seq, i) \in Seq(S)
  <1>1. /\ Len(seq) \in Nat /\ DOMAIN seq = 1 .. Len(seq) /\ i \in 1 .. Len(seq)
        /\ Len(seq) - 1 \in Nat
    OBVIOUS
  <1>2. ASSUME NEW j \in 1 .. Len(seq) - 1
        PROVE  (IF j < i THEN seq[j] ELSE seq[j + 1]) \in S
    <2>1. j \in 1 .. Len(seq) /\ j + 1 \in 1 .. Len(seq)
      BY <1>1
    <2> QED  BY <2>1
  <1>3. Without(seq, i) \in [1 .. Len(seq) - 1 -> S]
    BY <1>2 DEF Without
  <1> QED  BY <1>1, <1>3

LEMMA FireInv ==
    ASSUME IInv, NEW i \in DOMAIN timers, Fire(i)
    PROVE  IInv' /\ Noticed
  <1>1. /\ TypeOK /\ timers[i] \in Token \ {0}
        /\ timers' \in Seq(Token \ {0})
    BY WithoutIsSeq DEF IInv, TypeOK, Fire
  <1>2. SameUsers /\ scheduled' \in BOOLEAN
    <2>1. CASE UNCHANGED <<users, scheduled>>
      BY <1>1, <2>1, UnchangedIsSame DEF TypeOK
    <2>2. CASE scheduled' = FALSE /\ UNCHANGED users
      BY <1>1, <2>2, UnchangedIsSame
    <2>3. CASE timers[i] = TokenOf(current) /\ scheduled' = FALSE /\ users' = InLine(current, "auto")
      <3>1. current # 0
        BY <1>1, <2>3 DEF TokenOf
      <3> QED  BY <1>1, <2>3, <3>1, CurrentIsUser, InLineIsSame
    <2> QED  BY <2>1, <2>2, <2>3 DEF Fire
  <1> QED  BY <1>1, <1>2, RefreshInv DEF Fire, TypeOK, Noticed

LEMMA DeliverInv ==
    ASSUME IInv, Deliver
    PROVE  IInv' /\ Noticed
  <1>1. /\ TypeOK /\ main # <<>> /\ main' = Tail(main) /\ told' = UidOf(current)
        /\ UNCHANGED <<users, current, keychain, signingIn, issued, lastNotified, autoRefresh,
                       scheduled, timers, background, loaded, kept>>
    BY DEF IInv, Deliver, refresh
  <1>2. UidOf(current) \in Uid \cup {None, "unset"} /\ UidOf(current)' = UidOf(current)
    BY <1>1, CurrentIsUser, UserFields DEF UidOf
  <1>3. main' \in Seq(Uid \cup {None, "added"})
    BY <1>1 DEF TypeOK
  <1>4. TypeOK'
    BY <1>1, <1>2, <1>3 DEF TypeOK
  <1>5. Tokens' /\ Unanswered' /\ Notified' /\ Starting'
    BY <1>1 DEF IInv, Tokens, Unanswered, Notified, Starting
  <1>6. Told' /\ SignedInIsSaved' /\ SignedOutIsForgotten'
    BY <1>1, <1>2 DEF IInv, Told, SignedInIsSaved, SignedOutIsForgotten
  <1> QED  BY <1>2, <1>4, <1>5, <1>6 DEF IInv, Noticed

LEMMA RestartInv ==
    ASSUME IInv, Restart
    PROVE  IInv'
  <1>1. /\ users' = <<>> /\ current' = 0 /\ signingIn' = {} /\ lastNotified' = 0
        /\ main' = <<"added">> /\ told' = "unset" /\ autoRefresh' = FALSE
        /\ scheduled' = FALSE /\ timers' = <<>> /\ background' = FALSE /\ loaded' = FALSE
        /\ UNCHANGED <<keychain, issued, kept>>
    BY DEF Restart
  <1>2. TypeOK'
    <2>1. users' \in Seq(UserObject) /\ Len(users') = 0 /\ timers' \in Seq(Token \ {0})
      BY <1>1
    <2>2. main' \in Seq(Uid \cup {None, "added"})
      BY <1>1
    <2>3. current' \in 0 .. Len(users') /\ signingIn' \subseteq 1 .. Len(users') /\ Len(users') <= MaxUsers
      BY <1>1, <2>1, AuthAssumption
    <2>4. lastNotified' \in Token /\ told' \in Uid \cup {None, "unset"}
      BY <1>1, TokenFacts
    <2> QED  BY <1>1, <2>1, <2>2, <2>3, <2>4 DEF TypeOK, IInv
  <1>3. Tokens'
    <2>1. lastNotified' <= issued'
      BY <1>1, TokenFacts DEF IInv, TypeOK
    <2> QED  BY <1>1, <2>1 DEF Tokens, IInv
  <1>4. Unanswered' /\ Notified' /\ Starting'
    BY <1>1 DEF Unanswered, Notified, Starting
  <1>5. Told' /\ SignedInIsSaved' /\ SignedOutIsForgotten'
    BY <1>1 DEF Told, SignedInIsSaved, SignedOutIsForgotten
  <1> QED  BY <1>2, <1>3, <1>4, <1>5 DEF IInv

LEMMA RetryFacts ==
    ASSUME TypeOK, NEW u \in DOMAIN users, NEW by, NEW token \in Token,
           Retry(u, by, token)
    PROVE  /\ scheduled' \in BOOLEAN /\ timers' \in Seq(Token \ {0})
           /\ UNCHANGED <<lastNotified, main>>
  <1>1. CASE Schedule(token) /\ UNCHANGED <<lastNotified, main>>
    BY <1>1, ScheduleFacts
  <1>2. CASE UNCHANGED quiet
    BY <1>2 DEF quiet, TypeOK
  <1> QED  BY <1>1, <1>2 DEF Retry

\* A user object gets its new token: nobody else's account is touched by it.
LEMMA TokenInv ==
    ASSUME IInv, NEW u \in DOMAIN users, NEW by, issued < MaxTokens,
           issued' = issued + 1,
           users' = [users EXCEPT ![u].fetches = Tail(@), ![u].token = issued + 1],
           users[u].fetches # <<>>,
           KeepToken(u, by, issued + 1),
           UNCHANGED <<current, kept, signingIn, told, autoRefresh, background, loaded>>
    PROVE  IInv' /\ UidOf(current)' = UidOf(current)
  <1> DEFINE new == [users[u] EXCEPT !.fetches = Tail(@), !.token = issued + 1]
  <1>1. TypeOK /\ Tokens /\ Unanswered /\ Notified /\ Starting
    BY DEF IInv
  <1>2. issued \in Nat /\ MaxTokens \in Nat /\ issued' \in Token /\ issued + 1 \in Token
    BY <1>1, TokenFacts DEF TypeOK
  <1>3. new \in UserObject /\ new.uid = users[u].uid /\ new.token = issued + 1
    <2>1. users[u] \in UserObject /\ Tail(users[u].fetches) \in Seq({"call", "auto"})
      BY <1>1, UserFields
    <2> QED  BY <1>2, <2>1 DEF UserObject
  <1>4. users' = [users EXCEPT ![u] = new]
    OBVIOUS
  <1>5. /\ users' \in Seq(UserObject) /\ Len(users') = Len(users) /\ Len(users) \in Nat
        /\ DOMAIN users' = DOMAIN users /\ DOMAIN users = 1 .. Len(users)
        /\ users'[u] = new /\ \A i \in DOMAIN users : i # u => users'[i] = users[i]
        /\ current \in 0 .. Len(users) /\ signingIn \subseteq DOMAIN users
    <2> HIDE DEF new
    <2>1. /\ users \in Seq(UserObject) /\ Len(users) \in Nat /\ DOMAIN users = 1 .. Len(users)
          /\ current \in 0 .. Len(users) /\ signingIn \subseteq DOMAIN users
      BY <1>1 DEF TypeOK
    <2>2. [users EXCEPT ![u] = new] \in Seq(UserObject)
      BY <1>3, <2>1
    <2>3. /\ Len([users EXCEPT ![u] = new]) = Len(users)
          /\ DOMAIN [users EXCEPT ![u] = new] = DOMAIN users
      BY <2>1
    <2>4. /\ [users EXCEPT ![u] = new][u] = new
          /\ \A i \in DOMAIN users : i # u => [users EXCEPT ![u] = new][i] = users[i]
      BY <2>1
    <2> QED  BY <1>4, <2>1, <2>2, <2>3, <2>4
  <1>6. UidOf(current)' = UidOf(current)
    <2>1. current # 0 => users'[current].uid = users[current].uid
      <3>1. CASE current = u
        BY <1>3, <1>5, <3>1
      <3>2. CASE current # u /\ current # 0
        <4>1. current \in DOMAIN users
          BY <1>5, <3>2
        <4> QED  BY <1>5, <3>2, <4>1
      <3> QED  BY <3>1, <3>2
    <2> QED  BY <2>1 DEF UidOf
  <1>7. u = current => u # 0 /\ UidOf(current) = users[u].uid /\ users[u].uid \in Uid
    BY <1>1, UserFields DEF UidOf
  <1>8. /\ \/ UNCHANGED keychain
           \/ u = current /\ keychain' = [uid |-> users[u].uid, token |-> issued + 1]
        /\ \/ UNCHANGED <<lastNotified, main>>
           \/ u = current /\ lastNotified' = issued + 1 /\ main' # <<>>
        /\ scheduled' \in BOOLEAN /\ timers' \in Seq(Token \ {0})
        /\ main' \in Seq(Uid \cup {None, "added"})
    <2>1. CASE u # current
      BY <1>1, <2>1 DEF KeepToken, quiet, TypeOK
    <2>2. CASE /\ u = current
               /\ keychain' = [uid |-> users[u].uid, token |-> issued + 1]
               /\ PossiblyPost(users[u].uid, issued + 1)
      <3>1. issued + 1 # lastNotified
        BY <1>1, <1>2, TokenFacts DEF Tokens, TypeOK
      <3> QED  BY <1>1, <1>2, <1>7, <2>2, <3>1, PostFacts
    <2>3. CASE u = current /\ UNCHANGED keychain /\ Retry(u, by, issued + 1)
      <3>1. main \in Seq(Uid \cup {None, "added"})
        BY <1>1 DEF TypeOK
      <3> QED  BY <1>1, <1>2, <2>3, <3>1, RetryFacts
    <2> QED  BY <2>1, <2>2, <2>3 DEF KeepToken
  <1>9. TypeOK'
    <2>1. lastNotified' \in Token
      BY <1>1, <1>2, <1>8 DEF TypeOK
    <2>2. keychain' \in Saved \cup {Nothing}
      BY <1>1, <1>2, <1>7, <1>8 DEF TypeOK, Saved
    <2>3. current' \in 0 .. Len(users') /\ signingIn' \subseteq 1 .. Len(users') /\ Len(users') <= MaxUsers
      BY <1>1, <1>5 DEF TypeOK
    <2> QED  BY <1>1, <1>2, <1>5, <1>8, <2>1, <2>2, <2>3 DEF TypeOK
  <1>10. Tokens'
    <2>1. \A i \in DOMAIN users : users[i].token \in 1 .. issued
      BY <1>1 DEF Tokens
    <2>2. \A i \in DOMAIN users' : users'[i].token \in 1 .. issued'
      BY <1>2, <1>3, <1>5, <2>1
    <2>3. ASSUME NEW i \in DOMAIN users', NEW j \in DOMAIN users', i # j
          PROVE  users'[i].token # users'[j].token
      <3>1. CASE i # u /\ j # u
        BY <1>1, <1>5, <2>3, <3>1 DEF Tokens
      <3>2. CASE i = u \/ j = u
        BY <1>2, <1>3, <1>5, <2>1, <2>3, <3>2
      <3> QED  BY <3>1, <3>2
    <2>4. lastNotified' <= issued'
      BY <1>1, <1>2, <1>8, TokenFacts DEF Tokens, TypeOK
    <2>5. keychain' # Nothing => keychain'.uid \in Uid /\ keychain'.token \in 1 .. issued'
      <3>1. CASE UNCHANGED keychain
        BY <1>1, <1>2, <3>1 DEF Tokens
      <3>2. CASE u = current /\ keychain' = [uid |-> users[u].uid, token |-> issued + 1]
        BY <1>2, <1>7, <3>2
      <3> QED  BY <1>8, <3>1, <3>2
    <2> QED  BY <2>2, <2>3, <2>4, <2>5 DEF Tokens
  <1>11. Unanswered'
    <2> SUFFICES ASSUME NEW i \in signingIn
                 PROVE  i # current /\ users'[i].token # lastNotified'
      BY DEF Unanswered
    <2>1. i # current /\ users[i].token # lastNotified /\ users[i].token \in 1 .. issued
          /\ lastNotified \in Token /\ lastNotified <= issued
      BY <1>1, <1>5 DEF Unanswered, Tokens, TypeOK
    <2>2. CASE i = u
      <3>1. lastNotified' = lastNotified
        BY <1>8, <2>1, <2>2
      <3> QED  BY <1>2, <1>3, <1>5, <2>1, <2>2, <3>1, TokenFacts
    <2>3. CASE i # u
      <3>1. users'[i].token = users[i].token /\ users[i].token # issued + 1
        BY <1>2, <1>5, <2>1, <2>3
      <3> QED  BY <1>8, <2>1, <3>1
    <2> QED  BY <2>2, <2>3
  <1>12. Notified'
    <2>1. CASE UNCHANGED lastNotified
      BY <1>1, <2>1 DEF Notified
    <2>2. CASE u = current /\ lastNotified' = issued + 1
      BY <1>2, <1>7, <2>2 DEF Notified
    <2> QED  BY <1>8, <2>1, <2>2
  <1>13. Starting'
    <2>1. ~loaded => u \notin DOMAIN users
      BY <1>1 DEF Starting
    <2> QED  BY <2>1 DEF Starting
  <1>14. Told' /\ SignedInIsSaved' /\ SignedOutIsForgotten'
    <2>1. keychain'.uid = keychain.uid \/ keychain'.uid = UidOf(current)
      BY <1>7, <1>8
    <2>2. current = 0 => UNCHANGED keychain
      BY <1>7, <1>8
    <2>3. Told'
      BY <1>6, <1>8 DEF Told, IInv
    <2>4. SignedInIsSaved'
      BY <1>6, <2>1 DEF SignedInIsSaved, IInv
    <2>5. SignedOutIsForgotten'
      BY <2>2 DEF SignedOutIsForgotten, IInv
    <2> QED  BY <2>3, <2>4, <2>5
  <1> QED  BY <1>6, <1>9, <1>10, <1>11, <1>12, <1>13, <1>14 DEF IInv

LEMMA FetchAnsweredInv ==
    ASSUME IInv, NEW u \in DOMAIN users, FetchAnswered(u)
    PROVE  IInv' /\ Noticed
  <1> DEFINE by == Head(users[u].fetches)
             rest == [users EXCEPT ![u].fetches = Tail(@)]
  <1>1. /\ TypeOK /\ users[u].fetches # <<>> /\ u # 0
        /\ UNCHANGED <<signingIn, told, autoRefresh, background, loaded>>
    BY UserFields DEF IInv, FetchAnswered
  <1>2. users' = rest => SameUsers
    <2>1. Tail(users[u].fetches) \in Seq({"call", "auto"})
      BY <1>1, UserFields
    <2>2. rest = [users EXCEPT ![u].fetches = Tail(users[u].fetches)]
      OBVIOUS
    <2> QED  BY <1>1, <2>1, <2>2, LineIsSame
  <1>3. CASE /\ issued < MaxTokens /\ issued' = issued + 1
             /\ users' = [rest EXCEPT ![u].token = issued + 1]
             /\ KeepToken(u, by, issued + 1)
             /\ UNCHANGED <<current, kept>>
    <2>1. users' = [users EXCEPT ![u].fetches = Tail(@), ![u].token = issued + 1]
      BY <1>3
    <2> HIDE DEF by, rest
    <2> QED  BY <1>1, <1>3, <2>1, TokenInv DEF Noticed
  <1>4. CASE /\ users' = rest
             /\ Retry(u, by, TokenOf(current))
             /\ UNCHANGED <<issued, current, keychain, kept>>
    <2>1. TokenOf(current) \in Token
      BY <1>1, CurrentIsUser, UserFields, TokenFacts DEF TokenOf
    <2>2. /\ scheduled' \in BOOLEAN /\ timers' \in Seq(Token \ {0})
          /\ UNCHANGED <<lastNotified, main>>
      BY <1>1, <1>4, <2>1, RetryFacts
    <2> QED  BY <1>1, <1>2, <1>4, <2>2, RefreshInv DEF TypeOK, Noticed
  <1>5. CASE u = current /\ users' = rest /\ SignOutByForce /\ UNCHANGED issued
    <2>1. /\ current # 0 /\ Become(0) /\ signingIn' = signingIn \ {0}
          /\ \/ SaveUser(0) /\ kept' = FALSE
             \/ kept' = TRUE /\ UNCHANGED keychain
      BY <1>1, <1>5 DEF SignOutByForce, TypeOK
    <2> QED  BY <1>1, <1>2, <1>5, <2>1, ChangeInv DEF Noticed
  <1> QED  BY <1>3, <1>4, <1>5 DEF FetchAnswered

-----------------------------------------------------------------------------
LEMMA StepInv ==
    ASSUME IInv, [Next]_vars
    PROVE  IInv' /\ (loaded' => Noticed)
  <1>1. CASE Load
    <2>1. UidOf(current) = None
      BY <1>1 DEF IInv, Starting, Load, UidOf
    <2>2. CASE /\ keychain # Nothing
               /\ users' = <<[uid |-> keychain.uid, token |-> keychain.token, fetches |-> <<>>]>>
               /\ current' = 1
               /\ PossiblyPost(keychain.uid, keychain.token)
      <3>1. /\ keychain.uid \in Uid /\ keychain.token \in Token
            /\ keychain.token # 0 /\ lastNotified = 0 /\ TypeOK
        BY <1>1, <2>2, TokenFacts DEF IInv, Tokens, TypeOK, Notified, Starting, Load
      <3>2. main' = Append(main, keychain.uid)
        BY <2>2, <3>1, PostFacts
      <3>3. UidOf(current)' = keychain.uid
        BY <2>2 DEF UidOf
      <3> QED  BY <1>1, <3>2, <3>3, LoadInv DEF Noticed
    <2>3. CASE UNCHANGED <<users, current>>
      BY <1>1, <2>3, LoadInv DEF Noticed, UidOf
    <2> QED  BY <1>1, <2>2, <2>3 DEF Load
  <1>2. CASE Restart
    BY <1>2, RestartInv DEF Restart
  <1>3. CASE UNCHANGED vars
    <2>1. SameUsers
      BY <1>3, UnchangedIsSame DEF IInv, vars
    <2> QED  BY <1>3, <2>1, RefreshInv DEF IInv, TypeOK, vars, refresh, Noticed
  <1>4. CASE SignOut \/ GetIdToken \/ GetTokenForcingRefresh \/ EnterBackground \/ BecomeActive \/ Deliver
    BY <1>4, SignOutInv, GetIdTokenInv, GetTokenForcingRefreshInv, ActivityInv, DeliverInv
  <1>5. CASE \E uid \in Uid : SignIn(uid)
    BY <1>5, SignInInv
  <1>6. CASE \E u \in DOMAIN users : SignInAnswered(u) \/ FetchAnswered(u)
    BY <1>6, SignInAnsweredInv, FetchAnsweredInv
  <1>7. CASE \E i \in DOMAIN timers : Fire(i)
    BY <1>7, FireInv
  <1> QED  BY <1>1, <1>2, <1>3, <1>4, <1>5, <1>6, <1>7 DEF Next

THEOREM Invariance == Spec => []IInv
  <1>1. Init => IInv
    BY InitInv
  <1>2. IInv /\ [Next]_vars => IInv'
    BY StepInv
  <1> QED  BY <1>1, <1>2, PTL DEF Spec

\* The state of the Auth object is well typed; in particular the current user is
\* always one of the process's user objects.
THEOREM TypeCorrect == Spec => []TypeOK
  <1>1. IInv => TypeOK
    BY DEF IInv
  <1> QED  BY <1>1, Invariance, PTL

\* Whoever is signed in is who the next process will find, for any number of
\* user objects, answers and refusals of the keychain.
THEOREM SignedInIsSavedTheorem == Spec => []SignedInIsSaved
  <1>1. IInv => SignedInIsSaved
    BY DEF IInv
  <1> QED  BY <1>1, Invariance, PTL

\* No late answer brings back a session that was signed out.
THEOREM SignedOutIsForgottenTheorem == Spec => []SignedOutIsForgotten
  <1>1. IInv => SignedOutIsForgotten
    BY DEF IInv
  <1> QED  BY <1>1, Invariance, PTL

\* With no notice on its way the listener knows who is signed in.
THEOREM ListenersCatchUpTheorem == Spec => []ListenersCatchUp
  <1>1. IInv => ListenersCatchUp
    BY DEF IInv, Told, ListenersCatchUp
  <1> QED  BY <1>1, Invariance, PTL

\* Each change of the account is posted with the account it changed to.
THEOREM NoticeOfEveryChangeTheorem == Spec => NoticeOfEveryChange
  <1>1. IInv /\ [Next]_vars =>
            [loaded' /\ UidOf(current)' # UidOf(current)
             => main' = Append(main, UidOf(current)')]_vars
    BY StepInv DEF Noticed
  <1> QED  BY <1>1, Invariance, PTL DEF Spec, NoticeOfEveryChange

-----------------------------------------------------------------------------
\* The refresh of the notified token is under way: it has a timer, or a request
\* of the current user, or it was left undone in the background, where nothing
\* is scheduled then and the return to the foreground makes up for it.
Timed == \E i \in DOMAIN timers : timers[i] = lastNotified

Fetching == \E i \in DOMAIN users[current].fetches : users[current].fetches[i] = "auto"

Alive == Timed \/ Fetching \/ (background /\ ~scheduled)

RefreshAlive ==
    autoRefresh /\ current # 0 /\ TokenOf(current) = lastNotified => Alive

\* A timer set for the notified token is one of the timers.
LEMMA ScheduledIsTimed ==
    ASSUME TypeOK, NEW token \in Token \ {0}, Schedule(token), lastNotified' = token
    PROVE  Timed'
  <1>1. timers \in Seq(Token \ {0}) /\ timers' = Append(timers, token)
    BY DEF TypeOK, Schedule
  <1>2. /\ Len(timers) + 1 \in DOMAIN Append(timers, token)
        /\ Append(timers, token)[Len(timers) + 1] = token
    BY <1>1
  <1> QED  BY <1>1, <1>2 DEF Timed

\* A notice of a new token sets a timer for it.
LEMMA PostedIsTimed ==
    ASSUME TypeOK, NEW uid, NEW token \in Token \ {0}, token # lastNotified,
           autoRefresh, PossiblyPost(uid, token)
    PROVE  Timed'
  <1>1. lastNotified' = token /\ Schedule(token)
    BY DEF PossiblyPost
  <1> QED  BY <1>1, ScheduledIsTimed

\* The current user has a token, and it was issued.
LEMMA CurrentHasToken ==
    ASSUME TypeOK, Tokens, current # 0
    PROVE  /\ current \in DOMAIN users /\ TokenOf(current) \in Token \ {0}
           /\ TokenOf(current) = users[current].token
  <1>1. current \in DOMAIN users
    BY CurrentIsUser
  <1>2. users[current].token \in 1 .. issued /\ users[current].token \in Token /\ issued \in Nat
    BY <1>1, UserFields, TokenFacts DEF Tokens, TypeOK
  <1>3. users[current].token # 0
    BY <1>2
  <1> QED  BY <1>1, <1>2, <1>3 DEF TokenOf

\* What joins a line leaves the others in it.
LEMMA LineKeepsFetching ==
    ASSUME TypeOK, NEW u \in DOMAIN users, NEW by \in {"call", "auto"},
           users' = InLine(u, by), UNCHANGED current, current # 0
    PROVE  /\ Fetching => Fetching'
           /\ u = current /\ by = "auto" => Fetching'
           /\ TokenOf(current)' = TokenOf(current)
  <1>1. current \in DOMAIN users /\ users[current].fetches \in Seq({"call", "auto"})
    BY CurrentIsUser, UserFields
  <1>2. CASE u = current
    <2>1. /\ users'[current].fetches = Append(users[current].fetches, by)
          /\ users'[current].token = users[current].token
      BY <1>1, <1>2, UserFields DEF InLine, UserObject
    <2>2. /\ \A i \in DOMAIN users[current].fetches :
                /\ i \in DOMAIN Append(users[current].fetches, by)
                /\ Append(users[current].fetches, by)[i] = users[current].fetches[i]
          /\ Len(users[current].fetches) + 1 \in DOMAIN Append(users[current].fetches, by)
          /\ Append(users[current].fetches, by)[Len(users[current].fetches) + 1] = by
      BY <1>1
    <2> QED  BY <2>1, <2>2 DEF Fetching, TokenOf
  <1>3. CASE u # current
    <2>1. users'[current] = users[current]
      BY <1>1, <1>3 DEF InLine
    <2> QED  BY <1>3, <2>1 DEF Fetching, TokenOf
  <1> QED  BY <1>2, <1>3

LEMMA FireAlive ==
    ASSUME IInv, RefreshAlive, NEW i \in DOMAIN timers, Fire(i)
    PROVE  RefreshAlive'
  <1> SUFFICES ASSUME autoRefresh', current' # 0, TokenOf(current)' = lastNotified'
               PROVE  Alive'
    BY DEF RefreshAlive
  <1>1. /\ TypeOK /\ Tokens /\ autoRefresh /\ current # 0
        /\ timers' = Without(timers, i)
        /\ UNCHANGED <<current, lastNotified, autoRefresh, background>>
    BY DEF IInv, Fire
  <1>2. timers \in Seq(Token \ {0}) /\ Len(timers) \in Nat /\ i \in 1 .. Len(timers)
        /\ DOMAIN timers = 1 .. Len(timers)
    BY <1>1 DEF TypeOK
  <1>3. CASE timers[i] # TokenOf(current) /\ UNCHANGED <<users, scheduled>>
    <2>1. Alive /\ TokenOf(current) = lastNotified
      BY <1>1, <1>3 DEF RefreshAlive, TokenOf
    <2>2. CASE Timed
      <3>1. PICK j \in DOMAIN timers : timers[j] = lastNotified
        BY <2>2 DEF Timed
      <3>2. j # i /\ j \in 1 .. Len(timers)
        BY <1>2, <1>3, <2>1, <3>1
      <3>3. CASE j < i
        <4>1. j \in 1 .. Len(timers) - 1
          BY <1>2, <3>2, <3>3
        <4>2. j \in DOMAIN timers' /\ timers'[j] = timers[j]
          BY <1>1, <3>3, <4>1 DEF Without
        <4> QED  BY <1>1, <3>1, <4>2 DEF Alive, Timed
      <3>4. CASE j > i
        <4>1. j - 1 \in 1 .. Len(timers) - 1 /\ ~(j - 1 < i) /\ (j - 1) + 1 = j
          BY <1>2, <3>2, <3>4
        <4>2. j - 1 \in DOMAIN timers' /\ timers'[j - 1] = timers[j]
          BY <1>1, <4>1 DEF Without
        <4> QED  BY <1>1, <3>1, <4>2 DEF Alive, Timed
      <3> QED  BY <1>2, <3>2, <3>3, <3>4
    <2>3. CASE Fetching \/ (background /\ ~scheduled)
      BY <1>1, <1>3, <2>3 DEF Alive, Fetching
    <2> QED  BY <2>1, <2>2, <2>3 DEF Alive
  <1>4. CASE scheduled' = FALSE /\ background
    BY <1>1, <1>4 DEF Alive
  <1>5. CASE ~background /\ users' = InLine(current, "auto")
    BY <1>1, <1>5, CurrentIsUser, LineKeepsFetching DEF Alive
  <1> QED  BY <1>3, <1>4, <1>5 DEF Fire

\* The requests that enter a line without being of the refresh, and what turns
\* the refresh on.
LEMMA RequestAlive ==
    ASSUME IInv, RefreshAlive, GetIdToken \/ GetTokenForcingRefresh
    PROVE  RefreshAlive'
  <1> SUFFICES ASSUME autoRefresh', current' # 0, TokenOf(current)' = lastNotified'
               PROVE  Alive'
    BY DEF RefreshAlive
  <1>1. /\ TypeOK /\ Tokens /\ current # 0 /\ users' = InLine(current, "call")
        /\ UNCHANGED <<current, lastNotified, background>>
    BY DEF IInv, GetIdToken, GetTokenForcingRefresh, quiet
  <1>2. /\ Fetching => Fetching'
        /\ TokenOf(current)' = TokenOf(current)
    BY <1>1, CurrentIsUser, LineKeepsFetching
  <1>3. CASE autoRefresh /\ UNCHANGED <<scheduled, timers>>
    BY <1>1, <1>2, <1>3 DEF RefreshAlive, Alive, Timed
  <1>4. CASE Schedule(TokenOf(current))
    <2>1. TokenOf(current) \in Token \ {0}
      BY <1>1, CurrentHasToken
    <2> QED  BY <1>1, <1>2, <1>4, <2>1, ScheduledIsTimed DEF Alive
  <1> QED  BY <1>3, <1>4 DEF GetIdToken, GetTokenForcingRefresh, quiet

\* A change of the current user, or of nothing.
LEMMA UpdateAlive ==
    ASSUME IInv, RefreshAlive, NEW u \in {0} \cup signingIn, UpdateCurrentUser(u),
           UNCHANGED <<users, autoRefresh, background>>
    PROVE  RefreshAlive'
  <1>1. TypeOK /\ Tokens /\ Unanswered
    BY DEF IInv
  <1>2. CASE UNCHANGED <<keychain, current, quiet, kept>>
    BY <1>2 DEF quiet, RefreshAlive, Alive, Timed, Fetching, TokenOf
  <1>3. CASE Become(u) /\ u = 0
    BY <1>3 DEF Become, RefreshAlive
  <1>4. CASE Become(u) /\ u # 0
    <2>1. u \in DOMAIN users /\ u \in signingIn
      BY <1>1, <1>4 DEF TypeOK
    <2>2. users[u].token \in 1 .. issued /\ users[u].token \in Token /\ issued \in Nat
          /\ users[u].token # lastNotified
      BY <1>1, <2>1, UserFields, TokenFacts DEF Tokens, TypeOK, Unanswered
    <2>3. TokenOf(u) \in Token \ {0} /\ TokenOf(u) # lastNotified
          /\ PossiblyPost(UidOf(u), TokenOf(u))
      BY <1>4, <2>2 DEF TokenOf, Become
    <2>4. autoRefresh => Timed'
      BY <1>1, <2>3, PostedIsTimed
    <2> QED  BY <2>4 DEF RefreshAlive, Alive
  <1> QED  BY <1>2, <1>3, <1>4 DEF UpdateCurrentUser

\* Of the answers to token requests: a new token is notified with a timer, or is
\* not the notified one; a failed refresh of the current user is tried again; and
\* what failed for a caller leaves the requests of the refresh in line.
LEMMA FetchAlive ==
    ASSUME IInv, RefreshAlive, NEW u \in DOMAIN users, FetchAnswered(u)
    PROVE  RefreshAlive'
  <1> SUFFICES ASSUME autoRefresh', current' # 0, TokenOf(current)' = lastNotified'
               PROVE  Alive'
    BY DEF RefreshAlive
  <1> DEFINE by == Head(users[u].fetches)
             rest == [users EXCEPT ![u].fetches = Tail(@)]
  <1>1. /\ TypeOK /\ Tokens /\ users[u].fetches # <<>> /\ u # 0
        /\ UNCHANGED <<autoRefresh, background>> /\ autoRefresh
    BY UserFields DEF IInv, FetchAnswered
  <1>2. /\ users[u].fetches \in Seq({"call", "auto"}) /\ users[u] \in UserObject
        /\ issued \in Nat /\ MaxTokens \in Nat /\ lastNotified \in Nat /\ lastNotified <= issued
    BY <1>1, UserFields, TokenFacts DEF TypeOK, Tokens
  <1>3. CASE /\ issued < MaxTokens
             /\ users' = [rest EXCEPT ![u].token = issued + 1]
             /\ KeepToken(u, by, issued + 1)
             /\ UNCHANGED current
    <2>1. issued + 1 \in Token \ {0} /\ issued + 1 # lastNotified
      BY <1>2, <1>3, TokenFacts
    <2>2. CASE u # current
      <3>1. current \in DOMAIN users /\ users'[current] = users[current]
        BY <1>1, <1>3, <2>2, CurrentIsUser
      <3>2. UNCHANGED <<lastNotified, scheduled, timers>>
        BY <1>3, <2>2 DEF KeepToken, quiet
      <3>3. TokenOf(current) = lastNotified /\ Alive
        BY <1>1, <1>3, <3>1, <3>2 DEF TokenOf, RefreshAlive
      <3> QED  BY <1>1, <1>3, <3>1, <3>2, <3>3 DEF Alive, Timed, Fetching
    <2>3. CASE u = current /\ PossiblyPost(users[u].uid, issued + 1)
      BY <1>1, <2>1, <2>3, PostedIsTimed DEF Alive
    <2>4. CASE u = current /\ Retry(u, by, issued + 1)
      <3>1. UNCHANGED lastNotified
        BY <2>4 DEF Retry, quiet
      <3>2. users'[u].token = issued + 1
        BY <1>2, <1>3 DEF UserObject
      <3> QED  BY <1>3, <2>1, <2>4, <3>1, <3>2 DEF TokenOf
    <2> QED  BY <1>3, <2>2, <2>3, <2>4 DEF KeepToken
  <1>4. CASE users' = rest /\ Retry(u, by, TokenOf(current)) /\ UNCHANGED current
    <2>1. /\ current \in DOMAIN users /\ TokenOf(current) \in Token \ {0}
          /\ TokenOf(current) = users[current].token
      BY <1>1, <1>4, CurrentHasToken
    <2>2. /\ users'[u].fetches = Tail(users[u].fetches) /\ users'[u].token = users[u].token
          /\ u # current => users'[current] = users[current]
      BY <1>2, <1>4, <2>1 DEF UserObject
    <2>3. TokenOf(current)' = TokenOf(current) /\ UNCHANGED lastNotified
      BY <1>4, <2>1, <2>2 DEF TokenOf, Retry, quiet
    <2>4. Alive
      BY <1>1, <1>4, <2>3 DEF RefreshAlive
    <2>5. CASE Schedule(TokenOf(current))
      BY <1>1, <2>1, <2>3, <2>5, ScheduledIsTimed DEF Alive
    <2>6. CASE UNCHANGED quiet /\ u # current
      BY <1>1, <1>4, <2>2, <2>4, <2>6 DEF quiet, Alive, Timed, Fetching
    <2>7. CASE UNCHANGED quiet /\ u = current /\ by # "auto"
      <3>1. Fetching => Fetching'
        <4>1. SUFFICES ASSUME NEW i \in DOMAIN users[u].fetches, users[u].fetches[i] = "auto"
                       PROVE  Fetching'
          BY <2>7 DEF Fetching
        <4>2. i \in 1 .. Len(users[u].fetches) /\ i # 1 /\ Len(users[u].fetches) \in Nat
          BY <1>1, <1>2, <2>7, <4>1
        <4>3. /\ i - 1 \in DOMAIN Tail(users[u].fetches)
              /\ Tail(users[u].fetches)[i - 1] = users[u].fetches[i]
          BY <1>1, <1>2, <4>2
        <4> QED  BY <1>4, <2>2, <2>7, <4>1, <4>3 DEF Fetching
      <3> QED  BY <1>1, <2>4, <2>7, <3>1 DEF quiet, Alive, Timed
    <2>8. u = current => users[u].uid = UidOf(current)
      BY <1>1 DEF UidOf
    <2> QED  BY <1>4, <2>5, <2>6, <2>7, <2>8 DEF Retry
  <1>5. CASE SignOutByForce
    BY <1>5 DEF SignOutByForce, Become
  <1> QED  BY <1>3, <1>4, <1>5 DEF FetchAnswered

\* Every other step leaves the refresh alone, or there is no user after it.
LEMMA StepAlive ==
    ASSUME IInv, RefreshAlive, [Next]_vars
    PROVE  RefreshAlive'
  <1>1. TypeOK /\ Tokens /\ Unanswered /\ Notified /\ Starting
    BY DEF IInv
  <1>2. CASE Load
    <2>1. autoRefresh' = autoRefresh /\ current = 0
      BY <1>1, <1>2 DEF Load, Starting
    <2>2. CASE UNCHANGED <<users, current, quiet>>
      BY <2>1, <2>2 DEF RefreshAlive
    <2>3. CASE keychain # Nothing /\ PossiblyPost(keychain.uid, keychain.token)
      <3>1. /\ keychain.token \in 1 .. issued /\ keychain.token \in Token
            /\ issued \in Nat /\ lastNotified = 0
        BY <1>1, <2>1, <2>3, TokenFacts DEF Tokens, TypeOK, Notified
      <3>2. keychain.token \in Token \ {0} /\ keychain.token # lastNotified
        BY <3>1
      <3>3. autoRefresh => Timed'
        BY <1>1, <2>3, <3>2, PostedIsTimed
      <3> QED  BY <2>1, <3>3 DEF RefreshAlive, Alive
    <2> QED  BY <1>2, <2>2, <2>3 DEF Load
  <1>3. CASE SignOut
    BY <1>3, UpdateAlive DEF SignOut
  <1>4. CASE GetIdToken \/ GetTokenForcingRefresh
    BY <1>4, RequestAlive
  <1>5. CASE EnterBackground
    BY <1>5 DEF EnterBackground, quiet, RefreshAlive, Alive, Timed, Fetching, TokenOf
  <1>6. CASE BecomeActive
    <2>1. UNCHANGED <<users, current, lastNotified, autoRefresh>>
      BY <1>6 DEF BecomeActive
    <2>2. CASE scheduled /\ UNCHANGED <<scheduled, timers>>
      BY <2>1, <2>2 DEF RefreshAlive, Alive, Timed, Fetching, TokenOf
    <2>3. CASE Schedule(TokenOf(current))
      <3> SUFFICES ASSUME current # 0, TokenOf(current) = lastNotified
                   PROVE  Timed'
        BY <2>1 DEF RefreshAlive, Alive, TokenOf
      <3> QED  BY <1>1, <2>1, <2>3, CurrentHasToken, ScheduledIsTimed
    <2> QED  BY <1>6, <2>2, <2>3 DEF BecomeActive
  <1>7. CASE Deliver \/ UNCHANGED vars
    BY <1>7 DEF Deliver, vars, refresh, RefreshAlive, Alive, Timed, Fetching, TokenOf
  <1>8. CASE Restart
    BY <1>8 DEF Restart, RefreshAlive
  <1>9. ASSUME NEW uid \in Uid, SignIn(uid)
        PROVE  RefreshAlive'
    <2>1. UNCHANGED <<current, lastNotified, autoRefresh, scheduled, timers, background>>
      BY <1>9 DEF SignIn, refresh
    <2>2. current # 0 => users'[current] = users[current]
      BY <1>1, <1>9 DEF SignIn, TypeOK
    <2> QED  BY <2>1, <2>2 DEF RefreshAlive, Alive, Timed, Fetching, TokenOf
  <1>10. ASSUME NEW u \in DOMAIN users, SignInAnswered(u)
         PROVE  RefreshAlive'
    BY <1>10, UpdateAlive DEF SignInAnswered
  <1>11. ASSUME NEW u \in DOMAIN users, FetchAnswered(u)
         PROVE  RefreshAlive'
    BY <1>11, FetchAlive
  <1>12. ASSUME NEW i \in DOMAIN timers, Fire(i)
         PROVE  RefreshAlive'
    BY <1>12, FireAlive
  <1> QED
    BY <1>2, <1>3, <1>4, <1>5, <1>6, <1>7, <1>8, <1>9, <1>10, <1>11, <1>12 DEF Next

\* The token last notified of the current user has a timer or is being refreshed
\* unless the app is in the background, for any number of user objects, requests
\* and timers, in whatever order they are answered and fire.
THEOREM RefreshNeverLostTheorem == Spec => []RefreshNeverLost
  <1>1. Init => RefreshAlive
    BY DEF Init, RefreshAlive
  <1>2. IInv /\ RefreshAlive /\ [Next]_vars => RefreshAlive'
    BY StepAlive
  <1>3. RefreshAlive => RefreshNeverLost
    BY DEF RefreshAlive, RefreshNeverLost, Alive, Timed, Fetching
  <1> QED  BY <1>1, <1>2, <1>3, Invariance, PTL DEF Spec
=============================================================================
