-------------------------- MODULE HomeSearchProofs --------------------------
(***************************************************************************)
(* The search, the drawer and the back button share one local history and   *)
(* never mistake each other's entries, for any length of that history.      *)
(***************************************************************************)
EXTENDS HomeSearch, SequenceTheorems, TLAPS

\* Taking the last entry off leaves the others where they are.
LEMMA FrontFacts ==
    ASSUME NEW S, NEW s \in Seq(S), s # <<>>
    PROVE  /\ Front(s) \in Seq(S)
           /\ Len(s) \in Nat \ {0}
           /\ Len(Front(s)) = Len(s) - 1
           /\ \A i \in 1 .. Len(s) - 1 : Front(s)[i] = s[i]
<1>1. Len(s) \in Nat \ {0}
    BY EmptySeq
<1>2. /\ SubSeq(s, 1, Len(s) - 1) \in Seq(S)
      /\ Len(SubSeq(s, 1, Len(s) - 1)) = Len(s) - 1
      /\ \A i \in 1 .. Len(s) - 1 : SubSeq(s, 1, Len(s) - 1)[i] = s[i]
    <2>1. \A i \in 1 .. Len(s) - 1 : s[i] \in S
        BY <1>1, ElementOfSeq
    <2>2. Len(s) - 1 \in Int /\ (Len(s) - 1) - 1 + 1 = Len(s) - 1
        BY <1>1
    <2>3. \A i \in 1 .. Len(s) - 1 : 1 + i - 1 = i
        BY <1>1
    <2>4. QED
        BY <1>1, <2>1, <2>2, <2>3, SubSeqProperties
<1>3. QED
    BY <1>1, <1>2 DEF Front

\* Removing the entry at the end is taking the last one off.
LEMMA RemoveLast ==
    ASSUME NEW S, NEW s \in Seq(S), s # <<>>
    PROVE  RemoveAt(s, Len(s)) = Front(s)
<1>1. Len(s) \in Nat \ {0}
    BY EmptySeq
<1>2. SubSeq(s, Len(s) + 1, Len(s)) = << >>
    BY <1>1, SubSeqEmpty
<1>3. SubSeq(s, 1, Len(s) - 1) \in Seq(S)
    BY FrontFacts DEF Front
<1>4. SubSeq(s, 1, Len(s) - 1) \o << >> = SubSeq(s, 1, Len(s) - 1)
    BY <1>3, ConcatEmptySeq
<1>5. QED
    BY <1>2, <1>4 DEF RemoveAt, Front

Entry == {"search", "drawer"}

\* An entry of the drawer can only be the newest one.
SearchesBelow(h) == \A i \in 1 .. Len(h) - 1 : h[i] = "search"

DrawerOnTop(h) == h # <<>> /\ h[Len(h)] = "drawer"

SearchInv ==
    /\ TypeOK
    /\ SearchesBelow(history)
    /\ drawerOpen <=> DrawerOnTop(history)

\* A search starts on a history without a drawer, whose drawer may come next.
LEMMA AppendShape ==
    ASSUME NEW h \in Seq(Entry), NEW e \in Entry,
           SearchesBelow(h), ~DrawerOnTop(h)
    PROVE  /\ Append(h, e) \in Seq(Entry)
           /\ SearchesBelow(Append(h, e))
           /\ DrawerOnTop(Append(h, e)) <=> e = "drawer"
<1>1. Len(h) \in Nat /\ (h # <<>> => Len(h) # 0)
    BY LenProperties, EmptySeq
<1>2. /\ Append(h, e) \in Seq(Entry)
      /\ Append(h, e) # <<>>
      /\ Len(Append(h, e)) = Len(h) + 1
      /\ \A i \in 1 .. Len(h) : Append(h, e)[i] = h[i]
      /\ Append(h, e)[Len(h) + 1] = e
    BY AppendProperties
<1>3. \A i \in 1 .. Len(h) : h[i] = "search"
    <2>1. \A i \in 1 .. Len(h) : h[i] \in Entry
        BY ElementOfSeq
    <2>2. h # <<>> => h[Len(h)] # "drawer"
        BY DEF DrawerOnTop
    <2>3. \A i \in 1 .. Len(h) : h # <<>>
        BY EmptySeq
    <2>4. QED
        BY <1>1, <2>1, <2>2, <2>3 DEF SearchesBelow, Entry
<1>4. QED
    BY <1>1, <1>2, <1>3 DEF SearchesBelow, DrawerOnTop

\* What is under the newest entry are searches.
LEMMA FrontShape ==
    ASSUME NEW h \in Seq(Entry), h # <<>>, SearchesBelow(h)
    PROVE  /\ Front(h) \in Seq(Entry)
           /\ SearchesBelow(Front(h))
           /\ ~DrawerOnTop(Front(h))
<1>1. /\ Front(h) \in Seq(Entry)
      /\ Len(h) \in Nat \ {0}
      /\ Len(Front(h)) = Len(h) - 1
      /\ \A i \in 1 .. Len(h) - 1 : Front(h)[i] = h[i]
    BY FrontFacts
<1>2. \A i \in 1 .. Len(Front(h)) : Front(h)[i] = "search"
    BY <1>1 DEF SearchesBelow
<1>3. Front(h) # <<>> => Len(Front(h)) \in 1 .. Len(Front(h))
    BY <1>1, EmptySeq
<1>4. QED
    BY <1>1, <1>2, <1>3 DEF SearchesBelow, DrawerOnTop

LEMMA SearchInit == Init => SearchInv /\ NoStaleText
<1> SUFFICES ASSUME Init PROVE SearchInv /\ NoStaleText
    OBVIOUS
<1>1. /\ history \in Seq({"search", "drawer"})
      /\ SearchesBelow(history)
      /\ ~DrawerOnTop(history)
    BY EmptySeq DEF Init, SearchesBelow, DrawerOnTop
<1>2. TypeOK
    BY <1>1, Zenon DEF Init, TypeOK
<1>3. NoStaleText
    BY DEF Init, NoStaleText
<1>4. QED
    BY <1>1, <1>2, <1>3, Zenon DEF Init, SearchInv

\* The two ways of closing the drawer take the same entry off.
LEMMA CloseDrawerIsFront ==
    ASSUME SearchInv, CloseDrawer
    PROVE  history' = Front(history) /\ history # <<>>
<1>1. history \in Seq(Entry) /\ history # <<>>
    BY DEF SearchInv, TypeOK, CloseDrawer, DrawerOnTop, Entry
<1>2. PICK i \in DOMAIN history :
        history[i] = "drawer" /\ history' = RemoveAt(history, i)
    BY DEF CloseDrawer
<1>3. i = Len(history)
    <2>1. Len(history) \in Nat /\ DOMAIN history = 1 .. Len(history)
        BY <1>1, LenProperties
    <2>2. QED
        BY <1>2, <2>1 DEF SearchInv, SearchesBelow
<1>4. QED
    BY <1>1, <1>2, <1>3, RemoveLast

LEMMA SearchStep == SearchInv /\ [Next]_vars => SearchInv'
<1> SUFFICES ASSUME SearchInv, [Next]_vars PROVE SearchInv'
    OBVIOUS
<1>1. /\ TypeOK /\ history \in Seq(Entry) /\ SearchesBelow(history)
      /\ drawerOpen <=> DrawerOnTop(history)
    BY DEF SearchInv, TypeOK, Entry
<1>2. CASE startSearch
    <2>1. /\ history' = Append(history, "search") /\ isSearching' = TRUE
          /\ UNCHANGED <<text, query, drawerOpen, left>> /\ ~drawerOpen
        BY <1>2 DEF startSearch
    <2>2. /\ history' \in Seq(Entry) /\ SearchesBelow(history')
          /\ ~DrawerOnTop(history')
        BY <1>1, <2>1, AppendShape DEF Entry
    <2>3. TypeOK'
        BY <1>1, <2>1, <2>2, Zenon DEF TypeOK, Entry
    <2>4. QED
        BY <2>1, <2>2, <2>3, Zenon DEF SearchInv, SearchesBelow, DrawerOnTop
<1>3. CASE \E typed \in Texts \cup {NoText} : Type(typed)
    <2>1. /\ text' \in Texts \cup {NoText} /\ query' = text'
          /\ UNCHANGED <<isSearching, history, drawerOpen, left>>
        BY <1>3 DEF Type
    <2>2. QED
        BY <1>1, <2>1, Zenon DEF SearchInv, TypeOK, SearchesBelow, DrawerOnTop
<1>4. CASE TapClear
    <2>1. /\ text' = NoText /\ query' = Hint /\ isSearching' \in BOOLEAN
          /\ UNCHANGED <<history, drawerOpen, left>>
        BY <1>4 DEF TapClear, clearSearchQuery
    <2>2. QED
        BY <1>1, <2>1, Zenon DEF SearchInv, TypeOK, SearchesBelow, DrawerOnTop
<1>5. CASE OpenDrawer
    <2>1. /\ history' = Append(history, "drawer") /\ drawerOpen' = TRUE
          /\ UNCHANGED <<isSearching, text, query, left>> /\ ~drawerOpen
        BY <1>5 DEF OpenDrawer
    <2>2. /\ history' \in Seq(Entry) /\ SearchesBelow(history')
          /\ DrawerOnTop(history')
        BY <1>1, <2>1, AppendShape DEF Entry
    <2>3. TypeOK'
        BY <1>1, <2>1, <2>2, Zenon DEF TypeOK, Entry
    <2>4. QED
        BY <2>1, <2>2, <2>3, Zenon DEF SearchInv, SearchesBelow, DrawerOnTop
<1>6. ASSUME history' = Front(history), history # <<>>, drawerOpen' = FALSE,
             UNCHANGED <<isSearching, text, query, left>>
      PROVE  SearchInv'
    <2>1. /\ history' \in Seq(Entry) /\ SearchesBelow(history')
          /\ ~DrawerOnTop(history')
        BY <1>1, <1>6, FrontShape
    <2>2. TypeOK'
        BY <1>1, <1>6, <2>1, Zenon DEF TypeOK, Entry
    <2>3. QED
        BY <1>6, <2>1, <2>2, Zenon DEF SearchInv, SearchesBelow, DrawerOnTop
<1>7. CASE CloseDrawer
    BY <1>6, <1>7, CloseDrawerIsFront DEF CloseDrawer
<1>8. CASE Back
    <2>1. CASE history = <<>> /\ left' = TRUE
               /\ UNCHANGED <<isSearching, text, query, history, drawerOpen>>
        BY <1>1, <2>1, Zenon DEF SearchInv, TypeOK, SearchesBelow, DrawerOnTop
    <2>2. CASE /\ history # <<>> /\ Last(history) = "search"
               /\ history' = Front(history)
               /\ stopSearching
               /\ UNCHANGED <<drawerOpen, left>>
        <3>1. ~DrawerOnTop(history)
            BY <2>2 DEF DrawerOnTop, Last
        <3>2. /\ history' \in Seq(Entry) /\ SearchesBelow(history')
              /\ ~DrawerOnTop(history')
            BY <1>1, <2>2, FrontShape
        <3>3. text' = NoText /\ query' = Hint /\ isSearching' = TRUE
            BY <2>2 DEF stopSearching, clearSearchQuery
        <3>4. TypeOK'
            BY <1>1, <2>2, <3>2, <3>3, Zenon DEF TypeOK, Entry
        <3>5. ~drawerOpen'
            BY <1>1, <2>2, <3>1
        <3>6. QED
            BY <3>2, <3>4, <3>5, Zenon DEF SearchInv, SearchesBelow, DrawerOnTop
    <2>3. CASE /\ history # <<>> /\ Last(history) = "drawer"
               /\ history' = Front(history)
               /\ drawerOpen' = FALSE
               /\ UNCHANGED <<isSearching, text, query, left>>
        BY <1>6, <2>3
    <2>4. QED
        BY <1>8, <2>1, <2>2, <2>3 DEF Back
<1>9. CASE TapSignOut
    <2>1. left' = TRUE
          /\ UNCHANGED <<isSearching, text, query, history, drawerOpen>>
        BY <1>9 DEF TapSignOut
    <2>2. QED
        BY <1>1, <2>1, Zenon DEF SearchInv, TypeOK, SearchesBelow, DrawerOnTop
<1>10. CASE UNCHANGED vars
    BY <1>1, <1>10, Zenon DEF vars, SearchInv, TypeOK, SearchesBelow, DrawerOnTop
<1>11. QED
    BY <1>2, <1>3, <1>4, <1>5, <1>7, <1>8, <1>9, <1>10 DEF Next

LEMMA SearchAlways == Spec => []SearchInv
BY SearchInit, SearchStep, PTL DEF Spec

\* Whatever is typed, cleared, opened and closed, the local history of the page
\* holds entries of searches and drawers only, and the page remembers a query.
THEOREM TypeCorrect == Spec => []TypeOK
<1>1. SearchInv => TypeOK
    BY DEF SearchInv
<1>2. QED
    BY <1>1, SearchAlways, PTL

\* An open drawer owns the newest entry of the local history, and a closed one
\* owns none: the back button and the tap beside the drawer agree, however many
\* searches were left by the clear icon before.
THEOREM DrawerIsNewestTheorem == Spec => []DrawerIsNewest
<1>1. SearchInv => DrawerIsNewest
    <2> SUFFICES ASSUME SearchInv PROVE DrawerIsNewest
        OBVIOUS
    <2>1. Len(history) \in Nat /\ DOMAIN history = 1 .. Len(history)
        BY LenProperties DEF SearchInv, TypeOK
    <2>2. drawerOpen => history # <<>> /\ Last(history) = "drawer"
        BY DEF SearchInv, DrawerOnTop, Last
    <2>3. ASSUME NEW i \in DOMAIN history, history[i] = "drawer"
          PROVE  i = Len(history) /\ history # <<>>
        BY <2>1, <2>3 DEF SearchInv, SearchesBelow
    <2>4. \A i \in DOMAIN history :
              history[i] = "drawer" => drawerOpen /\ i = Len(history)
        BY <2>3 DEF SearchInv, DrawerOnTop
    <2>5. QED
        BY <2>1, <2>2, <2>4 DEF DrawerIsNewest
<1>2. QED
    BY <1>1, SearchAlways, PTL

\* No way out of the search, and no way back into it, shows the text of an
\* earlier search or remembers another query than the field shows.
THEOREM NoStaleTextTheorem == Spec => []NoStaleText
<1>1. NoStaleText /\ [Next]_vars => NoStaleText'
    <2> SUFFICES ASSUME NoStaleText, [Next]_vars PROVE NoStaleText'
        OBVIOUS
    <2>1. CASE startSearch
        BY <2>1 DEF NoStaleText, startSearch
    <2>2. CASE \E typed \in Texts \cup {NoText} : Type(typed)
        BY <2>2 DEF NoStaleText, Type
    <2>3. CASE TapClear
        BY <2>3 DEF NoStaleText, TapClear, clearSearchQuery
    <2>4. CASE OpenDrawer
        BY <2>4 DEF NoStaleText, OpenDrawer
    <2>5. CASE CloseDrawer
        BY <2>5 DEF NoStaleText, CloseDrawer
    <2>6. CASE Back
        BY <2>6 DEF NoStaleText, Back, stopSearching, clearSearchQuery
    <2>7. CASE TapSignOut
        BY <2>7 DEF NoStaleText, TapSignOut
    <2>8. CASE UNCHANGED vars
        BY <2>8 DEF NoStaleText, vars
    <2>9. QED
        BY <2>1, <2>2, <2>3, <2>4, <2>5, <2>6, <2>7, <2>8 DEF Next
<1>2. QED
    BY <1>1, SearchInit, PTL DEF Spec
=============================================================================
