----------------------------- MODULE HomeSearch -----------------------------
(***************************************************************************)
(* The app bar of the home page: the search field, the drawer and the       *)
(* system back button.  Starting a search and opening the drawer each put   *)
(* an entry on the local history of the home page's route; the back button  *)
(* takes the newest entry off before it may leave the page.                 *)
(***************************************************************************)
EXTENDS Naturals, Sequences, SequencesExt

CONSTANTS
    Texts,          \* what can be typed
    NoText,         \* the empty text
    MaxEntries      \* bound: entries on the local history

ASSUME NoTextAssumption == NoText \notin Texts
ASSUME MaxEntriesAssumption == MaxEntries \in Nat

VARIABLES
    isSearching,    \* _isSearching
    text,           \* the text of the search field
    query,          \* the query the page remembers
    history,        \* the entries of the route's local history, oldest first
    drawerOpen,     \* the drawer is open
    left            \* the page has been left

vars == <<isSearching, text, query, history, drawerOpen, left>>

Hint == "Search query"

TypeOK ==
    /\ isSearching \in BOOLEAN
    /\ text \in Texts \cup {NoText}
    /\ query \in Texts \cup {NoText, Hint}
    /\ history \in Seq({"search", "drawer"})
    /\ drawerOpen \in BOOLEAN
    /\ left \in BOOLEAN

-----------------------------------------------------------------------------
\* Mutant: the query is emptied to a string of its own.
clearSearchQueryToBlank == text' = NoText /\ query' = ""

clearSearchQuery == text' = NoText /\ query' = Hint

\* The search icon is shown while the page is not searching; the drawer covers
\* the app bar.
startSearch ==
    /\ ~left /\ ~isSearching /\ ~drawerOpen
    /\ Len(history) < MaxEntries
    /\ history' = Append(history, "search")
    /\ isSearching' = TRUE
    /\ UNCHANGED <<text, query, drawerOpen, left>>

\* onChanged of the search field; typing nothing empties it.
Type(typed) ==
    /\ ~left /\ isSearching /\ ~drawerOpen
    /\ text' = typed /\ query' = typed
    /\ UNCHANGED <<isSearching, history, drawerOpen, left>>

\* The clear icon: empties the field, and on an empty field leaves the search.
\* The entry on the local history stays.
TapClear ==
    /\ ~left /\ isSearching /\ ~drawerOpen
    /\ isSearching' = (text # NoText)
    /\ clearSearchQuery
    /\ UNCHANGED <<history, drawerOpen, left>>

\* By the menu icon, or by a swipe from the edge, searching or not.
OpenDrawer ==
    /\ ~left /\ ~drawerOpen
    /\ Len(history) < MaxEntries
    /\ history' = Append(history, "drawer")
    /\ drawerOpen' = TRUE
    /\ UNCHANGED <<isSearching, text, query, left>>

\* Mutant: the drawer's entry stays.
CloseDrawerOnly ==
    /\ ~left /\ drawerOpen
    /\ drawerOpen' = FALSE
    /\ UNCHANGED <<isSearching, text, query, history, left>>

\* A tap beside the drawer closes it and takes its own entry off.
CloseDrawer ==
    /\ ~left /\ drawerOpen
    /\ \E i \in DOMAIN history :
          history[i] = "drawer" /\ history' = RemoveAt(history, i)
    /\ drawerOpen' = FALSE
    /\ UNCHANGED <<isSearching, text, query, left>>

\* Mutant: the search is stopped, its text is kept.
stopSearchingOnly == isSearching' = FALSE /\ UNCHANGED <<text, query>>

\* The removed entry's onRemove is stopSearching, which leaves _isSearching
\* TRUE.
stopSearching == clearSearchQuery /\ isSearching' = TRUE

Back ==
    /\ ~left
    /\ \/ /\ history = <<>>
          /\ left' = TRUE
          /\ UNCHANGED <<isSearching, text, query, history, drawerOpen>>
       \/ /\ history # <<>> /\ Last(history) = "search"
          /\ history' = Front(history)
          /\ stopSearching
          /\ UNCHANGED <<drawerOpen, left>>
       \/ /\ history # <<>> /\ Last(history) = "drawer"
          /\ history' = Front(history)
          /\ drawerOpen' = FALSE
          /\ UNCHANGED <<isSearching, text, query, left>>

\* The sign-out entry of the drawer replaces the page, whatever its local
\* history holds.
TapSignOut ==
    /\ ~left /\ drawerOpen
    /\ left' = TRUE
    /\ UNCHANGED <<isSearching, text, query, history, drawerOpen>>

Init ==
    /\ isSearching = FALSE
    /\ text = NoText
    /\ query = NoText
    /\ history = <<>>
    /\ drawerOpen = FALSE
    /\ left = FALSE

Next ==
    \/ startSearch \/ TapClear \/ OpenDrawer \/ CloseDrawer \/ Back \/ TapSignOut
    \/ \E typed \in Texts \cup {NoText} : Type(typed)

Spec == Init /\ [][Next]_vars

-----------------------------------------------------------------------------
\* An open drawer owns the newest entry, and no entry of a closed drawer is
\* left behind: so the back button and a tap beside the drawer take off the
\* same entry, and never one of a search.
DrawerIsNewest ==
    ~left =>
        /\ drawerOpen => history # <<>> /\ Last(history) = "drawer"
        /\ \A i \in DOMAIN history :
              history[i] = "drawer" => drawerOpen /\ i = Len(history)

\* Every way out of the search and every way back into it, the back button
\* included (home_page.dart:35, 74), leaves no text of the last search behind:
\* the field is empty whenever it is not shown, and what the page remembers is
\* what the field shows.
NoStaleText ==
    /\ ~isSearching => text = NoText
    /\ text # NoText => query = text
=============================================================================
