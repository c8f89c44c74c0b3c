------------------------------ MODULE NewsFeed ------------------------------
(***************************************************************************)
(* The two news widgets of the home page: the list (WholeNews) and the      *)
(* breaking-news strip (BreakingNewsScroll).  Each asks the news service    *)
(* for the headlines in initState and again in EVERY build, where the new   *)
(* future is handed to a FutureBuilder.  So a rebuild costs a request, any  *)
(* number of them are under way at once, and they are answered in any order.*)
(***************************************************************************)
EXTENDS Naturals, FiniteSets

CONSTANT MaxRequests        \* bound: requests sent

ASSUME MaxRequestsAssumption == MaxRequests \in Nat

VARIABLES
    mounted,        \* the home page is mounted
    pending,        \* the requests that are not answered yet
    nextRequest,    \* number of the next request
    view            \* per feed, the State of its FutureBuilder

vars == <<mounted, pending, nextRequest, view>>

Feeds == {"list", "strip"}

\* data is the number of the request whose articles are held; 0 is null.
\* latest is the request whose future the FutureBuilder listens to.
Snapshot == [latest : Nat, state : {"waiting", "done"}, data : Nat,
             failed : BOOLEAN]

TypeOK ==
    /\ mounted \in BOOLEAN
    /\ pending \subseteq 1 .. (nextRequest - 1)
    /\ nextRequest \in Nat \ {0}
    /\ view \in [Feeds -> Snapshot]

-----------------------------------------------------------------------------
\* getData(): the number of the request a feed sends when the feeds of the set
\* rebuilt build again, the strip first.
RequestOf(feed, rebuilt) ==
    IF feed = "list" /\ "strip" \in rebuilt THEN nextRequest + 1 ELSE nextRequest

\* FutureBuilder given a new future: it drops the old one, and keeps the old
\* data and error while it waits.
Subscribe(snapshot, request) ==
    [snapshot EXCEPT !.latest = request, !.state = "waiting"]

\* Mutant: the next request reuses a number.
SendReusing(n) ==
    /\ nextRequest + n - 1 <= MaxRequests
    /\ pending' = pending \cup nextRequest .. (nextRequest + n - 1)
    /\ nextRequest' = nextRequest + n - 1

Send(n) ==
    /\ nextRequest + n - 1 <= MaxRequests
    /\ pending' = pending \cup nextRequest .. (nextRequest + n - 1)
    /\ nextRequest' = nextRequest + n

\* A home page comes up: each feed sends one request from initState, whose
\* answer nobody reads, and one from its first build.
Mount ==
    /\ ~mounted
    /\ Send(4)
    /\ mounted' = TRUE
    /\ view' = [f \in Feeds |->
                  [latest |-> nextRequest + (IF f = "strip" THEN 1 ELSE 3),
                   state |-> "waiting", data |-> 0, failed |-> FALSE]]

\* HomePage.setState rebuilds both feeds; a scroll of the strip rebuilds it.
Rebuild ==
    /\ mounted
    /\ \E rebuilt \in {Feeds, {"strip"}} :
        /\ Send(Cardinality(rebuilt))
        /\ view' = [f \in Feeds |->
                      IF f \in rebuilt
                      THEN Subscribe(view[f], RequestOf(f, rebuilt))
                      ELSE view[f]]
    /\ UNCHANGED mounted

\* Mutant: every future of the page reaches the snapshot.
DeliverAny(request, snapshot) ==
    [f \in Feeds |->
        IF mounted /\ view[f].latest >= request THEN snapshot[f] ELSE view[f]]

\* Only the future listened to reaches the snapshot of a feed.
Deliver(request, snapshot) ==
    [f \in Feeds |->
        IF mounted /\ view[f].latest = request THEN snapshot[f] ELSE view[f]]

Answered(request) ==
    /\ request \in pending
    /\ pending' = pending \ {request}
    /\ view' = Deliver(request, [f \in Feeds |->
                  [view[f] EXCEPT !.state = "done", !.data = request,
                                  !.failed = FALSE]])
    /\ UNCHANGED <<mounted, nextRequest>>

\* Mutant: the error is swallowed, the answer is null.
FailedSilently(request) ==
    /\ request \in pending
    /\ pending' = pending \ {request}
    /\ view' = Deliver(request, [f \in Feeds |->
                  [view[f] EXCEPT !.state = "done", !.data = 0, !.failed = FALSE]])
    /\ UNCHANGED <<mounted, nextRequest>>

\* Mutant: a failed request is never reported.
FailedUnreported(request) ==
    /\ request \in pending
    /\ pending' = pending \ {request}
    /\ UNCHANGED <<mounted, nextRequest, view>>

\* The request fails, or newsFromJson throws on the body.
Failed(request) ==
    /\ request \in pending
    /\ pending' = pending \ {request}
    /\ view' = Deliver(request, [f \in Feeds |->
                  [view[f] EXCEPT !.state = "done", !.data = 0,
                                  !.failed = TRUE]])
    /\ UNCHANGED <<mounted, nextRequest>>

\* Signing out: the page is disposed, and its requests go on.
Unmount ==
    /\ mounted
    /\ mounted' = FALSE
    /\ UNCHANGED <<pending, nextRequest, view>>

-----------------------------------------------------------------------------
Init ==
    /\ mounted = FALSE
    /\ pending = {}
    /\ nextRequest = 1
    /\ view = [f \in Feeds |-> [latest |-> 0, state |-> "waiting", data |-> 0,
                                failed |-> FALSE]]

Next ==
    \/ Mount \/ Rebuild \/ Unmount
    \/ \E r \in 1 .. MaxRequests : Answered(r) \/ Failed(r)

\* Every request is answered or fails; nobody has to scroll, type or leave.
Fairness == \A r \in 1 .. MaxRequests : WF_vars(Answered(r) \/ Failed(r))

Spec == Init /\ [][Next]_vars /\ Fairness

-----------------------------------------------------------------------------
\* What the widgets draw.
Shows(f) ==
    CASE f = "list" /\ view[f].state = "waiting" -> "spinner"
      [] view[f].failed /\ (f = "list" => view[f].state = "done") -> "message"
      [] ~view[f].failed /\ view[f].data # 0
           /\ (f = "list" => view[f].state = "done") -> "articles"
      [] OTHER -> "broken"      \* articles of a null: the builder throws

\* A feed at rest holds the answer to its last request, and the list is never
\* asked to draw the articles of a null (wholeNews.dart:55).
RestsOnLatest ==
    \A f \in Feeds : mounted /\ view[f].state = "done" =>
        /\ view[f].failed \/ view[f].data = view[f].latest
        /\ Shows(f) # "broken"

\* However the answers overtake each other, articles are never replaced by
\* those of an earlier request, not even those a former home page asked for.
NeverOlder ==
    [][mounted /\ mounted' => \A f \in Feeds :
         view'[f].data # 0 => view'[f].data >= view[f].data]_vars

\* The strip reads snapshot.data.articles while it waits (breakingNewsScroll.dart:38
\* never matches, line 70): it is broken until the first answer, and never
\* again on that page.
BrokenOnlyAtFirst ==
    [][mounted /\ mounted' => \A f \in Feeds :
         Shows(f) # "broken" => Shows(f)' # "broken"]_vars

\* When the rebuilds stop, no feed waits for ever.
FeedsSettle ==
    \A f \in Feeds :
        (mounted /\ view[f].state = "waiting")
            ~> (~mounted \/ view[f].state = "done")
=============================================================================
