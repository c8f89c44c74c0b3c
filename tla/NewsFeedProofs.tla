--------------------------- MODULE NewsFeedProofs ---------------------------
(***************************************************************************)
(* Whatever order the answers come in, a feed at rest holds the answer to   *)
(* its last request and never goes back to an older one, for every number   *)
(* of requests.                                                             *)
(***************************************************************************)
EXTENDS NewsFeed, FiniteSetTheorems, TLAPS

\* The articles held are of no later request than the one listened to, and a
\* feed that is done holds that request's answer, or its failure.
Coherent(f) ==
    /\ view[f].latest \in 1 .. (nextRequest - 1)
    /\ view[f].data \in 0 .. view[f].latest
    /\ view[f].state = "done" =>
           view[f].failed \/ view[f].data = view[f].latest

FeedInv ==
    /\ TypeOK
    /\ mounted => \A f \in Feeds : Coherent(f)

LEMMA RebuiltSizes == Cardinality(Feeds) = 2 /\ Cardinality({"strip"}) = 1
<1>1. Cardinality({"strip"}) = 1 /\ IsFiniteSet({"strip"})
    BY FS_Singleton
<1>2. Feeds = {"strip"} \cup {"list"} /\ "list" \notin {"strip"}
    BY DEF Feeds
<1>3. QED
    BY <1>1, <1>2, FS_AddElement

\* Sending n requests makes room for their numbers.
LEMMA SendFacts ==
    ASSUME TypeOK, NEW n \in Nat \ {0}, Send(n)
    PROVE  /\ nextRequest' = nextRequest + n
           /\ nextRequest' \in Nat \ {0}
           /\ pending' \subseteq 1 .. (nextRequest' - 1)
BY DEF Send, TypeOK

LEMMA FeedInit == Init => FeedInv
<1> SUFFICES ASSUME Init PROVE FeedInv
    OBVIOUS
<1>1. view \in [Feeds -> Snapshot]
    BY DEF Init, Snapshot
<1>2. pending \subseteq 1 .. (nextRequest - 1) /\ nextRequest \in Nat \ {0}
    BY DEF Init
<1>3. QED
    BY <1>1, <1>2, Zenon DEF Init, FeedInv, TypeOK

\* A new page's feeds wait for requests that were sent.
LEMMA MountStep ==
    ASSUME FeedInv, Mount
    PROVE  FeedInv'
<1>1. /\ nextRequest' = nextRequest + 4
      /\ nextRequest' \in Nat \ {0}
      /\ pending' \subseteq 1 .. (nextRequest' - 1)
    BY SendFacts DEF Mount, FeedInv
<1>2. nextRequest \in Nat \ {0}
    BY DEF FeedInv, TypeOK
<1>3. ASSUME NEW f \in Feeds
      PROVE  view'[f] \in Snapshot /\ Coherent(f)'
    BY <1>1, <1>2 DEF Mount, Coherent, Snapshot
<1>4. view' \in [Feeds -> Snapshot]
    BY <1>3 DEF Mount
<1>5. mounted' \in BOOLEAN
    BY DEF Mount
<1>6. QED
    BY <1>1, <1>3, <1>4, <1>5, Zenon DEF FeedInv, TypeOK

\* A feed that builds again waits for a request of its own, later than the last.
LEMMA RebuildStep ==
    ASSUME FeedInv, Rebuild
    PROVE  FeedInv'
<1>1. PICK rebuilt \in {Feeds, {"strip"}} :
        /\ Send(Cardinality(rebuilt))
        /\ view' = [f \in Feeds |->
                      IF f \in rebuilt
                      THEN Subscribe(view[f], RequestOf(f, rebuilt))
                      ELSE view[f]]
    BY DEF Rebuild
<1>2. mounted /\ mounted' = mounted
    BY DEF Rebuild
<1>3. /\ Cardinality(rebuilt) \in {1, 2}
      /\ \A f \in rebuilt : RequestOf(f, rebuilt) \in
            nextRequest .. (nextRequest + Cardinality(rebuilt) - 1)
    <2>1. nextRequest \in Nat
        BY DEF FeedInv, TypeOK
    <2>2. QED
        BY <2>1, RebuiltSizes DEF RequestOf, Feeds
<1>4. /\ nextRequest' = nextRequest + Cardinality(rebuilt)
      /\ nextRequest' \in Nat \ {0}
      /\ pending' \subseteq 1 .. (nextRequest' - 1)
    BY <1>1, <1>3, SendFacts DEF FeedInv
<1>5. nextRequest \in Nat \ {0} /\ view \in [Feeds -> Snapshot]
    BY DEF FeedInv, TypeOK
<1>6. ASSUME NEW f \in Feeds
      PROVE  view'[f] \in Snapshot /\ Coherent(f)'
    <2>1. view[f] \in Snapshot /\ Coherent(f)
        BY <1>2, <1>5 DEF FeedInv
    <2>2. CASE f \in rebuilt
        <3>1. view'[f] = [view[f] EXCEPT !.latest = RequestOf(f, rebuilt),
                                         !.state = "waiting"]
            BY <1>1, <2>2 DEF Subscribe
        <3>2. /\ RequestOf(f, rebuilt) \in nextRequest .. (nextRequest' - 1)
              /\ RequestOf(f, rebuilt) \in Nat
            BY <1>3, <1>4, <1>5, <2>2
        <3>3. /\ view'[f].latest = RequestOf(f, rebuilt)
              /\ view'[f].state = "waiting"
              /\ view'[f].data = view[f].data
            BY <2>1, <3>1 DEF Snapshot
        <3>4. view'[f] \in Snapshot
            BY <2>1, <3>1, <3>2 DEF Snapshot
        <3>5. Coherent(f)'
            BY <1>4, <1>5, <2>1, <3>2, <3>3 DEF Coherent
        <3>6. QED
            BY <3>4, <3>5
    <2>3. CASE f \notin rebuilt
        <3>1. view'[f] = view[f]
            BY <1>1, <2>3
        <3>2. QED
            BY <1>3, <1>4, <1>5, <2>1, <3>1 DEF Coherent
    <2>4. QED
        BY <2>2, <2>3
<1>7. view' \in [Feeds -> Snapshot]
    BY <1>1, <1>6
<1>8. QED
    BY <1>2, <1>4, <1>6, <1>7, Zenon DEF FeedInv, TypeOK

\* An answer reaches the feed that listens to it, with the answer's number or
\* with a failure, and leaves the other as it is.
LEMMA DeliverStep ==
    ASSUME FeedInv,
           NEW request \in pending,
           NEW snapshot \in [Feeds -> Snapshot],
           \A f \in Feeds :
              /\ snapshot[f].latest = view[f].latest
              /\ \/ snapshot[f].data = request
                 \/ snapshot[f].data = 0 /\ snapshot[f].failed,
           pending' = pending \ {request},
           view' = Deliver(request, snapshot),
           UNCHANGED <<mounted, nextRequest>>
    PROVE  FeedInv'
<1>1. nextRequest \in Nat \ {0} /\ request \in 1 .. (nextRequest - 1)
    BY DEF FeedInv, TypeOK
<1>2. view \in [Feeds -> Snapshot] /\ mounted \in BOOLEAN
    BY DEF FeedInv, TypeOK
<1>3. \A f \in Feeds : view'[f] \in {snapshot[f], view[f]}
    BY DEF Deliver
<1>4. view' \in [Feeds -> Snapshot]
    BY <1>2, <1>3 DEF Deliver
<1>5. ASSUME mounted, NEW f \in Feeds
      PROVE  Coherent(f)'
    <2>1. Coherent(f) /\ nextRequest' = nextRequest
        BY <1>5 DEF FeedInv
    <2>2. CASE view[f].latest = request
        <3>1. view'[f] = snapshot[f]
            BY <1>5, <2>2 DEF Deliver
        <3>2. QED
            BY <1>1, <2>1, <2>2, <3>1 DEF Coherent
    <2>3. CASE view[f].latest # request
        <3>1. view'[f] = view[f]
            BY <2>3 DEF Deliver
        <3>2. QED
            BY <2>1, <3>1 DEF Coherent
    <2>4. QED
        BY <2>2, <2>3
<1>6. nextRequest' = nextRequest /\ mounted' = mounted
    OBVIOUS
<1>7. pending' \subseteq 1 .. (nextRequest' - 1)
    BY <1>6 DEF FeedInv, TypeOK
<1>8. nextRequest' \in Nat \ {0}
    BY <1>1, <1>6
<1>9. TypeOK'
    BY <1>2, <1>4, <1>6, <1>7, <1>8, Zenon DEF TypeOK
<1>10. mounted' => \A f \in Feeds : Coherent(f)'
    <2>1. mounted' => mounted
        BY <1>6, SMT
    <2>2. QED
        BY <1>5, <2>1, Zenon
<1>11. QED
    BY <1>9, <1>10, Zenon DEF FeedInv

\* What Answered and Failed hand to Deliver.
LEMMA AnswerStep ==
    ASSUME FeedInv, NEW request \in 1 .. MaxRequests,
           Answered(request) \/ Failed(request)
    PROVE  /\ FeedInv'
           /\ mounted' = mounted
           /\ \A f \in Feeds :
                \/ view'[f] = view[f]
                \/ /\ mounted /\ view[f].latest = request
                   /\ view'[f].data \in {request, 0}
                   /\ view'[f].data = 0 <=> view'[f].failed
<1>1. view \in [Feeds -> Snapshot] /\ pending \subseteq Nat \ {0}
    BY DEF FeedInv, TypeOK
<1>2. CASE Answered(request)
    <2> DEFINE snapshot == [f \in Feeds |->
                  [view[f] EXCEPT !.state = "done", !.data = request,
                                  !.failed = FALSE]]
    <2>1. /\ request \in pending
          /\ pending' = pending \ {request}
          /\ view' = Deliver(request, snapshot)
          /\ UNCHANGED <<mounted, nextRequest>>
        BY <1>2 DEF Answered
    <2>2. request \in Nat \ {0}
        BY <1>1, <2>1
    <2>3. \A f \in Feeds :
            /\ snapshot[f] \in Snapshot
            /\ snapshot[f].latest = view[f].latest
            /\ snapshot[f].data = request
            /\ ~snapshot[f].failed
        BY <1>1, <2>2 DEF Snapshot
    <2>4. snapshot \in [Feeds -> Snapshot]
        BY <2>3
    <2> HIDE DEF snapshot
    <2>5. FeedInv'
        BY <2>1, <2>3, <2>4, DeliverStep
    <2>6. ASSUME NEW f \in Feeds
          PROVE  \/ view'[f] = view[f]
                 \/ /\ mounted /\ view[f].latest = request
                    /\ view'[f] = snapshot[f]
        BY <2>1 DEF Deliver
    <2>7. QED
        BY <2>1, <2>2, <2>3, <2>5, <2>6
<1>3. CASE Failed(request)
    <2> DEFINE snapshot == [f \in Feeds |->
                  [view[f] EXCEPT !.state = "done", !.data = 0,
                                  !.failed = TRUE]]
    <2>1. /\ request \in pending
          /\ pending' = pending \ {request}
          /\ view' = Deliver(request, snapshot)
          /\ UNCHANGED <<mounted, nextRequest>>
        BY <1>3 DEF Failed
    <2>3. \A f \in Feeds :
            /\ snapshot[f] \in Snapshot
            /\ snapshot[f].latest = view[f].latest
            /\ snapshot[f].data = 0
            /\ snapshot[f].failed
        BY <1>1 DEF Snapshot
    <2>4. snapshot \in [Feeds -> Snapshot]
        BY <2>3
    <2> HIDE DEF snapshot
    <2>5. FeedInv'
        BY <2>1, <2>3, <2>4, DeliverStep
    <2>6. ASSUME NEW f \in Feeds
          PROVE  \/ view'[f] = view[f]
                 \/ /\ mounted /\ view[f].latest = request
                    /\ view'[f] = snapshot[f]
        BY <2>1 DEF Deliver
    <2>7. QED
        BY <2>1, <2>3, <2>5, <2>6
<1>4. QED
    BY <1>2, <1>3

\* A page that is left keeps the promise vacuously; its requests stay valid.
LEMMA UnmountStep ==
    ASSUME FeedInv, Unmount
    PROVE  FeedInv'
<1>1. mounted' = FALSE /\ UNCHANGED <<pending, nextRequest, view>>
    BY DEF Unmount
<1>2. TypeOK'
    <2>1. mounted' \in BOOLEAN
        BY <1>1
    <2>2. QED
        BY <1>1, <2>1, Zenon DEF FeedInv, TypeOK
<1>3. ~mounted'
    BY <1>1
<1>4. QED
    BY <1>2, <1>3, Zenon DEF FeedInv

LEMMA FeedStep == FeedInv /\ [Next]_vars => FeedInv'
<1> SUFFICES ASSUME FeedInv, [Next]_vars PROVE FeedInv'
    OBVIOUS
<1>1. CASE Mount
    BY <1>1, MountStep
<1>2. CASE Rebuild
    BY <1>2, RebuildStep
<1>3. CASE Unmount
    BY <1>3, UnmountStep
<1>4. ASSUME NEW r \in 1 .. MaxRequests, Answered(r) \/ Failed(r)
      PROVE  FeedInv'
    BY <1>4, AnswerStep
<1>5. CASE UNCHANGED vars
    BY <1>5 DEF vars, FeedInv, TypeOK, Coherent
<1>6. QED
    BY <1>1, <1>2, <1>3, <1>4, <1>5 DEF Next

LEMMA FeedAlways == Spec => []FeedInv
BY FeedInit, FeedStep, PTL DEF Spec

\* Whatever answers are still under way, a feed that waits for nothing holds
\* the answer to its last request or reports its failure, and the list is not
\* asked for the articles of a null.
THEOREM RestsOnLatestTheorem == Spec => []RestsOnLatest
<1>1. FeedInv => RestsOnLatest
    <2> SUFFICES ASSUME FeedInv, NEW f \in Feeds, mounted, view[f].state = "done"
                 PROVE  /\ view[f].failed \/ view[f].data = view[f].latest
                        /\ Shows(f) # "broken"
        BY DEF RestsOnLatest
    <2>1. Coherent(f)
        BY DEF FeedInv
    <2>2. view[f].failed \/ view[f].data = view[f].latest
        BY <2>1 DEF Coherent
    <2>3. view[f].latest # 0
        BY <2>1 DEF Coherent, FeedInv, TypeOK
    <2>4. Shows(f) # "broken"
        BY <2>2, <2>3 DEF Shows
    <2>5. QED
        BY <2>2, <2>4
<1>2. QED
    BY <1>1, FeedAlways, PTL

\* Answers overtake each other on their way, and the articles on screen still
\* never give way to those of an earlier request.
THEOREM NeverOlderTheorem == Spec => NeverOlder
<1> DEFINE Newer == mounted /\ mounted' => \A f \in Feeds :
                        view'[f].data # 0 => view'[f].data >= view[f].data
<1>1. FeedInv /\ [Next]_vars => [Newer]_vars
    <2> SUFFICES ASSUME FeedInv, Next, mounted, mounted', NEW f \in Feeds,
                        view'[f].data # 0
                 PROVE  view'[f].data >= view[f].data
        OBVIOUS
    <2>1. Coherent(f) /\ view \in [Feeds -> Snapshot] /\ view[f].data \in Nat
        BY DEF FeedInv, TypeOK, Snapshot
    <2>2. CASE Mount
        BY <2>2 DEF Mount
    <2>3. CASE Rebuild
        <3>1. \/ view'[f] = view[f]
              \/ \E n : view'[f] = [view[f] EXCEPT !.latest = n,
                                                   !.state = "waiting"]
            BY <2>3 DEF Rebuild, Subscribe
        <3>2. view'[f].data = view[f].data
            BY <2>1, <3>1 DEF Snapshot
        <3>3. QED
            BY <2>1, <3>2
    <2>4. CASE Unmount
        BY <2>4 DEF Unmount
    <2>5. ASSUME NEW r \in 1 .. MaxRequests, Answered(r) \/ Failed(r)
          PROVE  view'[f].data >= view[f].data
        <3>1. \/ view'[f] = view[f]
              \/ view[f].latest = r /\ view'[f].data = r
            BY <2>5, AnswerStep
        <3>2. QED
            BY <2>1, <3>1 DEF Coherent
    <2>6. QED
        BY <2>2, <2>3, <2>4, <2>5 DEF Next
<1>2. QED
    BY <1>1, FeedAlways, PTL DEF Spec, NeverOlder

\* The strip's builder, which draws also while it waits, is given articles or
\* an error from the first answer on, for as long as its page lives.
THEOREM BrokenOnlyAtFirstTheorem == Spec => BrokenOnlyAtFirst
<1> DEFINE StaysWhole == mounted /\ mounted' => \A f \in Feeds :
                            Shows(f) # "broken" => Shows(f)' # "broken"
<1>1. FeedInv /\ [Next]_vars => [StaysWhole]_vars
    <2> SUFFICES ASSUME FeedInv, Next, mounted, mounted', NEW f \in Feeds,
                        Shows(f) # "broken"
                 PROVE  Shows(f)' # "broken"
        OBVIOUS
    <2>1. view[f] \in Snapshot /\ view \in [Feeds -> Snapshot]
        BY DEF FeedInv, TypeOK
    <2>2. CASE Mount
        BY <2>2 DEF Mount
    <2>3. CASE Rebuild
        <3>1. \/ view'[f] = view[f]
              \/ \E n : view'[f] = [view[f] EXCEPT !.latest = n,
                                                   !.state = "waiting"]
            BY <2>3 DEF Rebuild, Subscribe
        <3>2. \/ view'[f] = view[f]
              \/ /\ view'[f].state = "waiting"
                 /\ view'[f].data = view[f].data
                 /\ view'[f].failed = view[f].failed
            BY <2>1, <3>1 DEF Snapshot
        <3>3. f \in {"list", "strip"}
            BY DEF Feeds
        <3>4. CASE view'[f] = view[f]
            BY <3>4 DEF Shows
        <3>5. CASE f = "list" /\ view'[f].state = "waiting"
            BY <3>5 DEF Shows
        <3>6. ASSUME f = "strip", view'[f].data = view[f].data,
                     view'[f].failed = view[f].failed
              PROVE  Shows(f)' # "broken"
            BY <3>6 DEF Shows
        <3>7. QED
            BY <3>2, <3>3, <3>4, <3>5, <3>6
    <2>4. CASE Unmount
        BY <2>4 DEF Unmount
    <2>5. ASSUME NEW r \in 1 .. MaxRequests, Answered(r) \/ Failed(r)
          PROVE  Shows(f)' # "broken"
        <3>1. \/ view'[f] = view[f]
              \/ /\ view'[f].data \in {r, 0}
                 /\ view'[f].data = 0 <=> view'[f].failed
            BY <2>5, AnswerStep
        <3>2. CASE view'[f] = view[f]
            BY <3>2 DEF Shows
        <3>3. CASE view'[f].data = 0 <=> view'[f].failed
            <4>1. view'[f].state \in {"waiting", "done"}
                BY <2>5, AnswerStep DEF FeedInv, TypeOK, Snapshot
            <4>2. CASE view'[f].failed
                BY <4>1, <4>2 DEF Shows
            <4>3. CASE ~view'[f].failed
                BY <3>3, <4>1, <4>3 DEF Shows
            <4>4. QED
                BY <4>2, <4>3
        <3>4. QED
            BY <3>1, <3>2, <3>3
    <2>6. QED
        BY <2>2, <2>3, <2>4, <2>5 DEF Next
<1>2. QED
    BY <1>1, FeedAlways, PTL DEF Spec, BrokenOnlyAtFirst

\* Every feed of every page is in a state of a FutureBuilder, and a request that
\* is awaited has been sent, however many rebuilds overlap.
THEOREM TypeCorrect == Spec => []TypeOK
<1>1. FeedInv => TypeOK
    BY DEF FeedInv
<1>2. QED
    BY <1>1, FeedAlways, PTL
=============================================================================
