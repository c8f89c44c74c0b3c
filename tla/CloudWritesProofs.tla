------------------------- MODULE CloudWritesProofs -------------------------
(***************************************************************************)
(* Proofs about CloudWrites: its state is well typed, the pipeline stays in *)
(* step with the queue and the service, a write is only committed in the    *)
(* name of its owner, and none is lost, for any users, writes and bounds.   *)
(***************************************************************************)
EXTENDS CloudWrites, SequenceTheorems, FiniteSetTheorems,
        TLAPS

Ascending(q) == \A i, j \in DOMAIN q : i < j => q[i].id < q[j].id

IsPrefix(p, q) == Len(p) <= Len(q) /\ \A i \in 1 .. Len(p) : p[i] = q[i]

-----------------------------------------------------------------------------
\* Facts about batches, queues and the pipeline.

LEMMA WritesOfBatches ==
    ASSUME NEW p \in Seq(Batch)
    PROVE  /\ Writes(p) \in Seq(Write) /\ Writes(p) \in Seq(Response)
           /\ Len(Writes(p)) = Len(p)
           /\ \A i \in 1 .. Len(p) : Writes(p)[i] = p[i].write /\ p[i].write \in Write
<1>1. DOMAIN p = 1 .. Len(p) /\ Len(p) \in Nat BY LenProperties
<1>2. \A i \in 1 .. Len(p) : p[i] \in Batch BY ElementOfSeq
<1>3. \A i \in 1 .. Len(p) : p[i].write \in Write BY <1>2 DEF Batch
<1>4. Writes(p) \in [1 .. Len(p) -> Write] BY <1>1, <1>3 DEF Writes
<1>5. Write \subseteq Response BY WritesAssumption DEF Write, Response
<1>6. Writes(p) \in Seq(Write) BY <1>1, <1>4
<1>7. Writes(p) \in Seq(Response) BY <1>5, <1>6, SeqMonotonic
<1> QED BY <1>1, <1>3, <1>4, <1>6, <1>7 DEF Writes

\* Past a prefix of an ascending queue lies what follows the prefix.
LEMMA NextAfterPrefix ==
    ASSUME NEW p \in Seq(Batch), NEW q \in Seq(Batch), Ascending(q), IsPrefix(p, q)
    PROVE  NextAfter(q, IF p = <<>> THEN 0 ELSE p[Len(p)].id) = Len(p) + 1
<1> DEFINE id == IF p = <<>> THEN 0 ELSE p[Len(p)].id
<1> DEFINE After(i) == /\ \A j \in 1 .. i - 1 : q[j].id <= id
                       /\ i <= Len(q) => q[i].id > id
<1>1. /\ Len(p) \in Nat /\ Len(q) \in Nat /\ DOMAIN q = 1 .. Len(q) /\ Len(p) <= Len(q)
      /\ \A j \in 1 .. Len(q) : q[j] \in Batch
  BY LenProperties, ElementOfSeq DEF IsPrefix
<1>2. \A j \in 1 .. Len(q) : q[j].id \in Nat \ {0} BY <1>1 DEF Batch
<1>3. \A i, j \in 1 .. Len(q) : i < j => q[i].id < q[j].id BY <1>1 DEF Ascending
<1>4. p # <<>> => Len(p) \in 1 .. Len(q) /\ id = q[Len(p)].id
  BY <1>1, EmptySeq DEF IsPrefix
<1>5. p = <<>> => Len(p) = 0 /\ id = 0 BY EmptySeq
<1>6. id \in Nat BY <1>2, <1>4, <1>5
<1> HIDE DEF id
<1>7. \A j \in 1 .. Len(p) : q[j].id <= id
  <2> SUFFICES ASSUME NEW j \in 1 .. Len(p) PROVE q[j].id <= id OBVIOUS
  <2>1. p # <<>> BY <1>1, <1>5
  <2>2. j \in 1 .. Len(q) /\ (j < Len(p) \/ j = Len(p)) BY <1>1
  <2> QED BY <2>1, <2>2, <1>2, <1>3, <1>4
<1>8. \A j \in Len(p) + 1 .. Len(q) : q[j].id > id
  <2> SUFFICES ASSUME NEW j \in Len(p) + 1 .. Len(q) PROVE q[j].id > id OBVIOUS
  <2>1. j \in 1 .. Len(q) BY <1>1
  <2>2. CASE p = <<>> BY <2>1, <2>2, <1>2, <1>5
  <2>3. CASE p # <<>> BY <2>1, <2>3, <1>1, <1>2, <1>3, <1>4
  <2> QED BY <2>2, <2>3
<1>9. Len(p) + 1 \in 1 .. Len(q) + 1 /\ After(Len(p) + 1)
  <2>1. \A j \in 1 .. (Len(p) + 1) - 1 : q[j].id <= id BY <1>1, <1>7
  <2>2. Len(p) + 1 <= Len(q) => q[Len(p) + 1].id > id BY <1>1, <1>8
  <2> QED BY <2>1, <2>2, <1>1
<1>10. \A i \in 1 .. Len(q) + 1 : After(i) => i = Len(p) + 1
  <2> SUFFICES ASSUME NEW i \in 1 .. Len(q) + 1, After(i) PROVE i = Len(p) + 1 OBVIOUS
  <2>1. ~(i <= Len(p))
    <3> SUFFICES ASSUME i <= Len(p) PROVE FALSE OBVIOUS
    <3>1. i \in 1 .. Len(p) /\ i \in 1 .. Len(q) BY <1>1
    <3>2. q[i].id <= id BY <3>1, <1>7
    <3>3. q[i].id > id BY <3>1
    <3> QED BY <3>1, <3>2, <3>3, <1>2, <1>6
  <2>2. ~(i > Len(p) + 1)
    <3> SUFFICES ASSUME i > Len(p) + 1 PROVE FALSE OBVIOUS
    <3>1. Len(p) + 1 \in 1 .. i - 1 /\ Len(p) + 1 \in Len(p) + 1 .. Len(q) BY <1>1
    <3>2. q[Len(p) + 1].id <= id BY <3>1
    <3>3. q[Len(p) + 1].id > id BY <3>1, <1>8
    <3>4. q[Len(p) + 1].id \in Nat BY <3>1, <1>1, <1>2
    <3> QED BY <3>2, <3>3, <3>4, <1>6
  <2> QED BY <2>1, <2>2, <1>1
<1>11. NextAfter(q, id) = CHOOSE i \in 1 .. Len(q) + 1 : After(i) BY DEF NextAfter
<1> HIDE DEF After
<1>12. NextAfter(q, id) = Len(p) + 1 BY <1>9, <1>10, <1>11
<1> QED BY <1>12 DEF id

\* A pipeline that is the oldest part of a queue is filled up to the end of the
\* queue or to its own limit.
LEMMA FilledIsPrefix ==
    ASSUME NEW p \in Seq(Batch), NEW q \in Seq(Batch), Ascending(q), IsPrefix(p, q),
           Len(p) <= kMaxPendingWrites
    PROVE  /\ Filled(p, q) \in Seq(Batch) /\ IsPrefix(Filled(p, q), q)
           /\ Len(p) <= Len(Filled(p, q)) /\ Len(Filled(p, q)) <= kMaxPendingWrites
           /\ \A i \in 1 .. Len(p) : Filled(p, q)[i] = p[i]
           /\ q # <<>> => Filled(p, q) # <<>>
<1> DEFINE from == Len(p) + 1
           n    == Smaller(Len(q), from + kMaxPendingWrites - Len(p) - 1)
           new  == SubSeq(q, from, n)
<1>1. /\ Len(p) \in Nat /\ Len(q) \in Nat /\ Len(p) <= Len(q) /\ kMaxPendingWrites \in Nat \ {0}
      /\ \A i \in 1 .. Len(q) : q[i] \in Batch
  BY LenProperties, ElementOfSeq, WritesAssumption DEF IsPrefix
<1>2. Filled(p, q) = p \o new BY NextAfterPrefix DEF Filled
<1>3. n \in Nat /\ n <= Len(q) /\ n <= kMaxPendingWrites /\ Len(p) <= n
      /\ (n = Len(q) \/ n = kMaxPendingWrites)
  BY <1>1 DEF Smaller
<1> HIDE DEF n
<1>4. /\ new \in Seq(Batch) /\ Len(new) = n - Len(p)
      /\ \A i \in 1 .. n - Len(p) : new[i] = q[Len(p) + i]
  <2>1. \A i \in from .. n : q[i] \in Batch BY <1>1, <1>3
  <2>2. /\ new \in Seq(Batch)
        /\ Len(new) = IF from <= n THEN n - from + 1 ELSE 0
        /\ \A i \in 1 .. n - from + 1 : new[i] = q[from + i - 1]
    BY <2>1, <1>1, <1>3, SubSeqProperties
  <2>3. (IF from <= n THEN n - from + 1 ELSE 0) = n - Len(p) /\ n - from + 1 = n - Len(p)
    BY <1>1, <1>3
  <2>4. \A i \in 1 .. n - Len(p) : from + i - 1 = Len(p) + i BY <1>1
  <2> QED BY <2>2, <2>3, <2>4
<1> HIDE DEF new
<1>5. /\ p \o new \in Seq(Batch) /\ Len(p \o new) = Len(p) + Len(new)
      /\ \A i \in 1 .. Len(p) + Len(new) :
            (p \o new)[i] = IF i <= Len(p) THEN p[i] ELSE new[i - Len(p)]
  BY <1>4, ConcatProperties
<1>6. Len(p \o new) = n BY <1>1, <1>3, <1>4, <1>5
<1>7. \A i \in 1 .. n : (p \o new)[i] = q[i]
  <2> SUFFICES ASSUME NEW i \in 1 .. n PROVE (p \o new)[i] = q[i] OBVIOUS
  <2>1. CASE i <= Len(p)
    <3>1. p[i] = q[i] BY <2>1, <1>1 DEF IsPrefix
    <3> QED BY <3>1, <2>1, <1>1, <1>3, <1>5, <1>6
  <2>2. CASE i > Len(p)
    <3>1. i - Len(p) \in 1 .. n - Len(p) /\ Len(p) + (i - Len(p)) = i BY <2>2, <1>1, <1>3
    <3>2. new[i - Len(p)] = q[i] BY <3>1, <1>4
    <3>3. i \in 1 .. Len(p) + Len(new) /\ ~(i <= Len(p)) BY <2>2, <1>1, <1>3, <1>4
    <3> QED BY <3>2, <3>3, <1>5
  <2>3. i \in Nat /\ Len(p) \in Nat BY <1>1, <1>3
  <2>4. i <= Len(p) \/ i > Len(p) BY <2>3
  <2> QED BY <2>1, <2>2, <2>4
<1>8. \A i \in 1 .. Len(p) : (p \o new)[i] = p[i] BY <1>1, <1>3, <1>5, <1>6
<1>9. q # <<>> => p \o new # <<>>
  <2>1. q # <<>> => Len(q) # 0 BY EmptySeq
  <2>2. q # <<>> => n # 0 BY <2>1, <1>1, <1>3
  <2> QED BY <2>2, <1>6, EmptySeq
<1>10. IsPrefix(p \o new, q) BY <1>3, <1>6, <1>7 DEF IsPrefix
<1> QED BY <1>2, <1>3, <1>5, <1>6, <1>8, <1>9, <1>10

LEMMA RemoveFirst ==
    ASSUME NEW q \in Seq(Batch), Ascending(q), q # <<>>
    PROVE  Remove(q, q[1].id) = Tail(q)
<1>1. /\ Len(q) \in Nat /\ Len(q) # 0 /\ DOMAIN q = 1 .. Len(q)
      /\ \A i \in 1 .. Len(q) : q[i] \in Batch
  BY LenProperties, ElementOfSeq, EmptySeq
<1>2. \A i \in 1 .. Len(q) : q[i].id \in Nat BY <1>1 DEF Batch
<1>3. \A i \in 1 .. Len(q) : q[i].id = q[1].id <=> i = 1
  <2> SUFFICES ASSUME NEW i \in 1 .. Len(q), i # 1 PROVE q[i].id # q[1].id OBVIOUS
  <2>1. 1 \in DOMAIN q /\ i \in DOMAIN q /\ 1 < i BY <1>1
  <2>2. q[1].id < q[i].id BY <2>1 DEF Ascending
  <2>3. q[1].id \in Nat /\ q[i].id \in Nat BY <2>1, <1>1, <1>2
  <2> QED BY <2>2, <2>3
<1>4. (CHOOSE i \in DOMAIN q : q[i].id = q[1].id) = 1
  <2>1. 1 \in DOMAIN q BY <1>1
  <2>2. \A i \in DOMAIN q : q[i].id = q[1].id => i = 1 BY <1>1, <1>3
  <2> QED BY <2>1, <2>2
<1>5. Remove(q, q[1].id) = SubSeq(q, 1, 1 - 1) \o SubSeq(q, 1 + 1, Len(q))
  BY <1>4 DEF Remove
<1>6. SubSeq(q, 1, 1 - 1) = <<>> BY SubSeqEmpty
<1>7. SubSeq(q, 1 + 1, Len(q)) = Tail(q) BY TailIsSubSeq
<1>8. Tail(q) \in Seq(Batch) BY HeadTailProperties
<1> QED BY <1>5, <1>6, <1>7, <1>8, ConcatEmptySeq

\* The rest of an ascending queue is ascending, and the rest of a prefix a prefix
\* of the rest.
LEMMA TailOfQueue ==
    ASSUME NEW q \in Seq(Batch), Ascending(q), q # <<>>
    PROVE  /\ Tail(q) \in Seq(Batch) /\ Ascending(Tail(q)) /\ Len(Tail(q)) = Len(q) - 1
           /\ \A i \in 1 .. Len(q) - 1 : Tail(q)[i] = q[i + 1] /\ i + 1 \in 1 .. Len(q)
<1>1. /\ Tail(q) \in Seq(Batch) /\ Len(Tail(q)) = Len(q) - 1 /\ Len(q) \in Nat
      /\ \A i \in 1 .. Len(Tail(q)) : Tail(q)[i] = q[i + 1]
  BY HeadTailProperties, LenProperties
<1>2. \A i \in 1 .. Len(q) - 1 : Tail(q)[i] = q[i + 1] /\ i + 1 \in 1 .. Len(q) BY <1>1
<1>3. DOMAIN Tail(q) = 1 .. Len(q) - 1 /\ DOMAIN q = 1 .. Len(q) BY <1>1, LenProperties
<1>4. ASSUME NEW i \in DOMAIN Tail(q), NEW j \in DOMAIN Tail(q), i < j
      PROVE  Tail(q)[i].id < Tail(q)[j].id
  <2>1. i + 1 \in DOMAIN q /\ j + 1 \in DOMAIN q /\ i + 1 < j + 1 BY <1>1, <1>3, <1>4
  <2>2. q[i + 1].id < q[j + 1].id BY <2>1 DEF Ascending
  <2>3. Tail(q)[i] = q[i + 1] /\ Tail(q)[j] = q[j + 1] BY <1>2, <1>3
  <2> QED BY <2>2, <2>3
<1> QED BY <1>1, <1>2, <1>4 DEF Ascending

LEMMA TailOfPrefix ==
    ASSUME NEW p \in Seq(Batch), NEW q \in Seq(Batch), Ascending(q), IsPrefix(p, q), p # <<>>
    PROVE  /\ q # <<>> /\ Head(p) = q[1] /\ p[1] = q[1] /\ q[1] \in Batch /\ Len(p) # 0
           /\ Tail(p) \in Seq(Batch) /\ Len(Tail(p)) = Len(p) - 1
           /\ IsPrefix(Tail(p), Tail(q))
<1>1. /\ Len(p) \in Nat /\ Len(p) # 0 /\ Len(q) \in Nat
      /\ Tail(p) \in Seq(Batch) /\ Len(Tail(p)) = Len(p) - 1
      /\ \A i \in 1 .. Len(Tail(p)) : Tail(p)[i] = p[i + 1]
  BY HeadTailProperties, LenProperties, EmptySeq
<1>2. Len(p) <= Len(q) /\ \A i \in 1 .. Len(p) : p[i] = q[i] BY DEF IsPrefix
<1>3. q # <<>> /\ 1 \in 1 .. Len(p) /\ 1 \in 1 .. Len(q) BY <1>1, <1>2, EmptySeq
<1>4. Head(p) = p[1] BY <1>3
<1>5. q[1] \in Batch BY <1>3, ElementOfSeq
<1>6. /\ Len(Tail(q)) = Len(q) - 1
      /\ \A i \in 1 .. Len(q) - 1 : Tail(q)[i] = q[i + 1] /\ i + 1 \in 1 .. Len(q)
  BY <1>3, TailOfQueue
<1>7. \A i \in 1 .. Len(Tail(p)) : Tail(p)[i] = Tail(q)[i]
  <2> SUFFICES ASSUME NEW i \in 1 .. Len(Tail(p)) PROVE Tail(p)[i] = Tail(q)[i] OBVIOUS
  <2>1. i + 1 \in 1 .. Len(p) /\ i \in 1 .. Len(q) - 1 BY <1>1, <1>2
  <2> QED BY <2>1, <1>1, <1>2, <1>6
<1>8. IsPrefix(Tail(p), Tail(q)) BY <1>1, <1>2, <1>6, <1>7 DEF IsPrefix
<1> QED BY <1>1, <1>2, <1>3, <1>4, <1>5, <1>8

LEMMA AppendToQueue ==
    ASSUME NEW q \in Seq(Batch), Ascending(q), NEW b \in Batch,
           \A i \in DOMAIN q : q[i].id < b.id
    PROVE  /\ Append(q, b) \in Seq(Batch) /\ Ascending(Append(q, b))
           /\ Len(Append(q, b)) = Len(q) + 1
           /\ \A i \in 1 .. Len(q) : Append(q, b)[i] = q[i]
           /\ Append(q, b)[Len(q) + 1] = b
           /\ \A p \in Seq(Batch) : IsPrefix(p, q) => IsPrefix(p, Append(q, b))
<1>1. /\ Append(q, b) \in Seq(Batch) /\ Len(Append(q, b)) = Len(q) + 1
      /\ \A i \in 1 .. Len(q) : Append(q, b)[i] = q[i]
      /\ Append(q, b)[Len(q) + 1] = b
      /\ Len(q) \in Nat /\ DOMAIN q = 1 .. Len(q)
  BY AppendProperties, LenProperties
<1>2. DOMAIN Append(q, b) = 1 .. Len(q) + 1 BY <1>1, LenProperties
<1>3. ASSUME NEW i \in DOMAIN Append(q, b), NEW j \in DOMAIN Append(q, b), i < j
      PROVE  Append(q, b)[i].id < Append(q, b)[j].id
  <2>1. i \in 1 .. Len(q) /\ (j \in 1 .. Len(q) \/ j = Len(q) + 1) BY <1>1, <1>2, <1>3
  <2>2. CASE j \in 1 .. Len(q)
    <3>1. q[i].id < q[j].id BY <2>1, <2>2, <1>1, <1>3 DEF Ascending
    <3> QED BY <3>1, <2>1, <2>2, <1>1
  <2>3. CASE j = Len(q) + 1 BY <2>1, <2>3, <1>1
  <2> QED BY <2>1, <2>2, <2>3
<1>4. ASSUME NEW p \in Seq(Batch), IsPrefix(p, q) PROVE IsPrefix(p, Append(q, b))
  <2>1. Len(p) \in Nat /\ Len(p) <= Len(q) /\ \A i \in 1 .. Len(p) : p[i] = q[i]
    BY <1>4, LenProperties DEF IsPrefix
  <2>2. \A i \in 1 .. Len(p) : i \in 1 .. Len(q) BY <2>1, <1>1
  <2> QED BY <2>1, <2>2, <1>1 DEF IsPrefix
<1> QED BY <1>1, <1>3, <1>4 DEF Ascending

\* The intervals 1 .. n are ordered by inclusion as their upper ends are.
LEMMA LeastNatural ==
    ASSUME NEW T \in SUBSET Nat, T # {}
    PROVE  \E m \in T : \A n \in T : m <= n
<1> DEFINE intervals == {1 .. n : n \in T}
<1>1. \A n \in T : IsFiniteSet(1 .. n) BY FS_Interval
<1>2. intervals \subseteq FiniteSubsetsOf(Nat) BY <1>1 DEF FiniteSubsetsOf
<1>3. PICK x \in intervals : \A y \in intervals : ~(<<y, x>> \in StrictSubsetOrdering(Nat))
  <2>1. intervals # {} OBVIOUS
  <2>2. IsWellFoundedOn(StrictSubsetOrdering(Nat), FiniteSubsetsOf(Nat))
    BY FS_StrictSubsetOrderingWellFounded
  <2> HIDE DEF intervals
  <2> QED BY <2>1, <2>2, <1>2, WFMin
<1>4. PICK m \in T : x = 1 .. m OBVIOUS
<1>5. ASSUME NEW n \in T PROVE m <= n
  <2> SUFFICES ASSUME n < m PROVE FALSE BY <1>4
  <2>1. 1 .. n \subseteq 1 .. m /\ m \in 1 .. m /\ m \notin 1 .. n BY <1>4
  <2>2. <<1 .. n, x>> \in StrictSubsetOrdering(Nat) BY <2>1, <1>4 DEF StrictSubsetOrdering
  <2> QED BY <2>2, <1>3
<1> QED BY <1>5

\* A number above all ids bounds the largest of them.
LEMMA LargestIdBounds ==
    ASSUME \A u \in User : queue[u] \in Seq(Batch),
           NEW n \in Nat, \A u \in User : \A i \in DOMAIN queue[u] : queue[u][i].id < n
    PROVE  /\ LargestId \in Nat
           /\ \A u \in User : \A i \in DOMAIN queue[u] : queue[u][i].id <= LargestId
<1> DEFINE ids == {0} \cup UNION {{queue[u][i].id : i \in DOMAIN queue[u]} : u \in User}
           Above == {m \in Nat : \A id \in ids : id <= m}
<1>1. \A u \in User : \A i \in DOMAIN queue[u] : queue[u][i].id \in Nat
  <2> SUFFICES ASSUME NEW u \in User, NEW i \in DOMAIN queue[u]
               PROVE  queue[u][i].id \in Nat
    OBVIOUS
  <2>1. queue[u] \in Seq(Batch) OBVIOUS
  <2>2. i \in 1 .. Len(queue[u]) BY <2>1, LenProperties
  <2>3. queue[u][i] \in Batch BY <2>1, <2>2, ElementOfSeq
  <2> QED BY <2>3 DEF Batch
<1>2. \A id \in ids : id \in Nat /\ id <= n BY <1>1
<1>3. n \in Above BY <1>2
<1>4. PICK m \in Above : \A y \in Above : m <= y BY <1>3, LeastNatural
<1>5. \A y \in Above : ~(y < m) BY <1>4
<1>6. m \in Nat /\ \A id \in ids : id <= m OBVIOUS
<1>7. m \in ids
  <2> SUFFICES ASSUME m \notin ids PROVE FALSE OBVIOUS
  <2>1. 0 \in ids OBVIOUS
  <2> HIDE DEF ids
  <2>2. \A id \in ids : id < m /\ id \in Nat BY <1>2, <1>6
  <2>3. m - 1 \in Nat /\ \A id \in ids : id <= m - 1 BY <2>1, <2>2, <1>6
  <2>4. m - 1 \in Above /\ m - 1 < m BY <2>3, <1>6
  <2> QED BY <2>4, <1>5
<1>8. LargestId = CHOOSE k \in ids : \A id \in ids : id <= k BY DEF LargestId
<1>9. \A u \in User : \A i \in DOMAIN queue[u] : queue[u][i].id \in ids OBVIOUS
<1> HIDE DEF ids
<1>10. LargestId \in ids /\ \A id \in ids : id <= LargestId BY <1>6, <1>7, <1>8
<1> QED BY <1>2, <1>9, <1>10

-----------------------------------------------------------------------------
\* What FillWritePipeline makes of a pipeline in step with its queue.

\* A stream as the operations find it, for the pipeline p.
StreamFits(s, p) ==
    /\ s.handshake \/ s.idle => s.state = "Open"
    /\ IsStarted(s) /\ ~s.handshake => p # <<>>
    /\ s.idle => p = <<>>

TokenRequest(n) == [user |-> None, counter |-> token_counter, close |-> n]

\* The pipeline p, the queue q, the stream s and the call c, filled.
Fills(p, q, s, c) ==
    /\ pipeline' \in Seq(Batch) /\ IsPrefix(pipeline', q)
    /\ Len(p) <= Len(pipeline') /\ Len(pipeline') <= kMaxPendingWrites
    /\ \A i \in 1 .. Len(p) : pipeline'[i] = p[i]
    /\ ~network' => pipeline' = p
    /\ \E sent \in Seq(Response) :
          /\ call' = [c EXCEPT !.toServer = c.toServer \o sent]
          /\ s.handshake => Writes(pipeline') = Writes(p) \o sent
          /\ ~s.handshake => sent = <<>>
    /\ IsStarted(s) =>
          /\ requests' = requests
          /\ stream' \in Stream /\ stream'.state = s.state
          /\ stream'.handshake = s.handshake
          /\ stream'.idle => s.state = "Open" /\ pipeline' = <<>>
    /\ ~IsStarted(s) /\ network' /\ pipeline' # <<>> =>
          /\ stream' = [s EXCEPT !.state = IF s.state = "Error" THEN "Backoff" ELSE "Starting"]
          /\ requests' = IF s.state = "Error" THEN requests
                         ELSE requests \cup {TokenRequest(close_count')}
    /\ ~IsStarted(s) /\ ~(network' /\ pipeline' # <<>>) =>
          stream' = s /\ requests' = requests

LEMMA FillMeans ==
    ASSUME NEW p \in Seq(Batch), NEW q \in Seq(Batch), Ascending(q), IsPrefix(p, q),
           Len(p) <= kMaxPendingWrites,
           NEW s \in Stream, NEW c \in Call, StreamFits(s, p),
           FillWritePipeline(p, q, s, c)
    PROVE  Fills(p, q, s, c)
<1> DEFINE new  == IF network' THEN Filled(p, q) ELSE p
           sent == IF s.state = "Open" /\ s.handshake
                   THEN [i \in 1 .. Len(new) - Len(p) |-> new[Len(p) + i].write]
                   ELSE <<>>
<1>1. pipeline' = new /\ call' = [c EXCEPT !.toServer = c.toServer \o sent]
  BY DEF FillWritePipeline
<1>2. \/ /\ ShouldStartWriteStream(new, s)
         /\ stream' = Started(s)
         /\ IF s.state = "Error" THEN UNCHANGED requests ELSE RequestCredentials
      \/ /\ ~ShouldStartWriteStream(new, s)
         /\ stream' = [s EXCEPT !.idle = \/ s.idle /\ sent = <<>>
                                         \/ network' /\ s.state = "Open" /\ new = <<>>]
         /\ UNCHANGED requests
  BY DEF FillWritePipeline
<1>3. /\ Len(p) \in Nat /\ new \in Seq(Batch) /\ IsPrefix(new, q) /\ Len(new) \in Nat
      /\ Len(p) <= Len(new) /\ Len(new) <= kMaxPendingWrites
      /\ \A i \in 1 .. Len(p) : new[i] = p[i]
      /\ ~network' => new = p
  <2>1. CASE network' BY <2>1, FilledIsPrefix, LenProperties
  <2>2. CASE ~network' BY <2>2, LenProperties
  <2> QED BY <2>1, <2>2
<1> HIDE DEF new
<1>4. /\ s.handshake \in BOOLEAN /\ s.idle \in BOOLEAN
      /\ s = [state |-> s.state, handshake |-> s.handshake, idle |-> s.idle]
      /\ s.handshake \/ s.idle => s.state = "Open" /\ IsStarted(s)
      /\ s.state = "Open" => IsStarted(s)
      /\ s.state \in {"Initial", "Starting", "Open", "Error", "Backoff"}
      /\ IsStarted(s) /\ ~s.handshake => p # <<>>
      /\ s.idle => p = <<>>
  BY DEF Stream, StreamFits, IsStarted
<1>5. sent \in Seq(Response)
  <2>1. \A i \in 1 .. Len(new) - Len(p) : Len(p) + i \in 1 .. Len(new) BY <1>3
  <2>2. \A i \in 1 .. Len(new) : new[i].write \in Response
    BY <1>3, WritesOfBatches, WritesAssumption DEF Write, Response
  <2>3. \A i \in 1 .. Len(new) - Len(p) : new[Len(p) + i].write \in Response
    BY <2>1, <2>2
  <2>4. [i \in 1 .. Len(new) - Len(p) |-> new[Len(p) + i].write]
           \in [1 .. Len(new) - Len(p) -> Response]
    BY <2>3
  <2>5. Len(new) - Len(p) \in Nat BY <1>3
  <2> DEFINE n    == Len(new) - Len(p)
             rest == [i \in 1 .. Len(new) - Len(p) |-> new[Len(p) + i].write]
  <2>6. n \in Nat /\ rest \in [1 .. n -> Response] BY <2>4, <2>5
  <2> HIDE DEF n, rest
  <2>7. rest \in Seq(Response) BY <2>6
  <2>8. sent = rest \/ sent = <<>> BY DEF rest
  <2> HIDE DEF sent
  <2> QED BY <2>7, <2>8, EmptySeq
<1>6. ~s.handshake => sent = <<>> OBVIOUS
<1>7. s.handshake =>
        /\ Writes(new) = Writes(p) \o sent
        /\ sent = <<>> => new = p
  <2> SUFFICES ASSUME s.handshake PROVE Writes(new) = Writes(p) \o sent
                                        /\ (sent = <<>> => new = p)
    OBVIOUS
  <2>1. sent = [i \in 1 .. Len(new) - Len(p) |-> new[Len(p) + i].write] BY <1>4
  <2>2. Len(new) - Len(p) \in Nat BY <1>3
  <2> HIDE DEF sent
  <2>3. Len(sent) = Len(new) - Len(p) BY <2>1, <2>2
  <2>4. /\ Writes(new) \in Seq(Response) /\ Writes(p) \in Seq(Response)
        /\ Len(Writes(new)) = Len(new) /\ Len(Writes(p)) = Len(p)
        /\ \A i \in 1 .. Len(new) : Writes(new)[i] = new[i].write
        /\ \A i \in 1 .. Len(p) : Writes(p)[i] = p[i].write
    BY <1>3, WritesOfBatches
  <2>5. /\ Writes(p) \o sent \in Seq(Response)
        /\ Len(Writes(p) \o sent) = Len(Writes(p)) + Len(sent)
        /\ \A i \in 1 .. Len(Writes(p)) + Len(sent) : (Writes(p) \o sent)[i] =
              IF i <= Len(Writes(p)) THEN Writes(p)[i] ELSE sent[i - Len(Writes(p))]
    <3>1. Writes(p) \in Seq(Response) /\ sent \in Seq(Response) BY <2>4, <1>5
    <3> QED BY <3>1, ConcatProperties
  <2>6. Len(Writes(p) \o sent) = Len(new) BY <2>3, <2>4, <2>5, <1>3
  <2>7. ASSUME NEW i \in 1 .. Len(new) PROVE (Writes(p) \o sent)[i] = Writes(new)[i]
    <3>1. i \in Nat /\ i \in 1 .. Len(Writes(p)) + Len(sent) BY <2>3, <2>4, <1>3
    <3>2. CASE i <= Len(p)
      <4>1. i \in 1 .. Len(p) /\ new[i] = p[i] BY <3>1, <3>2, <1>3
      <4> QED BY <4>1, <3>1, <3>2, <2>4, <2>5
    <3>3. CASE ~(i <= Len(p))
      <4>1. i - Len(p) \in 1 .. Len(new) - Len(p) /\ Len(p) + (i - Len(p)) = i
        BY <3>1, <3>3, <1>3
      <4>2. sent[i - Len(p)] = new[i].write BY <4>1, <2>1
      <4>3. (Writes(p) \o sent)[i] = sent[i - Len(p)] BY <3>1, <3>3, <2>4, <2>5
      <4> QED BY <4>2, <4>3, <2>4
    <3> QED BY <3>2, <3>3
  <2>8. Writes(p) \o sent = Writes(new)
    BY <2>4, <2>5, <2>6, <2>7, SeqEqual
  <2>9. ASSUME sent = <<>> PROVE new = p
    <3>1. Len(new) = Len(p) BY <2>3, <2>9, <1>3, EmptySeq
    <3> QED BY <3>1, <1>3, SeqEqual
  <2> QED BY <2>8, <2>9
<1> HIDE DEF sent
<1>8. ASSUME IsStarted(s)
      PROVE  /\ requests' = requests
             /\ stream' \in Stream /\ stream'.state = s.state
             /\ stream'.handshake = s.handshake
             /\ stream'.idle => s.state = "Open" /\ new = <<>>
  <2>1. /\ UNCHANGED requests
        /\ stream' = [s EXCEPT !.idle = \/ s.idle /\ sent = <<>>
                                        \/ network' /\ s.state = "Open" /\ new = <<>>]
    BY <1>2, <1>8 DEF ShouldStartWriteStream
  <2>2. /\ stream' \in Stream /\ stream'.state = s.state
        /\ stream'.handshake = s.handshake
    <3>1. ((s.idle /\ sent = <<>>) \/ (network' /\ s.state = "Open" /\ new = <<>>)) \in BOOLEAN
      OBVIOUS
    <3> QED BY <2>1, <3>1 DEF Stream
  <2>3. stream'.idle <=> \/ s.idle /\ sent = <<>>
                         \/ network' /\ s.state = "Open" /\ new = <<>>
    BY <2>1 DEF Stream
  <2>4. s.idle /\ sent = <<>> => new = <<>>
    <3>1. s.idle => s.state = "Open" /\ p = <<>> BY <1>4
    <3>2. s.idle => s.handshake BY <3>1, <1>4, <1>8
    <3> QED BY <3>1, <3>2, <1>7
  <2> QED BY <2>1, <2>2, <2>3, <2>4, <1>4
<1>9. ASSUME ~IsStarted(s), network', new # <<>>
      PROVE  /\ stream' = [s EXCEPT !.state = IF s.state = "Error" THEN "Backoff"
                                                                  ELSE "Starting"]
             /\ requests' = IF s.state = "Error" THEN requests
                            ELSE requests \cup {TokenRequest(close_count')}
  <2>1. ShouldStartWriteStream(new, s) BY <1>9 DEF ShouldStartWriteStream
  <2>2. /\ stream' = Started(s)
        /\ IF s.state = "Error" THEN UNCHANGED requests ELSE RequestCredentials
    BY <2>1, <1>2
  <2> QED BY <2>2 DEF Started, RequestCredentials, TokenRequest
<1>10. ASSUME ~IsStarted(s), ~(network' /\ new # <<>>)
       PROVE  stream' = s /\ requests' = requests
  <2>1. ~ShouldStartWriteStream(new, s) BY <1>10 DEF ShouldStartWriteStream
  <2>2. /\ UNCHANGED requests
        /\ stream' = [s EXCEPT !.idle = \/ s.idle /\ sent = <<>>
                                        \/ network' /\ s.state = "Open" /\ new = <<>>]
    BY <2>1, <1>2
  <2>3. s.state # "Open" /\ s.idle = FALSE BY <1>4, <1>10
  <2>4. stream' = [s EXCEPT !.idle = FALSE] BY <2>2, <2>3
  <2>5. [s EXCEPT !.idle = FALSE] = s BY <2>3, <1>4
  <2> QED BY <2>2, <2>4, <2>5
<1> QED BY <1>1, <1>3, <1>5, <1>6, <1>7, <1>8, <1>9, <1>10 DEF Fills

LEMMA FillsTyped ==
    ASSUME NEW p, NEW q, NEW s \in Stream, NEW c \in Call, Fills(p, q, s, c),
           requests \subseteq Request, token_counter \in Nat, close_count' \in Nat
    PROVE  /\ pipeline' \in Seq(Batch) /\ stream' \in Stream /\ call' \in Call
           /\ requests' \subseteq Request
<1>1. pipeline' \in Seq(Batch) BY DEF Fills
<1>2. call' \in Call
  <2>1. PICK sent \in Seq(Response) : call' = [c EXCEPT !.toServer = c.toServer \o sent]
    BY DEF Fills
  <2>2. c.toServer \in Seq(Response) BY DEF Call
  <2>3. c.toServer \o sent \in Seq(Response) BY <2>2, ConcatProperties
  <2> QED BY <2>1, <2>3 DEF Call
<1>3. TokenRequest(close_count') \in Request BY DEF TokenRequest, Request
<1>4. [s EXCEPT !.state = IF s.state = "Error" THEN "Backoff" ELSE "Starting"] \in Stream
  BY DEF Stream
<1>5. stream' \in Stream
  <2>1. CASE IsStarted(s) BY <2>1 DEF Fills
  <2>2. CASE ~IsStarted(s) BY <2>2, <1>4 DEF Fills
  <2> QED BY <2>1, <2>2
<1>6. requests' \subseteq Request
  <2>1. requests' = requests \/ requests' = requests \cup {TokenRequest(close_count')}
    BY DEF Fills
  <2> QED BY <2>1, <1>3
<1> QED BY <1>1, <1>2, <1>5, <1>6

-----------------------------------------------------------------------------
\* The inductive invariant.

QueuesInOrder ==
    \A u \in User :
        /\ Ascending(queue[u])
        /\ \A i \in DOMAIN queue[u] : queue[u][i].id < next_batch_id

\* An open stream has a call, for a user, and another has none.
CallFits(s, c) ==
    /\ s.state = "Open" => c.status # "none"
    /\ c.status = "ok" => c.user \in User
    /\ s.state # "Open" => c = NoCall

StreamInStep ==
    /\ IsStarted(stream) => network
    /\ StreamFits(stream, pipeline) /\ CallFits(stream, call)

\* A process that has ended has left nothing under way.
ProcessGone ==
    ~running => /\ stream = Idle /\ ~network /\ pipeline = <<>>
                /\ requests = {} /\ main = <<>> /\ worker = <<>>

Read(r) == [type |-> "read", response |-> r]

\* A read completes before the failure that it does not meet, and nothing is left
\* to read when the call is finished.
DoneInOrder(c) ==
    \/ c.done = <<>>
    \/ \E r \in Response : c.done = <<Read(r)>>
    \/ /\ c.status \in {"refused", "broken"}
       /\ \/ c.done = <<[type |-> "failed"]>>
          \/ \E r \in Response : c.done = <<Read(r), [type |-> "failed"]>>
          \/ /\ c.done = <<[type |-> "finished"]>>
             /\ c.toClient = <<>>

CallInOrder == DoneInOrder(call)

\* The token requests and answers of the stream as it is, when n streams have
\* been closed.
Asked(R, n) == {r \in R : r.close = n}

Live(s, n) == {i \in DOMAIN s : s[i].type # "user" /\ s[i].close = n}

AtMostOne(S) == \A x, y \in S : x = y

Upto(s, n) == \A i \in DOMAIN s : s[i].close <= n

\* There is one at most, and only for a stream that is starting; none is of a
\* stream yet to come.
TokensFit(R, m, w, n, state) ==
    /\ \A r \in R : r.close <= n
    /\ Upto(m, n) /\ Upto(w, n)
    /\ state # "Starting" => Asked(R, n) = {} /\ Live(m, n) = {} /\ Live(w, n) = {}
    /\ AtMostOne(Asked(R, n)) /\ AtMostOne(Live(m, n)) /\ AtMostOne(Live(w, n))
    /\ Asked(R, n) # {} => Live(m, n) = {} /\ Live(w, n) = {}
    /\ Live(m, n) # {} => Live(w, n) = {}

TokensInStep == TokensFit(requests, main, worker, close_count, stream.state)

IInv ==
    /\ TypeOK /\ QueuesInOrder /\ StreamInStep /\ ProcessGone /\ CallInOrder
    /\ PipelineInStep /\ TokensInStep

-----------------------------------------------------------------------------
\* The queues, and what each operation fills.

LEMMA PipelineIsPrefix ==
    ASSUME TypeOK, PipelineInStep
    PROVE  /\ IsPrefix(pipeline, queue[current_user]) /\ Len(pipeline) <= kMaxPendingWrites
           /\ pipeline \in Seq(Batch) /\ queue[current_user] \in Seq(Batch)
           /\ Len(pipeline) \in Nat /\ Len(queue[current_user]) \in Nat
<1> DEFINE q == queue[current_user]
<1>1. pipeline \in Seq(Batch) /\ q \in Seq(Batch) BY DEF TypeOK
<1>2. Len(pipeline) \in Nat /\ Len(q) \in Nat /\ \A i \in 1 .. Len(q) : q[i] \in Batch
  BY <1>1, LenProperties, ElementOfSeq
<1>3. /\ Len(pipeline) <= kMaxPendingWrites /\ Len(pipeline) <= Len(q)
      /\ pipeline = SubSeq(q, 1, Len(pipeline))
  BY DEF PipelineInStep
<1> HIDE DEF q
<1>4. \A i \in 1 .. Len(pipeline) : pipeline[i] = q[i]
  <2>1. \A i \in 1 .. Len(pipeline) : q[i] \in Batch BY <1>2, <1>3
  <2>2. \A i \in 1 .. Len(pipeline) - 1 + 1 : SubSeq(q, 1, Len(pipeline))[i] = q[1 + i - 1]
    BY <2>1, <1>2, SubSeqProperties
  <2>3. \A i \in 1 .. Len(pipeline) : i \in 1 .. Len(pipeline) - 1 + 1 /\ 1 + i - 1 = i
    BY <1>2
  <2> QED BY <2>2, <2>3, <1>3
<1>5. IsPrefix(pipeline, q) BY <1>3, <1>4 DEF IsPrefix
<1> QED BY <1>1, <1>2, <1>3, <1>5 DEF q

LEMMA PrefixIsSubSeq ==
    ASSUME NEW p \in Seq(Batch), NEW q \in Seq(Batch), IsPrefix(p, q)
    PROVE  Len(p) <= Len(q) /\ p = SubSeq(q, 1, Len(p))
<1>1. /\ Len(p) \in Nat /\ Len(q) \in Nat /\ Len(p) <= Len(q)
      /\ \A i \in 1 .. Len(p) : p[i] = q[i]
      /\ \A i \in 1 .. Len(q) : q[i] \in Batch
  BY LenProperties, ElementOfSeq DEF IsPrefix
<1>2. \A i \in 1 .. Len(p) : q[i] \in Batch BY <1>1
<1>3. /\ SubSeq(q, 1, Len(p)) \in Seq(Batch)
      /\ Len(SubSeq(q, 1, Len(p))) = IF 1 <= Len(p) THEN Len(p) - 1 + 1 ELSE 0
      /\ \A i \in 1 .. Len(p) - 1 + 1 : SubSeq(q, 1, Len(p))[i] = q[1 + i - 1]
  BY <1>1, <1>2, SubSeqProperties
<1>4. Len(SubSeq(q, 1, Len(p))) = Len(p) BY <1>1, <1>3
<1>5. \A i \in 1 .. Len(p) : p[i] = SubSeq(q, 1, Len(p))[i]
  <2>1. \A i \in 1 .. Len(p) : i \in 1 .. Len(p) - 1 + 1 /\ 1 + i - 1 = i BY <1>1
  <2> QED BY <2>1, <1>1, <1>3
<1>6. p = SubSeq(q, 1, Len(p)) BY <1>3, <1>4, <1>5, SeqEqual
<1> QED BY <1>1, <1>6

\* The batch at the front of the pipeline is the first of its queue.
LEMMA FrontRemoved ==
    ASSUME TypeOK, QueuesInOrder, PipelineInStep, pipeline # <<>>,
           RemoveFromQueue(Head(pipeline).id)
    PROVE  /\ queue' = [queue EXCEPT ![current_user] = Tail(queue[current_user])]
           /\ queue'[current_user] = Remove(queue[current_user], Head(pipeline).id)
           /\ queue' \in [User -> Seq(Batch)]
           /\ \A u \in User :
                 /\ Ascending(queue'[u])
                 /\ \A i \in DOMAIN queue'[u] : queue'[u][i].id < next_batch_id
           /\ IsPrefix(Tail(pipeline), queue'[current_user])
           /\ Tail(pipeline) \in Seq(Batch) /\ Len(Tail(pipeline)) = Len(pipeline) - 1
           /\ Head(pipeline) = queue[current_user][1] /\ Head(pipeline) = pipeline[1]
           /\ Head(pipeline) \in Batch /\ queue[current_user] # <<>>
<1> DEFINE q == queue[current_user]
<1>1. /\ IsPrefix(pipeline, q) /\ pipeline \in Seq(Batch) /\ q \in Seq(Batch)
      /\ current_user \in User /\ queue \in [User -> Seq(Batch)]
  BY PipelineIsPrefix DEF TypeOK
<1>2. Ascending(q) /\ \A i \in DOMAIN q : q[i].id < next_batch_id
  BY <1>1 DEF QueuesInOrder
<1> HIDE DEF q
<1>3. /\ q # <<>> /\ Head(pipeline) = q[1] /\ pipeline[1] = q[1] /\ q[1] \in Batch
      /\ Tail(pipeline) \in Seq(Batch) /\ Len(Tail(pipeline)) = Len(pipeline) - 1
      /\ IsPrefix(Tail(pipeline), Tail(q))
  BY <1>1, <1>2, TailOfPrefix
<1>4. Remove(q, Head(pipeline).id) = Tail(q) BY <1>1, <1>2, <1>3, RemoveFirst
<1>5. queue' = [queue EXCEPT ![current_user] = Tail(q)]
  BY <1>4 DEF RemoveFromQueue, q
<1>6. /\ Tail(q) \in Seq(Batch) /\ Ascending(Tail(q)) /\ Len(Tail(q)) = Len(q) - 1
      /\ \A i \in 1 .. Len(q) - 1 : Tail(q)[i] = q[i + 1] /\ i + 1 \in 1 .. Len(q)
  BY <1>1, <1>2, <1>3, TailOfQueue
<1>7. queue'[current_user] = Tail(q) /\ queue' \in [User -> Seq(Batch)]
      /\ \A u \in User : u # current_user => queue'[u] = queue[u]
  BY <1>1, <1>5, <1>6
<1>8. \A i \in DOMAIN Tail(q) : Tail(q)[i].id < next_batch_id
  <2>1. DOMAIN Tail(q) = 1 .. Len(q) - 1 /\ DOMAIN q = 1 .. Len(q)
    BY <1>1, <1>6, LenProperties
  <2> QED BY <2>1, <1>2, <1>6
<1>9. \A u \in User : Ascending(queue'[u])
                      /\ \A i \in DOMAIN queue'[u] : queue'[u][i].id < next_batch_id
  <2> TAKE u \in User
  <2>1. CASE u = current_user BY <2>1, <1>6, <1>7, <1>8
  <2>2. CASE u # current_user BY <2>2, <1>7 DEF QueuesInOrder
  <2> QED BY <2>1, <2>2
<1> QED BY <1>3, <1>4, <1>5, <1>7, <1>9 DEF q

LEMMA BatchAppended ==
    ASSUME TypeOK, QueuesInOrder, NEW w \in Write, WriteMutations(w)
    PROVE  LET b == [id |-> next_batch_id, write |-> w] IN
           /\ b \in Batch
           /\ queue' = [queue EXCEPT ![current_user] = Append(queue[current_user], b)]
           /\ queue'[current_user] = Append(queue[current_user], b)
           /\ queue' \in [User -> Seq(Batch)] /\ next_batch_id' \in Nat \ {0}
           /\ QueuesInOrder'
           /\ \A p \in Seq(Batch) : IsPrefix(p, queue[current_user]) =>
                                        IsPrefix(p, queue'[current_user])
<1> DEFINE b == [id |-> next_batch_id, write |-> w]
           q == queue[current_user]
<1>1. /\ b \in Batch /\ b.id = next_batch_id /\ next_batch_id \in Nat \ {0}
      /\ current_user \in User /\ queue \in [User -> Seq(Batch)] /\ q \in Seq(Batch)
      /\ next_batch_id' = next_batch_id + 1
      /\ queue' = [queue EXCEPT ![current_user] = Append(q, b)]
  BY DEF TypeOK, Batch, WriteMutations
<1>2. Ascending(q) /\ \A i \in DOMAIN q : q[i].id < b.id BY <1>1 DEF QueuesInOrder
<1> HIDE DEF b, q
<1>3. /\ Append(q, b) \in Seq(Batch) /\ Ascending(Append(q, b))
      /\ Len(Append(q, b)) = Len(q) + 1
      /\ \A i \in 1 .. Len(q) : Append(q, b)[i] = q[i]
      /\ Append(q, b)[Len(q) + 1] = b
      /\ \A p \in Seq(Batch) : IsPrefix(p, q) => IsPrefix(p, Append(q, b))
  BY <1>1, <1>2, AppendToQueue
<1>4. /\ queue'[current_user] = Append(q, b) /\ queue' \in [User -> Seq(Batch)]
      /\ \A u \in User : u # current_user => queue'[u] = queue[u]
  BY <1>1, <1>3
<1>5. QueuesInOrder'
  <2> SUFFICES ASSUME NEW u \in User
               PROVE  Ascending(queue'[u])
                      /\ \A i \in DOMAIN queue'[u] : queue'[u][i].id < next_batch_id'
    BY DEF QueuesInOrder, Ascending
  <2>1. CASE u = current_user
    <3>1. DOMAIN Append(q, b) = 1 .. Len(q) + 1 /\ DOMAIN q = 1 .. Len(q) /\ Len(q) \in Nat
      BY <1>1, <1>3, LenProperties
    <3>2. ASSUME NEW i \in DOMAIN Append(q, b) PROVE Append(q, b)[i].id < next_batch_id'
      <4>1. CASE i \in 1 .. Len(q)
        <5>1. q[i].id < next_batch_id /\ q[i] \in Batch BY <4>1, <3>1, <1>1, <1>2, ElementOfSeq
        <5>2. q[i].id \in Nat BY <5>1 DEF Batch
        <5> QED BY <4>1, <5>1, <5>2, <1>1, <1>3
      <4>2. CASE i = Len(q) + 1 BY <4>2, <1>1, <1>3
      <4> QED BY <4>1, <4>2, <3>1
    <3> QED BY <2>1, <3>2, <1>3, <1>4
  <2>2. CASE u # current_user
    <3>1. queue'[u] = queue[u] /\ queue[u] \in Seq(Batch) BY <2>2, <1>1, <1>4
    <3>2. \A i \in DOMAIN queue[u] : queue[u][i].id \in Nat
      <4> TAKE i \in DOMAIN queue[u]
      <4>1. i \in 1 .. Len(queue[u]) BY <3>1, LenProperties
      <4>2. queue[u][i] \in Batch BY <3>1, <4>1, ElementOfSeq
      <4> QED BY <4>2 DEF Batch
    <3>3. Ascending(queue[u]) /\ \A i \in DOMAIN queue[u] : queue[u][i].id < next_batch_id
      BY DEF QueuesInOrder
    <3> QED BY <3>1, <3>2, <3>3, <1>1
  <2> QED BY <2>1, <2>2
<1>6. next_batch_id' \in Nat \ {0} BY <1>1
<1> QED BY <1>1, <1>3, <1>4, <1>5, <1>6 DEF b, q

LEMMA NextBatchIdBounds ==
    ASSUME TypeOK, QueuesInOrder
    PROVE  /\ LoadNextBatchIdFromDb \in Nat \ {0}
           /\ \A u \in User : \A i \in DOMAIN queue[u] : queue[u][i].id < LoadNextBatchIdFromDb
<1>1. /\ next_batch_id \in Nat /\ \A u \in User : queue[u] \in Seq(Batch)
      /\ \A u \in User : \A i \in DOMAIN queue[u] : queue[u][i].id < next_batch_id
  BY DEF TypeOK, QueuesInOrder
<1>2. /\ LargestId \in Nat
      /\ \A u \in User : \A i \in DOMAIN queue[u] : queue[u][i].id <= LargestId
  BY <1>1, LargestIdBounds
<1>3. ASSUME NEW u \in User, NEW i \in DOMAIN queue[u]
      PROVE  queue[u][i].id < LargestId + 1
  <2>1. queue[u] \in Seq(Batch) /\ i \in 1 .. Len(queue[u]) BY <1>1, LenProperties
  <2>2. queue[u][i] \in Batch BY <2>1, ElementOfSeq
  <2>3. queue[u][i].id \in Nat BY <2>2 DEF Batch
  <2> QED BY <2>3, <1>2
<1> QED BY <1>2, <1>3 DEF LoadNextBatchIdFromDb

LEMMA IdleFits ==
    /\ Idle \in Stream /\ NoCall \in Call /\ ~IsStarted(Idle)
    /\ \A p : StreamFits(Idle, p)
    /\ Idle.state = "Initial" /\ Idle.handshake = FALSE /\ Idle.idle = FALSE
<1>1. <<>> \in Seq(Response) BY EmptySeq
<1>2. <<>> \in Seq([type : {"read"}, response : Response] \cup [type : {"failed", "finished"}])
  BY EmptySeq
<1> QED BY <1>1, <1>2 DEF Idle, Stream, NoCall, Call, IsStarted, StreamFits

LEMMA WriteMutationsFills ==
    ASSUME IInv, NEW w \in Write, WriteMutations(w)
    PROVE  /\ Fills(pipeline, queue'[current_user'], stream, call)
           /\ current_user' = current_user /\ network' = network /\ close_count' = close_count
<1>1. /\ queue'[current_user] = Append(queue[current_user], [id |-> next_batch_id, write |-> w])
      /\ queue' \in [User -> Seq(Batch)] /\ QueuesInOrder'
      /\ \A p \in Seq(Batch) : IsPrefix(p, queue[current_user]) =>
                                   IsPrefix(p, queue'[current_user])
  BY BatchAppended DEF IInv
<1>2. /\ current_user' = current_user /\ network' = network /\ close_count' = close_count
      /\ FillWritePipeline(pipeline, queue'[current_user], stream, call)
  BY <1>1 DEF WriteMutations
<1>3. /\ pipeline \in Seq(Batch) /\ IsPrefix(pipeline, queue'[current_user])
      /\ Len(pipeline) <= kMaxPendingWrites
  BY <1>1, PipelineIsPrefix DEF IInv
<1>4. current_user \in User /\ stream \in Stream /\ call \in Call BY DEF IInv, TypeOK
<1>5. queue'[current_user] \in Seq(Batch) /\ Ascending(queue'[current_user])
  BY <1>1, <1>4 DEF QueuesInOrder, Ascending
<1>6. StreamFits(stream, pipeline) BY DEF IInv, StreamInStep
<1>7. Fills(pipeline, queue'[current_user], stream, call)
  BY <1>2, <1>3, <1>4, <1>5, <1>6, FillMeans
<1> QED BY <1>2, <1>7

LEMMA EnableNetworkFills ==
    ASSUME IInv, EnableNetwork
    PROVE  /\ Fills(pipeline, queue'[current_user'], stream, call)
           /\ current_user' = current_user /\ network' = TRUE /\ close_count' = close_count
           /\ queue' = queue
<1>1. /\ current_user' = current_user /\ network' = TRUE /\ close_count' = close_count
      /\ queue' = queue
      /\ FillWritePipeline(pipeline, queue[current_user], stream, call)
  BY DEF EnableNetwork, store
<1>2. /\ pipeline \in Seq(Batch) /\ IsPrefix(pipeline, queue[current_user])
      /\ Len(pipeline) <= kMaxPendingWrites /\ queue[current_user] \in Seq(Batch)
  BY PipelineIsPrefix DEF IInv
<1>3. current_user \in User /\ stream \in Stream /\ call \in Call BY DEF IInv, TypeOK
<1>4. Ascending(queue[current_user]) BY <1>3 DEF IInv, QueuesInOrder
<1>5. StreamFits(stream, pipeline) BY DEF IInv, StreamInStep
<1>6. Fills(pipeline, queue[current_user], stream, call)
  BY <1>1, <1>2, <1>3, <1>4, <1>5, FillMeans
<1> QED BY <1>1, <1>6

LEMMA MutationResultFills ==
    ASSUME IInv, OnWriteStreamMutationResult
    PROVE  /\ Fills(Tail(pipeline), queue'[current_user'], stream,
                    [call EXCEPT !.done = Tail(call.done)])
           /\ current_user' = current_user /\ network' = network /\ close_count' = close_count
           /\ pipeline # <<>> /\ stream.handshake /\ stream.state = "Open"
           /\ [call EXCEPT !.done = Tail(call.done)] \in Call
           /\ RemoveFromQueue(Head(pipeline).id)
<1>1. /\ current_user' = current_user /\ network' = network /\ close_count' = close_count
      /\ pipeline # <<>> /\ stream.handshake /\ call.done # <<>>
      /\ RemoveFromQueue(Head(pipeline).id)
      /\ FillWritePipeline(Tail(pipeline), Remove(queue[current_user], Head(pipeline).id),
                           stream, [call EXCEPT !.done = Tail(call.done)])
  BY DEF OnWriteStreamMutationResult
<1>2. TypeOK /\ QueuesInOrder /\ PipelineInStep /\ StreamFits(stream, pipeline)
  BY DEF IInv, StreamInStep
<1>3. /\ queue'[current_user] = Remove(queue[current_user], Head(pipeline).id)
      /\ queue' \in [User -> Seq(Batch)]
      /\ \A u \in User : Ascending(queue'[u])
      /\ IsPrefix(Tail(pipeline), queue'[current_user])
      /\ Tail(pipeline) \in Seq(Batch) /\ Len(Tail(pipeline)) = Len(pipeline) - 1
  BY <1>1, <1>2, FrontRemoved
<1>4. current_user \in User /\ stream \in Stream /\ call \in Call BY <1>2 DEF TypeOK
<1>5. Len(Tail(pipeline)) <= kMaxPendingWrites
  BY <1>2, <1>3, PipelineIsPrefix, WritesAssumption
<1>6. StreamFits(stream, Tail(pipeline)) BY <1>1, <1>2 DEF StreamFits
<1>7. [call EXCEPT !.done = Tail(call.done)] \in Call
  <2>1. call.done \in Seq([type : {"read"}, response : Response]
                             \cup [type : {"failed", "finished"}])
    BY <1>4 DEF Call
  <2>2. Tail(call.done) \in Seq([type : {"read"}, response : Response]
                             \cup [type : {"failed", "finished"}])
    BY <2>1, <1>1, HeadTailProperties
  <2> QED BY <2>2, <1>4 DEF Call
<1>8. queue'[current_user] \in Seq(Batch) /\ Ascending(queue'[current_user]) BY <1>3, <1>4
<1>9. FillWritePipeline(Tail(pipeline), queue'[current_user], stream,
                        [call EXCEPT !.done = Tail(call.done)])
  BY <1>1, <1>3
<1>10. Fills(Tail(pipeline), queue'[current_user], stream,
             [call EXCEPT !.done = Tail(call.done)])
  BY <1>3, <1>4, <1>5, <1>6, <1>7, <1>8, <1>9, FillMeans
<1>11. stream.state = "Open" BY <1>1, <1>2 DEF StreamFits
<1> QED BY <1>1, <1>7, <1>10, <1>11

LEMMA WriteErrorFills ==
    ASSUME IInv, HandleWriteError, pipeline # <<>>, current_user' = current_user
    PROVE  /\ Fills(Tail(pipeline), queue'[current_user'], Idle, NoCall)
           /\ RemoveFromQueue(Head(pipeline).id)
<1>1. /\ RemoveFromQueue(Head(pipeline).id)
      /\ FillWritePipeline(Tail(pipeline), Remove(queue[current_user], Head(pipeline).id),
                           Idle, NoCall)
  BY DEF HandleWriteError
<1>2. TypeOK /\ QueuesInOrder /\ PipelineInStep BY DEF IInv
<1>3. /\ queue'[current_user] = Remove(queue[current_user], Head(pipeline).id)
      /\ queue' \in [User -> Seq(Batch)]
      /\ \A u \in User : Ascending(queue'[u])
      /\ IsPrefix(Tail(pipeline), queue'[current_user])
      /\ Tail(pipeline) \in Seq(Batch) /\ Len(Tail(pipeline)) = Len(pipeline) - 1
  BY <1>1, <1>2, FrontRemoved
<1>4. current_user \in User BY <1>2 DEF TypeOK
<1>5. Len(Tail(pipeline)) <= kMaxPendingWrites
  BY <1>2, <1>3, PipelineIsPrefix, WritesAssumption
<1>6. queue'[current_user] \in Seq(Batch) /\ Ascending(queue'[current_user]) BY <1>3, <1>4
<1>7. Fills(Tail(pipeline), queue'[current_user], Idle, NoCall)
  BY <1>1, <1>3, <1>5, <1>6, IdleFits, FillMeans
<1> QED BY <1>1, <1>7

\* A restart, and the start of the process, fill an empty pipeline.
LEMMA RestartFills ==
    ASSUME IInv, NEW u \in User, FillWritePipeline(<<>>, queue[u], Idle, NoCall)
    PROVE  Fills(<<>>, queue[u], Idle, NoCall)
<1>1. queue[u] \in Seq(Batch) /\ Ascending(queue[u]) BY DEF IInv, TypeOK, QueuesInOrder
<1>2. <<>> \in Seq(Batch) /\ Len(<<>>) = 0 BY EmptySeq
<1>3. Len(queue[u]) \in Nat BY <1>1, LenProperties
<1>4. IsPrefix(<<>>, queue[u]) BY <1>2, <1>3 DEF IsPrefix
<1>5. Len(<<>>) <= kMaxPendingWrites BY <1>2, WritesAssumption
<1>6. Idle \in Stream /\ NoCall \in Call /\ StreamFits(Idle, <<>>) BY IdleFits
<1> QED BY <1>1, <1>2, <1>4, <1>5, <1>6, FillMeans

-----------------------------------------------------------------------------
\* The types.

RemoteTypes ==
    /\ pipeline \in Seq(Batch) /\ stream \in Stream /\ call \in Call
    /\ requests \subseteq Request

LEMMA MessagesMoved ==
    ASSUME NEW s \in Seq(Message)
    PROVE  /\ \A m \in Message : Append(s, m) \in Seq(Message)
           /\ s # <<>> => Head(s) \in Message /\ Tail(s) \in Seq(Message)
BY AppendProperties, HeadTailProperties

LEMMA CallTypes ==
    ASSUME call \in Call
    PROVE  /\ call.user \in User \cup {None} /\ call.status \in {"none", "ok", "refused", "broken"}
           /\ call.toServer \in Seq(Response) /\ call.toClient \in Seq(Response)
           /\ call.done \in Seq([type : {"read"}, response : Response]
                                   \cup [type : {"failed", "finished"}])
BY DEF Call

LEMMA NotifyUserTypes ==
    ASSUME TypeOK, NEW id, NEW outcome \in {"ok", "rejected"}, NotifyUser(id, outcome)
    PROVE  /\ told' \in [Write -> {"none", "ok", "rejected"}]
           /\ callbacks' \in [User -> SUBSET Batch]
<1>1. told \in [Write -> {"none", "ok", "rejected"}] /\ callbacks \in [User -> SUBSET Batch]
      /\ current_user \in User
  BY DEF TypeOK
<1> QED BY <1>1 DEF NotifyUser

LEMMA FinishTypes ==
    ASSUME IInv, NEW status, OnStreamFinish(status)
    PROVE  /\ RemoteTypes' /\ close_count' \in Nat /\ queue' \in [User -> Seq(Batch)]
           /\ callbacks' \in [User -> SUBSET Batch]
           /\ told' \in [Write -> {"none", "ok", "rejected"}]
           /\ waits' \subseteq waits
<1>1. /\ close_count' = close_count + 1 /\ current_user' = current_user /\ network' = network
      /\ WriteFailed(status) => HandleWriteError
      /\ ~WriteFailed(status) =>
            /\ call' = NoCall
            /\ stream' = IF ShouldStartWriteStream(pipeline, [Idle EXCEPT !.state = "Error"])
                         THEN Started([Idle EXCEPT !.state = "Error"])
                         ELSE [Idle EXCEPT !.state = "Error"]
            /\ UNCHANGED <<pipeline, requests, queue, callbacks, waits, told>>
  BY DEF OnStreamFinish
<1>2. TypeOK /\ QueuesInOrder /\ PipelineInStep BY DEF IInv
<1>3. /\ close_count \in Nat /\ close_count' \in Nat /\ requests \subseteq Request
      /\ token_counter \in Nat /\ pipeline \in Seq(Batch)
      /\ queue \in [User -> Seq(Batch)] /\ callbacks \in [User -> SUBSET Batch]
      /\ told \in [Write -> {"none", "ok", "rejected"}]
  BY <1>1, <1>2 DEF TypeOK
<1>4. CASE WriteFailed(status)
  <2>1. HandleWriteError /\ pipeline # <<>> BY <1>1, <1>4 DEF WriteFailed
  <2>2. Fills(Tail(pipeline), queue'[current_user'], Idle, NoCall)
        /\ RemoveFromQueue(Head(pipeline).id)
    BY <2>1, <1>1, WriteErrorFills
  <2>3. queue' \in [User -> Seq(Batch)] BY <2>1, <2>2, <1>2, FrontRemoved
  <2>4. RemoteTypes'
    <3>1. /\ pipeline' \in Seq(Batch) /\ stream' \in Stream /\ call' \in Call
          /\ requests' \subseteq Request
      BY <2>2, <1>3, IdleFits, FillsTyped
    <3> QED BY <3>1 DEF RemoteTypes
  <2>5. NotifyUser(Head(pipeline).id, "rejected") /\ waits' \subseteq waits
    BY <2>1 DEF HandleWriteError, TriggerPendingWriteCallbacks
  <2> QED BY <2>3, <2>4, <2>5, <1>2, <1>3, NotifyUserTypes
<1>5. CASE ~WriteFailed(status)
  <2>1. stream' \in Stream BY <1>1, <1>5 DEF Idle, Started, Stream
  <2> QED BY <2>1, <1>1, <1>3, <1>5, IdleFits DEF RemoteTypes
<1> QED BY <1>4, <1>5

LEMMA ExitTypes ==
    ASSUME TypeOK, Exit, queue' \in [User -> Seq(Batch)],
           told' \in [Write -> {"none", "ok", "rejected"}]
    PROVE  TypeOK'
<1>1. <<>> \in Seq(Message) /\ <<>> \in Seq(Batch) BY EmptySeq
<1>2. callbacks' \in [User -> SUBSET Batch] BY DEF Exit
<1>3. signIns' \in 0 .. MaxSignIns /\ faults' \in 0 .. MaxFaults
  BY WritesAssumption DEF TypeOK, Exit
<1>4. /\ running' \in BOOLEAN /\ authUser' \in User /\ current_user' \in User
      /\ requests' \subseteq Request /\ token_counter' \in Nat
      /\ main' \in Seq(Message) /\ worker' \in Seq(Message)
      /\ next_batch_id' \in Nat \ {0}
      /\ waits' \subseteq [id : Nat \ {0}, covers : SUBSET Write]
  BY <1>1 DEF TypeOK, Exit
<1>5. /\ network' \in BOOLEAN /\ pipeline' \in Seq(Batch)
      /\ stream' \in Stream /\ close_count' \in Nat /\ call' \in Call
  BY <1>1, IdleFits DEF Exit
<1>6. owner' \in [Write -> User \cup {None}] /\ committed' \in [Write -> SUBSET User]
  BY DEF TypeOK, Exit
<1> QED BY <1>2, <1>3, <1>4, <1>5, <1>6 DEF TypeOK

\* The variables that are neither the client's network nor the application's.
LEMMA TypeKept ==
    ASSUME IInv, [Next]_vars
    PROVE  TypeOK'
<1> USE DEF IInv
<1>1. CASE MainQueue
  <2>1. main # <<>> BY <1>1 DEF MainQueue, Notice, GetTokenAnswered
  <2>2. Head(main) \in Message /\ Tail(main) \in Seq(Message)
        /\ Append(worker, Head(main)) \in Seq(Message)
    BY <2>1, MessagesMoved DEF TypeOK
  <2>3. CASE Notice BY <2>2, <2>3 DEF TypeOK, Notice, store, remote, history
  <2>4. CASE GetTokenAnswered
    <3>1. [user |-> None, counter |-> token_counter, close |-> Head(main).close] \in Request
      BY <2>2 DEF TypeOK, Message, Request
    <3> QED BY <2>2, <2>4, <3>1 DEF TypeOK, GetTokenAnswered, store, remote, history
  <2> QED BY <1>1, <2>3, <2>4 DEF MainQueue
<1>2. CASE HandleCredentialChange
  <2>1. /\ worker # <<>> /\ worker' = Tail(worker) /\ current_user' = Head(worker).user
    BY <1>2 DEF HandleCredentialChange
  <2>2. worker' \in Seq(Message) /\ current_user' \in User
    BY <2>1, MessagesMoved DEF TypeOK, Message
  <2>3. /\ next_batch_id' \in Nat \ {0}
        /\ waits' \subseteq [id : Nat \ {0}, covers : SUBSET Write]
    BY <1>2, NextBatchIdBounds DEF TypeOK, HandleCredentialChange
  <2>4. RemoteTypes' /\ network' \in BOOLEAN /\ close_count' \in Nat
    <3>1. CASE network
      <4>1. RestartNetwork(queue[current_user']) BY <1>2, <3>1 DEF HandleCredentialChange
      <4>2. close_count' \in Nat /\ network' = network BY <4>1 DEF RestartNetwork, TypeOK
      <4>3. Fills(<<>>, queue[current_user'], Idle, NoCall)
        BY <4>1, <2>2, RestartFills DEF RestartNetwork
      <4> QED BY <4>2, <4>3, IdleFits, FillsTyped DEF TypeOK, RemoteTypes
    <3>2. CASE ~network BY <1>2, <3>2 DEF HandleCredentialChange, remote, TypeOK, RemoteTypes
    <3> QED BY <3>1, <3>2
  <2>5. UNCHANGED <<running, authUser, main, token_counter, queue, callbacks, history,
                   signIns, faults>>
    BY <1>2 DEF HandleCredentialChange
  <2> QED BY <2>2, <2>3, <2>4, <2>5 DEF TypeOK, RemoteTypes, history
<1>3. CASE ResumeStartWithCredentials
  <2>1. worker # <<>> /\ worker' = Tail(worker) BY <1>3 DEF ResumeStartWithCredentials
  <2>2. worker' \in Seq(Message) /\ Head(worker).user \in User
    BY <2>1, MessagesMoved DEF TypeOK, Message
  <2>3. <<0>> \in Seq(Response) BY WritesAssumption DEF Response
  <2>4. stream' \in Stream /\ call' \in Call
    <3>1. CASE Head(worker).close = close_count
      <4>1. /\ stream' = [stream EXCEPT !.state = "Open"]
            /\ call' = [NoCall EXCEPT !.user = Head(worker).user, !.toServer = <<0>>,
                                      !.status = "ok"]
        BY <1>3, <3>1 DEF ResumeStartWithCredentials
      <4>2. stream' \in Stream BY <4>1 DEF TypeOK, Stream
      <4>3. call' \in Call BY <4>1, <2>2, <2>3, IdleFits DEF Call
      <4> QED BY <4>2, <4>3
    <3>2. CASE Head(worker).close # close_count
      BY <1>3, <3>2 DEF ResumeStartWithCredentials, TypeOK
    <3> QED BY <3>1, <3>2
  <2> QED BY <1>3, <2>2, <2>4 DEF ResumeStartWithCredentials, TypeOK, auth, store, history
<1>4. CASE NoCredentials
  <2>1. worker # <<>> /\ worker' = Tail(worker) BY <1>4 DEF NoCredentials
  <2>2. worker' \in Seq(Message) BY <2>1, MessagesMoved DEF TypeOK
  <2>3. CASE OnStreamFinish("broken")
    <3>1. /\ RemoteTypes' /\ close_count' \in Nat /\ queue' \in [User -> Seq(Batch)]
          /\ callbacks' \in [User -> SUBSET Batch]
          /\ told' \in [Write -> {"none", "ok", "rejected"}] /\ waits' \subseteq waits
      BY <2>3, FinishTypes
    <3>2. UNCHANGED <<running, authUser, main, token_counter, current_user, next_batch_id,
                     owner, committed, signIns, faults, network>>
      BY <2>3 DEF OnStreamFinish
    <3> QED BY <2>2, <3>1, <3>2 DEF TypeOK, RemoteTypes
  <2>4. CASE UNCHANGED <<running, auth, current_user, store, remote, history, signIns, faults>>
    BY <2>2, <2>4 DEF TypeOK, auth, store, remote, history
  <2> QED BY <1>4, <2>3, <2>4 DEF NoCredentials
<1>5. CASE BackoffElapsed
  <2>1. stream' \in Stream BY <1>5 DEF BackoffElapsed, TypeOK, Stream
  <2>2. requests' \subseteq Request
    BY <1>5 DEF BackoffElapsed, RequestCredentials, TypeOK, Request
  <2> QED BY <1>5, <2>1, <2>2 DEF BackoffElapsed, TypeOK, store, history
<1>6. CASE IdleTimeout
  BY <1>6, IdleFits DEF IdleTimeout, TypeOK, auth, store, history
<1>7. CASE OnWriteStreamHandshakeComplete
  <2>1. stream' \in Stream BY <1>7 DEF OnWriteStreamHandshakeComplete, TypeOK, Stream
  <2>2. call' \in Call
    <3>1. Writes(pipeline) \in Seq(Response) BY WritesOfBatches DEF TypeOK
    <3>2. call.toServer \o Writes(pipeline) \in Seq(Response)
      BY <3>1, CallTypes, ConcatProperties DEF TypeOK
    <3>3. Tail(call.done) \in Seq([type : {"read"}, response : Response]
                                     \cup [type : {"failed", "finished"}])
      BY <1>7, CallTypes, HeadTailProperties DEF OnWriteStreamHandshakeComplete, TypeOK
    <3>4. call' = [call EXCEPT !.done = Tail(call.done),
                               !.toServer = call.toServer \o Writes(pipeline)]
      BY <1>7 DEF OnWriteStreamHandshakeComplete, Writes
    <3> QED BY <3>2, <3>3, <3>4 DEF TypeOK, Call
  <2> QED BY <1>7, <2>1, <2>2 DEF OnWriteStreamHandshakeComplete, TypeOK, auth, store, history
<1>8. CASE OnWriteStreamMutationResult
  <2>1. /\ Fills(Tail(pipeline), queue'[current_user'], stream,
                 [call EXCEPT !.done = Tail(call.done)])
        /\ close_count' = close_count /\ network' = network /\ pipeline # <<>>
        /\ [call EXCEPT !.done = Tail(call.done)] \in Call
        /\ RemoveFromQueue(Head(pipeline).id)
    BY <1>8, MutationResultFills
  <2>2. RemoteTypes' BY <2>1, FillsTyped DEF TypeOK, RemoteTypes
  <2>3. queue' \in [User -> Seq(Batch)] BY <2>1, FrontRemoved
  <2>4. /\ told' \in [Write -> {"none", "ok", "rejected"}]
        /\ callbacks' \in [User -> SUBSET Batch] /\ waits' \subseteq waits
    BY <1>8, NotifyUserTypes DEF OnWriteStreamMutationResult, TriggerPendingWriteCallbacks
  <2>5. UNCHANGED <<running, authUser, main, token_counter, worker, current_user,
                   next_batch_id, owner, committed, signIns, faults>>
    BY <1>8 DEF OnWriteStreamMutationResult
  <2> QED BY <2>1, <2>2, <2>3, <2>4, <2>5 DEF TypeOK, RemoteTypes
<1>9. CASE OnOperationFailed
  <2>1. <<[type |-> "finished"]>> \in Seq([type : {"read"}, response : Response]
                                             \cup [type : {"failed", "finished"}])
        /\ <<>> \in Seq(Response)
    BY EmptySeq
  <2>2. call' \in Call BY <1>9, <2>1 DEF OnOperationFailed, TypeOK, Call
  <2> QED BY <1>9, <2>2 DEF OnOperationFailed, TypeOK, auth, store, history
<1>10. CASE Finished
  <2>1. OnStreamFinish(call.status) /\ worker' = worker BY <1>10 DEF Finished
  <2>2. /\ RemoteTypes' /\ close_count' \in Nat /\ queue' \in [User -> Seq(Batch)]
        /\ callbacks' \in [User -> SUBSET Batch]
        /\ told' \in [Write -> {"none", "ok", "rejected"}] /\ waits' \subseteq waits
    BY <2>1, FinishTypes
  <2>3. UNCHANGED <<running, authUser, main, token_counter, current_user, next_batch_id,
                   owner, committed, signIns, faults, network>>
    BY <2>1 DEF OnStreamFinish
  <2> QED BY <2>1, <2>2, <2>3 DEF TypeOK, RemoteTypes
<1>11. ASSUME NEW r \in requests, LookUp(r) PROVE TypeOK'
  <2>1. [r EXCEPT !.user = authUser] \in Request BY DEF TypeOK, Request
  <2> QED BY <1>11, <2>1 DEF LookUp, TypeOK, store, remote, history
<1>12. ASSUME NEW r \in requests, TokenFetched(r) \/ TokenRefused(r) PROVE TypeOK'
  <2>1. PICK type \in {"token", "error"} : Answer(type, r)
    BY <1>12 DEF TokenFetched, TokenRefused
  <2>2. [type |-> type, user |-> r.user, counter |-> r.counter, close |-> r.close] \in Message
    BY <2>1 DEF Answer, TypeOK, Request, Message
  <2>3. main' \in Seq(Message) /\ requests' \subseteq Request
    BY <2>1, <2>2, MessagesMoved DEF Answer, TypeOK
  <2>4. faults' \in 0 .. MaxFaults
    BY <1>12, WritesAssumption DEF TokenFetched, TokenRefused, TypeOK
  <2> QED BY <2>1, <2>3, <2>4 DEF Answer, TypeOK, store, remote, history
<1>13. CASE Transport \/ Serve \/ Break
  <2>1. /\ call.toServer \in Seq(Response) /\ call.toClient \in Seq(Response)
        /\ call.done \in Seq([type : {"read"}, response : Response]
                                \cup [type : {"failed", "finished"}])
    BY CallTypes DEF TypeOK
  <2>2. CASE Arrive
    <3>1. call.toClient # <<>> BY <2>2 DEF Arrive
    <3>2. Head(call.toClient) \in Response /\ Tail(call.toClient) \in Seq(Response)
      BY <2>1, <3>1, HeadTailProperties
    <3>3. <<[type |-> "read", response |-> Head(call.toClient)]>>
             \in Seq([type : {"read"}, response : Response] \cup [type : {"failed", "finished"}])
      BY <3>2
    <3>4. call' \in Call BY <2>2, <3>2, <3>3 DEF Arrive, TypeOK, Call
    <3> QED BY <2>2, <3>4 DEF Arrive, TypeOK, auth, store, history
  <2>3. CASE OperationFails
    <3>1. Append(call.done, [type |-> "failed"])
             \in Seq([type : {"read"}, response : Response] \cup [type : {"failed", "finished"}])
      BY <2>1, AppendProperties
    <3>2. call' \in Call BY <2>3, <3>1 DEF OperationFails, TypeOK, Call
    <3> QED BY <2>3, <3>2 DEF OperationFails, TypeOK, auth, store, history
  <2>4. CASE Serve
    <3>1. call.toServer # <<>> BY <2>4 DEF Serve
    <3>2. Head(call.toServer) \in Response /\ Tail(call.toServer) \in Seq(Response)
      BY <2>1, <3>1, HeadTailProperties
    <3>3. Append(call.toClient, Head(call.toServer)) \in Seq(Response)
      BY <2>1, <3>2, AppendProperties
    <3>4. call' \in Call
      <4>1. \/ call' = [call EXCEPT !.toServer = Tail(call.toServer), !.status = "refused"]
            \/ call' = [call EXCEPT !.toServer = Tail(call.toServer),
                                    !.toClient = Append(call.toClient, Head(call.toServer))]
        BY <2>4 DEF Serve
      <4> HIDE DEF IInv
      <4>2. call \in Call BY DEF TypeOK, IInv
      <4> QED BY <4>1, <4>2, <3>2, <3>3 DEF Call
    <3>5. committed' \in [Write -> SUBSET User]
      <4>1. call.user \in User BY <2>4 DEF Serve, StreamInStep, CallFits
      <4>2. committed' = [v \in Write |-> IF v = Head(call.toServer)
                                             /\ Head(call.toServer) \notin Refused
                                         THEN committed[v] \cup {call.user} ELSE committed[v]]
        BY <2>4 DEF Serve
      <4>3. committed \in [Write -> SUBSET User] BY DEF TypeOK
      <4> HIDE DEF IInv
      <4> QED BY <4>1, <4>2, <4>3
    <3> QED BY <2>4, <3>4, <3>5 DEF Serve, TypeOK, auth, store
  <2>5. CASE Break
    <3>1. call' \in Call
      <4>1. ASSUME NEW n \in 0 .. Len(call.toClient) PROVE SubSeq(call.toClient, 1, n) \in Seq(Response)
        <5>1. n \in Int /\ \A i \in 1 .. n : call.toClient[i] \in Response
          BY <2>1, LenProperties, ElementOfSeq
        <5> QED BY <5>1, SubSeqProperties
      <4>2. CASE \E n \in 0 .. Len(call.toClient) :
                   call' = [call EXCEPT !.status = "broken",
                                        !.toClient = SubSeq(call.toClient, 1, n)]
        <5>1. PICK n \in 0 .. Len(call.toClient) :
                call' = [call EXCEPT !.status = "broken", !.toClient = SubSeq(call.toClient, 1, n)]
          BY <4>2
        <5>2. SubSeq(call.toClient, 1, n) \in Seq(Response) BY <4>1
        <5>3. call \in Call BY DEF TypeOK
        <5> HIDE DEF IInv
        <5> QED BY <5>1, <5>2, <5>3 DEF Call
      <4>3. CASE /\ call.toServer # <<>>
                 /\ call' = [call EXCEPT !.status = "refused", !.toServer = Tail(call.toServer)]
        <5>1. Tail(call.toServer) \in Seq(Response) BY <4>3, <2>1, HeadTailProperties
        <5> QED BY <4>3, <5>1 DEF TypeOK, Call
      <4> QED BY <2>5, <4>2, <4>3 DEF Break
    <3>2. faults' \in 0 .. MaxFaults
      <4>1. faults < MaxFaults /\ faults' = faults + 1 /\ faults \in 0 .. MaxFaults
        BY <2>5 DEF Break, TypeOK
      <4> HIDE DEF IInv
      <4> QED BY <4>1, WritesAssumption
    <3> QED BY <2>5, <3>1, <3>2 DEF Break, TypeOK, auth, store, history
  <2> QED BY <1>13, <2>2, <2>3, <2>4, <2>5 DEF Transport
<1>14. ASSUME NEW w \in Write, WriteMutations(w) PROVE TypeOK'
  <2>1. Fills(pipeline, queue'[current_user'], stream, call) /\ close_count' = close_count
        /\ network' = network /\ current_user' = current_user
    BY <1>14, WriteMutationsFills
  <2>2. RemoteTypes' BY <2>1, FillsTyped DEF TypeOK, RemoteTypes
  <2>3. /\ queue' \in [User -> Seq(Batch)] /\ next_batch_id' \in Nat \ {0}
        /\ [id |-> next_batch_id, write |-> w] \in Batch
    BY <1>14, BatchAppended
  <2>4. owner' \in [Write -> User \cup {None}] BY <1>14 DEF WriteMutations, TypeOK
  <2>5. callbacks' \in [User -> SUBSET Batch] BY <1>14, <2>3 DEF WriteMutations, TypeOK
  <2>6. UNCHANGED <<running, authUser, main, token_counter, worker, waits, told, committed,
                   signIns, faults>>
    BY <1>14 DEF WriteMutations
  <2> QED BY <2>1, <2>2, <2>3, <2>4, <2>5, <2>6 DEF TypeOK, RemoteTypes
<1>15. CASE RegisterPendingWritesCallback
  <2>1. waits' \subseteq [id : Nat \ {0}, covers : SUBSET Write]
    <3> DEFINE q == queue[current_user]
               n == [id |-> q[Len(q)].id, covers |-> {q[i].write : i \in DOMAIN q}]
    <3>1. q \in Seq(Batch) /\ q # <<>>
      BY <1>15 DEF RegisterPendingWritesCallback, TypeOK
    <3>2. Len(q) \in 1 .. Len(q) /\ DOMAIN q = 1 .. Len(q)
      BY <3>1, LenProperties, EmptySeq
    <3>3. \A i \in DOMAIN q : q[i] \in Batch BY <3>1, <3>2, ElementOfSeq
    <3>4. q[Len(q)].id \in Nat \ {0} /\ \A i \in DOMAIN q : q[i].write \in Write
      BY <3>2, <3>3 DEF Batch
    <3>5. waits' = waits \cup {n}
      BY <1>15 DEF RegisterPendingWritesCallback, GetHighestUnacknowledgedBatchId
    <3> HIDE DEF q
    <3>6. n \in [id : Nat \ {0}, covers : SUBSET Write] BY <3>4
    <3> QED BY <3>5, <3>6 DEF TypeOK
  <2> QED BY <1>15, <2>1 DEF RegisterPendingWritesCallback, TypeOK, auth, remote, history
<1>16. CASE EnableNetwork
  <2>1. Fills(pipeline, queue'[current_user'], stream, call) /\ close_count' = close_count
        /\ network' = TRUE /\ current_user' = current_user
    BY <1>16, EnableNetworkFills
  <2>2. RemoteTypes' BY <2>1, FillsTyped DEF TypeOK, RemoteTypes
  <2> QED BY <1>16, <2>1, <2>2 DEF EnableNetwork, TypeOK, RemoteTypes, store, history
<1>17. CASE DisableNetwork
  <2>1. stream' \in Stream /\ close_count' \in Nat
    BY <1>17, IdleFits DEF DisableNetwork, TypeOK
  <2>2. faults' \in 0 .. MaxFaults BY <1>17, WritesAssumption DEF DisableNetwork, TypeOK
  <2>3. <<>> \in Seq(Batch) BY EmptySeq
  <2> QED BY <1>17, <2>1, <2>2, <2>3, IdleFits DEF DisableNetwork, TypeOK, auth, store, history
<1>18. CASE ConnectivityChanged
  <2>1. RestartNetwork(queue[current_user]) BY <1>18 DEF ConnectivityChanged
  <2>2. close_count' \in Nat /\ network' = network BY <2>1 DEF RestartNetwork, TypeOK
  <2>3. Fills(<<>>, queue[current_user], Idle, NoCall)
    BY <2>1, RestartFills DEF RestartNetwork, TypeOK
  <2>4. RemoteTypes' BY <2>2, <2>3, IdleFits, FillsTyped DEF TypeOK, RemoteTypes
  <2>5. faults' \in 0 .. MaxFaults BY <1>18, WritesAssumption DEF ConnectivityChanged, TypeOK
  <2> QED BY <1>18, <2>2, <2>4, <2>5 DEF ConnectivityChanged, TypeOK, RemoteTypes, store, history
<1>19. ASSUME NEW u \in User, SignIn(u) PROVE TypeOK'
  <2>1. [type |-> "user", user |-> u, counter |-> 0, close |-> 0] \in Message BY DEF Message
  <2>2. main' \in Seq(Message) BY <1>19, <2>1, MessagesMoved DEF SignIn, TypeOK
  <2>3. signIns' \in 0 .. MaxSignIns BY <1>19, WritesAssumption DEF SignIn, TypeOK
  <2> QED BY <1>19, <2>2, <2>3 DEF SignIn, TypeOK, store, remote, history
<1>20. ASSUME NEW u \in User, Initialize(u) PROVE TypeOK'
  <2>1. FillWritePipeline(<<>>, queue[u], Idle, NoCall) /\ close_count' = close_count
    BY <1>20 DEF Initialize
  <2>2. Fills(<<>>, queue[u], Idle, NoCall) BY <2>1, RestartFills
  <2>3. RemoteTypes' BY <2>1, <2>2, IdleFits, FillsTyped DEF TypeOK, RemoteTypes
  <2>4. next_batch_id' \in Nat \ {0} BY <1>20, NextBatchIdBounds DEF Initialize
  <2> QED BY <1>20, <2>1, <2>3, <2>4 DEF Initialize, TypeOK, RemoteTypes, history
<1>21. CASE Kill \/ KillInSuccessfulWrite \/ KillInRejectedWrite
  <2>1. Exit BY <1>21 DEF Kill, KillInSuccessfulWrite, KillInRejectedWrite
  <2>2. queue' \in [User -> Seq(Batch)]
    <3>1. CASE queue' = queue BY <3>1 DEF TypeOK
    <3>2. CASE KillInRejectedWrite BY <3>2, FrontRemoved DEF KillInRejectedWrite
    <3> QED BY <1>21, <3>1, <3>2 DEF Kill, KillInSuccessfulWrite
  <2>3. told' \in [Write -> {"none", "ok", "rejected"}]
    BY <1>21 DEF Kill, KillInSuccessfulWrite, KillInRejectedWrite, TypeOK
  <2> QED BY <2>1, <2>2, <2>3, ExitTypes
<1>22. CASE UNCHANGED vars
  BY <1>22 DEF vars, TypeOK, auth, store, remote, history
<1> QED
  BY <1>1, <1>2, <1>3, <1>4, <1>5, <1>6, <1>7, <1>8, <1>9, <1>10, <1>11, <1>12, <1>13,
     <1>14, <1>15, <1>16, <1>17, <1>18, <1>19, <1>20, <1>21, <1>22
  DEF Next, WorkerQueue, Timers, Completions, FirebaseAuth, Application, Disturbance

-----------------------------------------------------------------------------
\* The queues.

LEMMA QueuesKept ==
    ASSUME IInv, [Next]_vars
    PROVE  QueuesInOrder'
<1> USE DEF IInv
<1>1. ASSUME UNCHANGED <<queue, next_batch_id>> PROVE QueuesInOrder'
  BY <1>1 DEF QueuesInOrder, Ascending
<1>2. ASSUME pipeline # <<>>, RemoveFromQueue(Head(pipeline).id), next_batch_id' = next_batch_id
      PROVE  QueuesInOrder'
  <2>1. \A u \in User : /\ Ascending(queue'[u])
                        /\ \A i \in DOMAIN queue'[u] : queue'[u][i].id < next_batch_id
    BY <1>2, FrontRemoved
  <2> QED BY <2>1, <1>2 DEF QueuesInOrder, Ascending
<1>3. ASSUME NEW status, OnStreamFinish(status) PROVE QueuesInOrder'
  <2>1. next_batch_id' = next_batch_id BY <1>3 DEF OnStreamFinish
  <2>2. CASE WriteFailed(status)
    BY <1>2, <1>3, <2>1, <2>2 DEF OnStreamFinish, HandleWriteError, WriteFailed
  <2>3. CASE ~WriteFailed(status) BY <1>1, <1>3, <2>1, <2>3 DEF OnStreamFinish
  <2> QED BY <2>2, <2>3
<1>4. ASSUME queue' = queue, next_batch_id' = LoadNextBatchIdFromDb PROVE QueuesInOrder'
  BY <1>4, NextBatchIdBounds DEF QueuesInOrder, Ascending
<1>5. CASE MainQueue BY <1>1, <1>5 DEF MainQueue, Notice, GetTokenAnswered, store
<1>6. CASE HandleCredentialChange BY <1>1, <1>4, <1>6 DEF HandleCredentialChange
<1>7. CASE ResumeStartWithCredentials BY <1>1, <1>7 DEF ResumeStartWithCredentials, store
<1>8. CASE NoCredentials BY <1>1, <1>3, <1>8 DEF NoCredentials, store
<1>9. CASE Timers BY <1>1, <1>9 DEF Timers, BackoffElapsed, IdleTimeout, store
<1>10. CASE OnWriteStreamHandshakeComplete
  BY <1>1, <1>10 DEF OnWriteStreamHandshakeComplete, store
<1>11. CASE OnWriteStreamMutationResult BY <1>2, <1>11 DEF OnWriteStreamMutationResult
<1>12. CASE OnOperationFailed BY <1>1, <1>12 DEF OnOperationFailed, store
<1>13. CASE Finished BY <1>3, <1>13 DEF Finished
<1>14. CASE FirebaseAuth \/ \E r \in requests : TokenRefused(r)
  BY <1>1, <1>14 DEF FirebaseAuth, LookUp, TokenFetched, TokenRefused, Answer, store
<1>15. CASE Transport \/ Serve \/ Break
  BY <1>1, <1>15 DEF Transport, Arrive, OperationFails, Serve, Break, store
<1>16. ASSUME NEW w \in Write, WriteMutations(w) PROVE QueuesInOrder' BY <1>16, BatchAppended
<1>17. CASE RegisterPendingWritesCallback \/ EnableNetwork \/ DisableNetwork
            \/ ConnectivityChanged
  BY <1>1, <1>17 DEF RegisterPendingWritesCallback, EnableNetwork, DisableNetwork,
                     ConnectivityChanged, store
<1>18. ASSUME NEW u \in User, SignIn(u) \/ Initialize(u) PROVE QueuesInOrder'
  BY <1>1, <1>4, <1>18 DEF SignIn, Initialize, store
<1>19. CASE Kill \/ KillInSuccessfulWrite \/ KillInRejectedWrite
  <2>1. next_batch_id' = next_batch_id
    BY <1>19 DEF Kill, KillInSuccessfulWrite, KillInRejectedWrite, Exit
  <2>2. queue' = queue \/ (pipeline # <<>> /\ RemoveFromQueue(Head(pipeline).id))
    BY <1>19 DEF Kill, KillInSuccessfulWrite, KillInRejectedWrite
  <2> QED BY <2>1, <2>2, <1>1, <1>2
<1>20. CASE UNCHANGED vars BY <1>1, <1>20 DEF vars, store
<1> QED
  BY <1>5, <1>6, <1>7, <1>8, <1>9, <1>10, <1>11, <1>12, <1>13, <1>14, <1>15, <1>16,
     <1>17, <1>18, <1>19, <1>20
  DEF Next, WorkerQueue, Completions, Application, Disturbance

-----------------------------------------------------------------------------
\* The stream, its call and the pipeline.

\* Responses of a call that the client has not handled.
UnreadOf(c) ==
    (IF c.done # <<>> /\ Head(c.done).type = "read" THEN <<Head(c.done).response>> ELSE <<>>)
        \o c.toClient

\* What is under way of a call: the pipeline, or the handshake before it.
CallMatches(s, c, p) ==
    c.status = "ok" =>
        UnreadOf(c) \o c.toServer = IF s.handshake THEN Writes(p) ELSE <<0>>

RemoteInStep == StreamInStep /\ CallInOrder /\ PipelineInStep

LEMMA UnreadIsSeq ==
    ASSUME NEW c \in Call
    PROVE  UnreadOf(c) \in Seq(Response)
<1> DEFINE D == [type : {"read"}, response : Response] \cup [type : {"failed", "finished"}]
           first == IF c.done # <<>> /\ Head(c.done).type = "read"
                    THEN <<Head(c.done).response>> ELSE <<>>
<1>1. c.done \in Seq(D) /\ c.toClient \in Seq(Response) BY DEF Call
<1>2. c.done # <<>> => Head(c.done) \in D BY <1>1, HeadTailProperties
<1>3. c.done # <<>> /\ Head(c.done).type = "read" => Head(c.done).response \in Response
  BY <1>2
<1>4. first \in Seq(Response) BY <1>3, EmptySeq
<1> HIDE DEF first
<1>5. first \o c.toClient \in Seq(Response) BY <1>1, <1>4, ConcatProperties
<1> QED BY <1>5 DEF UnreadOf, first

LEMMA PipelineFromPrefix ==
    ASSUME IsPrefix(pipeline', queue'[current_user']), Len(pipeline') <= kMaxPendingWrites,
           pipeline' \in Seq(Batch), queue'[current_user'] \in Seq(Batch),
           stream'.idle => stream'.state = "Open" /\ pipeline' = <<>>,
           pipeline' # <<>> => IsStarted(stream'),
           CallMatches(stream', call', pipeline')
    PROVE  PipelineInStep'
<1>1. Len(pipeline') <= Len(queue'[current_user'])
      /\ pipeline' = SubSeq(queue'[current_user'], 1, Len(pipeline'))
  BY PrefixIsSubSeq
<1>2. Unread' = UnreadOf(call') BY DEF Unread, UnreadOf
<1>3. call'.status = "ok" => Unread' \o call'.toServer =
          IF stream'.handshake THEN Writes(pipeline') ELSE <<0>>
  BY <1>2 DEF CallMatches
<1> QED BY <1>1, <1>3 DEF PipelineInStep, IsStarted, Writes

LEMMA PipelineMatches ==
    ASSUME PipelineInStep
    PROVE  CallMatches(stream, call, pipeline)
<1>1. Unread = UnreadOf(call) BY DEF Unread, UnreadOf
<1> QED BY <1>1 DEF PipelineInStep, CallMatches

\* Filling keeps all this.
LEMMA FillsKeep ==
    ASSUME NEW p \in Seq(Batch), NEW s \in Stream, NEW c \in Call,
           Fills(p, queue'[current_user'], s, c), queue'[current_user'] \in Seq(Batch),
           IsStarted(s) \/ p # <<>> => network',
           StreamFits(s, p), CallFits(s, c), DoneInOrder(c), CallMatches(s, c, p)
    PROVE  RemoteInStep'
<1>1. PICK sent \in Seq(Response) :
        /\ call' = [c EXCEPT !.toServer = c.toServer \o sent]
        /\ s.handshake => Writes(pipeline') = Writes(p) \o sent
        /\ ~s.handshake => sent = <<>>
  BY DEF Fills
<1>2. /\ c.toServer \in Seq(Response) /\ c.toClient \in Seq(Response)
      /\ c.toServer \o sent \in Seq(Response)
  BY <1>1, CallTypes, ConcatProperties DEF Call
<1>3. /\ call'.user = c.user /\ call'.toClient = c.toClient /\ call'.done = c.done
      /\ call'.status = c.status /\ call'.toServer = c.toServer \o sent
  BY <1>1, <1>2 DEF Call
<1>4. /\ s.handshake \in BOOLEAN /\ s.idle \in BOOLEAN
      /\ s.handshake \/ s.idle => s.state = "Open" /\ IsStarted(s)
      /\ s.state = "Open" => IsStarted(s)
      /\ IsStarted(s) /\ ~s.handshake => p # <<>>
  BY DEF Stream, StreamFits, IsStarted
<1>5. /\ pipeline' \in Seq(Batch) /\ IsPrefix(pipeline', queue'[current_user'])
      /\ Len(pipeline') <= kMaxPendingWrites
      /\ ~network' => pipeline' = p
      /\ p # <<>> => pipeline' # <<>>
  <2>1. /\ pipeline' \in Seq(Batch) /\ IsPrefix(pipeline', queue'[current_user'])
        /\ Len(p) <= Len(pipeline') /\ Len(pipeline') <= kMaxPendingWrites
        /\ ~network' => pipeline' = p
    BY DEF Fills
  <2>2. p # <<>> => Len(p) # 0 /\ Len(p) \in Nat BY EmptySeq, LenProperties
  <2>3. pipeline' = <<>> => Len(pipeline') = 0 BY EmptySeq
  <2> QED BY <2>1, <2>2, <2>3
<1>6. /\ stream'.idle => stream'.state = "Open" /\ pipeline' = <<>>
      /\ pipeline' # <<>> => IsStarted(stream')
      /\ IsStarted(stream') => network'
      /\ StreamFits(stream', pipeline')
      /\ stream'.handshake = s.handshake
      /\ (stream'.state = "Open") <=> (s.state = "Open")
  <2>1. CASE IsStarted(s)
    <3>1. /\ stream'.state = s.state /\ stream'.handshake = s.handshake
          /\ stream'.idle => s.state = "Open" /\ pipeline' = <<>>
      BY <2>1 DEF Fills
    <3>2. IsStarted(stream') BY <2>1, <3>1 DEF IsStarted
    <3>3. StreamFits(stream', pipeline') BY <3>1, <2>1, <1>4, <1>5 DEF StreamFits
    <3> QED BY <3>1, <3>2, <3>3, <2>1
  <2>2. CASE ~IsStarted(s)
    <3>1. s.handshake = FALSE /\ s.idle = FALSE /\ s.state # "Open" BY <2>2, <1>4
    <3>2. CASE network' /\ pipeline' # <<>>
      <4>1. stream' = [s EXCEPT !.state = IF s.state = "Error" THEN "Backoff" ELSE "Starting"]
        BY <2>2, <3>2 DEF Fills
      <4>2. /\ stream'.state \in {"Backoff", "Starting"}
            /\ stream'.handshake = FALSE /\ stream'.idle = FALSE
        BY <4>1, <3>1 DEF Stream
      <4> QED BY <4>2, <3>1, <3>2 DEF IsStarted, StreamFits
    <3>3. CASE ~(network' /\ pipeline' # <<>>)
      <4>1. stream' = s BY <2>2, <3>3 DEF Fills
      <4>2. pipeline' = <<>> BY <3>3, <1>5
      <4>3. StreamFits(stream', pipeline') BY <4>1, <3>1, <2>2 DEF StreamFits
      <4> QED BY <4>1, <4>2, <4>3, <3>1, <2>2
    <3> QED BY <3>2, <3>3
  <2> QED BY <2>1, <2>2
<1>7. CallFits(stream', call')
  <2>1. s.state # "Open" => call' = NoCall
    <3> SUFFICES ASSUME s.state # "Open" PROVE call' = NoCall OBVIOUS
    <3>1. sent = <<>> /\ c = NoCall BY <1>1, <1>4 DEF CallFits
    <3>2. c.toServer \o sent = <<>> BY <3>1, ConcatEmptySeq, EmptySeq DEF NoCall
    <3> QED BY <3>1, <3>2, <1>1 DEF NoCall
  <2> QED BY <2>1, <1>3, <1>6 DEF CallFits
<1>8. DoneInOrder(call') BY <1>3 DEF DoneInOrder
<1>9. CallMatches(stream', call', pipeline')
  <2> SUFFICES ASSUME call'.status = "ok"
               PROVE  UnreadOf(call') \o call'.toServer
                        = IF stream'.handshake THEN Writes(pipeline') ELSE <<0>>
    BY DEF CallMatches
  <2>1. UnreadOf(call') = UnreadOf(c) BY <1>3 DEF UnreadOf
  <2>2. UnreadOf(c) \o c.toServer = IF s.handshake THEN Writes(p) ELSE <<0>>
    BY <1>3 DEF CallMatches
  <2>3. UnreadOf(c) \in Seq(Response) BY UnreadIsSeq
  <2>4. UnreadOf(call') \o call'.toServer = (UnreadOf(c) \o c.toServer) \o sent
    <3> DEFINE u == UnreadOf(c)
               v == c.toServer
    <3>1. u \in Seq(Response) /\ v \in Seq(Response) /\ sent \in Seq(Response) BY <2>3, <1>2
    <3> HIDE DEF u, v
    <3>2. (u \o v) \o sent = u \o (v \o sent) BY <3>1, ConcatAssociative, SMTT(30)
    <3> QED BY <2>1, <1>3, <3>2 DEF u, v
  <2>5. CASE s.handshake BY <2>2, <2>4, <2>5, <1>1, <1>6
  <2>6. CASE ~s.handshake
    <3>1. <<0>> \in Seq(Response) /\ sent = <<>>
      BY <2>6, <1>1, WritesAssumption DEF Response
    <3>2. <<0>> \o sent = <<0>> BY <3>1, ConcatEmptySeq
    <3> QED BY <2>2, <2>4, <2>6, <3>2, <1>6
  <2> QED BY <2>5, <2>6
<1>10. StreamInStep' BY <1>6, <1>7 DEF StreamInStep, StreamFits, CallFits, IsStarted
<1>11. CallInOrder' BY <1>8 DEF CallInOrder, DoneInOrder
<1>12. PipelineInStep'
  BY <1>5, <1>6, <1>9, PipelineFromPrefix
<1> QED BY <1>10, <1>11, <1>12 DEF RemoteInStep

\* Sequences of responses as they are read, served and handled.
LEMMA HeadMoves ==
    ASSUME NEW S, NEW b \in Seq(S), b # <<>>, NEW u \in Seq(S), NEW a \in Seq(S)
    PROVE  (u \o a) \o b = (u \o Append(a, Head(b))) \o Tail(b)
<1> DEFINE h == Head(b)
           t == Tail(b)
<1>1. /\ h \in S /\ t \in Seq(S) /\ Len(t) = Len(b) - 1 /\ Len(b) \in Nat \ {0}
      /\ \A i \in 1 .. Len(t) : t[i] = b[i + 1]
      /\ h = b[1] /\ Len(u) \in Nat /\ Len(a) \in Nat
  BY HeadTailProperties, EmptySeq, LenProperties
<1> HIDE DEF h, t
<1>2. /\ Append(a, h) \in Seq(S) /\ Len(Append(a, h)) = Len(a) + 1
      /\ \A i \in 1 .. Len(a) : Append(a, h)[i] = a[i]
      /\ Append(a, h)[Len(a) + 1] = h
  BY <1>1, AppendProperties
<1>3. /\ u \o a \in Seq(S) /\ Len(u \o a) = Len(u) + Len(a)
      /\ \A i \in 1 .. Len(u) + Len(a) :
            (u \o a)[i] = IF i <= Len(u) THEN u[i] ELSE a[i - Len(u)]
  BY ConcatProperties
<1>4. /\ u \o Append(a, h) \in Seq(S) /\ Len(u \o Append(a, h)) = Len(u) + Len(a) + 1
      /\ \A i \in 1 .. Len(u) + Len(a) + 1 :
            (u \o Append(a, h))[i] = IF i <= Len(u) THEN u[i] ELSE Append(a, h)[i - Len(u)]
  <2>1. /\ u \o Append(a, h) \in Seq(S)
        /\ Len(u \o Append(a, h)) = Len(u) + Len(Append(a, h))
        /\ \A i \in 1 .. Len(u) + Len(Append(a, h)) :
            (u \o Append(a, h))[i] = IF i <= Len(u) THEN u[i] ELSE Append(a, h)[i - Len(u)]
    BY <1>2, ConcatProperties
  <2>2. Len(u) + Len(Append(a, h)) = Len(u) + Len(a) + 1 BY <1>1, <1>2
  <2> QED BY <2>1, <2>2
<1> DEFINE x == u \o a
           y == u \o Append(a, h)
<1>5. /\ x \in Seq(S) /\ y \in Seq(S) /\ Len(x) = Len(u) + Len(a) /\ Len(y) = Len(x) + 1
      /\ \A i \in 1 .. Len(x) : y[i] = x[i]
      /\ y[Len(x) + 1] = h
  <2>1. \A i \in 1 .. Len(u) + Len(a) : y[i] = x[i]
    <3> SUFFICES ASSUME NEW i \in 1 .. Len(u) + Len(a) PROVE y[i] = x[i] OBVIOUS
    <3>1. i <= Len(u) \/ i - Len(u) \in 1 .. Len(a) BY <1>1
    <3>2. i \in 1 .. Len(u) + Len(a) + 1 BY <1>1
    <3>3. i - Len(u) \in 1 .. Len(a) => Append(a, h)[i - Len(u)] = a[i - Len(u)] BY <1>2
    <3> QED BY <3>1, <3>2, <3>3, <1>3, <1>4
  <2>2. y[Len(u) + Len(a) + 1] = h
    <3>1. /\ Len(u) + Len(a) + 1 \in 1 .. Len(u) + Len(a) + 1
          /\ ~(Len(u) + Len(a) + 1 <= Len(u)) /\ Len(u) + Len(a) + 1 - Len(u) = Len(a) + 1
      BY <1>1
    <3> QED BY <3>1, <1>2, <1>4
  <2> QED BY <2>1, <2>2, <1>3, <1>4
<1> HIDE DEF x, y
<1>6. /\ x \o b \in Seq(S) /\ Len(x \o b) = Len(x) + Len(b)
      /\ \A i \in 1 .. Len(x) + Len(b) : (x \o b)[i] = IF i <= Len(x) THEN x[i] ELSE b[i - Len(x)]
  <2>1. x \in Seq(S) /\ b \in Seq(S) BY <1>5
  <2> QED BY <2>1, ConcatProperties
<1>7. /\ y \o t \in Seq(S) /\ Len(y \o t) = Len(y) + Len(t)
      /\ \A i \in 1 .. Len(y) + Len(t) : (y \o t)[i] = IF i <= Len(y) THEN y[i] ELSE t[i - Len(y)]
  <2>1. y \in Seq(S) /\ t \in Seq(S) BY <1>1, <1>5
  <2> QED BY <2>1, ConcatProperties
<1>8. Len(x \o b) = Len(y \o t) /\ Len(x) \in Nat BY <1>1, <1>5, <1>6, <1>7
<1>9. ASSUME NEW i \in 1 .. Len(x \o b) PROVE (x \o b)[i] = (y \o t)[i]
  <2>1. i \in 1 .. Len(x) + Len(b) /\ i \in 1 .. Len(y) + Len(t) BY <1>6, <1>7, <1>8
  <2>2. CASE i <= Len(x)
    <3>1. i \in 1 .. Len(x) /\ i <= Len(y) BY <2>1, <2>2, <1>5, <1>8
    <3> QED BY <3>1, <2>1, <2>2, <1>5, <1>6, <1>7
  <2>3. CASE i = Len(x) + 1
    <3>1. ~(i <= Len(x)) /\ i <= Len(y) /\ i - Len(x) = 1 BY <2>3, <1>5, <1>8
    <3> QED BY <3>1, <2>1, <2>3, <1>1, <1>5, <1>6, <1>7
  <2>4. CASE i > Len(x) + 1
    <3>1. /\ ~(i <= Len(x)) /\ ~(i <= Len(y)) /\ i - Len(y) \in 1 .. Len(t)
          /\ i - Len(x) = (i - Len(y)) + 1
      BY <2>1, <2>4, <1>1, <1>5, <1>8
    <3> QED BY <3>1, <2>1, <1>1, <1>6, <1>7
  <2>5. i <= Len(x) \/ i = Len(x) + 1 \/ i > Len(x) + 1 BY <2>1, <1>8
  <2> QED BY <2>2, <2>3, <2>4, <2>5
<1>10. x \o b = y \o t BY <1>6, <1>7, <1>8, <1>9, SeqEqual
<1> QED BY <1>10 DEF x, y, h, t

LEMMA HeadDropped ==
    ASSUME NEW S, NEW r \in S, NEW a \in Seq(S), NEW b \in Seq(S)
    PROVE  LET w == (<<r>> \o a) \o b IN
           w # <<>> /\ Head(w) = r /\ Tail(w) = a \o b
<1> DEFINE c == a \o b
           f == <<r>>
<1>1. f \in Seq(S) /\ Len(f) = 1 /\ f[1] = r OBVIOUS
<1> HIDE DEF f
<1>2. c \in Seq(S) /\ Len(c) \in Nat BY ConcatProperties, LenProperties
<1>3. (f \o a) \o b = f \o c BY <1>1, ConcatAssociative, SMTT(30)
<1> HIDE DEF c
<1>4. /\ f \o c \in Seq(S) /\ Len(f \o c) = Len(f) + Len(c)
      /\ \A i \in 1 .. Len(f) + Len(c) : (f \o c)[i] = IF i <= Len(f) THEN f[i] ELSE c[i - Len(f)]
  BY <1>1, <1>2, ConcatProperties
<1>5. f \o c # <<>> BY <1>1, <1>2, <1>4, EmptySeq
<1>6. (f \o c)[1] = r
  <2>1. 1 \in 1 .. Len(f) + Len(c) /\ 1 <= Len(f) BY <1>1, <1>2
  <2> QED BY <2>1, <1>1, <1>4
<1>7. Head(f \o c) = r
  <2> DEFINE d == f \o c
  <2>1. d \in Seq(S) /\ d # <<>> /\ d[1] = r BY <1>4, <1>5, <1>6
  <2> HIDE DEF d
  <2>2. Head(d) = r BY <2>1
  <2> QED BY <2>2 DEF d
<1>8. /\ Tail(f \o c) \in Seq(S) /\ Len(Tail(f \o c)) = Len(f \o c) - 1
      /\ \A i \in 1 .. Len(Tail(f \o c)) : Tail(f \o c)[i] = (f \o c)[i + 1]
  BY <1>4, <1>5, HeadTailProperties
<1>9. Len(Tail(f \o c)) = Len(c) BY <1>1, <1>2, <1>4, <1>8
<1>10. ASSUME NEW i \in 1 .. Len(c) PROVE Tail(f \o c)[i] = c[i]
  <2>1. i + 1 \in 1 .. Len(f) + Len(c) /\ ~(i + 1 <= Len(f)) /\ i + 1 - Len(f) = i
    BY <1>1, <1>2
  <2> QED BY <2>1, <1>4, <1>8, <1>9
<1>11. Tail(f \o c) = c BY <1>2, <1>8, <1>9, <1>10, SeqEqual
<1> QED BY <1>3, <1>5, <1>7, <1>11 DEF c, f

LEMMA ShortSequences ==
    ASSUME NEW x, NEW y
    PROVE  /\ Tail(<<x>>) = <<>> /\ Tail(<<x, y>>) = <<y>>
           /\ Head(<<x>>) = x /\ Head(<<x, y>>) = x
OBVIOUS

LEMMA AppendToOne ==
    ASSUME NEW S, NEW x \in S, NEW y \in S
    PROVE  Append(<<x>>, y) = <<x, y>>
<1>1. <<x>> \in Seq(S) /\ Len(<<x>>) = 1 /\ <<x>>[1] = x OBVIOUS
<1>2. /\ Append(<<x>>, y) \in Seq(S) /\ Len(Append(<<x>>, y)) = Len(<<x>>) + 1
      /\ \A i \in 1 .. Len(<<x>>) : Append(<<x>>, y)[i] = <<x>>[i]
      /\ Append(<<x>>, y)[Len(<<x>>) + 1] = y
  BY <1>1, AppendProperties
<1>3. /\ Append(<<x>>, y) \in Seq(S) /\ Len(Append(<<x>>, y)) = 2
      /\ Append(<<x>>, y)[1] = x /\ Append(<<x>>, y)[2] = y
  BY <1>1, <1>2
<1>4. <<x, y>> \in Seq(S) /\ Len(<<x, y>>) = 2 /\ <<x, y>>[1] = x /\ <<x, y>>[2] = y
  OBVIOUS
<1> DEFINE s == Append(<<x>>, y)
           t == <<x, y>>
<1>5. s \in Seq(S) /\ t \in Seq(S) /\ Len(s) = 2 /\ Len(t) = 2 /\ s[1] = t[1] /\ s[2] = t[2]
  BY <1>3, <1>4
<1> HIDE DEF s, t
<1>6. Len(s) = Len(t) /\ \A i \in 1 .. Len(s) : s[i] = t[i] BY <1>5
<1>7. s = t BY <1>5, <1>6, SeqEqual
<1> QED BY <1>7 DEF s, t

LEMMA EmptyDomain ==
    ASSUME NEW S, NEW s \in Seq(S), DOMAIN s = {}
    PROVE  s = <<>>
<1>1. Len(s) \in Nat /\ DOMAIN s = 1 .. Len(s) BY LenProperties
<1>2. 1 \notin 1 .. Len(s) BY <1>1
<1> QED BY <1>1, <1>2, EmptySeq

LEMMA HeadAndTail ==
    ASSUME NEW S, NEW s \in Seq(S), s # <<>>
    PROVE  <<Head(s)>> \o Tail(s) = s
<1>1. Len(s) \in Nat \ {0} /\ Len(s) \in 1 .. Len(s) BY EmptySeq
<1>2. SubSeq(s, 1, Len(s)) = <<s[1]>> \o SubSeq(s, 1 + 1, Len(s))
  BY <1>1, SubSeqRecursiveFirst
<1>3. SubSeq(s, 1, Len(s)) = s /\ SubSeq(s, 1 + 1, Len(s)) = Tail(s) /\ Head(s) = s[1]
  BY SubSeqFull, TailIsSubSeq
<1> QED BY <1>2, <1>3

LEMMA WritesOfRest ==
    ASSUME NEW p \in Seq(Batch), p # <<>>
    PROVE  /\ Tail(Writes(p)) = Writes(Tail(p)) /\ Head(Writes(p)) = p[1].write
           /\ Writes(p) # <<>>
<1>1. /\ Tail(p) \in Seq(Batch) /\ Len(Tail(p)) = Len(p) - 1 /\ Len(p) \in Nat \ {0}
      /\ \A i \in 1 .. Len(Tail(p)) : Tail(p)[i] = p[i + 1]
  BY HeadTailProperties, EmptySeq
<1>2. /\ Writes(p) \in Seq(Write) /\ Len(Writes(p)) = Len(p)
      /\ \A i \in 1 .. Len(p) : Writes(p)[i] = p[i].write
      /\ Writes(Tail(p)) \in Seq(Write) /\ Len(Writes(Tail(p))) = Len(p) - 1
      /\ \A i \in 1 .. Len(p) - 1 : Writes(Tail(p))[i] = Tail(p)[i].write
  BY <1>1, WritesOfBatches
<1>3. Writes(p) # <<>> BY <1>1, <1>2, EmptySeq
<1>4. /\ Tail(Writes(p)) \in Seq(Write) /\ Len(Tail(Writes(p))) = Len(p) - 1
      /\ \A i \in 1 .. Len(p) - 1 : Tail(Writes(p))[i] = Writes(p)[i + 1]
  BY <1>2, <1>3, HeadTailProperties
<1>5. \A i \in 1 .. Len(p) - 1 : Tail(Writes(p))[i] = Writes(Tail(p))[i]
  <2> SUFFICES ASSUME NEW i \in 1 .. Len(p) - 1
               PROVE  Tail(Writes(p))[i] = Writes(Tail(p))[i]
    OBVIOUS
  <2>1. i + 1 \in 1 .. Len(p) BY <1>1
  <2> QED BY <2>1, <1>1, <1>2, <1>4
<1>6. Tail(Writes(p)) = Writes(Tail(p)) BY <1>2, <1>4, <1>5, SeqEqual
<1>7. Head(Writes(p)) = p[1].write
  <2>1. Writes(p)[1] = p[1].write BY <1>1, <1>2
  <2> QED BY <2>1, <1>3
<1> QED BY <1>3, <1>6, <1>7

\* What a step must show for the pipeline, the stream and the call after it.
LEMMA RemoteFrom ==
    ASSUME IsPrefix(pipeline', queue'[current_user']), Len(pipeline') <= kMaxPendingWrites,
           pipeline' \in Seq(Batch), queue'[current_user'] \in Seq(Batch),
           pipeline' # <<>> => IsStarted(stream'), IsStarted(stream') => network',
           StreamFits(stream', pipeline'), CallFits(stream', call'), DoneInOrder(call'),
           CallMatches(stream', call', pipeline')
    PROVE  RemoteInStep'
<1>1. stream'.idle => stream'.state = "Open" /\ pipeline' = <<>> BY DEF StreamFits
<1>2. PipelineInStep' BY <1>1, PipelineFromPrefix
<1>3. StreamInStep' BY DEF StreamInStep, StreamFits, CallFits, IsStarted
<1>4. CallInOrder' BY DEF CallInOrder, DoneInOrder
<1> QED BY <1>2, <1>3, <1>4 DEF RemoteInStep

\* A stream that is not open.
LEMMA RemoteClosed ==
    ASSUME IsPrefix(pipeline', queue'[current_user']), Len(pipeline') <= kMaxPendingWrites,
           pipeline' \in Seq(Batch), queue'[current_user'] \in Seq(Batch),
           pipeline' # <<>> <=> IsStarted(stream'), IsStarted(stream') => network',
           stream'.state # "Open", stream'.handshake = FALSE, stream'.idle = FALSE,
           call' = NoCall
    PROVE  RemoteInStep'
<1>1. call'.status = "none" /\ call'.done = <<>> BY DEF NoCall
<1>2. StreamFits(stream', pipeline') BY DEF StreamFits
<1>3. CallFits(stream', call') BY <1>1 DEF CallFits
<1>4. DoneInOrder(call') BY <1>1 DEF DoneInOrder
<1>5. CallMatches(stream', call', pipeline') BY <1>1 DEF CallMatches
<1> QED BY <1>2, <1>3, <1>4, <1>5, RemoteFrom

\* A step of the call alone.
LEMMA CallMoved ==
    ASSUME IInv, UNCHANGED <<network, pipeline, stream, queue, current_user>>,
           CallFits(stream, call'), DoneInOrder(call'), CallMatches(stream, call', pipeline)
    PROVE  RemoteInStep'
<1>1. /\ IsPrefix(pipeline', queue'[current_user']) /\ Len(pipeline') <= kMaxPendingWrites
      /\ pipeline' \in Seq(Batch) /\ queue'[current_user'] \in Seq(Batch)
  BY PipelineIsPrefix DEF IInv
<1>2. /\ pipeline' # <<>> => IsStarted(stream')
      /\ IsStarted(stream') => network'
      /\ StreamFits(stream', pipeline') /\ CallFits(stream', call')
      /\ CallMatches(stream', call', pipeline')
  BY DEF IInv, PipelineInStep, StreamInStep
<1> QED BY <1>1, <1>2, RemoteFrom

\* No step of these.
LEMMA RemoteSame ==
    ASSUME IInv, UNCHANGED <<network, pipeline, stream, call, queue, current_user>>
    PROVE  RemoteInStep'
<1>1. CallMatches(stream, call', pipeline) BY PipelineMatches DEF IInv
<1>2. CallFits(stream, call') /\ DoneInOrder(call') BY DEF IInv, StreamInStep, CallInOrder
<1> QED BY <1>1, <1>2, CallMoved

\* The stream starts anew for the user.
LEMMA RemoteRestarted ==
    ASSUME IInv, current_user' \in User, queue' = queue, network',
           FillWritePipeline(<<>>, queue[current_user'], Idle, NoCall)
    PROVE  RemoteInStep'
<1>1. Fills(<<>>, queue'[current_user'], Idle, NoCall)
  <2> DEFINE u == current_user'
  <2>1. u \in User /\ FillWritePipeline(<<>>, queue[u], Idle, NoCall) OBVIOUS
  <2> HIDE DEF u
  <2>2. Fills(<<>>, queue[u], Idle, NoCall) BY <2>1, RestartFills
  <2> QED BY <2>2 DEF u
<1>2. queue'[current_user'] \in Seq(Batch) BY DEF IInv, TypeOK
<1>3. <<>> \in Seq(Batch) BY EmptySeq
<1>4. NoCall.status = "none" /\ NoCall.done = <<>> BY DEF NoCall
<1>5. CallFits(Idle, NoCall) /\ DoneInOrder(NoCall) /\ CallMatches(Idle, NoCall, <<>>)
  BY <1>4, IdleFits DEF CallFits, DoneInOrder, CallMatches
<1> QED BY <1>1, <1>2, <1>3, <1>5, IdleFits, FillsKeep

\* The stream ends with an error.
LEMMA RemoteFinished ==
    ASSUME IInv, NEW status, OnStreamFinish(status)
    PROVE  RemoteInStep'
<1> DEFINE closed == [Idle EXCEPT !.state = "Error"]
<1>1. /\ current_user' = current_user /\ network' = network
      /\ WriteFailed(status) => HandleWriteError
      /\ ~WriteFailed(status) =>
            /\ call' = NoCall
            /\ stream' = IF ShouldStartWriteStream(pipeline, closed)
                         THEN Started(closed) ELSE closed
            /\ UNCHANGED <<pipeline, queue>>
  BY DEF OnStreamFinish
<1>2. TypeOK /\ QueuesInOrder /\ PipelineInStep /\ StreamInStep BY DEF IInv
<1>3. CASE WriteFailed(status)
  <2>1. HandleWriteError /\ pipeline # <<>> /\ stream.handshake
    BY <1>1, <1>3 DEF WriteFailed
  <2>2. Fills(Tail(pipeline), queue'[current_user'], Idle, NoCall)
        /\ RemoveFromQueue(Head(pipeline).id)
    BY <2>1, <1>1, WriteErrorFills
  <2>3. Tail(pipeline) \in Seq(Batch) /\ queue'[current_user'] \in Seq(Batch)
    BY <2>1, <2>2, <1>1, <1>2, FrontRemoved DEF TypeOK
  <2>4. network'
    <3>1. IsStarted(stream) BY <2>1, <1>2 DEF StreamInStep, StreamFits, IsStarted
    <3> QED BY <3>1, <1>1, <1>2 DEF StreamInStep
  <2>5. NoCall.status = "none" /\ NoCall.done = <<>> BY DEF NoCall
  <2>6. CallFits(Idle, NoCall) /\ DoneInOrder(NoCall)
        /\ CallMatches(Idle, NoCall, Tail(pipeline))
    BY <2>5, IdleFits DEF CallFits, DoneInOrder, CallMatches
  <2> QED BY <2>2, <2>3, <2>4, <2>6, IdleFits, FillsKeep
<1>4. CASE ~WriteFailed(status)
  <2>1. /\ closed.state = "Error" /\ closed.handshake = FALSE /\ closed.idle = FALSE
        /\ Started(closed).state = "Backoff"
        /\ Started(closed).handshake = FALSE /\ Started(closed).idle = FALSE
    <3>1. closed \in Stream BY IdleFits DEF Stream
    <3>2. closed.state = "Error" /\ closed.handshake = FALSE /\ closed.idle = FALSE
      BY IdleFits DEF Stream
    <3> HIDE DEF closed
    <3>3. Started(closed) = [closed EXCEPT !.state = "Backoff"] BY <3>2 DEF Started
    <3> QED BY <3>1, <3>2, <3>3 DEF Stream
  <2>2. ShouldStartWriteStream(pipeline, closed) <=> network' /\ pipeline # <<>>
    BY <2>1 DEF ShouldStartWriteStream, IsStarted
  <2>3. pipeline # <<>> => network
    BY <1>2 DEF PipelineInStep, StreamInStep
  <2>4. /\ call' = NoCall /\ pipeline' = pipeline /\ queue' = queue
        /\ stream' = IF pipeline # <<>> THEN Started(closed) ELSE closed
    BY <1>1, <1>4, <2>2, <2>3
  <2>5. /\ stream'.state = IF pipeline # <<>> THEN "Backoff" ELSE "Error"
        /\ stream'.handshake = FALSE /\ stream'.idle = FALSE
    BY <2>1, <2>4
  <2>6. IsStarted(stream') <=> pipeline' # <<>> BY <2>4, <2>5 DEF IsStarted
  <2>7. stream'.state # "Open" BY <2>5
  <2>8. /\ IsPrefix(pipeline', queue'[current_user']) /\ Len(pipeline') <= kMaxPendingWrites
        /\ pipeline' \in Seq(Batch) /\ queue'[current_user'] \in Seq(Batch)
    BY <1>1, <1>2, <2>4, PipelineIsPrefix
  <2> HIDE DEF closed
  <2> QED BY <1>1, <2>3, <2>4, <2>5, <2>6, <2>7, <2>8, RemoteClosed
<1> QED BY <1>3, <1>4

\* The steps of the call and its service.
LEMMA CallKept ==
    ASSUME IInv,
           \/ OnWriteStreamHandshakeComplete \/ OnOperationFailed
           \/ Arrive \/ OperationFails \/ Serve \/ Break
    PROVE  RemoteInStep'
<1> DEFINE D == [type : {"read"}, response : Response] \cup [type : {"failed", "finished"}]
<1>1. /\ call \in Call /\ stream \in Stream /\ pipeline \in Seq(Batch)
      /\ CallFits(stream, call) /\ DoneInOrder(call) /\ CallMatches(stream, call, pipeline)
      /\ StreamFits(stream, pipeline)
  BY PipelineMatches DEF IInv, TypeOK, StreamInStep, CallInOrder
<1>2. /\ call.toServer \in Seq(Response) /\ call.toClient \in Seq(Response)
      /\ call.done \in Seq(D) /\ call.status \in {"none", "ok", "refused", "broken"}
  BY <1>1 DEF Call
<1>3. call.status = "ok" => call.done = <<>> \/ \E r \in Response : call.done = <<Read(r)>>
  BY <1>1 DEF DoneInOrder
<1>4. call.done # <<>> \/ call.toClient # <<>> \/ call.toServer # <<>>
         \/ call.status # "none" => stream.state = "Open"
  BY <1>1 DEF CallFits, NoCall
<1>5. CASE OnWriteStreamHandshakeComplete
  <2>1. /\ call.done # <<>> /\ Head(call.done).type = "read" /\ ~stream.handshake
        /\ stream' = [stream EXCEPT !.handshake = TRUE, !.idle = stream.idle /\ pipeline = <<>>]
        /\ call' = [call EXCEPT !.done = Tail(call.done),
                                !.toServer = call.toServer \o Writes(pipeline)]
        /\ UNCHANGED <<queue, current_user, network, pipeline>>
    BY <1>5 DEF OnWriteStreamHandshakeComplete, Writes, store
  <2>2. stream.state = "Open" /\ stream.idle = FALSE
    BY <2>1, <1>1, <1>4 DEF StreamFits, Stream, IsStarted
  <2>3. stream'.state = "Open" /\ stream'.handshake = TRUE /\ stream'.idle = FALSE
    BY <2>1, <2>2, <1>1 DEF Stream
  <2>4. /\ call'.status = call.status /\ call'.user = call.user /\ call'.done = Tail(call.done)
        /\ call'.toClient = call.toClient /\ call'.toServer = call.toServer \o Writes(pipeline)
    BY <2>1, <1>1 DEF Call
  <2>5. CallFits(stream', call')
    BY <2>2, <2>3, <2>4, <1>1 DEF CallFits
  <2>6. \E r \in Response : \/ call.done = <<Read(r)>>
                            \/ /\ call.done = <<Read(r), [type |-> "failed"]>>
                               /\ call.status \in {"refused", "broken"}
    BY <2>1, <1>1 DEF DoneInOrder
  <2>7. PICK r \in Response : \/ call.done = <<Read(r)>>
                              \/ /\ call.done = <<Read(r), [type |-> "failed"]>>
                                 /\ call.status \in {"refused", "broken"}
    BY <2>6
  <2>8. \/ call'.done = <<>>
        \/ /\ call'.done = <<[type |-> "failed"]>> /\ call'.status \in {"refused", "broken"}
    BY <2>4, <2>7, ShortSequences
  <2>9. DoneInOrder(call') BY <2>8 DEF DoneInOrder
  <2>10. CallMatches(stream', call', pipeline')
    <3> SUFFICES ASSUME call'.status = "ok"
                 PROVE  UnreadOf(call') \o call'.toServer = Writes(pipeline)
      BY <2>1, <2>3 DEF CallMatches
    <3>1. call.status = "ok" /\ call.done = <<Read(r)>> /\ call'.done = <<>>
      BY <2>4, <2>7, <2>8
    <3>2. (<<r>> \o call.toClient) \o call.toServer = <<0>>
      <4>1. call.done # <<>> /\ Head(call.done) = Read(r) BY <3>1, <2>1, ShortSequences
      <4>2. Read(r).type = "read" /\ Read(r).response = r BY DEF Read
      <4>3. UnreadOf(call) = <<r>> \o call.toClient BY <4>1, <4>2 DEF UnreadOf
      <4>4. UnreadOf(call) \o call.toServer = <<0>> BY <3>1, <2>1, <1>1 DEF CallMatches
      <4> QED BY <4>3, <4>4
    <3>3. call.toClient \o call.toServer = Tail(<<0>>)
      <4> DEFINE w == (<<r>> \o call.toClient) \o call.toServer
      <4>1. Tail(w) = call.toClient \o call.toServer
        <5> DEFINE a == call.toClient
                   b == call.toServer
        <5>1. a \in Seq(Response) /\ b \in Seq(Response) /\ r \in Response BY <1>2
        <5> HIDE DEF a, b
        <5>2. Tail((<<r>> \o a) \o b) = a \o b BY <5>1, HeadDropped
        <5> QED BY <5>2 DEF a, b
      <4>2. w = <<0>> BY <3>2
      <4> HIDE DEF w
      <4> QED BY <4>1, <4>2
    <3>4. call.toClient \o call.toServer = <<>> BY <3>3
    <3>5. call.toClient = <<>> /\ call.toServer = <<>>
      BY <3>4, <1>2, ConcatEqualIffEmpty
    <3>6. Writes(pipeline) \in Seq(Response) BY <1>1, WritesOfBatches
    <3>7. UnreadOf(call') = <<>>
      BY <3>1, <3>5, <2>4, <1>2, ConcatEmptySeq DEF UnreadOf
    <3>8. call'.toServer = Writes(pipeline) BY <3>5, <3>6, <2>4, ConcatEmptySeq
    <3> QED BY <3>6, <3>7, <3>8, ConcatEmptySeq
  <2>11. StreamFits(stream', pipeline') BY <2>3 DEF StreamFits
  <2>12. /\ IsPrefix(pipeline', queue'[current_user']) /\ Len(pipeline') <= kMaxPendingWrites
         /\ pipeline' \in Seq(Batch) /\ queue'[current_user'] \in Seq(Batch)
    BY <2>1, PipelineIsPrefix DEF IInv
  <2>13. IsStarted(stream') /\ network'
    BY <2>1, <2>2, <2>3 DEF IInv, StreamInStep, IsStarted
  <2> QED BY <2>5, <2>9, <2>10, <2>11, <2>12, <2>13, RemoteFrom
<1>6. CASE OnOperationFailed
  <2>1. /\ call.done # <<>> /\ Head(call.done).type = "failed"
        /\ call' = [call EXCEPT !.done = <<[type |-> "finished"]>>, !.toClient = <<>>]
        /\ UNCHANGED <<queue, current_user, network, pipeline, stream>>
    BY <1>6 DEF OnOperationFailed, store
  <2>2. /\ call'.status = call.status /\ call'.done = <<[type |-> "finished"]>>
        /\ call'.toClient = <<>>
    BY <2>1, <1>1 DEF Call
  <2>3. call.status \in {"refused", "broken"}
    <3>1. ASSUME NEW r, call.done = <<Read(r)>> PROVE FALSE
      <4>1. Head(call.done) = Read(r) BY <3>1, ShortSequences
      <4> QED BY <4>1, <2>1 DEF Read
    <3> QED BY <3>1, <2>1, <1>1 DEF DoneInOrder
  <2>4. CallFits(stream, call') BY <2>2, <2>3, <1>1, <1>4 DEF CallFits
  <2>5. DoneInOrder(call') BY <2>2, <2>3 DEF DoneInOrder
  <2>6. CallMatches(stream, call', pipeline) BY <2>2, <2>3 DEF CallMatches
  <2> QED BY <2>1, <2>4, <2>5, <2>6, CallMoved
<1>7. CASE Arrive
  <2>1. /\ call.toClient # <<>> /\ Types = {}
        /\ call' = [call EXCEPT !.done = <<Read(Head(call.toClient))>>,
                                !.toClient = Tail(call.toClient)]
        /\ UNCHANGED <<queue, current_user, network, pipeline, stream>>
    BY <1>7 DEF Arrive, store, Read
  <2>2. call.done = <<>>
    <3>1. DOMAIN call.done = {} 
      <4> SUFFICES ASSUME NEW i \in DOMAIN call.done PROVE FALSE OBVIOUS
      <4>1. call.done[i].type \in Types BY DEF Types
      <4> QED BY <4>1, <2>1
    <3> QED BY <3>1, <1>2, EmptyDomain
  <2>3. /\ call'.status = call.status /\ call'.user = call.user
        /\ call'.done = <<Read(Head(call.toClient))>>
        /\ call'.toClient = Tail(call.toClient) /\ call'.toServer = call.toServer
    BY <2>1, <1>1 DEF Call
  <2>4. Head(call.toClient) \in Response BY <2>1, <1>2, HeadTailProperties
  <2>5. CallFits(stream, call') BY <2>1, <2>3, <1>1, <1>4 DEF CallFits
  <2>6. DoneInOrder(call') BY <2>3, <2>4 DEF DoneInOrder
  <2>7. UnreadOf(call') = UnreadOf(call)
    <3>1. UnreadOf(call) = call.toClient BY <2>2, <1>2, ConcatEmptySeq DEF UnreadOf
    <3>2. UnreadOf(call') = <<Head(call.toClient)>> \o Tail(call.toClient)
      BY <2>3 DEF UnreadOf, Read
    <3>3. <<Head(call.toClient)>> \o Tail(call.toClient) = call.toClient
      BY <2>1, <1>2, HeadAndTail
    <3> QED BY <3>1, <3>2, <3>3
  <2>8. CallMatches(stream, call', pipeline) BY <2>3, <2>7, <1>1 DEF CallMatches
  <2> QED BY <2>1, <2>5, <2>6, <2>8, CallMoved
<1>8. CASE OperationFails
  <2>1. /\ call.status \in {"refused", "broken"} /\ Types \subseteq {"read"}
        /\ call' = [call EXCEPT !.done = Append(call.done, [type |-> "failed"])]
        /\ UNCHANGED <<queue, current_user, network, pipeline, stream>>
    BY <1>8 DEF OperationFails, store
  <2>2. /\ call'.status = call.status /\ call'.user = call.user
        /\ call'.done = Append(call.done, [type |-> "failed"])
    BY <2>1, <1>1 DEF Call
  <2>3. call.done = <<>> \/ \E r \in Response : call.done = <<Read(r)>>
    <3>1. \A i \in DOMAIN call.done : call.done[i].type = "read" BY <2>1 DEF Types
    <3>2. ASSUME call.done = <<[type |-> "failed"]>> PROVE FALSE BY <3>1, <3>2
    <3>3. ASSUME call.done = <<[type |-> "finished"]>> PROVE FALSE BY <3>1, <3>3
    <3>4. ASSUME NEW r \in Response, call.done = <<Read(r), [type |-> "failed"]>> PROVE FALSE
      <4>1. 2 \in DOMAIN call.done /\ call.done[2].type = "failed" BY <3>4
      <4> QED BY <4>1, <3>1
    <3> QED BY <3>2, <3>3, <3>4, <1>1 DEF DoneInOrder
  <2>4. DoneInOrder(call')
    <3>1. CASE call.done = <<>>
      <4>1. call'.done = <<[type |-> "failed"]>> BY <2>2, <3>1
      <4> QED BY <4>1, <2>1, <2>2 DEF DoneInOrder
    <3>2. CASE \E r \in Response : call.done = <<Read(r)>>
      <4>1. PICK r \in Response : call.done = <<Read(r)>> BY <3>2
      <4>2. Read(r) \in D /\ [type |-> "failed"] \in D BY DEF Read
      <4>3. call'.done = <<Read(r), [type |-> "failed"]>> 
        <5> DEFINE x == Read(r)
                   y == [type |-> "failed"]
        <5>1. x \in D /\ y \in D BY <4>2
        <5> HIDE DEF x, y, D
        <5>2. Append(<<x>>, y) = <<x, y>> BY <5>1, AppendToOne
        <5> QED BY <2>2, <4>1, <5>2 DEF x, y
      <4> QED BY <4>3, <2>1, <2>2 DEF DoneInOrder
    <3> QED BY <3>1, <3>2, <2>3
  <2>5. CallFits(stream, call') BY <2>1, <2>2, <1>1, <1>4 DEF CallFits
  <2>6. CallMatches(stream, call', pipeline) BY <2>1, <2>2 DEF CallMatches
  <2> QED BY <2>1, <2>4, <2>5, <2>6, CallMoved
<1>9. CASE Serve
  <2>1. /\ call.status = "ok" /\ call.toServer # <<>>
        /\ \/ call' = [call EXCEPT !.toServer = Tail(call.toServer), !.status = "refused"]
           \/ call' = [call EXCEPT !.toServer = Tail(call.toServer),
                                   !.toClient = Append(call.toClient, Head(call.toServer))]
        /\ UNCHANGED <<queue, current_user, network, pipeline, stream>>
    BY <1>9 DEF Serve, store
  <2>2. stream.state = "Open" BY <2>1, <1>4
  <2>3. /\ call'.user = call.user /\ call'.done = call.done /\ call'.status \in {"ok", "refused"}
        /\ call'.status = "ok" =>
              /\ call'.toServer = Tail(call.toServer)
              /\ call'.toClient = Append(call.toClient, Head(call.toServer))
    BY <2>1, <1>1 DEF Call
  <2>4. CallFits(stream, call') BY <2>1, <2>2, <2>3, <1>1 DEF CallFits
  <2>5. DoneInOrder(call') BY <2>1, <2>3, <1>3 DEF DoneInOrder
  <2>6. CallMatches(stream, call', pipeline)
    <3> DEFINE u == IF call.done # <<>> /\ Head(call.done).type = "read"
                    THEN <<Head(call.done).response>> ELSE <<>>
    <3>1. u \in Seq(Response)
      <4>1. call.done # <<>> => Head(call.done) \in D BY <1>2, HeadTailProperties
      <4>2. call.done # <<>> /\ Head(call.done).type = "read"
               => Head(call.done).response \in Response
        BY <4>1
      <4> QED BY <4>2, EmptySeq
    <3>2. UnreadOf(call) = u \o call.toClient BY DEF UnreadOf
    <3>3. call'.status = "ok" =>
             UnreadOf(call') = u \o Append(call.toClient, Head(call.toServer))
      BY <2>3 DEF UnreadOf
    <3> HIDE DEF u
    <3>4. (u \o call.toClient) \o call.toServer =
            (u \o Append(call.toClient, Head(call.toServer))) \o Tail(call.toServer)
      <4> DEFINE a == call.toClient
                 b == call.toServer
      <4>1. a \in Seq(Response) /\ b \in Seq(Response) /\ b # <<>> BY <2>1, <1>2
      <4> HIDE DEF a, b
      <4>2. (u \o a) \o b = (u \o Append(a, Head(b))) \o Tail(b)
        BY <3>1, <4>1, HeadMoves, Zenon
      <4> QED BY <4>2 DEF a, b
    <3> QED BY <3>2, <3>3, <3>4, <2>1, <2>3, <1>1 DEF CallMatches
  <2> QED BY <2>1, <2>4, <2>5, <2>6, CallMoved
<1>10. CASE Break
  <2>1. /\ call.status = "ok" /\ UNCHANGED <<queue, current_user, network, pipeline, stream>>
        /\ \/ \E n \in 0 .. Len(call.toClient) :
                 call' = [call EXCEPT !.status = "broken",
                                      !.toClient = SubSeq(call.toClient, 1, n)]
           \/ call' = [call EXCEPT !.status = "refused", !.toServer = Tail(call.toServer)]
    BY <1>10 DEF Break, store
  <2>2. call'.status \in {"refused", "broken"} /\ call'.done = call.done
    BY <2>1, <1>1 DEF Call
  <2>3. CallFits(stream, call') BY <2>1, <2>2, <1>1, <1>4 DEF CallFits
  <2>4. DoneInOrder(call') BY <2>1, <2>2, <1>3 DEF DoneInOrder
  <2>5. CallMatches(stream, call', pipeline) BY <2>2 DEF CallMatches
  <2> QED BY <2>1, <2>3, <2>4, <2>5, CallMoved
<1> QED BY <1>5, <1>6, <1>7, <1>8, <1>9, <1>10

\* A token opens only a stream that waits for one.
LEMMA TokenOpens ==
    ASSUME IInv, worker # <<>>, Head(worker).type # "user", Head(worker).close = close_count
    PROVE  stream.state = "Starting"
<1>1. worker \in Seq(Message) BY DEF IInv, TypeOK
<1>2. 1 \in DOMAIN worker /\ Head(worker) = worker[1]
  <2>1. Len(worker) \in Nat \ {0} /\ DOMAIN worker = 1 .. Len(worker)
    BY <1>1, EmptySeq, LenProperties
  <2> QED BY <2>1
<1>3. 1 \in Live(worker, close_count) BY <1>2 DEF Live
<1> QED BY <1>3 DEF IInv, TokensInStep, TokensFit

LEMMA RemoteKept ==
    ASSUME IInv, [Next]_vars
    PROVE  RemoteInStep'
<1>0. TypeOK /\ QueuesInOrder /\ StreamInStep /\ CallInOrder /\ PipelineInStep /\ ProcessGone
  BY DEF IInv
<1>1. /\ IsPrefix(pipeline, queue[current_user]) /\ Len(pipeline) <= kMaxPendingWrites
      /\ pipeline \in Seq(Batch) /\ stream \in Stream /\ call \in Call
      /\ queue \in [User -> Seq(Batch)] /\ current_user \in User
      /\ queue[current_user] \in Seq(Batch)
      /\ pipeline # <<>> => IsStarted(stream)
      /\ IsStarted(stream) => network
      /\ StreamFits(stream, pipeline) /\ CallFits(stream, call)
      /\ DoneInOrder(call) /\ CallMatches(stream, call, pipeline)
      /\ stream.handshake \in BOOLEAN /\ stream.idle \in BOOLEAN
  BY <1>0, PipelineIsPrefix, PipelineMatches
  DEF TypeOK, StreamInStep, CallInOrder, PipelineInStep, Stream
<1>2. \A q \in Seq(Batch) : IsPrefix(<<>>, q) /\ Len(<<>>) <= kMaxPendingWrites
  <2> TAKE q \in Seq(Batch)
  <2>1. Len(<<>>) = 0 /\ Len(q) \in Nat BY EmptySeq, LenProperties
  <2> QED BY <2>1, WritesAssumption DEF IsPrefix
<1>3. <<>> \in Seq(Batch) BY EmptySeq
<1>4. CASE MainQueue
  BY <1>4, RemoteSame DEF MainQueue, Notice, GetTokenAnswered, store, remote
<1>5. CASE HandleCredentialChange
  <2>1. current_user' \in User
    <3>1. worker # <<>> /\ current_user' = Head(worker).user BY <1>5 DEF HandleCredentialChange
    <3>2. Head(worker) \in Message BY <3>1, <1>0, MessagesMoved DEF TypeOK
    <3> QED BY <3>1, <3>2 DEF Message
  <2>2. queue' = queue /\ queue'[current_user'] \in Seq(Batch)
    BY <2>1, <1>1, <1>5 DEF HandleCredentialChange
  <2>3. CASE network
    <3>1. network' = network /\ FillWritePipeline(<<>>, queue[current_user'], Idle, NoCall)
      BY <1>5, <2>3 DEF HandleCredentialChange, RestartNetwork
    <3> QED BY <3>1, <2>1, <2>2, <2>3, RemoteRestarted
  <2>4. CASE ~network
    <3>1. UNCHANGED <<network, pipeline, stream, call>>
      BY <1>5, <2>4 DEF HandleCredentialChange, remote
    <3>2. ~IsStarted(stream) /\ pipeline = <<>> BY <2>4, <1>1
    <3>3. stream.state # "Open" /\ stream.handshake = FALSE /\ stream.idle = FALSE
      BY <3>2, <1>1 DEF IsStarted, StreamFits
    <3>4. call = NoCall BY <3>3, <1>1 DEF CallFits
    <3> QED BY <3>1, <3>2, <3>3, <3>4, <2>2, <1>2, <1>3, RemoteClosed
  <2> QED BY <2>3, <2>4
<1>6. CASE ResumeStartWithCredentials
  <2>1. /\ worker # <<>> /\ Head(worker).type = "token"
        /\ UNCHANGED <<current_user, queue, network, pipeline>>
    BY <1>6 DEF ResumeStartWithCredentials, store
  <2>2. CASE Head(worker).close # close_count
    <3>1. UNCHANGED <<stream, call>> BY <1>6, <2>2 DEF ResumeStartWithCredentials
    <3> QED BY <3>1, <2>1, RemoteSame
  <2>3. CASE Head(worker).close = close_count
    <3>1. stream.state = "Starting" BY <2>1, <2>3, TokenOpens
    <3>2. stream.handshake = FALSE /\ stream.idle = FALSE /\ IsStarted(stream)
      BY <3>1, <1>1 DEF StreamFits, IsStarted
    <3>3. /\ stream' = [stream EXCEPT !.state = "Open"]
          /\ call' = [NoCall EXCEPT !.user = Head(worker).user, !.toServer = <<0>>,
                                    !.status = "ok"]
      BY <1>6, <2>3 DEF ResumeStartWithCredentials
    <3>4. stream'.state = "Open" /\ stream'.handshake = FALSE /\ stream'.idle = FALSE
      BY <3>2, <3>3, <1>1 DEF Stream
    <3>5. /\ call'.user = Head(worker).user /\ call'.toServer = <<0>> /\ call'.status = "ok"
          /\ call'.toClient = <<>> /\ call'.done = <<>>
      BY <3>3 DEF NoCall
    <3>6. Head(worker).user \in User BY <2>1, <1>0, MessagesMoved DEF TypeOK, Message
    <3>7. StreamFits(stream', pipeline')
      BY <3>2, <3>4, <2>1, <1>1 DEF StreamFits
    <3>8. CallFits(stream', call') BY <3>4, <3>5, <3>6 DEF CallFits
    <3>9. DoneInOrder(call') BY <3>5 DEF DoneInOrder
    <3>10. CallMatches(stream', call', pipeline')
      <4>1. UnreadOf(call') = <<>> BY <3>5, <1>3, ConcatEmptySeq DEF UnreadOf
      <4>2. <<0>> \in Seq(Nat) OBVIOUS
      <4>3. UnreadOf(call') \o call'.toServer = <<0>>
        BY <4>1, <4>2, <3>5, ConcatEmptySeq
      <4> QED BY <4>3, <3>4 DEF CallMatches
    <3>11. IsStarted(stream') BY <3>4 DEF IsStarted
    <3>12. network' BY <3>2, <2>1, <1>1
    <3>13. /\ IsPrefix(pipeline', queue'[current_user']) /\ Len(pipeline') <= kMaxPendingWrites
           /\ pipeline' \in Seq(Batch) /\ queue'[current_user'] \in Seq(Batch)
      BY <2>1, <1>1
    <3> QED BY <3>7, <3>8, <3>9, <3>10, <3>11, <3>12, <3>13, RemoteFrom
  <2> QED BY <2>2, <2>3
<1>7. CASE NoCredentials
  <2>1. CASE OnStreamFinish("broken") BY <2>1, RemoteFinished
  <2>2. CASE UNCHANGED <<running, auth, current_user, store, remote, history, signIns, faults>>
    BY <2>2, RemoteSame DEF store, remote
  <2> QED BY <2>1, <2>2, <1>7 DEF NoCredentials
<1>8. CASE BackoffElapsed
  <2>1. /\ stream.state = "Backoff" /\ stream' = [stream EXCEPT !.state = "Starting"]
        /\ UNCHANGED <<current_user, queue, network, pipeline, call>>
    BY <1>8 DEF BackoffElapsed, store
  <2>2. stream.handshake = FALSE /\ stream.idle = FALSE /\ IsStarted(stream) /\ call = NoCall
    BY <2>1, <1>1 DEF StreamFits, IsStarted, CallFits
  <2>3. stream'.state = "Starting" /\ stream'.handshake = FALSE /\ stream'.idle = FALSE
    BY <2>1, <2>2, <1>1 DEF Stream
  <2>4. pipeline # <<>> BY <2>2, <1>1 DEF StreamFits
  <2>5. IsStarted(stream') /\ stream'.state # "Open" BY <2>3 DEF IsStarted
  <2>6. pipeline' # <<>> /\ network' /\ call' = NoCall BY <2>1, <2>2, <2>4, <1>1
  <2>7. /\ IsPrefix(pipeline', queue'[current_user']) /\ Len(pipeline') <= kMaxPendingWrites
        /\ pipeline' \in Seq(Batch) /\ queue'[current_user'] \in Seq(Batch)
    BY <2>1, <1>1
  <2> QED BY <2>3, <2>5, <2>6, <2>7, RemoteClosed
<1>9. ASSUME pipeline' = <<>>, call' = NoCall, queue' \in [User -> Seq(Batch)],
             current_user' = current_user, stream' = Idle
      PROVE  RemoteInStep'
  <2>1. queue'[current_user'] \in Seq(Batch) BY <1>1, <1>9
  <2>2. /\ ~IsStarted(stream') /\ stream'.state # "Open"
        /\ stream'.handshake = FALSE /\ stream'.idle = FALSE
    BY <1>9, IdleFits
  <2>3. pipeline' # <<>> <=> IsStarted(stream') BY <2>2, <1>9
  <2> QED BY <2>1, <2>2, <2>3, <1>2, <1>3, <1>9, RemoteClosed
<1>10. CASE IdleTimeout
  <2>1. pipeline = <<>> BY <1>10, <1>1 DEF IdleTimeout, StreamFits
  <2> QED BY <2>1, <1>1, <1>9, <1>10 DEF IdleTimeout, store
<1>11. CASE \/ OnWriteStreamHandshakeComplete \/ OnOperationFailed \/ Transport \/ Serve
            \/ Break
  BY <1>11, CallKept DEF Transport
<1>12. CASE OnWriteStreamMutationResult
  <2> DEFINE c == [call EXCEPT !.done = Tail(call.done)]
  <2>1. /\ Fills(Tail(pipeline), queue'[current_user'], stream, c)
        /\ current_user' = current_user /\ network' = network
        /\ pipeline # <<>> /\ stream.handshake /\ stream.state = "Open"
        /\ c \in Call /\ RemoveFromQueue(Head(pipeline).id)
    BY <1>12, MutationResultFills
  <2>2. Tail(pipeline) \in Seq(Batch) /\ queue'[current_user'] \in Seq(Batch)
    BY <2>1, <1>0, <1>1, FrontRemoved
  <2>3. network' BY <2>1, <1>1 DEF IsStarted
  <2>4. StreamFits(stream, Tail(pipeline)) BY <2>1, <1>1 DEF StreamFits
  <2>5. call.done # <<>> /\ Head(call.done).type = "read"
    BY <1>12 DEF OnWriteStreamMutationResult
  <2>6. /\ c.status = call.status /\ c.user = call.user /\ c.done = Tail(call.done)
        /\ c.toClient = call.toClient /\ c.toServer = call.toServer
    BY <1>1 DEF Call
  <2> HIDE DEF c
  <2>7. CallFits(stream, c) BY <2>1, <2>6, <1>1 DEF CallFits
  <2>8. \E r \in Response : \/ call.done = <<Read(r)>>
                            \/ /\ call.done = <<Read(r), [type |-> "failed"]>>
                               /\ call.status \in {"refused", "broken"}
    <3>1. ASSUME call.done = <<[type |-> "failed"]>> \/ call.done = <<[type |-> "finished"]>>
          PROVE  FALSE
      BY <3>1, <2>5
    <3> QED BY <3>1, <2>5, <1>1 DEF DoneInOrder
  <2>9. PICK r \in Response : \/ call.done = <<Read(r)>>
                              \/ /\ call.done = <<Read(r), [type |-> "failed"]>>
                                 /\ call.status \in {"refused", "broken"}
    BY <2>8
  <2>10. \/ c.done = <<>>
         \/ /\ c.done = <<[type |-> "failed"]>> /\ c.status \in {"refused", "broken"}
    BY <2>6, <2>9, ShortSequences
  <2>11. DoneInOrder(c) BY <2>10 DEF DoneInOrder
  <2>12. CallMatches(stream, c, Tail(pipeline))
    <3> SUFFICES ASSUME c.status = "ok"
                 PROVE  UnreadOf(c) \o c.toServer = Writes(Tail(pipeline))
      BY <2>1 DEF CallMatches
    <3> DEFINE a == call.toClient
               b == call.toServer
    <3>1. call.status = "ok" /\ call.done = <<Read(r)>> /\ c.done = <<>>
      BY <2>6, <2>9, <2>10
    <3>2. a \in Seq(Response) /\ b \in Seq(Response) BY <1>1 DEF Call
    <3>3. UnreadOf(call) = <<r>> \o a
      <4>1. call.done # <<>> /\ Head(call.done) = Read(r) BY <3>1, <2>5, ShortSequences
      <4>2. Read(r).type = "read" /\ Read(r).response = r BY DEF Read
      <4> QED BY <4>1, <4>2 DEF UnreadOf
    <3>4. UnreadOf(call) \o b = Writes(pipeline) BY <3>1, <2>1, <1>1 DEF CallMatches
    <3>5. UnreadOf(c) = a BY <3>1, <2>6, <3>2, ConcatEmptySeq DEF UnreadOf
    <3> HIDE DEF a
    <3>6. c.toServer = b BY <2>6
    <3> HIDE DEF b
    <3>7. (<<r>> \o a) \o b = Writes(pipeline) BY <3>3, <3>4
    <3>8. Tail((<<r>> \o a) \o b) = a \o b BY <3>2, HeadDropped
    <3>9. Tail(Writes(pipeline)) = Writes(Tail(pipeline)) BY <2>1, <1>1, WritesOfRest
    <3> QED BY <3>5, <3>6, <3>7, <3>8, <3>9
  <2> QED BY <2>1, <2>2, <2>3, <2>4, <2>7, <2>11, <2>12, <1>1, FillsKeep
<1>13. CASE Finished BY <1>13, RemoteFinished DEF Finished
<1>14. CASE FirebaseAuth \/ \E r \in requests : TokenRefused(r)
  BY <1>14, RemoteSame
  DEF FirebaseAuth, LookUp, TokenFetched, TokenRefused, Answer, store, remote
<1>15. ASSUME NEW w \in Write, WriteMutations(w) PROVE RemoteInStep'
  <2>1. /\ Fills(pipeline, queue'[current_user'], stream, call)
        /\ current_user' = current_user /\ network' = network
    BY <1>15, WriteMutationsFills
  <2>2. queue'[current_user'] \in Seq(Batch) BY <2>1, <1>0, <1>1, <1>15, BatchAppended
  <2>3. IsStarted(stream) \/ pipeline # <<>> => network' BY <2>1, <1>1
  <2> QED BY <2>1, <2>2, <2>3, <1>1, FillsKeep
<1>16. CASE RegisterPendingWritesCallback
  BY <1>16, RemoteSame DEF RegisterPendingWritesCallback, remote
<1>17. CASE EnableNetwork
  <2>1. /\ Fills(pipeline, queue'[current_user'], stream, call)
        /\ current_user' = current_user /\ network' = TRUE /\ queue' = queue
    BY <1>17, EnableNetworkFills
  <2>2. queue'[current_user'] \in Seq(Batch) BY <2>1, <1>1
  <2> QED BY <2>1, <2>2, <1>1, FillsKeep
<1>18. CASE DisableNetwork
  <2>1. /\ network' = FALSE /\ pipeline' = <<>> /\ call' = NoCall
        /\ queue' = queue /\ current_user' = current_user
        /\ IF IsStarted(stream) THEN stream' = Idle ELSE stream' = stream
    BY <1>18 DEF DisableNetwork, store
  <2>2. CASE IsStarted(stream) BY <2>1, <2>2, <1>1, <1>9
  <2>3. CASE ~IsStarted(stream)
    <3>1. stream.state # "Open" /\ stream.handshake = FALSE /\ stream.idle = FALSE
      BY <2>3, <1>1 DEF IsStarted, StreamFits
    <3> QED BY <3>1, <2>1, <2>3, <1>1, <1>2, <1>3, RemoteClosed
  <2> QED BY <2>2, <2>3
<1>19. CASE ConnectivityChanged
  <2>1. /\ network /\ network' = network /\ current_user' = current_user /\ queue' = queue
        /\ FillWritePipeline(<<>>, queue[current_user], Idle, NoCall)
    BY <1>19 DEF ConnectivityChanged, RestartNetwork, store
  <2> QED BY <2>1, <1>1, RemoteRestarted
<1>20. ASSUME NEW u \in User, SignIn(u) PROVE RemoteInStep'
  BY <1>20, RemoteSame DEF SignIn, store, remote
<1>21. ASSUME NEW u \in User, Initialize(u) PROVE RemoteInStep'
  <2>1. /\ network' = TRUE /\ current_user' = u /\ queue' = queue
        /\ FillWritePipeline(<<>>, queue[u], Idle, NoCall)
    BY <1>21 DEF Initialize
  <2> QED BY <2>1, RemoteRestarted
<1>22. CASE Kill \/ KillInSuccessfulWrite \/ KillInRejectedWrite
  <2>1. pipeline' = <<>> /\ call' = NoCall /\ current_user' = current_user /\ stream' = Idle
    BY <1>22 DEF Kill, KillInSuccessfulWrite, KillInRejectedWrite, Exit
  <2>2. queue' \in [User -> Seq(Batch)]
    <3>1. TypeOK' BY <1>22, TypeKept DEF Next, Disturbance
    <3> QED BY <3>1 DEF TypeOK
  <2> QED BY <2>1, <2>2, <1>9
<1>23. CASE UNCHANGED vars BY <1>23, RemoteSame DEF vars, store, remote
<1> QED
  BY <1>4, <1>5, <1>6, <1>7, <1>8, <1>10, <1>11, <1>12, <1>13, <1>14, <1>15, <1>16,
     <1>17, <1>18, <1>19, <1>20, <1>21, <1>22, <1>23
  DEF Next, WorkerQueue, Timers, Completions, Application, Disturbance

-----------------------------------------------------------------------------
\* The tokens: what happens to them, of any stream.

LEMMA LiveOfTail ==
    ASSUME NEW s \in Seq(Message), s # <<>>, NEW n \in Nat
    PROVE  /\ Upto(s, n) => Upto(Tail(s), n) /\ Head(s).close <= n
           /\ Live(s, n) = {} => Live(Tail(s), n) = {}
           /\ AtMostOne(Live(s, n)) => AtMostOne(Live(Tail(s), n))
           /\ Head(s).type # "user" /\ Head(s).close = n =>
                 Live(s, n) # {} /\ (AtMostOne(Live(s, n)) => Live(Tail(s), n) = {})
<1> DEFINE t == Tail(s)
<1>1. /\ t \in Seq(Message) /\ Len(t) = Len(s) - 1 /\ Len(s) \in Nat \ {0}
      /\ \A i \in 1 .. Len(t) : t[i] = s[i + 1]
      /\ DOMAIN s = 1 .. Len(s) /\ DOMAIN t = 1 .. Len(t) /\ Head(s) = s[1]
  BY HeadTailProperties, EmptySeq, LenProperties
<1> HIDE DEF t
<1>2. \A i \in DOMAIN t : i \in Nat /\ i + 1 \in DOMAIN s /\ i + 1 # 1 /\ t[i] = s[i + 1]
  BY <1>1
<1>3. 1 \in DOMAIN s BY <1>1
<1>4. \A i \in Live(t, n) : i \in Nat /\ i + 1 \in Live(s, n) /\ i + 1 # 1 BY <1>2 DEF Live
<1>5. Upto(s, n) => Upto(t, n) /\ Head(s).close <= n
  <2>1. Upto(s, n) => Head(s).close <= n BY <1>1, <1>3 DEF Upto
  <2>2. Upto(s, n) => Upto(t, n) BY <1>2 DEF Upto
  <2> QED BY <2>1, <2>2
<1>6. Live(s, n) = {} => Live(t, n) = {} BY <1>4
<1>7. AtMostOne(Live(s, n)) => AtMostOne(Live(t, n))
  <2> SUFFICES ASSUME AtMostOne(Live(s, n)), NEW x \in Live(t, n), NEW y \in Live(t, n)
               PROVE  x = y
    BY DEF AtMostOne
  <2>1. x + 1 = y + 1 /\ x \in Nat /\ y \in Nat BY <1>4 DEF AtMostOne
  <2> QED BY <2>1
<1>8. ASSUME Head(s).type # "user", Head(s).close = n
      PROVE  Live(s, n) # {} /\ (AtMostOne(Live(s, n)) => Live(t, n) = {})
  <2>1. 1 \in Live(s, n) BY <1>1, <1>3, <1>8 DEF Live
  <2>2. ASSUME AtMostOne(Live(s, n)), NEW i \in Live(t, n) PROVE FALSE
    <3>1. i + 1 \in Live(s, n) /\ i + 1 # 1 BY <1>4
    <3> QED BY <3>1, <2>1, <2>2 DEF AtMostOne
  <2> QED BY <2>1, <2>2
<1> QED BY <1>5, <1>6, <1>7, <1>8 DEF t

LEMMA LiveOfAppend ==
    ASSUME NEW s \in Seq(Message), NEW m \in Message, NEW n \in Nat
    PROVE  LET t == Append(s, m) IN
           /\ Upto(s, n) /\ m.close <= n => Upto(t, n)
           /\ m.type = "user" \/ m.close # n => Live(t, n) = Live(s, n)
           /\ Live(s, n) = {} => AtMostOne(Live(t, n))
<1> DEFINE t == Append(s, m)
<1>1. /\ t \in Seq(Message) /\ Len(t) = Len(s) + 1 /\ Len(s) \in Nat
      /\ \A i \in 1 .. Len(s) : t[i] = s[i]
      /\ t[Len(s) + 1] = m
      /\ DOMAIN s = 1 .. Len(s)
  BY AppendProperties, LenProperties
<1> HIDE DEF t
<1>2. DOMAIN t = 1 .. Len(s) + 1 BY <1>1, LenProperties
<1>3. \A i \in DOMAIN t : \/ i \in DOMAIN s /\ t[i] = s[i]
                          \/ i = Len(s) + 1 /\ t[i] = m
  BY <1>1, <1>2
<1>4. \A i \in DOMAIN s : i \in DOMAIN t /\ t[i] = s[i] BY <1>1, <1>2
<1>5. Upto(s, n) /\ m.close <= n => Upto(t, n) BY <1>3 DEF Upto
<1>6. m.type = "user" \/ m.close # n => Live(t, n) = Live(s, n)
  BY <1>3, <1>4 DEF Live
<1>7. Live(s, n) = {} => \A i \in Live(t, n) : i = Len(s) + 1 BY <1>3 DEF Live
<1>8. Live(s, n) = {} => AtMostOne(Live(t, n)) BY <1>7 DEF AtMostOne
<1> QED BY <1>5, <1>6, <1>8 DEF t

\* When a stream is closed its tokens are of no use.
LEMMA TokensStale ==
    ASSUME NEW R \in SUBSET Request, NEW m \in Seq(Message), NEW w \in Seq(Message),
           NEW n \in Nat, NEW state, TokensFit(R, m, w, n, state), NEW other
    PROVE  TokensFit(R, m, w, n + 1, other)
<1>1. \A r \in R : r.close \in Nat /\ r.close <= n BY DEF Request, TokensFit
<1>2. ASSUME NEW s \in Seq(Message), Upto(s, n) PROVE Upto(s, n + 1) /\ Live(s, n + 1) = {}
  <2>1. \A i \in DOMAIN s : s[i] \in Message BY LenProperties, ElementOfSeq
  <2>2. \A i \in DOMAIN s : s[i].close \in Nat /\ s[i].close <= n
    BY <2>1, <1>2 DEF Message, Upto
  <2>3. \A i \in DOMAIN s : s[i].close <= n + 1 /\ s[i].close # n + 1 BY <2>2
  <2> QED BY <2>3 DEF Upto, Live
<1>3. Upto(m, n) /\ Upto(w, n) BY DEF TokensFit
<1>4. /\ Upto(m, n + 1) /\ Live(m, n + 1) = {} /\ Upto(w, n + 1) /\ Live(w, n + 1) = {}
  BY <1>2, <1>3
<1>5. (\A r \in R : r.close <= n + 1) /\ Asked(R, n + 1) = {}
  <2>1. \A r \in R : r.close <= n + 1 /\ r.close # n + 1 BY <1>1
  <2> QED BY <2>1 DEF Asked
<1> QED BY <1>4, <1>5 DEF TokensFit, AtMostOne

LEMMA TokensState ==
    ASSUME NEW R, NEW m, NEW w, NEW n, NEW state, NEW other, TokensFit(R, m, w, n, state),
           state # "Starting" \/ other = "Starting"
    PROVE  TokensFit(R, m, w, n, other)
BY DEF TokensFit

LEMMA TokensAsk ==
    ASSUME NEW R, NEW m, NEW w, NEW n \in Nat, NEW state, TokensFit(R, m, w, n, state),
           state # "Starting", NEW r, r.close = n
    PROVE  TokensFit(R \cup {r}, m, w, n, "Starting")
<1>1. Asked(R, n) = {} /\ Live(m, n) = {} /\ Live(w, n) = {} BY DEF TokensFit
<1>2. Asked(R \cup {r}, n) = {r} BY <1>1 DEF Asked
<1>3. \A x \in R \cup {r} : x.close <= n BY DEF TokensFit
<1> QED BY <1>1, <1>2, <1>3 DEF TokensFit, AtMostOne

\* The worker queue has handled its first message; if that was the token of the
\* stream there is no other.
LEMMA TokensHandled ==
    ASSUME NEW R, NEW m, NEW w \in Seq(Message), NEW n \in Nat, NEW state,
           TokensFit(R, m, w, n, state), w # <<>>
    PROVE  /\ TokensFit(R, m, Tail(w), n, state)
           /\ Head(w).type # "user" /\ Head(w).close = n =>
                 \A other : TokensFit(R, m, Tail(w), n, other)
<1>1. /\ Upto(Tail(w), n)
      /\ Live(w, n) = {} => Live(Tail(w), n) = {}
      /\ AtMostOne(Live(Tail(w), n))
      /\ Head(w).type # "user" /\ Head(w).close = n =>
            Live(w, n) # {} /\ Live(Tail(w), n) = {}
  BY LiveOfTail DEF TokensFit
<1>2. TokensFit(R, m, Tail(w), n, state) BY <1>1 DEF TokensFit
<1>3. ASSUME Head(w).type # "user", Head(w).close = n, NEW other
      PROVE  TokensFit(R, m, Tail(w), n, other)
  <2>1. Asked(R, n) = {} /\ Live(m, n) = {} /\ Live(Tail(w), n) = {}
    BY <1>1, <1>3 DEF TokensFit
  <2> QED BY <2>1, <1>2 DEF TokensFit
<1> QED BY <1>2, <1>3

\* Firebase Auth has looked up the user of a request.
LEMMA TokensLookedUp ==
    ASSUME NEW R, NEW m, NEW w, NEW n, NEW state, TokensFit(R, m, w, n, state),
           NEW r \in R, NEW new, new.close = r.close
    PROVE  TokensFit((R \ {r}) \cup {new}, m, w, n, state)
<1> DEFINE N == (R \ {r}) \cup {new}
<1>1. \A x \in N : x.close <= n BY DEF TokensFit
<1>2. Asked(N, n) # {} => Asked(R, n) # {} BY DEF Asked
<1>3. AtMostOne(Asked(N, n))
  <2> SUFFICES ASSUME NEW x \in Asked(N, n), NEW y \in Asked(N, n) PROVE x = y
    BY DEF AtMostOne
  <2>1. \A a, b \in Asked(R, n) : a = b BY DEF TokensFit, AtMostOne
  <2>2. x = new \/ (x \in Asked(R, n) /\ x # r) BY DEF Asked
  <2>3. y = new \/ (y \in Asked(R, n) /\ y # r) BY DEF Asked
  <2>4. new.close = n => r \in Asked(R, n) BY DEF Asked
  <2>5. x.close = n /\ y.close = n BY DEF Asked
  <2> QED BY <2>1, <2>2, <2>3, <2>4, <2>5
<1> HIDE DEF N
<1>4. TokensFit(N, m, w, n, state) BY <1>1, <1>2, <1>3 DEF TokensFit
<1> QED BY <1>4 DEF N

\* A request is answered.
LEMMA TokensAnswered ==
    ASSUME NEW R, NEW m \in Seq(Message), NEW w, NEW n \in Nat, NEW state,
           TokensFit(R, m, w, n, state),
           NEW r \in R, NEW x \in Message, x.close = r.close
    PROVE  TokensFit(R \ {r}, Append(m, x), w, n, state)
<1>1. /\ Upto(m, n) /\ x.close <= n => Upto(Append(m, x), n)
      /\ x.type = "user" \/ x.close # n => Live(Append(m, x), n) = Live(m, n)
      /\ Live(m, n) = {} => AtMostOne(Live(Append(m, x), n))
  BY LiveOfAppend
<1>2. Upto(Append(m, x), n) /\ \A y \in R \ {r} : y.close <= n BY <1>1 DEF TokensFit
<1>3. Asked(R \ {r}, n) \subseteq Asked(R, n) BY DEF Asked
<1>4. CASE x.close = n
  <2>1. r \in Asked(R, n) BY <1>4 DEF Asked
  <2>2. Live(m, n) = {} /\ Live(w, n) = {} /\ AtMostOne(Asked(R, n)) /\ state = "Starting"
    BY <2>1 DEF TokensFit
  <2>3. Asked(R \ {r}, n) = {} BY <2>1, <2>2 DEF Asked, AtMostOne
  <2>4. AtMostOne(Live(Append(m, x), n)) BY <2>2, <1>1
  <2> QED BY <1>2, <2>2, <2>3, <2>4 DEF TokensFit, AtMostOne
<1>5. CASE x.close # n
  <2>1. Live(Append(m, x), n) = Live(m, n) BY <1>5, <1>1
  <2>2. AtMostOne(Asked(R \ {r}, n)) BY <1>3 DEF TokensFit, AtMostOne
  <2>3. Asked(R \ {r}, n) # {} => Asked(R, n) # {} BY <1>3
  <2> QED BY <1>2, <2>1, <2>2, <2>3 DEF TokensFit
<1> QED BY <1>4, <1>5

\* A notice is posted.
LEMMA TokensNotice ==
    ASSUME NEW R, NEW m \in Seq(Message), NEW w, NEW n \in Nat, NEW state,
           TokensFit(R, m, w, n, state), NEW x \in Message, x.type = "user", x.close <= n
    PROVE  TokensFit(R, Append(m, x), w, n, state)
<1>1. Upto(Append(m, x), n) /\ Live(Append(m, x), n) = Live(m, n)
  BY LiveOfAppend DEF TokensFit
<1> QED BY <1>1 DEF TokensFit

\* The main queue hands its first message to the worker queue.
LEMMA TokensPassed ==
    ASSUME NEW R, NEW m \in Seq(Message), NEW w \in Seq(Message), NEW n \in Nat, NEW state,
           TokensFit(R, m, w, n, state), m # <<>>
    PROVE  TokensFit(R, Tail(m), Append(w, Head(m)), n, state)
<1> DEFINE x == Head(m)
           t == Tail(m)
           a == Append(w, x)
<1>1. x \in Message BY HeadTailProperties
<1>2. /\ Upto(m, n) => Upto(t, n) /\ x.close <= n
      /\ Live(m, n) = {} => Live(t, n) = {}
      /\ AtMostOne(Live(m, n)) => AtMostOne(Live(t, n))
      /\ x.type # "user" /\ x.close = n =>
            Live(m, n) # {} /\ (AtMostOne(Live(m, n)) => Live(t, n) = {})
  BY LiveOfTail
<1> HIDE DEF x, t
<1>3. /\ Upto(w, n) /\ x.close <= n => Upto(a, n)
      /\ x.type = "user" \/ x.close # n => Live(a, n) = Live(w, n)
      /\ Live(w, n) = {} => AtMostOne(Live(a, n))
  BY <1>1, LiveOfAppend
<1> HIDE DEF a
<1>4. Upto(t, n) /\ Upto(a, n) /\ AtMostOne(Live(t, n)) /\ \A r \in R : r.close <= n
      /\ AtMostOne(Asked(R, n))
  BY <1>2, <1>3 DEF TokensFit
<1>5. CASE x.type # "user" /\ x.close = n
  <2>1. Live(m, n) # {} /\ Live(t, n) = {} BY <1>2, <1>5 DEF TokensFit
  <2>2. Live(w, n) = {} /\ Asked(R, n) = {} /\ state = "Starting" BY <2>1 DEF TokensFit
  <2>3. AtMostOne(Live(a, n)) BY <2>2, <1>3
  <2>4. TokensFit(R, t, a, n, state) BY <2>1, <2>2, <2>3, <1>4 DEF TokensFit
  <2> QED BY <2>4 DEF x, t, a
<1>6. CASE x.type = "user" \/ x.close # n
  <2>1. Live(a, n) = Live(w, n) BY <1>3, <1>6
  <2>2. TokensFit(R, t, a, n, state) BY <2>1, <1>2, <1>4 DEF TokensFit
  <2> QED BY <2>2 DEF x, t, a
<1> QED BY <1>5, <1>6

\* An answer is dropped and the token asked for again.
LEMMA TokensAskedAgain ==
    ASSUME NEW R, NEW m \in Seq(Message), NEW w, NEW n \in Nat, NEW state,
           TokensFit(R, m, w, n, state), m # <<>>, Head(m).type # "user",
           NEW r, r.close = Head(m).close
    PROVE  TokensFit(R \cup {r}, Tail(m), w, n, state)
<1>1. /\ Upto(Tail(m), n) /\ Head(m).close <= n
      /\ Live(m, n) = {} => Live(Tail(m), n) = {}
      /\ AtMostOne(Live(Tail(m), n))
      /\ Head(m).close = n => Live(m, n) # {} /\ Live(Tail(m), n) = {}
  BY LiveOfTail DEF TokensFit
<1>2. \A x \in R \cup {r} : x.close <= n BY <1>1 DEF TokensFit
<1>3. CASE r.close = n
  <2>1. Live(m, n) # {} /\ Live(Tail(m), n) = {} BY <1>1, <1>3
  <2>2. Live(w, n) = {} /\ Asked(R, n) = {} /\ state = "Starting" BY <2>1 DEF TokensFit
  <2>3. Asked(R \cup {r}, n) = {r} BY <2>2, <1>3 DEF Asked
  <2> QED BY <2>1, <2>2, <2>3, <1>1, <1>2 DEF TokensFit, AtMostOne
<1>4. CASE r.close # n
  <2>1. Asked(R \cup {r}, n) = Asked(R, n) BY <1>4 DEF Asked
  <2> QED BY <2>1, <1>1, <1>2 DEF TokensFit
<1> QED BY <1>3, <1>4

\* A stream that is filled asks for a token only when it has none.
LEMMA FillsTokens ==
    ASSUME NEW p, NEW q, NEW s \in Stream, NEW c, Fills(p, q, s, c), close_count' \in Nat,
           TokensFit(requests, main', worker', close_count', s.state)
    PROVE  TokensInStep'
<1> DEFINE n == close_count'
           r == TokenRequest(n)
<1>1. r.close = n BY DEF TokenRequest
<1> HIDE DEF r
<1>2. CASE IsStarted(s)
  <2>1. requests' = requests /\ stream'.state = s.state BY <1>2 DEF Fills
  <2> QED BY <2>1 DEF TokensInStep, TokensFit, Asked, Live, Upto, AtMostOne
<1>3. CASE ~IsStarted(s)
  <2>1. s.state # "Starting" BY <1>3 DEF IsStarted
  <2>2. CASE network' /\ pipeline' # <<>> /\ s.state # "Error"
    <3>1. stream' = [s EXCEPT !.state = "Starting"] /\ requests' = requests \cup {r}
      BY <1>3, <2>2 DEF Fills, r
    <3>2. stream'.state = "Starting" BY <3>1 DEF Stream
    <3>3. TokensFit(requests \cup {r}, main', worker', n, "Starting")
      BY <2>1, <1>1, TokensAsk
    <3> QED BY <3>1, <3>2, <3>3 DEF TokensInStep, TokensFit, Asked, Live, Upto, AtMostOne
  <2>3. CASE ~(network' /\ pipeline' # <<>> /\ s.state # "Error")
    <3>1. requests' = requests
      BY <1>3, <2>3 DEF Fills
    <3>2. TokensFit(requests, main', worker', n, stream'.state) BY <2>1, TokensState
    <3> QED BY <3>1, <3>2 DEF TokensInStep, TokensFit, Asked, Live, Upto, AtMostOne
  <2> QED BY <2>2, <2>3
<1> QED BY <1>2, <1>3

LEMMA TokensFinished ==
    ASSUME IInv, NEW status, OnStreamFinish(status), main' = main, NEW w \in Seq(Message),
           worker' = w, TokensFit(requests, main, w, close_count, stream.state)
    PROVE  TokensInStep'
<1>1. /\ close_count' = close_count + 1 /\ current_user' = current_user
      /\ WriteFailed(status) => HandleWriteError /\ pipeline # <<>>
      /\ ~WriteFailed(status) => requests' = requests
  BY DEF OnStreamFinish, WriteFailed
<1>2. close_count \in Nat /\ requests \in SUBSET Request /\ main \in Seq(Message)
  BY DEF IInv, TypeOK
<1>3. \A other : TokensFit(requests, main, w, close_count + 1, other) BY <1>2, TokensStale
<1>4. CASE WriteFailed(status)
  <2>1. Fills(Tail(pipeline), queue'[current_user'], Idle, NoCall)
    BY <1>1, <1>4, WriteErrorFills
  <2>2. TokensFit(requests, main', worker', close_count', Idle.state) BY <1>1, <1>3
  <2>3. close_count' \in Nat BY <1>1, <1>2
  <2> QED BY <2>1, <2>2, <2>3, IdleFits, FillsTokens
<1>5. CASE ~WriteFailed(status)
  <2>1. TokensFit(requests', main', worker', close_count', stream'.state)
    BY <1>1, <1>3, <1>5
  <2> QED BY <2>1 DEF TokensInStep, TokensFit, Asked, Live, Upto, AtMostOne
<1> QED BY <1>4, <1>5

\* The stream is restarted: closed if it was started.
LEMMA TokensRestarted ==
    ASSUME IInv, RestartNetwork(queue[current_user']), queue' = queue, current_user' \in User,
           main' = main, NEW w \in Seq(Message), worker' = w,
           TokensFit(requests, main, w, close_count, stream.state)
    PROVE  TokensInStep'
<1>1. /\ close_count' = IF IsStarted(stream) THEN close_count + 1 ELSE close_count
      /\ FillWritePipeline(<<>>, queue[current_user'], Idle, NoCall)
  BY DEF RestartNetwork
<1>2. close_count \in Nat /\ requests \in SUBSET Request /\ main \in Seq(Message)
  BY DEF IInv, TypeOK
<1>3. Fills(<<>>, queue[current_user'], Idle, NoCall)
  <2> DEFINE u == current_user'
  <2>1. u \in User /\ FillWritePipeline(<<>>, queue[u], Idle, NoCall) BY <1>1
  <2> HIDE DEF u
  <2>2. Fills(<<>>, queue[u], Idle, NoCall) BY <2>1, RestartFills
  <2> QED BY <2>2 DEF u
<1>4. TokensFit(requests, main', worker', close_count', Idle.state)
  <2>1. CASE IsStarted(stream)
    <3>1. TokensFit(requests, main, w, close_count + 1, Idle.state) BY <1>2, TokensStale
    <3> QED BY <3>1, <2>1, <1>1
  <2>2. CASE ~IsStarted(stream)
    <3>1. stream.state # "Starting" BY <2>2 DEF IsStarted
    <3>2. TokensFit(requests, main, w, close_count, Idle.state) BY <3>1, TokensState
    <3> QED BY <3>2, <2>2, <1>1
  <2> QED BY <2>1, <2>2
<1>5. close_count' \in Nat BY <1>1, <1>2
<1> QED BY <1>3, <1>4, <1>5, IdleFits, FillsTokens

LEMMA TokensKept ==
    ASSUME IInv, [Next]_vars
    PROVE  TokensInStep'
<1>1. /\ close_count \in Nat /\ requests \in SUBSET Request /\ stream \in Stream
      /\ main \in Seq(Message) /\ worker \in Seq(Message) /\ authUser \in User
      /\ TokensFit(requests, main, worker, close_count, stream.state)
      /\ token_counter \in Nat
  BY DEF IInv, TypeOK, TokensInStep
<1>2. ASSUME TokensFit(requests', main', worker', close_count', stream'.state)
      PROVE  TokensInStep'
  BY <1>2 DEF TokensInStep, TokensFit, Asked, Live, Upto, AtMostOne
<1>3. ASSUME UNCHANGED <<requests, main, worker, close_count>>,
             stream.state # "Starting" \/ stream'.state = "Starting"
      PROVE  TokensInStep'
  <2>1. TokensFit(requests, main, worker, close_count, stream'.state)
    BY <1>1, <1>3, TokensState
  <2> QED BY <2>1, <1>2, <1>3
<1>4. CASE Notice
  <2>1. /\ main # <<>> /\ main' = Tail(main) /\ worker' = Append(worker, Head(main))
        /\ UNCHANGED <<requests, close_count, stream>>
    BY <1>4 DEF Notice, remote
  <2>2. TokensFit(requests, Tail(main), Append(worker, Head(main)), close_count, stream.state)
    BY <2>1, <1>1, TokensPassed
  <2> QED BY <2>1, <2>2, <1>2
<1>5. CASE GetTokenAnswered
  <2>1. /\ main # <<>> /\ Head(main).type # "user" /\ main' = Tail(main)
        /\ UNCHANGED <<close_count, stream>>
    BY <1>5 DEF GetTokenAnswered, remote
  <2>2. CASE worker' = Append(worker, Head(main)) /\ requests' = requests
    <3>1. TokensFit(requests, Tail(main), Append(worker, Head(main)), close_count, stream.state)
      BY <2>1, <1>1, TokensPassed
    <3> QED BY <3>1, <2>1, <2>2, <1>2
  <2>3. CASE /\ worker' = worker
             /\ requests' = requests \cup
                   {[user |-> None, counter |-> token_counter, close |-> Head(main).close]}
    <3> DEFINE r == [user |-> None, counter |-> token_counter, close |-> Head(main).close]
    <3>1. r.close = Head(main).close OBVIOUS
    <3> HIDE DEF r
    <3>2. TokensFit(requests \cup {r}, Tail(main), worker, close_count, stream.state)
      BY <3>1, <2>1, <1>1, TokensAskedAgain
    <3>3. requests' = requests \cup {r} BY <2>3 DEF r
    <3> QED BY <3>2, <3>3, <2>1, <2>3, <1>2
  <2> QED BY <1>5, <2>2, <2>3 DEF GetTokenAnswered
<1>6. ASSUME worker # <<>>
      PROVE  /\ Tail(worker) \in Seq(Message)
             /\ TokensFit(requests, main, Tail(worker), close_count, stream.state)
             /\ Head(worker).type # "user" /\ Head(worker).close = close_count =>
                  \A other : TokensFit(requests, main, Tail(worker), close_count, other)
  BY <1>1, <1>6, TokensHandled, MessagesMoved
<1>7. CASE HandleCredentialChange
  <2>1. /\ worker # <<>> /\ worker' = Tail(worker) /\ current_user' = Head(worker).user
        /\ UNCHANGED <<main, queue>>
    BY <1>7 DEF HandleCredentialChange
  <2>2. current_user' \in User BY <2>1, <1>1, MessagesMoved DEF Message
  <2>3. CASE network
    <3>1. RestartNetwork(queue[current_user']) BY <1>7, <2>3 DEF HandleCredentialChange
    <3> QED BY <3>1, <2>1, <2>2, <1>6, TokensRestarted
  <2>4. CASE ~network
    <3>1. UNCHANGED <<requests, close_count, stream>>
      BY <1>7, <2>4 DEF HandleCredentialChange, remote
    <3> QED BY <3>1, <2>1, <1>2, <1>6
  <2> QED BY <2>3, <2>4
<1>8. CASE ResumeStartWithCredentials
  <2>1. /\ worker # <<>> /\ Head(worker).type = "token" /\ worker' = Tail(worker)
        /\ UNCHANGED <<requests, main, close_count>>
        /\ Head(worker).close # close_count => stream' = stream
    BY <1>8 DEF ResumeStartWithCredentials, auth
  <2>2. TokensFit(requests, main, Tail(worker), close_count, stream'.state) BY <2>1, <1>6
  <2> QED BY <2>1, <2>2, <1>2
<1>9. CASE NoCredentials
  <2>1. worker # <<>> /\ worker' = Tail(worker) BY <1>9 DEF NoCredentials
  <2>2. CASE OnStreamFinish("broken")
    <3>1. main' = main BY <2>2 DEF OnStreamFinish
    <3> QED BY <3>1, <2>1, <2>2, <1>6, TokensFinished
  <2>3. CASE UNCHANGED <<running, auth, current_user, store, remote, history, signIns, faults>>
    <3>1. UNCHANGED <<requests, main, close_count, stream>> BY <2>3 DEF auth, remote
    <3> QED BY <3>1, <2>1, <1>2, <1>6
  <2> QED BY <2>2, <2>3, <1>9 DEF NoCredentials
<1>10. CASE BackoffElapsed
  <2>1. /\ stream.state = "Backoff" /\ stream' = [stream EXCEPT !.state = "Starting"]
        /\ UNCHANGED <<main, worker, close_count>>
        /\ requests' = requests \cup {TokenRequest(close_count)}
    BY <1>10 DEF BackoffElapsed, RequestCredentials, TokenRequest
  <2>2. stream'.state = "Starting" BY <2>1, <1>1 DEF Stream
  <2>3. TokenRequest(close_count).close = close_count BY DEF TokenRequest
  <2>4. TokensFit(requests \cup {TokenRequest(close_count)}, main, worker, close_count, "Starting")
    BY <2>1, <2>3, <1>1, TokensAsk
  <2> QED BY <2>1, <2>2, <2>4, <1>2
<1>11. CASE IdleTimeout
  <2>1. close_count' = close_count + 1 /\ UNCHANGED <<requests, main, worker>>
    BY <1>11 DEF IdleTimeout, auth
  <2>2. TokensFit(requests, main, worker, close_count + 1, stream'.state) BY <1>1, TokensStale
  <2> QED BY <2>1, <2>2, <1>2
<1>12. CASE OnWriteStreamHandshakeComplete
  <2>1. /\ UNCHANGED <<requests, main, worker, close_count>>
        /\ stream' = [stream EXCEPT !.handshake = TRUE, !.idle = stream.idle /\ pipeline = <<>>]
    BY <1>12 DEF OnWriteStreamHandshakeComplete, auth
  <2>2. stream'.state = stream.state BY <2>1, <1>1 DEF Stream
  <2> QED BY <2>1, <2>2, <1>3
<1>13. CASE OnWriteStreamMutationResult
  <2>1. /\ Fills(Tail(pipeline), queue'[current_user'], stream,
                 [call EXCEPT !.done = Tail(call.done)])
        /\ close_count' = close_count
    BY <1>13, MutationResultFills
  <2>2. UNCHANGED <<main, worker>> BY <1>13 DEF OnWriteStreamMutationResult
  <2> QED BY <2>1, <2>2, <1>1, FillsTokens
<1>14. CASE OnOperationFailed \/ Transport \/ Serve \/ Break
  <2>1. UNCHANGED <<requests, main, worker, close_count, stream>>
    BY <1>14 DEF OnOperationFailed, Transport, Arrive, OperationFails, Serve, Break, auth
  <2> QED BY <2>1, <1>3
<1>15. CASE Finished
  <2>1. OnStreamFinish(call.status) /\ worker' = worker /\ main' = main
    BY <1>15 DEF Finished, OnStreamFinish
  <2> QED BY <2>1, <1>1, TokensFinished
<1>16. ASSUME NEW r \in requests, LookUp(r) PROVE TokensInStep'
  <2> DEFINE new == [r EXCEPT !.user = authUser]
  <2>1. /\ requests' = (requests \ {r}) \cup {new}
        /\ UNCHANGED <<main, worker, close_count, stream>>
    BY <1>16 DEF LookUp, remote
  <2>2. new.close = r.close BY <1>1 DEF Request
  <2> HIDE DEF new
  <2>3. TokensFit((requests \ {r}) \cup {new}, main, worker, close_count, stream.state)
    BY <2>2, <1>1, TokensLookedUp
  <2> QED BY <2>1, <2>3, <1>2
<1>17. ASSUME NEW r \in requests, TokenFetched(r) \/ TokenRefused(r) PROVE TokensInStep'
  <2>1. PICK type \in {"token", "error"} : Answer(type, r)
    BY <1>17 DEF TokenFetched, TokenRefused
  <2> DEFINE x == [type |-> type, user |-> r.user, counter |-> r.counter, close |-> r.close]
  <2>2. /\ requests' = requests \ {r} /\ main' = Append(main, x)
        /\ UNCHANGED <<worker, close_count, stream>>
    BY <2>1 DEF Answer, remote
  <2>3. x \in Message /\ x.close = r.close BY <2>1, <1>1 DEF Answer, Request, Message
  <2> HIDE DEF x
  <2>4. TokensFit(requests \ {r}, Append(main, x), worker, close_count, stream.state)
    BY <2>3, <1>1, TokensAnswered
  <2> QED BY <2>2, <2>4, <1>2
<1>18. ASSUME NEW w \in Write, WriteMutations(w) PROVE TokensInStep'
  <2>1. /\ Fills(pipeline, queue'[current_user'], stream, call) /\ close_count' = close_count
    BY <1>18, WriteMutationsFills
  <2>2. UNCHANGED <<main, worker>> BY <1>18 DEF WriteMutations
  <2> QED BY <2>1, <2>2, <1>1, FillsTokens
<1>19. CASE RegisterPendingWritesCallback
  BY <1>3, <1>19 DEF RegisterPendingWritesCallback, auth, remote
<1>20. CASE EnableNetwork
  <2>1. /\ Fills(pipeline, queue'[current_user'], stream, call) /\ close_count' = close_count
    BY <1>20, EnableNetworkFills
  <2>2. UNCHANGED <<main, worker>> BY <1>20 DEF EnableNetwork
  <2> QED BY <2>1, <2>2, <1>1, FillsTokens
<1>21. CASE DisableNetwork
  <2>1. /\ UNCHANGED <<requests, main, worker>>
        /\ IF IsStarted(stream) THEN close_count' = close_count + 1
                                ELSE UNCHANGED <<stream, close_count>>
    BY <1>21 DEF DisableNetwork, auth
  <2>2. \A other : TokensFit(requests, main, worker, close_count + 1, other)
    BY <1>1, TokensStale
  <2>3. TokensFit(requests, main, worker, close_count', stream'.state)
    BY <2>1, <2>2, <1>1
  <2> QED BY <2>1, <2>3, <1>2
<1>22. CASE ConnectivityChanged
  <2>1. /\ RestartNetwork(queue[current_user]) /\ current_user' = current_user
        /\ UNCHANGED <<queue, main, worker>>
    BY <1>22 DEF ConnectivityChanged, store
  <2>2. current_user' \in User BY <2>1 DEF IInv, TypeOK
  <2> QED BY <2>1, <2>2, <1>1, TokensRestarted
<1>23. ASSUME NEW u \in User, SignIn(u) PROVE TokensInStep'
  <2> DEFINE x == [type |-> "user", user |-> u, counter |-> 0, close |-> 0]
  <2>1. /\ main' = Append(main, x) /\ UNCHANGED <<requests, worker, close_count, stream>>
    BY <1>23 DEF SignIn, remote
  <2>2. x \in Message /\ x.type = "user" /\ x.close <= close_count BY <1>1 DEF Message
  <2> HIDE DEF x
  <2>3. TokensFit(requests, Append(main, x), worker, close_count, stream.state)
    BY <2>2, <1>1, TokensNotice
  <2> QED BY <2>1, <2>3, <1>2
<1>24. ASSUME NEW u \in User, Initialize(u) PROVE TokensInStep'
  <2>1. /\ FillWritePipeline(<<>>, queue[u], Idle, NoCall)
        /\ UNCHANGED <<main, worker, close_count>> /\ ~running
    BY <1>24 DEF Initialize
  <2>2. Fills(<<>>, queue[u], Idle, NoCall) BY <2>1, RestartFills
  <2>3. stream = Idle BY <2>1 DEF IInv, ProcessGone
  <2> QED BY <2>1, <2>2, <2>3, <1>1, IdleFits, FillsTokens
<1>25. CASE Kill \/ KillInSuccessfulWrite \/ KillInRejectedWrite
  <2>1. requests' = {} /\ main' = <<>> /\ worker' = <<>> /\ close_count' = 0
    BY <1>25 DEF Kill, KillInSuccessfulWrite, KillInRejectedWrite, Exit
  <2>2. DOMAIN main' = {} /\ DOMAIN worker' = {} BY <2>1
  <2> QED BY <2>1, <2>2 DEF TokensInStep, TokensFit, Asked, Live, Upto, AtMostOne
<1>26. CASE UNCHANGED vars BY <1>3, <1>26 DEF vars, auth, remote
<1> QED
  BY <1>4, <1>5, <1>7, <1>8, <1>9, <1>10, <1>11, <1>12, <1>13, <1>14, <1>15, <1>16,
     <1>17, <1>18, <1>19, <1>20, <1>21, <1>22, <1>23, <1>24, <1>25, <1>26
  DEF Next, MainQueue, WorkerQueue, Timers, Completions, FirebaseAuth, Application, Disturbance

-----------------------------------------------------------------------------
\* The process.

LEMMA StoppedWaits ==
    ASSUME IInv, ~running, [Next]_vars
    PROVE  UNCHANGED vars \/ \E u \in User : Initialize(u)
<1>1. /\ stream = Idle /\ ~network /\ requests = {} /\ main = <<>> /\ worker = <<>>
      /\ call = NoCall
  BY IdleFits DEF IInv, ProcessGone, StreamInStep, CallFits
<1>2. /\ call.done = <<>> /\ call.toClient = <<>> /\ call.status = "none"
      /\ stream.state = "Initial" /\ stream.idle = FALSE
  BY <1>1, IdleFits DEF NoCall
<1>3. ~(MainQueue \/ WorkerQueue)
  BY <1>1 DEF MainQueue, Notice, GetTokenAnswered, WorkerQueue, HandleCredentialChange,
              ResumeStartWithCredentials, NoCredentials
<1>4. ~(Timers \/ Completions)
  BY <1>2 DEF Timers, BackoffElapsed, IdleTimeout, Completions,
              OnWriteStreamHandshakeComplete, OnWriteStreamMutationResult, OnOperationFailed,
              Finished
<1>5. ~(FirebaseAuth \/ Transport \/ Serve)
  BY <1>1, <1>2 DEF FirebaseAuth, Transport, Arrive, OperationFails, Serve
<1>6. ~Disturbance
  BY <1>1, <1>2 DEF Disturbance, ConnectivityChanged, Break, Kill, KillInSuccessfulWrite,
                    KillInRejectedWrite
<1>7. ASSUME Application PROVE \E u \in User : Initialize(u)
  BY <1>7 DEF Application, WriteMutations, RegisterPendingWritesCallback, EnableNetwork,
              DisableNetwork, SignIn
<1> QED BY <1>3, <1>4, <1>5, <1>6, <1>7 DEF Next

LEMMA ProcessKept ==
    ASSUME IInv, [Next]_vars
    PROVE  ProcessGone'
<1>1. ASSUME running' PROVE ProcessGone' BY <1>1 DEF ProcessGone
<1>2. ASSUME Exit PROVE ProcessGone'
  BY <1>2 DEF Exit, ProcessGone, Idle
<1>3. CASE ~running
  <2>1. CASE UNCHANGED vars
    BY <2>1 DEF IInv, ProcessGone, vars, auth, remote, Idle
  <2>2. CASE \E u \in User : Initialize(u) BY <2>2, <1>1 DEF Initialize
  <2> QED BY <2>1, <2>2, <1>3, StoppedWaits
<1>4. CASE running
  <2>1. CASE MainQueue \/ WorkerQueue
    BY <2>1, <1>1, <1>4 DEF MainQueue, Notice, GetTokenAnswered, WorkerQueue,
      HandleCredentialChange, ResumeStartWithCredentials, NoCredentials, OnStreamFinish
  <2>2. CASE Timers \/ Completions
    BY <2>2, <1>1, <1>4 DEF Timers, BackoffElapsed, IdleTimeout, Completions,
      OnWriteStreamHandshakeComplete, OnWriteStreamMutationResult, OnOperationFailed,
      Finished, OnStreamFinish
  <2>3. CASE FirebaseAuth \/ Transport \/ Serve
    BY <2>3, <1>1, <1>4 DEF FirebaseAuth, LookUp, TokenFetched, Answer, Transport, Arrive,
      OperationFails, Serve
  <2>4. CASE Application
    BY <2>4, <1>1, <1>4 DEF Application, WriteMutations, RegisterPendingWritesCallback,
      EnableNetwork, DisableNetwork, SignIn, Initialize
  <2>5. CASE Disturbance
    BY <2>5, <1>1, <1>2, <1>4 DEF Disturbance, ConnectivityChanged, Break, TokenRefused,
      Answer, Kill, KillInSuccessfulWrite, KillInRejectedWrite
  <2>6. CASE UNCHANGED vars BY <2>6, <1>1, <1>4 DEF vars
  <2> QED BY <2>1, <2>2, <2>3, <2>4, <2>5, <2>6 DEF Next
<1> QED BY <1>3, <1>4

-----------------------------------------------------------------------------
LEMMA InitHolds ==
    ASSUME Init
    PROVE  IInv
<1>1. /\ running = FALSE /\ authUser \in User /\ current_user = authUser
      /\ requests = {} /\ main = <<>> /\ token_counter = 0 /\ worker = <<>>
      /\ queue = [u \in User |-> <<>>] /\ next_batch_id = 1
      /\ callbacks = [u \in User |-> {}] /\ waits = {}
      /\ network = FALSE /\ pipeline = <<>> /\ stream = Idle /\ close_count = 0
      /\ call = NoCall
      /\ owner = [w \in Write |-> None] /\ told = [w \in Write |-> "none"]
      /\ committed = [w \in Write |-> {}]
      /\ signIns = 0 /\ faults = 0
  BY DEF Init
<1>2. <<>> \in Seq(Message) /\ <<>> \in Seq(Batch) /\ Len(<<>>) = 0 BY EmptySeq
<1>3. TypeOK
  <2>1. /\ running \in BOOLEAN /\ authUser \in User /\ current_user \in User
        /\ requests \subseteq Request /\ token_counter \in Nat
        /\ main \in Seq(Message) /\ worker \in Seq(Message)
        /\ network \in BOOLEAN /\ pipeline \in Seq(Batch)
        /\ stream \in Stream /\ close_count \in Nat /\ call \in Call
    BY <1>1, <1>2, IdleFits
  <2>2. /\ queue \in [User -> Seq(Batch)] /\ next_batch_id \in Nat \ {0}
        /\ callbacks \in [User -> SUBSET Batch]
        /\ waits \subseteq [id : Nat \ {0}, covers : SUBSET Write]
    BY <1>1, <1>2
  <2>3. /\ owner \in [Write -> User \cup {None}]
        /\ told \in [Write -> {"none", "ok", "rejected"}]
        /\ committed \in [Write -> SUBSET User]
    BY <1>1
  <2>4. signIns \in 0 .. MaxSignIns /\ faults \in 0 .. MaxFaults BY <1>1, WritesAssumption
  <2> QED BY <2>1, <2>2, <2>3, <2>4 DEF TypeOK
<1>4. QueuesInOrder
  <2>1. \A u \in User : queue[u] = <<>> /\ DOMAIN queue[u] = {} BY <1>1
  <2> QED BY <2>1 DEF QueuesInOrder, Ascending
<1>5. NoCall.status = "none" /\ NoCall.done = <<>> BY DEF NoCall
<1>6. StreamInStep
  BY <1>1, <1>5, IdleFits DEF StreamInStep, CallFits
<1>7. CallInOrder BY <1>1, <1>5 DEF CallInOrder, DoneInOrder
<1>8. ProcessGone BY <1>1 DEF ProcessGone
<1>9. PipelineInStep
  <2>1. queue[current_user] = <<>> BY <1>1
  <2>2. SubSeq(<<>>, 1, 0) = <<>> BY SubSeqEmpty
  <2>3. Len(pipeline) <= kMaxPendingWrites BY <1>1, <1>2, WritesAssumption
  <2>4. stream.idle = FALSE /\ call.status # "ok" BY <1>1, <1>5, IdleFits
  <2> QED BY <1>1, <1>2, <2>1, <2>2, <2>3, <2>4 DEF PipelineInStep
<1>10. TokensInStep
  <2>1. DOMAIN main = {} /\ DOMAIN worker = {} BY <1>1
  <2> QED BY <1>1, <2>1 DEF TokensInStep, TokensFit, Asked, Live, Upto, AtMostOne
<1> QED BY <1>3, <1>4, <1>6, <1>7, <1>8, <1>9, <1>10 DEF IInv

LEMMA Inductive ==
    ASSUME IInv, [Next]_vars
    PROVE  IInv'
BY TypeKept, QueuesKept, RemoteKept, ProcessKept, TokensKept DEF IInv, RemoteInStep

\* What holds of every state: the types, the queues, the stream, its call, its
\* pipeline and its tokens.
THEOREM Invariance == Spec => []IInv
<1>1. Init => IInv BY InitHolds
<1>2. IInv /\ [Next]_vars => IInv' BY Inductive
<1> QED BY <1>1, <1>2, PTL DEF Spec

\* Every variable keeps its type.
THEOREM TypeCorrect == Spec => []TypeOK
<1>1. IInv => TypeOK BY DEF IInv
<1> QED BY <1>1, Invariance, PTL

\* The responses of the service are for the writes at the front of the pipeline,
\* in their order, and the pipeline is the oldest part of the user's queue: what
\* the client assumes when it removes a batch for a response
\* (OnWriteStreamMutationResult).
THEOREM PipelineStaysInStep == Spec => []PipelineInStep
<1>1. IInv => PipelineInStep BY DEF IInv
<1> QED BY <1>1, Invariance, PTL

-----------------------------------------------------------------------------
\* Users, notices and tokens: what makes a token that opens a stream one of the
\* sync engine's user.

NoUser(s) == \A i \in DOMAIN s : s[i].type # "user"

\* v is the user after the notices of s, when it was u before.
EndsWith(s, u, v) ==
    /\ \A i \in DOMAIN s :
          s[i].type = "user" /\ (\A j \in DOMAIN s : i < j => s[j].type # "user")
              => s[i].user = v
    /\ NoUser(s) => u = v

\* The answers of s that are in A, with no notice before them, are for u.
FirstAnswers(s, A, u) ==
    \A i \in DOMAIN s :
        /\ s[i].type # "user" /\ s[i] \in A
        /\ \A j \in DOMAIN s : j < i => s[j].type # "user"
        => s[i].user = u

OfCounter(n) == {m \in Message : m.counter = n}

OfStream(n) == {m \in Message : m.close = n}

\* Requests R, main queue m, worker queue w, notices counted t, the sync engine's
\* user c and Firebase Auth's a: an answer that will count, and has no notice
\* before it, is for the user of the last notice that the worker queue has.
UsersFit(R, m, w, t, c, a) ==
    \E last \in User :
        /\ EndsWith(w, c, last) /\ EndsWith(m, last, a)
        /\ \A r \in R : r.user # None /\ r.counter = t /\ NoUser(m) => r.user = last
        /\ FirstAnswers(m, OfCounter(t), last)

CountersFit(R, m, t) ==
    /\ \A r \in R : r.counter <= t
    /\ \A i \in DOMAIN m : m[i].counter <= t

LEMMA TailOfMessages ==
    ASSUME NEW s \in Seq(Message), s # <<>>
    PROVE  /\ Tail(s) \in Seq(Message) /\ Head(s) \in Message /\ Head(s) = s[1]
           /\ 1 \in DOMAIN s
           /\ \A i \in DOMAIN Tail(s) : /\ i \in Nat /\ i + 1 \in DOMAIN s /\ 1 < i + 1
                                        /\ Tail(s)[i] = s[i + 1]
           /\ \A i \in DOMAIN s : /\ i \in Nat
                                  /\ i # 1 => /\ i - 1 \in DOMAIN Tail(s) /\ 1 < i
                                              /\ Tail(s)[i - 1] = s[i]
<1> DEFINE t == Tail(s)
<1>1. /\ t \in Seq(Message) /\ Head(s) \in Message /\ Head(s) = s[1]
      /\ Len(t) = Len(s) - 1 /\ Len(s) \in Nat \ {0}
      /\ \A i \in 1 .. Len(t) : t[i] = s[i + 1]
      /\ DOMAIN s = 1 .. Len(s) /\ DOMAIN t = 1 .. Len(t)
  BY HeadTailProperties, EmptySeq, LenProperties
<1> HIDE DEF t
<1>2. 1 \in DOMAIN s BY <1>1
<1>3. \A i \in DOMAIN t : i \in Nat /\ i + 1 \in DOMAIN s /\ 1 < i + 1 /\ t[i] = s[i + 1]
  BY <1>1
<1>4. ASSUME NEW i \in DOMAIN s, i # 1
      PROVE  i - 1 \in DOMAIN t /\ 1 < i /\ t[i - 1] = s[i]
  <2>1. i - 1 \in 1 .. Len(t) /\ (i - 1) + 1 = i /\ 1 < i BY <1>1, <1>4
  <2> QED BY <2>1, <1>1
<1>5. \A i \in DOMAIN s : i \in Nat BY <1>1
<1> QED BY <1>1, <1>2, <1>3, <1>4, <1>5 DEF t

LEMMA AppendOfMessages ==
    ASSUME NEW s \in Seq(Message), NEW m \in Message
    PROVE  LET t == Append(s, m)
               n == Len(s) + 1
           IN  /\ t \in Seq(Message) /\ n \in DOMAIN t /\ t[n] = m /\ n \in Nat
               /\ \A i \in DOMAIN s : i \in Nat /\ i \in DOMAIN t /\ t[i] = s[i] /\ i < n
               /\ \A i \in DOMAIN t : i # n => i \in DOMAIN s
<1> DEFINE t == Append(s, m)
           n == Len(s) + 1
<1>1. /\ t \in Seq(Message) /\ Len(t) = n /\ Len(s) \in Nat
      /\ \A i \in 1 .. Len(s) : t[i] = s[i]
      /\ t[n] = m /\ DOMAIN s = 1 .. Len(s)
  BY AppendProperties, LenProperties
<1> HIDE DEF t
<1>2. DOMAIN t = 1 .. Len(s) + 1 BY <1>1, LenProperties
<1>3. \A i \in DOMAIN s : i \in Nat /\ i \in DOMAIN t /\ t[i] = s[i] /\ i < n BY <1>1, <1>2
<1>4. \A i \in DOMAIN t : i # n => i \in DOMAIN s BY <1>1, <1>2
<1>5. n \in DOMAIN t /\ n \in Nat BY <1>1, <1>2
<1> QED BY <1>1, <1>3, <1>4, <1>5 DEF t

LEMMA EndsOfTail ==
    ASSUME NEW s \in Seq(Message), s # <<>>, NEW u, NEW v, EndsWith(s, u, v)
    PROVE  EndsWith(Tail(s), IF Head(s).type = "user" THEN Head(s).user ELSE u, v)
<1> DEFINE t == Tail(s)
           w == IF Head(s).type = "user" THEN Head(s).user ELSE u
<1>1. /\ Head(s) = s[1] /\ 1 \in DOMAIN s
      /\ \A i \in DOMAIN t : /\ i \in Nat /\ i + 1 \in DOMAIN s /\ 1 < i + 1
                             /\ t[i] = s[i + 1]
      /\ \A i \in DOMAIN s : /\ i \in Nat
                             /\ i # 1 => /\ i - 1 \in DOMAIN t /\ 1 < i
                                         /\ t[i - 1] = s[i]
  BY TailOfMessages
<1> HIDE DEF t
<1>2. ASSUME NEW i \in DOMAIN t, t[i].type = "user",
             \A j \in DOMAIN t : i < j => t[j].type # "user"
      PROVE  t[i].user = v
  <2>1. i + 1 \in DOMAIN s /\ s[i + 1] = t[i] BY <1>1
  <2>2. ASSUME NEW j \in DOMAIN s, i + 1 < j PROVE s[j].type # "user"
    <3>1. j \in Nat /\ i \in Nat /\ j # 1 BY <2>2, <1>1
    <3>2. j - 1 \in DOMAIN t /\ t[j - 1] = s[j] /\ i < j - 1 BY <3>1, <2>2, <1>1
    <3> QED BY <3>2, <1>2
  <2> QED BY <2>1, <2>2, <1>2 DEF EndsWith
<1>3. ASSUME NoUser(t) PROVE w = v
  <2>1. \A j \in DOMAIN s : j # 1 => s[j].type # "user" BY <1>1, <1>3 DEF NoUser
  <2>2. CASE Head(s).type = "user"
    <3>1. \A j \in DOMAIN s : 1 < j => s[j].type # "user" BY <2>1
    <3> QED BY <3>1, <2>2, <1>1 DEF EndsWith
  <2>3. CASE Head(s).type # "user"
    <3>1. NoUser(s) BY <2>1, <2>3, <1>1 DEF NoUser
    <3> QED BY <3>1, <2>3 DEF EndsWith
  <2> QED BY <2>2, <2>3
<1>4. EndsWith(t, w, v) BY <1>2, <1>3 DEF EndsWith
<1> QED BY <1>4 DEF t

LEMMA EndsOfAppend ==
    ASSUME NEW s \in Seq(Message), NEW m \in Message, NEW u, NEW v, EndsWith(s, u, v)
    PROVE  /\ EndsWith(Append(s, m), u, IF m.type = "user" THEN m.user ELSE v)
           /\ NoUser(Append(s, m)) => NoUser(s) /\ m.type # "user"
<1> DEFINE t == Append(s, m)
           n == Len(s) + 1
           w == IF m.type = "user" THEN m.user ELSE v
<1>1. /\ n \in DOMAIN t /\ t[n] = m /\ n \in Nat
      /\ \A i \in DOMAIN s : i \in Nat /\ i \in DOMAIN t /\ t[i] = s[i] /\ i < n
      /\ \A i \in DOMAIN t : i # n => i \in DOMAIN s
  BY AppendOfMessages
<1> HIDE DEF t, n
<1>2. ASSUME NEW i \in DOMAIN t, t[i].type = "user",
             \A j \in DOMAIN t : i < j => t[j].type # "user"
      PROVE  t[i].user = w
  <2>1. CASE i = n BY <2>1, <1>1, <1>2
  <2>2. CASE i # n
    <3>1. i \in DOMAIN s /\ t[i] = s[i] /\ i < n BY <2>2, <1>1
    <3>2. m.type # "user" BY <3>1, <1>1, <1>2
    <3>3. \A j \in DOMAIN s : i < j => s[j].type # "user" BY <1>1, <1>2
    <3> QED BY <3>1, <3>2, <3>3, <1>2 DEF EndsWith
  <2> QED BY <2>1, <2>2
<1>3. NoUser(t) => NoUser(s) /\ m.type # "user" BY <1>1 DEF NoUser
<1>4. NoUser(t) => u = w BY <1>3 DEF EndsWith
<1>5. EndsWith(t, u, w) BY <1>2, <1>4 DEF EndsWith
<1> QED BY <1>3, <1>5 DEF t

LEMMA FirstOfTail ==
    ASSUME NEW s \in Seq(Message), s # <<>>, Head(s).type # "user", NEW A, NEW u,
           FirstAnswers(s, A, u)
    PROVE  /\ FirstAnswers(Tail(s), A, u)
           /\ Head(s) \in A => Head(s).user = u
           /\ NoUser(Tail(s)) => NoUser(s)
<1> DEFINE t == Tail(s)
<1>1. /\ Head(s) = s[1] /\ 1 \in DOMAIN s
      /\ \A i \in DOMAIN t : /\ i \in Nat /\ i + 1 \in DOMAIN s /\ 1 < i + 1
                             /\ t[i] = s[i + 1]
      /\ \A i \in DOMAIN s : /\ i \in Nat
                             /\ i # 1 => /\ i - 1 \in DOMAIN t /\ 1 < i
                                         /\ t[i - 1] = s[i]
  BY TailOfMessages
<1> HIDE DEF t
<1>2. ASSUME NEW i \in DOMAIN t, t[i].type # "user", t[i] \in A,
             \A j \in DOMAIN t : j < i => t[j].type # "user"
      PROVE  t[i].user = u
  <2>1. i + 1 \in DOMAIN s /\ s[i + 1] = t[i] BY <1>1
  <2>2. ASSUME NEW j \in DOMAIN s, j < i + 1 PROVE s[j].type # "user"
    <3>1. CASE j = 1 BY <3>1, <1>1
    <3>2. CASE j # 1
      <4>1. j \in Nat /\ i \in Nat /\ j - 1 \in DOMAIN t /\ t[j - 1] = s[j]
        BY <3>2, <1>1
      <4>2. j - 1 < i BY <4>1, <2>2
      <4> QED BY <4>1, <4>2, <1>2
    <3> QED BY <3>1, <3>2
  <2> QED BY <2>1, <2>2, <1>2 DEF FirstAnswers
<1>3. FirstAnswers(t, A, u) BY <1>2 DEF FirstAnswers
<1>4. ASSUME Head(s) \in A PROVE Head(s).user = u
  <2>1. \A j \in DOMAIN s : ~(j < 1) BY <1>1
  <2> QED BY <2>1, <1>1, <1>4 DEF FirstAnswers
<1>5. NoUser(t) => NoUser(s) BY <1>1 DEF NoUser
<1> QED BY <1>3, <1>4, <1>5 DEF t

LEMMA FirstOfAppend ==
    ASSUME NEW s \in Seq(Message), NEW m \in Message, NEW A, NEW u, FirstAnswers(s, A, u),
           m.type # "user" /\ m \in A /\ NoUser(s) => m.user = u
    PROVE  FirstAnswers(Append(s, m), A, u)
<1> DEFINE t == Append(s, m)
           n == Len(s) + 1
<1>1. /\ n \in DOMAIN t /\ t[n] = m /\ n \in Nat
      /\ \A i \in DOMAIN s : i \in Nat /\ i \in DOMAIN t /\ t[i] = s[i] /\ i < n
      /\ \A i \in DOMAIN t : i # n => i \in DOMAIN s
  BY AppendOfMessages
<1> HIDE DEF t, n
<1>2. ASSUME NEW i \in DOMAIN t, t[i].type # "user", t[i] \in A,
             \A j \in DOMAIN t : j < i => t[j].type # "user"
      PROVE  t[i].user = u
  <2>1. CASE i = n
    <3>1. NoUser(s) BY <2>1, <1>1, <1>2 DEF NoUser
    <3> QED BY <3>1, <2>1, <1>1, <1>2
  <2>2. CASE i # n
    <3>1. i \in DOMAIN s /\ t[i] = s[i] BY <2>2, <1>1
    <3>2. \A j \in DOMAIN s : j < i => s[j].type # "user" BY <1>1, <1>2
    <3> QED BY <3>1, <3>2, <1>2 DEF FirstAnswers
  <2> QED BY <2>1, <2>2
<1>3. FirstAnswers(t, A, u) BY <1>2 DEF FirstAnswers
<1> QED BY <1>3 DEF t

\* A token for the stream is for the sync engine's user when it opens the stream.
UsersInStep ==
    /\ running => UsersFit(requests, main, worker, token_counter, current_user, authUser)
    /\ CountersFit(requests, main, token_counter)
    /\ FirstAnswers(worker, OfStream(close_count), current_user)

\* The call is for that user, and a queue holds the writes of its user.
CallIsUsers == call.status = "ok" => call.user = current_user

QueuesAreUsers == \A u \in User : \A i \in DOMAIN queue[u] : owner[queue[u][i].write] = u

OwnersInStep == UsersInStep /\ CallIsUsers /\ QueuesAreUsers /\ WrittenByOwner

LEMMA CountersOfTail ==
    ASSUME NEW R \in SUBSET Request, NEW m \in Seq(Message), NEW t \in Nat,
           CountersFit(R, m, t), m # <<>>
    PROVE  /\ CountersFit(R, Tail(m), t) /\ CountersFit(R, Tail(m), t + 1)
           /\ \A u : FirstAnswers(Tail(m), OfCounter(t + 1), u)
           /\ \A r \in R : r.counter # t + 1
<1> DEFINE T == Tail(m)
<1>1. /\ T \in Seq(Message)
      /\ \A i \in DOMAIN T : i + 1 \in DOMAIN m /\ T[i] = m[i + 1]
  BY TailOfMessages
<1>2. \A i \in DOMAIN T : T[i] \in Message BY <1>1, LenProperties, ElementOfSeq
<1> HIDE DEF T
<1>3. \A i \in DOMAIN T : T[i].counter \in Nat /\ T[i].counter <= t
  BY <1>1, <1>2 DEF CountersFit, Message
<1>4. \A r \in R : r.counter \in Nat /\ r.counter <= t BY DEF CountersFit, Request
<1>5. \A i \in DOMAIN T : T[i].counter <= t + 1 /\ T[i].counter # t + 1 BY <1>3
<1>6. \A r \in R : r.counter <= t + 1 /\ r.counter # t + 1 BY <1>4
<1>7. CountersFit(R, T, t) BY <1>3, <1>4 DEF CountersFit
<1>8. CountersFit(R, T, t + 1) BY <1>5, <1>6 DEF CountersFit
<1>9. \A i \in DOMAIN T : T[i] \notin OfCounter(t + 1) BY <1>5 DEF OfCounter
<1>10. \A u : FirstAnswers(T, OfCounter(t + 1), u) BY <1>9 DEF FirstAnswers
<1> QED BY <1>6, <1>7, <1>8, <1>10 DEF T

LEMMA CountersOfAppend ==
    ASSUME NEW R, NEW m \in Seq(Message), NEW t, CountersFit(R, m, t),
           NEW x \in Message, x.counter <= t
    PROVE  CountersFit(R, Append(m, x), t)
<1> DEFINE T == Append(m, x)
<1>1. \A i \in DOMAIN T : T[i] = x \/ (i \in DOMAIN m /\ T[i] = m[i])
  BY AppendOfMessages
<1> HIDE DEF T
<1>2. CountersFit(R, T, t) BY <1>1 DEF CountersFit
<1> QED BY <1>2 DEF T

\* A change of the user is posted.
LEMMA UsersSignedIn ==
    ASSUME NEW R, NEW m \in Seq(Message), NEW w, NEW t, NEW c, NEW a, UsersFit(R, m, w, t, c, a),
           NEW x \in Message, x.type = "user"
    PROVE  UsersFit(R, Append(m, x), w, t, c, x.user)
<1>1. PICK last \in User :
          /\ EndsWith(w, c, last) /\ EndsWith(m, last, a)
          /\ \A r \in R : r.user # None /\ r.counter = t /\ NoUser(m) => r.user = last
          /\ FirstAnswers(m, OfCounter(t), last)
  BY DEF UsersFit
<1>2. EndsWith(Append(m, x), last, x.user) /\ ~NoUser(Append(m, x)) BY <1>1, EndsOfAppend
<1>3. FirstAnswers(Append(m, x), OfCounter(t), last) BY <1>1, FirstOfAppend
<1> QED BY <1>1, <1>2, <1>3 DEF UsersFit

\* The main queue counts a notice and hands it on.
LEMMA UsersNotice ==
    ASSUME NEW R \in SUBSET Request, NEW m \in Seq(Message), NEW w \in Seq(Message),
           NEW t \in Nat, NEW c, NEW a, UsersFit(R, m, w, t, c, a), CountersFit(R, m, t),
           m # <<>>, Head(m).type = "user"
    PROVE  UsersFit(R, Tail(m), Append(w, Head(m)), t + 1, c, a)
<1> DEFINE x == Head(m)
           T == Tail(m)
<1>1. PICK last \in User : EndsWith(w, c, last) /\ EndsWith(m, last, a) BY DEF UsersFit
<1>2. x \in Message /\ T \in Seq(Message) BY TailOfMessages
<1>3. x.user \in User BY <1>2 DEF Message
<1>4. EndsWith(Append(w, x), c, x.user) BY <1>1, <1>2, EndsOfAppend
<1>5. EndsWith(T, x.user, a) BY <1>1, EndsOfTail
<1>6. /\ \A u : FirstAnswers(T, OfCounter(t + 1), u)
      /\ \A r \in R : r.counter # t + 1
  BY CountersOfTail
<1> HIDE DEF T, x
<1>7. FirstAnswers(T, OfCounter(t + 1), x.user) BY <1>6
<1>8. UsersFit(R, T, Append(w, x), t + 1, c, a) BY <1>3, <1>4, <1>5, <1>6, <1>7 DEF UsersFit
<1> QED BY <1>8 DEF T, x

\* The main queue hands on an answer that counts.
LEMMA UsersPassed ==
    ASSUME NEW R, NEW m \in Seq(Message), NEW w \in Seq(Message), NEW t, NEW c, NEW a,
           UsersFit(R, m, w, t, c, a), m # <<>>, Head(m).type # "user", Head(m).counter = t,
           NEW A, FirstAnswers(w, A, c)
    PROVE  /\ UsersFit(R, Tail(m), Append(w, Head(m)), t, c, a)
           /\ FirstAnswers(Append(w, Head(m)), A, c)
<1> DEFINE x == Head(m)
           T == Tail(m)
<1>1. PICK last \in User :
          /\ EndsWith(w, c, last) /\ EndsWith(m, last, a)
          /\ \A r \in R : r.user # None /\ r.counter = t /\ NoUser(m) => r.user = last
          /\ FirstAnswers(m, OfCounter(t), last)
  BY DEF UsersFit
<1>2. x \in Message BY TailOfMessages
<1>3. EndsWith(Append(w, x), c, last) BY <1>1, <1>2, EndsOfAppend
<1>4. EndsWith(T, last, a) BY <1>1, EndsOfTail
<1>5. /\ FirstAnswers(T, OfCounter(t), last)
      /\ x \in OfCounter(t) => x.user = last
      /\ NoUser(T) => NoUser(m)
  BY <1>1, FirstOfTail
<1>6. x.user = last BY <1>2, <1>5 DEF OfCounter
<1>7. NoUser(w) => c = last BY <1>1 DEF EndsWith
<1>8. FirstAnswers(Append(w, x), A, c) BY <1>2, <1>6, <1>7, FirstOfAppend
<1> HIDE DEF T, x
<1>9. UsersFit(R, T, Append(w, x), t, c, a) BY <1>1, <1>3, <1>4, <1>5 DEF UsersFit
<1> QED BY <1>8, <1>9 DEF T, x

\* A token is asked for.
LEMMA UsersAsk ==
    ASSUME NEW R, NEW m, NEW w, NEW t, NEW c, NEW a, UsersFit(R, m, w, t, c, a),
           NEW r, r.user = None
    PROVE  UsersFit(R \cup {r}, m, w, t, c, a)
BY DEF UsersFit

\* An answer that does not count is dropped and the token asked for again.
LEMMA UsersAskedAgain ==
    ASSUME NEW R, NEW m \in Seq(Message), NEW w, NEW t, NEW c, NEW a,
           UsersFit(R, m, w, t, c, a), m # <<>>, Head(m).type # "user", NEW r, r.user = None
    PROVE  UsersFit(R \cup {r}, Tail(m), w, t, c, a)
<1> DEFINE T == Tail(m)
<1>1. PICK last \in User :
          /\ EndsWith(w, c, last) /\ EndsWith(m, last, a)
          /\ \A x \in R : x.user # None /\ x.counter = t /\ NoUser(m) => x.user = last
          /\ FirstAnswers(m, OfCounter(t), last)
  BY DEF UsersFit
<1>2. EndsWith(T, last, a) BY <1>1, EndsOfTail
<1>3. FirstAnswers(T, OfCounter(t), last) /\ (NoUser(T) => NoUser(m)) BY <1>1, FirstOfTail
<1> HIDE DEF T
<1>4. UsersFit(R, T, w, t, c, a) BY <1>1, <1>2, <1>3 DEF UsersFit
<1>5. UsersFit(R \cup {r}, T, w, t, c, a) BY <1>4, UsersAsk
<1> QED BY <1>5 DEF T

\* The worker queue has handled its first message.
LEMMA UsersHandled ==
    ASSUME NEW R, NEW m, NEW w \in Seq(Message), NEW t, NEW c, NEW a,
           UsersFit(R, m, w, t, c, a), w # <<>>
    PROVE  UsersFit(R, m, Tail(w), t, IF Head(w).type = "user" THEN Head(w).user ELSE c, a)
<1> DEFINE d == IF Head(w).type = "user" THEN Head(w).user ELSE c
<1>1. PICK last \in User :
          /\ EndsWith(w, c, last) /\ EndsWith(m, last, a)
          /\ \A x \in R : x.user # None /\ x.counter = t /\ NoUser(m) => x.user = last
          /\ FirstAnswers(m, OfCounter(t), last)
  BY DEF UsersFit
<1>2. EndsWith(Tail(w), d, last) BY <1>1, EndsOfTail
<1> HIDE DEF d
<1>3. UsersFit(R, m, Tail(w), t, d, a) BY <1>1, <1>2 DEF UsersFit
<1> QED BY <1>3 DEF d

\* Firebase Auth looks up its user for a request.
LEMMA UsersLookedUp ==
    ASSUME NEW R, NEW m, NEW w, NEW t, NEW c, NEW a, UsersFit(R, m, w, t, c, a),
           NEW r \in R, NEW new, new.user = a
    PROVE  UsersFit((R \ {r}) \cup {new}, m, w, t, c, a)
<1>1. PICK last \in User :
          /\ EndsWith(w, c, last) /\ EndsWith(m, last, a)
          /\ \A x \in R : x.user # None /\ x.counter = t /\ NoUser(m) => x.user = last
          /\ FirstAnswers(m, OfCounter(t), last)
  BY DEF UsersFit
<1>2. NoUser(m) => new.user = last BY <1>1 DEF EndsWith
<1>3. \A x \in (R \ {r}) \cup {new} : x = new \/ x \in R OBVIOUS
<1>4. \A x \in (R \ {r}) \cup {new} :
          x.user # None /\ x.counter = t /\ NoUser(m) => x.user = last
  BY <1>1, <1>2, <1>3
<1> QED BY <1>1, <1>4 DEF UsersFit

\* A request is answered.
LEMMA UsersAnswered ==
    ASSUME NEW R, NEW m \in Seq(Message), NEW w, NEW t, NEW c, NEW a,
           UsersFit(R, m, w, t, c, a), NEW r \in R, r.user # None,
           NEW x \in Message, x.type # "user", x.user = r.user, x.counter = r.counter
    PROVE  UsersFit(R \ {r}, Append(m, x), w, t, c, a)
<1> DEFINE T == Append(m, x)
<1>1. PICK last \in User :
          /\ EndsWith(w, c, last) /\ EndsWith(m, last, a)
          /\ \A y \in R : y.user # None /\ y.counter = t /\ NoUser(m) => y.user = last
          /\ FirstAnswers(m, OfCounter(t), last)
  BY DEF UsersFit
<1>2. EndsWith(T, last, a) /\ (NoUser(T) => NoUser(m)) BY <1>1, EndsOfAppend
<1>3. x \in OfCounter(t) /\ NoUser(m) => x.user = last BY <1>1 DEF OfCounter
<1>4. FirstAnswers(T, OfCounter(t), last) BY <1>1, <1>3, FirstOfAppend
<1> HIDE DEF T
<1>5. UsersFit(R \ {r}, T, w, t, c, a) BY <1>1, <1>2, <1>4 DEF UsersFit
<1> QED BY <1>5 DEF T

-----------------------------------------------------------------------------
\* The steps, as the users see them.

Asks == requests' = requests \/ requests' = requests \cup {TokenRequest(close_count')}

LEMMA FillAsks ==
    ASSUME NEW p, NEW q, NEW s, NEW c, FillWritePipeline(p, q, s, c)
    PROVE  Asks
<1>1. \/ UNCHANGED requests
      \/ requests' = requests \cup {TokenRequest(close_count')}
  BY DEF FillWritePipeline, RequestCredentials, TokenRequest
<1> QED BY <1>1 DEF Asks

LEMMA NoneLive ==
    ASSUME NEW s \in Seq(Message), NEW n, Live(s, n) = {}, NEW u
    PROVE  FirstAnswers(s, OfStream(n), u)
BY DEF FirstAnswers, OfStream, Live

LEMMA UsersFrom ==
    ASSUME running' => UsersFit(requests', main', worker', token_counter', current_user', authUser'),
           CountersFit(requests', main', token_counter'),
           FirstAnswers(worker', OfStream(close_count'), current_user')
    PROVE  UsersInStep'
BY DEF UsersInStep, UsersFit, EndsWith, NoUser, FirstAnswers, OfCounter, OfStream, CountersFit

\* What the worker queue does: it may handle its first message, ask for a token,
\* and close the stream; a notice leaves no stream open of the user before.
LEMMA UsersMoved ==
    ASSUME IInv, UsersInStep, UNCHANGED <<running, main, token_counter, authUser>>, Asks,
           \/ UNCHANGED <<worker, current_user>>
           \/ /\ worker # <<>> /\ worker' = Tail(worker)
              /\ current_user' = IF Head(worker).type = "user" THEN Head(worker).user
                                                               ELSE current_user,
           \/ close_count' = close_count + 1
           \/ /\ close_count' = close_count
              /\ \/ ~IsStarted(stream) \/ UNCHANGED <<worker, current_user>>
                 \/ Head(worker).type # "user"
    PROVE  UsersInStep'
<1>1. /\ requests \in SUBSET Request /\ main \in Seq(Message) /\ worker \in Seq(Message)
      /\ token_counter \in Nat /\ close_count \in Nat
      /\ TokensFit(requests, main, worker, close_count, stream.state)
  BY DEF IInv, TypeOK, TokensInStep
<1>2. /\ running => UsersFit(requests, main, worker, token_counter, current_user, authUser)
      /\ CountersFit(requests, main, token_counter)
      /\ FirstAnswers(worker, OfStream(close_count), current_user)
  BY DEF UsersInStep
<1> DEFINE d == current_user'
           w == worker'
           r == TokenRequest(close_count')
<1>3. running => UsersFit(requests, main, w, token_counter, d, authUser)
  <2>1. CASE UNCHANGED <<worker, current_user>> BY <2>1, <1>2
  <2>2. CASE /\ worker # <<>> /\ worker' = Tail(worker)
             /\ current_user' = IF Head(worker).type = "user" THEN Head(worker).user
                                                              ELSE current_user
    BY <2>2, <1>1, <1>2, UsersHandled
  <2> QED BY <2>1, <2>2
<1>4. w \in Seq(Message) /\ TokensFit(requests, main, w, close_count, stream.state)
  <2>1. CASE worker' = worker BY <2>1, <1>1
  <2>2. CASE worker # <<>> /\ worker' = Tail(worker)
    BY <2>2, <1>1, TokensHandled, MessagesMoved
  <2> QED BY <2>1, <2>2
<1>5. r.user = None /\ r.counter = token_counter BY DEF TokenRequest
<1>6. running' => UsersFit(requests', main', worker', token_counter', current_user', authUser')
  <2> HIDE DEF d, w, r
  <2>1. running => UsersFit(requests \cup {r}, main, w, token_counter, d, authUser)
    BY <1>3, <1>5, UsersAsk
  <2>2. requests' = requests \/ requests' = requests \cup {r} BY DEF Asks, r
  <2>3. running => UsersFit(requests', main, w, token_counter, d, authUser)
    BY <2>1, <2>2, <1>3
  <2> QED BY <2>3 DEF d, w
<1>7. CountersFit(requests', main', token_counter')
  <2>1. CountersFit(requests \cup {r}, main, token_counter)
    BY <1>1, <1>2, <1>5 DEF CountersFit
  <2>2. requests' = requests \/ requests' = requests \cup {r} BY DEF Asks
  <2> HIDE DEF r
  <2> QED BY <2>1, <2>2, <1>2
<1>8. FirstAnswers(w, OfStream(close_count'), d)
  <2>1. CASE close_count' = close_count + 1
    <3>1. TokensFit(requests, main, w, close_count + 1, "Initial") BY <1>1, <1>4, TokensStale
    <3>2. Live(w, close_count + 1) = {} BY <3>1 DEF TokensFit
    <3> QED BY <3>2, <2>1, <1>4, NoneLive
  <2>2. CASE close_count' = close_count /\ ~IsStarted(stream)
    <3>1. stream.state # "Starting" BY <2>2 DEF IsStarted
    <3>2. Live(w, close_count) = {} BY <3>1, <1>4 DEF TokensFit
    <3> QED BY <3>2, <2>2, <1>4, NoneLive
  <2>3. CASE close_count' = close_count /\ UNCHANGED <<worker, current_user>>
    BY <2>3, <1>2
  <2>4. CASE /\ close_count' = close_count /\ worker # <<>> /\ worker' = Tail(worker)
             /\ Head(worker).type # "user" /\ current_user' = current_user
    BY <2>4, <1>1, <1>2, FirstOfTail
  <2> QED BY <2>1, <2>2, <2>3, <2>4
<1> QED BY <1>6, <1>7, <1>8, UsersFrom

LEMMA FinishAsks ==
    ASSUME NEW status, OnStreamFinish(status)
    PROVE  /\ Asks /\ close_count' = close_count + 1
           /\ UNCHANGED <<running, main, token_counter, authUser, current_user>>
<1>1. CASE WriteFailed(status)
  <2>1. HandleWriteError BY <1>1 DEF OnStreamFinish
  <2>2. Asks BY <2>1, FillAsks DEF HandleWriteError
  <2> QED BY <2>2 DEF OnStreamFinish
<1>2. CASE ~WriteFailed(status)
  BY <1>2 DEF OnStreamFinish, Asks
<1> QED BY <1>1, <1>2

LEMMA RestartAsks ==
    ASSUME NEW q, RestartNetwork(q)
    PROVE  /\ Asks
           /\ close_count' = close_count + 1 \/ (close_count' = close_count /\ ~IsStarted(stream))
<1>1. Asks BY FillAsks DEF RestartNetwork
<1> QED BY <1>1 DEF RestartNetwork

LEMMA UsersKept ==
    ASSUME IInv, UsersInStep, [Next]_vars
    PROVE  UsersInStep'
<1>1. /\ requests \in SUBSET Request /\ main \in Seq(Message) /\ worker \in Seq(Message)
      /\ token_counter \in Nat /\ close_count \in Nat /\ authUser \in User
      /\ current_user \in User
  BY DEF IInv, TypeOK
<1>2. /\ running => UsersFit(requests, main, worker, token_counter, current_user, authUser)
      /\ CountersFit(requests, main, token_counter)
      /\ FirstAnswers(worker, OfStream(close_count), current_user)
  BY DEF UsersInStep
<1>3. CASE Notice
  <2> DEFINE m == Tail(main)
             w == Append(worker, Head(main))
  <2>1. /\ main # <<>> /\ Head(main).type = "user" /\ main' = m /\ worker' = w
        /\ token_counter' = token_counter + 1
        /\ UNCHANGED <<running, authUser, requests, current_user, close_count>>
    BY <1>3 DEF Notice, remote
  <2>2. running => UsersFit(requests, m, w, token_counter + 1, current_user, authUser)
    BY <2>1, <1>1, <1>2, UsersNotice
  <2>3. CountersFit(requests, m, token_counter + 1) BY <2>1, <1>1, <1>2, CountersOfTail
  <2>4. FirstAnswers(w, OfStream(close_count), current_user)
    BY <2>1, <1>1, <1>2, MessagesMoved, FirstOfAppend
  <2> HIDE DEF m, w
  <2> QED BY <2>1, <2>2, <2>3, <2>4, UsersFrom
<1>4. CASE GetTokenAnswered
  <2> DEFINE m == Tail(main)
             w == Append(worker, Head(main))
             r == [user |-> None, counter |-> token_counter, close |-> Head(main).close]
  <2>1. /\ main # <<>> /\ Head(main).type # "user" /\ main' = m
        /\ UNCHANGED <<running, authUser, token_counter, current_user, close_count>>
    BY <1>4 DEF GetTokenAnswered, remote
  <2>2. CountersFit(requests, m, token_counter) BY <2>1, <1>1, <1>2, CountersOfTail
  <2>3. CASE Head(main).counter = token_counter
    <3>1. worker' = w /\ requests' = requests BY <1>4, <2>3 DEF GetTokenAnswered
    <3>2. /\ running => UsersFit(requests, m, w, token_counter, current_user, authUser)
          /\ running => FirstAnswers(w, OfStream(close_count), current_user)
      BY <2>1, <2>3, <1>1, <1>2, UsersPassed
    <3>3. running BY <2>1 DEF IInv, ProcessGone
    <3> HIDE DEF m, w
    <3> QED BY <2>1, <2>2, <3>1, <3>2, <3>3, UsersFrom
  <2>4. CASE Head(main).counter # token_counter
    <3>1. worker' = worker /\ requests' = requests \cup {r}
      BY <1>4, <2>4 DEF GetTokenAnswered
    <3>2. r.user = None /\ r.counter = token_counter OBVIOUS
    <3> HIDE DEF r
    <3>3. running => UsersFit(requests \cup {r}, m, worker, token_counter, current_user, authUser)
      BY <2>1, <3>2, <1>1, <1>2, UsersAskedAgain
    <3> HIDE DEF m
    <3>4. CountersFit(requests \cup {r}, m, token_counter)
      BY <2>2, <3>2, <1>1 DEF CountersFit
    <3> QED BY <2>1, <3>1, <3>3, <3>4, <1>2, UsersFrom
  <2> QED BY <2>3, <2>4
<1>5. CASE HandleCredentialChange
  <2>1. /\ worker # <<>> /\ Head(worker).type = "user" /\ worker' = Tail(worker)
        /\ current_user' = Head(worker).user
        /\ UNCHANGED <<running, authUser, main, token_counter>>
    BY <1>5 DEF HandleCredentialChange
  <2>2. CASE network
    <3>1. RestartNetwork(queue[current_user']) BY <1>5, <2>2 DEF HandleCredentialChange
    <3>2. /\ Asks
          /\ close_count' = close_count + 1
             \/ (close_count' = close_count /\ ~IsStarted(stream))
      BY <3>1, RestartAsks
    <3> QED BY <2>1, <3>2, UsersMoved
  <2>3. CASE ~network
    <3>1. close_count' = close_count /\ Asks
      BY <1>5, <2>3 DEF HandleCredentialChange, remote, Asks
    <3>2. ~IsStarted(stream) BY <2>3 DEF IInv, StreamInStep
    <3> QED BY <2>1, <3>1, <3>2, UsersMoved
  <2> QED BY <2>2, <2>3
<1>6. CASE ResumeStartWithCredentials
  <2>1. /\ worker # <<>> /\ Head(worker).type # "user" /\ worker' = Tail(worker)
        /\ UNCHANGED <<running, authUser, requests, main, token_counter, current_user,
                       close_count>>
    BY <1>6 DEF ResumeStartWithCredentials, auth
  <2> QED BY <2>1, UsersMoved DEF Asks
<1>7. CASE NoCredentials
  <2>1. worker # <<>> /\ Head(worker).type # "user" /\ worker' = Tail(worker)
    BY <1>7 DEF NoCredentials
  <2>2. CASE OnStreamFinish("broken") BY <2>1, <2>2, FinishAsks, UsersMoved
  <2>3. CASE UNCHANGED <<running, auth, current_user, store, remote, history, signIns, faults>>
    <3>1. UNCHANGED <<running, authUser, requests, main, token_counter, current_user,
                      close_count>>
      BY <2>3 DEF auth, remote
    <3> QED BY <2>1, <3>1, UsersMoved DEF Asks
  <2> QED BY <2>2, <2>3, <1>7 DEF NoCredentials
<1>8. ASSUME Asks, UNCHANGED <<running, main, token_counter, authUser, worker, current_user>>,
             close_count' = close_count + 1 \/ close_count' = close_count
      PROVE  UsersInStep'
  BY <1>8, UsersMoved
<1>9. ASSUME UNCHANGED <<running, auth, worker, current_user>>,
             close_count' = close_count + 1 \/ close_count' = close_count
      PROVE  UsersInStep'
  <2>1. UNCHANGED <<requests, main, token_counter, authUser>> BY <1>9 DEF auth
  <2>2. Asks BY <2>1 DEF Asks
  <2> QED BY <2>1, <2>2, <1>8, <1>9
<1>10. CASE BackoffElapsed
  <2>1. Asks BY <1>10 DEF Asks, BackoffElapsed, RequestCredentials, TokenRequest
  <2> QED BY <2>1, <1>8, <1>10 DEF BackoffElapsed
<1>11. CASE IdleTimeout \/ DisableNetwork
  BY <1>9, <1>11 DEF IdleTimeout, DisableNetwork
<1>12. CASE OnWriteStreamHandshakeComplete
  BY <1>9, <1>12 DEF OnWriteStreamHandshakeComplete
<1>13. CASE OnOperationFailed \/ Transport \/ Serve \/ Break
  <2>1. CASE OnOperationFailed BY <2>1, <1>9 DEF OnOperationFailed
  <2>2. CASE Arrive BY <2>2, <1>9 DEF Arrive
  <2>3. CASE OperationFails BY <2>3, <1>9 DEF OperationFails
  <2>4. CASE Serve BY <2>4, <1>9 DEF Serve
  <2>5. CASE Break
    <3>1. UNCHANGED <<running, auth, worker, current_user, close_count>>
      BY <2>5, Zenon DEF Break
    <3> QED BY <3>1, <1>9
  <2> QED BY <2>1, <2>2, <2>3, <2>4, <2>5, <1>13 DEF Transport
<1>14. CASE RegisterPendingWritesCallback \/ UNCHANGED vars
  BY <1>9, <1>14 DEF RegisterPendingWritesCallback, remote, vars
<1>15. CASE Finished BY <1>8, <1>15, FinishAsks DEF Finished
<1>16. CASE OnWriteStreamMutationResult \/ EnableNetwork \/ ConnectivityChanged
            \/ \E w \in Write : WriteMutations(w)
  <2>1. Asks
    BY <1>16, FillAsks, RestartAsks DEF OnWriteStreamMutationResult, EnableNetwork,
      ConnectivityChanged, WriteMutations
  <2>2. UNCHANGED <<running, main, token_counter, authUser, worker, current_user>>
    BY <1>16 DEF OnWriteStreamMutationResult, EnableNetwork, ConnectivityChanged, WriteMutations
  <2>3. close_count' = close_count + 1 \/ close_count' = close_count
    BY <1>16, RestartAsks DEF OnWriteStreamMutationResult, EnableNetwork,
      ConnectivityChanged, WriteMutations
  <2> QED BY <2>1, <2>2, <2>3, <1>8
<1>17. ASSUME NEW r \in requests, LookUp(r) PROVE UsersInStep'
  <2> DEFINE new == [r EXCEPT !.user = authUser]
             R == (requests \ {r}) \cup {new}
  <2>1. /\ requests' = R
        /\ UNCHANGED <<running, authUser, main, token_counter, worker, current_user, close_count>>
    BY <1>17 DEF LookUp, remote
  <2>2. new.user = authUser /\ new.counter = r.counter BY <1>1 DEF Request
  <2> HIDE DEF new
  <2>3. running => UsersFit(R, main, worker, token_counter, current_user, authUser)
    BY <2>2, <1>2, UsersLookedUp
  <2>4. CountersFit(R, main, token_counter) BY <2>2, <1>2 DEF CountersFit
  <2> HIDE DEF R
  <2> QED BY <2>1, <2>3, <2>4, <1>2, UsersFrom
<1>18. ASSUME NEW r \in requests, TokenFetched(r) \/ TokenRefused(r) PROVE UsersInStep'
  <2>1. PICK type \in {"token", "error"} : Answer(type, r)
    BY <1>18 DEF TokenFetched, TokenRefused
  <2> DEFINE x == [type |-> type, user |-> r.user, counter |-> r.counter, close |-> r.close]
             m == Append(main, x)
  <2>2. /\ requests' = requests \ {r} /\ main' = m /\ r.user # None
        /\ UNCHANGED <<running, authUser, token_counter, worker, current_user, close_count>>
    BY <2>1 DEF Answer, remote
  <2>3. /\ x \in Message /\ x.type # "user" /\ x.user = r.user /\ x.counter = r.counter
    BY <2>1, <1>1 DEF Answer, Request, Message
  <2> HIDE DEF x
  <2>4. running =>
          UsersFit(requests \ {r}, m, worker, token_counter, current_user, authUser)
    BY <2>2, <2>3, <1>1, <1>2, UsersAnswered
  <2>5. CountersFit(requests \ {r}, m, token_counter)
    <3>1. CountersFit(requests \ {r}, main, token_counter) /\ x.counter <= token_counter
      BY <2>3, <1>2 DEF CountersFit
    <3> QED BY <3>1, <2>3, <1>1, CountersOfAppend
  <2> HIDE DEF m
  <2> QED BY <2>2, <2>4, <2>5, <1>2, UsersFrom
<1>19. ASSUME NEW u \in User, SignIn(u) PROVE UsersInStep'
  <2> DEFINE x == [type |-> "user", user |-> u, counter |-> 0, close |-> 0]
             m == Append(main, x)
  <2>1. /\ main' = m /\ authUser' = u
        /\ UNCHANGED <<running, requests, token_counter, worker, current_user, close_count>>
    BY <1>19 DEF SignIn, remote
  <2>2. x \in Message /\ x.type = "user" /\ x.user = u /\ x.counter <= token_counter
    BY <1>1 DEF Message
  <2> HIDE DEF x
  <2>3. running => UsersFit(requests, m, worker, token_counter, current_user, u)
    BY <2>2, <1>1, <1>2, UsersSignedIn
  <2>4. CountersFit(requests, m, token_counter) BY <2>2, <1>1, <1>2, CountersOfAppend
  <2> HIDE DEF m
  <2> QED BY <2>1, <2>3, <2>4, <1>2, UsersFrom
<1>20. ASSUME NEW u \in User, Initialize(u) PROVE UsersInStep'
  <2>1. /\ authUser' = u /\ current_user' = u /\ ~running
        /\ UNCHANGED <<main, token_counter, worker, close_count>> /\ Asks
    BY <1>20, FillAsks DEF Initialize
  <2>2. requests = {} /\ main = <<>> /\ worker = <<>> BY <2>1 DEF IInv, ProcessGone
  <2>3. DOMAIN main = {} /\ DOMAIN worker = {} BY <2>2
  <2>4. \A r \in requests' : r.user = None /\ r.counter = token_counter
    BY <2>1, <2>2 DEF Asks, TokenRequest
  <2>5. EndsWith(worker, u, u) /\ EndsWith(main, u, u) BY <2>3 DEF EndsWith
  <2>6. FirstAnswers(main, OfCounter(token_counter), u)
        /\ FirstAnswers(worker, OfStream(close_count), u)
    BY <2>3 DEF FirstAnswers
  <2>7. UsersFit(requests', main, worker, token_counter, u, u)
    BY <2>4, <2>5, <2>6 DEF UsersFit
  <2>8. CountersFit(requests', main, token_counter)
    BY <2>3, <2>4, <1>1 DEF CountersFit
  <2> QED BY <2>1, <2>6, <2>7, <2>8, UsersFrom
<1>21. CASE Kill \/ KillInSuccessfulWrite \/ KillInRejectedWrite
  <2>1. /\ running' = FALSE /\ requests' = {} /\ main' = <<>> /\ worker' = <<>>
    BY <1>21 DEF Kill, KillInSuccessfulWrite, KillInRejectedWrite, Exit
  <2>2. DOMAIN main' = {} /\ DOMAIN worker' = {} BY <2>1
  <2>3. CountersFit(requests', main', token_counter') BY <2>1, <2>2 DEF CountersFit
  <2>4. FirstAnswers(worker', OfStream(close_count'), current_user')
    BY <2>2 DEF FirstAnswers
  <2> QED BY <2>1, <2>3, <2>4, UsersFrom
<1> QED
  BY <1>3, <1>4, <1>5, <1>6, <1>7, <1>10, <1>11, <1>12, <1>13, <1>14, <1>15, <1>16, <1>17,
     <1>18, <1>19, <1>20, <1>21
  DEF Next, MainQueue, WorkerQueue, Timers, Completions, FirebaseAuth, Application, Disturbance

LEMMA FillCalls ==
    ASSUME NEW p, NEW q, NEW s, NEW c \in Call, FillWritePipeline(p, q, s, c)
    PROVE  call'.user = c.user /\ call'.status = c.status
<1>1. \E sent : call' = [c EXCEPT !.toServer = c.toServer \o sent] BY DEF FillWritePipeline
<1> QED BY <1>1 DEF Call

LEMMA FinishCalls ==
    ASSUME NEW status, OnStreamFinish(status)
    PROVE  call'.status = "none"
<1>1. NoCall.status = "none" BY DEF NoCall
<1>2. CASE WriteFailed(status)
  <2>1. HandleWriteError BY <1>2 DEF OnStreamFinish
  <2> QED BY <2>1, <1>1, IdleFits, FillCalls DEF HandleWriteError
<1>3. CASE ~WriteFailed(status)
  BY <1>1, <1>3 DEF OnStreamFinish
<1> QED BY <1>2, <1>3

\* A call that is under way stays the user's: a new one has the token's user.
LEMMA CallStaysUsers ==
    ASSUME IInv, UsersInStep, CallIsUsers, [Next]_vars
    PROVE  CallIsUsers'
<1>1. /\ call \in Call /\ worker \in Seq(Message)
      /\ call.status = "ok" => call.user = current_user
      /\ FirstAnswers(worker, OfStream(close_count), current_user)
  BY DEF IInv, TypeOK, CallIsUsers, UsersInStep
<1>2. NoCall.status = "none" /\ NoCall \in Call BY IdleFits DEF NoCall
<1>3. ASSUME call'.status # "ok" PROVE CallIsUsers' BY <1>3 DEF CallIsUsers
<1>4. ASSUME UNCHANGED current_user, call'.user = call.user,
             call'.status = "ok" => call.status = "ok"
      PROVE  CallIsUsers'
  BY <1>1, <1>4 DEF CallIsUsers
<1>5. CASE MainQueue \/ FirebaseAuth \/ Timers
  <2>1. UNCHANGED <<current_user, call>> \/ call' = NoCall
    BY <1>5 DEF MainQueue, Notice, GetTokenAnswered, FirebaseAuth, LookUp, TokenFetched,
                Answer, Timers, BackoffElapsed, IdleTimeout, remote
  <2> QED BY <2>1, <1>2, <1>3, <1>4
<1>6. CASE HandleCredentialChange
  <2>1. CASE network
    <3>1. RestartNetwork(queue[current_user']) BY <1>6, <2>1 DEF HandleCredentialChange
    <3>2. call'.status = "none" BY <3>1, <1>2, FillCalls DEF RestartNetwork
    <3> QED BY <3>2, <1>3
  <2>2. CASE ~network
    <3>1. call' = call BY <1>6, <2>2 DEF HandleCredentialChange, remote
    <3>2. stream.state # "Open" BY <2>2 DEF IInv, StreamInStep, IsStarted
    <3>3. call = NoCall BY <3>2 DEF IInv, StreamInStep, CallFits
    <3> QED BY <3>1, <3>3, <1>2, <1>3
  <2> QED BY <2>1, <2>2
<1>7. CASE ResumeStartWithCredentials
  <2> DEFINE m == Head(worker)
             c == [NoCall EXCEPT !.user = m.user, !.toServer = <<0>>, !.status = "ok"]
  <2>1. /\ worker # <<>> /\ m.type = "token" /\ current_user' = current_user
        /\ m.close # close_count => call' = call
        /\ m.close = close_count => call' = c
    BY <1>7 DEF ResumeStartWithCredentials
  <2>2. CASE m.close = close_count
    <3>1. m \in Message BY <2>1, <1>1, MessagesMoved
    <3>2. m \in OfStream(close_count) /\ m.type # "user" BY <3>1, <2>1, <2>2 DEF OfStream
    <3>3. m.user = current_user BY <3>2, <2>1, <1>1, FirstOfTail
    <3>4. c.user = m.user BY DEF NoCall
    <3> QED BY <3>3, <3>4, <2>1, <2>2 DEF CallIsUsers
  <2>3. CASE m.close # close_count BY <2>1, <2>3, <1>4
  <2> QED BY <2>2, <2>3
<1>8. CASE NoCredentials
  <2>1. CASE OnStreamFinish("broken") BY <2>1, <1>3, FinishCalls
  <2>2. CASE UNCHANGED <<running, auth, current_user, store, remote, history, signIns, faults>>
    BY <2>2, <1>4 DEF remote
  <2> QED BY <2>1, <2>2, <1>8 DEF NoCredentials
<1>9. CASE Finished BY <1>3, <1>9, FinishCalls DEF Finished
<1>10. CASE OnWriteStreamMutationResult
  <2> DEFINE c == [call EXCEPT !.done = Tail(call.done)]
             p == Tail(pipeline)
             q == Remove(queue[current_user], Head(pipeline).id)
  <2>1. /\ FillWritePipeline(p, q, stream, c) /\ current_user' = current_user
        /\ call.done # <<>>
    BY <1>10 DEF OnWriteStreamMutationResult
  <2>2. Tail(call.done) \in Seq([type : {"read"}, response : Response]
                                   \cup [type : {"failed", "finished"}])
    BY <2>1, <1>1, CallTypes, HeadTailProperties
  <2>3. c \in Call /\ c.user = call.user /\ c.status = call.status
    BY <2>2, <1>1 DEF Call
  <2> HIDE DEF c, p, q
  <2>4. call'.user = c.user /\ call'.status = c.status BY <2>1, <2>3, FillCalls
  <2> QED BY <2>1, <2>3, <2>4, <1>4
<1>11. CASE OnWriteStreamHandshakeComplete
  <2>1. /\ \E d, t : call' = [call EXCEPT !.done = d, !.toServer = t]
        /\ current_user' = current_user
    BY <1>11, Zenon DEF OnWriteStreamHandshakeComplete
  <2>2. call'.user = call.user /\ call'.status = call.status BY <2>1, <1>1 DEF Call
  <2> QED BY <2>1, <2>2, <1>4
<1>12. CASE OnOperationFailed \/ Arrive
  <2>1. /\ \E d, t : call' = [call EXCEPT !.done = d, !.toClient = t]
        /\ current_user' = current_user
    BY <1>12, Zenon DEF OnOperationFailed, Arrive
  <2>2. call'.user = call.user /\ call'.status = call.status BY <2>1, <1>1 DEF Call
  <2> QED BY <2>1, <2>2, <1>4
<1>13. CASE OperationFails
  <2>1. /\ \E d : call' = [call EXCEPT !.done = d]
        /\ current_user' = current_user
    BY <1>13, Zenon DEF OperationFails
  <2>2. call'.user = call.user /\ call'.status = call.status BY <2>1, <1>1 DEF Call
  <2> QED BY <2>1, <2>2, <1>4
<1>14. CASE Serve
  <2>1. call.status = "ok" /\ current_user' = current_user BY <1>14, Zenon DEF Serve
  <2>2. \/ \E t : call' = [call EXCEPT !.toServer = t, !.status = "refused"]
        \/ \E t, r : call' = [call EXCEPT !.toServer = t, !.toClient = r]
    BY <1>14, Zenon DEF Serve
  <2>3. call'.user = call.user
    <3>1. CASE \E t : call' = [call EXCEPT !.toServer = t, !.status = "refused"]
      BY <3>1, <1>1 DEF Call
    <3>2. CASE \E t, r : call' = [call EXCEPT !.toServer = t, !.toClient = r]
      BY <3>2, <1>1 DEF Call
    <3> QED BY <3>1, <3>2, <2>2, Zenon
  <2> QED BY <2>1, <2>3, <1>4
<1>15. CASE Break
  <2>1. call.status = "ok" /\ current_user' = current_user BY <1>15, Zenon DEF Break
  <2>2. \/ \E r : call' = [call EXCEPT !.status = "broken", !.toClient = r]
        \/ \E t : call' = [call EXCEPT !.status = "refused", !.toServer = t]
    BY <1>15, Zenon DEF Break
  <2>3. call'.user = call.user
    <3>1. CASE \E r : call' = [call EXCEPT !.status = "broken", !.toClient = r]
      BY <3>1, <1>1 DEF Call
    <3>2. CASE \E t : call' = [call EXCEPT !.status = "refused", !.toServer = t]
      BY <3>2, <1>1 DEF Call
    <3> QED BY <3>1, <3>2, <2>2, Zenon
  <2> QED BY <2>1, <2>3, <1>4
<1>16. ASSUME NEW w \in Write, WriteMutations(w) PROVE CallIsUsers'
  <2> DEFINE q == Append(queue[current_user], [id |-> next_batch_id, write |-> w])
  <2>1. FillWritePipeline(pipeline, q, stream, call) /\ current_user' = current_user
    BY <1>16 DEF WriteMutations
  <2> HIDE DEF q
  <2> QED BY <2>1, <1>1, <1>4, FillCalls
<1>17. CASE EnableNetwork BY <1>1, <1>4, <1>17, FillCalls DEF EnableNetwork
<1>18. CASE RegisterPendingWritesCallback BY <1>4, <1>18 DEF RegisterPendingWritesCallback, remote
<1>19. CASE DisableNetwork BY <1>2, <1>3, <1>19 DEF DisableNetwork
<1>20. CASE ConnectivityChanged
  BY <1>2, <1>3, <1>20, FillCalls DEF ConnectivityChanged, RestartNetwork
<1>21. ASSUME NEW u \in User, SignIn(u) PROVE CallIsUsers' BY <1>4, <1>21 DEF SignIn, remote
<1>22. ASSUME NEW u \in User, Initialize(u) PROVE CallIsUsers'
  BY <1>2, <1>3, <1>22, FillCalls DEF Initialize
<1>23. ASSUME NEW r \in requests, TokenRefused(r) PROVE CallIsUsers'
  BY <1>4, <1>23 DEF TokenRefused, Answer, remote
<1>24. CASE Kill \/ KillInSuccessfulWrite \/ KillInRejectedWrite
  BY <1>2, <1>3, <1>24 DEF Kill, KillInSuccessfulWrite, KillInRejectedWrite, Exit
<1>25. CASE UNCHANGED vars BY <1>4, <1>25 DEF vars, remote
<1> QED
  BY <1>5, <1>6, <1>7, <1>8, <1>9, <1>10, <1>11, <1>12, <1>13, <1>14, <1>15, <1>16,
     <1>17, <1>18, <1>19, <1>20, <1>21, <1>22, <1>23, <1>24, <1>25
  DEF Next, WorkerQueue, Completions, Transport, Application, Disturbance

\* What a step does to the queues, the owners and the commits.
LEMMA OwnersMove ==
    ASSUME IInv, [Next]_vars
    PROVE  \/ UNCHANGED <<queue, owner, committed>>
           \/ /\ pipeline # <<>> /\ RemoveFromQueue(Head(pipeline).id)
              /\ UNCHANGED <<owner, committed>>
           \/ \E w \in Write : WriteMutations(w)
           \/ Serve
<1> DEFINE Same == UNCHANGED <<queue, owner, committed>>
           Gone == /\ pipeline # <<>> /\ RemoveFromQueue(Head(pipeline).id)
                   /\ UNCHANGED <<owner, committed>>
<1>1. ASSUME UNCHANGED <<store, history>> PROVE Same BY <1>1 DEF store, history
<1>2. ASSUME UNCHANGED <<queue, history>> PROVE Same BY <1>2 DEF history
<1>3. ASSUME NEW status, OnStreamFinish(status) PROVE Same \/ Gone
  <2>1. CASE WriteFailed(status)
    BY <1>3, <2>1 DEF OnStreamFinish, HandleWriteError, WriteFailed
  <2>2. CASE ~WriteFailed(status) BY <1>3, <2>2 DEF OnStreamFinish
  <2> QED BY <2>1, <2>2
<1>4. CASE MainQueue BY <1>1, <1>4 DEF MainQueue, Notice, GetTokenAnswered
<1>5. CASE HandleCredentialChange BY <1>2, <1>5 DEF HandleCredentialChange
<1>6. CASE ResumeStartWithCredentials BY <1>1, <1>6 DEF ResumeStartWithCredentials
<1>7. CASE NoCredentials
  <2>1. CASE OnStreamFinish("broken") BY <2>1, <1>3
  <2>2. CASE UNCHANGED <<running, auth, current_user, store, remote, history, signIns, faults>>
    BY <2>2, <1>1
  <2> QED BY <2>1, <2>2, <1>7 DEF NoCredentials
<1>8. CASE Timers BY <1>1, <1>8 DEF Timers, BackoffElapsed, IdleTimeout
<1>9. CASE OnWriteStreamHandshakeComplete BY <1>1, <1>9 DEF OnWriteStreamHandshakeComplete
<1>10. CASE OnWriteStreamMutationResult BY <1>10 DEF OnWriteStreamMutationResult
<1>11. CASE OnOperationFailed BY <1>1, <1>11 DEF OnOperationFailed
<1>12. CASE Finished BY <1>3, <1>12 DEF Finished
<1>13. CASE FirebaseAuth \/ \E r \in requests : TokenRefused(r)
  BY <1>1, <1>13 DEF FirebaseAuth, LookUp, TokenFetched, TokenRefused, Answer
<1>14. CASE Transport BY <1>1, <1>14 DEF Transport, Arrive, OperationFails
<1>15. CASE Break
  <2>1. UNCHANGED <<store, history>> BY <1>15, Zenon DEF Break
  <2> QED BY <2>1, <1>1
<1>16. CASE RegisterPendingWritesCallback \/ EnableNetwork \/ DisableNetwork
            \/ ConnectivityChanged
  BY <1>1, <1>2, <1>16 DEF RegisterPendingWritesCallback, EnableNetwork, DisableNetwork,
                           ConnectivityChanged
<1>17. ASSUME NEW u \in User, SignIn(u) \/ Initialize(u) PROVE Same
  BY <1>1, <1>2, <1>17 DEF SignIn, Initialize
<1>18. CASE Kill \/ KillInSuccessfulWrite BY <1>18 DEF Kill, KillInSuccessfulWrite, Exit
<1>19. CASE KillInRejectedWrite BY <1>19 DEF KillInRejectedWrite, Exit
<1>20. CASE UNCHANGED vars BY <1>1, <1>20 DEF vars
<1> QED
  BY <1>4, <1>5, <1>6, <1>7, <1>8, <1>9, <1>10, <1>11, <1>12, <1>13, <1>14, <1>15, <1>16,
     <1>17, <1>18, <1>19, <1>20
  DEF Next, WorkerQueue, Completions, Application, Disturbance

\* A new batch has a write that no queue had; a batch that goes takes none along.
LEMMA QueuesStayUsers ==
    ASSUME IInv, QueuesAreUsers, [Next]_vars
    PROVE  QueuesAreUsers'
<1>1. /\ queue \in [User -> Seq(Batch)] /\ current_user \in User
      /\ owner \in [Write -> User \cup {None}]
      /\ TypeOK /\ QueuesInOrder /\ PipelineInStep
      /\ \A u \in User : \A i \in DOMAIN queue[u] : owner[queue[u][i].write] = u
  BY DEF IInv, TypeOK, QueuesAreUsers
<1>2. CASE UNCHANGED <<queue, owner>> BY <1>2 DEF QueuesAreUsers
<1>3. CASE pipeline # <<>> /\ RemoveFromQueue(Head(pipeline).id) /\ UNCHANGED owner
  <2> DEFINE q == queue[current_user]
  <2>1. /\ queue' = [queue EXCEPT ![current_user] = Tail(q)]
        /\ q \in Seq(Batch) /\ q # <<>> /\ Ascending(q)
    BY <1>1, <1>3, FrontRemoved DEF QueuesInOrder
  <2>2. /\ Tail(q) \in Seq(Batch)
        /\ \A i \in DOMAIN Tail(q) : i + 1 \in DOMAIN q /\ Tail(q)[i] = q[i + 1]
    <3>1. /\ Tail(q) \in Seq(Batch) /\ Len(Tail(q)) = Len(q) - 1
          /\ \A i \in 1 .. Len(q) - 1 : Tail(q)[i] = q[i + 1] /\ i + 1 \in 1 .. Len(q)
      BY <2>1, TailOfQueue
    <3>2. DOMAIN Tail(q) = 1 .. Len(q) - 1 /\ DOMAIN q = 1 .. Len(q)
      BY <3>1, <2>1, LenProperties
    <3> QED BY <3>1, <3>2
  <2>3. ASSUME NEW u \in User, NEW i \in DOMAIN queue'[u]
        PROVE  owner[queue'[u][i].write] = u
    <3>1. CASE u = current_user
      <4>1. queue'[u] = Tail(q) BY <3>1, <2>1, <1>1
      <4>2. i + 1 \in DOMAIN q /\ queue'[u][i] = q[i + 1] BY <4>1, <2>2, <2>3
      <4> QED BY <4>2, <3>1, <1>1
    <3>2. CASE u # current_user BY <3>2, <2>1, <1>1, <2>3
    <3> QED BY <3>1, <3>2
  <2> QED BY <2>3, <1>3 DEF QueuesAreUsers
<1>4. ASSUME NEW w \in Write, WriteMutations(w) PROVE QueuesAreUsers'
  <2> DEFINE b == [id |-> next_batch_id, write |-> w]
             q == queue[current_user]
             T == Append(q, b)
  <2>1. /\ b \in Batch /\ b.write = w /\ q \in Seq(Batch)
        /\ queue' = [queue EXCEPT ![current_user] = T]
        /\ owner' = [owner EXCEPT ![w] = current_user] /\ owner[w] = None
    BY <1>1, <1>4, BatchAppended DEF WriteMutations
  <2> HIDE DEF b
  <2>2. \A i \in DOMAIN T : T[i] = b \/ (i \in DOMAIN q /\ T[i] = q[i])
    <3>1. /\ T \in Seq(Batch) /\ Len(T) = Len(q) + 1 /\ T[Len(q) + 1] = b
          /\ \A i \in 1 .. Len(q) : T[i] = q[i]
      BY <2>1, AppendProperties
    <3>2. DOMAIN T = 1 .. Len(q) + 1 /\ DOMAIN q = 1 .. Len(q) /\ Len(q) \in Nat
      BY <2>1, <3>1, LenProperties
    <3> HIDE DEF T, q
    <3> QED BY <3>1, <3>2
  <2> HIDE DEF T
  <2>3. ASSUME NEW u \in User, NEW i \in DOMAIN queue[u]
        PROVE  owner'[queue[u][i].write] = u
    <3>1. queue[u] \in Seq(Batch) BY <1>1
    <3>2. queue[u][i] \in Batch BY <3>1, <2>3, LenProperties, ElementOfSeq
    <3>3. queue[u][i].write \in Write BY <3>2 DEF Batch
    <3>4. owner[queue[u][i].write] = u BY <1>1, <2>3
    <3>5. queue[u][i].write # w BY <3>4, <2>1, <2>3, WritesAssumption
    <3> QED BY <3>3, <3>4, <3>5, <2>1, <1>1
  <2>4. owner'[w] = current_user BY <2>1, <1>1
  <2>5. ASSUME NEW u \in User, NEW i \in DOMAIN queue'[u]
        PROVE  owner'[queue'[u][i].write] = u
    <3>1. CASE u = current_user
      <4>1. queue'[u] = T BY <3>1, <2>1, <1>1
      <4> QED BY <4>1, <3>1, <2>1, <2>2, <2>3, <2>4, <2>5
    <3>2. CASE u # current_user
      <4>1. queue'[u] = queue[u] BY <3>2, <2>1, <1>1
      <4> QED BY <4>1, <2>3, <2>5
    <3> QED BY <3>1, <3>2
  <2> QED BY <2>5 DEF QueuesAreUsers
<1>5. CASE Serve BY <1>2, <1>5 DEF Serve, store
<1> QED BY <1>2, <1>3, <1>4, <1>5, OwnersMove

\* The responses that wait: one that is read, and those to be read.
HasRead(c) == c.done # <<>> /\ Head(c.done).type = "read"

Waiting(c) == IF HasRead(c) THEN Len(c.toClient) + 1 ELSE Len(c.toClient)

LEMMA WaitingIsNat ==
    ASSUME NEW c \in Call
    PROVE  Waiting(c) \in Nat /\ Len(c.toClient) \in Nat
<1>1. c.toClient \in Seq(Response) BY CallTypes DEF Call
<1>2. Len(c.toClient) \in Nat BY <1>1, LenProperties
<1> QED BY <1>2 DEF Waiting

LEMMA WaitingIsUnread ==
    ASSUME NEW c \in Call
    PROVE  Len(UnreadOf(c)) = Waiting(c)
<1> DEFINE D == [type : {"read"}, response : Response] \cup [type : {"failed", "finished"}]
           first == IF c.done # <<>> /\ Head(c.done).type = "read"
                    THEN <<Head(c.done).response>> ELSE <<>>
<1>1. c.done \in Seq(D) /\ c.toClient \in Seq(Response) /\ Len(c.toClient) \in Nat
  BY LenProperties DEF Call
<1>2. c.done # <<>> => Head(c.done) \in D BY <1>1, HeadTailProperties
<1>3. c.done # <<>> /\ Head(c.done).type = "read" => Head(c.done).response \in Response
  BY <1>2
<1>4. /\ first \in Seq(Response)
      /\ HasRead(c) => Len(first) = 1
      /\ ~HasRead(c) => Len(first) = 0
  BY <1>3, EmptySeq DEF HasRead
<1>5. UnreadOf(c) = first \o c.toClient BY DEF UnreadOf
<1> HIDE DEF first
<1>6. Len(first \o c.toClient) = Len(first) + Len(c.toClient) BY <1>1, <1>4, ConcatProperties
<1>7. HasRead(c) => Waiting(c) = Len(c.toClient) + 1 BY DEF Waiting
<1>8. ~HasRead(c) => Waiting(c) = Len(c.toClient) BY DEF Waiting
<1>9. Len(UnreadOf(c)) = Len(first) + Len(c.toClient) BY <1>5, <1>6
<1>10. CASE HasRead(c)
  <2>1. Len(first) = 1 /\ Waiting(c) = Len(c.toClient) + 1 BY <1>10, <1>4, <1>7
  <2> DEFINE a == Len(first)
             b == Len(c.toClient)
  <2>2. a = 1 /\ b \in Nat BY <2>1, <1>1
  <2> HIDE DEF a, b
  <2>3. a + b = b + 1 BY <2>2
  <2> QED BY <2>1, <2>3, <1>9 DEF a, b
<1>11. CASE ~HasRead(c) BY <1>11, <1>1, <1>4, <1>9, <1>8
<1> QED BY <1>10, <1>11

\* The write that the service takes next is the one after those answered.
LEMMA ServedComesNext ==
    ASSUME IInv, call.status = "ok", call.toServer # <<>>
    PROVE  /\ stream.handshake => /\ Waiting(call) + 1 \in 1 .. Len(pipeline)
                                  /\ Head(call.toServer) = pipeline[Waiting(call) + 1].write
                                  /\ Head(call.toServer) \in Write
           /\ ~stream.handshake => Waiting(call) = 0 /\ Head(call.toServer) = 0
<1> DEFINE u == UnreadOf(call)
           t == call.toServer
           a == u \o t
           k == Waiting(call) + 1
<1>1. /\ u \in Seq(Response) /\ t \in Seq(Response) /\ call \in Call
      /\ a = IF stream.handshake THEN Writes(pipeline) ELSE <<0>>
      /\ Len(u) = Waiting(call) /\ Waiting(call) \in Nat
  BY UnreadIsSeq, PipelineMatches, CallTypes, WaitingIsUnread, WaitingIsNat
  DEF IInv, TypeOK, CallMatches
<1> HIDE DEF u
<1>2. /\ t # <<>> /\ Len(t) \in Nat \ {0} /\ Head(t) = t[1]
  BY <1>1, EmptySeq, LenProperties, HeadTailProperties
<1> HIDE DEF t
<1>3. /\ Len(a) = Len(u) + Len(t)
      /\ \A i \in 1 .. Len(u) + Len(t) :
            a[i] = IF i <= Len(u) THEN u[i] ELSE t[i - Len(u)]
  BY <1>1, ConcatProperties
<1>4. k \in 1 .. Len(a) /\ a[k] = Head(t)
  <2>1. k \in 1 .. Len(u) + Len(t) /\ ~(k <= Len(u)) /\ k - Len(u) = 1 BY <1>1, <1>2
  <2> HIDE DEF a, k
  <2> QED BY <2>1, <1>2, <1>3
<1> HIDE DEF a
<1>5. ASSUME ~stream.handshake PROVE Waiting(call) = 0 /\ Head(t) = 0
  <2>1. Len(a) = 1 /\ a[1] = 0 BY <1>1, <1>5
  <2>2. k = 1 BY <2>1, <1>1, <1>4
  <2> QED BY <2>1, <2>2, <1>1, <1>4
<1>6. ASSUME stream.handshake
      PROVE  k \in 1 .. Len(pipeline) /\ Head(t) = pipeline[k].write /\ Head(t) \in Write
  <2>1. a = Writes(pipeline) /\ pipeline \in Seq(Batch) BY <1>1, <1>6 DEF IInv, TypeOK
  <2>2. /\ Len(a) = Len(pipeline)
        /\ \A i \in 1 .. Len(pipeline) : a[i] = pipeline[i].write /\ pipeline[i].write \in Write
    BY <2>1, WritesOfBatches
  <2> HIDE DEF k
  <2> QED BY <2>2, <1>4
<1> QED BY <1>5, <1>6 DEF k, t

\* What the service serves is the handshake or a write of the pipeline.
LEMMA ServedIsPipelines ==
    ASSUME IInv, call.status = "ok", call.toServer # <<>>, Head(call.toServer) # 0
    PROVE  \E i \in DOMAIN queue[current_user] :
               queue[current_user][i].write = Head(call.toServer)
<1> DEFINE k == Waiting(call) + 1
<1>1. k \in 1 .. Len(pipeline) /\ Head(call.toServer) = pipeline[k].write
  BY ServedComesNext
<1> HIDE DEF k
<1>2. /\ IsPrefix(pipeline, queue[current_user]) /\ Len(pipeline) \in Nat
      /\ queue[current_user] \in Seq(Batch) /\ Len(queue[current_user]) \in Nat
  BY PipelineIsPrefix DEF IInv
<1>3. pipeline[k] = queue[current_user][k] /\ k \in 1 .. Len(queue[current_user])
  BY <1>1, <1>2 DEF IsPrefix
<1> QED BY <1>1, <1>2, <1>3, LenProperties

LEMMA WritesStayOwners ==
    ASSUME IInv, CallIsUsers, QueuesAreUsers, WrittenByOwner, [Next]_vars
    PROVE  WrittenByOwner'
<1>1. /\ current_user \in User /\ owner \in [Write -> User \cup {None}]
      /\ committed \in [Write -> SUBSET User]
      /\ \A v \in Write : committed[v] \subseteq {owner[v]}
  BY DEF IInv, TypeOK, WrittenByOwner
<1>2. CASE UNCHANGED <<owner, committed>> BY <1>2 DEF WrittenByOwner
<1>3. ASSUME NEW w \in Write, WriteMutations(w) PROVE WrittenByOwner'
  <2>1. /\ owner' = [owner EXCEPT ![w] = current_user] /\ owner[w] = None
        /\ committed' = committed
    BY <1>3 DEF WriteMutations
  <2>2. committed[w] = {} BY <2>1, <1>1, WritesAssumption
  <2>3. ASSUME NEW v \in Write PROVE committed'[v] \subseteq {owner'[v]}
    <3>1. CASE v = w BY <3>1, <2>1, <2>2
    <3>2. CASE v # w BY <3>2, <2>1, <1>1
    <3> QED BY <3>1, <3>2
  <2> QED BY <2>3 DEF WrittenByOwner
<1>4. CASE Serve
  <2> DEFINE w == Head(call.toServer)
  <2>1. /\ call.status = "ok" /\ call.toServer # <<>> /\ owner' = owner
        /\ committed' = [v \in Write |-> IF v = w /\ w \notin Refused
                                         THEN committed[v] \cup {call.user} ELSE committed[v]]
    BY <1>4 DEF Serve
  <2>2. call.user = current_user BY <2>1 DEF CallIsUsers
  <2>3. w # 0 => owner[w] = current_user
    <3> SUFFICES ASSUME w # 0 PROVE owner[w] = current_user OBVIOUS
    <3>1. PICK i \in DOMAIN queue[current_user] : queue[current_user][i].write = w
      BY <2>1, ServedIsPipelines
    <3> QED BY <3>1, <1>1 DEF QueuesAreUsers
  <2> HIDE DEF w
  <2>4. ASSUME NEW v \in Write PROVE committed'[v] \subseteq {owner'[v]}
    <3>1. v # 0 BY WritesAssumption DEF Write
    <3>2. CASE v = w /\ w \notin Refused
      <4>1. committed'[v] = committed[v] \cup {current_user} BY <2>1, <2>2, <3>2
      <4>2. owner'[v] = current_user BY <2>1, <2>3, <3>1, <3>2
      <4> QED BY <4>1, <4>2, <2>1, <1>1
    <3>3. CASE ~(v = w /\ w \notin Refused)
      <4>1. committed'[v] = committed[v] BY <2>1, <3>3
      <4> QED BY <4>1, <2>1, <1>1
    <3> QED BY <3>2, <3>3
  <2> QED BY <2>4 DEF WrittenByOwner
<1> QED BY <1>2, <1>3, <1>4, OwnersMove

LEMMA OwnersHold ==
    ASSUME Init
    PROVE  OwnersInStep
<1>1. /\ running = FALSE /\ requests = {} /\ main = <<>> /\ worker = <<>>
      /\ queue = [u \in User |-> <<>>] /\ call = NoCall
      /\ committed = [w \in Write |-> {}]
  BY DEF Init
<1>2. DOMAIN main = {} /\ DOMAIN worker = {} BY <1>1
<1>3. UsersInStep
  BY <1>1, <1>2 DEF UsersInStep, CountersFit, FirstAnswers
<1>4. CallIsUsers BY <1>1 DEF CallIsUsers, NoCall
<1>5. QueuesAreUsers
  <2>1. \A u \in User : queue[u] = <<>> /\ DOMAIN queue[u] = {} BY <1>1
  <2> QED BY <2>1 DEF QueuesAreUsers
<1>6. WrittenByOwner BY <1>1 DEF WrittenByOwner
<1> QED BY <1>3, <1>4, <1>5, <1>6 DEF OwnersInStep

\* A write is only ever committed in the name of the user in whose queue it was
\* put, whoever signs in while tokens and notices are under way: the two counters
\* (token_counter_ and close_count_) keep every other token from a stream.
THEOREM WrittenByTheOwner == Spec => []WrittenByOwner
<1>1. Init => IInv /\ OwnersInStep BY InitHolds, OwnersHold
<1>2. IInv /\ OwnersInStep /\ [Next]_vars => (IInv /\ OwnersInStep)'
  <2> SUFFICES ASSUME IInv, OwnersInStep, [Next]_vars PROVE IInv' /\ OwnersInStep'
    OBVIOUS
  <2>1. IInv' BY Inductive
  <2>2. UsersInStep' BY UsersKept DEF OwnersInStep
  <2>3. CallIsUsers' BY CallStaysUsers DEF OwnersInStep
  <2>4. QueuesAreUsers' BY QueuesStayUsers DEF OwnersInStep
  <2>5. WrittenByOwner' BY WritesStayOwners DEF OwnersInStep
  <2> QED BY <2>1, <2>2, <2>3, <2>4, <2>5 DEF OwnersInStep
<1>3. OwnersInStep => WrittenByOwner BY DEF OwnersInStep
<1> QED BY <1>1, <1>2, <1>3, PTL DEF Spec

-----------------------------------------------------------------------------
\* What is answered, and what left the queues.

\* The first n batches of p are committed, according to C.
CommittedTo(p, n, C) == n <= Len(p) /\ \A i \in 1 .. n : C[p[i].write] # {}

\* The n responses that wait are for batches of p that are committed; the write
\* that ended the call comes after them, with none in between left open.
AnswersFit(handshake, status, n, p, C) ==
    /\ handshake => CommittedTo(p, n, C)
    /\ handshake /\ status = "refused" =>
          \E k \in 1 .. Len(p) :
              n < k /\ p[k].write \in Refused /\ CommittedTo(p, k - 1, C)
    /\ ~handshake => n <= 1
    /\ ~handshake /\ status = "refused" => n = 0

AnswersInStep ==
    AnswersFit(stream.handshake, call.status, Waiting(call), pipeline, committed)

\* A callback is for a batch that is still in the queue.
CallbacksInStep ==
    \A u \in User : \A b \in callbacks[u] : \E i \in DOMAIN queue[u] : queue[u][i] = b

WritesDistinct ==
    \A u \in User : \A i, j \in DOMAIN queue[u] :
        queue[u][i].write = queue[u][j].write => i = j

LEMMA AnswersStay ==
    ASSUME NEW p \in Seq(Batch), NEW r \in Seq(Batch), NEW n \in Nat, NEW m \in Nat, m <= n,
           Len(p) <= Len(r), \A i \in 1 .. Len(p) : r[i] = p[i],
           NEW C, NEW D, \A w \in Write : C[w] # {} => D[w] # {},
           NEW h, NEW x, NEW y, y = "refused" => x = "refused",
           AnswersFit(h, x, n, p, C)
    PROVE  AnswersFit(h, y, m, r, D)
<1>1. Len(p) \in Nat /\ Len(r) \in Nat /\ \A i \in 1 .. Len(p) : p[i].write \in Write
  BY LenProperties, WritesOfBatches
<1>2. ASSUME NEW k \in Nat, NEW j \in Nat, j <= k, CommittedTo(p, k, C)
      PROVE  CommittedTo(r, j, D)
  <2>1. k <= Len(p) /\ \A i \in 1 .. k : C[p[i].write] # {} BY <1>2 DEF CommittedTo
  <2>2. j <= Len(r) BY <1>1, <1>2, <2>1
  <2>3. ASSUME NEW i \in 1 .. j PROVE D[r[i].write] # {}
    <3>1. i \in 1 .. k /\ i \in 1 .. Len(p) BY <1>1, <1>2, <2>1
    <3> QED BY <3>1, <2>1, <1>1
  <2> QED BY <2>2, <2>3 DEF CommittedTo
<1>3. h => CommittedTo(r, m, D) BY <1>2 DEF AnswersFit
<1>4. ASSUME h, y = "refused"
      PROVE  \E k \in 1 .. Len(r) :
                 m < k /\ r[k].write \in Refused /\ CommittedTo(r, k - 1, D)
  <2>1. PICK k \in 1 .. Len(p) : n < k /\ p[k].write \in Refused /\ CommittedTo(p, k - 1, C)
    BY <1>4 DEF AnswersFit
  <2>2. k \in 1 .. Len(r) /\ m < k /\ r[k] = p[k] /\ k - 1 \in Nat BY <2>1, <1>1
  <2>3. CommittedTo(r, k - 1, D) BY <2>1, <2>2, <1>2
  <2> QED BY <2>1, <2>2, <2>3
<1>5. (~h => m <= 1) /\ (~h /\ y = "refused" => m = 0) BY DEF AnswersFit
<1> QED BY <1>3, <1>4, <1>5 DEF AnswersFit

LEMMA NoAnswers ==
    ASSUME NEW p \in Seq(Batch), NEW C, NEW h, NEW y, y # "refused"
    PROVE  AnswersFit(h, y, 0, p, C)
<1>1. Len(p) \in Nat BY LenProperties
<1> QED BY <1>1 DEF AnswersFit, CommittedTo

LEMMA AnswersFrom ==
    ASSUME AnswersFit(stream'.handshake, call'.status, Waiting(call'), pipeline', committed')
    PROVE  AnswersInStep'
BY DEF AnswersInStep, AnswersFit, CommittedTo, Waiting, HasRead

\* Filling sends, and changes nothing else of the call.
LEMMA FillWaits ==
    ASSUME NEW p, NEW q, NEW s, NEW c \in Call, FillWritePipeline(p, q, s, c)
    PROVE  call'.status = c.status /\ Waiting(call') = Waiting(c)
<1>1. \E sent : call' = [c EXCEPT !.toServer = c.toServer \o sent] BY DEF FillWritePipeline
<1>2. call'.status = c.status /\ call'.done = c.done /\ call'.toClient = c.toClient
  BY <1>1 DEF Call
<1> QED BY <1>2 DEF Waiting, HasRead

LEMMA NoneWaits ==
    NoCall \in Call /\ NoCall.status = "none" /\ Waiting(NoCall) = 0
<1>1. NoCall.done = <<>> /\ NoCall.toClient = <<>> /\ NoCall.status = "none" BY DEF NoCall
<1>2. Len(<<>>) = 0 BY EmptySeq
<1> QED BY <1>1, <1>2, IdleFits DEF Waiting, HasRead

LEMMA FinishWaits ==
    ASSUME NEW status, OnStreamFinish(status)
    PROVE  call'.status = "none" /\ Waiting(call') = 0
<1>1. CASE WriteFailed(status)
  <2>1. HandleWriteError BY <1>1 DEF OnStreamFinish
  <2> QED BY <2>1, NoneWaits, FillWaits DEF HandleWriteError
<1>2. CASE ~WriteFailed(status)
  <2>1. call' = NoCall BY <1>2 DEF OnStreamFinish
  <2> QED BY <2>1, NoneWaits
<1> QED BY <1>1, <1>2

\* A stream that is filled is as far with its handshake as before.
LEMMA FillsAnswers ==
    ASSUME NEW p \in Seq(Batch), NEW q, NEW s \in Stream, NEW c \in Call, Fills(p, q, s, c),
           AnswersFit(s.handshake, c.status, Waiting(c), p, committed), committed' = committed
    PROVE  AnswersInStep'
<1>1. /\ pipeline' \in Seq(Batch) /\ Len(p) <= Len(pipeline')
      /\ \A i \in 1 .. Len(p) : pipeline'[i] = p[i]
  BY DEF Fills
<1>2. stream'.handshake = s.handshake
  <2>1. CASE IsStarted(s) BY <2>1 DEF Fills
  <2>2. CASE ~IsStarted(s)
    <3>1. \/ \E x : stream' = [s EXCEPT !.state = x]
          \/ stream' = s
      BY <2>2, Zenon DEF Fills
    <3> QED BY <3>1 DEF Stream
  <2> QED BY <2>1, <2>2
<1>3. call'.status = c.status /\ Waiting(call') = Waiting(c)
  <2>1. \E t : call' = [c EXCEPT !.toServer = t] BY Zenon DEF Fills
  <2>2. call'.status = c.status /\ call'.done = c.done /\ call'.toClient = c.toClient
    BY <2>1 DEF Call
  <2> QED BY <2>2 DEF Waiting, HasRead
<1>4. Waiting(c) \in Nat BY WaitingIsNat
<1>5. AnswersFit(s.handshake, c.status, Waiting(c), pipeline', committed)
  <2> DEFINE n == Waiting(c)
  <2>1. n \in Nat /\ n <= n /\ \A w \in Write : committed[w] # {} => committed[w] # {}
    BY <1>4
  <2>2. AnswersFit(s.handshake, c.status, n, p, committed) OBVIOUS
  <2> HIDE DEF n
  <2>3. AnswersFit(s.handshake, c.status, n, pipeline', committed)
    BY <2>1, <2>2, <1>1, AnswersStay
  <2> QED BY <2>3 DEF n
<1> QED BY <1>2, <1>3, <1>5, AnswersFrom

LEMMA TailWaits ==
    ASSUME IInv, call.done # <<>>, Head(call.done).type = "read", NEW c,
           c.done = Tail(call.done), c.toClient = call.toClient
    PROVE  Waiting(call) = Waiting(c) + 1 /\ Waiting(c) \in Nat
<1>1. DoneInOrder(call) /\ Len(call.toClient) \in Nat
  BY WaitingIsNat DEF IInv, CallInOrder, TypeOK
<1>2. Tail(call.done) = <<>> \/ Tail(call.done) = <<[type |-> "failed"]>>
  <2>1. ASSUME call.done = <<[type |-> "failed"]>> PROVE FALSE BY <2>1
  <2>2. ASSUME call.done = <<[type |-> "finished"]>> PROVE FALSE BY <2>2
  <2>3. \E r \in Response : call.done = <<Read(r)>> \/ call.done = <<Read(r), [type |-> "failed"]>>
    BY <2>1, <2>2, <1>1 DEF DoneInOrder
  <2>4. PICK r \in Response : \/ call.done = <<Read(r)>>
                              \/ call.done = <<Read(r), [type |-> "failed"]>>
    BY <2>3
  <2> DEFINE x == Read(r)
             y == [type |-> "failed"]
  <2>5. Tail(<<x>>) = <<>> /\ Tail(<<x, y>>) = <<y>>
    <3> HIDE DEF x, y
    <3> QED BY ShortSequences
  <2> QED BY <2>4, <2>5
<1>3. Waiting(c) = Len(call.toClient)
  <2>1. CASE Tail(call.done) = <<>> BY <2>1, <1>1 DEF Waiting, HasRead
  <2>2. CASE Tail(call.done) = <<[type |-> "failed"]>>
    <3>1. Head(c.done) = [type |-> "failed"] BY <2>2, ShortSequences
    <3>2. ~HasRead(c) BY <3>1 DEF HasRead
    <3> QED BY <3>2, <1>1 DEF Waiting
  <2> QED BY <2>1, <2>2, <1>2
<1>4. Waiting(call) = 1 + Len(call.toClient) BY DEF Waiting, HasRead
<1> QED BY <1>1, <1>3, <1>4

\* A commit is for good.
LEMMA CommitsStay ==
    ASSUME IInv, [Next]_vars
    PROVE  committed' = committed \/ Serve
<1>1. ASSUME NEW w \in Write, WriteMutations(w) PROVE committed' = committed
  BY <1>1 DEF WriteMutations
<1> QED BY <1>1, OwnersMove

LEMMA ServeCommits ==
    ASSUME IInv, Serve
    PROVE  /\ \A w \in Write : committed[w] # {} => committed'[w] # {}
           /\ \A w \in Write : w = Head(call.toServer) /\ w \notin Refused => committed'[w] # {}
           /\ \A w \in Write : w # Head(call.toServer) => committed'[w] = committed[w]
           /\ \A w \in Write : w \in Refused => committed'[w] = committed[w]
<1> DEFINE h == Head(call.toServer)
<1>1. committed' = [v \in Write |-> IF v = h /\ h \notin Refused
                                    THEN committed[v] \cup {call.user} ELSE committed[v]]
  BY DEF Serve
<1> HIDE DEF h
<1> QED BY <1>1 DEF h

\* The responses of a call that wait are answers to the first batches.
LEMMA CallAnswers ==
    ASSUME IInv, AnswersInStep,
           \/ OnWriteStreamHandshakeComplete \/ OnOperationFailed
           \/ Arrive \/ OperationFails \/ Serve \/ Break
    PROVE  AnswersInStep'
<1> DEFINE D == [type : {"read"}, response : Response] \cup [type : {"failed", "finished"}]
           n == Waiting(call)
           m == Waiting(call')
<1>1. /\ call \in Call /\ pipeline \in Seq(Batch) /\ Len(pipeline) \in Nat /\ stream \in Stream
      /\ call.toServer \in Seq(Response) /\ call.toClient \in Seq(Response)
      /\ call.done \in Seq(D) /\ n \in Nat /\ Len(call.toClient) \in Nat
      /\ AnswersFit(stream.handshake, call.status, n, pipeline, committed)
  BY WaitingIsNat, CallTypes, LenProperties DEF IInv, TypeOK, AnswersInStep
<1>2. ASSUME pipeline' = pipeline, stream'.handshake = stream.handshake, m \in Nat, m <= n,
             committed' = committed, call'.status = "refused" => call.status = "refused"
      PROVE  AnswersInStep'
  <2>1. AnswersFit(stream.handshake, call'.status, m, pipeline, committed)
    <3> HIDE DEF n, m
    <3>1. /\ Len(pipeline) <= Len(pipeline)
          /\ \A i \in 1 .. Len(pipeline) : pipeline[i] = pipeline[i]
          /\ \A w \in Write : committed[w] # {} => committed[w] # {}
      BY <1>1
    <3> QED BY <3>1, <1>1, <1>2, AnswersStay
  <2> QED BY <2>1, <1>2, AnswersFrom
<1>3. CASE OnWriteStreamHandshakeComplete
  <2>1. /\ call.done # <<>> /\ Head(call.done).type = "read" /\ ~stream.handshake
        /\ stream' = [stream EXCEPT !.handshake = TRUE, !.idle = stream.idle /\ pipeline = <<>>]
        /\ call' = [call EXCEPT !.done = Tail(call.done),
                                !.toServer = call.toServer \o Writes(pipeline)]
        /\ pipeline' = pipeline
    BY <1>3 DEF OnWriteStreamHandshakeComplete, Writes
  <2>2. stream'.handshake = TRUE BY <2>1, <1>1 DEF Stream
  <2>3. /\ call'.status = call.status /\ call'.done = Tail(call.done)
        /\ call'.toClient = call.toClient
    BY <2>1, <1>1 DEF Call
  <2>4. n = m + 1 /\ m \in Nat BY <2>1, <2>3, TailWaits
  <2>5. m = 0 /\ call.status # "refused"
    <3> HIDE DEF n, m
    <3> QED BY <2>1, <2>4, <1>1 DEF AnswersFit
  <2>6. AnswersFit(stream'.handshake, call'.status, m, pipeline', committed')
    <3> HIDE DEF n, m
    <3> QED BY <2>1, <2>3, <2>5, <1>1, NoAnswers
  <2> QED BY <2>6, AnswersFrom
<1>4. CASE OnOperationFailed
  <2>1. /\ call' = [call EXCEPT !.done = <<[type |-> "finished"]>>, !.toClient = <<>>]
        /\ UNCHANGED <<pipeline, stream, committed>>
    BY <1>4 DEF OnOperationFailed, history
  <2>2. /\ call'.status = call.status /\ call'.done = <<[type |-> "finished"]>>
        /\ call'.toClient = <<>>
    BY <2>1, <1>1 DEF Call
  <2>3. Head(<<[type |-> "finished"]>>).type # "read" /\ Len(<<>>) = 0 BY EmptySeq
  <2>4. m = 0 BY <2>2, <2>3 DEF Waiting, HasRead
  <2> QED BY <2>1, <2>2, <2>4, <1>1, <1>2
<1>5. CASE Arrive
  <2>1. /\ call.toClient # <<>> /\ Types = {}
        /\ call' = [call EXCEPT !.done = <<Read(Head(call.toClient))>>,
                                !.toClient = Tail(call.toClient)]
        /\ UNCHANGED <<pipeline, stream, committed>>
    BY <1>5 DEF Arrive, Read, history
  <2>2. /\ call'.status = call.status /\ call'.done = <<Read(Head(call.toClient))>>
        /\ call'.toClient = Tail(call.toClient)
    BY <2>1, <1>1 DEF Call
  <2>3. Len(Tail(call.toClient)) = Len(call.toClient) - 1 BY <2>1, <1>1, HeadTailProperties
  <2>4. m <= 1 + (Len(call.toClient) - 1) /\ m \in Nat
    <3>1. Len(call'.toClient) \in Nat BY <2>1, <2>2, <1>1, HeadTailProperties, LenProperties
    <3> QED BY <3>1, <2>2, <2>3 DEF Waiting, HasRead
  <2>5. Len(call.toClient) <= n BY <1>1 DEF Waiting, HasRead
  <2>6. m <= n
    <3> HIDE DEF n, m
    <3> QED BY <2>4, <2>5, <1>1
  <2> QED BY <2>1, <2>2, <2>4, <2>6, <1>2
<1>6. CASE OperationFails
  <2>1. /\ call' = [call EXCEPT !.done = Append(call.done, [type |-> "failed"])]
        /\ UNCHANGED <<pipeline, stream, committed>>
    BY <1>6 DEF OperationFails, history
  <2>2. /\ call'.status = call.status /\ call'.toClient = call.toClient
        /\ call'.done = Append(call.done, [type |-> "failed"])
    BY <2>1, <1>1 DEF Call
  <2>3. call'.done # <<>> /\ Head(call'.done).type = "read" =>
           call.done # <<>> /\ Head(call.done).type = "read"
    <3> DEFINE d == call.done
               f == [type |-> "failed"]
               e == Append(d, f)
    <3>1. f \in D /\ d \in Seq(D) /\ f.type = "failed" BY <1>1
    <3> HIDE DEF d, f
    <3>2. /\ e \in Seq(D) /\ Len(e) = Len(d) + 1 /\ Len(d) \in Nat
          /\ \A i \in 1 .. Len(d) : e[i] = d[i]
          /\ e[Len(d) + 1] = f
      BY <3>1, AppendProperties, LenProperties
    <3> HIDE DEF e
    <3>3. CASE d = <<>>
      <4>1. Len(e) = 1 /\ e[1] = f BY <3>2, <3>3, EmptySeq
      <4>2. Head(e) = f BY <4>1, <3>2
      <4> QED BY <4>2, <3>1, <2>2 DEF e, f, d
    <3>4. CASE d # <<>>
      <4>1. Len(d) \in Nat \ {0} /\ Head(d) = d[1] BY <3>1, <3>4, EmptySeq, LenProperties
      <4>2. Head(e) = e[1] BY <3>2
      <4>3. Head(e) = Head(d) BY <4>1, <4>2, <3>2
      <4> QED BY <4>3, <3>4, <2>2 DEF e, f, d
    <3> QED BY <3>3, <3>4
  <2>4. m <= n /\ m \in Nat BY <2>2, <2>3, <1>1 DEF Waiting, HasRead
  <2> QED BY <2>1, <2>2, <2>4, <1>2
<1>7. CASE Serve
  <2> DEFINE w == Head(call.toServer)
  <2>1. /\ call.status = "ok" /\ call.toServer # <<>> /\ UNCHANGED <<pipeline, stream>>
        /\ w \in Refused =>
              call' = [call EXCEPT !.toServer = Tail(call.toServer), !.status = "refused"]
        /\ w \notin Refused =>
              call' = [call EXCEPT !.toServer = Tail(call.toServer),
                                   !.toClient = Append(call.toClient, w)]
    BY <1>7 DEF Serve
  <2>2. /\ stream.handshake => /\ n + 1 \in 1 .. Len(pipeline) /\ w = pipeline[n + 1].write
                               /\ w \in Write
        /\ ~stream.handshake => n = 0
    BY <2>1, ServedComesNext
  <2>3. /\ \A v \in Write : committed[v] # {} => committed'[v] # {}
        /\ \A v \in Write : v = w /\ v \notin Refused => committed'[v] # {}
    BY <1>7, ServeCommits
  <2>4. \A i \in 1 .. Len(pipeline) : pipeline[i].write \in Write BY <1>1, WritesOfBatches
  <2>5. w \in Response BY <2>1, <1>1, HeadTailProperties
  <2> HIDE DEF w
  <2>6. stream.handshake => n <= Len(pipeline) /\ \A i \in 1 .. n : committed'[pipeline[i].write] # {}
    <3>1. stream.handshake => CommittedTo(pipeline, n, committed) BY <1>1 DEF AnswersFit
    <3> HIDE DEF n
    <3>2. stream.handshake => \A i \in 1 .. n : i \in 1 .. Len(pipeline) BY <2>2, <1>1
    <3> QED BY <3>1, <3>2, <2>3, <2>4 DEF CommittedTo
  <2>7. CASE w \in Refused
    <3>1. call'.status = "refused" /\ call'.done = call.done /\ call'.toClient = call.toClient
      BY <2>1, <2>7, <1>1 DEF Call
    <3>2. m = n BY <3>1 DEF Waiting, HasRead
    <3> HIDE DEF n, m
    <3>3. stream.handshake =>
             \E k \in 1 .. Len(pipeline) :
                n < k /\ pipeline[k].write \in Refused /\ CommittedTo(pipeline, k - 1, committed')
      <4> SUFFICES ASSUME stream.handshake
                   PROVE  \E k \in 1 .. Len(pipeline) :
                             /\ n < k /\ pipeline[k].write \in Refused
                             /\ CommittedTo(pipeline, k - 1, committed')
        OBVIOUS
      <4>1. n + 1 \in 1 .. Len(pipeline) /\ n < n + 1 /\ (n + 1) - 1 = n BY <2>2, <1>1
      <4>2. CommittedTo(pipeline, (n + 1) - 1, committed') BY <4>1, <2>6 DEF CommittedTo
      <4> QED BY <4>1, <4>2, <2>2, <2>7
    <3>4. stream.handshake => CommittedTo(pipeline, n, committed') BY <2>6 DEF CommittedTo
    <3>5. AnswersFit(stream.handshake, "refused", n, pipeline, committed')
      BY <3>3, <3>4, <2>2 DEF AnswersFit
    <3>6. AnswersFit(stream'.handshake, call'.status, Waiting(call'), pipeline', committed')
      BY <3>1, <3>2, <3>5, <2>1 DEF m
    <3> QED BY <3>6, AnswersFrom
  <2>8. CASE w \notin Refused
    <3>1. /\ call'.status = "ok" /\ call'.done = call.done
          /\ call'.toClient = Append(call.toClient, w)
      BY <2>1, <2>8, <1>1 DEF Call
    <3>2. Len(Append(call.toClient, w)) = Len(call.toClient) + 1
      BY <2>5, <1>1, AppendProperties
    <3>3. m = n + 1 BY <3>1, <3>2, <1>1 DEF Waiting, HasRead
    <3> HIDE DEF n, m
    <3>4. stream.handshake => CommittedTo(pipeline, n + 1, committed')
      <4> SUFFICES ASSUME stream.handshake
                   PROVE  /\ n + 1 <= Len(pipeline)
                          /\ \A i \in 1 .. n + 1 : committed'[pipeline[i].write] # {}
        BY DEF CommittedTo
      <4>1. n + 1 <= Len(pipeline) BY <2>2, <1>1
      <4>2. committed'[pipeline[n + 1].write] # {} BY <2>2, <2>3, <2>8
      <4>3. \A i \in 1 .. n + 1 : i = n + 1 \/ i \in 1 .. n BY <1>1
      <4> QED BY <4>1, <4>2, <4>3, <2>6
    <3>5. AnswersFit(stream.handshake, "ok", n + 1, pipeline, committed')
      BY <3>4, <2>2 DEF AnswersFit
    <3>6. AnswersFit(stream'.handshake, call'.status, Waiting(call'), pipeline', committed')
      BY <3>1, <3>3, <3>5, <2>1 DEF m
    <3> QED BY <3>6, AnswersFrom
  <2> QED BY <2>7, <2>8
<1>8. CASE Break
  <2>1. call.status = "ok" /\ UNCHANGED <<pipeline, stream, committed>>
    BY <1>8, Zenon DEF Break, history
  <2>2. \/ \E k \in 0 .. Len(call.toClient) :
               call' = [call EXCEPT !.status = "broken",
                                    !.toClient = SubSeq(call.toClient, 1, k)]
        \/ /\ call.toServer # <<>> /\ Head(call.toServer) = 0
           /\ call' = [call EXCEPT !.status = "refused", !.toServer = Tail(call.toServer)]
    BY <1>8, Zenon DEF Break
  <2>3. ASSUME NEW k \in 0 .. Len(call.toClient),
               call' = [call EXCEPT !.status = "broken",
                                    !.toClient = SubSeq(call.toClient, 1, k)]
        PROVE  AnswersInStep'
    <3>1. /\ call'.status = "broken" /\ call'.done = call.done
          /\ call'.toClient = SubSeq(call.toClient, 1, k)
      BY <2>3, <1>1 DEF Call
    <3>2. k \in Nat /\ k <= Len(call.toClient) BY <1>1
    <3>3. Len(SubSeq(call.toClient, 1, k)) = k
      <4>1. \A i \in 1 .. k : call.toClient[i] \in Response BY <3>2, <1>1, ElementOfSeq
      <4>2. Len(SubSeq(call.toClient, 1, k)) = IF 1 <= k THEN k - 1 + 1 ELSE 0
        BY <4>1, <3>2, SubSeqProperties
      <4> QED BY <4>2, <3>2
    <3>4. m <= n /\ m \in Nat BY <3>1, <3>2, <3>3, <1>1 DEF Waiting, HasRead
    <3> QED BY <3>1, <3>4, <2>1, <1>2
  <2>4. ASSUME call.toServer # <<>>, Head(call.toServer) = 0,
               call' = [call EXCEPT !.status = "refused", !.toServer = Tail(call.toServer)]
        PROVE  AnswersInStep'
    <3>1. 0 \notin Write BY WritesAssumption DEF Write
    <3>2. ~stream.handshake /\ n = 0 BY <3>1, <2>1, <2>4, ServedComesNext
    <3>3. call'.status = "refused" /\ call'.done = call.done /\ call'.toClient = call.toClient
      BY <2>4, <1>1 DEF Call
    <3>4. m = 0 BY <3>2, <3>3 DEF Waiting, HasRead
    <3> HIDE DEF n, m
    <3>5. AnswersFit(stream'.handshake, call'.status, m, pipeline', committed')
      BY <3>2, <3>4, <2>1 DEF AnswersFit
    <3> QED BY <3>5, AnswersFrom DEF m
  <2> QED BY <2>2, <2>3, <2>4
<1> QED BY <1>3, <1>4, <1>5, <1>6, <1>7, <1>8

LEMMA AnswersOfTail ==
    ASSUME NEW p \in Seq(Batch), p # <<>>, NEW n \in Nat, NEW C, NEW y,
           AnswersFit(TRUE, y, n + 1, p, C)
    PROVE  AnswersFit(TRUE, y, n, Tail(p), C)
<1> DEFINE q == Tail(p)
<1>1. /\ Len(q) = Len(p) - 1 /\ Len(p) \in Nat \ {0}
      /\ \A i \in 1 .. Len(p) - 1 : q[i] = p[i + 1]
  <2>1. /\ Len(q) = Len(p) - 1 /\ Len(p) \in Nat \ {0}
        /\ \A i \in 1 .. Len(q) : q[i] = p[i + 1]
    BY HeadTailProperties, EmptySeq, LenProperties
  <2> HIDE DEF q
  <2> QED BY <2>1
<1> HIDE DEF q
<1>2. ASSUME NEW k \in Nat, CommittedTo(p, k + 1, C) PROVE CommittedTo(q, k, C)
  <2>1. k + 1 <= Len(p) /\ \A i \in 1 .. k + 1 : C[p[i].write] # {} BY <1>2 DEF CommittedTo
  <2>2. k <= Len(q) BY <1>1, <1>2, <2>1
  <2>3. ASSUME NEW i \in 1 .. k PROVE C[q[i].write] # {}
    <3>1. i + 1 \in 1 .. k + 1 /\ i \in 1 .. Len(p) - 1 BY <1>1, <1>2, <2>1
    <3>2. C[p[i + 1].write] # {} BY <3>1, <2>1
    <3> QED BY <3>1, <3>2, <1>1
  <2> QED BY <2>2, <2>3 DEF CommittedTo
<1>3. CommittedTo(p, n + 1, C) BY DEF AnswersFit
<1>4. ASSUME y = "refused"
      PROVE  \E k \in 1 .. Len(q) : n < k /\ q[k].write \in Refused /\ CommittedTo(q, k - 1, C)
  <2>1. PICK k \in 1 .. Len(p) :
            n + 1 < k /\ p[k].write \in Refused /\ CommittedTo(p, k - 1, C)
    BY <1>4 DEF AnswersFit
  <2>2. /\ k - 1 \in 1 .. Len(q) /\ n < k - 1 /\ k - 1 \in 1 .. Len(p) - 1
        /\ (k - 1) + 1 = k /\ (k - 1) - 1 \in Nat /\ ((k - 1) - 1) + 1 = k - 1
    BY <2>1, <1>1
  <2>3. q[k - 1] = p[k]
    <3>1. q[k - 1] = p[(k - 1) + 1] BY <2>2, <1>1
    <3> QED BY <3>1, <2>2
  <2>4. CommittedTo(q, (k - 1) - 1, C)
    <3>1. CommittedTo(p, ((k - 1) - 1) + 1, C) BY <2>1, <2>2
    <3> QED BY <3>1, <2>2, <1>2
  <2> QED BY <2>1, <2>2, <2>3, <2>4
<1>5. CommittedTo(q, n, C) BY <1>2, <1>3
<1>6. AnswersFit(TRUE, y, n, q, C) BY <1>4, <1>5 DEF AnswersFit
<1> QED BY <1>6 DEF q

LEMMA AnswersKept ==
    ASSUME IInv, AnswersInStep, [Next]_vars
    PROVE  AnswersInStep'
<1>1. /\ call \in Call /\ pipeline \in Seq(Batch) /\ stream \in Stream
      /\ AnswersFit(stream.handshake, call.status, Waiting(call), pipeline, committed)
  BY DEF IInv, TypeOK, AnswersInStep
<1>2. pipeline' \in Seq(Batch)
  <2>1. IInv' BY Inductive
  <2> QED BY <2>1 DEF IInv, TypeOK
<1>3. ASSUME UNCHANGED <<call, pipeline, committed>>, stream'.handshake = stream.handshake
      PROVE  AnswersInStep'
  BY <1>3 DEF AnswersInStep, AnswersFit, CommittedTo, Waiting, HasRead
<1>4. ASSUME Waiting(call') = 0, call'.status # "refused" PROVE AnswersInStep'
  <2> DEFINE h == stream'.handshake
             y == call'.status
             n == Waiting(call')
  <2>1. AnswersFit(h, y, 0, pipeline', committed')
    <3>1. y # "refused" BY <1>4
    <3> HIDE DEF h, y
    <3> QED BY <3>1, <1>2, NoAnswers
  <2>2. n = 0 BY <1>4
  <2> HIDE DEF n
  <2>3. AnswersFit(h, y, n, pipeline', committed') BY <2>1, <2>2
  <2> QED BY <2>3, AnswersFrom DEF n
<1>5. ASSUME NEW q, FillWritePipeline(<<>>, q, Idle, NoCall) PROVE AnswersInStep'
  BY <1>4, <1>5, NoneWaits, FillWaits
<1>6. CASE MainQueue
  BY <1>3, <1>6 DEF MainQueue, Notice, GetTokenAnswered, remote, history
<1>7. CASE HandleCredentialChange
  <2>1. CASE network
    BY <1>5, <1>7, <2>1 DEF HandleCredentialChange, RestartNetwork
  <2>2. CASE ~network
    BY <1>3, <1>7, <2>2 DEF HandleCredentialChange, remote, history
  <2> QED BY <2>1, <2>2
<1>8. CASE ResumeStartWithCredentials
  <2> DEFINE m == Head(worker)
  <2>1. CASE m.close # close_count
    BY <1>3, <1>8, <2>1 DEF ResumeStartWithCredentials, history
  <2>2. CASE m.close = close_count
    <3>1. \E a, b : call' = [NoCall EXCEPT !.user = a, !.toServer = b, !.status = "ok"]
      BY <1>8, <2>2, Zenon DEF ResumeStartWithCredentials
    <3>2. call'.status = "ok" /\ call'.done = <<>> /\ call'.toClient = <<>>
      BY <3>1 DEF NoCall
    <3>3. Len(<<>>) = 0 BY EmptySeq
    <3>4. Waiting(call') = 0 BY <3>2, <3>3 DEF Waiting, HasRead
    <3> QED BY <3>2, <3>4, <1>4
  <2> QED BY <2>1, <2>2
<1>9. ASSUME NEW status, OnStreamFinish(status) PROVE AnswersInStep'
  BY <1>4, <1>9, FinishWaits
<1>10. CASE NoCredentials
  <2>1. CASE OnStreamFinish("broken") BY <2>1, <1>9
  <2>2. CASE UNCHANGED <<running, auth, current_user, store, remote, history, signIns, faults>>
    BY <2>2, <1>3 DEF remote, history
  <2> QED BY <2>1, <2>2, <1>10 DEF NoCredentials
<1>11. CASE BackoffElapsed
  <2>1. /\ stream' = [stream EXCEPT !.state = "Starting"]
        /\ UNCHANGED <<call, pipeline, committed>>
    BY <1>11 DEF BackoffElapsed, history
  <2>2. stream'.handshake = stream.handshake BY <2>1, <1>1 DEF Stream
  <2> QED BY <2>1, <2>2, <1>3
<1>12. ASSUME call' = NoCall PROVE AnswersInStep'
  BY <1>4, <1>12, NoneWaits
<1>13. CASE IdleTimeout BY <1>12, <1>13 DEF IdleTimeout
<1>14. CASE \/ OnWriteStreamHandshakeComplete \/ OnOperationFailed \/ Transport \/ Serve
            \/ Break
  BY <1>14, CallAnswers DEF Transport
<1>15. CASE OnWriteStreamMutationResult
  <2> DEFINE c == [call EXCEPT !.done = Tail(call.done)]
             q == queue'[current_user']
  <2>1. /\ Fills(Tail(pipeline), q, stream, c) /\ c \in Call
        /\ pipeline # <<>> /\ stream.handshake
    BY <1>15, MutationResultFills
  <2>2. call.done # <<>> /\ Head(call.done).type = "read" /\ committed' = committed
    BY <1>15 DEF OnWriteStreamMutationResult
  <2>3. c.status = call.status /\ c.done = Tail(call.done) /\ c.toClient = call.toClient
    BY <1>1 DEF Call
  <2> HIDE DEF c, q
  <2>4. Waiting(call) = Waiting(c) + 1 /\ Waiting(c) \in Nat BY <2>2, <2>3, TailWaits
  <2>5. Tail(pipeline) \in Seq(Batch) BY <2>1, <1>1, HeadTailProperties
  <2>6. stream.handshake = TRUE BY <2>1, <1>1 DEF Stream
  <2>7. AnswersFit(TRUE, call.status, Waiting(c) + 1, pipeline, committed)
    BY <2>4, <2>6, <1>1
  <2>8. AnswersFit(TRUE, call.status, Waiting(c), Tail(pipeline), committed)
    <3> DEFINE n == Waiting(c)
    <3>1. n \in Nat /\ AnswersFit(TRUE, call.status, n + 1, pipeline, committed)
      BY <2>4, <2>7
    <3> HIDE DEF n
    <3>2. AnswersFit(TRUE, call.status, n, Tail(pipeline), committed)
      BY <3>1, <2>1, <1>1, AnswersOfTail
    <3> QED BY <3>2 DEF n
  <2>9. AnswersFit(stream.handshake, c.status, Waiting(c), Tail(pipeline), committed)
    BY <2>3, <2>6, <2>8
  <2> QED BY <2>1, <2>2, <2>5, <2>9, <1>1, FillsAnswers
<1>16. CASE Finished BY <1>16, <1>9 DEF Finished
<1>17. CASE FirebaseAuth \/ \E r \in requests : TokenRefused(r)
  BY <1>3, <1>17 DEF FirebaseAuth, LookUp, TokenFetched, TokenRefused, Answer, remote, history
<1>18. ASSUME NEW q, Fills(pipeline, q, stream, call), committed' = committed
       PROVE  AnswersInStep'
  BY <1>18, <1>1, FillsAnswers
<1>19. ASSUME NEW w \in Write, WriteMutations(w) PROVE AnswersInStep'
  <2>1. committed' = committed BY <1>19 DEF WriteMutations
  <2> QED BY <2>1, <1>18, <1>19, WriteMutationsFills
<1>20. CASE EnableNetwork
  <2>1. committed' = committed BY <1>20 DEF EnableNetwork, history
  <2> QED BY <2>1, <1>18, <1>20, EnableNetworkFills
<1>21. CASE RegisterPendingWritesCallback
  BY <1>3, <1>21 DEF RegisterPendingWritesCallback, remote, history
<1>22. CASE DisableNetwork BY <1>12, <1>22 DEF DisableNetwork
<1>23. CASE ConnectivityChanged BY <1>5, <1>23 DEF ConnectivityChanged, RestartNetwork
<1>24. ASSUME NEW u \in User, SignIn(u) PROVE AnswersInStep'
  BY <1>3, <1>24 DEF SignIn, remote, history
<1>25. ASSUME NEW u \in User, Initialize(u) PROVE AnswersInStep'
  BY <1>5, <1>25 DEF Initialize
<1>26. CASE Kill \/ KillInSuccessfulWrite \/ KillInRejectedWrite
  BY <1>12, <1>26 DEF Kill, KillInSuccessfulWrite, KillInRejectedWrite, Exit
<1>27. CASE UNCHANGED vars BY <1>3, <1>27 DEF vars, remote, history
<1> QED
  BY <1>6, <1>7, <1>8, <1>10, <1>11, <1>13, <1>14, <1>15, <1>16, <1>17, <1>19, <1>20,
     <1>21, <1>22, <1>23, <1>24, <1>25, <1>26, <1>27
  DEF Next, WorkerQueue, Timers, Completions, Application, Disturbance

\* The front of the pipeline goes from its queue.
LEMMA FrontGoes ==
    ASSUME IInv, pipeline # <<>>, RemoveFromQueue(Head(pipeline).id)
    PROVE  /\ \A u \in User : u # current_user => queue'[u] = queue[u]
           /\ \A i \in DOMAIN queue'[current_user] :
                 /\ i \in Nat /\ i + 1 \in DOMAIN queue[current_user]
                 /\ queue'[current_user][i] = queue[current_user][i + 1]
           /\ \A j \in DOMAIN queue[current_user] :
                 \/ j = 1
                 \/ \E i \in DOMAIN queue'[current_user] :
                        queue'[current_user][i] = queue[current_user][j]
           /\ 1 \in DOMAIN queue[current_user] /\ queue[current_user][1] = Head(pipeline)
<1> DEFINE q == queue[current_user]
           r == Tail(q)
<1>1. /\ queue' = [queue EXCEPT ![current_user] = r] /\ Head(pipeline) = q[1]
      /\ q \in Seq(Batch) /\ q # <<>>
      /\ queue \in [User -> Seq(Batch)] /\ current_user \in User
  BY FrontRemoved DEF IInv, TypeOK
<1>2. queue'[current_user] = r /\ \A u \in User : u # current_user => queue'[u] = queue[u]
  BY <1>1
<1> HIDE DEF q
<1>3. /\ Len(q) \in Nat \ {0} /\ Len(r) = Len(q) - 1 /\ DOMAIN q = 1 .. Len(q)
      /\ DOMAIN r = 1 .. Len(q) - 1
      /\ \A i \in 1 .. Len(q) - 1 : r[i] = q[i + 1]
  <2>1. /\ r \in Seq(Batch) /\ Len(r) = Len(q) - 1 /\ Len(q) \in Nat \ {0}
        /\ \A i \in 1 .. Len(r) : r[i] = q[i + 1]
    BY <1>1, HeadTailProperties, EmptySeq, LenProperties
  <2>2. DOMAIN q = 1 .. Len(q) /\ DOMAIN r = 1 .. Len(r) BY <1>1, <2>1, LenProperties
  <2> HIDE DEF r
  <2> QED BY <2>1, <2>2
<1> HIDE DEF r
<1>4. \A i \in DOMAIN r : i \in Nat /\ i + 1 \in DOMAIN q /\ r[i] = q[i + 1] BY <1>3
<1>5. ASSUME NEW j \in DOMAIN q, j # 1 PROVE \E i \in DOMAIN r : r[i] = q[j]
  <2>1. j - 1 \in DOMAIN r /\ (j - 1) + 1 = j BY <1>3, <1>5
  <2>2. r[j - 1] = q[(j - 1) + 1] BY <2>1, <1>4
  <2> QED BY <2>1, <2>2
<1>6. 1 \in DOMAIN q BY <1>3
<1> QED BY <1>1, <1>2, <1>4, <1>5, <1>6 DEF q

\* A new batch comes last.
LEMMA BatchComes ==
    ASSUME IInv, NEW w \in Write, WriteMutations(w)
    PROVE  LET b == [id |-> next_batch_id, write |-> w]
               n == Len(queue[current_user]) + 1
           IN  /\ \A u \in User : u # current_user => queue'[u] = queue[u]
               /\ n \in DOMAIN queue'[current_user] /\ queue'[current_user][n] = b
               /\ \A i \in DOMAIN queue'[current_user] : i \in Nat
               /\ \A i \in DOMAIN queue'[current_user] :
                     \/ i = n
                     \/ /\ i \in DOMAIN queue[current_user] /\ i < n
                        /\ queue'[current_user][i] = queue[current_user][i]
               /\ \A i \in DOMAIN queue[current_user] :
                     /\ i \in DOMAIN queue'[current_user]
                     /\ queue'[current_user][i] = queue[current_user][i]
<1> DEFINE b == [id |-> next_batch_id, write |-> w]
           q == queue[current_user]
           r == Append(q, b)
<1>1. /\ queue' = [queue EXCEPT ![current_user] = r] /\ b \in Batch
      /\ q \in Seq(Batch) /\ queue \in [User -> Seq(Batch)] /\ current_user \in User
  BY BatchAppended DEF IInv, TypeOK
<1>2. queue'[current_user] = r /\ \A u \in User : u # current_user => queue'[u] = queue[u]
  BY <1>1
<1> HIDE DEF q, b
<1>3. /\ Len(q) \in Nat /\ DOMAIN q = 1 .. Len(q)
      /\ DOMAIN r = 1 .. Len(q) + 1 /\ r[Len(q) + 1] = b
      /\ \A i \in 1 .. Len(q) : r[i] = q[i]
  <2>1. /\ r \in Seq(Batch) /\ Len(r) = Len(q) + 1 /\ r[Len(q) + 1] = b
        /\ \A i \in 1 .. Len(q) : r[i] = q[i]
    BY <1>1, AppendProperties
  <2>2. Len(q) \in Nat /\ DOMAIN q = 1 .. Len(q) /\ DOMAIN r = 1 .. Len(r)
    BY <1>1, <2>1, LenProperties
  <2> QED BY <2>1, <2>2
<1> HIDE DEF r
<1>4. /\ Len(q) + 1 \in DOMAIN r /\ r[Len(q) + 1] = b /\ \A i \in DOMAIN r : i \in Nat
      /\ \A i \in DOMAIN r : i = Len(q) + 1 \/ (i \in DOMAIN q /\ i < Len(q) + 1 /\ r[i] = q[i])
      /\ \A i \in DOMAIN q : i \in DOMAIN r /\ r[i] = q[i]
  BY <1>3
<1> QED BY <1>2, <1>4 DEF q, b

LEMMA FrontIsFirst ==
    ASSUME IInv, pipeline # <<>>
    PROVE  1 \in DOMAIN queue[current_user] /\ queue[current_user][1] = Head(pipeline)
<1>1. /\ IsPrefix(pipeline, queue[current_user]) /\ pipeline \in Seq(Batch)
      /\ queue[current_user] \in Seq(Batch) /\ Len(queue[current_user]) \in Nat
  BY PipelineIsPrefix DEF IInv
<1>2. Len(pipeline) \in Nat \ {0} BY <1>1, EmptySeq, LenProperties
<1>3. 1 \in 1 .. Len(pipeline) /\ 1 \in 1 .. Len(queue[current_user])
  BY <1>1, <1>2 DEF IsPrefix
<1>4. pipeline[1] = queue[current_user][1] BY <1>1, <1>3 DEF IsPrefix
<1> QED BY <1>1, <1>3, <1>4, LenProperties

\* The batch at the front is the one that the callbacks of its id are for.
LEMMA CalledBack ==
    ASSUME IInv, CallbacksInStep, pipeline # <<>>,
           NEW b \in callbacks[current_user], b.id = Head(pipeline).id
    PROVE  b = Head(pipeline)
<1>1. current_user \in User /\ queue[current_user] \in Seq(Batch) /\ Ascending(queue[current_user])
  BY DEF IInv, TypeOK, QueuesInOrder
<1>2. PICK j \in DOMAIN queue[current_user] : queue[current_user][j] = b
  BY <1>1 DEF CallbacksInStep
<1>3. 1 \in DOMAIN queue[current_user] /\ queue[current_user][1] = Head(pipeline)
  BY FrontIsFirst
<1>4. j \in 1 .. Len(queue[current_user]) /\ b \in Batch
  BY <1>1, <1>2, LenProperties, ElementOfSeq
<1>5. b.id \in Nat BY <1>4 DEF Batch
<1>6. ~(1 < j)
  <2>1. 1 < j => Head(pipeline).id < b.id BY <1>1, <1>2, <1>3 DEF Ascending
  <2> QED BY <2>1, <1>5
<1>7. j = 1 BY <1>4, <1>6
<1> QED BY <1>2, <1>3, <1>7

\* What a step does to what the application is told.
LEMMA AnswersMove ==
    ASSUME IInv, [Next]_vars
    PROVE  \/ UNCHANGED <<queue, callbacks, told, owner>>
           \/ OnWriteStreamMutationResult
           \/ /\ Finished /\ WriteFailed(call.status) /\ HandleWriteError
              /\ UNCHANGED <<owner, committed, current_user>>
           \/ \E w \in Write : WriteMutations(w)
           \/ Kill \/ KillInSuccessfulWrite \/ KillInRejectedWrite
<1> DEFINE Same == UNCHANGED <<queue, callbacks, told, owner>>
<1>1. ASSUME UNCHANGED <<store, history>> PROVE Same BY <1>1 DEF store, history
<1>2. ASSUME UNCHANGED <<queue, callbacks, history>> PROVE Same BY <1>2 DEF history
<1>3. CASE MainQueue BY <1>1, <1>3 DEF MainQueue, Notice, GetTokenAnswered
<1>4. CASE HandleCredentialChange BY <1>2, <1>4 DEF HandleCredentialChange
<1>5. CASE ResumeStartWithCredentials BY <1>1, <1>5 DEF ResumeStartWithCredentials
<1>6. ASSUME NEW status, OnStreamFinish(status), ~WriteFailed(status) PROVE Same
  BY <1>6 DEF OnStreamFinish
<1>7. CASE NoCredentials
  <2>1. CASE OnStreamFinish("broken")
    <3>1. ~WriteFailed("broken") BY DEF WriteFailed
    <3> QED BY <2>1, <3>1, <1>6
  <2>2. CASE UNCHANGED <<running, auth, current_user, store, remote, history, signIns, faults>>
    BY <2>2, <1>1
  <2> QED BY <2>1, <2>2, <1>7 DEF NoCredentials
<1>8. CASE Timers BY <1>1, <1>8 DEF Timers, BackoffElapsed, IdleTimeout
<1>9. CASE OnWriteStreamHandshakeComplete BY <1>1, <1>9 DEF OnWriteStreamHandshakeComplete
<1>10. CASE OnOperationFailed BY <1>1, <1>10 DEF OnOperationFailed
<1>11. CASE Finished
  <2>1. OnStreamFinish(call.status) BY <1>11 DEF Finished
  <2>2. CASE WriteFailed(call.status) BY <1>11, <2>1, <2>2 DEF OnStreamFinish
  <2>3. CASE ~WriteFailed(call.status) BY <2>1, <2>3, <1>6
  <2> QED BY <2>2, <2>3
<1>12. CASE FirebaseAuth \/ \E r \in requests : TokenRefused(r)
  BY <1>1, <1>12 DEF FirebaseAuth, LookUp, TokenFetched, TokenRefused, Answer
<1>13. CASE Transport BY <1>1, <1>13 DEF Transport, Arrive, OperationFails
<1>14. CASE Break
  <2>1. UNCHANGED <<store, history>> BY <1>14, Zenon DEF Break
  <2> QED BY <2>1, <1>1
<1>15. CASE Serve BY <1>15 DEF Serve, store
<1>16. CASE RegisterPendingWritesCallback \/ EnableNetwork \/ DisableNetwork
            \/ ConnectivityChanged
  BY <1>1, <1>2, <1>16 DEF RegisterPendingWritesCallback, EnableNetwork, DisableNetwork,
                           ConnectivityChanged
<1>17. ASSUME NEW u \in User, SignIn(u) \/ Initialize(u) PROVE Same
  BY <1>1, <1>2, <1>17 DEF SignIn, Initialize
<1>18. CASE UNCHANGED vars BY <1>1, <1>18 DEF vars
<1> QED
  BY <1>3, <1>4, <1>5, <1>7, <1>8, <1>9, <1>10, <1>11, <1>12, <1>13, <1>14, <1>15, <1>16,
     <1>17, <1>18
  DEF Next, WorkerQueue, Completions, Application, Disturbance

\* The callbacks of the batch that goes are called or, with the process, gone.
LEMMA CallbacksKept ==
    ASSUME IInv, CallbacksInStep, [Next]_vars
    PROVE  CallbacksInStep'
<1>1. /\ current_user \in User /\ callbacks \in [User -> SUBSET Batch]
      /\ \A u \in User : \A b \in callbacks[u] : \E i \in DOMAIN queue[u] : queue[u][i] = b
  BY DEF IInv, TypeOK, CallbacksInStep
<1>2. CASE UNCHANGED <<queue, callbacks>> BY <1>2 DEF CallbacksInStep
<1>3. CASE Kill \/ KillInSuccessfulWrite \/ KillInRejectedWrite
  <2>1. callbacks' = [u \in User |-> {}]
    BY <1>3 DEF Kill, KillInSuccessfulWrite, KillInRejectedWrite, Exit
  <2> QED BY <2>1 DEF CallbacksInStep
<1>4. ASSUME pipeline # <<>>, RemoveFromQueue(Head(pipeline).id), NEW outcome,
             NotifyUser(Head(pipeline).id, outcome)
      PROVE  CallbacksInStep'
  <2> DEFINE id == Head(pipeline).id
             gone == {b \in callbacks[current_user] : b.id = id}
  <2>1. callbacks' = [callbacks EXCEPT ![current_user] = callbacks[current_user] \ gone]
    BY <1>4 DEF NotifyUser
  <2>2. /\ \A u \in User : u # current_user => queue'[u] = queue[u]
        /\ \A j \in DOMAIN queue[current_user] :
              \/ j = 1
              \/ \E i \in DOMAIN queue'[current_user] :
                     queue'[current_user][i] = queue[current_user][j]
        /\ queue[current_user][1] = Head(pipeline)
    BY <1>4, FrontGoes
  <2>3. ASSUME NEW u \in User, NEW b \in callbacks'[u]
        PROVE  \E i \in DOMAIN queue'[u] : queue'[u][i] = b
    <3>1. CASE u = current_user
      <4>1. b \in callbacks[u] /\ b \notin gone BY <3>1, <2>1, <2>3, <1>1
      <4>2. b.id # id BY <3>1, <4>1
      <4>3. PICK j \in DOMAIN queue[u] : queue[u][j] = b BY <4>1, <1>1
      <4>4. j # 1 BY <3>1, <4>2, <4>3, <2>2
      <4> QED BY <3>1, <4>3, <4>4, <2>2
    <3>2. CASE u # current_user BY <3>2, <2>1, <2>2, <2>3, <1>1
    <3> QED BY <3>1, <3>2
  <2> QED BY <2>3 DEF CallbacksInStep
<1>5. CASE OnWriteStreamMutationResult BY <1>4, <1>5 DEF OnWriteStreamMutationResult
<1>6. CASE WriteFailed(call.status) /\ HandleWriteError
  BY <1>4, <1>6 DEF WriteFailed, HandleWriteError
<1>7. ASSUME NEW w \in Write, WriteMutations(w) PROVE CallbacksInStep'
  <2> DEFINE b == [id |-> next_batch_id, write |-> w]
             n == Len(queue[current_user]) + 1
  <2>1. callbacks' = [callbacks EXCEPT ![current_user] = callbacks[current_user] \cup {b}]
    BY <1>7 DEF WriteMutations
  <2>2. /\ \A u \in User : u # current_user => queue'[u] = queue[u]
        /\ n \in DOMAIN queue'[current_user] /\ queue'[current_user][n] = b
        /\ \A i \in DOMAIN queue[current_user] :
              /\ i \in DOMAIN queue'[current_user]
              /\ queue'[current_user][i] = queue[current_user][i]
    BY <1>7, BatchComes
  <2> HIDE DEF b, n
  <2>3. ASSUME NEW u \in User, NEW c \in callbacks'[u]
        PROVE  \E i \in DOMAIN queue'[u] : queue'[u][i] = c
    <3>1. CASE u = current_user
      <4>1. c \in callbacks[u] \/ c = b BY <3>1, <2>1, <2>3, <1>1
      <4> QED BY <3>1, <4>1, <2>2, <1>1
    <3>2. CASE u # current_user BY <3>2, <2>1, <2>2, <2>3, <1>1
    <3> QED BY <3>1, <3>2
  <2> QED BY <2>3 DEF CallbacksInStep
<1> QED BY <1>2, <1>3, <1>5, <1>6, <1>7, AnswersMove

\* A write is put in one queue, once.
LEMMA WritesStayDistinct ==
    ASSUME IInv, QueuesAreUsers, WritesDistinct, [Next]_vars
    PROVE  WritesDistinct'
<1>1. /\ current_user \in User
      /\ \A u \in User : \A i, j \in DOMAIN queue[u] :
            queue[u][i].write = queue[u][j].write => i = j
  BY DEF IInv, TypeOK, WritesDistinct
<1>2. CASE UNCHANGED queue BY <1>2 DEF WritesDistinct
<1>3. CASE pipeline # <<>> /\ RemoveFromQueue(Head(pipeline).id)
  <2>1. /\ \A u \in User : u # current_user => queue'[u] = queue[u]
        /\ \A i \in DOMAIN queue'[current_user] :
              /\ i \in Nat /\ i + 1 \in DOMAIN queue[current_user]
              /\ queue'[current_user][i] = queue[current_user][i + 1]
    BY <1>3, FrontGoes
  <2>2. ASSUME NEW u \in User, NEW i \in DOMAIN queue'[u], NEW j \in DOMAIN queue'[u],
               queue'[u][i].write = queue'[u][j].write
        PROVE  i = j
    <3>1. CASE u = current_user
      <4>1. /\ i \in Nat /\ j \in Nat
            /\ i + 1 \in DOMAIN queue[current_user] /\ j + 1 \in DOMAIN queue[current_user]
            /\ queue[current_user][i + 1].write = queue[current_user][j + 1].write
        BY <3>1, <2>1, <2>2
      <4>2. i + 1 = j + 1 BY <4>1, <1>1
      <4> QED BY <4>1, <4>2
    <3>2. CASE u # current_user BY <3>2, <2>1, <2>2, <1>1
    <3> QED BY <3>1, <3>2
  <2> QED BY <2>2 DEF WritesDistinct
<1>4. ASSUME NEW w \in Write, WriteMutations(w) PROVE WritesDistinct'
  <2> DEFINE b == [id |-> next_batch_id, write |-> w]
             n == Len(queue[current_user]) + 1
  <2>1. b.write = w /\ owner[w] = None BY <1>4 DEF WriteMutations
  <2>2. /\ \A u \in User : u # current_user => queue'[u] = queue[u]
        /\ queue'[current_user][n] = b
        /\ \A i \in DOMAIN queue'[current_user] :
              \/ i = n
              \/ /\ i \in DOMAIN queue[current_user]
                 /\ queue'[current_user][i] = queue[current_user][i]
    BY <1>4, BatchComes
  <2> HIDE DEF b, n
  <2>3. \A i \in DOMAIN queue[current_user] : queue[current_user][i].write # w
    <3>1. \A i \in DOMAIN queue[current_user] :
             owner[queue[current_user][i].write] = current_user
      BY <1>1 DEF QueuesAreUsers
    <3> QED BY <3>1, <2>1, <1>1, WritesAssumption
  <2>4. ASSUME NEW u \in User, NEW i \in DOMAIN queue'[u], NEW j \in DOMAIN queue'[u],
               queue'[u][i].write = queue'[u][j].write
        PROVE  i = j
    <3>1. CASE u = current_user
      <4>1. CASE i = n
        <5>1. queue'[current_user][j].write = w BY <3>1, <4>1, <2>1, <2>2, <2>4
        <5> QED BY <3>1, <4>1, <5>1, <2>2, <2>3, <2>4
      <4>2. CASE j = n
        <5>1. queue'[current_user][i].write = w BY <3>1, <4>2, <2>1, <2>2, <2>4
        <5> QED BY <3>1, <4>2, <5>1, <2>2, <2>3, <2>4
      <4>3. CASE i # n /\ j # n BY <3>1, <4>3, <2>2, <2>4, <1>1
      <4> QED BY <4>1, <4>2, <4>3
    <3>2. CASE u # current_user BY <3>2, <2>2, <2>4, <1>1
    <3> QED BY <3>1, <3>2
  <2> QED BY <2>4 DEF WritesDistinct
<1>5. CASE Serve BY <1>2, <1>5 DEF Serve, store
<1> QED BY <1>2, <1>3, <1>4, <1>5, OwnersMove

\* A response that waits is for a batch at the front that is committed.
LEMMA FrontAnswered ==
    ASSUME IInv, AnswersInStep, call.done # <<>>, Head(call.done).type = "read",
           stream.handshake
    PROVE  committed[Head(pipeline).write] # {}
<1>1. CommittedTo(pipeline, Waiting(call), committed) BY DEF AnswersInStep, AnswersFit
<1>2. Waiting(call) = Len(call.toClient) + 1 /\ Len(call.toClient) \in Nat
  BY WaitingIsNat DEF Waiting, HasRead, IInv, TypeOK
<1>3. 1 \in 1 .. Waiting(call) BY <1>2
<1>4. committed[pipeline[1].write] # {} BY <1>1, <1>3 DEF CommittedTo
<1> QED BY <1>4

\* When the call was refused, the batch at the front was, or it is committed.
LEMMA FrontRefused ==
    ASSUME IInv, AnswersInStep, call.status = "refused", stream.handshake
    PROVE  committed[Head(pipeline).write] # {} \/ Head(pipeline).write \in Refused
<1>1. PICK k \in 1 .. Len(pipeline) :
          pipeline[k].write \in Refused /\ CommittedTo(pipeline, k - 1, committed)
  BY DEF AnswersInStep, AnswersFit
<1>2. Len(pipeline) \in Nat BY LenProperties DEF IInv, TypeOK
<1>3. CASE k = 1 BY <1>1, <1>3
<1>4. CASE k # 1
  <2>1. 1 \in 1 .. k - 1 BY <1>2, <1>4
  <2> QED BY <2>1, <1>1 DEF CommittedTo
<1> QED BY <1>3, <1>4

\* The batch at the front may go when it is committed or refused.
LEMMA LostWithFront ==
    ASSUME IInv, NothingLost, pipeline # <<>>, RemoveFromQueue(Head(pipeline).id),
           UNCHANGED <<owner, committed>>,
           \A w \in Write : told'[w] = "ok" => committed[w] # {},
           committed[Head(pipeline).write] # {} \/ Head(pipeline).write \in Refused
    PROVE  NothingLost'
<1>1. /\ current_user \in User
      /\ \A u \in User : u # current_user => queue'[u] = queue[u]
      /\ \A i \in DOMAIN queue'[current_user] :
            /\ i \in Nat /\ i + 1 \in DOMAIN queue[current_user]
            /\ queue'[current_user][i] = queue[current_user][i + 1]
      /\ \A j \in DOMAIN queue[current_user] :
            \/ j = 1
            \/ \E i \in DOMAIN queue'[current_user] :
                   queue'[current_user][i] = queue[current_user][j]
      /\ queue[current_user][1] = Head(pipeline)
  BY FrontGoes DEF IInv, TypeOK
<1>2. ASSUME NEW w \in Write, owner[w] # None, committed[w] = {}, w \notin Refused
      PROVE  \E i \in DOMAIN queue'[owner[w]] : queue'[owner[w]][i].write = w
  <2>1. PICK j \in DOMAIN queue[owner[w]] : queue[owner[w]][j].write = w
    BY <1>2 DEF NothingLost
  <2>2. owner[w] \in User BY <1>2 DEF IInv, TypeOK
  <2>3. CASE owner[w] = current_user
    <3>1. j # 1 BY <2>1, <2>3, <1>1, <1>2
    <3> QED BY <3>1, <2>1, <2>3, <1>1
  <2>4. CASE owner[w] # current_user BY <2>1, <2>2, <2>4, <1>1
  <2> QED BY <2>3, <2>4
<1>3. ASSUME NEW u \in User, NEW j \in DOMAIN queue'[u], NEW i \in 1 .. j - 1,
             committed[queue'[u][j].write] # {}
      PROVE  committed[queue'[u][i].write] # {}
  <2>1. CASE u = current_user
    <3>1. /\ j \in Nat /\ j + 1 \in DOMAIN queue[u] /\ queue'[u][j] = queue[u][j + 1]
      BY <2>1, <1>1, <1>3
    <3>2. i + 1 \in 1 .. (j + 1) - 1 /\ i \in 1 .. j BY <3>1
    <3>3. committed[queue[u][i + 1].write] # {}
      <4>1. committed[queue[u][j + 1].write] # {} BY <3>1, <1>3
      <4> QED BY <4>1, <3>1, <3>2 DEF NothingLost
    <3>4. i \in DOMAIN queue'[u]
      <4>1. queue'[u] \in Seq(Batch) BY <2>1, FrontRemoved DEF IInv
      <4>2. DOMAIN queue'[u] = 1 .. Len(queue'[u]) /\ Len(queue'[u]) \in Nat
        BY <4>1, LenProperties
      <4> QED BY <4>2, <3>1, <3>2, <1>3
    <3> QED BY <3>3, <3>4, <2>1, <1>1
  <2>2. CASE u # current_user BY <2>2, <1>1, <1>3 DEF NothingLost
  <2> QED BY <2>1, <2>2
<1> QED BY <1>2, <1>3 DEF NothingLost

LEMMA LostWithCommit ==
    ASSUME IInv, AnswersInStep, QueuesAreUsers, WritesDistinct, NothingLost, Serve
    PROVE  NothingLost'
<1> DEFINE h == Head(call.toServer)
           n == Waiting(call)
<1>1. /\ call.status = "ok" /\ call.toServer # <<>> /\ UNCHANGED <<queue, told, owner>>
  BY DEF Serve, store
<1>2. /\ \A w \in Write : committed[w] # {} => committed'[w] # {}
      /\ \A w \in Write : w # h => committed'[w] = committed[w]
  BY ServeCommits
<1>3. /\ stream.handshake => n + 1 \in 1 .. Len(pipeline) /\ h = pipeline[n + 1].write
      /\ ~stream.handshake => h = 0
  BY <1>1, ServedComesNext
<1>4. /\ IsPrefix(pipeline, queue[current_user]) /\ Len(pipeline) \in Nat
      /\ current_user \in User /\ n \in Nat /\ \A u \in User : queue[u] \in Seq(Batch)
      /\ Len(queue[current_user]) \in Nat
  BY PipelineIsPrefix, WaitingIsNat DEF IInv, TypeOK
<1>5. \A u \in User : \A i \in DOMAIN queue[u] : queue[u][i].write \in Write
  BY <1>4, WritesOfBatches, LenProperties
<1>6. stream.handshake => CommittedTo(pipeline, n, committed) BY DEF AnswersInStep, AnswersFit
<1> HIDE DEF h, n
<1>7. ASSUME NEW u \in User, NEW j \in DOMAIN queue[u], NEW i \in 1 .. j - 1,
             committed'[queue[u][j].write] # {}
      PROVE  committed'[queue[u][i].write] # {}
  <2>1. j \in 1 .. Len(queue[u]) /\ Len(queue[u]) \in Nat /\ DOMAIN queue[u] = 1 .. Len(queue[u])
    BY <1>4, LenProperties
  <2>2. i \in DOMAIN queue[u] /\ i < j BY <2>1
  <2>3. queue[u][i].write \in Write /\ queue[u][j].write \in Write BY <2>2, <1>5
  <2>4. CASE committed[queue[u][j].write] # {}
    <3>1. committed[queue[u][i].write] # {} BY <2>4 DEF NothingLost
    <3> QED BY <3>1, <2>3, <1>2
  <2>5. CASE committed[queue[u][j].write] = {}
    <3>1. queue[u][j].write = h BY <2>3, <2>5, <1>2, <1>7
    <3>2. stream.handshake
      <4>1. 0 \notin Write BY WritesAssumption DEF Write
      <4> QED BY <4>1, <3>1, <2>3, <1>3
    <3>3. n + 1 \in DOMAIN queue[current_user] /\ queue[current_user][n + 1].write = h
      <4>1. n + 1 \in 1 .. Len(pipeline) /\ h = pipeline[n + 1].write BY <3>2, <1>3
      <4>2. /\ pipeline[n + 1] = queue[current_user][n + 1]
            /\ Len(pipeline) <= Len(queue[current_user])
        BY <4>1, <1>4 DEF IsPrefix
      <4>3. n + 1 \in 1 .. Len(queue[current_user]) BY <4>1, <4>2, <1>4
      <4> QED BY <4>1, <4>2, <4>3, <1>4, LenProperties
    <3>4. u = current_user
      <4>1. owner[h] = u BY <3>1 DEF QueuesAreUsers
      <4>2. owner[h] = current_user BY <3>3, <1>4 DEF QueuesAreUsers
      <4> QED BY <4>1, <4>2
    <3>5. j = n + 1 BY <3>1, <3>3, <3>4 DEF WritesDistinct
    <3>6. i \in 1 .. n /\ i \in 1 .. Len(pipeline) BY <3>2, <3>5, <1>3, <1>4
    <3>7. committed[pipeline[i].write] # {} BY <3>2, <3>6, <1>6 DEF CommittedTo
    <3>8. pipeline[i] = queue[u][i] BY <3>4, <3>6, <1>4 DEF IsPrefix
    <3> QED BY <3>7, <3>8, <2>3, <1>2
  <2> QED BY <2>4, <2>5
<1>8. \A w \in Write : told[w] = "ok" => committed'[w] # {} BY <1>2 DEF NothingLost
<1>9. ASSUME NEW w \in Write, owner[w] # None, committed'[w] = {}, w \notin Refused
      PROVE  \E i \in DOMAIN queue[owner[w]] : queue[owner[w]][i].write = w
  BY <1>2, <1>9 DEF NothingLost
<1> QED BY <1>1, <1>7, <1>8, <1>9 DEF NothingLost

LEMMA LostWithWrite ==
    ASSUME IInv, WrittenByOwner, NothingLost, NEW w \in Write, WriteMutations(w)
    PROVE  NothingLost'
<1> DEFINE b == [id |-> next_batch_id, write |-> w]
           n == Len(queue[current_user]) + 1
<1>1. /\ b.write = w /\ owner' = [owner EXCEPT ![w] = current_user] /\ owner[w] = None
      /\ UNCHANGED <<told, committed>>
  BY DEF WriteMutations
<1>2. /\ \A u \in User : u # current_user => queue'[u] = queue[u]
      /\ n \in DOMAIN queue'[current_user] /\ queue'[current_user][n] = b
      /\ \A i \in DOMAIN queue'[current_user] :
            \/ i = n
            \/ /\ i \in DOMAIN queue[current_user] /\ i < n
               /\ queue'[current_user][i] = queue[current_user][i]
      /\ \A i \in DOMAIN queue[current_user] :
            /\ i \in DOMAIN queue'[current_user]
            /\ queue'[current_user][i] = queue[current_user][i]
  BY BatchComes
<1> HIDE DEF b
<1>3. /\ current_user \in User /\ owner \in [Write -> User \cup {None}]
      /\ committed \in [Write -> SUBSET User] /\ \A u \in User : queue[u] \in Seq(Batch)
      /\ n \in Nat
  BY LenProperties DEF IInv, TypeOK
<1> HIDE DEF n
<1>4. committed[w] = {}
  <2>1. committed[w] \subseteq {None} /\ committed[w] \subseteq User
    BY <1>1, <1>3 DEF WrittenByOwner
  <2> QED BY <2>1, WritesAssumption
<1>5. ASSUME NEW v \in Write, owner'[v] # None, committed[v] = {}, v \notin Refused
      PROVE  \E i \in DOMAIN queue'[owner'[v]] : queue'[owner'[v]][i].write = v
  <2>1. CASE v = w
    <3>1. owner'[v] = current_user BY <2>1, <1>1, <1>3
    <3> QED BY <3>1, <2>1, <1>1, <1>2
  <2>2. CASE v # w
    <3>1. owner'[v] = owner[v] /\ owner[v] \in User BY <2>2, <1>1, <1>3, <1>5
    <3>2. PICK i \in DOMAIN queue[owner[v]] : queue[owner[v]][i].write = v
      BY <3>1, <1>5 DEF NothingLost
    <3>3. CASE owner[v] = current_user BY <3>1, <3>2, <3>3, <1>2
    <3>4. CASE owner[v] # current_user BY <3>1, <3>2, <3>4, <1>2
    <3> QED BY <3>3, <3>4
  <2> QED BY <2>1, <2>2
<1>6. ASSUME NEW u \in User, NEW j \in DOMAIN queue'[u], NEW i \in 1 .. j - 1,
             committed[queue'[u][j].write] # {}
      PROVE  committed[queue'[u][i].write] # {}
  <2>1. CASE u = current_user
    <3>1. j # n BY <2>1, <1>1, <1>2, <1>4, <1>6
    <3>2. j \in DOMAIN queue[u] /\ queue'[u][j] = queue[u][j] BY <2>1, <3>1, <1>2, <1>6
    <3>3. committed[queue[u][i].write] # {} BY <3>2, <1>6 DEF NothingLost
    <3>4. i \in DOMAIN queue[u]
      <4>1. DOMAIN queue[u] = 1 .. Len(queue[u]) /\ Len(queue[u]) \in Nat
        BY <1>3, LenProperties
      <4> QED BY <4>1, <3>2
    <3> QED BY <3>3, <3>4, <2>1, <1>2
  <2>2. CASE u # current_user BY <2>2, <1>2, <1>6 DEF NothingLost
  <2> QED BY <2>1, <2>2
<1>7. \A v \in Write : told[v] = "ok" => committed[v] # {} BY DEF NothingLost
<1> QED BY <1>1, <1>5, <1>6, <1>7 DEF NothingLost

LEMMA LostNothing ==
    ASSUME IInv, AnswersInStep, CallbacksInStep, QueuesAreUsers, WritesDistinct,
           WrittenByOwner, NothingLost, [Next]_vars
    PROVE  NothingLost'
<1>1. /\ \A w \in Write : told[w] = "ok" => committed[w] # {}
      /\ told \in [Write -> {"none", "ok", "rejected"}]
      /\ callbacks \in [User -> SUBSET Batch] /\ current_user \in User
  BY DEF NothingLost, IInv, TypeOK
<1>2. CASE Serve BY <1>2, LostWithCommit
<1>3. ASSUME UNCHANGED <<queue, told, owner, committed>> PROVE NothingLost'
  BY <1>3 DEF NothingLost
<1>4. CASE OnWriteStreamMutationResult
  <2> DEFINE id == Head(pipeline).id
             called == {b \in callbacks[current_user] : b.id = id}
  <2>1. /\ pipeline # <<>> /\ RemoveFromQueue(id) /\ UNCHANGED <<owner, committed>>
        /\ NotifyUser(id, "ok")
        /\ call.done # <<>> /\ Head(call.done).type = "read" /\ stream.handshake
    BY <1>4 DEF OnWriteStreamMutationResult
  <2>2. committed[Head(pipeline).write] # {} BY <2>1, FrontAnswered
  <2>3. told' = [w \in Write |-> IF \E b \in called : b.write = w THEN "ok" ELSE told[w]]
    BY <2>1 DEF NotifyUser
  <2>4. \A b \in called : b = Head(pipeline) BY <2>1, CalledBack
  <2>5. \A w \in Write : told'[w] = "ok" => committed[w] # {}
    BY <2>2, <2>3, <2>4, <1>1
  <2> QED BY <2>1, <2>2, <2>5, LostWithFront
<1>5. CASE Finished /\ WriteFailed(call.status) /\ HandleWriteError
           /\ UNCHANGED <<owner, committed>>
  <2> DEFINE id == Head(pipeline).id
             called == {b \in callbacks[current_user] : b.id = id}
  <2>1. /\ pipeline # <<>> /\ stream.handshake /\ call.status = "refused"
        /\ RemoveFromQueue(id) /\ NotifyUser(id, "rejected")
    BY <1>5 DEF WriteFailed, HandleWriteError
  <2>2. committed[Head(pipeline).write] # {} \/ Head(pipeline).write \in Refused
    BY <2>1, FrontRefused
  <2>3. told' = [w \in Write |-> IF \E b \in called : b.write = w THEN "rejected" ELSE told[w]]
    BY <2>1 DEF NotifyUser
  <2> HIDE DEF called
  <2>4. \A w \in Write : told'[w] = "ok" => committed[w] # {} BY <2>3, <1>1
  <2> QED BY <2>1, <2>2, <2>4, <1>5, LostWithFront
<1>6. CASE Kill BY <1>3, <1>6 DEF Kill, Exit
<1>7. CASE KillInSuccessfulWrite
  <2>1. /\ call.done # <<>> /\ Head(call.done).type = "read" /\ stream.handshake
        /\ pipeline # <<>> /\ UNCHANGED <<queue, owner, committed>>
    BY <1>7 DEF KillInSuccessfulWrite, Exit
  <2>2. PICK b \in callbacks[current_user] :
            b.id = Head(pipeline).id /\ told' = [told EXCEPT ![b.write] = "ok"]
    BY <1>7 DEF KillInSuccessfulWrite
  <2>3. committed[Head(pipeline).write] # {} BY <2>1, FrontAnswered
  <2>4. b = Head(pipeline) BY <2>1, <2>2, CalledBack
  <2>5. \A w \in Write : told'[w] = "ok" => committed[w] # {}
    BY <2>2, <2>3, <2>4, <1>1
  <2> QED BY <2>1, <2>5 DEF NothingLost
<1>8. CASE KillInRejectedWrite
  <2>1. /\ pipeline # <<>> /\ stream.handshake /\ call.status = "refused"
        /\ RemoveFromQueue(Head(pipeline).id) /\ UNCHANGED <<owner, committed, told>>
    BY <1>8 DEF KillInRejectedWrite, Exit
  <2>2. committed[Head(pipeline).write] # {} \/ Head(pipeline).write \in Refused
    BY <2>1, FrontRefused
  <2> QED BY <2>1, <2>2, <1>1, LostWithFront
<1>9. ASSUME NEW w \in Write, WriteMutations(w) PROVE NothingLost'
  BY <1>9, LostWithWrite
<1>10. CASE UNCHANGED <<queue, told, owner>>
  <2>1. committed' = committed \/ Serve BY CommitsStay
  <2> QED BY <2>1, <1>2, <1>3, <1>10
<1> QED BY <1>4, <1>5, <1>6, <1>7, <1>8, <1>9, <1>10, AnswersMove

AnsweredInStep == AnswersInStep /\ CallbacksInStep /\ WritesDistinct /\ NothingLost

LEMMA AnswersHold ==
    ASSUME Init
    PROVE  AnsweredInStep
<1>1. /\ queue = [u \in User |-> <<>>] /\ call = NoCall /\ stream = Idle /\ pipeline = <<>>
      /\ callbacks = [u \in User |-> {}] /\ owner = [w \in Write |-> None]
      /\ told = [w \in Write |-> "none"] /\ committed = [w \in Write |-> {}]
  BY DEF Init
<1>2. AnswersInStep
  BY <1>1, NoneWaits, IdleFits DEF AnswersInStep, AnswersFit
<1>3. \A u \in User : queue[u] = <<>> /\ DOMAIN queue[u] = {} /\ callbacks[u] = {} BY <1>1
<1>4. CallbacksInStep /\ WritesDistinct BY <1>3 DEF CallbacksInStep, WritesDistinct
<1>5. NothingLost BY <1>1, <1>3 DEF NothingLost
<1> QED BY <1>2, <1>4, <1>5 DEF AnsweredInStep

\* The application hears of a success only for a write that is committed, a write
\* leaves the queue only when it is committed or refused, and of a queue the oldest
\* are committed first: through lost responses, restarts of the stream, changes of
\* the user and ends of the process (WritePipeline, HandleWriteError, NotifyUser).
THEOREM NothingIsLost == Spec => []NothingLost
<1>1. Init => IInv /\ OwnersInStep /\ AnsweredInStep BY InitHolds, OwnersHold, AnswersHold
<1>2. IInv /\ OwnersInStep /\ AnsweredInStep /\ [Next]_vars
         => (IInv /\ OwnersInStep /\ AnsweredInStep)'
  <2> SUFFICES ASSUME IInv, OwnersInStep, AnsweredInStep, [Next]_vars
               PROVE  IInv' /\ OwnersInStep' /\ AnsweredInStep'
    OBVIOUS
  <2>1. IInv' BY Inductive
  <2>2. OwnersInStep'
    BY UsersKept, CallStaysUsers, QueuesStayUsers, WritesStayOwners DEF OwnersInStep
  <2>3. AnswersInStep' BY AnswersKept DEF AnsweredInStep
  <2>4. CallbacksInStep' BY CallbacksKept DEF AnsweredInStep
  <2>5. WritesDistinct' BY WritesStayDistinct DEF AnsweredInStep, OwnersInStep
  <2>6. NothingLost' BY LostNothing DEF AnsweredInStep, OwnersInStep
  <2> QED BY <2>1, <2>2, <2>3, <2>4, <2>5, <2>6 DEF AnsweredInStep
<1>3. AnsweredInStep => NothingLost BY DEF AnsweredInStep
<1> QED BY <1>1, <1>2, <1>3, PTL DEF Spec

-----------------------------------------------------------------------------
\* What waitForPendingWrites waits for.

Settled(w) == committed[w] # {} \/ w \in Refused

\* What is covered is settled, or still in the queue up to the batch waited for.
Covered(x, w) ==
    \/ Settled(w)
    \/ \E i \in DOMAIN queue[current_user] :
          queue[current_user][i].write = w /\ queue[current_user][i].id <= x.id

WaitsInStep ==
    /\ \A x \in waits : \A w \in x.covers : Covered(x, w)
    /\ ~running => waits = {}

\* What a step does to those who wait.
LEMMA WaitsMove ==
    ASSUME IInv, AnswersInStep, WaitsInStep, [Next]_vars
    PROVE  \/ UNCHANGED <<waits, queue, current_user, running>>
           \/ /\ pipeline # <<>> /\ RemoveFromQueue(Head(pipeline).id)
              /\ TriggerPendingWriteCallbacks(Head(pipeline).id)
              /\ UNCHANGED <<committed, current_user, running>>
              /\ Settled(Head(pipeline).write)
           \/ \E w \in Write : WriteMutations(w)
           \/ RegisterPendingWritesCallback
           \/ waits' = {} /\ (~running' \/ current_user' # current_user \/ waits = {})
<1> DEFINE Same == UNCHANGED <<waits, queue, current_user, running>>
           Gone == /\ pipeline # <<>> /\ RemoveFromQueue(Head(pipeline).id)
                   /\ TriggerPendingWriteCallbacks(Head(pipeline).id)
                   /\ UNCHANGED <<committed, current_user, running>>
                   /\ Settled(Head(pipeline).write)
           Over == waits' = {} /\ (~running' \/ current_user' # current_user \/ waits = {})
<1>1. ASSUME UNCHANGED <<store, current_user, running>> PROVE Same BY <1>1 DEF store
<1>2. CASE MainQueue BY <1>1, <1>2 DEF MainQueue, Notice, GetTokenAnswered
<1>3. CASE HandleCredentialChange BY <1>3 DEF HandleCredentialChange
<1>4. CASE ResumeStartWithCredentials BY <1>1, <1>4 DEF ResumeStartWithCredentials
<1>5. ASSUME NEW status, OnStreamFinish(status), ~WriteFailed(status) PROVE Same
  BY <1>5 DEF OnStreamFinish
<1>6. CASE NoCredentials
  <2>1. CASE OnStreamFinish("broken")
    <3>1. ~WriteFailed("broken") BY DEF WriteFailed
    <3> QED BY <2>1, <3>1, <1>5
  <2>2. CASE UNCHANGED <<running, auth, current_user, store, remote, history, signIns, faults>>
    BY <2>2, <1>1
  <2> QED BY <2>1, <2>2, <1>6 DEF NoCredentials
<1>7. CASE Timers BY <1>1, <1>7 DEF Timers, BackoffElapsed, IdleTimeout
<1>8. CASE OnWriteStreamHandshakeComplete BY <1>1, <1>8 DEF OnWriteStreamHandshakeComplete
<1>9. CASE OnWriteStreamMutationResult
  <2>1. call.done # <<>> /\ Head(call.done).type = "read" /\ stream.handshake
    BY <1>9 DEF OnWriteStreamMutationResult
  <2>2. Settled(Head(pipeline).write) BY <2>1, FrontAnswered DEF Settled
  <2> QED BY <2>2, <1>9 DEF OnWriteStreamMutationResult
<1>10. CASE OnOperationFailed BY <1>1, <1>10 DEF OnOperationFailed
<1>11. CASE Finished
  <2>1. OnStreamFinish(call.status) BY <1>11 DEF Finished
  <2>2. CASE WriteFailed(call.status)
    <3>1. pipeline # <<>> /\ stream.handshake /\ call.status = "refused"
      BY <2>2 DEF WriteFailed
    <3>2. Settled(Head(pipeline).write) BY <3>1, FrontRefused DEF Settled
    <3>3. HandleWriteError /\ UNCHANGED <<committed, current_user, running>>
      BY <2>1, <2>2 DEF OnStreamFinish
    <3> QED BY <3>1, <3>2, <3>3 DEF HandleWriteError
  <2>3. CASE ~WriteFailed(call.status) BY <2>1, <2>3, <1>5
  <2> QED BY <2>2, <2>3
<1>12. CASE FirebaseAuth \/ \E r \in requests : TokenRefused(r)
  BY <1>1, <1>12 DEF FirebaseAuth, LookUp, TokenFetched, TokenRefused, Answer
<1>13. CASE Transport BY <1>1, <1>13 DEF Transport, Arrive, OperationFails
<1>14. CASE Break
  <2>1. UNCHANGED <<store, current_user, running>> BY <1>14, Zenon DEF Break
  <2> QED BY <2>1, <1>1
<1>15. CASE Serve BY <1>15 DEF Serve, store
<1>16. CASE EnableNetwork \/ DisableNetwork \/ ConnectivityChanged
  BY <1>1, <1>16 DEF EnableNetwork, DisableNetwork, ConnectivityChanged
<1>17. ASSUME NEW u \in User, SignIn(u) PROVE Same BY <1>1, <1>17 DEF SignIn
<1>18. ASSUME NEW u \in User, Initialize(u) PROVE Over
  BY <1>18 DEF Initialize, WaitsInStep
<1>19. CASE Kill \/ KillInSuccessfulWrite \/ KillInRejectedWrite
  BY <1>19 DEF Kill, KillInSuccessfulWrite, KillInRejectedWrite, Exit
<1>20. CASE UNCHANGED vars BY <1>1, <1>20 DEF vars
<1> QED
  BY <1>2, <1>3, <1>4, <1>6, <1>7, <1>8, <1>9, <1>10, <1>11, <1>12, <1>13, <1>14, <1>15,
     <1>16, <1>17, <1>18, <1>19, <1>20
  DEF Next, WorkerQueue, Completions, Application, Disturbance

\* A commit is never taken back.
LEMMA SettledStays ==
    ASSUME IInv, [Next]_vars, NEW w \in Write, Settled(w)
    PROVE  committed'[w] # {} \/ w \in Refused
<1>1. CASE Serve BY <1>1, ServeCommits DEF Settled
<1>2. CASE committed' = committed BY <1>2 DEF Settled
<1> QED BY <1>1, <1>2, CommitsStay

\* What one who is told waited for goes with the front, if it is not gone before.
LEMMA WaitEnds ==
    ASSUME IInv, WaitsInStep, pipeline # <<>>, Settled(Head(pipeline).write),
           NEW x \in waits, x.id = Head(pipeline).id, NEW w \in x.covers
    PROVE  Settled(w)
<1>1. /\ current_user \in User /\ queue[current_user] \in Seq(Batch)
      /\ Ascending(queue[current_user])
  BY DEF IInv, TypeOK, QueuesInOrder
<1>2. CASE ~Settled(w)
  <2>1. PICK i \in DOMAIN queue[current_user] :
            queue[current_user][i].write = w /\ queue[current_user][i].id <= x.id
    BY <1>2 DEF WaitsInStep, Covered
  <2>2. 1 \in DOMAIN queue[current_user] /\ queue[current_user][1] = Head(pipeline)
    BY FrontIsFirst
  <2>3. /\ i \in 1 .. Len(queue[current_user]) /\ queue[current_user][i] \in Batch
        /\ x.id \in Nat
    BY <1>1, <2>1, LenProperties, ElementOfSeq DEF IInv, TypeOK
  <2>4. queue[current_user][i].id \in Nat BY <2>3 DEF Batch
  <2>5. ~(1 < i)
    <3>1. 1 < i => x.id < queue[current_user][i].id BY <1>1, <2>1, <2>2 DEF Ascending
    <3> QED BY <3>1, <2>1, <2>3, <2>4
  <2>6. i = 1 BY <2>3, <2>5
  <2> QED BY <2>1, <2>2, <2>6
<1> QED BY <1>2

LEMMA WaitsKept ==
    ASSUME IInv, AnswersInStep, WaitsInStep, [Next]_vars
    PROVE  WaitsInStep'
<1>1. /\ current_user \in User /\ \A x \in waits : x.id \in Nat /\ x.covers \subseteq Write
      /\ \A x \in waits : \A w \in x.covers : Covered(x, w)
  BY DEF IInv, TypeOK, WaitsInStep
<1>2. CASE UNCHANGED <<waits, queue, current_user, running>>
  <2>1. ASSUME NEW x \in waits, NEW w \in x.covers PROVE Covered(x, w)'
    <3>1. CASE Settled(w)
      <4>1. committed'[w] # {} \/ w \in Refused BY <2>1, <3>1, <1>1, SettledStays
      <4> QED BY <4>1 DEF Covered, Settled
    <3>2. CASE ~Settled(w) BY <2>1, <3>2, <1>1, <1>2 DEF Covered
    <3> QED BY <3>1, <3>2
  <2> QED BY <2>1, <1>2 DEF WaitsInStep
<1>3. CASE /\ pipeline # <<>> /\ RemoveFromQueue(Head(pipeline).id)
           /\ TriggerPendingWriteCallbacks(Head(pipeline).id)
           /\ UNCHANGED <<committed, current_user, running>>
           /\ Settled(Head(pipeline).write)
  <2>1. waits' = {x \in waits : x.id # Head(pipeline).id}
    BY <1>3 DEF TriggerPendingWriteCallbacks
  <2>2. /\ \A j \in DOMAIN queue[current_user] :
              \/ j = 1
              \/ \E i \in DOMAIN queue'[current_user] :
                     queue'[current_user][i] = queue[current_user][j]
        /\ queue[current_user][1] = Head(pipeline)
    BY <1>3, FrontGoes
  <2>3. ASSUME NEW x \in waits, NEW w \in x.covers PROVE Covered(x, w)'
    <3>1. CASE Settled(w) BY <3>1, <1>3 DEF Covered, Settled
    <3>2. CASE ~Settled(w)
      <4>1. PICK j \in DOMAIN queue[current_user] :
                queue[current_user][j].write = w /\ queue[current_user][j].id <= x.id
        BY <2>3, <3>2, <1>1 DEF Covered
      <4>2. j # 1 BY <4>1, <2>2, <3>2, <1>3
      <4> QED BY <4>1, <4>2, <2>2, <1>3 DEF Covered
    <3> QED BY <3>1, <3>2
  <2> QED BY <2>1, <2>3, <1>3 DEF WaitsInStep
<1>4. ASSUME NEW v \in Write, WriteMutations(v) PROVE WaitsInStep'
  <2>1. UNCHANGED <<waits, committed, current_user, running>> BY <1>4 DEF WriteMutations
  <2>2. \A i \in DOMAIN queue[current_user] :
              /\ i \in DOMAIN queue'[current_user]
              /\ queue'[current_user][i] = queue[current_user][i]
    BY <1>4, BatchComes
  <2>3. ASSUME NEW x \in waits, NEW w \in x.covers PROVE Covered(x, w)'
    BY <2>1, <2>2, <2>3, <1>1 DEF Covered, Settled
  <2> QED BY <2>1, <2>3 DEF WaitsInStep
<1>5. CASE RegisterPendingWritesCallback
  <2> DEFINE q == queue[current_user]
             y == [id |-> q[Len(q)].id, covers |-> {q[i].write : i \in DOMAIN q}]
  <2>1. /\ waits' = waits \cup {y} /\ running' /\ q # <<>>
        /\ UNCHANGED <<queue, committed, current_user>>
    BY <1>5 DEF RegisterPendingWritesCallback, GetHighestUnacknowledgedBatchId, history
  <2>2. ASSUME NEW x \in waits, NEW w \in x.covers PROVE Covered(x, w)'
    BY <2>1, <2>2, <1>1 DEF Covered, Settled
  <2>3. ASSUME NEW w \in y.covers PROVE Covered(y, w)'
    <3>1. PICK i \in DOMAIN q : q[i].write = w BY <2>3
    <3>2. q \in Seq(Batch) /\ Ascending(q) BY <1>1 DEF IInv, TypeOK, QueuesInOrder
    <3>3. i \in 1 .. Len(q) /\ Len(q) \in 1 .. Len(q) /\ DOMAIN q = 1 .. Len(q)
      BY <3>1, <3>2, LenProperties
    <3>4. q[i] \in Batch /\ q[Len(q)] \in Batch BY <3>2, <3>3, ElementOfSeq
    <3>5. q[i].id \in Nat /\ q[Len(q)].id \in Nat BY <3>4 DEF Batch
    <3>6. q[i].id <= q[Len(q)].id
      <4>1. i < Len(q) => q[i].id < q[Len(q)].id BY <3>2, <3>3 DEF Ascending
      <4>2. i = Len(q) \/ i < Len(q) BY <3>3
      <4> QED BY <4>1, <4>2, <3>5
    <3>7. y.id = q[Len(q)].id OBVIOUS
    <3> QED BY <3>1, <3>6, <3>7, <2>1 DEF Covered
  <2> QED BY <2>1, <2>2, <2>3 DEF WaitsInStep
<1>6. CASE waits' = {} BY <1>6 DEF WaitsInStep
<1> QED BY <1>2, <1>3, <1>4, <1>5, <1>6, WaitsMove

\* waitForPendingWrites succeeds when all that was pending at the call is committed
\* or refused (TriggerPendingWriteCallbacks): the batch waited for is the newest of
\* its user then, and its id is not used again while somebody waits for it.
THEOREM WaitingEndsWhenDone == Spec => WaitMeansDone
<1> DEFINE Told == \A x \in waits : x \notin waits' /\ running' /\ current_user' = current_user =>
                      \A w \in x.covers : committed[w] # {} \/ w \in Refused
<1>1. Init => IInv /\ AnswersInStep /\ WaitsInStep
  <2>1. ASSUME Init PROVE WaitsInStep BY <2>1 DEF Init, WaitsInStep
  <2> QED BY <2>1, InitHolds, AnswersHold DEF AnsweredInStep
<1>2. IInv /\ AnswersInStep /\ WaitsInStep /\ [Next]_vars
         => (IInv /\ AnswersInStep /\ WaitsInStep)'
  BY Inductive, AnswersKept, WaitsKept
<1>3. IInv /\ AnswersInStep /\ WaitsInStep /\ [Next]_vars => [Told]_vars
  <2> SUFFICES ASSUME IInv, AnswersInStep, WaitsInStep, [Next]_vars,
                      NEW x \in waits, x \notin waits', running', current_user' = current_user,
                      NEW w \in x.covers
               PROVE  Settled(w)
    BY DEF Settled
  <2>1. CASE /\ pipeline # <<>> /\ TriggerPendingWriteCallbacks(Head(pipeline).id)
             /\ Settled(Head(pipeline).write)
    <3>1. x.id = Head(pipeline).id BY <2>1 DEF TriggerPendingWriteCallbacks
    <3> QED BY <2>1, <3>1, WaitEnds
  <2>2. ASSUME NEW v \in Write, WriteMutations(v) PROVE FALSE BY <2>2 DEF WriteMutations
  <2>3. ~RegisterPendingWritesCallback BY DEF RegisterPendingWritesCallback
  <2> QED BY <2>1, <2>2, <2>3, WaitsMove
<1> QED BY <1>1, <1>2, <1>3, PTL DEF Spec, WaitMeansDone
=============================================================================
