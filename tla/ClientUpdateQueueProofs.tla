----------------------- MODULE ClientUpdateQueueProofs -----------------------
(* Proofs about ClientUpdateQueue, for any number of clients, entities and      *)
(* writers, any bound on the changes, and any choice of the clients that fail.  *)
EXTENDS ClientUpdateQueue, FiniteSetTheorems, SequenceTheorems, TLAPS

Places == {"none", "starting", "sleeping", "locking", "calling", "ended"}

(***************************************************************************)
(* Facts about sequences of updates.                                       *)
(***************************************************************************)

\* Lengths and elements of the sequences the queue is made of.
LEMMA SequenceTypes ==
    ASSUME TypeOK
    PROVE  /\ Len(log) \in Nat
           /\ Len(feed) \in Nat /\ DOMAIN feed = 1 .. Len(feed)
           /\ \A i \in 1 .. Len(feed) : feed[i] \in Updates
           /\ Len(updateQueue) \in Nat /\ DOMAIN updateQueue = 1 .. Len(updateQueue)
           /\ \A i \in 1 .. Len(updateQueue) : updateQueue[i] \in Updates
           /\ \A c \in Client :
                 /\ Len(sent[c]) \in Nat /\ DOMAIN sent[c] = 1 .. Len(sent[c])
                 /\ Len(queue[c]) \in Nat /\ DOMAIN queue[c] = 1 .. Len(queue[c])
                 /\ start[c] \in Nat
<1> SUFFICES ASSUME NEW c \in Client
             PROVE  /\ Len(sent[c]) \in Nat /\ DOMAIN sent[c] = 1 .. Len(sent[c])
                    /\ Len(queue[c]) \in Nat /\ DOMAIN queue[c] = 1 .. Len(queue[c])
                    /\ start[c] \in Nat
    BY LenProperties, ElementOfSeq DEF TypeOK
<1>1. sent[c] \in Seq(Updates) /\ queue[c] \in Seq(Updates) /\ start[c] \in Nat
    BY QueueAssumption DEF TypeOK
<1> QED BY <1>1, LenProperties

\* Concatenation, element by element.
LEMMA Concatenation ==
    ASSUME NEW s \in Seq(Updates), NEW t \in Seq(Updates)
    PROVE  /\ s \o t \in Seq(Updates)
           /\ Len(s \o t) = Len(s) + Len(t)
           /\ DOMAIN (s \o t) = 1 .. Len(s) + Len(t)
           /\ \A i \in 1 .. Len(s) : (s \o t)[i] = s[i]
           /\ \A i \in 1 .. Len(t) : (s \o t)[Len(s) + i] = t[i]
<1>1. /\ s \o t \in Seq(Updates) /\ Len(s \o t) = Len(s) + Len(t)
      /\ \A i \in 1 .. Len(s) + Len(t) :
            (s \o t)[i] = IF i <= Len(s) THEN s[i] ELSE t[i - Len(s)]
    BY ConcatProperties
<1>2. Len(s) \in Nat /\ Len(t) \in Nat /\ DOMAIN (s \o t) = 1 .. Len(s) + Len(t)
    BY <1>1, LenProperties
<1>3. ASSUME NEW i \in 1 .. Len(t) PROVE (s \o t)[Len(s) + i] = t[i]
    <2>1. Len(s) + i \in 1 .. Len(s) + Len(t) /\ ~(Len(s) + i <= Len(s)) /\ Len(s) + i - Len(s) = i
        BY <1>2
    <2> QED BY <1>1, <2>1
<1>4. ASSUME NEW i \in 1 .. Len(s) PROVE (s \o t)[i] = s[i]
    BY <1>1, <1>2
<1> QED BY <1>1, <1>2, <1>3, <1>4

\* What has been sent and what is queued lies within the feed.
LEMMA Within ==
    ASSUME NEW a \in Nat, NEW b \in Nat, NEW d \in Nat, NEW n \in Nat, a + b + d <= n
    PROVE  /\ \A i \in 1 .. b : a + i \in 1 .. n
           /\ \A i \in 1 .. d : a + b + i \in 1 .. n
OBVIOUS

(***************************************************************************)
(* The invariant.                                                          *)
(***************************************************************************)

\* The initial states satisfy the invariant.
LEMMA InitInductive == Init => Inductive
<1> SUFFICES ASSUME Init PROVE Inductive
    OBVIOUS
<1> USE DEF Init
<1>1. InFlight = {}
    BY DEF InFlight
<1>2. IsFiniteSet(InFlight) /\ Cardinality(InFlight) = 0
    BY <1>1, FS_EmptySet
<1>3. TypeOK
    BY QueueAssumption DEF TypeOK
<1> QED BY <1>2, <1>3, QueueAssumption
        DEF Inductive, WithinBound, InOrder, SnapshotFlushed, FollowsFeed, UpToDate, Untouched,
            Stream!Increasing

\* A thread changes an attribute: one change more is on its way.
LEMMA SetAttributeInductive ==
    ASSUME Inductive, NEW t \in Writer, NEW e \in Entity, SetAttribute(t, e)
    PROVE  Inductive'
<1> USE DEF Inductive, SetAttribute
<1>1. pending' \in [Writer -> Entity \cup {Nothing}] /\ TypeOK'
    BY DEF TypeOK, worldVars, clientVars
<1>2. InFlight' = InFlight \cup {t} /\ t \notin InFlight
    BY QueueAssumption DEF TypeOK, InFlight
<1>3. IsFiniteSet(InFlight') /\ Cardinality(InFlight') = Cardinality(InFlight) + 1
    BY <1>2, FS_AddElement DEF WithinBound
<1>4. Cardinality(InFlight) \in Nat /\ Len(log) \in Nat
    BY FS_CardinalityType, SequenceTypes DEF WithinBound
<1>5. WithinBound'
    BY <1>3, <1>4, QueueAssumption, SequenceTypes DEF WithinBound, TypeOK, clientVars
<1> QED BY <1>1, <1>5
        DEF InOrder, SnapshotFlushed, FollowsFeed, UpToDate, Untouched, clientVars, Stream!Increasing

\* The change gets into the queue, as the newest update.
LEMMA AddEntityUpdateInductive ==
    ASSUME Inductive, NEW t \in Writer, AddEntityUpdateToQueue(t)
    PROVE  Inductive'
<1> USE DEF Inductive, AddEntityUpdateToQueue
<1> DEFINE n == Len(log) + 1
<1>1. /\ pending[t] \in Entity /\ t \in InFlight
      /\ InFlight' = InFlight \ {t}
    BY QueueAssumption DEF TypeOK, InFlight
<1>2. /\ IsFiniteSet(InFlight') /\ Cardinality(InFlight') = Cardinality(InFlight) - 1
      /\ Cardinality(InFlight) \in Nat /\ Cardinality(InFlight') \in Nat
    BY <1>1, FS_RemoveElement, FS_CardinalityType DEF WithinBound
<1>3. log' \in Seq(Entity) /\ Len(log') = n /\ Len(log) \in Nat
    BY <1>1, AppendProperties, SequenceTypes DEF TypeOK
<1>4. n <= MaxChanges /\ n \in Updates
    BY <1>2, <1>3, QueueAssumption DEF WithinBound, Updates
<1>5. /\ updateQueue' \in Seq(Updates) /\ Len(updateQueue') = Len(updateQueue) + 1
      /\ \A i \in 1 .. Len(updateQueue) : updateQueue'[i] = updateQueue[i]
      /\ updateQueue'[Len(updateQueue) + 1] = n
      /\ DOMAIN updateQueue' = 1 .. Len(updateQueue) + 1
    <2>1. updateQueue' = Append(updateQueue, n) /\ updateQueue \in Seq(Updates)
        BY <1>3 DEF TypeOK
    <2> QED BY <2>1, <1>4, AppendProperties, LenProperties
<1>6. TypeOK'
    BY <1>3, <1>4, <1>5 DEF TypeOK, clientVars
<1>7. WithinBound'
    BY <1>2, <1>3, <1>5, SequenceTypes, QueueAssumption DEF WithinBound
<1> HIDE DEF n
<1>8. InOrder'
    <2>1. \A i \in DOMAIN feed : feed[i] < n
        BY <1>3, SequenceTypes DEF InOrder, n, Updates
    <2>2. \A i \in DOMAIN updateQueue : updateQueue[i] < n
        BY <1>3, SequenceTypes DEF InOrder, n, Updates
    <2>3. \A i \in DOMAIN updateQueue' : updateQueue'[i] <= n
        BY <1>3, <1>5, <2>2, SequenceTypes DEF n, Updates
    <2>4. Stream!Increasing(updateQueue)'
        BY <1>5, <2>2, SequenceTypes DEF InOrder, Stream!Increasing
    <2>5. updater = "waiting" =>
            \A i \in DOMAIN feed, j \in DOMAIN updateQueue' : feed[i] < updateQueue'[j]
        BY <1>5, <2>1, SequenceTypes DEF InOrder
    <2>6. \A i \in DOMAIN feed : feed[i] <= n
        BY <1>3, <2>1, SequenceTypes DEF n, Updates
    <2> QED BY <1>3, <2>3, <2>4, <2>5, <2>6 DEF InOrder, Stream!Increasing
<1>9. SnapshotFlushed'
    BY DEF SnapshotFlushed, QueueLocked
<1>10. ASSUME NEW c \in clients PROVE UpToDate(c)'
    <2>1. c \notin todo /\ UpToDate(c)
        BY DEF SnapshotFlushed, QueueLocked
    <2> QED BY <2>1 DEF UpToDate, clientVars
<1> QED BY <1>6, <1>7, <1>8, <1>9, <1>10 DEF FollowsFeed, Untouched, clientVars

\* An entity leaves the World, and the queue stays as it is.
LEMMA RemoveEntityInductive ==
    ASSUME Inductive, NEW e \in Entity, RemoveEntityFromQueue(e)
    PROVE  Inductive'
BY DEF Inductive, RemoveEntityFromQueue, TypeOK, WithinBound, InFlight, InOrder, SnapshotFlushed,
       FollowsFeed, UpToDate, Untouched, clientVars, Stream!Increasing

(***************************************************************************)
(* The update thread.                                                      *)
(***************************************************************************)

\* The queue becomes the newest part of the feed: what it holds has not been there, and
\* every client lacks just that.
LEMMA FlushInductive ==
    ASSUME Inductive, FlushQueueToClients
    PROVE  Inductive'
<1> USE DEF Inductive, FlushQueueToClients
<1>1. feed \in Seq(Updates) /\ updateQueue \in Seq(Updates)
    BY DEF TypeOK
<1>2. /\ feed' \in Seq(Updates) /\ Len(feed') = Len(feed) + Len(updateQueue)
      /\ DOMAIN feed' = 1 .. Len(feed) + Len(updateQueue)
      /\ \A i \in 1 .. Len(feed) : feed'[i] = feed[i]
      /\ \A i \in 1 .. Len(updateQueue) : feed'[Len(feed) + i] = updateQueue[i]
    BY <1>1, Concatenation
<1>3. TypeOK'
    BY <1>2 DEF TypeOK, worldVars, clientVars
<1>4. WithinBound'
    BY <1>2, SequenceTypes DEF WithinBound, InFlight, worldVars
<1>5. \A i \in DOMAIN feed' :
         \/ i \in 1 .. Len(feed) /\ feed'[i] = feed[i]
         \/ i - Len(feed) \in 1 .. Len(updateQueue) /\ feed'[i] = updateQueue[i - Len(feed)]
    <2> SUFFICES ASSUME NEW i \in DOMAIN feed', ~(i \in 1 .. Len(feed))
                 PROVE  i - Len(feed) \in 1 .. Len(updateQueue) /\ feed'[i] = updateQueue[i - Len(feed)]
        BY <1>2
    <2>1. i - Len(feed) \in 1 .. Len(updateQueue) /\ Len(feed) + (i - Len(feed)) = i
        BY <1>2, SequenceTypes
    <2> QED BY <1>2, <2>1
<1>6. InOrder'
    <2>1. \A i \in DOMAIN feed' : feed'[i] <= Len(log)
        BY <1>5, SequenceTypes DEF InOrder
    <2>2. ASSUME NEW i \in DOMAIN feed', NEW j \in DOMAIN feed', i < j
          PROVE  feed'[i] < feed'[j]
        <3>1. i \in Nat /\ j \in Nat /\ Len(feed) \in Nat
            BY <1>2, SequenceTypes
        <3>2. CASE j \in 1 .. Len(feed)
            BY <1>2, <2>2, <3>1, <3>2, SequenceTypes DEF InOrder, Stream!Increasing
        <3>3. CASE j - Len(feed) \in 1 .. Len(updateQueue) /\ feed'[j] = updateQueue[j - Len(feed)]
            <4>1. CASE i \in 1 .. Len(feed) /\ feed'[i] = feed[i]
                BY <3>3, <4>1, SequenceTypes DEF InOrder
            <4>2. CASE i - Len(feed) \in 1 .. Len(updateQueue) /\ feed'[i] = updateQueue[i - Len(feed)]
                <5>1. i - Len(feed) < j - Len(feed)
                    BY <2>2, <3>1
                <5> QED BY <3>3, <4>2, <5>1, SequenceTypes DEF InOrder, Stream!Increasing
            <4> QED BY <1>5, <4>1, <4>2
        <3> QED BY <1>5, <3>2, <3>3
    <2> QED BY <2>1, <2>2 DEF InOrder, Stream!Increasing
<1>7. SnapshotFlushed'
    BY <1>2, SequenceTypes DEF SnapshotFlushed
<1>8. \A c \in Client : FollowsFeed(c)'
    <2> SUFFICES ASSUME NEW c \in Client PROVE FollowsFeed(c)'
        OBVIOUS
    <2>1. /\ Len(sent[c]) \in Nat /\ DOMAIN sent[c] = 1 .. Len(sent[c])
          /\ Len(queue[c]) \in Nat /\ DOMAIN queue[c] = 1 .. Len(queue[c])
          /\ start[c] \in Nat /\ Len(feed) \in Nat /\ Len(updateQueue) \in Nat
        BY SequenceTypes
    <2>2. /\ start[c] + Len(sent[c]) + Len(queue[c]) <= Len(feed)
          /\ \A i \in 1 .. Len(sent[c]) : sent[c][i] = feed[start[c] + i]
          /\ \A i \in 1 .. Len(queue[c]) : queue[c][i] = feed[start[c] + Len(sent[c]) + i]
        BY <2>1 DEF FollowsFeed
    <2> HIDE DEF Inductive, FlushQueueToClients
    <2>3. /\ \A i \in 1 .. Len(sent[c]) : start[c] + i \in 1 .. Len(feed)
          /\ \A i \in 1 .. Len(queue[c]) : start[c] + Len(sent[c]) + i \in 1 .. Len(feed)
        BY <2>1, <2>2, Within
    <2>4. start' = start /\ sent' = sent /\ queue' = queue
        BY DEF FlushQueueToClients, clientVars
    <2>5. Len(feed') = Len(feed) + Len(updateQueue) /\ \A i \in 1 .. Len(feed) : feed'[i] = feed[i]
        BY <1>2
    <2>6. start[c] + Len(sent[c]) + Len(queue[c]) <= Len(feed')
        <3>1. Len(sent[c]) \in Nat /\ Len(queue[c]) \in Nat
            BY <2>1
        <3>2. start[c] \in Nat /\ Len(feed) \in Nat /\ Len(updateQueue) \in Nat
            BY <2>1
        <3>3. start[c] + Len(sent[c]) + Len(queue[c]) <= Len(feed) /\ Len(feed') = Len(feed) + Len(updateQueue)
            BY <2>2, <2>5
        <3> QED BY <3>1, <3>2, <3>3
    <2>7. /\ \A i \in DOMAIN sent[c] : sent[c][i] = feed'[start[c] + i]
          /\ \A i \in DOMAIN queue[c] : queue[c][i] = feed'[start[c] + Len(sent[c]) + i]
        BY <2>1, <2>2, <2>3, <2>5
    <2> QED BY <2>4, <2>6, <2>7 DEF FollowsFeed
<1>9. ASSUME NEW c \in clients' PROVE UpToDate(c)'
    <2>1. c \notin todo /\ c \in todo' /\ UpToDate(c) /\ c \in Client
        BY DEF SnapshotFlushed, TypeOK, clientVars
    <2>2. start' = start /\ sent' = sent /\ queue' = queue /\ updateQueue' = updateQueue
        BY DEF clientVars
    <2>3. /\ Len(sent[c]) \in Nat /\ Len(queue[c]) \in Nat /\ start[c] \in Nat
          /\ Len(feed) \in Nat /\ Len(updateQueue) \in Nat
        BY <2>1, SequenceTypes
    <2>4. Len(feed') = Len(feed) + Len(updateQueue) /\ Len(feed) = Len(feed) + 0
        BY <1>2, <2>3
    <2> HIDE DEF Inductive, FlushQueueToClients
    <2>5. start[c] + Len(sent[c]) + Len(queue[c]) + 0 = Len(feed)
        BY <2>1 DEF UpToDate
    <2>6. start[c] + Len(sent[c]) + Len(queue[c]) + Len(updateQueue) = Len(feed')
        <3> DEFINE a == start[c] + Len(sent[c]) + Len(queue[c])  n == Len(feed)  k == Len(updateQueue)
        <3>1. a \in Nat /\ n \in Nat /\ k \in Nat /\ a + 0 = n
            BY <2>3, <2>5
        <3> HIDE DEF a, n, k
        <3>2. a + k = n + k
            BY <3>1
        <3> QED BY <2>4, <3>2 DEF a, n, k
    <2> QED BY <2>1, <2>2, <2>6 DEF UpToDate
<1> QED BY <1>3, <1>4, <1>6, <1>7, <1>8, <1>9 DEF Untouched, clientVars

\* A client gets the snapshot.
LEMMA AddUpdatesInductive ==
    ASSUME Inductive, NEW c \in Client, AddUpdates(c)
    PROVE  Inductive'
<1> USE DEF Inductive, AddUpdates
<1>1. /\ queue[c] \in Seq(Updates) /\ updateQueue \in Seq(Updates)
      /\ queue' = [queue EXCEPT ![c] = queue[c] \o updateQueue]
      /\ c \in clients
    BY DEF TypeOK
<1>2. /\ queue'[c] \in Seq(Updates) /\ Len(queue'[c]) = Len(queue[c]) + Len(updateQueue)
      /\ DOMAIN queue'[c] = 1 .. Len(queue[c]) + Len(updateQueue)
      /\ \A i \in 1 .. Len(queue[c]) : queue'[c][i] = queue[c][i]
      /\ \A i \in 1 .. Len(updateQueue) : queue'[c][Len(queue[c]) + i] = updateQueue[i]
    BY <1>1, Concatenation DEF TypeOK
<1>3. TypeOK'
    BY <1>2 DEF TypeOK, worldVars
<1>4. WithinBound' /\ InOrder' /\ SnapshotFlushed'
    BY DEF WithinBound, InFlight, worldVars, InOrder, SnapshotFlushed, Stream!Increasing
<1>5. start[c] + Len(sent[c]) + Len(queue[c]) + Len(updateQueue) = Len(feed)
    BY <1>1 DEF UpToDate
<1>6. /\ Len(sent[c]) \in Nat /\ DOMAIN sent[c] = 1 .. Len(sent[c])
      /\ Len(queue[c]) \in Nat /\ DOMAIN queue[c] = 1 .. Len(queue[c])
      /\ start[c] \in Nat /\ Len(feed) \in Nat /\ Len(updateQueue) \in Nat
    BY SequenceTypes
<1>7. FollowsFeed(c)'
    <2> HIDE DEF Inductive, AddUpdates
    <2>0. /\ Len(sent[c]) \in Nat /\ Len(queue[c]) \in Nat
          /\ start[c] \in Nat /\ Len(feed) \in Nat /\ Len(updateQueue) \in Nat
        BY <1>6
    <2>1. \A i \in 1 .. Len(updateQueue) :
             queue'[c][Len(queue[c]) + i] = feed[start[c] + Len(sent[c]) + (Len(queue[c]) + i)]
        <3> SUFFICES ASSUME NEW i \in 1 .. Len(updateQueue)
                     PROVE  updateQueue[i] = feed[start[c] + Len(sent[c]) + (Len(queue[c]) + i)]
            BY <1>2
        <3>1. start[c] + Len(sent[c]) + (Len(queue[c]) + i) = Len(feed) - Len(updateQueue) + i
            <4> DEFINE a == start[c]  b == Len(sent[c])  d == Len(queue[c])
                       n == Len(feed)  k == Len(updateQueue)
            <4>1. /\ a \in Nat /\ b \in Nat /\ d \in Nat /\ n \in Nat /\ k \in Nat /\ i \in Nat
                  /\ a + b + d + k = n
                BY <1>5, <2>0
            <4> HIDE DEF a, b, d, n, k
            <4>2. a + b + (d + i) = n - k + i
                BY <4>1
            <4> QED BY <4>2 DEF a, b, d, n, k
        <3>2. i \in DOMAIN updateQueue
            BY <1>1, LenProperties
        <3>3. updateQueue[i] = feed[Len(feed) - Len(updateQueue) + i]
            BY <3>2 DEF Inductive, AddUpdates, SnapshotFlushed
        <3> QED BY <3>1, <3>3
    <2>2. \A i \in DOMAIN queue'[c] : queue'[c][i] = feed[start[c] + Len(sent[c]) + i]
        <3> SUFFICES ASSUME NEW i \in DOMAIN queue'[c]
                     PROVE  queue'[c][i] = feed[start[c] + Len(sent[c]) + i]
            OBVIOUS
        <3>1. CASE i \in 1 .. Len(queue[c])
            <4>1. queue'[c][i] = queue[c][i]
                BY <1>2, <3>1
            <4>2. i \in DOMAIN queue[c]
                BY <1>6, <3>1
            <4> QED BY <4>1, <4>2 DEF Inductive, FollowsFeed
        <3>2. CASE ~(i \in 1 .. Len(queue[c]))
            <4>1. i - Len(queue[c]) \in 1 .. Len(updateQueue) /\ Len(queue[c]) + (i - Len(queue[c])) = i
                <5> DEFINE d == Len(queue[c])  k == Len(updateQueue)
                <5>1. d \in Nat /\ k \in Nat /\ i \in 1 .. d + k /\ ~(i \in 1 .. d)
                    BY <1>2, <2>0, <3>2
                <5> HIDE DEF d, k
                <5>2. i - d \in 1 .. k /\ d + (i - d) = i
                    BY <5>1
                <5> QED BY <5>2 DEF d, k
            <4> QED BY <2>1, <4>1
        <3> QED BY <3>1, <3>2
    <2>3. start' = start /\ sent' = sent /\ feed' = feed
        BY DEF AddUpdates
    <2>4. \A i \in DOMAIN sent[c] : sent[c][i] = feed[start[c] + i]
        BY DEF Inductive, FollowsFeed
    <2>5. start[c] + Len(sent[c]) + (Len(queue[c]) + Len(updateQueue)) = Len(feed)
        <3>1. /\ Len(sent[c]) \in Nat /\ Len(queue[c]) \in Nat
              /\ start[c] \in Nat /\ Len(feed) \in Nat /\ Len(updateQueue) \in Nat
            BY <1>6
        <3> QED BY <1>5, <3>1
    <2>6. Len(feed) <= Len(feed)
        BY <1>6
    <2>7. Len(queue'[c]) = Len(queue[c]) + Len(updateQueue)
        BY <1>2
    <2> QED BY <2>2, <2>3, <2>4, <2>5, <2>6, <2>7 DEF FollowsFeed
<1>8. UpToDate(c)'
    <2>1. start' = start /\ sent' = sent /\ feed' = feed /\ c \notin todo'
        OBVIOUS
    <2>2. Len(queue'[c]) = Len(queue[c]) + Len(updateQueue)
        BY <1>2
    <2>3. /\ Len(sent[c]) \in Nat /\ Len(queue[c]) \in Nat
          /\ start[c] \in Nat /\ Len(feed) \in Nat /\ Len(updateQueue) \in Nat
        BY <1>6
    <2> HIDE DEF Inductive, AddUpdates
    <2> QED BY <1>5, <2>1, <2>2, <2>3 DEF UpToDate
<1>9. ASSUME NEW d \in Client, d # c
      PROVE  FollowsFeed(d)' /\ (d \in clients' => UpToDate(d)')
    BY <1>1, <1>9 DEF FollowsFeed, UpToDate, TypeOK
<1>10. ASSUME NEW d \in Client, thread'[d] = "none" PROVE Untouched(d)'
    BY <1>1, <1>10 DEF Untouched
<1> QED BY <1>1, <1>3, <1>4, <1>7, <1>8, <1>9, <1>10 DEF TypeOK

\* The update thread gives the locks back, and later clears the queue.
LEMMA ReleaseLocksInductive ==
    ASSUME Inductive, ReleaseLocks
    PROVE  Inductive'
BY DEF Inductive, ReleaseLocks, TypeOK, WithinBound, InFlight, worldVars, clientVars, InOrder,
       SnapshotFlushed, FollowsFeed, UpToDate, Untouched, Stream!Increasing

LEMMA ClearQueueInductive ==
    ASSUME Inductive, ClearQueue
    PROVE  Inductive'
<1> USE DEF Inductive, ClearQueue
<1>1. TypeOK'
    BY DEF TypeOK, worldVars, clientVars
<1>2. WithinBound' /\ InOrder' /\ SnapshotFlushed'
    BY SequenceTypes DEF WithinBound, InFlight, worldVars, InOrder, SnapshotFlushed, Stream!Increasing
<1>3. \A c \in clients : UpToDate(c)'
    BY SequenceTypes DEF UpToDate, SnapshotFlushed, clientVars
<1> QED BY <1>1, <1>2, <1>3 DEF FollowsFeed, Untouched, clientVars

(***************************************************************************)
(* Clients, and their threads.                                             *)
(***************************************************************************)

\* A client registers at the end of the feed.
LEMMA RegisterInductive ==
    ASSUME Inductive, NEW c \in Client, RegisterToClientUpdates(c)
    PROVE  Inductive'
<1> USE DEF Inductive, RegisterToClientUpdates
<1>1. /\ Untouched(c) /\ Len(feed) \in Nat /\ c \notin todo
      /\ start' = [start EXCEPT ![c] = Len(feed)] /\ start'[c] = Len(feed)
    BY SequenceTypes DEF TypeOK, Untouched, SnapshotFlushed, RegistryLocked
<1>2. Len(feed) \in 0 .. MaxChanges
    <2>1. Len(log) \in Nat /\ Len(updateQueue) \in Nat /\ Len(log) <= MaxChanges
        BY SequenceTypes DEF TypeOK
    <2> QED BY <1>1, <2>1, QueueAssumption DEF WithinBound
<1>3. TypeOK'
    BY <1>2 DEF TypeOK, worldVars
<1>4. WithinBound' /\ InOrder' /\ SnapshotFlushed'
    BY DEF WithinBound, InFlight, worldVars, InOrder, SnapshotFlushed, Stream!Increasing
<1>5. FollowsFeed(c)' /\ UpToDate(c)'
    <2>1. Len(sent'[c]) = 0 /\ Len(queue'[c]) = 0 /\ DOMAIN sent'[c] = {} /\ DOMAIN queue'[c] = {}
        BY <1>1 DEF Untouched
    <2>2. Len(feed) + 0 + 0 + 0 = Len(feed) /\ Len(feed) + 0 + 0 <= Len(feed) /\ feed' = feed /\ c \notin todo'
        BY <1>1
    <2> HIDE DEF Inductive, RegisterToClientUpdates
    <2> QED BY <1>1, <2>1, <2>2 DEF FollowsFeed, UpToDate
<1>6. ASSUME NEW d \in Client, d # c
      PROVE  FollowsFeed(d)' /\ (d \in clients' => UpToDate(d)')
    BY <1>6 DEF FollowsFeed, UpToDate, TypeOK
<1>7. ASSUME NEW d \in Client, thread'[d] = "none" PROVE Untouched(d)'
    BY <1>7 DEF Untouched, TypeOK
<1> QED BY <1>3, <1>4, <1>5, <1>6, <1>7 DEF TypeOK

\* A client leaves; what its thread has still to send stays part of the feed.
LEMMA StopInductive ==
    ASSUME Inductive, NEW c \in Client, StopClientUpdates(c)
    PROVE  Inductive'
<1> USE DEF Inductive, StopClientUpdates
<1>1. TypeOK'
    BY DEF TypeOK, worldVars, SnapshotFlushed, RegistryLocked
<1>2. WithinBound' /\ InOrder' /\ SnapshotFlushed'
    BY DEF WithinBound, InFlight, worldVars, InOrder, SnapshotFlushed, Stream!Increasing
<1>3. \A d \in Client : FollowsFeed(d)' /\ (thread'[d] = "none" => Untouched(d)')
    BY DEF FollowsFeed, Untouched
<1>4. \A d \in clients' : UpToDate(d)'
    BY DEF UpToDate
<1> QED BY <1>1, <1>2, <1>3, <1>4

\* The thread of a client moves on without touching its queue.
LEMMA ThreadStepInductive ==
    ASSUME Inductive, NEW c \in Client, NEW from \in Places \ {"none"}, NEW to \in Places \ {"none"},
           ThreadStep(c, from, to)
    PROVE  Inductive'
<1> USE DEF Inductive, ThreadStep
<1>1. TypeOK'
    BY DEF TypeOK, worldVars, Places
<1> QED BY <1>1 DEF TypeOK, WithinBound, InFlight, worldVars, InOrder, SnapshotFlushed, FollowsFeed,
            UpToDate, Untouched, Places, Stream!Increasing

\* The queue of a client has been sent: the place in the feed stays the same.
LEMMA CallReturnsInductive ==
    ASSUME Inductive, NEW c \in Client, CallReturns(c)
    PROVE  /\ Inductive'
           /\ sent' = [sent EXCEPT ![c] = @ \o
                          SubSeq(feed, start[c] + Len(sent[c]) + 1, start[c] + Len(sent[c]) + Len(queue[c]))]
<1> DEFINE a == start[c] + Len(sent[c])
           n == Len(queue[c])
<1>0. /\ TypeOK /\ thread[c] = "calling" /\ FollowsFeed(c)
      /\ sent' = [sent EXCEPT ![c] = sent[c] \o queue[c]]
      /\ queue' = [queue EXCEPT ![c] = <<>>]
      /\ thread' = [thread EXCEPT ![c] = "sleeping"]
      /\ UNCHANGED <<world, pending, log, updateQueue, updater, todo, feed, clients, running, start>>
    BY DEF Inductive, CallReturns, worldVars
<1>1. /\ sent[c] \in Seq(Updates) /\ queue[c] \in Seq(Updates) /\ feed \in Seq(Updates)
    BY <1>0 DEF TypeOK
<1>2. /\ Len(sent[c]) \in Nat /\ n \in Nat /\ start[c] \in Nat /\ Len(feed) \in Nat /\ a \in Nat
      /\ a + n <= Len(feed)
      /\ DOMAIN queue[c] = 1 .. n /\ DOMAIN sent[c] = 1 .. Len(sent[c])
    BY <1>0, SequenceTypes DEF FollowsFeed
<1>3. /\ sent'[c] = sent[c] \o queue[c]
      /\ sent'[c] \in Seq(Updates) /\ Len(sent'[c]) = Len(sent[c]) + n
      /\ DOMAIN sent'[c] = 1 .. Len(sent[c]) + n
      /\ \A i \in 1 .. Len(sent[c]) : sent'[c][i] = sent[c][i]
      /\ \A i \in 1 .. n : sent'[c][Len(sent[c]) + i] = queue[c][i]
    BY <1>0, <1>1, Concatenation DEF TypeOK
<1>4. queue[c] = SubSeq(feed, a + 1, a + n)
    <2>1. \A i \in a + 1 .. a + n : feed[i] \in Updates
        BY <1>0, <1>2, SequenceTypes
    <2>2. /\ SubSeq(feed, a + 1, a + n) \in Seq(Updates)
          /\ Len(SubSeq(feed, a + 1, a + n)) = n
          /\ \A i \in 1 .. n : SubSeq(feed, a + 1, a + n)[i] = feed[a + i]
        <3> DEFINE first == a + 1
                   last == a + n
        <3>1. first \in Int /\ last \in Int /\ \A i \in first .. last : feed[i] \in Updates
            BY <1>2, <2>1
        <3>2. /\ last - first + 1 = n /\ (first <= last <=> 1 <= n) /\ (~(1 <= n) => n = 0)
              /\ \A i \in 1 .. n : first + i - 1 = a + i
            <4> HIDE DEF a, n
            <4> QED BY <1>2
        <3> HIDE DEF first, last
        <3>3. /\ SubSeq(feed, first, last) \in Seq(Updates)
              /\ Len(SubSeq(feed, first, last)) = IF first <= last THEN last - first + 1 ELSE 0
              /\ \A i \in 1 .. last - first + 1 : SubSeq(feed, first, last)[i] = feed[first + i - 1]
            BY <3>1, SubSeqProperties
        <3> HIDE DEF a, n
        <3> QED BY <3>2, <3>3 DEF first, last
    <2>3. \A i \in 1 .. n : queue[c][i] = feed[a + i]
        BY <1>0, <1>2 DEF FollowsFeed
    <2> DEFINE part == SubSeq(feed, a + 1, a + n)
               held == queue[c]
    <2>4. /\ held \in Seq(Updates) /\ Len(held) = n
          /\ part \in Seq(Updates) /\ Len(part) = n
          /\ \A i \in 1 .. n : held[i] = part[i]
        BY <1>1, <2>2, <2>3
    <2> HIDE DEF a, n, part, held
    <2>5. held = part
        BY <2>4, SeqEqual
    <2> QED BY <2>5 DEF part, held
<1>5. TypeOK'
    BY <1>0, <1>3 DEF TypeOK
<1>6. WithinBound' /\ InOrder' /\ SnapshotFlushed'
    BY <1>0 DEF Inductive, WithinBound, InFlight, InOrder, SnapshotFlushed, Stream!Increasing
<1>7. Len(queue'[c]) = 0 /\ DOMAIN queue'[c] = {}
    BY <1>0 DEF TypeOK
<1>8. FollowsFeed(c)'
    <2>1. \A i \in 1 .. Len(sent[c]) + n : sent'[c][i] = feed[start[c] + i]
        <3> SUFFICES ASSUME NEW i \in 1 .. Len(sent[c]) + n PROVE sent'[c][i] = feed[start[c] + i]
            OBVIOUS
        <3>1. CASE i \in 1 .. Len(sent[c])
            <4>1. i \in DOMAIN sent[c]
                BY <1>2, <3>1
            <4> QED BY <1>0, <1>3, <3>1, <4>1 DEF FollowsFeed
        <3>2. CASE ~(i \in 1 .. Len(sent[c]))
            <4>1. /\ i - Len(sent[c]) \in 1 .. n /\ Len(sent[c]) + (i - Len(sent[c])) = i
                  /\ start[c] + Len(sent[c]) + (i - Len(sent[c])) = start[c] + i
                <5> DEFINE b == Len(sent[c])  d == start[c]
                <5>1. b \in Nat /\ d \in Nat /\ n \in Nat /\ i \in 1 .. b + n /\ ~(i \in 1 .. b)
                    BY <1>2, <3>2
                <5> HIDE DEF b, d, n
                <5>2. i - b \in 1 .. n /\ b + (i - b) = i /\ d + b + (i - b) = d + i
                    BY <5>1
                <5> QED BY <5>2 DEF b, d
            <4>2. queue[c][i - Len(sent[c])] = feed[start[c] + Len(sent[c]) + (i - Len(sent[c]))]
                BY <1>0, <1>2, <4>1 DEF FollowsFeed
            <4> QED BY <1>3, <4>1, <4>2
        <3> QED BY <3>1, <3>2
    <2>2. start[c] + (Len(sent[c]) + n) + 0 <= Len(feed)
        <3> DEFINE b == Len(sent[c])  d == start[c]  k == Len(feed)
        <3>1. b \in Nat /\ d \in Nat /\ n \in Nat /\ k \in Nat /\ d + b + n <= k
            BY <1>2
        <3> HIDE DEF b, d, n, k
        <3>2. d + (b + n) + 0 <= k
            BY <3>1
        <3> QED BY <3>2 DEF b, d, k
    <2>3. start' = start /\ feed' = feed
        BY <1>0
    <2> HIDE DEF n
    <2> QED BY <1>3, <1>7, <2>1, <2>2, <2>3 DEF FollowsFeed
<1>9. c \in clients' => UpToDate(c)'
    <2>1. \A k \in {0, Len(updateQueue)} : start[c] + (Len(sent[c]) + n) + 0 + k = start[c] + Len(sent[c]) + n + k
        <3> DEFINE b == Len(sent[c])  d == start[c]  u == Len(updateQueue)
        <3>1. b \in Nat /\ d \in Nat /\ n \in Nat /\ u \in Nat
            BY <1>0, <1>2, SequenceTypes
        <3> HIDE DEF b, d, n, u
        <3>2. \A k \in {0, u} : d + (b + n) + 0 + k = d + b + n + k
            BY <3>1
        <3> QED BY <3>2 DEF b, d, u
    <2>2. c \in clients => UpToDate(c)
        BY DEF Inductive
    <2> QED BY <1>0, <1>3, <1>7, <2>1, <2>2 DEF UpToDate
<1>10. ASSUME NEW d \in Client, d # c
       PROVE  FollowsFeed(d)' /\ (d \in clients' => UpToDate(d)')
    <2>1. /\ sent'[d] = sent[d] /\ queue'[d] = queue[d] /\ start' = start /\ feed' = feed
          /\ todo' = todo /\ updateQueue' = updateQueue /\ clients' = clients
        BY <1>0, <1>10 DEF TypeOK
    <2> QED BY <2>1 DEF Inductive, FollowsFeed, UpToDate
<1>11. ASSUME NEW d \in Client, thread'[d] = "none" PROVE Untouched(d)'
    <2>1. d # c /\ thread[d] = "none" /\ sent'[d] = sent[d] /\ queue'[d] = queue[d] /\ clients' = clients
        BY <1>0, <1>11 DEF TypeOK
    <2> QED BY <2>1 DEF Inductive, Untouched
<1>12. clients' \subseteq Client
    BY <1>5 DEF TypeOK
<1> QED BY <1>0, <1>4, <1>5, <1>6, <1>8, <1>9, <1>10, <1>11, <1>12 DEF Inductive

\* No step of the server or of its clients breaks the invariant.
LEMMA NextInductive == Inductive /\ [Next]_vars => Inductive'
<1> SUFFICES ASSUME Inductive, [Next]_vars PROVE Inductive'
    OBVIOUS
<1>1. CASE UNCHANGED vars
    BY <1>1 DEF vars, worldVars, clientVars, Inductive, TypeOK, WithinBound, InFlight, InOrder,
                SnapshotFlushed, FollowsFeed, UpToDate, Untouched, Stream!Increasing
<1>2. ASSUME NEW c \in Client, ClientThread(c) PROVE Inductive'
    <2>1. CASE StartTask(c)
        BY <2>1, ThreadStepInductive DEF StartTask, Places
    <2>2. CASE CheckRunning(c)
        BY <2>2, ThreadStepInductive DEF CheckRunning, Places
    <2>3. CASE LockQueue(c)
        BY <2>3, ThreadStepInductive DEF LockQueue, Places
    <2>4. CASE CallReturns(c)
        BY <2>4, CallReturnsInductive
    <2>5. CASE CallThrows(c)
        BY <2>5, ThreadStepInductive DEF CallThrows, Places
    <2> QED BY <1>2, <2>1, <2>2, <2>3, <2>4, <2>5 DEF ClientThread
<1>3. CASE UpdateThread
    BY <1>3, FlushInductive, AddUpdatesInductive, ReleaseLocksInductive, ClearQueueInductive
       DEF UpdateThread
<1> QED BY <1>1, <1>2, <1>3, SetAttributeInductive, AddEntityUpdateInductive, RemoveEntityInductive,
           RegisterInductive, StopInductive DEF Next

(***************************************************************************)
(* What the invariant says of the clients.                                 *)
(***************************************************************************)

\* A registered client has in its hands, in its queue or in the snapshot all of the
\* feed from the place where it registered.
LEMMA InductiveComplete == Inductive => ClientsComplete
<1> SUFFICES ASSUME Inductive, NEW c \in clients
             PROVE  sent[c] \o queue[c] \o (IF c \in todo THEN updateQueue ELSE <<>>)
                        = SubSeq(feed, start[c] + 1, Len(feed))
    BY DEF ClientsComplete
<1> DEFINE rest == IF c \in todo THEN updateQueue ELSE <<>>
           got == sent[c] \o queue[c]
           all == got \o rest
           lack == SubSeq(feed, start[c] + 1, Len(feed))
           a == start[c]  b == Len(sent[c])  d == Len(queue[c])  u == Len(rest)  n == Len(feed)
<1>1. /\ TypeOK /\ c \in Client /\ FollowsFeed(c)
      /\ start[c] + Len(sent[c]) + Len(queue[c]) + (IF c \in todo THEN Len(updateQueue) ELSE 0) = Len(feed)
      /\ c \in todo => updater = "copying"
    BY DEF Inductive, TypeOK, UpToDate, SnapshotFlushed
<1>2. /\ sent[c] \in Seq(Updates) /\ queue[c] \in Seq(Updates) /\ rest \in Seq(Updates)
      /\ feed \in Seq(Updates)
    BY <1>1 DEF TypeOK
<1>3. /\ a \in Nat /\ b \in Nat /\ d \in Nat /\ u \in Nat /\ n \in Nat
      /\ DOMAIN sent[c] = 1 .. b /\ DOMAIN queue[c] = 1 .. d /\ DOMAIN rest = 1 .. u
    BY <1>1, <1>2, SequenceTypes, LenProperties
<1>4. u = IF c \in todo THEN Len(updateQueue) ELSE 0
    OBVIOUS
<1>5. a + b + d + u = n
    BY <1>1, <1>4
<1>6. /\ got \in Seq(Updates) /\ Len(got) = b + d
      /\ \A i \in 1 .. b : got[i] = sent[c][i]
      /\ \A i \in 1 .. d : got[b + i] = queue[c][i]
    <2> HIDE DEF rest
    <2> QED BY <1>2, Concatenation
<1>7. /\ all \in Seq(Updates) /\ Len(all) = b + d + u
      /\ \A i \in 1 .. b + d : all[i] = got[i]
      /\ \A i \in 1 .. u : all[b + d + i] = rest[i]
    <2>1. /\ all \in Seq(Updates) /\ Len(all) = Len(got) + Len(rest)
          /\ \A i \in 1 .. Len(got) : all[i] = got[i]
          /\ \A i \in 1 .. Len(rest) : all[Len(got) + i] = rest[i]
        <3> HIDE DEF got, rest
        <3> QED BY <1>2, <1>6, Concatenation
    <2> HIDE DEF got, rest, all
    <2> QED BY <1>6, <2>1
<1>8. /\ \A i \in 1 .. b : sent[c][i] = feed[a + i]
      /\ \A i \in 1 .. d : queue[c][i] = feed[a + b + i]
    BY <1>1, <1>3 DEF FollowsFeed
<1>9. \A i \in 1 .. u : rest[i] = feed[a + b + d + i]
    <2> SUFFICES ASSUME NEW i \in 1 .. u PROVE rest[i] = feed[a + b + d + i]
        OBVIOUS
    <2>1. c \in todo /\ rest = updateQueue /\ updater = "copying" /\ u = Len(updateQueue)
        BY <1>1, <1>4
    <2>2. rest[i] = feed[n - u + i]
        BY <1>3, <2>1 DEF Inductive, SnapshotFlushed
    <2> HIDE DEF a, b, d, u, n
    <2>3. n - u + i = a + b + d + i
        BY <1>3, <1>5
    <2> QED BY <2>2, <2>3
<1>10. \A i \in 1 .. b + d + u : all[i] = feed[a + i]
    <2> HIDE DEF a, b, d, u, n, got, rest, all
    <2> SUFFICES ASSUME NEW i \in 1 .. b + d + u PROVE all[i] = feed[a + i]
        OBVIOUS
    <2>1. CASE i \in 1 .. b
        <3>1. i \in 1 .. b + d
            BY <1>3, <2>1
        <3> QED BY <1>6, <1>7, <1>8, <2>1, <3>1
    <2>2. CASE i - b \in 1 .. d
        <3>1. i \in 1 .. b + d /\ b + (i - b) = i /\ a + b + (i - b) = a + i
            BY <1>3, <2>2
        <3> QED BY <1>6, <1>7, <1>8, <2>2, <3>1
    <2>3. CASE i - (b + d) \in 1 .. u
        <3>1. b + d + (i - (b + d)) = i /\ a + b + d + (i - (b + d)) = a + i
            BY <1>3
        <3> QED BY <1>7, <1>9, <2>3, <3>1
    <2>4. i \in 1 .. b \/ i - b \in 1 .. d \/ i - (b + d) \in 1 .. u
        BY <1>3
    <2> QED BY <2>1, <2>2, <2>3, <2>4
<1>11. /\ lack \in Seq(Updates) /\ Len(lack) = b + d + u
       /\ \A i \in 1 .. b + d + u : lack[i] = feed[a + i]
    <2> DEFINE first == a + 1
    <2>1. /\ first \in Int /\ n \in Int /\ \A i \in first .. n : feed[i] \in Updates
        <3>1. \A i \in 1 .. n : feed[i] \in Updates
            BY <1>1, SequenceTypes
        <3> HIDE DEF a, n
        <3> QED BY <1>3, <3>1
    <2>2. /\ n - first + 1 = b + d + u /\ (first <= n <=> 1 <= b + d + u)
          /\ (~(1 <= b + d + u) => b + d + u = 0)
          /\ \A i \in 1 .. b + d + u : first + i - 1 = a + i
        <3> HIDE DEF a, b, d, u, n
        <3> QED BY <1>3, <1>5
    <2>3. lack = SubSeq(feed, first, n)
        OBVIOUS
    <2> HIDE DEF first, n, lack
    <2>4. /\ SubSeq(feed, first, n) \in Seq(Updates)
          /\ Len(SubSeq(feed, first, n)) = IF first <= n THEN n - first + 1 ELSE 0
          /\ \A i \in 1 .. n - first + 1 : SubSeq(feed, first, n)[i] = feed[first + i - 1]
        BY <2>1, SubSeqProperties
    <2> HIDE DEF a, b, d, u
    <2> QED BY <2>2, <2>3, <2>4
<1>12. all = lack
    <2> HIDE DEF a, b, d, u, n, got, rest, all, lack
    <2> QED BY <1>7, <1>10, <1>11, SeqEqual
<1> QED BY <1>12

\* A flush publishes: the feed grows at its end, and stays in order.
LEMMA FlushPublishes ==
    ASSUME Inductive, Inductive', FlushQueueToClients
    PROVE  Stream!Publish
<1>1. /\ feed \in Seq(Updates) /\ updateQueue \in Seq(Updates)
      /\ feed' = feed \o updateQueue /\ start' = start /\ sent' = sent
    BY DEF Inductive, TypeOK, FlushQueueToClients, clientVars
<1>2. /\ feed' \in Seq(Updates) /\ Len(feed') = Len(feed) + Len(updateQueue)
      /\ Len(feed) \in Nat /\ Len(updateQueue) \in Nat
    BY <1>1, ConcatProperties, LenProperties
<1>3. Len(feed) <= Len(feed')
    BY <1>2
<1>4. SubSeq(feed', 1, Len(feed)) = feed
    <2>1. CASE Len(feed) = 0
        BY <1>1, <1>2, <2>1, SubSeqEmpty, EmptySeq
    <2>2. CASE Len(feed) # 0
        <3>1. 1 \in 1 .. Len(feed) /\ Len(feed) \in 1 .. Len(feed)
            BY <1>2, <2>2
        <3> QED BY <1>1, <3>1, SubSeqOfConcat1, SubSeqFull
    <2> QED BY <2>1, <2>2
<1>5. SubSeq(feed, 1, Len(feed)) = feed
    BY <1>1, SubSeqFull
<1>6. Stream!Increasing(feed')
    BY DEF Inductive, InOrder, Stream!Increasing
<1> QED BY <1>1, <1>3, <1>4, <1>5, <1>6 DEF Stream!Publish, Stream!IsPrefix

\* A call that returns delivers the next part of the feed, or nothing.
LEMMA CallDelivers ==
    ASSUME Inductive, NEW c \in Client, CallReturns(c)
    PROVE  Stream!Deliver(c) \/ UNCHANGED Stream!streamVars
<1> DEFINE a == start[c]  b == Len(sent[c])  n == Len(queue[c])
<1>1. /\ a \in Nat /\ b \in Nat /\ n \in Nat /\ Len(feed) \in Nat
      /\ a + b + n <= Len(feed)
    BY SequenceTypes DEF Inductive, FollowsFeed
<1>2. feed' = feed /\ start' = start /\ sent' = [sent EXCEPT ![c] = sent[c] \o queue[c]]
    BY DEF CallReturns
<1>3. CASE n = 0
    <2>1. sent[c] \in Seq(Updates) /\ queue[c] \in Seq(Updates) /\ sent \in [Client -> Seq(Updates)]
        BY DEF Inductive, TypeOK
    <2>2. queue[c] = <<>>
        BY <1>3, <2>1, EmptySeq
    <2>3. sent[c] \o queue[c] = sent[c]
        BY <2>1, <2>2, ConcatEmptySeq
    <2> QED BY <1>2, <2>1, <2>3 DEF Stream!streamVars
<1>4. CASE n # 0
    <2>1. sent' = [sent EXCEPT ![c] = @ \o SubSeq(feed, a + b + 1, a + b + n)]
        BY CallReturnsInductive
    <2>2. n \in 1 .. Len(feed) - a - b
        <3> DEFINE k == Len(feed)
        <3>1. k \in Nat /\ a + b + n <= k
            BY <1>1
        <3> HIDE DEF a, b, n, k
        <3>2. n \in 1 .. k - a - b
            BY <1>1, <1>4, <3>1
        <3> QED BY <3>2 DEF k
    <2> QED BY <1>2, <2>1, <2>2 DEF Stream!Deliver
<1> QED BY <1>3, <1>4

\* Every step is one of the stream, or changes nothing a client may rely on.
LEMMA StepSimulated == Inductive /\ Inductive' /\ [Next]_vars => [Stream!StreamNext]_Stream!streamVars
<1> SUFFICES ASSUME Inductive, Inductive', [Next]_vars
             PROVE  Stream!StreamNext \/ UNCHANGED Stream!streamVars
    OBVIOUS
<1> USE DEF Stream!streamVars
<1>1. CASE UNCHANGED vars
    BY <1>1 DEF vars, clientVars
<1>2. ASSUME NEW t \in Writer, NEW e \in Entity, SetAttribute(t, e) PROVE UNCHANGED Stream!streamVars
    BY <1>2 DEF SetAttribute, clientVars
<1>3. ASSUME NEW t \in Writer, AddEntityUpdateToQueue(t) PROVE UNCHANGED Stream!streamVars
    BY <1>3 DEF AddEntityUpdateToQueue, clientVars
<1>4. ASSUME NEW e \in Entity, RemoveEntityFromQueue(e) PROVE UNCHANGED Stream!streamVars
    BY <1>4 DEF RemoveEntityFromQueue, clientVars
<1>5. CASE UpdateThread
    <2>1. CASE FlushQueueToClients
        BY <2>1, FlushPublishes DEF Stream!StreamNext
    <2>2. ASSUME NEW c \in Client, AddUpdates(c) PROVE UNCHANGED Stream!streamVars
        BY <2>2 DEF AddUpdates
    <2>3. CASE ReleaseLocks \/ ClearQueue
        BY <2>3 DEF ReleaseLocks, ClearQueue, clientVars
    <2> QED BY <1>5, <2>1, <2>2, <2>3 DEF UpdateThread
<1>6. ASSUME NEW c \in Client, RegisterToClientUpdates(c) PROVE Stream!Join(c)
    BY <1>6 DEF RegisterToClientUpdates, Stream!Join, Inductive, Untouched
<1>7. ASSUME NEW c \in Client, StopClientUpdates(c) PROVE UNCHANGED Stream!streamVars
    BY <1>7 DEF StopClientUpdates
<1>8. ASSUME NEW c \in Client, ClientThread(c) PROVE Stream!StreamNext \/ UNCHANGED Stream!streamVars
    <2>1. CASE CallReturns(c)
        BY <2>1, CallDelivers DEF Stream!StreamNext
    <2>2. CASE StartTask(c) \/ CheckRunning(c) \/ LockQueue(c) \/ CallThrows(c)
        BY <2>2 DEF StartTask, CheckRunning, LockQueue, CallThrows, ThreadStep
    <2> QED BY <1>8, <2>1, <2>2 DEF ClientThread
<1> QED BY <1>1, <1>2, <1>3, <1>4, <1>5, <1>6, <1>7, <1>8 DEF Next, Stream!StreamNext

(***************************************************************************)
(* The theorems.                                                           *)
(***************************************************************************)

\* The types of all variables, for any number of clients, writers and changes.
THEOREM TypeCorrect == Spec => []TypeOK
<1>1. Inductive => TypeOK
    BY DEF Inductive
<1> QED BY <1>1, InitInductive, NextInductive, PTL DEF Spec

\* Whatever the update thread, the threads of the clients and the clients that come and
\* go do, what a client has been sent and what is queued for it are successive parts of
\* the feed.
THEOREM InductiveInvariant == Spec => []Inductive
BY InitInductive, NextInductive, PTL DEF Spec

\* ClientUpdateQueue.FlushQueueToClients loses, repeats and reorders nothing for a client
\* that is registered, also when the call to the client fails and is repeated.
THEOREM ClientsGetAll == Spec => []ClientsComplete
BY InitInductive, NextInductive, InductiveComplete, PTL DEF Spec

\* The update queue implements UpdateStream: clients follow one feed, in its order, from
\* where they joined it.
THEOREM StreamImplemented == Spec => FollowStream
<1>1. Init => Stream!StreamInit
    BY DEF Init, Stream!StreamInit
<1> QED BY <1>1, InitInductive, NextInductive, StepSimulated, PTL
        DEF Spec, FollowStream, Stream!StreamSpec

=============================================================================
