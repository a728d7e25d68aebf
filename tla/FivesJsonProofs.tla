-------------------------- MODULE FivesJsonProofs --------------------------
(* Proofs about FivesJson, for any number of calls and of reconnections, and   *)
(* any choice of the functions and of the listeners that throw.                *)
EXTENDS FivesJson, SequenceTheorems, FiniteSetTheorems, TLAPS

SocketStates == {"connecting", "open", "closed"}

(***************************************************************************)
(* What the helpers return.                                                *)
(***************************************************************************)

\* There is always a newest socket.
LEMMA NewestSocket == TypeOK => ws \in Nat \ {0} /\ ws \in DOMAIN sockets
<1> SUFFICES ASSUME TypeOK PROVE ws \in Nat \ {0} /\ ws \in DOMAIN sockets
    OBVIOUS
<1>1. sockets \in Seq(SocketStates) /\ sockets # <<>>
    BY DEF TypeOK, SocketStates
<1> QED BY <1>1, EmptySeq, LenProperties DEF ws

\* The events of a socket lead to no more new sockets than there are events.
LEMMA ReconnectsType ==
    ASSUME TypeOK, NEW n \in Nat
    PROVE  Reconnects(n) \in 0 .. n
BY AttemptsAssumption DEF TypeOK, Reconnects

\* Appending to a sequence of calls.
LEMMA AppendCall ==
    ASSUME NEW q \in Seq(Calls), NEW c \in Calls
    PROVE  /\ Append(q, c) \in Seq(Calls)
           /\ Len(Append(q, c)) = Len(q) + 1
           /\ \A i \in 1 .. Len(q) : Append(q, c)[i] = q[i]
           /\ Append(q, c)[Len(q) + 1] = c
OBVIOUS

\* The initial states satisfy the invariant.
LEMMA InitInductive == Init => Inductive
<1> SUFFICES ASSUME Init PROVE Inductive
    OBVIOUS
<1> USE DEF Init
<1>1. sockets \in Seq(SocketStates) /\ sockets # <<>> /\ ws = 1
    BY DEF SocketStates, ws
<1>2. TypeOK
    <2>1. DOMAIN activeCalls = {} /\ activeCalls \in [{} -> Calls]
        OBVIOUS
    <2> QED BY <1>1, <2>1 DEF TypeOK, SocketStates, Statuses
<1> QED BY <1>1, <1>2
        DEF Inductive, MadeInOrder, Ordered, IDsArePositions, CachedOffline, StatusFits, IsOpen

(***************************************************************************)
(* Sending.                                                                *)
(***************************************************************************)

\* Sending calls one after the other, whatever else the step does, gives each the ID
\* that is its position among the calls sent, and leaves those of the others alone.
LEMMA SendAllSends ==
    ASSUME TypeOK, IDsArePositions, NEW q \in Seq(Calls), SendAll(q)
    PROVE  /\ nextCallID' \in Nat
           /\ DOMAIN activeCalls' \subseteq Nat /\ activeCalls' \in [DOMAIN activeCalls' -> Calls]
           /\ requests' \subseteq Requests
           /\ sent' \in Seq(Calls)
           /\ IDsArePositions'
           /\ Len(sent') = Len(sent) + Len(q)
           /\ \A i \in 1 .. Len(sent) : sent'[i] = sent[i]
           /\ \A i \in 1 .. Len(q) : sent'[Len(sent) + i] = q[i]
           /\ \A id \in DOMAIN activeCalls : id \in DOMAIN activeCalls'
                                             /\ activeCalls'[id] = activeCalls[id]
           /\ \A id \in DOMAIN activeCalls' :
                 id \in DOMAIN activeCalls \/ id \in Len(sent) .. Len(sent) + Len(q) - 1
           /\ \A r \in requests' :
                 r \in requests \/ r.id \in Len(sent) .. Len(sent) + Len(q) - 1
<1> DEFINE ids == nextCallID .. nextCallID + Len(q) - 1
           callOf == [id \in ids |-> q[id - nextCallID + 1]]
           tracked == {id \in ids : callOf[id] \notin OneWay}
           new == {[socket |-> ws, id |-> id, call |-> callOf[id]] : id \in ids}
<1>1. /\ nextCallID \in Nat /\ nextCallID = Len(sent) /\ Len(q) \in Nat
      /\ sent \in Seq(Calls)
    BY LenProperties DEF TypeOK, IDsArePositions
<1>2. /\ nextCallID' = nextCallID + Len(q)
      /\ activeCalls' = [id \in DOMAIN activeCalls \cup tracked |->
                           IF id \in tracked THEN callOf[id] ELSE activeCalls[id]]
      /\ requests' = requests \cup new
      /\ sent' = sent \o q
    BY DEF SendAll
<1>3. \A id \in ids : callOf[id] \in Calls /\ id \in Nat /\ id - nextCallID + 1 \in 1 .. Len(q)
    BY <1>1, ElementOfSeq
<1>4. tracked \subseteq ids
    OBVIOUS
<1>5. /\ sent' \in Seq(Calls)
      /\ Len(sent') = Len(sent) + Len(q)
      /\ \A i \in 1 .. Len(sent) : sent'[i] = sent[i]
      /\ \A i \in 1 .. Len(q) : sent'[Len(sent) + i] = q[i]
    BY <1>1, <1>2, ConcatProperties
<1>6. \A id \in ids : callOf[id] = sent'[id + 1]
    <2> SUFFICES ASSUME NEW id \in ids PROVE callOf[id] = sent'[id + 1]
        OBVIOUS
    <2>1. sent'[Len(sent) + (id - nextCallID + 1)] = q[id - nextCallID + 1]
        BY <1>1, <1>3, <1>5
    <2> QED BY <2>1, <1>1, <1>3
<1>7. \A r \in new : /\ r \in Requests /\ r.id \in ids /\ r.call = sent'[r.id + 1]
                     /\ r.socket = ws /\ r.call = callOf[r.id]
    BY <1>3, <1>6, NewestSocket DEF Requests
<1>8. \A r, t \in new : r.id = t.id => r = t
    BY <1>7
<1> HIDE DEF ids, callOf, tracked, new
<1>9. /\ DOMAIN activeCalls' = DOMAIN activeCalls \cup tracked
      /\ \A id \in tracked : activeCalls'[id] = callOf[id]
      /\ \A id \in DOMAIN activeCalls \ tracked : activeCalls'[id] = activeCalls[id]
    BY <1>2
<1>10. \A id \in DOMAIN activeCalls : id \notin ids /\ id \in Nat /\ activeCalls[id] \in Calls
    BY <1>1 DEF TypeOK, IDsArePositions, ids
<1>11. DOMAIN activeCalls' \subseteq Nat /\ activeCalls' \in [DOMAIN activeCalls' -> Calls]
    BY <1>2, <1>3, <1>4, <1>9, <1>10
<1>12. IDsArePositions'
    <2>1. nextCallID' = Len(sent')
        BY <1>1, <1>2, <1>5
    <2>2. \A id \in ids : id < nextCallID'
        BY <1>1, <1>2 DEF ids
    <2>3. \A id \in DOMAIN activeCalls' : id < nextCallID' /\ activeCalls'[id] = sent'[id + 1]
        <3> SUFFICES ASSUME NEW id \in DOMAIN activeCalls'
                     PROVE  id < nextCallID' /\ activeCalls'[id] = sent'[id + 1]
            OBVIOUS
        <3>1. CASE id \in tracked
            BY <3>1, <1>4, <1>6, <1>9, <2>2
        <3>2. CASE id \in DOMAIN activeCalls \ tracked
            <4>1. id \in Nat /\ id < nextCallID /\ activeCalls[id] = sent[id + 1]
                BY <3>2, <1>10 DEF IDsArePositions
            <4> QED BY <4>1, <3>2, <1>1, <1>2, <1>5, <1>9
        <3> QED BY <3>1, <3>2, <1>9
    <2>4. \A r \in requests : r \in Requests /\ r.id \in Nat /\ r.id < nextCallID
                              /\ r.call = sent[r.id + 1]
        BY DEF TypeOK, IDsArePositions, Requests
    <2>5. \A r \in requests' : r.id < nextCallID' /\ r.call = sent'[r.id + 1]
        <3>1. ASSUME NEW r \in requests PROVE r.id < nextCallID' /\ r.call = sent'[r.id + 1]
            <4>1. r.id \in Nat /\ r.id < nextCallID /\ r.call = sent[r.id + 1]
                BY <2>4
            <4> QED BY <4>1, <1>1, <1>2, <1>5
        <3>2. ASSUME NEW r \in new PROVE r.id < nextCallID' /\ r.call = sent'[r.id + 1]
            BY <2>2, <1>7
        <3> QED BY <3>1, <3>2, <1>2
    <2>6. \A r, t \in requests' : r.id = t.id => r = t
        <3>1. \A r \in requests : r.id \notin ids
            BY <2>4, <1>1 DEF ids
        <3> QED BY <3>1, <1>2, <1>7, <1>8 DEF IDsArePositions
    <2> QED BY <2>1, <2>3, <2>5, <2>6 DEF IDsArePositions
<1>13. ids = Len(sent) .. Len(sent) + Len(q) - 1
    BY <1>1 DEF ids
<1>14. requests' \subseteq Requests
    BY <1>2, <1>7 DEF TypeOK
<1> QED BY <1>1, <1>2, <1>4, <1>5, <1>7, <1>9, <1>10, <1>11, <1>12, <1>13, <1>14

(***************************************************************************)
(* The invariant. Each step keeps all its parts.                           *)
(***************************************************************************)

\* A step that sends nothing and adds no active call keeps the call IDs in order.
LEMMA NothingSent ==
    ASSUME IDsArePositions, UNCHANGED <<nextCallID, sent>>, requests' \subseteq requests,
           DOMAIN activeCalls' \subseteq DOMAIN activeCalls,
           \A id \in DOMAIN activeCalls' : activeCalls'[id] = activeCalls[id]
    PROVE  IDsArePositions'
BY DEF IDsArePositions

\* The calls sent, cached and active have been made, the numbers of those sent and
\* cached differ, and an active call has been sent.
LEMMA KnownCalls ==
    ASSUME Inductive
    PROVE  /\ \A i \in DOMAIN sent : sent[i] \in Calls /\ i \in Nat \ {0}
           /\ \A i \in DOMAIN cachedCalls : cachedCalls[i] \in Calls /\ i \in Nat \ {0}
           /\ \A i, j \in DOMAIN sent : sent[i] = sent[j] => i = j
           /\ \A i \in DOMAIN sent, j \in DOMAIN cachedCalls : sent[i] # cachedCalls[j]
           /\ \A id \in DOMAIN activeCalls :
                 /\ id \in Nat /\ id + 1 \in DOMAIN sent /\ activeCalls[id] = sent[id + 1]
                 /\ activeCalls[id] \in Calls
           /\ \A r \in requests :
                 r \in Requests /\ r.id \in Nat /\ r.id + 1 \in DOMAIN sent
                 /\ r.call = sent[r.id + 1]
<1> USE DEF Inductive
<1>1. /\ sent \in Seq(Calls) /\ cachedCalls \in Seq(Calls) /\ Calls \subseteq Nat
      /\ DOMAIN sent = 1 .. Len(sent) /\ DOMAIN cachedCalls = 1 .. Len(cachedCalls)
      /\ Len(sent) \in Nat /\ Len(cachedCalls) \in Nat
    BY LenProperties DEF TypeOK, Calls
<1>2. /\ \A i \in DOMAIN sent : sent[i] \in Calls /\ sent[i] \in Nat /\ i \in Nat \ {0}
      /\ \A i \in DOMAIN cachedCalls : /\ cachedCalls[i] \in Calls /\ cachedCalls[i] \in Nat
                                        /\ i \in Nat \ {0}
    <2>1. ASSUME NEW q \in Seq(Calls), DOMAIN q = 1 .. Len(q), Len(q) \in Nat, NEW i \in DOMAIN q
          PROVE  q[i] \in Calls /\ q[i] \in Nat /\ i \in Nat \ {0}
        <3> HIDE DEF Inductive
        <3>1. i \in 1 .. Len(q) /\ q[i] \in Calls
            BY <2>1, ElementOfSeq
        <3>2. q[i] \in Nat
            BY <3>1 DEF Calls
        <3>3. i \in Nat \ {0}
            BY <3>1
        <3> QED BY <3>1, <3>2, <3>3
    <2> HIDE DEF Inductive
    <2> QED BY <2>1, <1>1
<1>3. \A i, j \in DOMAIN sent : sent[i] = sent[j] => i = j
    <2> SUFFICES ASSUME NEW i \in DOMAIN sent, NEW j \in DOMAIN sent, i # j
                 PROVE  sent[i] # sent[j]
        OBVIOUS
    <2>1. i < j \/ j < i
        BY <1>2
    <2> QED BY <2>1, <1>2 DEF Ordered
<1>4. \A i \in DOMAIN sent, j \in DOMAIN cachedCalls : sent[i] # cachedCalls[j]
    BY <1>2 DEF Ordered
<1>5. \A id \in DOMAIN activeCalls :
         /\ id \in Nat /\ id + 1 \in DOMAIN sent /\ activeCalls[id] = sent[id + 1]
         /\ activeCalls[id] \in Calls
    BY <1>1 DEF TypeOK, IDsArePositions
<1>6. \A r \in requests :
         r \in Requests /\ r.id \in Nat /\ r.id + 1 \in DOMAIN sent /\ r.call = sent[r.id + 1]
    BY <1>1 DEF TypeOK, IDsArePositions, Requests
<1> QED BY <1>2, <1>3, <1>4, <1>5, <1>6

\* A script makes the next call: it is sent, or cached behind the others.
LEMMA CallMethodInductive ==
    ASSUME Inductive, NEW c \in Calls, CallMethod(c)
    PROVE  Inductive'
<1> USE DEF Inductive
<1>1. /\ status[c] = "unmade" /\ status' = [status EXCEPT ![c] = "made"]
      /\ \A d \in Calls : status[d] = "unmade" => c <= d
      /\ UNCHANGED <<sockets, attempts, funcs, served>>
    BY DEF CallMethod
<1>2. /\ sent \in Seq(Calls) /\ cachedCalls \in Seq(Calls) /\ Calls \subseteq Nat
      /\ DOMAIN sent = 1 .. Len(sent) /\ DOMAIN cachedCalls = 1 .. Len(cachedCalls)
      /\ Len(sent) \in Nat /\ Len(cachedCalls) \in Nat /\ status \in [Calls -> Statuses]
    BY LenProperties DEF TypeOK, Calls
<1>3. /\ status' \in [Calls -> Statuses] /\ status'[c] = "made"
      /\ \A d \in Calls \ {c} : status'[d] = status[d]
    BY <1>1, <1>2 DEF Statuses
<1>4. MadeInOrder'
    BY <1>1, <1>2, <1>3 DEF MadeInOrder
<1>5. /\ \A i \in DOMAIN sent : sent[i] < c /\ sent[i] \in Calls \ {c}
      /\ \A i \in DOMAIN cachedCalls : cachedCalls[i] < c /\ cachedCalls[i] \in Calls \ {c}
    <2>1. ASSUME NEW d \in Calls, status[d] # "unmade" PROVE d < c /\ d \in Calls \ {c}
        BY <2>1, <1>1, <1>2 DEF MadeInOrder
    <2> QED BY <2>1, KnownCalls DEF StatusFits
<1>6. CASE IsOpen /\ SendAll(<<c>>) /\ UNCHANGED cachedCalls
    <2>1. <<c>> \in Seq(Calls) /\ Len(<<c>>) = 1 /\ <<c>>[1] = c
        OBVIOUS
    <2>2. cachedCalls = <<>>
        BY <1>6 DEF CachedOffline
    <2> DEFINE q == <<c>>
    <2> HIDE DEF q
    <2>3. /\ nextCallID' \in Nat
          /\ DOMAIN activeCalls' \subseteq Nat /\ activeCalls' \in [DOMAIN activeCalls' -> Calls]
          /\ requests' \subseteq Requests
          /\ sent' \in Seq(Calls)
          /\ IDsArePositions'
          /\ Len(sent') = Len(sent) + 1
          /\ \A i \in 1 .. Len(sent) : sent'[i] = sent[i]
          /\ sent'[Len(sent) + 1] = c
          /\ \A id \in DOMAIN activeCalls : activeCalls'[id] = activeCalls[id]
          /\ \A id \in DOMAIN activeCalls' : id \in DOMAIN activeCalls \/ id = Len(sent)
          /\ \A r \in requests' : r \in requests \/ r.id = Len(sent)
        <3>1. q \in Seq(Calls) /\ Len(q) = 1 /\ q[1] = c /\ SendAll(q)
            BY <2>1, <1>6 DEF q
        <3>2. Len(sent) .. Len(sent) + Len(q) - 1 = {Len(sent)} /\ 1 \in 1 .. Len(q)
            BY <3>1, <1>2
        <3> QED BY <3>1, <3>2, SendAllSends
    <2>4. DOMAIN sent' = 1 .. Len(sent) + 1
        BY <2>3, LenProperties
    <2>5. TypeOK'
        BY <1>1, <1>3, <1>6, <2>3 DEF TypeOK
    <2>6. Ordered'
        <3>1. \A i, j \in DOMAIN sent' : i < j => sent'[i] < sent'[j]
            <4> SUFFICES ASSUME NEW i \in 1 .. Len(sent) + 1, NEW j \in 1 .. Len(sent) + 1, i < j
                         PROVE  sent'[i] < sent'[j]
                BY <2>4
            <4>1. i \in 1 .. Len(sent) /\ sent'[i] = sent[i]
                BY <2>3, <1>2
            <4>2. CASE j = Len(sent) + 1
                BY <4>1, <4>2, <2>3, <1>2, <1>5
            <4>3. CASE j \in 1 .. Len(sent)
                BY <4>1, <4>3, <2>3, <1>2 DEF Ordered
            <4> QED BY <4>2, <4>3, <1>2
        <3> QED BY <3>1, <2>2, <1>6 DEF Ordered
    <2>7. StatusFits'
        <3>1. \A i \in DOMAIN sent' : status'[sent'[i]] # "unmade"
            <4> SUFFICES ASSUME NEW i \in 1 .. Len(sent) + 1 PROVE status'[sent'[i]] # "unmade"
                BY <2>4
            <4>1. CASE i = Len(sent) + 1
                BY <4>1, <2>3, <1>3
            <4>2. CASE i \in 1 .. Len(sent)
                BY <4>2, <2>3, <1>2, <1>3, <1>5 DEF StatusFits
            <4> QED BY <4>1, <4>2, <1>2
        <3>2. \A id \in DOMAIN activeCalls :
                 /\ id \in DOMAIN activeCalls /\ activeCalls'[id] = activeCalls[id]
                 /\ activeCalls[id] \in Calls \ {c} /\ id # Len(sent)
                 /\ status'[activeCalls'[id]] = status[activeCalls[id]]
            BY <2>3, <1>2, <1>3, <1>5, KnownCalls
        <3>3. Len(sent) \in DOMAIN activeCalls' => activeCalls'[Len(sent)] = c
            BY <2>3 DEF IDsArePositions
        <3>4. \A r \in requests' :
                 r.id \in DOMAIN activeCalls' => status'[activeCalls'[r.id]] = "made"
            <4> SUFFICES ASSUME NEW r \in requests', r.id \in DOMAIN activeCalls'
                         PROVE  status'[activeCalls'[r.id]] = "made"
                OBVIOUS
            <4>1. CASE r.id = Len(sent)
                BY <4>1, <3>3, <1>3
            <4>2. CASE r.id # Len(sent)
                BY <4>2, <2>3, <3>2 DEF StatusFits
            <4> QED BY <4>1, <4>2
        <3>5. \A id \in DOMAIN activeCalls' :
                 \/ status'[activeCalls'[id]] \in {"made", "error"}
                 \/ /\ activeCalls'[id] \in Throwing
                    /\ status'[activeCalls'[id]] \in {"result", "exception"}
            BY <2>3, <3>2, <3>3, <1>3 DEF StatusFits
        <3>6. DOMAIN cachedCalls' = {}
            BY <2>2, <1>6, <1>2, EmptySeq
        <3> QED BY <3>1, <3>4, <3>5, <3>6 DEF StatusFits
    <2>8. CachedOffline'
        BY <1>1, <1>6, <2>2 DEF CachedOffline
    <2> QED BY <1>4, <2>3, <2>5, <2>6, <2>7, <2>8
<1>7. CASE /\ ~IsOpen /\ cachedCalls' = Append(cachedCalls, c)
           /\ UNCHANGED <<nextCallID, activeCalls, requests, sent>>
    <2>1. /\ cachedCalls' \in Seq(Calls)
          /\ Len(cachedCalls') = Len(cachedCalls) + 1
          /\ DOMAIN cachedCalls' = 1 .. Len(cachedCalls) + 1
          /\ \A i \in 1 .. Len(cachedCalls) : cachedCalls'[i] = cachedCalls[i]
          /\ cachedCalls'[Len(cachedCalls) + 1] = c
        BY <1>2, <1>7, AppendCall, LenProperties
    <2>2. TypeOK'
        BY <1>1, <1>3, <1>7, <2>1 DEF TypeOK
    <2>3. Ordered'
        <3>1. \A i, j \in DOMAIN cachedCalls' : i < j => cachedCalls'[i] < cachedCalls'[j]
            BY <2>1, <1>2, <1>5 DEF Ordered
        <3>2. \A i \in DOMAIN sent, j \in DOMAIN cachedCalls' : sent[i] < cachedCalls'[j]
            BY <2>1, <1>2, <1>5 DEF Ordered
        <3> QED BY <3>1, <3>2, <1>7 DEF Ordered
    <2>4. IDsArePositions'
        BY <1>7 DEF IDsArePositions
    <2>5. StatusFits'
        <3>1. \A id \in DOMAIN activeCalls : status'[activeCalls[id]] = status[activeCalls[id]]
            BY <1>3, <1>5, KnownCalls
        <3>2. \A i \in DOMAIN cachedCalls' : status'[cachedCalls'[i]] = "made"
            BY <2>1, <1>2, <1>3, <1>5 DEF StatusFits
        <3>3. \A i \in DOMAIN sent : status'[sent[i]] # "unmade"
            BY <1>3, <1>5 DEF StatusFits
        <3> QED BY <3>1, <3>2, <3>3, <1>7 DEF StatusFits
    <2>6. CachedOffline'
        BY <1>1, <1>7 DEF CachedOffline, IsOpen, ws
    <2> QED BY <1>4, <2>2, <2>3, <2>4, <2>5, <2>6
<1> QED BY <1>6, <1>7 DEF CallMethod

\* A step that leaves the calls and their state alone keeps what is said of them.
LEMMA CallsUntouched ==
    ASSUME Inductive, TypeOK', CachedOffline',
           UNCHANGED <<nextCallID, activeCalls, cachedCalls, status, sent>>,
           requests' \subseteq requests
    PROVE  Inductive'
BY NothingSent DEF Inductive, MadeInOrder, Ordered, StatusFits

\* Registering a function changes none of the calls,
LEMMA RegisterFuncInductive ==
    ASSUME Inductive, NEW f \in Funcs, RegisterFunc(f)
    PROVE  Inductive'
<1>1. TypeOK'
    BY DEF Inductive, RegisterFunc, TypeOK
<1>2. CachedOffline'
    BY DEF Inductive, RegisterFunc, CachedOffline, IsOpen, ws
<1> QED BY <1>1, <1>2, CallsUntouched DEF RegisterFunc

\* and neither does a call of the server.
LEMMA HandleCallInductive ==
    ASSUME Inductive, NEW f \in Funcs, NEW s \in DOMAIN sockets, HandleCall(f, s)
    PROVE  Inductive'
<1>1. s \in Nat /\ ws \in Nat
    BY NewestSocket, LenProperties DEF Inductive, TypeOK
<1>2. TypeOK'
    BY <1>1 DEF Inductive, HandleCall, TypeOK
<1>3. CachedOffline'
    BY DEF Inductive, HandleCall, CachedOffline, IsOpen, ws
<1> QED BY <1>2, <1>3, CallsUntouched DEF HandleCall

\* A socket opens: the cached calls are sent, in their order, or dropped.
LEMMA HandleConnectInductive ==
    ASSUME Inductive, NEW s \in DOMAIN sockets, HandleConnect(s)
    PROVE  Inductive'
<1>1. /\ cachedCalls' = <<>> /\ UNCHANGED <<attempts, funcs, status, served>>
      /\ sockets' = [sockets EXCEPT ![s] = "open"]
    BY DEF HandleConnect
<1>2. sockets' \in Seq(SocketStates) /\ sockets' # <<>>
    <2>1. sockets \in Seq(SocketStates) /\ s \in 1 .. Len(sockets)
        BY LenProperties DEF Inductive, TypeOK, SocketStates
    <2>2. sockets' \in Seq(SocketStates) /\ Len(sockets') = Len(sockets) /\ Len(sockets) > 0
        BY <1>1, <2>1, ExceptSeq, LenProperties DEF SocketStates
    <2> QED BY <2>2, EmptySeq
<1>3. cachedCalls' \in Seq(Calls) /\ DOMAIN cachedCalls' = {}
    BY <1>1, EmptySeq
<1>4. CachedOffline' /\ MadeInOrder'
    BY <1>1 DEF Inductive, CachedOffline, MadeInOrder
<1>5. CASE UNCHANGED <<nextCallID, activeCalls, requests, sent>>
    <2>1. TypeOK'
        BY <1>1, <1>2, <1>3, <1>5 DEF Inductive, TypeOK, SocketStates
    <2>2. Ordered' /\ StatusFits'
        BY <1>1, <1>3, <1>5 DEF Inductive, Ordered, StatusFits
    <2>3. IDsArePositions'
        BY <1>5 DEF Inductive, IDsArePositions
    <2> QED BY <1>4, <2>1, <2>2, <2>3 DEF Inductive
<1>6. CASE SendAll(cachedCalls)
    <2> DEFINE q == cachedCalls
    <2>1. /\ sent \in Seq(Calls) /\ q \in Seq(Calls) /\ Calls \subseteq Nat
          /\ DOMAIN sent = 1 .. Len(sent) /\ DOMAIN q = 1 .. Len(q)
          /\ Len(sent) \in Nat /\ Len(q) \in Nat /\ TypeOK /\ IDsArePositions
        BY LenProperties DEF Inductive, TypeOK, Calls
    <2>2. /\ nextCallID' \in Nat
          /\ DOMAIN activeCalls' \subseteq Nat /\ activeCalls' \in [DOMAIN activeCalls' -> Calls]
          /\ requests' \subseteq Requests
          /\ sent' \in Seq(Calls)
          /\ IDsArePositions'
          /\ Len(sent') = Len(sent) + Len(q)
          /\ \A i \in 1 .. Len(sent) : sent'[i] = sent[i]
          /\ \A i \in 1 .. Len(q) : sent'[Len(sent) + i] = q[i]
          /\ \A id \in DOMAIN activeCalls : id \in DOMAIN activeCalls'
                                            /\ activeCalls'[id] = activeCalls[id]
          /\ \A id \in DOMAIN activeCalls' :
                id \in DOMAIN activeCalls \/ id \in Len(sent) .. Len(sent) + Len(q) - 1
          /\ \A r \in requests' :
                r \in requests \/ r.id \in Len(sent) .. Len(sent) + Len(q) - 1
        BY <1>6, <2>1, SendAllSends
    <2>3. DOMAIN sent' = 1 .. Len(sent) + Len(q)
        BY <2>2, LenProperties
    <2>4. TypeOK'
        BY <1>1, <1>2, <1>3, <2>2 DEF Inductive, TypeOK, SocketStates
    <2>5. \A i \in DOMAIN sent' :
             \/ i \in DOMAIN sent /\ sent'[i] = sent[i]
             \/ i - Len(sent) \in DOMAIN q /\ i > Len(sent) /\ sent'[i] = q[i - Len(sent)]
        <3> SUFFICES ASSUME NEW i \in DOMAIN sent', i \notin DOMAIN sent
                     PROVE  /\ i - Len(sent) \in DOMAIN q /\ i > Len(sent)
                            /\ sent'[i] = q[i - Len(sent)]
            BY <2>1, <2>2
        <3>1. i - Len(sent) \in 1 .. Len(q) /\ i > Len(sent) /\ i = Len(sent) + (i - Len(sent))
            BY <2>1, <2>3
        <3>2. sent'[Len(sent) + (i - Len(sent))] = q[i - Len(sent)]
            BY <2>2, <3>1
        <3> QED BY <2>1, <3>1, <3>2
    <2>6. Ordered'
        <3>1. \A i, j \in DOMAIN sent' : i < j => sent'[i] < sent'[j]
            <4> SUFFICES ASSUME NEW i \in DOMAIN sent', NEW j \in DOMAIN sent', i < j
                         PROVE  sent'[i] < sent'[j]
                OBVIOUS
            <4>1. CASE i \in DOMAIN sent /\ j \in DOMAIN sent
                BY <4>1, <2>1, <2>2 DEF Inductive, Ordered
            <4>2. CASE i \in DOMAIN sent /\ j \notin DOMAIN sent
                BY <4>2, <2>5 DEF Inductive, Ordered
            <4>3. CASE i \notin DOMAIN sent
                <5>1. j \notin DOMAIN sent /\ i - Len(sent) < j - Len(sent)
                    BY <4>3, <2>1, <2>3
                <5> QED BY <4>3, <5>1, <2>5 DEF Inductive, Ordered
            <4> QED BY <4>1, <4>2, <4>3
        <3> QED BY <3>1, <1>3 DEF Ordered
    <2>7. StatusFits'
        <3>1. \A i \in DOMAIN sent' : status[sent'[i]] # "unmade"
            BY <2>5 DEF Inductive, StatusFits
        <3>2. ASSUME NEW id \in DOMAIN activeCalls', id \notin DOMAIN activeCalls
              PROVE  status[activeCalls'[id]] = "made"
            <4>1. id \in Len(sent) .. Len(sent) + Len(q) - 1
                BY <2>2, <3>2
            <4>2. id + 1 \in DOMAIN sent' /\ id + 1 \notin DOMAIN sent
                BY <4>1, <2>1, <2>3
            <4>3. activeCalls'[id] = sent'[id + 1]
                BY <2>2 DEF IDsArePositions
            <4> QED BY <4>2, <4>3, <2>5 DEF Inductive, StatusFits
        <3>3. \A r \in requests' :
                 r.id \in DOMAIN activeCalls' => status[activeCalls'[r.id]] = "made"
            <4> SUFFICES ASSUME NEW r \in requests', r.id \in DOMAIN activeCalls',
                                r.id \in DOMAIN activeCalls
                         PROVE  status[activeCalls'[r.id]] = "made"
                BY <3>2
            <4>1. r.id \notin Len(sent) .. Len(sent) + Len(q) - 1
                BY <2>1 DEF IDsArePositions
            <4> QED BY <4>1, <2>2 DEF Inductive, StatusFits
        <3>4. \A id \in DOMAIN activeCalls' :
                 \/ status[activeCalls'[id]] \in {"made", "error"}
                 \/ /\ activeCalls'[id] \in Throwing
                    /\ status[activeCalls'[id]] \in {"result", "exception"}
            BY <3>2, <2>2 DEF Inductive, StatusFits
        <3> QED BY <3>1, <3>3, <3>4, <1>1, <1>3 DEF StatusFits
    <2> QED BY <1>4, <2>2, <2>4, <2>6, <2>7 DEF Inductive
<1> QED BY <1>5, <1>6 DEF HandleConnect

\* A disconnection opens the sockets of its reconnections, which are not open yet.
LEMMA DisconnectSockets ==
    ASSUME TypeOK, NEW s \in DOMAIN sockets, NEW n \in Nat, HandleDisconnect(s, n)
    PROVE  /\ sockets' \in Seq(SocketStates) /\ sockets' # <<>>
           /\ IsOpen' => IsOpen
<1> DEFINE m == ws + Reconnects(n)
           new(i) == IF i > ws THEN "connecting" ELSE IF i = s THEN "closed" ELSE sockets[i]
<1>1. /\ sockets \in Seq(SocketStates) /\ ws \in Nat \ {0} /\ s \in 1 .. ws /\ m \in Nat \ {0}
      /\ m >= ws
    <2>1. sockets \in Seq(SocketStates)
        BY DEF TypeOK, SocketStates
    <2>2. ws \in Nat \ {0} /\ DOMAIN sockets = 1 .. ws
        BY <2>1, NewestSocket, LenProperties DEF ws
    <2>3. Reconnects(n) \in Nat
        BY ReconnectsType
    <2>4. m \in Nat \ {0} /\ m >= ws
        BY <2>2, <2>3
    <2> QED BY <2>1, <2>2, <2>4
<1>2. sockets' = [i \in 1 .. m |-> new(i)]
    BY DEF HandleDisconnect
<1>3. \A i \in 1 .. m : new(i) \in SocketStates
    <2>1. \A i \in 1 .. m : i <= ws => sockets[i] \in SocketStates
        BY <1>1, ElementOfSeq DEF ws
    <2> QED BY <2>1, <1>1 DEF SocketStates
<1>4. sockets' \in [1 .. m -> SocketStates]
    BY <1>2, <1>3
<1> HIDE DEF m
<1>5. sockets' \in Seq(SocketStates)
    BY <1>1, <1>4, SeqDef
<1>6. Len(sockets') = m
    <2>1. 1 .. Len(sockets') = 1 .. m /\ Len(sockets') \in Nat
        BY <1>4, <1>5, LenProperties
    <2> QED BY <2>1, <1>1
<1>7. IsOpen' => IsOpen
    <2>1. IsOpen' => new(m) = "open"
        BY <1>1, <1>2, <1>6 DEF IsOpen, ws
    <2>2. new(m) = "open" => m = ws /\ sockets[ws] = "open"
        BY <1>1
    <2> QED BY <2>1, <2>2 DEF IsOpen
<1> QED BY <1>1, <1>5, <1>6, <1>7, EmptySeq

\* A socket closes or breaks: every call of which the script could still hear fails when
\* the reconnection is given up, and otherwise all calls keep their place.
LEMMA HandleDisconnectInductive ==
    ASSUME Inductive, NEW s \in DOMAIN sockets, NEW n \in Nat, HandleDisconnect(s, n)
    PROVE  Inductive'
<1>1. /\ attempts' = attempts + n /\ UNCHANGED <<nextCallID, funcs, sent, served>>
      /\ requests' \subseteq requests
    BY DEF HandleDisconnect
<1>2. /\ sockets' \in Seq(SocketStates) /\ sockets' # <<>> /\ (IsOpen' => IsOpen)
      /\ attempts' \in Nat
    BY <1>1, DisconnectSockets DEF Inductive, TypeOK
<1>3. CASE UNCHANGED <<status, activeCalls, cachedCalls>>
    <2>1. TypeOK'
        BY <1>1, <1>2, <1>3 DEF Inductive, TypeOK, SocketStates
    <2>2. CachedOffline'
        BY <1>2, <1>3 DEF Inductive, CachedOffline
    <2> QED BY <1>1, <1>3, <2>1, <2>2, CallsUntouched
<1>4. CASE /\ status' = [c \in Calls |-> IF c \in Tracked THEN "error" ELSE status[c]]
           /\ activeCalls' = <<>>
           /\ cachedCalls' = <<>>
    <2>1. /\ DOMAIN activeCalls' = {} /\ activeCalls' \in [{} -> Calls]
          /\ cachedCalls' \in Seq(Calls) /\ DOMAIN cachedCalls' = {}
        BY <1>4, EmptySeq
    <2>2. status \in [Calls -> Statuses] /\ status' \in [Calls -> Statuses]
        BY <1>4 DEF Inductive, TypeOK, Statuses
    <2>3. TypeOK'
        BY <1>1, <1>2, <2>1, <2>2 DEF Inductive, TypeOK, SocketStates
    <2>4. \A c \in Tracked : c \in Calls /\ status[c] # "unmade"
        <3>1. \A id \in DOMAIN activeCalls : status[activeCalls[id]] # "unmade"
            BY KnownCalls DEF Inductive, StatusFits
        <3>2. \A i \in DOMAIN cachedCalls : status[cachedCalls[i]] # "unmade"
            BY DEF Inductive, StatusFits
        <3> QED BY <3>1, <3>2, KnownCalls DEF Tracked, CallsIn
    <2>5. \A c \in Calls : status'[c] = "unmade" <=> status[c] = "unmade"
        BY <1>4, <2>2, <2>4
    <2>6. MadeInOrder'
        BY <2>5 DEF Inductive, MadeInOrder
    <2>7. Ordered'
        BY <1>1, <2>1 DEF Inductive, Ordered
    <2>8. IDsArePositions'
        BY <1>1, <2>1, NothingSent DEF Inductive
    <2>9. StatusFits'
        <3>1. \A i \in DOMAIN sent : status'[sent[i]] # "unmade"
            BY <2>5, KnownCalls DEF Inductive, StatusFits
        <3> QED BY <3>1, <1>1, <2>1 DEF StatusFits
    <2>10. CachedOffline'
        BY <1>4 DEF CachedOffline
    <2> QED BY <2>3, <2>6, <2>7, <2>8, <2>9, <2>10 DEF Inductive
<1> QED BY <1>3, <1>4 DEF HandleDisconnect

\* The request answered is gone. Nobody else waits for the call that was active under its ID.
LEMMA AnsweredAlone ==
    ASSUME Inductive, NEW r \in requests, r.id \in DOMAIN activeCalls
    PROVE  /\ activeCalls[r.id] \in Calls /\ activeCalls[r.id] = r.call
           /\ status[activeCalls[r.id]] = "made"
           /\ \A id \in DOMAIN activeCalls \ {r.id} : activeCalls[id] # activeCalls[r.id]
           /\ \A q \in requests \ {r} : q.id # r.id
           /\ \A i \in DOMAIN cachedCalls : cachedCalls[i] # activeCalls[r.id]
<1>1. /\ r.id \in Nat /\ r.id + 1 \in DOMAIN sent /\ activeCalls[r.id] = sent[r.id + 1]
      /\ activeCalls[r.id] \in Calls /\ r.call = sent[r.id + 1]
    BY KnownCalls
<1>2. ASSUME NEW id \in DOMAIN activeCalls, id # r.id PROVE activeCalls[id] # activeCalls[r.id]
    <2>1. id \in Nat /\ id + 1 \in DOMAIN sent /\ activeCalls[id] = sent[id + 1]
        BY KnownCalls
    <2>2. id + 1 # r.id + 1
        BY <1>1, <1>2, <2>1
    <2> QED BY <1>1, <2>1, <2>2, KnownCalls
<1>3. \A i \in DOMAIN cachedCalls : cachedCalls[i] # activeCalls[r.id]
    BY <1>1, KnownCalls
<1> QED BY <1>1, <1>2, <1>3 DEF Inductive, StatusFits, IDsArePositions

\* An answer or a refusal settles one call; its entry stays or goes.
LEMMA SettledInductive ==
    ASSUME Inductive, NEW r \in requests, r.id \in DOMAIN activeCalls,
           NEW a \in {"result", "exception", "error"},
           status' = [status EXCEPT ![activeCalls[r.id]] = a],
           requests' = requests \ {r},
           \/ activeCalls' = activeCalls /\ (a = "error" \/ activeCalls[r.id] \in Throwing)
           \/ activeCalls' = Restrict(activeCalls, DOMAIN activeCalls \ {r.id}),
           UNCHANGED <<sockets, attempts, nextCallID, cachedCalls, funcs, sent, served>>
    PROVE  Inductive'
<1> DEFINE c == activeCalls[r.id]
<1>1. /\ c \in Calls /\ status[c] = "made" /\ status \in [Calls -> Statuses]
      /\ status' \in [Calls -> Statuses] /\ status'[c] = a
      /\ \A d \in Calls \ {c} : status'[d] = status[d]
    BY AnsweredAlone DEF Inductive, TypeOK, Statuses
<1>2. /\ DOMAIN activeCalls' \subseteq DOMAIN activeCalls
      /\ \A id \in DOMAIN activeCalls' : activeCalls'[id] = activeCalls[id]
      /\ r.id \in DOMAIN activeCalls' => a = "error" \/ c \in Throwing
      /\ DOMAIN activeCalls' \subseteq Nat
      /\ activeCalls' \in [DOMAIN activeCalls' -> Calls]
    BY DEF Restrict, Inductive, TypeOK
<1>3. TypeOK'
    BY <1>1, <1>2 DEF Inductive, TypeOK
<1>4. \A d \in Calls : status'[d] = "unmade" <=> status[d] = "unmade"
    BY <1>1
<1>5. MadeInOrder'
    BY <1>4 DEF Inductive, MadeInOrder
<1>6. Ordered' /\ CachedOffline'
    BY DEF Inductive, Ordered, CachedOffline, IsOpen, ws
<1>7. IDsArePositions'
    BY <1>2, NothingSent DEF Inductive
<1>8. StatusFits'
    <2>1. \A i \in DOMAIN sent : status'[sent[i]] # "unmade"
        BY <1>4, KnownCalls DEF Inductive, StatusFits
    <2>2. \A i \in DOMAIN cachedCalls : status'[cachedCalls[i]] = "made"
        BY <1>1, AnsweredAlone, KnownCalls DEF Inductive, StatusFits
    <2>3. \A id \in DOMAIN activeCalls \ {r.id} :
             status'[activeCalls[id]] = status[activeCalls[id]]
        BY <1>1, AnsweredAlone, KnownCalls
    <2>4. \A q \in requests \ {r} :
             q.id \in DOMAIN activeCalls' => status'[activeCalls'[q.id]] = "made"
        BY <1>2, <2>3, AnsweredAlone DEF Inductive, StatusFits
    <2>5. \A id \in DOMAIN activeCalls' :
             \/ status'[activeCalls'[id]] \in {"made", "error"}
             \/ /\ activeCalls'[id] \in Throwing
                /\ status'[activeCalls'[id]] \in {"result", "exception"}
        BY <1>1, <1>2, <2>3 DEF Inductive, StatusFits
    <2> QED BY <2>1, <2>2, <2>4, <2>5 DEF StatusFits
<1> QED BY <1>3, <1>5, <1>6, <1>7, <1>8 DEF Inductive

\* A request that nobody waits for any more is dropped.
LEMMA DroppedInductive ==
    ASSUME Inductive, NEW r \in requests, requests' = requests \ {r},
           UNCHANGED <<sockets, attempts, nextCallID, activeCalls, cachedCalls, funcs, status,
                       sent, served>>
    PROVE  Inductive'
<1>1. TypeOK' /\ CachedOffline'
    BY DEF Inductive, TypeOK, CachedOffline, IsOpen, ws
<1> QED BY <1>1, CallsUntouched

\* An answer arrives.
LEMMA HandleCallReplyInductive ==
    ASSUME Inductive, NEW r \in requests, HandleCallReply(r)
    PROVE  Inductive'
<1>1. CASE r.id \in DOMAIN activeCalls
    <2>1. PICK a \in {"result", "exception"} : status' = [status EXCEPT ![activeCalls[r.id]] = a]
        BY <1>1 DEF HandleCallReply
    <2> QED BY <1>1, <2>1, SettledInductive DEF HandleCallReply
<1>2. CASE r.id \notin DOMAIN activeCalls
    BY <1>2, DroppedInductive DEF HandleCallReply
<1> QED BY <1>1, <1>2

\* A refusal arrives.
LEMMA HandleCallErrorInductive ==
    ASSUME Inductive, NEW r \in requests, HandleCallError(r)
    PROVE  Inductive'
<1>1. CASE r.id \in DOMAIN activeCalls
    BY <1>1, SettledInductive DEF HandleCallError
<1>2. CASE r.id \notin DOMAIN activeCalls
    BY <1>2, DroppedInductive DEF HandleCallError
<1> QED BY <1>1, <1>2

\* Every step keeps the invariant.
LEMMA NextInductive == Inductive /\ [Next]_vars => Inductive'
<1> SUFFICES ASSUME Inductive, [Next]_vars PROVE Inductive'
    OBVIOUS
<1>1. CASE UNCHANGED vars
    <2>1. TypeOK' /\ CachedOffline'
        BY <1>1 DEF vars, Inductive, TypeOK, CachedOffline, IsOpen, ws
    <2> QED BY <1>1, <2>1, CallsUntouched DEF vars
<1>2. CASE \E c \in Calls : CallMethod(c)
    BY <1>2, CallMethodInductive
<1>3. CASE \E f \in Funcs : RegisterFunc(f)
    BY <1>3, RegisterFuncInductive
<1>4. ASSUME NEW s \in DOMAIN sockets, SocketCloses(s) \/ SocketBreaks(s) PROVE Inductive'
    BY <1>4, HandleDisconnectInductive DEF SocketCloses, SocketBreaks
<1>5. CASE \E r \in requests : HandleCallReply(r) \/ HandleCallError(r)
    BY <1>5, HandleCallReplyInductive, HandleCallErrorInductive
<1> QED BY <1>1, <1>2, <1>3, <1>4, <1>5, HandleConnectInductive, HandleCallInductive DEF Next

(***************************************************************************)
(* Theorems.                                                               *)
(***************************************************************************)

\* The calls keep their order, their IDs and their outcomes through every sequence of
\* calls, connections, disconnections and answers.
THEOREM InductiveInvariant == Spec => []Inductive
BY InitInductive, NextInductive, PTL DEF Spec

\* The state stays well formed.
THEOREM TypeCorrect == Spec => []TypeOK
<1>1. Inductive => TypeOK
    BY DEF Inductive
<1> QED BY <1>1, InductiveInvariant, PTL

\* No call is sent twice, and calls are sent in the order in which they are made,
\* however often the connection is lost and whatever was cached in between.
THEOREM SentInOrder == Spec => []SentOnceInOrder
<1>1. Inductive => SentOnceInOrder
    <2> SUFFICES ASSUME Inductive PROVE SentOnceInOrder
        OBVIOUS
    <2> DEFINE all == sent \o cachedCalls
    <2>1. /\ sent \in Seq(Calls) /\ cachedCalls \in Seq(Calls) /\ all \in Seq(Calls)
          /\ Len(sent) \in Nat /\ Len(cachedCalls) \in Nat
          /\ DOMAIN sent = 1 .. Len(sent) /\ DOMAIN cachedCalls = 1 .. Len(cachedCalls)
          /\ DOMAIN all = 1 .. Len(sent) + Len(cachedCalls)
        BY ConcatProperties, LenProperties DEF Inductive, TypeOK
    <2>2. \A i \in DOMAIN all :
             \/ i \in DOMAIN sent /\ all[i] = sent[i]
             \/ /\ i - Len(sent) \in DOMAIN cachedCalls /\ i > Len(sent)
                /\ all[i] = cachedCalls[i - Len(sent)]
        <3>1. \A i \in 1 .. Len(sent) + Len(cachedCalls) :
                 all[i] = IF i <= Len(sent) THEN sent[i] ELSE cachedCalls[i - Len(sent)]
            BY <2>1, ConcatProperties
        <3> HIDE DEF all
        <3> QED BY <2>1, <3>1
    <2> HIDE DEF all
    <2>3. \A i, j \in DOMAIN all : i < j => all[i] < all[j]
        <3> SUFFICES ASSUME NEW i \in DOMAIN all, NEW j \in DOMAIN all, i < j
                     PROVE  all[i] < all[j]
            OBVIOUS
        <3>1. CASE i \in DOMAIN sent /\ all[i] = sent[i]
            BY <3>1, <2>2 DEF Inductive, Ordered
        <3>2. CASE /\ i - Len(sent) \in DOMAIN cachedCalls /\ i > Len(sent)
                   /\ all[i] = cachedCalls[i - Len(sent)]
            <4>1. /\ j - Len(sent) \in DOMAIN cachedCalls
                  /\ all[j] = cachedCalls[j - Len(sent)]
                  /\ i - Len(sent) < j - Len(sent)
                BY <3>2, <2>1, <2>2
            <4> QED BY <3>2, <4>1 DEF Inductive, Ordered
        <3> QED BY <3>1, <3>2, <2>2
    <2>4. \A i \in DOMAIN all : status[all[i]] # "unmade"
        BY <2>2 DEF Inductive, StatusFits
    <2> QED BY <2>3, <2>4 DEF SentOnceInOrder, all
<1> QED BY <1>1, InductiveInvariant, PTL

\* A script is handed the answers to its own calls only, although several sockets may
\* deliver answers at the same time and IDs are the only link between the two.
THEOREM AnswersBelongToCalls == Spec => AnswersBelong
<1> DEFINE Belongs == \A c \in Calls :
                         status'[c] \in {"result", "exception"} /\ status[c] # status'[c]
                         => \E r \in requests \ requests' :
                               r.call = c /\ sockets[r.socket] = "open"
<1>1. Inductive /\ [Next]_vars => Belongs \/ UNCHANGED vars
    <2> SUFFICES ASSUME Inductive, Next, NEW c \in Calls,
                        status'[c] \in {"result", "exception"}, status[c] # status'[c]
                 PROVE  \E r \in requests \ requests' :
                           r.call = c /\ sockets[r.socket] = "open"
        OBVIOUS
    <2>1. status \in [Calls -> Statuses]
        BY DEF Inductive, TypeOK
    <2>2. ASSUME NEW r \in requests, HandleCallReply(r)
          PROVE  \E q \in requests \ requests' : q.call = c /\ sockets[q.socket] = "open"
        <3>1. r.id \in DOMAIN activeCalls /\ activeCalls[r.id] = c
            BY <2>1, <2>2 DEF HandleCallReply
        <3>2. r.call = c
            BY <3>1, AnsweredAlone
        <3> QED BY <2>2, <3>2 DEF HandleCallReply
    <2>3. ASSUME NEW r \in requests, HandleCallError(r) PROVE FALSE
        BY <2>1, <2>3 DEF HandleCallError
    <2>4. ASSUME NEW d \in Calls, CallMethod(d) PROVE FALSE
        BY <2>1, <2>4 DEF CallMethod
    <2>5. ASSUME NEW s, NEW n, HandleDisconnect(s, n) PROVE FALSE
        BY <2>1, <2>5 DEF HandleDisconnect
    <2> QED BY <2>2, <2>3, <2>4, <2>5
            DEF Next, RegisterFunc, HandleConnect, SocketCloses, SocketBreaks, HandleCall
<1> QED BY <1>1, InductiveInvariant, PTL DEF Spec, AnswersBelong

\* The protocol implements the abstract calls: a call is answered at most once and only
\* while the script waits for it, it never fails after an answer unless the listener
\* threw, and calls are made in order.
THEOREM PromiseKept == Spec => KeepsPromise
<1> USE DEF Abstract!Calls, Calls
<1>1. Init => Abstract!Init
    BY DEF Init, Abstract!Init
<1>2. Inductive /\ [Next]_vars => [Abstract!Next]_status
    <2> SUFFICES ASSUME Inductive, [Next]_vars PROVE Abstract!Next \/ UNCHANGED status
        OBVIOUS
    <2>1. ASSUME NEW c \in Calls, CallMethod(c) PROVE Abstract!Next
        BY <2>1 DEF CallMethod, Abstract!Next, Abstract!Make
    <2>2. ASSUME NEW r \in requests, HandleCallReply(r) PROVE Abstract!Next \/ UNCHANGED status
        <3>1. CASE r.id \in DOMAIN activeCalls
            <4>1. activeCalls[r.id] \in Calls /\ status[activeCalls[r.id]] = "made"
                BY <3>1, AnsweredAlone
            <4>2. Abstract!Answer(activeCalls[r.id])
                BY <2>2, <3>1, <4>1 DEF HandleCallReply, Abstract!Answer, Abstract!Answers
            <4> QED BY <4>1, <4>2 DEF Abstract!Next
        <3> QED BY <2>2, <3>1 DEF HandleCallReply
    <2>3. ASSUME NEW r \in requests, HandleCallError(r) PROVE Abstract!Next \/ UNCHANGED status
        <3>1. CASE r.id \in DOMAIN activeCalls
            <4> DEFINE c == activeCalls[r.id]
            <4>1. c \in Calls /\ status[c] = "made" /\ status \in [Calls -> Statuses]
                BY <3>1, AnsweredAlone DEF Inductive, TypeOK
            <4>2. status' = [status EXCEPT ![c] = "error"]
                BY <2>3, <3>1 DEF HandleCallError
            <4>3. Abstract!Fail({c})
                BY <4>1, <4>2 DEF Abstract!Fail, Abstract!MayFail
            <4> QED BY <4>1, <4>3 DEF Abstract!Next
        <3> QED BY <2>3, <3>1 DEF HandleCallError
    <2>4. ASSUME NEW s \in DOMAIN sockets, NEW n \in Nat, HandleDisconnect(s, n)
          PROVE  Abstract!Next \/ UNCHANGED status
        <3>1. CASE status' = [c \in Calls |-> IF c \in Tracked THEN "error" ELSE status[c]]
            <4>1. \A c \in Tracked : c \in Calls /\ Abstract!MayFail(c)
                <5>1. \A id \in DOMAIN activeCalls : Abstract!MayFail(activeCalls[id])
                    BY DEF Inductive, StatusFits, Abstract!MayFail, Abstract!Answers
                <5>2. \A i \in DOMAIN cachedCalls : Abstract!MayFail(cachedCalls[i])
                    BY DEF Inductive, StatusFits, Abstract!MayFail
                <5> QED BY <5>1, <5>2, KnownCalls DEF Tracked, CallsIn
            <4>2. Tracked \in SUBSET Calls /\ Abstract!Fail(Tracked)
                BY <3>1, <4>1 DEF Abstract!Fail
            <4> QED BY <4>2 DEF Abstract!Next
        <3> QED BY <2>4, <3>1 DEF HandleDisconnect
    <2>5. CASE UNCHANGED vars
        BY <2>5 DEF vars
    <2> QED BY <2>1, <2>2, <2>3, <2>4, <2>5
            DEF Next, RegisterFunc, HandleConnect, SocketCloses, SocketBreaks, HandleCall
<1> QED BY <1>1, <1>2, InductiveInvariant, PTL DEF Spec, KeepsPromise, Abstract!Spec

(***************************************************************************)
(* Sockets that are closed cleanly.                                        *)
(***************************************************************************)

\* The closed sockets can be counted.
LEMMA ClosedCounted ==
    ASSUME TypeOK
    PROVE  /\ sockets \in Seq(SocketStates) /\ DOMAIN sockets = 1 .. ws /\ ws \in Nat \ {0}
           /\ IsFiniteSet(ClosedSockets) /\ Cardinality(ClosedSockets) \in Nat
           /\ NoneBroke <=> attempts = Cardinality(ClosedSockets)
<1>1. sockets \in Seq(SocketStates) /\ DOMAIN sockets = 1 .. ws /\ ws \in Nat \ {0}
    BY NewestSocket, LenProperties DEF TypeOK, SocketStates, ws
<1>2. IsFiniteSet(1 .. ws)
    BY <1>1, FS_Interval
<1>3. ClosedSockets \subseteq 1 .. ws
    BY <1>1 DEF ClosedSockets
<1>4. IsFiniteSet(ClosedSockets)
    BY <1>2, <1>3, FS_Subset
<1> QED BY <1>1, <1>4, FS_CardinalityType DEF NoneBroke, ClosedSockets

\* The sockets after a disconnection.
LEMMA DisconnectShape ==
    ASSUME TypeOK, NEW s \in DOMAIN sockets, NEW n \in Nat, HandleDisconnect(s, n)
    PROVE  /\ ws' = ws + Reconnects(n) /\ ws + Reconnects(n) \in Nat \ {0} /\ ws <= ws + Reconnects(n)
           /\ DOMAIN sockets' = 1 .. ws + Reconnects(n)
           /\ \A i \in 1 .. ws + Reconnects(n) :
                  sockets'[i] = IF i > ws THEN "connecting" ELSE IF i = s THEN "closed" ELSE sockets[i]
<1>1. PICK m : m = ws + Reconnects(n)
    OBVIOUS
<1>2. ws \in Nat \ {0} /\ m \in Nat \ {0} /\ ws <= m
    <2>1. Reconnects(n) \in 0 .. n /\ ws \in Nat \ {0}
        BY ReconnectsType, NewestSocket
    <2> QED BY <1>1, <2>1
<1>3. sockets' = [i \in 1 .. m |-> IF i > ws THEN "connecting" ELSE IF i = s THEN "closed" ELSE sockets[i]]
    BY <1>1 DEF HandleDisconnect
<1>4. DOMAIN sockets' = 1 .. m
    BY <1>3
<1>5. ws' = m
    <2>1. PICK t : t = sockets'
        OBVIOUS
    <2>2. t \in Seq(SocketStates) /\ DOMAIN t = 1 .. m
        BY <1>4, <2>1, DisconnectSockets
    <2>3. Len(t) \in Nat /\ 1 .. Len(t) = 1 .. m
        BY <2>2, LenProperties
    <2>4. Len(t) = m
        BY <1>2, <2>3
    <2> QED BY <2>1, <2>4 DEF ws
<1> QED BY <1>1, <1>2, <1>3, <1>4, <1>5

\* Events of a socket are counted, and lead to as many new sockets as the limit allows. While all
\* connections have been closed cleanly, it is the newest that is.
LEMMA DisconnectFits ==
    ASSUME TypeOK, SocketsFit, NEW s \in DOMAIN sockets, sockets[s] # "closed", NEW n \in {1, 2},
           HandleDisconnect(s, n), TypeOK'
    PROVE  SocketsFit' /\ (NoneBroke' => NoneBroke)
<1>1. PICK w, k, a, x, m : /\ w = ws /\ k = Cardinality(ClosedSockets) /\ a = attempts
                           /\ x = MaxReconnectAttempts /\ m = ws + Reconnects(n)
    OBVIOUS
<1>2. n \in Nat /\ n >= 1
    OBVIOUS
<1>3. /\ w \in Nat \ {0} /\ DOMAIN sockets = 1 .. w /\ IsFiniteSet(ClosedSockets) /\ k \in Nat /\ a \in Nat /\ x \in Nat
      /\ (NoneBroke <=> a = k) /\ k <= a
    BY <1>1, ClosedCounted, AttemptsAssumption DEF TypeOK, SocketsFit
<1>4. /\ ws' = m /\ m \in Nat \ {0} /\ w <= m /\ DOMAIN sockets' = 1 .. m /\ attempts' = a + n
      /\ \A i \in 1 .. m : sockets'[i] = IF i > w THEN "connecting" ELSE IF i = s THEN "closed" ELSE sockets[i]
    <2>1. attempts' = a + n
        BY <1>1 DEF HandleDisconnect
    <2> QED BY <1>1, <1>2, <2>1, DisconnectShape
<1>5. w = IF a <= x THEN a + 1 ELSE x + 1
    BY <1>1 DEF SocketsFit
<1>6. m = IF a + n <= x THEN w + n ELSE IF a < x THEN w + (x - a) ELSE w + 0
    BY <1>1 DEF Reconnects
<1>7. m = IF a + n <= x THEN (a + n) + 1 ELSE x + 1
    BY <1>2, <1>3, <1>5, <1>6
<1>8. s \in 1 .. w /\ 1 .. w \subseteq 1 .. m
    BY <1>3, <1>4
<1>9. ClosedSockets' = ClosedSockets \cup {s}
    <2>1. \A i \in 1 .. m : sockets'[i] = "closed" <=> (i \in 1 .. w /\ (i = s \/ sockets[i] = "closed"))
        BY <1>3, <1>4
    <2>2. ClosedSockets' = {i \in 1 .. m : sockets'[i] = "closed"}
        BY <1>4 DEF ClosedSockets
    <2>3. ClosedSockets = {i \in 1 .. w : sockets[i] = "closed"}
        BY <1>3 DEF ClosedSockets
    <2> QED BY <1>8, <2>1, <2>2, <2>3
<1>10. s \notin ClosedSockets
    BY DEF ClosedSockets
<1>11. Cardinality(ClosedSockets)' = k + 1
    BY <1>1, <1>3, <1>9, <1>10, FS_AddElement
<1>12. NoneBroke' <=> a + n = k + 1
    <2>1. NoneBroke' <=> attempts' = Cardinality(ClosedSockets)'
        BY DEF NoneBroke, ClosedSockets
    <2> QED BY <1>4, <1>11, <2>1
<1>13. NoneBroke' => NoneBroke /\ n = 1 /\ a = k
    BY <1>2, <1>3, <1>12
<1>14. k + 1 <= a + n
    BY <1>2, <1>3
<1>15. ASSUME NoneBroke'
       PROVE  /\ \A i \in 1 .. m : i # m => sockets'[i] = "closed"
              /\ sockets'[m] = "closed" <=> a + n > x
    <2>1. NoneBroke /\ n = 1
        BY <1>13, <1>15
    <2>2. /\ \A i \in 1 .. w : i # w => sockets[i] = "closed"
          /\ sockets[w] = "closed" <=> a > x
        BY <1>1, <1>3, <2>1 DEF SocketsFit
    <2>3. s = w /\ a <= x
        BY <1>3, <1>8, <2>2
    <2>4. CASE a + 1 <= x
        <3>1. m = w + 1
            BY <1>5, <1>7, <2>1, <2>3, <2>4
        <3>2. ~(a + n > x) /\ m > w /\ m \in 1 .. m
            BY <1>3, <2>1, <2>4, <3>1
        <3>3. \A i \in 1 .. m : i # m => i \in 1 .. w
            BY <1>3, <3>1
        <3> QED BY <1>3, <1>4, <2>2, <2>3, <3>2, <3>3
    <2>5. CASE ~(a + 1 <= x)
        <3>1. m = w /\ a + n > x /\ m \in 1 .. m
            BY <1>3, <1>5, <1>7, <2>1, <2>3, <2>5
        <3> QED BY <1>3, <1>4, <2>2, <2>3, <3>1
    <2> QED BY <2>4, <2>5
<1> QED BY <1>1, <1>4, <1>7, <1>11, <1>13, <1>14, <1>15 DEF SocketsFit

\* Nothing of this changes when a socket opens, or nothing happens to the sockets.
LEMMA SocketsStay ==
    ASSUME TypeOK, SocketsFit, TypeOK', UNCHANGED attempts,
           \/ UNCHANGED sockets
           \/ \E s \in DOMAIN sockets : sockets[s] = "connecting" /\ sockets' = [sockets EXCEPT ![s] = "open"]
    PROVE  SocketsFit' /\ (NoneBroke' <=> NoneBroke)
<1>1. /\ sockets \in Seq(SocketStates) /\ DOMAIN sockets = 1 .. ws /\ ws \in Nat \ {0}
      /\ (NoneBroke <=> attempts = Cardinality(ClosedSockets))
    BY ClosedCounted
<1>2. PICK t : t = sockets'
    OBVIOUS
<1>3. DOMAIN t = DOMAIN sockets /\ \A i \in DOMAIN sockets : t[i] = "closed" <=> sockets[i] = "closed"
    BY <1>1, <1>2
<1>4. ws' = ws
    <2>1. t \in Seq(SocketStates) /\ DOMAIN t = 1 .. Len(t) /\ Len(t) \in Nat
        <3>1. t \in Seq(SocketStates)
            BY <1>2 DEF TypeOK, SocketStates
        <3> QED BY <3>1, LenProperties
    <2>2. 1 .. Len(t) = 1 .. ws
        BY <1>1, <1>3, <2>1
    <2>3. Len(t) = ws
        BY <1>1, <2>1, <2>2
    <2> QED BY <1>2, <2>3 DEF ws
<1>5. ClosedSockets' = ClosedSockets
    BY <1>2, <1>3 DEF ClosedSockets
<1>6. NoneBroke' <=> NoneBroke
    <2>1. NoneBroke' <=> attempts' = Cardinality(ClosedSockets)'
        BY DEF NoneBroke, ClosedSockets
    <2> QED BY <1>1, <1>5, <2>1
<1>7. ws \in DOMAIN sockets
    BY <1>1
<1>8. NoneBroke => /\ \A s \in DOMAIN sockets : s # ws => sockets[s] = "closed"
                   /\ sockets[ws] = "closed" <=> attempts > MaxReconnectAttempts
    BY DEF SocketsFit
<1>9. /\ ws = IF attempts <= MaxReconnectAttempts THEN attempts + 1 ELSE MaxReconnectAttempts + 1
      /\ Cardinality(ClosedSockets) <= attempts
    BY DEF SocketsFit
<1> QED BY <1>2, <1>3, <1>4, <1>5, <1>6, <1>7, <1>8, <1>9 DEF SocketsFit

\* What is sent is tracked from then on, unless it is one-way; and what was active stays so.
LEMMA SendAllTracks ==
    ASSUME TypeOK, IDsArePositions, NEW q \in Seq(Calls), SendAll(q)
    PROVE  /\ CallsIn(activeCalls) \subseteq CallsIn(activeCalls')
           /\ \A i \in DOMAIN q : q[i] \notin OneWay => q[i] \in CallsIn(activeCalls')
<1>1. \A id \in DOMAIN activeCalls : id \in DOMAIN activeCalls' /\ activeCalls'[id] = activeCalls[id]
    BY SendAllSends
<1>2. CallsIn(activeCalls) \subseteq CallsIn(activeCalls')
    BY <1>1 DEF CallsIn
<1>3. ASSUME NEW i \in DOMAIN q, q[i] \notin OneWay PROVE q[i] \in CallsIn(activeCalls')
    <2> DEFINE ids == nextCallID .. nextCallID + Len(q) - 1
               callOf == [id \in ids |-> q[id - nextCallID + 1]]
               tracked == {id \in ids : callOf[id] \notin OneWay}
    <2>1. activeCalls' = [id \in DOMAIN activeCalls \cup tracked |->
                             IF id \in tracked THEN callOf[id] ELSE activeCalls[id]]
        BY DEF SendAll
    <2>2. PICK id : id = nextCallID + i - 1
        OBVIOUS
    <2>3. id \in ids /\ id - nextCallID + 1 = i
        <3>1. nextCallID \in Nat /\ Len(q) \in Nat /\ i \in 1 .. Len(q)
            BY LenProperties DEF TypeOK
        <3> QED BY <2>2, <3>1
    <2>4. callOf[id] = q[i] /\ id \in tracked
        BY <1>3, <2>3
    <2> HIDE DEF ids, callOf, tracked
    <2>5. id \in DOMAIN activeCalls' /\ activeCalls'[id] = q[i]
        BY <2>1, <2>4
    <2> QED BY <2>5 DEF CallsIn
<1> QED BY <1>2, <1>3

\* What is said of the calls while every connection has been closed cleanly is kept by a step that
\* tracks what was tracked and, of what it makes, all that is not one-way.
LEMMA Remembered ==
    ASSUME NoneForgottenIfClosedCleanly, NoneBroke' => NoneBroke,
           NoneBroke' => \A c \in Calls \ OneWay : status'[c] = "made" =>
                             (status[c] = "made" /\ (c \in Tracked => c \in Tracked')) \/ c \in Tracked'
    PROVE  NoneForgottenIfClosedCleanly'
BY DEF NoneForgottenIfClosedCleanly

\* A call that is made is sent or cached.
LEMMA CallMethodRemembers ==
    ASSUME Inductive, TypeOK', SocketsFit, NoneForgottenIfClosedCleanly, NEW c \in Calls, CallMethod(c)
    PROVE  SocketsFit' /\ NoneForgottenIfClosedCleanly'
<1>1. /\ UNCHANGED <<sockets, attempts>> /\ status' = [status EXCEPT ![c] = "made"]
      /\ status \in [Calls -> Statuses] /\ TypeOK /\ IDsArePositions
    BY DEF CallMethod, Inductive, TypeOK
<1>2. SocketsFit' /\ (NoneBroke' <=> NoneBroke)
    BY <1>1, SocketsStay
<1>3. \A d \in Calls \ {c} : status'[d] = status[d]
    BY <1>1
<1>4. Tracked \subseteq Tracked' /\ (c \notin OneWay => c \in Tracked')
    <2>1. CASE SendAll(<<c>>) /\ UNCHANGED cachedCalls
        <3>1. PICK q \in Seq(Calls) : q = <<c>> /\ q[1] = c /\ DOMAIN q = {1}
            <4>1. <<c>> \in Seq(Calls) /\ <<c>>[1] = c
                OBVIOUS
            <4>2. DOMAIN <<c>> = {1}
                OBVIOUS
            <4> QED BY <4>1, <4>2
        <3>2. SendAll(q)
            BY <2>1, <3>1
        <3>3. CallsIn(activeCalls) \subseteq CallsIn(activeCalls') /\ (c \notin OneWay => c \in CallsIn(activeCalls'))
            BY <1>1, <3>1, <3>2, SendAllTracks
        <3> QED BY <2>1, <3>3 DEF Tracked
    <2>2. CASE cachedCalls' = Append(cachedCalls, c) /\ UNCHANGED activeCalls
        <3>1. cachedCalls \in Seq(Calls)
            BY <1>1 DEF TypeOK
        <3>2. PICK t, k : t = Append(cachedCalls, c) /\ k = Len(cachedCalls)
            OBVIOUS
        <3>3. /\ Len(t) = k + 1 /\ \A i \in 1 .. k : t[i] = cachedCalls[i]
              /\ t[k + 1] = c /\ t \in Seq(Calls)
            BY <3>1, <3>2, AppendCall
        <3>4. k \in Nat /\ DOMAIN cachedCalls = 1 .. k /\ DOMAIN t = 1 .. k + 1
            BY <3>1, <3>2, <3>3, LenProperties
        <3>5. 1 .. k \subseteq 1 .. k + 1 /\ k + 1 \in 1 .. k + 1
            BY <3>4
        <3>6. CallsIn(cachedCalls) \subseteq CallsIn(t) /\ c \in CallsIn(t)
            BY <3>3, <3>4, <3>5 DEF CallsIn
        <3> QED BY <2>2, <3>2, <3>6 DEF Tracked
    <2> QED BY <2>1, <2>2 DEF CallMethod
<1>5. \A d \in Calls \ OneWay : status'[d] = "made" =>
          (status[d] = "made" /\ (d \in Tracked => d \in Tracked')) \/ d \in Tracked'
    BY <1>3, <1>4
<1> QED BY <1>2, <1>5, Remembered

\* The newest socket opens, and the cached calls are sent.
LEMMA HandleConnectRemembers ==
    ASSUME Inductive, TypeOK', SocketsFit, NoneForgottenIfClosedCleanly, NEW s \in DOMAIN sockets, HandleConnect(s)
    PROVE  SocketsFit' /\ NoneForgottenIfClosedCleanly'
<1>1. /\ sockets[s] = "connecting" /\ sockets' = [sockets EXCEPT ![s] = "open"] /\ UNCHANGED <<attempts, status>>
      /\ TypeOK /\ IDsArePositions
    BY DEF HandleConnect, Inductive
<1>2. SocketsFit' /\ (NoneBroke' <=> NoneBroke)
    BY <1>1, SocketsStay
<1>3. ASSUME NoneBroke PROVE Tracked \ OneWay \subseteq Tracked'
    <2>1. s = ws
        BY <1>1, <1>3 DEF SocketsFit
    <2>2. ws' = ws
        <3>1. PICK t : t = [sockets EXCEPT ![s] = "open"]
            OBVIOUS
        <3>2. sockets \in Seq(SocketStates) /\ s \in 1 .. Len(sockets) /\ "open" \in SocketStates
            BY <1>1, LenProperties DEF TypeOK, SocketStates
        <3>3. Len(t) = Len(sockets)
            BY <3>1, <3>2, ExceptSeq
        <3> QED BY <1>1, <3>1, <3>3 DEF ws
    <2>3. SendAll(cachedCalls)
        BY <1>1, <2>1, <2>2 DEF HandleConnect
    <2>4. PICK q \in Seq(Calls) : q = cachedCalls
        BY <1>1 DEF TypeOK
    <2>5. /\ CallsIn(activeCalls) \subseteq CallsIn(activeCalls')
          /\ \A i \in DOMAIN q : q[i] \notin OneWay => q[i] \in CallsIn(activeCalls')
        BY <1>1, <2>3, <2>4, SendAllTracks
    <2> QED BY <2>4, <2>5 DEF Tracked, CallsIn
<1>4. NoneBroke' => \A c \in Calls \ OneWay : status'[c] = "made" =>
          (status[c] = "made" /\ (c \in Tracked => c \in Tracked')) \/ c \in Tracked'
    BY <1>1, <1>2, <1>3
<1> QED BY <1>2, <1>4, Remembered

\* A connection is closed, or breaks: the calls stay where they are, or fail.
LEMMA DisconnectRemembers ==
    ASSUME Inductive, TypeOK', SocketsFit, NoneForgottenIfClosedCleanly, NEW s \in DOMAIN sockets,
           sockets[s] # "closed", NEW n \in {1, 2}, HandleDisconnect(s, n)
    PROVE  SocketsFit' /\ NoneForgottenIfClosedCleanly'
<1>1. SocketsFit' /\ (NoneBroke' => NoneBroke)
    BY DisconnectFits DEF Inductive
<1>2. CASE UNCHANGED <<status, activeCalls, cachedCalls>>
    <2>1. Tracked' = Tracked /\ status' = status
        BY <1>2 DEF Tracked, CallsIn
    <2> QED BY <1>1, <2>1, Remembered
<1>3. CASE status' = [c \in Calls |-> IF c \in Tracked THEN "error" ELSE status[c]]
    <2>1. \A c \in Calls : status'[c] = "made" => status[c] = "made" /\ c \notin Tracked
        BY <1>3
    <2> QED BY <1>1, <2>1, Remembered
<1> QED BY <1>2, <1>3 DEF HandleDisconnect

\* An answer or a refusal settles its own call: the others stay where they are.
LEMMA SettledRemembers ==
    ASSUME Inductive, TypeOK', SocketsFit, NoneForgottenIfClosedCleanly, UNCHANGED <<sockets, attempts, cachedCalls>>,
           NEW r \in requests,
           \/ UNCHANGED <<status, activeCalls>>
           \/ /\ r.id \in DOMAIN activeCalls
              /\ \E a \in {"result", "exception", "error"} : status' = [status EXCEPT ![activeCalls[r.id]] = a]
              /\ \/ UNCHANGED activeCalls
                 \/ activeCalls' = Restrict(activeCalls, DOMAIN activeCalls \ {r.id})
    PROVE  SocketsFit' /\ NoneForgottenIfClosedCleanly'
<1>1. SocketsFit' /\ (NoneBroke' <=> NoneBroke)
    BY SocketsStay DEF Inductive
<1>2. CASE UNCHANGED <<status, activeCalls>>
    <2>1. Tracked' = Tracked /\ status' = status
        BY <1>2 DEF Tracked, CallsIn
    <2> QED BY <1>1, <2>1, Remembered
<1>3. CASE /\ r.id \in DOMAIN activeCalls
           /\ \E a \in {"result", "exception", "error"} : status' = [status EXCEPT ![activeCalls[r.id]] = a]
           /\ \/ UNCHANGED activeCalls
              \/ activeCalls' = Restrict(activeCalls, DOMAIN activeCalls \ {r.id})
    <2>1. PICK c : c = activeCalls[r.id]
        OBVIOUS
    <2>2. c \in Calls /\ status \in [Calls -> Statuses]
        BY <1>3, <2>1, KnownCalls DEF Inductive, TypeOK
    <2>3. status'[c] # "made" /\ \A d \in Calls \ {c} : status'[d] = status[d]
        BY <1>3, <2>1, <2>2
    <2>4. /\ \A id \in DOMAIN activeCalls \ {r.id} : id \in DOMAIN activeCalls' /\ activeCalls'[id] = activeCalls[id]
        BY <1>3 DEF Restrict
    <2>5. \A d \in Tracked \ {c} : d \in Tracked'
        BY <2>1, <2>4 DEF Tracked, CallsIn
    <2>6. \A d \in Calls \ OneWay : status'[d] = "made" => status[d] = "made" /\ (d \in Tracked => d \in Tracked')
        BY <2>3, <2>5
    <2> QED BY <1>1, <2>6, Remembered
<1> QED BY <1>2, <1>3

\* Every step keeps both.
LEMMA SocketsInductive ==
    ASSUME Inductive, TypeOK', SocketsFit, NoneForgottenIfClosedCleanly, [Next]_vars
    PROVE  SocketsFit' /\ NoneForgottenIfClosedCleanly'
<1>1. ASSUME UNCHANGED <<sockets, attempts, status, activeCalls, cachedCalls>>
      PROVE  SocketsFit' /\ NoneForgottenIfClosedCleanly'
    <2>1. SocketsFit' /\ (NoneBroke' <=> NoneBroke)
        BY <1>1, SocketsStay DEF Inductive
    <2>2. Tracked' = Tracked /\ status' = status
        BY <1>1 DEF Tracked, CallsIn
    <2> QED BY <2>1, <2>2, Remembered
<1>2. CASE UNCHANGED vars
    BY <1>1, <1>2 DEF vars
<1>3. ASSUME NEW c \in Calls, CallMethod(c) PROVE SocketsFit' /\ NoneForgottenIfClosedCleanly'
    BY <1>3, CallMethodRemembers
<1>4. ASSUME NEW f \in Funcs, RegisterFunc(f) PROVE SocketsFit' /\ NoneForgottenIfClosedCleanly'
    BY <1>1, <1>4 DEF RegisterFunc
<1>5. ASSUME NEW s \in DOMAIN sockets, HandleConnect(s) PROVE SocketsFit' /\ NoneForgottenIfClosedCleanly'
    BY <1>5, HandleConnectRemembers
<1>6. ASSUME NEW s \in DOMAIN sockets, SocketCloses(s) PROVE SocketsFit' /\ NoneForgottenIfClosedCleanly'
    <2>1. sockets[s] # "closed" /\ HandleDisconnect(s, 1) /\ 1 \in {1, 2}
        BY <1>6 DEF SocketCloses
    <2> QED BY <2>1, DisconnectRemembers
<1>7. ASSUME NEW s \in DOMAIN sockets, SocketBreaks(s) PROVE SocketsFit' /\ NoneForgottenIfClosedCleanly'
    <2>1. sockets[s] # "closed" /\ HandleDisconnect(s, 2) /\ 2 \in {1, 2}
        BY <1>7 DEF SocketBreaks
    <2> QED BY <2>1, DisconnectRemembers
<1>8. ASSUME NEW s \in DOMAIN sockets, NEW f \in Funcs, HandleCall(f, s)
      PROVE  SocketsFit' /\ NoneForgottenIfClosedCleanly'
    BY <1>1, <1>8 DEF HandleCall
<1>9. ASSUME NEW r \in requests, HandleCallReply(r) PROVE SocketsFit' /\ NoneForgottenIfClosedCleanly'
    <2>1. UNCHANGED <<sockets, attempts, cachedCalls>>
        BY <1>9 DEF HandleCallReply
    <2>2. \/ UNCHANGED <<status, activeCalls>>
          \/ /\ r.id \in DOMAIN activeCalls
             /\ \E a \in {"result", "exception", "error"} : status' = [status EXCEPT ![activeCalls[r.id]] = a]
             /\ \/ UNCHANGED activeCalls
                \/ activeCalls' = Restrict(activeCalls, DOMAIN activeCalls \ {r.id})
        BY <1>9 DEF HandleCallReply
    <2> QED BY <2>1, <2>2, SettledRemembers
<1>10. ASSUME NEW r \in requests, HandleCallError(r) PROVE SocketsFit' /\ NoneForgottenIfClosedCleanly'
    <2>1. UNCHANGED <<sockets, attempts, cachedCalls>>
        BY <1>10 DEF HandleCallError
    <2>2. \/ UNCHANGED <<status, activeCalls>>
          \/ /\ r.id \in DOMAIN activeCalls
             /\ \E a \in {"result", "exception", "error"} : status' = [status EXCEPT ![activeCalls[r.id]] = a]
             /\ \/ UNCHANGED activeCalls
                \/ activeCalls' = Restrict(activeCalls, DOMAIN activeCalls \ {r.id})
        BY <1>10 DEF HandleCallError
    <2> QED BY <2>1, <2>2, SettledRemembers
<1> QED BY <1>2, <1>3, <1>4, <1>5, <1>6, <1>7, <1>8, <1>9, <1>10 DEF Next

\* At the start there is one socket, which is not closed.
LEMMA InitSockets == Init => SocketsFit /\ NoneForgottenIfClosedCleanly
<1> SUFFICES ASSUME Init PROVE SocketsFit /\ NoneForgottenIfClosedCleanly
    OBVIOUS
<1>1. /\ sockets = <<"connecting">> /\ attempts = 0 /\ status = [c \in Calls |-> "unmade"]
    BY DEF Init
<1>2. ws = 1 /\ DOMAIN sockets = {1} /\ sockets[1] = "connecting"
    BY <1>1 DEF ws
<1>3. ClosedSockets = {}
    BY <1>2 DEF ClosedSockets
<1>4. Cardinality(ClosedSockets) = 0
    BY <1>3, FS_EmptySet
<1>5. SocketsFit
    BY <1>1, <1>2, <1>4, AttemptsAssumption DEF SocketsFit
<1> QED BY <1>1, <1>5 DEF NoneForgottenIfClosedCleanly

\* In every state the sockets are as many as the events allow, and while none has broken only the
\* newest can be in use.
THEOREM SocketsInvariant == Spec => [](Inductive /\ SocketsFit /\ NoneForgottenIfClosedCleanly)
<1>1. Inductive => TypeOK
    BY DEF Inductive
<1>2. Inductive /\ TypeOK' /\ SocketsFit /\ NoneForgottenIfClosedCleanly /\ [Next]_vars
          => SocketsFit' /\ NoneForgottenIfClosedCleanly'
    BY SocketsInductive
<1> QED BY <1>1, <1>2, InitSockets, InductiveInvariant, PTL DEF Spec

\* As long as connections are only closed cleanly, no call is forgotten: the script has its answer or
\* its failure, or the call is active or cached, through any number of reconnections.
THEOREM NoCallIsForgotten == Spec => []NoneForgottenIfClosedCleanly
BY SocketsInvariant, PTL

\* A socket that opens does not make another one the newest.
LEMMA OpenedSocket ==
    ASSUME TypeOK, NEW s \in DOMAIN sockets, sockets' = [sockets EXCEPT ![s] = "open"]
    PROVE  ws' = ws /\ ws \in DOMAIN sockets
<1>1. PICK t : t = [sockets EXCEPT ![s] = "open"]
    OBVIOUS
<1>2. sockets \in Seq(SocketStates) /\ s \in 1 .. Len(sockets) /\ "open" \in SocketStates
    BY LenProperties DEF TypeOK, SocketStates
<1>3. Len(t) = Len(sockets)
    BY <1>1, <1>2, ExceptSeq
<1> QED BY <1>1, <1>3, NewestSocket DEF ws

\* As long as the reconnection has not been given up the newest socket is not closed, as every socket
\* that closes makes place for another one.
LEMMA NewestNotClosed ==
    ASSUME TypeOK, TypeOK', attempts <= MaxReconnectAttempts => sockets[ws] # "closed", [Next]_vars
    PROVE  attempts' <= MaxReconnectAttempts => sockets'[ws'] # "closed"
<1>1. ASSUME UNCHANGED <<sockets, attempts>>
      PROVE  attempts' <= MaxReconnectAttempts => sockets'[ws'] # "closed"
    BY <1>1 DEF ws
<1>2. CASE UNCHANGED vars
    BY <1>1, <1>2 DEF vars
<1>3. ASSUME NEW s \in DOMAIN sockets, NEW n \in {1, 2}, HandleDisconnect(s, n)
      PROVE  attempts' <= MaxReconnectAttempts => sockets'[ws'] # "closed"
    <2> SUFFICES ASSUME attempts' <= MaxReconnectAttempts PROVE sockets'[ws'] # "closed"
        OBVIOUS
    <2>1. n \in Nat /\ n >= 1 /\ attempts \in Nat /\ attempts' = attempts + n
        BY <1>3 DEF HandleDisconnect, TypeOK
    <2>2. Reconnects(n) = n
        BY <2>1 DEF Reconnects
    <2>3. ws \in Nat /\ ws' = ws + n /\ ws + n \in 1 .. ws + n /\ ws + n > ws
        <3>1. ws \in Nat \ {0} /\ ws' = ws + n
            BY <1>3, <2>1, <2>2, NewestSocket, DisconnectShape
        <3> QED BY <2>1, <3>1
    <2>4. \A i \in 1 .. ws + n : sockets'[i] = IF i > ws THEN "connecting" ELSE IF i = s THEN "closed" ELSE sockets[i]
        BY <1>3, <2>1, <2>2, DisconnectShape
    <2>5. sockets'[ws + n] = "connecting"
        BY <2>3, <2>4
    <2> QED BY <2>3, <2>5
<1>4. ASSUME NEW s \in DOMAIN sockets, HandleConnect(s)
      PROVE  attempts' <= MaxReconnectAttempts => sockets'[ws'] # "closed"
    <2>1. attempts' = attempts /\ sockets' = [sockets EXCEPT ![s] = "open"]
        BY <1>4 DEF HandleConnect
    <2>2. ws' = ws /\ ws \in DOMAIN sockets
        BY <2>1, OpenedSocket
    <2> QED BY <2>1, <2>2
<1>5. \A c : CallMethod(c) => UNCHANGED <<sockets, attempts>>
    BY DEF CallMethod
<1>6. \A f : RegisterFunc(f) => UNCHANGED <<sockets, attempts>>
    BY DEF RegisterFunc
<1>7. \A f, s : HandleCall(f, s) => UNCHANGED <<sockets, attempts>>
    BY DEF HandleCall
<1>8. \A r : HandleCallReply(r) \/ HandleCallError(r) => UNCHANGED <<sockets, attempts>>
    BY DEF HandleCallReply, HandleCallError
<1>9. ASSUME NEW s \in DOMAIN sockets, SocketCloses(s) \/ SocketBreaks(s)
      PROVE  attempts' <= MaxReconnectAttempts => sockets'[ws'] # "closed"
    BY <1>3, <1>9 DEF SocketCloses, SocketBreaks
<1> QED BY <1>1, <1>2, <1>4, <1>5, <1>6, <1>7, <1>8, <1>9 DEF Next

\* What happens to the newest socket empties the cache or makes place for another one.
LEMMA NextDrains ==
    ASSUME Inductive, TypeOK', SocketsFit', attempts <= MaxReconnectAttempts, cachedCalls # <<>>, Next,
           sockets[ws] = "connecting", sockets'[ws] # "connecting"
    PROVE  \/ cachedCalls' = <<>>
           \/ ws < ws' /\ ws' <= MaxReconnectAttempts + 1
<1>1. TypeOK /\ ws \in Nat \ {0} /\ ws \in DOMAIN sockets /\ attempts \in Nat /\ attempts' \in Nat
    BY NewestSocket DEF Inductive, TypeOK
<1>2. ASSUME NEW s \in DOMAIN sockets, NEW n \in {1, 2}, HandleDisconnect(s, n)
      PROVE  \/ cachedCalls' = <<>>
             \/ ws < ws' /\ ws' <= MaxReconnectAttempts + 1
    <2>1. n \in Nat /\ n >= 1 /\ attempts' = attempts + n
        BY <1>2 DEF HandleDisconnect
    <2>2. CASE attempts' > MaxReconnectAttempts
        BY <1>1, <1>2, <2>2, AttemptsAssumption DEF HandleDisconnect
    <2>3. CASE attempts' <= MaxReconnectAttempts
        <3>1. ws' = ws + n
            BY <1>1, <1>2, <2>1, <2>3, DisconnectShape DEF Reconnects
        <3>2. ws' = attempts' + 1
            BY <2>3 DEF SocketsFit
        <3> QED BY <1>1, <2>1, <2>3, <3>1, <3>2, AttemptsAssumption
    <2> QED BY <1>1, <2>2, <2>3, AttemptsAssumption
<1>3. \A s : HandleConnect(s) => cachedCalls' = <<>>
    BY DEF HandleConnect
<1>4. ASSUME NEW s \in DOMAIN sockets, SocketCloses(s) \/ SocketBreaks(s)
      PROVE  \/ cachedCalls' = <<>>
             \/ ws < ws' /\ ws' <= MaxReconnectAttempts + 1
    BY <1>2, <1>4 DEF SocketCloses, SocketBreaks
<1>5. \A c : CallMethod(c) => UNCHANGED sockets
    BY DEF CallMethod
<1>6. \A f : RegisterFunc(f) => UNCHANGED sockets
    BY DEF RegisterFunc
<1>7. \A f, s : HandleCall(f, s) => UNCHANGED sockets
    BY DEF HandleCall
<1>8. \A r : HandleCallReply(r) \/ HandleCallError(r) => UNCHANGED sockets
    BY DEF HandleCallReply, HandleCallError
<1> QED BY <1>3, <1>4, <1>5, <1>6, <1>7, <1>8 DEF Next

\* As long as calls wait in the cache and the reconnection has not been given up, the newest socket is
\* connecting, and when it opens or breaks the calls are sent, have failed, or wait for a newer socket,
\* of which there are MaxReconnectAttempts + 1 at most.
THEOREM CacheIsDrained == Spec => NewestDrains
<1> DEFINE NotClosed == attempts <= MaxReconnectAttempts => sockets[ws] # "closed"
           Drains == cachedCalls # <<>> /\ attempts <= MaxReconnectAttempts =>
                        /\ sockets[ws] = "connecting"
                        /\ sockets'[ws] # "connecting" =>
                              \/ cachedCalls' = <<>>
                              \/ ws < ws' /\ ws' <= MaxReconnectAttempts + 1
<1>1. Init => NotClosed
    <2>1. Init => ws = 1 /\ sockets[1] = "connecting"
        BY DEF Init, ws
    <2> QED BY <2>1
<1>2. Inductive /\ Inductive' /\ NotClosed /\ [Next]_vars => NotClosed'
    BY NewestNotClosed DEF Inductive
<1>3. Inductive /\ Inductive' /\ SocketsFit' /\ NotClosed /\ [Next]_vars => [Drains]_vars
    <2> SUFFICES ASSUME Inductive, Inductive', SocketsFit', NotClosed, Next,
                        cachedCalls # <<>>, attempts <= MaxReconnectAttempts
                 PROVE  /\ sockets[ws] = "connecting"
                        /\ sockets'[ws] # "connecting" =>
                              \/ cachedCalls' = <<>>
                              \/ ws < ws' /\ ws' <= MaxReconnectAttempts + 1
        OBVIOUS
    <2>1. sockets[ws] = "connecting"
        <3>1. sockets[ws] \in {"connecting", "open", "closed"}
            BY NewestSocket, ElementOfSeq DEF Inductive, TypeOK
        <3>2. sockets[ws] # "open"
            BY DEF Inductive, CachedOffline, IsOpen
        <3> QED BY <3>1, <3>2
    <2> QED BY <2>1, NextDrains DEF Inductive
<1>4. NewestDrains <=> [][Drains]_vars
    BY DEF NewestDrains
<1> HIDE DEF NotClosed, Drains
<1> QED BY <1>1, <1>2, <1>3, <1>4, SocketsInvariant, PTL DEF Spec

\* As long as connections are only closed cleanly, the reply to a call of the server goes out over the
\* connection on which the call came in.
THEOREM RepliesReturn == Spec => RepliesGoBack
<1> DEFINE GoBack == NoneBroke' => \A r \in served' \ served : r.reply = r.from
<1>1. SocketsFit /\ Next => GoBack
    <2> SUFFICES ASSUME SocketsFit, Next, NoneBroke', NEW r \in served' \ served PROVE r.reply = r.from
        OBVIOUS
    <2>1. PICK s \in DOMAIN sockets, f \in Funcs : HandleCall(f, s)
        <3>1. \A c : CallMethod(c) => UNCHANGED served
            BY DEF CallMethod
        <3>2. \A f : RegisterFunc(f) => UNCHANGED served
            BY DEF RegisterFunc
        <3>3. \A s : HandleConnect(s) \/ SocketCloses(s) \/ SocketBreaks(s) => UNCHANGED served
            BY DEF HandleConnect, SocketCloses, SocketBreaks, HandleDisconnect
        <3>4. \A q : HandleCallReply(q) \/ HandleCallError(q) => UNCHANGED served
            BY DEF HandleCallReply, HandleCallError
        <3> QED BY <3>1, <3>2, <3>3, <3>4 DEF Next
    <2>2. sockets[s] = "open" /\ UNCHANGED <<sockets, attempts>> /\ r = [func |-> f, from |-> s, reply |-> ws]
        BY <2>1 DEF HandleCall
    <2>3. NoneBroke
        BY <2>2 DEF NoneBroke
    <2>4. s = ws
        BY <2>2, <2>3 DEF SocketsFit
    <2> QED BY <2>2, <2>4
<1>2. UNCHANGED vars => GoBack
    BY DEF vars
<1>3. [][GoBack]_vars <=> RepliesGoBack
    BY DEF RepliesGoBack
<1> QED BY <1>1, <1>2, <1>3, SocketsInvariant, PTL DEF Spec

=============================================================================
