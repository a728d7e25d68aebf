-------------------------- MODULE WorldSyncProofs --------------------------
(* Proofs about WorldSync, for every set of servers, entities, attributes and *)
(* values, every sync graph and every domain of interest.                     *)
EXTENDS WorldSyncConvergence, WellFoundedInduction, TLAPS

Channels == [Server \X Server -> Seq(Message)]

(***************************************************************************)
(* What the helpers return.                                                *)
(***************************************************************************)

\* A set of infos can be stored and sent: it is a function to stamps or NoStamp.
LEMMA NoInfoType == NoInfo \in Info
BY DEF NoInfo, Info

\* Filtering leaves a well-formed set of infos.
LEMMA FilteredType ==
    ASSUME NEW i \in Info, NEW r \in Server
    PROVE  Filtered(i, r) \in Info
BY DEF Filtered, Info

\* Merging two sets of infos gives a set of infos.
LEMMA MergedType ==
    ASSUME NEW i \in Info, NEW j \in Info
    PROVE  Merged(i, j) \in Info
BY DEF Merged, Info

\* The messages are well formed.
LEMMA MessageType ==
    ASSUME NEW e \in Entity, NEW i \in Info
    PROVE  /\ AddMsg(e, i) \in Message
           /\ RemoveMsg(e) \in Message
           /\ ChangeMsg(e, i) \in Message
BY NoInfoType DEF AddMsg, RemoveMsg, ChangeMsg, Message

\* Sending a message of the set G keeps the channels sequences over G.
LEMMA SendType ==
    ASSUME NEW G, NEW ch \in [Server \X Server -> Seq(G)], NEW s \in Server, NEW R, NEW m \in G
    PROVE  Send(ch, s, R, m) \in [Server \X Server -> Seq(G)]
<1>1. \A l \in Server \X Server : Append(ch[l], m) \in Seq(G) /\ ch[l] \in Seq(G)
    OBVIOUS
<1> QED BY <1>1 DEF Send

\* So does sending a change, whatever the receivers' interests leave of it.
LEMMA SendChangeType ==
    ASSUME NEW G, NEW ch \in [Server \X Server -> Seq(G)], NEW s \in Server, NEW R,
           NEW e, NEW i, \A r \in Server : ChangeMsg(e, Filtered(i, r)) \in G
    PROVE  SendChange(ch, s, R, e, i) \in [Server \X Server -> Seq(G)]
<1>1. ASSUME NEW l \in Server \X Server
      PROVE  ch[l] \in Seq(G) /\ Append(ch[l], ChangeMsg(e, Filtered(i, l[2]))) \in Seq(G)
    <2>1. l[2] \in Server
        OBVIOUS
    <2> QED BY <2>1
<1> QED BY <1>1 DEF SendChange

\* Taking a message leaves sequences over G, and what is taken is in G.
LEMMA ReceivedType ==
    ASSUME NEW G, chan \in [Server \X Server -> Seq(G)], NEW r \in Server, NEW s \in Server,
           chan[<<r, s>>] # <<>>
    PROVE  /\ Received(r, s) \in [Server \X Server -> Seq(G)]
           /\ Head(chan[<<r, s>>]) \in G
<1>1. Tail(chan[<<r, s>>]) \in Seq(G) /\ Head(chan[<<r, s>>]) \in G
    OBVIOUS
<1> QED BY <1>1 DEF Received

\* Processing gives attribute values, and entries of the ignore set.
LEMMA ProcessedType ==
    ASSUME NEW s \in Server, NEW e \in Entity, NEW vals \in [Attr -> Value],
           NEW local \in Info, NEW remote \in Info,
           ignored \in [Server -> SUBSET (Entity \X Attr \X Value)]
    PROVE  /\ ProcessedValues(s, vals, local, remote) \in [Attr -> Value]
           /\ ProcessedIgnores(s, e, vals, local, remote) \in SUBSET (Entity \X Attr \X Value)
<1>1. ASSUME NEW a \in SuggestedAttrs(s, local, remote)
      PROVE  a \in Attr /\ remote[a].value \in Value
    BY DEF SuggestedAttrs, Suggests, Accepts, Info, Stamp
<1>2. ProcessedValues(s, vals, local, remote) \in [Attr -> Value]
    BY <1>1 DEF ProcessedValues
<1>3. ProcessedIgnores(s, e, vals, local, remote) \in SUBSET (Entity \X Attr \X Value)
    BY <1>1 DEF ProcessedIgnores
<1> QED BY <1>2, <1>3

\* A stamp carries the tick, the server and the value it was made of.
LEMMA StampAtType ==
    ASSUME NEW s \in Server, NEW t \in Time, NEW v \in Value
    PROVE  /\ StampAt(s, t, v) \in Stamp
           /\ StampAt(s, t, v) # NoStamp
           /\ StampAt(s, t, v).ts = t
           /\ StampAt(s, t, v).id = s
           /\ StampAt(s, t, v).value = v
BY StampAssumption DEF StampAt, Stamp

(***************************************************************************)
(* Type correctness                                                        *)
(***************************************************************************)

\* The initial states are well formed.
LEMMA InitType == Init => TypeOK
<1>1. 0 \in Time
    BY StampAssumption DEF Time
<1> QED BY <1>1, NoInfoType, WorldSyncAssumption DEF Init, TypeOK

\* Adding an entity keeps the state well formed.
LEMMA LocalAddType ==
    ASSUME TypeOK, NEW s \in Server, NEW e \in Entity, NEW A \in SUBSET Registered[s],
           NEW t \in Time, NEW f \in [A -> Writable \cup {Default}], LocalAdd(s, e, A, f, t)
    PROVE  TypeOK'
<1> DEFINE i == [a \in Attr |-> IF a \in A THEN StampAt(s, t, f[a]) ELSE NoStamp]
<1>1. A \subseteq Attr /\ \A a \in A : f[a] \in Value
    BY WorldSyncAssumption
<1>2. i \in Info /\ \A a \in A : i[a] \in Stamp
    BY <1>1, StampAtType DEF Info
<1>3. chan' \in Channels
    <2>1. AddMsg(e, i) \in Message
        BY <1>2, MessageType
    <2> QED BY <2>1, SendType DEF LocalAdd, TypeOK, Channels
<1>4. [a \in Attr |-> IF a \in A THEN f[a] ELSE Default] \in [Attr -> Value]
    BY <1>1, WorldSyncAssumption
<1>5. clock' \in [Server -> Time]
    BY DEF LocalAdd, ReadClock, TypeOK
<1>6. written' \in SUBSET (Entity \X Attr \X Stamp)
    <2>1. written' = written \cup {<<e, a, i[a]>> : a \in A}
        BY DEF LocalAdd
    <2>2. \A a \in A : <<e, a, i[a]>> \in Entity \X Attr \X Stamp
        BY <1>1, <1>2
    <2> HIDE DEF i
    <2> QED BY <2>1, <2>2 DEF TypeOK
<1>7. info' \in [Server -> [Entity -> Info]]
    BY <1>2 DEF LocalAdd, TypeOK
<1>8. value' \in [Server -> [Entity -> [Attr -> Value]]]
    BY <1>4 DEF LocalAdd, TypeOK
<1> QED BY <1>3, <1>5, <1>6, <1>7, <1>8 DEF LocalAdd, TypeOK, Channels

\* So does removing one,
LEMMA LocalRemoveType ==
    ASSUME TypeOK, NEW s \in Server, NEW e \in Entity, LocalRemove(s, e)
    PROVE  TypeOK'
<1>1. chan' \in Channels
    BY SendType, MessageType, NoInfoType DEF LocalRemove, TypeOK, Channels
<1>2. [a \in Attr |-> Default] \in [Attr -> Value]
    BY WorldSyncAssumption
<1> QED BY <1>1, <1>2, NoInfoType DEF LocalRemove, TypeOK, Channels

\* changing an attribute with an entry in the ignore set,
LEMMA LocalChangeIgnoredType ==
    ASSUME TypeOK, NEW s \in Server, NEW e \in Entity, NEW a \in Registered[s],
           NEW v \in Writable, LocalChangeIgnored(s, e, a, v)
    PROVE  TypeOK'
<1>1. a \in Attr /\ v \in Value
    BY WorldSyncAssumption
<1>2. value' \in [Server -> [Entity -> [Attr -> Value]]]
    BY <1>1 DEF LocalChangeIgnored, TypeOK
<1>3. ignored' \in [Server -> SUBSET (Entity \X Attr \X Value)]
    BY <1>1 DEF LocalChangeIgnored, TypeOK
<1> QED BY <1>2, <1>3 DEF LocalChangeIgnored, TypeOK

\* and changing one without.
LEMMA LocalChangeAnnouncedType ==
    ASSUME TypeOK, NEW s \in Server, NEW e \in Entity, NEW a \in Registered[s],
           NEW v \in Writable, NEW t \in Time, LocalChangeAnnounced(s, e, a, v, t)
    PROVE  TypeOK'
<1> DEFINE st == StampAt(s, t, v)
<1>1. a \in Attr /\ v \in Value
    BY WorldSyncAssumption
<1>2. st \in Stamp
    BY <1>1, StampAtType
<1>3. [NoInfo EXCEPT ![a] = st] \in Info
    BY <1>1, <1>2 DEF NoInfo, Info
<1>4. chan' \in Channels
    BY <1>3, FilteredType, MessageType, SendChangeType
    DEF LocalChangeAnnounced, TypeOK, Channels
<1>5. value' \in [Server -> [Entity -> [Attr -> Value]]]
    BY <1>1 DEF LocalChangeAnnounced, TypeOK
<1>6. info' \in [Server -> [Entity -> Info]]
    BY <1>1, <1>2 DEF LocalChangeAnnounced, TypeOK, Info
<1>7. clock' \in [Server -> Time]
    BY DEF LocalChangeAnnounced, ReadClock, TypeOK
<1>8. written' \in SUBSET (Entity \X Attr \X Stamp)
    BY <1>1, <1>2 DEF LocalChangeAnnounced, TypeOK
<1> QED BY <1>4, <1>5, <1>6, <1>7, <1>8 DEF LocalChangeAnnounced, TypeOK, Channels

\* The handlers, for the message m that server s takes from server r.
LEMMA AddedType ==
    ASSUME TypeOK, NEW r \in Server, NEW s \in Server, NEW m \in Message,
           Received(r, s) \in Channels, HandleRemoteAddedEntity(r, s, m)
    PROVE  TypeOK'
<1> DEFINE vals == [a \in Attr |-> Default]
           newVals == ProcessedValues(s, vals, NoInfo, m.info)
           newIgnores == ProcessedIgnores(s, m.ent, vals, NoInfo, m.info)
           newInfo == Merged(NoInfo, m.info)
<1>1. m.ent \in Entity /\ m.info \in Info
    BY DEF Message
<1>2. newVals \in [Attr -> Value] /\ newIgnores \in SUBSET (Entity \X Attr \X Value)
    <2>1. vals \in [Attr -> Value]
        BY WorldSyncAssumption
    <2> QED BY <1>1, <2>1, NoInfoType, ProcessedType DEF TypeOK
<1>3. newInfo \in Info
    BY <1>1, NoInfoType, MergedType
<1>4. CASE m.ent \in known[s]
    BY <1>4 DEF HandleRemoteAddedEntity, TypeOK, Channels
<1>5. CASE m.ent \notin known[s]
    <2>1. chan' \in Channels
        <3>1. chan' = Send(Received(r, s), s, InterestedInEntity(s, m.ent) \ {r}, m)
            BY <1>5 DEF HandleRemoteAddedEntity
        <3> QED BY <3>1, SendType DEF Channels
    <2>2. /\ value' = [value EXCEPT ![s][m.ent] = newVals]
          /\ ignored' = [ignored EXCEPT ![s] = newIgnores]
          /\ info' = [info EXCEPT ![s][m.ent] = newInfo]
          /\ world' = [world EXCEPT ![s] = @ \cup {m.ent}]
          /\ known' = [known EXCEPT ![s] = @ \cup {m.ent}]
          /\ UNCHANGED <<clock, created, removed, written>>
        BY <1>5 DEF HandleRemoteAddedEntity
    <2> HIDE DEF newVals, newIgnores, newInfo
    <2> QED BY <1>1, <1>2, <1>3, <2>1, <2>2 DEF TypeOK, Channels
<1> QED BY <1>4, <1>5

\* The removal of an entity that another server has removed.
LEMMA RemovedType ==
    ASSUME TypeOK, NEW r \in Server, NEW s \in Server, NEW m \in Message,
           Received(r, s) \in Channels, HandleRemoteRemovedEntity(r, s, m)
    PROVE  TypeOK'
<1>1. m.ent \in Entity /\ [a \in Attr |-> Default] \in [Attr -> Value]
    BY WorldSyncAssumption DEF Message
<1>2. chan' \in Channels
    BY SendType DEF HandleRemoteRemovedEntity, Channels
<1>3. CASE m.ent \in known[s]
    <2> DEFINE defaults == [a \in Attr |-> Default]
    <2>1. /\ value' = [value EXCEPT ![s][m.ent] = defaults]
          /\ info' = [info EXCEPT ![s][m.ent] = NoInfo]
          /\ world' = [world EXCEPT ![s] = @ \ {m.ent}]
          /\ known' = [known EXCEPT ![s] = @ \ {m.ent}]
          /\ UNCHANGED <<ignored, clock, created, removed, written>>
        BY <1>3 DEF HandleRemoteRemovedEntity
    <2>2. defaults \in [Attr -> Value]
        BY <1>1
    <2> HIDE DEF defaults
    <2> QED BY <1>1, <1>2, <2>1, <2>2, NoInfoType DEF TypeOK, Channels
<1>4. CASE m.ent \notin known[s]
    BY <1>2, <1>4 DEF HandleRemoteRemovedEntity, TypeOK, Channels
<1> QED BY <1>3, <1>4

\* The changes another server has made to attributes.
LEMMA ChangedType ==
    ASSUME TypeOK, NEW r \in Server, NEW s \in Server, NEW m \in Message,
           Received(r, s) \in Channels, HandleRemoteChangedAttributes(r, s, m)
    PROVE  TypeOK'
<1> DEFINE newVals == ProcessedValues(s, value[s][m.ent], info[s][m.ent], m.info)
           newIgnores == ProcessedIgnores(s, m.ent, value[s][m.ent], info[s][m.ent], m.info)
           newInfo == Merged(info[s][m.ent], m.info)
<1>1. m.ent \in Entity /\ m.info \in Info
    BY DEF Message
<1>2. newVals \in [Attr -> Value] /\ newIgnores \in SUBSET (Entity \X Attr \X Value)
    <2>1. value[s][m.ent] \in [Attr -> Value] /\ info[s][m.ent] \in Info
        BY <1>1 DEF TypeOK
    <2>2. ignored \in [Server -> SUBSET (Entity \X Attr \X Value)]
        BY DEF TypeOK
    <2> QED BY <1>1, <2>1, <2>2, ProcessedType
<1>3. newInfo \in Info
    BY <1>1, MergedType DEF TypeOK
<1>4. chan' \in Channels
    BY <1>1, FilteredType, MessageType, SendChangeType
    DEF HandleRemoteChangedAttributes, Channels
<1>5. CASE m.ent \in known[s]
    <2>1. /\ value' = [value EXCEPT ![s][m.ent] = newVals]
          /\ ignored' = [ignored EXCEPT ![s] = newIgnores]
          /\ info' = [info EXCEPT ![s][m.ent] = newInfo]
          /\ UNCHANGED <<world, known, clock, created, removed, written>>
        BY <1>1, <1>5 DEF HandleRemoteChangedAttributes, TypeOK
    <2> HIDE DEF newVals, newIgnores, newInfo
    <2> QED BY <1>1, <1>2, <1>3, <1>4, <2>1 DEF TypeOK, Channels
<1>6. CASE m.ent \notin known[s]
    BY <1>4, <1>6 DEF HandleRemoteChangedAttributes, TypeOK, Channels
<1> QED BY <1>5, <1>6

\* Whatever the message is, handling it keeps the state well formed.
LEMMA DeliverType ==
    ASSUME TypeOK, NEW r \in Server, NEW s \in Server, Deliver(r, s)
    PROVE  TypeOK'
<1> DEFINE m == Head(chan[<<r, s>>])
<1>1. m \in Message /\ Received(r, s) \in Channels
    BY ReceivedType DEF Deliver, TypeOK, Channels
<1>2. \/ HandleRemoteAddedEntity(r, s, m)
      \/ HandleRemoteRemovedEntity(r, s, m)
      \/ HandleRemoteChangedAttributes(r, s, m)
      \/ HandlerThrows(r, s, m)
    BY DEF Deliver
<1> HIDE DEF m
<1>3. CASE HandlerThrows(r, s, m)
    BY <1>1, <1>3 DEF HandlerThrows, TypeOK, Channels
<1> QED BY <1>1, <1>2, <1>3, AddedType, RemovedType, ChangedType

\* Every state of the synchronisation is well typed: in particular no handler ever
\* stores or sends anything but stamps that a server could have issued.
THEOREM TypeCorrect == Spec => []TypeOK
<1>1. Init => TypeOK
    BY InitType
<1>2. TypeOK /\ [Next]_vars => TypeOK'
    <2> SUFFICES ASSUME TypeOK, [Next]_vars PROVE TypeOK'
        OBVIOUS
    <2>1. CASE UNCHANGED vars
        BY <2>1 DEF vars, TypeOK
    <2>2. ASSUME NEW s \in Server, LocalStep(s) PROVE TypeOK'
        BY <2>2, LocalAddType, LocalRemoveType, LocalChangeIgnoredType, LocalChangeAnnouncedType
        DEF LocalStep
    <2>3. ASSUME NEW r \in Server, NEW s \in Server, Deliver(r, s) PROVE TypeOK'
        BY <2>3, DeliverType
    <2> QED BY <2>1, <2>2, <2>3 DEF Next
<1> QED BY <1>1, <1>2, PTL DEF Spec

(***************************************************************************)
(* The inductive invariant                                                 *)
(***************************************************************************)

\* Merging keeps issued stamps issued.
LEMMA MergedIssued ==
    ASSUME NEW e \in Entity, NEW i \in Info, NEW j \in Info, InfoIssued(e, i), InfoIssued(e, j)
    PROVE  InfoIssued(e, Merged(i, j))
BY DEF InfoIssued, Merged

\* So does leaving stamps out.
LEMMA FilteredIssued ==
    ASSUME NEW m \in IssuedMessage, NEW r \in Server
    PROVE  ChangeMsg(m.ent, Filtered(m.info, r)) \in IssuedMessage
<1>1. m.ent \in Entity /\ m.info \in Info /\ m.ent \in created /\ InfoIssued(m.ent, m.info)
    BY DEF IssuedMessage, Message
<1>2. Filtered(m.info, r) \in Info /\ ChangeMsg(m.ent, Filtered(m.info, r)) \in Message
    BY <1>1, FilteredType, MessageType
<1>3. InfoIssued(m.ent, Filtered(m.info, r))
    BY <1>1 DEF InfoIssued, Filtered
<1> QED BY <1>1, <1>2, <1>3 DEF IssuedMessage, ChangeMsg

\* More issued stamps and created entities: what was issued stays issued.
LEMMA IssuedGrows ==
    ASSUME TypeOK, written \subseteq written', created \subseteq created'
    PROVE  /\ \A e \in Entity, i \in Info : InfoIssued(e, i) => InfoIssued(e, i)'
           /\ IssuedMessage \subseteq IssuedMessage'
           /\ \A ch \in [Server \X Server -> Seq(IssuedMessage)] :
                 ch \in [Server \X Server -> Seq(IssuedMessage')]
<1>1. \A e \in Entity, i \in Info : InfoIssued(e, i) => InfoIssued(e, i)'
    BY DEF InfoIssued
<1>2. IssuedMessage \subseteq IssuedMessage'
    BY <1>1 DEF IssuedMessage, Message
<1>3. \A q \in Seq(IssuedMessage) : q \in Seq(IssuedMessage')
    BY <1>2
<1> QED BY <1>1, <1>2, <1>3

\* Nothing has been issued in the initial states.
LEMMA InitInductive == Init => Inductive
<1> SUFFICES ASSUME Init PROVE Inductive
    OBVIOUS
<1>1. TypeOK
    BY InitType
<1>2. \A s \in Server, e \in Entity, a \in Attr : info[s][e][a] = NoStamp
    BY DEF Init, NoInfo
<1>3. SyncInfoCoversWorld
    BY DEF Init, SyncInfoCoversWorld
<1>4. MessagesIssued
    BY DEF Init, MessagesIssued
<1>5. KnownCreated /\ StampsBehindClock /\ StampIdentifiesValue
    BY DEF Init, KnownCreated, StampsBehindClock, StampIdentifiesValue
<1> QED BY <1>1, <1>2, <1>3, <1>4, <1>5 DEF Inductive, StampsIssued, InfoIssued

\* The stamps of one clock reading t of server s are new: they do not collide with
\* any that were issued, nor with each other, as each is for another attribute.
LEMMA NewStamps ==
    ASSUME TypeOK, StampsBehindClock, ClockPrecise => StampIdentifiesValue,
           NEW s \in Server, NEW e \in Entity, NEW t \in Time, ReadClock(s, t),
           NEW S \in SUBSET (Entity \X Attr \X Stamp), written' = written \cup S,
           \A x \in S : x[1] = e /\ x[3].id = s /\ x[3].ts = t,
           \A x, y \in S : x[2] = y[2] => x = y
    PROVE  /\ StampsBehindClock'
           /\ ClockPrecise => StampIdentifiesValue'
           /\ ClockPrecise => \A x \in written : x[3].id = s => x[3].ts < t
<1>1. /\ clock \in [Server -> Time] /\ clock' = [clock EXCEPT ![s] = t]
      /\ t >= clock[s] /\ (ClockPrecise => t > clock[s])
      /\ clock[s] \in Int /\ t \in Int
    BY StampAssumption DEF TypeOK, ReadClock, Time
<1>2. \A x \in written : x[3] \in Stamp /\ x[3].id \in Server /\ x[3].ts \in Int
                         /\ x[3].ts <= clock[x[3].id] /\ clock[x[3].id] \in Int
    BY <1>1 DEF TypeOK, Stamp, StampsBehindClock, Time
<1>3. ClockPrecise => \A x \in written : x[3].id = s => x[3].ts < t
    BY <1>1, <1>2
<1>4. \A x \in written' : x \in written \/ x \in S
    OBVIOUS
<1>5. StampsBehindClock'
    BY <1>1, <1>2, <1>4 DEF StampsBehindClock
<1>6. ASSUME ClockPrecise PROVE StampIdentifiesValue'
    <2> SUFFICES ASSUME NEW w \in written', NEW x \in written',
                        w[1] = x[1], w[2] = x[2], w[3].ts = x[3].ts, w[3].id = x[3].id
                 PROVE  w = x
        BY DEF StampIdentifiesValue
    <2>1. CASE w \in written /\ x \in written
        BY <1>6, <2>1 DEF StampIdentifiesValue
    <2>2. CASE w \in written /\ x \notin written
        BY <1>1, <1>2, <1>3, <1>4, <1>6, <2>2
    <2>3. CASE w \notin written /\ x \in written
        BY <1>1, <1>2, <1>3, <1>4, <1>6, <2>3
    <2>4. CASE w \notin written /\ x \notin written
        BY <1>4, <2>4
    <2> QED BY <2>1, <2>2, <2>3, <2>4
<1> QED BY <1>3, <1>5, <1>6

\* A new entity is announced with the stamps just issued for it.
LEMMA LocalAddInductive ==
    ASSUME Inductive, NEW s \in Server, NEW e \in Entity, NEW A \in SUBSET Registered[s],
           NEW t \in Time, NEW f \in [A -> Writable \cup {Default}], LocalAdd(s, e, A, f, t)
    PROVE  Inductive'
<1> DEFINE i == [a \in Attr |-> IF a \in A THEN StampAt(s, t, f[a]) ELSE NoStamp]
<1>1. A \subseteq Attr /\ \A a \in A : f[a] \in Value
    BY WorldSyncAssumption
<1>2. /\ i \in Info
      /\ \A a \in A : i[a] \in Stamp /\ i[a].id = s /\ i[a].ts = t
      /\ \A a \in Attr : i[a] # NoStamp => a \in A
    BY <1>1, StampAtType DEF Info
<1>3. /\ ReadClock(s, t)
      /\ world' = [world EXCEPT ![s] = @ \cup {e}]
      /\ known' = [known EXCEPT ![s] = @ \cup {e}]
      /\ info' = [info EXCEPT ![s][e] = i]
      /\ chan' = Send(chan, s, InterestedInEntity(s, e), AddMsg(e, i))
      /\ created' = created \cup {e}
      /\ written' = written \cup {<<e, a, i[a]>> : a \in A}
    BY DEF LocalAdd
<1> HIDE DEF i
<1>4. TypeOK' /\ TypeOK
    BY LocalAddType DEF Inductive
<1>5. SyncInfoCoversWorld'
    BY <1>3, <1>4 DEF Inductive, SyncInfoCoversWorld, TypeOK
<1>6. \A a \in Attr : i[a] # NoStamp => <<e, a, i[a]>> \in written'
    BY <1>2, <1>3
<1>7. StampsIssued'
    <2> SUFFICES ASSUME NEW r \in Server, NEW g \in Entity, NEW a \in Attr,
                        info'[r][g][a] # NoStamp
                 PROVE  <<g, a, info'[r][g][a]>> \in written'
        BY DEF StampsIssued, InfoIssued
    <2>1. info'[r][g] = IF r = s /\ g = e THEN i ELSE info[r][g]
        <3>1. info \in [Server -> [Entity -> Info]]
            BY <1>4 DEF TypeOK
        <3> QED BY <1>3, <3>1
    <2>2. CASE r = s /\ g = e
        BY <1>6, <2>1, <2>2
    <2>3. CASE ~(r = s /\ g = e)
        BY <1>3, <2>1, <2>3 DEF Inductive, StampsIssued, InfoIssued
    <2> QED BY <2>2, <2>3
<1>8. MessagesIssued'
    <2>1. AddMsg(e, i) \in IssuedMessage'
        <3>1. AddMsg(e, i) \in Message /\ AddMsg(e, i).ent = e /\ AddMsg(e, i).info = i
            BY <1>2, MessageType DEF AddMsg
        <3> QED BY <1>3, <1>6, <3>1 DEF IssuedMessage, InfoIssued
    <2>2. chan \in [Server \X Server -> Seq(IssuedMessage')]
        BY <1>3, <1>4, IssuedGrows DEF Inductive, MessagesIssued
    <2> QED BY <1>3, <2>1, <2>2, SendType DEF MessagesIssued
<1>9. KnownCreated'
    BY <1>3, <1>4 DEF Inductive, KnownCreated, TypeOK
<1>10. StampsBehindClock' /\ (ClockPrecise => StampIdentifiesValue')
    <2>1. StampsBehindClock /\ (ClockPrecise => StampIdentifiesValue)
        BY DEF Inductive
    <2> DEFINE S == {<<e, a, i[a]>> : a \in A}
    <2>2. S \in SUBSET (Entity \X Attr \X Stamp)
        BY <1>1, <1>2
    <2>3. \A x \in S : x[1] = e /\ x[3].id = s /\ x[3].ts = t
        BY <1>2
    <2>4. \A x, y \in S : x[2] = y[2] => x = y
        OBVIOUS
    <2>5. written' = written \cup S
        BY <1>3
    <2> HIDE DEF S
    <2>6. TypeOK /\ ReadClock(s, t)
        BY <1>3, <1>4
    <2> QED BY <2>1, <2>2, <2>3, <2>4, <2>5, <2>6, NewStamps
<1> QED BY <1>4, <1>5, <1>7, <1>8, <1>9, <1>10 DEF Inductive

\* A removal drops the entity and its infos together.
LEMMA LocalRemoveInductive ==
    ASSUME Inductive, NEW s \in Server, NEW e \in Entity, LocalRemove(s, e)
    PROVE  Inductive'
<1>1. TypeOK /\ TypeOK'
    BY LocalRemoveType DEF Inductive
<1>2. /\ e \in world[s]
      /\ world' = [world EXCEPT ![s] = @ \ {e}]
      /\ known' = [known EXCEPT ![s] = @ \ {e}]
      /\ info' = [info EXCEPT ![s][e] = NoInfo]
      /\ chan' = Send(chan, s, InterestedInEntity(s, e), RemoveMsg(e))
      /\ UNCHANGED <<clock, created, written>>
    BY DEF LocalRemove
<1>3. SyncInfoCoversWorld'
    BY <1>1, <1>2 DEF Inductive, SyncInfoCoversWorld, TypeOK
<1>4. StampsIssued'
    BY <1>1, <1>2 DEF Inductive, StampsIssued, InfoIssued, NoInfo, TypeOK
<1>5. IssuedMessage' = IssuedMessage
    BY <1>2 DEF IssuedMessage, InfoIssued
<1>6. RemoveMsg(e) \in IssuedMessage
    <2>1. e \in created
        BY <1>2 DEF Inductive, KnownCreated, SyncInfoCoversWorld
    <2>2. RemoveMsg(e) \in Message /\ RemoveMsg(e).ent = e /\ RemoveMsg(e).info = NoInfo
        BY NoInfoType, MessageType DEF RemoveMsg
    <2> QED BY <2>1, <2>2 DEF IssuedMessage, InfoIssued, NoInfo
<1>7. MessagesIssued'
    <2>1. chan \in [Server \X Server -> Seq(IssuedMessage)]
        BY DEF Inductive, MessagesIssued
    <2> QED BY <1>2, <1>5, <1>6, <2>1, SendType DEF MessagesIssued
<1>8. KnownCreated'
    BY <1>1, <1>2 DEF Inductive, KnownCreated, TypeOK
<1>9. StampsBehindClock' /\ (ClockPrecise => StampIdentifiesValue')
    BY <1>2 DEF Inductive, StampsBehindClock, StampIdentifiesValue
<1> QED BY <1>1, <1>3, <1>4, <1>7, <1>8, <1>9 DEF Inductive

\* A change that is taken for an echo issues nothing.
LEMMA LocalChangeIgnoredInductive ==
    ASSUME Inductive, NEW s \in Server, NEW e \in Entity, NEW a \in Registered[s],
           NEW v \in Writable, LocalChangeIgnored(s, e, a, v)
    PROVE  Inductive'
<1>1. TypeOK'
    BY LocalChangeIgnoredType DEF Inductive
<1>2. UNCHANGED <<world, known, info, chan, clock, created, written>>
    BY DEF LocalChangeIgnored
<1>3. IssuedMessage' = IssuedMessage
    BY <1>2 DEF IssuedMessage, InfoIssued
<1> QED BY <1>1, <1>2, <1>3
    DEF Inductive, SyncInfoCoversWorld, StampsIssued, InfoIssued, MessagesIssued, KnownCreated,
        StampsBehindClock, StampIdentifiesValue

\* A local change issues one stamp, later than all stamps of its server.
LEMMA LocalChangeAnnouncedInductive ==
    ASSUME Inductive, NEW s \in Server, NEW e \in Entity, NEW a \in Registered[s],
           NEW v \in Writable, NEW t \in Time, LocalChangeAnnounced(s, e, a, v, t)
    PROVE  Inductive'
<1> DEFINE st == StampAt(s, t, v)
           i == [NoInfo EXCEPT ![a] = st]
<1>1. a \in Attr /\ v \in Value
    BY WorldSyncAssumption
<1>2. st \in Stamp /\ st.id = s /\ st.ts = t
    BY <1>1, StampAtType
<1>3. /\ e \in world[s] /\ e \in known[s]
      /\ ReadClock(s, t)
      /\ info' = [info EXCEPT ![s][e][a] = st]
      /\ chan' = SendChange(chan, s, Neighbours(s), e, i)
      /\ written' = written \cup {<<e, a, st>>}
      /\ UNCHANGED <<world, known, created>>
    BY DEF LocalChangeAnnounced
<1>4. i \in Info /\ \A b \in Attr : i[b] # NoStamp => b = a /\ i[b] = st
    BY <1>1, <1>2 DEF NoInfo, Info
<1> HIDE DEF st, i
<1>5. TypeOK /\ TypeOK'
    BY LocalChangeAnnouncedType DEF Inductive
<1>6. SyncInfoCoversWorld'
    BY <1>1, <1>3, <1>5 DEF Inductive, SyncInfoCoversWorld, TypeOK
<1>7. StampsIssued'
    <2> SUFFICES ASSUME NEW r \in Server, NEW g \in Entity, NEW b \in Attr,
                        info'[r][g][b] # NoStamp
                 PROVE  <<g, b, info'[r][g][b]>> \in written'
        BY DEF StampsIssued, InfoIssued
    <2>1. info'[r][g][b] = IF r = s /\ g = e /\ b = a THEN st ELSE info[r][g][b]
        <3>1. info \in [Server -> [Entity -> [Attr -> Stamp \cup {NoStamp}]]]
            BY <1>5 DEF TypeOK, Info
        <3> QED BY <1>1, <1>3, <3>1
    <2>2. CASE r = s /\ g = e /\ b = a
        BY <1>3, <2>1, <2>2
    <2>3. CASE ~(r = s /\ g = e /\ b = a)
        BY <1>3, <2>1, <2>3 DEF Inductive, StampsIssued, InfoIssued
    <2> QED BY <2>2, <2>3
<1>8. MessagesIssued'
    <2>1. ASSUME NEW r \in Server PROVE ChangeMsg(e, Filtered(i, r)) \in IssuedMessage'
        <3>1. /\ ChangeMsg(e, Filtered(i, r)) \in Message
              /\ ChangeMsg(e, Filtered(i, r)).ent = e
              /\ ChangeMsg(e, Filtered(i, r)).info = Filtered(i, r)
            BY <1>4, FilteredType, MessageType DEF ChangeMsg
        <3>2. \A b \in Attr : Filtered(i, r)[b] # NoStamp => <<e, b, Filtered(i, r)[b]>> \in written'
            BY <1>3, <1>4 DEF Filtered
        <3>3. e \in created'
            BY <1>3 DEF Inductive, KnownCreated
        <3> QED BY <3>1, <3>2, <3>3 DEF IssuedMessage, InfoIssued
    <2>2. chan \in [Server \X Server -> Seq(IssuedMessage')]
        BY <1>3, <1>5, IssuedGrows DEF Inductive, MessagesIssued
    <2> QED BY <1>3, <2>1, <2>2, SendChangeType DEF MessagesIssued
<1>9. KnownCreated'
    BY <1>3 DEF Inductive, KnownCreated
<1>10. StampsBehindClock' /\ (ClockPrecise => StampIdentifiesValue')
    <2>1. StampsBehindClock /\ (ClockPrecise => StampIdentifiesValue)
        BY DEF Inductive
    <2> DEFINE S == {<<e, a, st>>}
    <2>2. /\ S \in SUBSET (Entity \X Attr \X Stamp)
          /\ \A x \in S : x[1] = e /\ x[3].id = s /\ x[3].ts = t
          /\ \A x, y \in S : x[2] = y[2] => x = y
          /\ written' = written \cup S
        BY <1>1, <1>2, <1>3
    <2> HIDE DEF S
    <2>3. TypeOK /\ ReadClock(s, t)
        BY <1>3, <1>5
    <2> QED BY <2>1, <2>2, <2>3, NewStamps
<1> QED BY <1>5, <1>6, <1>7, <1>8, <1>9, <1>10 DEF Inductive

\* A handler changes the infos and sends messages, and issues no stamp.
LEMMA DeliverInductive ==
    ASSUME Inductive, NEW r \in Server, NEW s \in Server, Deliver(r, s)
    PROVE  Inductive'
<1> DEFINE m == Head(chan[<<r, s>>])
<1>1. TypeOK /\ TypeOK'
    BY DeliverType DEF Inductive
<1>2. m \in IssuedMessage /\ Received(r, s) \in [Server \X Server -> Seq(IssuedMessage)]
    BY ReceivedType DEF Inductive, MessagesIssued, Deliver
<1>3. \/ HandleRemoteAddedEntity(r, s, m)
      \/ HandleRemoteRemovedEntity(r, s, m)
      \/ HandleRemoteChangedAttributes(r, s, m)
      \/ HandlerThrows(r, s, m)
    BY DEF Deliver
<1> HIDE DEF m
<1>4. m.ent \in Entity /\ m.info \in Info /\ m.ent \in created /\ InfoIssued(m.ent, m.info)
    BY <1>2 DEF IssuedMessage, Message
<1>5. UNCHANGED <<clock, created, written>>
    BY <1>3 DEF HandleRemoteAddedEntity, HandleRemoteRemovedEntity,
                HandleRemoteChangedAttributes, HandlerThrows
<1>6. /\ StampsBehindClock' /\ (ClockPrecise => StampIdentifiesValue')
      /\ IssuedMessage' = IssuedMessage
    BY <1>5 DEF Inductive, StampsBehindClock, StampIdentifiesValue, IssuedMessage, InfoIssued
<1>7. MessagesIssued'
    <2>1. CASE HandleRemoteAddedEntity(r, s, m)
        <3>1. CASE m.ent \in known[s]
            BY <1>2, <1>6, <2>1, <3>1 DEF HandleRemoteAddedEntity, MessagesIssued
        <3>2. CASE m.ent \notin known[s]
            <4>1. chan' = Send(Received(r, s), s, InterestedInEntity(s, m.ent) \ {r}, m)
                BY <2>1, <3>2 DEF HandleRemoteAddedEntity
            <4> QED BY <1>2, <1>6, <4>1, SendType DEF MessagesIssued
        <3> QED BY <3>1, <3>2
    <2>2. CASE HandleRemoteRemovedEntity(r, s, m)
        <3>1. chan' = Send(Received(r, s), s, InterestedInEntity(s, m.ent) \ {r}, m)
            BY <2>2 DEF HandleRemoteRemovedEntity
        <3> QED BY <1>2, <1>6, <3>1, SendType DEF MessagesIssued
    <2>3. CASE HandleRemoteChangedAttributes(r, s, m)
        <3>1. chan' = SendChange(Received(r, s), s, Neighbours(s) \ {r}, m.ent, m.info)
            BY <2>3 DEF HandleRemoteChangedAttributes
        <3> QED BY <1>2, <1>6, <3>1, FilteredIssued, SendChangeType DEF MessagesIssued
    <2>4. CASE HandlerThrows(r, s, m)
        BY <1>2, <1>6, <2>4 DEF HandlerThrows, MessagesIssued
    <2> QED BY <1>3, <2>1, <2>2, <2>3, <2>4
<1>8. SyncInfoCoversWorld' /\ StampsIssued' /\ KnownCreated'
    <2>1. CASE /\ info' = [info EXCEPT ![s][m.ent] = Merged(NoInfo, m.info)]
               /\ world' = [world EXCEPT ![s] = @ \cup {m.ent}]
               /\ known' = [known EXCEPT ![s] = @ \cup {m.ent}]
        <3> DEFINE new == Merged(NoInfo, m.info)
        <3>1. \A a \in Attr : new[a] # NoStamp => <<m.ent, a, new[a]>> \in written
            BY <1>4 DEF Merged, NoInfo, InfoIssued
        <3> HIDE DEF new
        <3>2. info' = [info EXCEPT ![s][m.ent] = new]
            BY <2>1 DEF new
        <3>3. SyncInfoCoversWorld'
            BY <1>1, <1>4, <2>1, <3>2 DEF Inductive, SyncInfoCoversWorld, TypeOK
        <3>4. StampsIssued'
            BY <1>1, <1>4, <1>5, <3>1, <3>2 DEF Inductive, StampsIssued, InfoIssued, TypeOK
        <3>5. KnownCreated'
            BY <1>1, <1>4, <1>5, <2>1 DEF Inductive, KnownCreated, TypeOK
        <3> QED BY <3>3, <3>4, <3>5
    <2>2. CASE /\ info' = [info EXCEPT ![s][m.ent] = NoInfo]
               /\ world' = [world EXCEPT ![s] = @ \ {m.ent}]
               /\ known' = [known EXCEPT ![s] = @ \ {m.ent}]
        <3>1. SyncInfoCoversWorld'
            BY <1>1, <1>4, <2>2 DEF Inductive, SyncInfoCoversWorld, TypeOK
        <3>2. StampsIssued'
            BY <1>1, <1>4, <1>5, <2>2 DEF Inductive, StampsIssued, InfoIssued, NoInfo, TypeOK
        <3>3. KnownCreated'
            BY <1>1, <1>5, <2>2 DEF Inductive, KnownCreated, TypeOK
        <3> QED BY <3>1, <3>2, <3>3
    <2>3. CASE /\ m.ent \in known[s]
               /\ info' = [info EXCEPT ![s][m.ent] = Merged(@, m.info)]
               /\ UNCHANGED <<world, known>>
        <3> DEFINE new == Merged(info[s][m.ent], m.info)
        <3>1. \A a \in Attr : new[a] # NoStamp => <<m.ent, a, new[a]>> \in written
            BY <1>4 DEF Inductive, StampsIssued, Merged, InfoIssued
        <3>2. info' = [info EXCEPT ![s][m.ent] = new]
            BY <1>1, <1>4, <2>3 DEF TypeOK
        <3> HIDE DEF new
        <3>3. SyncInfoCoversWorld'
            BY <1>1, <1>4, <2>3, <3>2 DEF Inductive, SyncInfoCoversWorld, TypeOK
        <3>4. StampsIssued'
            BY <1>1, <1>4, <1>5, <3>1, <3>2 DEF Inductive, StampsIssued, InfoIssued, TypeOK
        <3> QED BY <1>5, <2>3, <3>3, <3>4 DEF Inductive, KnownCreated
    <2>4. CASE UNCHANGED <<world, known, info>>
        BY <1>5, <2>4 DEF Inductive, SyncInfoCoversWorld, StampsIssued, InfoIssued, KnownCreated
    <2>5. CASE HandleRemoteAddedEntity(r, s, m)
        BY <2>1, <2>4, <2>5 DEF HandleRemoteAddedEntity
    <2>6. CASE HandleRemoteRemovedEntity(r, s, m)
        BY <2>2, <2>4, <2>6 DEF HandleRemoteRemovedEntity
    <2>7. CASE HandleRemoteChangedAttributes(r, s, m)
        BY <2>3, <2>4, <2>7 DEF HandleRemoteChangedAttributes
    <2>8. CASE HandlerThrows(r, s, m)
        BY <2>4, <2>8 DEF HandlerThrows
    <2> QED BY <1>3, <2>5, <2>6, <2>7, <2>8
<1> QED BY <1>1, <1>6, <1>7, <1>8 DEF Inductive

\* Nothing changes in a step that leaves the variables alone.
LEMMA StutterInductive == Inductive /\ UNCHANGED vars => Inductive'
<1> SUFFICES ASSUME Inductive, UNCHANGED vars PROVE Inductive'
    OBVIOUS
<1>1. IssuedMessage' = IssuedMessage
    BY DEF vars, IssuedMessage, InfoIssued
<1> QED BY <1>1 DEF vars, Inductive, TypeOK, SyncInfoCoversWorld, StampsIssued, InfoIssued,
                    MessagesIssued, KnownCreated, StampsBehindClock, StampIdentifiesValue

\* The inductive invariant holds in every reachable state.
THEOREM InductiveInvariant == Spec => []Inductive
<1>1. Inductive /\ [Next]_vars => Inductive'
    <2> SUFFICES ASSUME Inductive, [Next]_vars PROVE Inductive'
        OBVIOUS
    <2>1. ASSUME NEW s \in Server, LocalStep(s) PROVE Inductive'
        BY <2>1, LocalAddInductive, LocalRemoveInductive, LocalChangeIgnoredInductive,
           LocalChangeAnnouncedInductive
        DEF LocalStep
    <2>2. ASSUME NEW r \in Server, NEW s \in Server, Deliver(r, s) PROVE Inductive'
        BY <2>2, DeliverInductive
    <2> QED BY <2>1, <2>2, StutterInductive DEF Next
<1> QED BY <1>1, InitInductive, PTL DEF Spec

\* The World of a server and its dictionary of sync infos always hold the same entities,
\* whatever calls arrive and in whatever order: the handlers that look up one after
\* testing the other never miss.
THEOREM SyncInfoCovers == Spec => []SyncInfoCoversWorld
<1>1. Inductive => SyncInfoCoversWorld
    BY DEF Inductive
<1> QED BY <1>1, InductiveInvariant, PTL

\* If no server reads a tick of its clock twice, the tick and the SyncID of a stamp
\* identify the value it carries, on every sync graph and however the clocks of
\* different servers differ.
THEOREM StampsIdentify == ClockPrecise => (Spec => []StampIdentifiesValue)
<1> SUFFICES ASSUME ClockPrecise PROVE Spec => []StampIdentifiesValue
    OBVIOUS
<1>1. Inductive => StampIdentifiesValue
    BY DEF Inductive
<1> QED BY <1>1, InductiveInvariant, PTL

(***************************************************************************)
(* The stamps are last-writer-wins registers                               *)
(***************************************************************************)

\* The abstract operators are the ones WorldSync uses.
LEMMA SameOperators ==
    /\ LWW!Info = Info
    /\ LWW!NoInfo = NoInfo
    /\ \A i, j : LWW!Accepts(i, j) <=> Accepts(i, j)
BY DEF LWW!Info, Info, LWW!Stamp, Stamp, LWW!Time, Time, LWW!NoInfo, NoInfo,
       LWW!Accepts, Accepts, LWW!Newer, Newer

\* Merging only advances an attribute.
LEMMA MergedAdvances ==
    ASSUME NEW i \in Info, NEW j \in Info
    PROVE  LWW!Advances(i, Merged(i, j))
BY SameOperators DEF LWW!Advances, Merged

\* A new entity's infos are stamps just issued.
LEMMA LocalAddIssues ==
    ASSUME Inductive, ClockPrecise, NEW s \in Server, NEW e \in Entity,
           NEW A \in SUBSET Registered[s], NEW t \in Time,
           NEW f \in [A -> Writable \cup {Default}], LocalAdd(s, e, A, f, t)
    PROVE  LWW!Issue(s, e)
<1> DEFINE i == [a \in Attr |-> IF a \in A THEN StampAt(s, t, f[a]) ELSE NoStamp]
           fresh == {<<e, a, i[a]>> : a \in {b \in Attr : i[b] # info[s][e][b]}}
<1>1. A \subseteq Attr /\ \A a \in A : f[a] \in Value
    BY WorldSyncAssumption
<1>2. /\ i \in Info
      /\ \A a \in A : i[a] # NoStamp /\ i[a].id = s /\ i[a].ts = t
      /\ \A a \in Attr : i[a] # NoStamp => a \in A
    BY <1>1, StampAtType DEF Info
<1>3. /\ e \notin created
      /\ ReadClock(s, t)
      /\ info' = [info EXCEPT ![s][e] = i]
      /\ written' = written \cup {<<e, a, i[a]>> : a \in A}
    BY DEF LocalAdd
<1>4. info[s][e] = NoInfo
    BY <1>3 DEF Inductive, KnownCreated, SyncInfoCoversWorld
<1>5. {b \in Attr : i[b] # info[s][e][b]} = A
    BY <1>1, <1>2, <1>4 DEF NoInfo
<1>6. written' = written \cup fresh
    BY <1>3, <1>5
<1>7. \A x \in written : x[3].id = s => x[3].ts # t
    <2>1. \A x \in written : x[3].id \in Server /\ x[3].ts \in Int /\ x[3].ts <= clock[x[3].id]
        BY DEF Inductive, TypeOK, Stamp, StampsBehindClock, Time
    <2>2. clock[s] \in Int /\ t \in Int /\ t > clock[s]
        BY <1>3 DEF Inductive, TypeOK, ReadClock, Time
    <2> QED BY <2>1, <2>2
<1>8. LWW!Advances(info[s][e], i)
    BY <1>2, <1>4, SameOperators DEF LWW!Advances, Accepts, NoInfo
<1>9. \A w \in fresh :
          /\ w[3].id = s
          /\ \A x \in written : x[1] = e /\ x[2] = w[2] /\ x[3].id = s => x[3].ts # w[3].ts
    <2> HIDE DEF i
    <2> TAKE w \in fresh
    <2>1. PICK a \in A : w = <<e, a, i[a]>>
        BY <1>5
    <2>2. w[3].id = s /\ w[3].ts = t
        BY <1>2, <2>1
    <2> QED BY <1>7, <2>2
<1> HIDE DEF i
<1> QED BY <1>2, <1>3, <1>6, <1>8, <1>9, SameOperators DEF LWW!Issue

\* A local change issues one stamp, newer than the one it replaces.
LEMMA LocalChangeIssues ==
    ASSUME Inductive, ClockPrecise, ClockSynced, NEW s \in Server, NEW e \in Entity,
           NEW a \in Registered[s], NEW v \in Writable, NEW t \in Time,
           LocalChangeAnnounced(s, e, a, v, t)
    PROVE  LWW!Issue(s, e)
<1> DEFINE st == StampAt(s, t, v)
           new == [info[s][e] EXCEPT ![a] = st]
           fresh == {<<e, b, new[b]>> : b \in {c \in Attr : new[c] # info[s][e][c]}}
<1>1. a \in Attr /\ v \in Value
    BY WorldSyncAssumption
<1>2. st \in Stamp /\ st # NoStamp /\ st.id = s /\ st.ts = t
    BY <1>1, StampAtType
<1>3. /\ ReadClock(s, t)
      /\ info[s][e][a] # NoStamp /\ info[s][e][a].id # s => t > info[s][e][a].ts
      /\ info' = [info EXCEPT ![s][e][a] = st]
      /\ written' = written \cup {<<e, a, st>>}
    BY DEF LocalChangeAnnounced
<1> HIDE DEF st
<1>4. info[s][e] \in Info /\ new \in Info /\ info' = [info EXCEPT ![s][e] = new]
    BY <1>1, <1>2, <1>3 DEF Inductive, TypeOK, Info
<1>5. \A x \in written : x[3].id = s => x[3].ts < t
    <2>1. \A x \in written : x[3].id \in Server /\ x[3].ts \in Int /\ x[3].ts <= clock[x[3].id]
        BY DEF Inductive, TypeOK, Stamp, StampsBehindClock, Time
    <2>2. clock[s] \in Int /\ t \in Int /\ t > clock[s]
        BY <1>3 DEF Inductive, TypeOK, ReadClock, Time
    <2> QED BY <2>1, <2>2
<1>6. info[s][e][a] # NoStamp => t > info[s][e][a].ts
    <2> SUFFICES ASSUME info[s][e][a] # NoStamp, info[s][e][a].id = s
                 PROVE  t > info[s][e][a].ts
        BY <1>3
    <2>1. <<e, a, info[s][e][a]>> \in written
        BY <1>1 DEF Inductive, StampsIssued, InfoIssued
    <2>2. info[s][e][a].ts < t
        BY <1>5, <2>1
    <2>3. info[s][e][a].ts \in Int /\ t \in Int
        BY <1>1, <1>4 DEF Info, Stamp, Time
    <2> QED BY <2>2, <2>3
<1>7. st # info[s][e][a] /\ Accepts(info[s][e][a], st)
    <2>1. CASE info[s][e][a] = NoStamp
        BY <1>2, <2>1 DEF Accepts
    <2>2. CASE info[s][e][a] # NoStamp
        <3>1. info[s][e][a].ts \in Int /\ t \in Int
            BY <1>1, <1>4, <2>2 DEF Info, Stamp, Time
        <3> QED BY <1>2, <1>6, <2>2, <3>1 DEF Accepts, Newer
    <2> QED BY <2>1, <2>2
<1>8. new[a] = st /\ \A b \in Attr \ {a} : new[b] = info[s][e][b]
    BY <1>1, <1>4 DEF Info
<1>9. LWW!Advances(info[s][e], new)
    BY <1>7, <1>8, SameOperators DEF LWW!Advances
<1>10. {c \in Attr : new[c] # info[s][e][c]} = {a}
    BY <1>1, <1>7, <1>8
<1>11. fresh = {<<e, a, st>>}
    BY <1>8, <1>10
<1>12. written' = written \cup fresh
    BY <1>3, <1>11
<1>13. \A w \in fresh :
          /\ w[3].id = s
          /\ \A x \in written : x[1] = e /\ x[2] = w[2] /\ x[3].id = s => x[3].ts # w[3].ts
    <2>1. \A x \in written : x[3].ts \in Int
        BY DEF Inductive, TypeOK, Stamp, Time
    <2>2. t \in Int
        BY DEF Time
    <2> QED BY <1>2, <1>5, <1>11, <2>1, <2>2
<1> HIDE DEF new
<1> QED BY <1>4, <1>9, <1>12, <1>13, SameOperators DEF LWW!Issue

\* A handler makes a server learn issued stamps, forget an entity, or changes no info.
LEMMA DeliverLearns ==
    ASSUME Inductive, NEW r \in Server, NEW s \in Server, Deliver(r, s)
    PROVE  LWW!LwwNext \/ UNCHANGED LWW!lwwVars
<1> DEFINE m == Head(chan[<<r, s>>])
<1>1. m \in IssuedMessage
    BY ReceivedType DEF Inductive, MessagesIssued, Deliver
<1>2. \/ HandleRemoteAddedEntity(r, s, m)
      \/ HandleRemoteRemovedEntity(r, s, m)
      \/ HandleRemoteChangedAttributes(r, s, m)
      \/ HandlerThrows(r, s, m)
    BY DEF Deliver
<1> HIDE DEF m
<1> DEFINE local == info[s][m.ent]
           new == Merged(local, m.info)
<1>3. m.ent \in Entity /\ m.info \in Info /\ InfoIssued(m.ent, m.info)
    BY <1>1 DEF IssuedMessage, Message
<1>4. local \in Info
    BY <1>3 DEF Inductive, TypeOK
<1>5. written' = written
    BY <1>2 DEF HandleRemoteAddedEntity, HandleRemoteRemovedEntity,
                HandleRemoteChangedAttributes, HandlerThrows
<1>6. ASSUME info' = [info EXCEPT ![s][m.ent] = new] PROVE LWW!Learn(s, m.ent)
    <2>1. new \in Info /\ LWW!Advances(local, new)
        BY <1>3, <1>4, MergedType, MergedAdvances
    <2>2. \A a \in Attr : new[a] # local[a] => <<m.ent, a, new[a]>> \in written
        BY <1>3 DEF InfoIssued, Merged, Accepts
    <2> HIDE DEF new
    <2> QED BY <1>5, <1>6, <2>1, <2>2, SameOperators DEF LWW!Learn
<1>7. ASSUME info' = [info EXCEPT ![s][m.ent] = NoInfo] PROVE LWW!Forget(s, m.ent)
    BY <1>5, <1>7, SameOperators DEF LWW!Forget
<1>8. ASSUME info' = info PROVE UNCHANGED LWW!lwwVars
    BY <1>5, <1>8 DEF LWW!lwwVars
<1>9. CASE HandleRemoteAddedEntity(r, s, m)
    <2>1. CASE m.ent \in known[s]
        BY <1>8, <1>9, <2>1 DEF HandleRemoteAddedEntity
    <2>2. CASE m.ent \notin known[s]
        <3>1. local = NoInfo
            BY <1>3, <2>2 DEF Inductive, SyncInfoCoversWorld
        <3>2. info' = [info EXCEPT ![s][m.ent] = new]
            BY <1>9, <2>2, <3>1 DEF HandleRemoteAddedEntity
        <3> QED BY <1>3, <1>6, <3>2 DEF LWW!LwwNext
    <2> QED BY <2>1, <2>2
<1>10. CASE HandleRemoteRemovedEntity(r, s, m)
    BY <1>3, <1>7, <1>8, <1>10 DEF HandleRemoteRemovedEntity, LWW!LwwNext
<1>11. CASE HandleRemoteChangedAttributes(r, s, m)
    <2>1. info' = [info EXCEPT ![s][m.ent] = new] \/ info' = info
        BY <1>3, <1>11 DEF HandleRemoteChangedAttributes, Inductive, TypeOK
    <2> QED BY <1>3, <1>6, <1>8, <2>1 DEF LWW!LwwNext
<1>12. CASE HandlerThrows(r, s, m)
    BY <1>8, <1>12 DEF HandlerThrows
<1> QED BY <1>2, <1>9, <1>10, <1>11, <1>12

\* With clocks that never show a tick twice and are past every stamp received, the sync
\* infos of all servers implement last-writer-wins registers: no server ever replaces a
\* stamp by an older one, or holds one that nobody issued, on any sync graph.
THEOREM RegistersImplemented == ClockPrecise /\ ClockSynced => (Spec => Registers)
<1> SUFFICES ASSUME ClockPrecise, ClockSynced PROVE Spec => Registers
    OBVIOUS
<1>1. Init => LWW!LwwInit
    BY SameOperators DEF Init, LWW!LwwInit
<1>2. Inductive /\ [Next]_vars => [LWW!LwwNext]_(LWW!lwwVars)
    <2> SUFFICES ASSUME Inductive, [Next]_vars
                 PROVE  LWW!LwwNext \/ UNCHANGED LWW!lwwVars
        OBVIOUS
    <2>1. ASSUME NEW s \in Server, NEW e \in Entity, LocalRemove(s, e)
          PROVE  LWW!LwwNext
        BY <2>1, SameOperators DEF LocalRemove, LWW!LwwNext, LWW!Forget
    <2>2. ASSUME NEW s \in Server, NEW e \in Entity, NEW a \in Registered[s], NEW v \in Writable,
                 LocalChangeIgnored(s, e, a, v)
          PROVE  UNCHANGED LWW!lwwVars
        BY <2>2 DEF LocalChangeIgnored, LWW!lwwVars
    <2>3. ASSUME NEW s \in Server, LocalStep(s) PROVE LWW!LwwNext \/ UNCHANGED LWW!lwwVars
        BY <2>1, <2>2, <2>3, LocalAddIssues, LocalChangeIssues DEF LocalStep, LWW!LwwNext
    <2>4. ASSUME NEW r \in Server, NEW s \in Server, Deliver(r, s)
          PROVE  LWW!LwwNext \/ UNCHANGED LWW!lwwVars
        BY <2>4, DeliverLearns
    <2>5. CASE UNCHANGED vars
        BY <2>5 DEF vars, LWW!lwwVars
    <2> QED BY <2>3, <2>4, <2>5 DEF Next
<1> QED BY <1>1, <1>2, InductiveInvariant, PTL DEF Spec, Registers, LWW!LwwSpec


(***************************************************************************)
(* Values follow the sync infos                                            *)
(***************************************************************************)

\* Processing stamps keeps the values of registered attributes equal to those of the
\* infos, and leaves only echoes of the default value in the ignore set.
LEMMA ProcessedFollows ==
    ASSUME NEW s \in Server, NEW e \in Entity, NEW vals \in [Attr -> Value],
           NEW local \in Info, NEW remote \in Info,
           \A a \in Registered[s] : vals[a] = StampedValue(local[a]),
           \A w \in ignored[s] : w[3] = Default
    PROVE  /\ \A a \in Registered[s] :
                 ProcessedValues(s, vals, local, remote)[a] = StampedValue(Merged(local, remote)[a])
           /\ \A w \in ProcessedIgnores(s, e, vals, local, remote) : w[3] = Default
<1>1. Registered[s] \subseteq Attr
    BY WorldSyncAssumption
<1>2. ASSUME NEW a \in SuggestedAttrs(s, local, remote)
      PROVE  /\ a \in Registered[s] /\ Accepts(local[a], remote[a]) /\ remote[a] # NoStamp
             /\ vals[a] = remote[a].value => remote[a].value = Default
    <2>1. /\ a \in Registered[s] /\ Accepts(local[a], remote[a])
          /\ local[a] = NoStamp \/ local[a].value # remote[a].value
        BY DEF SuggestedAttrs, Suggests
    <2>2. remote[a] # NoStamp
        BY <2>1 DEF Accepts
    <2> QED BY <2>1, <2>2 DEF StampedValue
<1>3. ASSUME NEW a \in Registered[s]
      PROVE  ProcessedValues(s, vals, local, remote)[a] = StampedValue(Merged(local, remote)[a])
    <2>1. Merged(local, remote)[a] = IF Accepts(local[a], remote[a]) THEN remote[a] ELSE local[a]
        BY <1>1 DEF Merged
    <2>2. ProcessedValues(s, vals, local, remote)[a]
              = IF a \in SuggestedAttrs(s, local, remote) THEN remote[a].value ELSE vals[a]
        BY <1>1 DEF ProcessedValues
    <2>3. CASE a \in SuggestedAttrs(s, local, remote)
        BY <1>2, <2>1, <2>2, <2>3 DEF StampedValue
    <2>4. CASE a \notin SuggestedAttrs(s, local, remote) /\ Accepts(local[a], remote[a])
        <3>1. local[a] # NoStamp /\ local[a].value = remote[a].value /\ remote[a] # NoStamp
            BY <1>1, <2>4 DEF SuggestedAttrs, Suggests, Accepts
        <3> QED BY <2>1, <2>2, <2>4, <3>1 DEF StampedValue
    <2>5. CASE ~Accepts(local[a], remote[a])
        <3>1. a \notin SuggestedAttrs(s, local, remote)
            BY <2>5, <1>2
        <3> QED BY <2>1, <2>2, <2>5, <3>1
    <2> QED BY <2>3, <2>4, <2>5
<1>4. \A w \in ProcessedIgnores(s, e, vals, local, remote) : w[3] = Default
    BY <1>2 DEF ProcessedIgnores
<1> QED BY <1>3, <1>4

\* A change of one entity at one server: its values follow its infos, and so do all others.
LEMMA OneEntityFollows ==
    ASSUME ValuesFollow, NEW s \in Server, NEW e \in Entity,
           \A r \in Server, g \in Entity :
               r # s \/ g # e => value'[r][g] = value[r][g] /\ info'[r][g] = info[r][g],
           \A a \in Registered[s] : value'[s][e][a] = StampedValue(info'[s][e][a]),
           \A r \in Server \ {s} : ignored'[r] = ignored[r],
           \A w \in ignored'[s] : w[3] = Default
    PROVE  ValuesFollow'
<1>1. ASSUME NEW r \in Server, NEW g \in Entity, NEW a \in Registered[r]
      PROVE  value'[r][g][a] = StampedValue(info'[r][g][a])
    BY DEF ValuesFollow
<1>2. \A r \in Server : \A w \in ignored'[r] : w[3] = Default
    BY DEF ValuesFollow
<1> QED BY <1>1, <1>2 DEF ValuesFollow, StampedValue

\* A new entity has the values it is announced with; an attribute that does not exist has
\* the default value.
LEMMA LocalAddFollows ==
    ASSUME TypeOK, ValuesFollow, NEW s \in Server, NEW e \in Entity,
           NEW A \in SUBSET Registered[s], NEW t \in Time,
           NEW f \in [A -> Writable \cup {Default}], LocalAdd(s, e, A, f, t)
    PROVE  ValuesFollow'
<1> DEFINE i == [a \in Attr |-> IF a \in A THEN StampAt(s, t, f[a]) ELSE NoStamp]
           vals == [a \in Attr |-> IF a \in A THEN f[a] ELSE Default]
<1>1. Registered[s] \subseteq Attr /\ \A a \in A : f[a] \in Value
    BY WorldSyncAssumption
<1>2. \A a \in Registered[s] : vals[a] = StampedValue(i[a])
    BY <1>1, StampAtType DEF StampedValue
<1>3. /\ value' = [value EXCEPT ![s][e] = vals]
      /\ info' = [info EXCEPT ![s][e] = i]
      /\ ignored' = [ignored EXCEPT ![s] = ignored[s]]
    BY DEF LocalAdd, TypeOK
<1>4. \A w \in ignored[s] : w[3] = Default
    BY DEF ValuesFollow
<1> HIDE DEF i, vals
<1>5. /\ \A q \in Server, g \in Entity :
             q # s \/ g # e => value'[q][g] = value[q][g] /\ info'[q][g] = info[q][g]
      /\ value'[s][e] = vals /\ info'[s][e] = i /\ ignored'[s] = ignored[s]
      /\ \A q \in Server \ {s} : ignored'[q] = ignored[q]
    BY <1>3 DEF TypeOK
<1> QED BY <1>2, <1>4, <1>5, OneEntityFollows

\* A removed entity is reset together with its infos.
LEMMA RemovalFollows ==
    ASSUME TypeOK, ValuesFollow, NEW s \in Server, NEW e \in Entity,
           value' = [value EXCEPT ![s][e] = [a \in Attr |-> Default]],
           info' = [info EXCEPT ![s][e] = NoInfo], ignored' = ignored
    PROVE  ValuesFollow'
<1> DEFINE vals == [a \in Attr |-> Default]
<1>1. \A a \in Registered[s] : vals[a] = StampedValue(NoInfo[a])
    BY WorldSyncAssumption DEF StampedValue, NoInfo
<1>2. ignored' = [ignored EXCEPT ![s] = ignored[s]] /\ \A w \in ignored[s] : w[3] = Default
    BY DEF TypeOK, ValuesFollow
<1>3. value' = [value EXCEPT ![s][e] = vals]
    OBVIOUS
<1> HIDE DEF vals
<1>4. /\ \A q \in Server, g \in Entity :
             q # s \/ g # e => value'[q][g] = value[q][g] /\ info'[q][g] = info[q][g]
      /\ value'[s][e] = vals /\ info'[s][e] = NoInfo /\ ignored'[s] = ignored[s]
      /\ \A q \in Server \ {s} : ignored'[q] = ignored[q]
    BY <1>2, <1>3 DEF TypeOK
<1> QED BY <1>1, <1>2, <1>4, OneEntityFollows

\* An announced change sets the value and the value of the stamp.
LEMMA LocalChangeFollows ==
    ASSUME TypeOK, ValuesFollow, NEW s \in Server, NEW e \in Entity, NEW a \in Registered[s],
           NEW v \in Writable, NEW t \in Time, LocalChangeAnnounced(s, e, a, v, t)
    PROVE  ValuesFollow'
<1> DEFINE st == StampAt(s, t, v)
           i == [info[s][e] EXCEPT ![a] = st]
           vals == [value[s][e] EXCEPT ![a] = v]
<1>1. a \in Attr /\ v \in Value
    BY WorldSyncAssumption
<1>2. st # NoStamp /\ st.value = v
    BY <1>1, StampAtType
<1>3. /\ value' = [value EXCEPT ![s][e][a] = v]
      /\ info' = [info EXCEPT ![s][e][a] = st]
      /\ ignored' = ignored
    BY DEF LocalChangeAnnounced
<1> HIDE DEF st
<1>4. value[s][e] \in [Attr -> Value] /\ info[s][e] \in [Attr -> Stamp \cup {NoStamp}]
    BY DEF TypeOK, Info
<1>5. \A b \in Registered[s] : vals[b] = StampedValue(i[b])
    <2>1. Registered[s] \subseteq Attr
        BY WorldSyncAssumption
    <2> QED BY <1>2, <1>4, <2>1 DEF StampedValue, ValuesFollow
<1>6. /\ value' = [value EXCEPT ![s][e] = vals]
      /\ info' = [info EXCEPT ![s][e] = i]
      /\ ignored' = [ignored EXCEPT ![s] = ignored[s]]
    BY <1>3 DEF TypeOK
<1>7. \A w \in ignored[s] : w[3] = Default
    BY DEF ValuesFollow
<1> HIDE DEF i, vals
<1>8. /\ \A q \in Server, g \in Entity :
             q # s \/ g # e => value'[q][g] = value[q][g] /\ info'[q][g] = info[q][g]
      /\ value'[s][e] = vals /\ info'[s][e] = i /\ ignored'[s] = ignored[s]
      /\ \A q \in Server \ {s} : ignored'[q] = ignored[q]
    BY <1>6 DEF TypeOK
<1> QED BY <1>5, <1>7, <1>8, OneEntityFollows

\* A handler stores values and stamps together.
LEMMA DeliverFollows ==
    ASSUME Inductive, ValuesFollow, NEW r \in Server, NEW s \in Server, Deliver(r, s)
    PROVE  ValuesFollow'
<1> DEFINE m == Head(chan[<<r, s>>])
<1>1. TypeOK /\ m \in IssuedMessage
    BY ReceivedType DEF Inductive, MessagesIssued, Deliver
<1>2. \/ HandleRemoteAddedEntity(r, s, m)
      \/ HandleRemoteRemovedEntity(r, s, m)
      \/ HandleRemoteChangedAttributes(r, s, m)
      \/ HandlerThrows(r, s, m)
    BY DEF Deliver
<1> HIDE DEF m
<1>3. m.ent \in Entity /\ m.info \in Info
    BY <1>1 DEF IssuedMessage, Message
<1>4. ASSUME UNCHANGED <<value, info, ignored>> PROVE ValuesFollow'
    BY <1>4 DEF ValuesFollow, StampedValue
<1>5. ASSUME NEW vals \in [Attr -> Value], NEW local \in Info,
             \A a \in Registered[s] : vals[a] = StampedValue(local[a]),
             value' = [value EXCEPT ![s][m.ent] = ProcessedValues(s, vals, local, m.info)],
             info' = [info EXCEPT ![s][m.ent] = Merged(local, m.info)],
             ignored' = [ignored EXCEPT ![s] = ProcessedIgnores(s, m.ent, vals, local, m.info)]
      PROVE  ValuesFollow'
    <2>1. \A w \in ignored[s] : w[3] = Default
        BY DEF ValuesFollow
    <2>2. /\ \A a \in Registered[s] :
                 ProcessedValues(s, vals, local, m.info)[a] = StampedValue(Merged(local, m.info)[a])
          /\ \A w \in ProcessedIgnores(s, m.ent, vals, local, m.info) : w[3] = Default
        BY <1>3, <1>5, <2>1, ProcessedFollows
    <2>3. /\ \A q \in Server, g \in Entity :
                 q # s \/ g # m.ent => value'[q][g] = value[q][g] /\ info'[q][g] = info[q][g]
          /\ value'[s][m.ent] = ProcessedValues(s, vals, local, m.info)
          /\ info'[s][m.ent] = Merged(local, m.info)
          /\ ignored'[s] = ProcessedIgnores(s, m.ent, vals, local, m.info)
          /\ \A q \in Server \ {s} : ignored'[q] = ignored[q]
        BY <1>1, <1>3, <1>5 DEF TypeOK
    <2> QED BY <1>3, <2>2, <2>3, OneEntityFollows
<1>6. CASE HandleRemoteAddedEntity(r, s, m)
    <2>1. CASE m.ent \in known[s]
        BY <1>4, <1>6, <2>1 DEF HandleRemoteAddedEntity
    <2>2. CASE m.ent \notin known[s]
        <3> DEFINE vals == [a \in Attr |-> Default]
        <3>1. vals \in [Attr -> Value] /\ \A a \in Registered[s] : vals[a] = StampedValue(NoInfo[a])
            BY WorldSyncAssumption DEF StampedValue, NoInfo
        <3>2. /\ value' = [value EXCEPT ![s][m.ent] = ProcessedValues(s, vals, NoInfo, m.info)]
              /\ info' = [info EXCEPT ![s][m.ent] = Merged(NoInfo, m.info)]
              /\ ignored' = [ignored EXCEPT ![s] = ProcessedIgnores(s, m.ent, vals, NoInfo, m.info)]
            BY <1>6, <2>2 DEF HandleRemoteAddedEntity
        <3> HIDE DEF vals
        <3> QED BY <1>5, <3>1, <3>2, NoInfoType
    <2> QED BY <2>1, <2>2
<1>7. CASE HandleRemoteRemovedEntity(r, s, m)
    BY <1>1, <1>3, <1>4, <1>7, RemovalFollows DEF HandleRemoteRemovedEntity
<1>8. CASE HandleRemoteChangedAttributes(r, s, m)
    <2>1. CASE m.ent \in known[s]
        <3> DEFINE vals == value[s][m.ent]
                   local == info[s][m.ent]
        <3>1. /\ vals \in [Attr -> Value] /\ local \in Info
              /\ \A a \in Registered[s] : vals[a] = StampedValue(local[a])
            BY <1>1, <1>3 DEF TypeOK, ValuesFollow
        <3>2. /\ value' = [value EXCEPT ![s][m.ent] = ProcessedValues(s, vals, local, m.info)]
              /\ info' = [info EXCEPT ![s][m.ent] = Merged(local, m.info)]
              /\ ignored' = [ignored EXCEPT ![s] = ProcessedIgnores(s, m.ent, vals, local, m.info)]
            BY <1>1, <1>3, <1>8, <2>1 DEF HandleRemoteChangedAttributes, TypeOK
        <3> HIDE DEF vals, local
        <3> QED BY <1>5, <3>1, <3>2
    <2>2. CASE m.ent \notin known[s]
        BY <1>4, <1>8, <2>2 DEF HandleRemoteChangedAttributes
    <2> QED BY <2>1, <2>2
<1>9. CASE HandlerThrows(r, s, m)
    BY <1>4, <1>9 DEF HandlerThrows
<1> QED BY <1>2, <1>6, <1>7, <1>8, <1>9

\* If local code never writes the default value, the value of every registered attribute is
\* that of its sync info, in every reachable state of every sync graph.
THEOREM ValuesFollowInfos == Default \notin Writable => (Spec => []ValuesFollow)
<1> SUFFICES ASSUME Default \notin Writable PROVE Spec => []ValuesFollow
    OBVIOUS
<1>1. Init => ValuesFollow
    BY WorldSyncAssumption DEF Init, ValuesFollow, StampedValue, NoInfo
<1>2. Inductive /\ ValuesFollow /\ [Next]_vars => ValuesFollow'
    <2> SUFFICES ASSUME Inductive, ValuesFollow, [Next]_vars PROVE ValuesFollow'
        OBVIOUS
    <2>1. TypeOK
        BY DEF Inductive
    <2>2. ASSUME NEW s \in Server, LocalStep(s) PROVE ValuesFollow'
        <3>1. PICK e \in Entity :
                  \/ \E A \in SUBSET Registered[s], t \in Time :
                        \E f \in [A -> Writable \cup {Default}] : LocalAdd(s, e, A, f, t)
                  \/ LocalRemove(s, e)
                  \/ \E a \in Registered[s], v \in Writable : LocalChangeIgnored(s, e, a, v)
                  \/ \E a \in Registered[s], v \in Writable, t \in Time :
                        LocalChangeAnnounced(s, e, a, v, t)
            BY <2>2 DEF LocalStep
        <3>2. CASE LocalRemove(s, e)
            BY <2>1, <3>2, RemovalFollows DEF LocalRemove
        <3>3. ASSUME NEW a \in Registered[s], NEW v \in Writable
              PROVE  ~LocalChangeIgnored(s, e, a, v)
            BY DEF LocalChangeIgnored, ValuesFollow
        <3> QED BY <2>1, <3>1, <3>2, <3>3, LocalAddFollows, LocalChangeFollows
    <2>3. ASSUME NEW r \in Server, NEW s \in Server, Deliver(r, s) PROVE ValuesFollow'
        BY <2>3, DeliverFollows
    <2>4. CASE UNCHANGED vars
        BY <2>4 DEF vars, ValuesFollow, StampedValue
    <2> QED BY <2>2, <2>3, <2>4 DEF Next
<1> QED BY <1>1, <1>2, InductiveInvariant, PTL DEF Spec

\* If local code never writes the default value, no change of it is mistaken for the echo of
\* a remote change: an attribute of an entity changes only together with its stamp, so that
\* every local change is announced.
THEOREM ChangesAreStamped == Default \notin Writable => (Spec => EveryChangeIsStamped)
<1> SUFFICES ASSUME Default \notin Writable PROVE Spec => EveryChangeIsStamped
    OBVIOUS
<1> DEFINE Stamped == \A s \in Server : \A e \in world[s] \cap world'[s] : \A a \in Attr :
                          value'[s][e][a] # value[s][e][a] => info'[s][e][a] # info[s][e][a]
<1>1. Inductive /\ ValuesFollow /\ [Next]_vars => Stamped \/ UNCHANGED vars
    <2> SUFFICES ASSUME Inductive, ValuesFollow, Next PROVE Stamped
        OBVIOUS
    <2>1. TypeOK /\ \A s \in Server : world[s] \subseteq created
        BY DEF Inductive, SyncInfoCoversWorld, KnownCreated
    <2>2. ASSUME NEW s \in Server, NEW e \in Entity, NEW A \in SUBSET Registered[s], NEW t \in Time,
                 NEW f \in [A -> Writable \cup {Default}], LocalAdd(s, e, A, f, t)
          PROVE  Stamped
        <3>1. \A r \in Server : \A g \in world[r] : value'[r][g] = value[r][g]
            BY <2>1, <2>2 DEF LocalAdd, TypeOK
        <3> QED BY <3>1
    <2>3. ASSUME NEW s \in Server, NEW e \in Entity, LocalRemove(s, e)
          PROVE  Stamped
        <3>1. \A r \in Server : \A g \in world'[r] : value'[r][g] = value[r][g]
            BY <2>1, <2>3 DEF LocalRemove, TypeOK
        <3> QED BY <3>1
    <2>4. ASSUME NEW s \in Server, NEW e \in Entity, NEW a \in Registered[s], NEW v \in Writable
          PROVE  ~LocalChangeIgnored(s, e, a, v)
        BY DEF LocalChangeIgnored, ValuesFollow
    <2>5. ASSUME NEW s \in Server, NEW e \in Entity, NEW a \in Registered[s], NEW v \in Writable,
                 NEW t \in Time, LocalChangeAnnounced(s, e, a, v, t)
          PROVE  Stamped
        <3>1. a \in Attr /\ v \in Value
            BY WorldSyncAssumption
        <3>2. \A r \in Server : \A g \in world[r] : \A b \in Attr :
                  r # s \/ g # e \/ b # a => value'[r][g][b] = value[r][g][b]
            BY <2>1, <2>5, <3>1 DEF LocalChangeAnnounced, TypeOK
        <3>3. info[s][e][a] # info'[s][e][a]
            <4>1. info'[s][e][a] = StampAt(s, t, v)
                BY <2>1, <2>5, <3>1 DEF LocalChangeAnnounced, TypeOK, Info
            <4>2. StampedValue(StampAt(s, t, v)) = v
                BY <3>1, StampAtType DEF StampedValue
            <4>3. StampedValue(info[s][e][a]) # v
                BY <2>5 DEF LocalChangeAnnounced, ValuesFollow
            <4> QED BY <4>1, <4>2, <4>3
        <3> QED BY <3>2, <3>3
    <2>6. ASSUME NEW r \in Server, NEW s \in Server, Deliver(r, s)
          PROVE  Stamped
        <3> DEFINE m == Head(chan[<<r, s>>])
        <3>1. m \in IssuedMessage
            BY <2>6, ReceivedType DEF Inductive, MessagesIssued, Deliver
        <3>2. \/ HandleRemoteAddedEntity(r, s, m)
              \/ HandleRemoteRemovedEntity(r, s, m)
              \/ HandleRemoteChangedAttributes(r, s, m)
              \/ HandlerThrows(r, s, m)
            BY <2>6 DEF Deliver
        <3> HIDE DEF m
        <3>3. m.ent \in Entity /\ m.info \in Info
            BY <3>1 DEF IssuedMessage, Message
        <3>4. CASE HandleRemoteAddedEntity(r, s, m)
            <4>1. CASE m.ent \in known[s]
                BY <3>4, <4>1 DEF HandleRemoteAddedEntity
            <4>2. CASE m.ent \notin known[s]
                <5>1. PICK w : value' = [value EXCEPT ![s][m.ent] = w]
                    BY <3>4, <4>2 DEF HandleRemoteAddedEntity
                <5>2. m.ent \notin world[s]
                    BY <4>2 DEF Inductive, SyncInfoCoversWorld
                <5>3. \A q \in Server : \A g \in world[q] : value'[q][g] = value[q][g]
                    BY <2>1, <3>3, <5>1, <5>2 DEF TypeOK
                <5> QED BY <5>3
            <4> QED BY <4>1, <4>2
        <3>5. CASE HandleRemoteRemovedEntity(r, s, m)
            <4>1. CASE m.ent \in known[s]
                <5>1. PICK w : value' = [value EXCEPT ![s][m.ent] = w]
                    BY <3>5, <4>1 DEF HandleRemoteRemovedEntity
                <5>2. world' = [world EXCEPT ![s] = @ \ {m.ent}]
                    BY <3>5, <4>1 DEF HandleRemoteRemovedEntity
                <5>3. \A q \in Server : \A g \in world'[q] : value'[q][g] = value[q][g]
                    BY <2>1, <3>3, <5>1, <5>2 DEF TypeOK
                <5> QED BY <5>3
            <4>2. CASE m.ent \notin known[s]
                BY <3>5, <4>2 DEF HandleRemoteRemovedEntity
            <4> QED BY <4>1, <4>2
        <3>6. CASE HandleRemoteChangedAttributes(r, s, m) /\ m.ent \in known[s]
            <4> DEFINE vals == value[s][m.ent]
                       local == info[s][m.ent]
            <4>1. \A q \in Server : \A g \in world[q] :
                      q # s \/ g # m.ent => value'[q][g] = value[q][g]
                BY <2>1, <3>3, <3>6 DEF HandleRemoteChangedAttributes, TypeOK
            <4>2. /\ value'[s][m.ent] = ProcessedValues(s, vals, local, m.info)
                  /\ info'[s][m.ent] = Merged(local, m.info)
                BY <2>1, <3>3, <3>6 DEF HandleRemoteChangedAttributes, TypeOK
            <4>3. ASSUME NEW a \in Attr,
                         ProcessedValues(s, vals, local, m.info)[a] # vals[a]
                  PROVE  Merged(local, m.info)[a] # local[a]
                <5>1. Accepts(local[a], m.info[a])
                    BY <4>3 DEF ProcessedValues, SuggestedAttrs, Suggests
                <5>2. Merged(local, m.info)[a] = m.info[a]
                    BY <5>1 DEF Merged
                <5>3. local[a] # NoStamp => local[a].ts \in Int /\ local[a].id \in Int
                    BY <2>1, <3>3, StampAssumption DEF TypeOK, Info, Stamp, Time
                <5> QED BY <5>1, <5>2, <5>3 DEF Accepts, Newer
            <4> QED BY <4>1, <4>2, <4>3
        <3>7. CASE value' = value
            BY <3>7
        <3> QED BY <3>2, <3>4, <3>5, <3>6, <3>7 DEF HandleRemoteChangedAttributes, HandlerThrows
    <2> HIDE DEF Stamped
    <2> QED BY <2>2, <2>3, <2>4, <2>5, <2>6 DEF Next, LocalStep
<1>2. Stamped \/ UNCHANGED vars => [Stamped]_vars
    OBVIOUS
<1>3. Spec => []ValuesFollow
    BY ValuesFollowInfos
<1> QED BY <1>1, <1>2, <1>3, InductiveInvariant, PTL DEF Spec, EveryChangeIsStamped

(***************************************************************************)
(* Messages on a link                                                      *)
(***************************************************************************)

\* What a sequence holds after one more element.
LEMMA Appended ==
    ASSUME NEW S, NEW q \in Seq(S), NEW m \in S
    PROVE  /\ Append(q, m) \in Seq(S) /\ Len(q) \in Int
           /\ DOMAIN Append(q, m) = DOMAIN q \cup {Len(q) + 1}
           /\ \A n \in DOMAIN q : n \in Int /\ n < Len(q) + 1 /\ Append(q, m)[n] = q[n]
           /\ Append(q, m)[Len(q) + 1] = m
           /\ Len(q) + 1 \notin DOMAIN q
OBVIOUS

\* What it holds after its head is gone.
LEMMA Shortened ==
    ASSUME NEW S, NEW q \in Seq(S), q # <<>>
    PROVE  /\ Tail(q) \in Seq(S)
           /\ Head(q) = q[1] /\ 1 \in DOMAIN q
           /\ \A n \in DOMAIN Tail(q) : n \in Int /\ n + 1 \in DOMAIN q /\ n + 1 # 1 /\ Tail(q)[n] = q[n + 1]
           /\ \A n \in DOMAIN q :
                 n \in Int /\ (n = 1 \/ (n > 1 /\ n - 1 \in DOMAIN Tail(q) /\ Tail(q)[n - 1] = q[n]))
<1>1. PICK l \in Nat : l = Len(q)
    OBVIOUS
<1>2. /\ l > 0 /\ DOMAIN q = 1 .. l /\ Tail(q) \in Seq(S) /\ DOMAIN Tail(q) = 1 .. (l - 1)
      /\ Head(q) = q[1]
    BY <1>1
<1>3. \A n \in 1 .. (l - 1) : Tail(q)[n] = q[n + 1]
    BY <1>1, <1>2
<1>4. ASSUME NEW n \in DOMAIN q, n # 1
      PROVE  n > 1 /\ n - 1 \in DOMAIN Tail(q) /\ Tail(q)[n - 1] = q[n]
    <2>1. n \in Int /\ n > 1 /\ n - 1 \in 1 .. (l - 1)
        BY <1>2, <1>4
    <2>2. (n - 1) + 1 = n
        BY <2>1
    <2> QED BY <1>2, <1>3, <2>1, <2>2
<1>5. ASSUME NEW n \in DOMAIN Tail(q)
      PROVE  n \in Int /\ n + 1 \in DOMAIN q /\ n + 1 # 1 /\ Tail(q)[n] = q[n + 1]
    <2>1. n \in Int /\ n >= 1 /\ n <= l - 1
        BY <1>2, <1>5
    <2> QED BY <1>2, <1>3, <2>1
<1> QED BY <1>2, <1>4, <1>5

\* What a link carries about an entity after one more message.
LEMMA AppendedLink ==
    ASSUME NEW q \in Seq(Message), NEW m \in Message, NEW e
    PROVE  /\ Silent(Append(q, m), e) <=> Silent(q, e) /\ m.ent # e
           /\ \A type : Carries(Append(q, m), type, e)
                            <=> Carries(q, type, e) \/ (m.ent = e /\ m.type = type)
           /\ AddsFirst(q, e) /\ (m.ent = e => m.type # "addEntity") => AddsFirst(Append(q, m), e)
           /\ Silent(q, e) /\ m.ent = e /\ m.type = "addEntity" => AddsFirst(Append(q, m), e)
<1> DEFINE p == Append(q, m)
           k == Len(q) + 1
<1>1. /\ k \in Int /\ DOMAIN p = DOMAIN q \cup {k} /\ p[k] = m /\ k \notin DOMAIN q
      /\ \A n \in DOMAIN q : n \in Int /\ n < k /\ p[n] = q[n]
    BY Appended
<1> HIDE DEF p, k
<1>2. Silent(p, e) <=> Silent(q, e) /\ m.ent # e
    BY <1>1 DEF Silent
<1>3. ASSUME NEW type PROVE Carries(p, type, e) <=> Carries(q, type, e) \/ (m.ent = e /\ m.type = type)
    BY <1>1 DEF Carries
<1>4. ASSUME AddsFirst(q, e), m.ent = e => m.type # "addEntity" PROVE AddsFirst(p, e)
    <2>1. PICK n \in DOMAIN q :
              /\ q[n].ent = e /\ q[n].type = "addEntity"
              /\ \A j \in DOMAIN q \ {n} : q[j].ent = e => j > n /\ q[j].type # "addEntity"
        BY <1>4 DEF AddsFirst
    <2>2. /\ n \in DOMAIN p /\ p[n].ent = e /\ p[n].type = "addEntity"
          /\ \A j \in DOMAIN p \ {n} : p[j].ent = e => j > n /\ p[j].type # "addEntity"
        BY <1>1, <1>4, <2>1
    <2> QED BY <2>2 DEF AddsFirst
<1>5. ASSUME Silent(q, e), m.ent = e, m.type = "addEntity" PROVE AddsFirst(p, e)
    BY <1>1, <1>5 DEF AddsFirst, Silent
<1> QED BY <1>2, <1>3, <1>4, <1>5 DEF p

\* What a link carries about an entity after its oldest message is taken.
LEMMA ShortenedLink ==
    ASSUME NEW q \in Seq(Message), q # <<>>, NEW e
    PROVE  /\ Silent(q, e) => Silent(Tail(q), e) /\ Head(q).ent # e
           /\ \A type : Carries(Tail(q), type, e) => Carries(q, type, e)
           /\ \A type : Carries(q, type, e) =>
                  Carries(Tail(q), type, e) \/ (Head(q).ent = e /\ Head(q).type = type)
           /\ \A type : Head(q).ent = e /\ Head(q).type = type => Carries(q, type, e)
           /\ AddsFirst(q, e) /\ Head(q).ent # e => AddsFirst(Tail(q), e)
           /\ AddsFirst(q, e) /\ Head(q).ent = e =>
                  Head(q).type = "addEntity" /\ ~Carries(Tail(q), "addEntity", e)
<1> DEFINE p == Tail(q)
           h == Head(q)
<1>1. /\ h = q[1] /\ 1 \in DOMAIN q
      /\ \A n \in DOMAIN p : n \in Int /\ n + 1 \in DOMAIN q /\ n + 1 # 1 /\ p[n] = q[n + 1]
      /\ \A n \in DOMAIN q : n \in Int /\ (n = 1 \/ (n > 1 /\ n - 1 \in DOMAIN p /\ p[n - 1] = q[n]))
    BY Shortened
<1> HIDE DEF p, h
<1>2. Silent(q, e) => Silent(p, e) /\ h.ent # e
    BY <1>1 DEF Silent
<1>3. ASSUME NEW type
      PROVE  /\ Carries(p, type, e) => Carries(q, type, e)
             /\ Carries(q, type, e) => Carries(p, type, e) \/ (h.ent = e /\ h.type = type)
             /\ h.ent = e /\ h.type = type => Carries(q, type, e)
    BY <1>1 DEF Carries
<1>4. ASSUME AddsFirst(q, e), h.ent # e PROVE AddsFirst(p, e)
    <2>1. PICK n \in DOMAIN q :
              /\ q[n].ent = e /\ q[n].type = "addEntity"
              /\ \A j \in DOMAIN q \ {n} : q[j].ent = e => j > n /\ q[j].type # "addEntity"
        BY <1>4 DEF AddsFirst
    <2>2. n \in Int /\ n - 1 \in DOMAIN p /\ p[n - 1] = q[n]
        BY <1>1, <1>4, <2>1
    <2>3. ASSUME NEW j \in DOMAIN p \ {n - 1}, p[j].ent = e
          PROVE  j > n - 1 /\ p[j].type # "addEntity"
        <3>1. j \in Int /\ j + 1 \in DOMAIN q /\ p[j] = q[j + 1] /\ j + 1 # n
            BY <1>1, <2>2
        <3>2. j + 1 > n /\ q[j + 1].type # "addEntity"
            BY <2>1, <2>3, <3>1
        <3> QED BY <2>2, <3>1, <3>2
    <2> QED BY <2>1, <2>2, <2>3 DEF AddsFirst
<1>5. ASSUME AddsFirst(q, e), h.ent = e PROVE h.type = "addEntity" /\ ~Carries(p, "addEntity", e)
    <2>1. PICK n \in DOMAIN q :
              /\ q[n].ent = e /\ q[n].type = "addEntity"
              /\ \A j \in DOMAIN q \ {n} : q[j].ent = e => j > n /\ q[j].type # "addEntity"
        BY <1>5 DEF AddsFirst
    <2>2. n = 1
        <3> SUFFICES ASSUME n # 1 PROVE FALSE
            OBVIOUS
        <3>1. n \in Int /\ n > 1
            BY <1>1
        <3>2. 1 \in DOMAIN q \ {n} /\ q[1].ent = e
            BY <1>1, <1>5
        <3>3. 1 > n
            BY <2>1, <3>2
        <3> QED BY <3>1, <3>3
    <2>3. ASSUME NEW j \in DOMAIN p, p[j].ent = e PROVE p[j].type # "addEntity"
        <3>1. j + 1 \in DOMAIN q \ {n} /\ p[j] = q[j + 1]
            BY <1>1, <2>2
        <3> QED BY <2>1, <2>3, <3>1
    <2> QED BY <1>1, <2>1, <2>2, <2>3 DEF Carries
<1> QED BY <1>2, <1>3, <1>4, <1>5 DEF p, h

\* The channels hold well-formed messages before and after a step.
ChannelsFit == chan \in Channels /\ chan' \in Channels

\* Entity e is in the World of s after the step iff it was before.
StaysAt(e, s) == e \in world'[s] <=> e \in world[s]

\* A message that neither adds nor removes e, or is about another entity, and the receipt of
\* one: the two ends of the link differ about e as much as before.
LEMMA QuietLink ==
    ASSUME ChannelsFit, NEW e \in Entity, NEW H \in SUBSET Server,
           NEW s \in Server, NEW r \in Server,
           EntityOnLink(e, H, s, r), StaysAt(e, s), StaysAt(e, r),
           \/ chan'[<<s, r>>] = chan[<<s, r>>]
           \/ \E m \in Message :
                 /\ chan'[<<s, r>>] = Append(chan[<<s, r>>], m)
                 /\ m.ent = e => m.type = "changeAttributes" /\ s \in H
           \/ /\ chan[<<s, r>>] # <<>>
              /\ chan'[<<s, r>>] = Tail(chan[<<s, r>>])
              /\ Head(chan[<<s, r>>]).ent = e =>
                    \/ Head(chan[<<s, r>>]).type = "changeAttributes"
                    \/ Head(chan[<<s, r>>]).type = "removeEntity" /\ e \notin world[r]
    PROVE  EntityOnLink(e, H, s, r)'
<1> DEFINE q == chan[<<s, r>>]
           p == chan'[<<s, r>>]
<1>1. q \in Seq(Message) /\ p \in Seq(Message)
    BY DEF ChannelsFit, Channels
<1>2. /\ s \notin H => Silent(q, e)
      /\ r \in H => ~Carries(q, "addEntity", e)
      /\ s \in H /\ r \notin H => AddsFirst(q, e)
      /\ Carries(q, "removeEntity", e) => Gone(e, H, s)
      /\ Gone(e, H, s) => Gone(e, H, r) \/ Carries(q, "removeEntity", e)
    BY DEF EntityOnLink
<1>3. /\ Gone(e, H, s)' <=> Gone(e, H, s)
      /\ Gone(e, H, r)' <=> Gone(e, H, r)
    BY DEF Gone, StaysAt
<1>4. CASE p = q
    BY <1>2, <1>3, <1>4 DEF EntityOnLink, Silent, Carries, AddsFirst
<1>5. ASSUME NEW m \in Message, p = Append(q, m),
             m.ent = e => m.type = "changeAttributes" /\ s \in H
      PROVE  EntityOnLink(e, H, s, r)'
    <2>0. /\ Silent(p, e) <=> (Silent(q, e) /\ m.ent # e)
          /\ \A type : Carries(p, type, e) <=> (Carries(q, type, e) \/ (m.ent = e /\ m.type = type))
          /\ AddsFirst(q, e) /\ (m.ent = e => m.type # "addEntity") => AddsFirst(p, e)
        <3> HIDE DEF p, q
        <3> QED BY <1>1, <1>5, AppendedLink
    <2>1. /\ Silent(p, e) <=> (Silent(q, e) /\ m.ent # e)
          /\ Carries(p, "addEntity", e) <=> Carries(q, "addEntity", e)
          /\ Carries(p, "removeEntity", e) <=> Carries(q, "removeEntity", e)
          /\ AddsFirst(q, e) => AddsFirst(p, e)
        <3> HIDE DEF p, q
        <3> QED BY <1>5, <2>0
    <2> HIDE DEF p, q
    <2>2. /\ s \notin H => Silent(p, e)
          /\ r \in H => ~Carries(p, "addEntity", e)
          /\ s \in H /\ r \notin H => AddsFirst(p, e)
          /\ Carries(p, "removeEntity", e) => Gone(e, H, s)'
          /\ Gone(e, H, s)' => Gone(e, H, r)' \/ Carries(p, "removeEntity", e)
        BY <1>2, <1>3, <1>5, <2>1
    <2> QED BY <2>2 DEF EntityOnLink, p
<1>6. ASSUME q # <<>>, p = Tail(q),
             Head(q).ent = e =>
                 \/ Head(q).type = "changeAttributes"
                 \/ Head(q).type = "removeEntity" /\ e \notin world[r]
      PROVE  EntityOnLink(e, H, s, r)'
    <2>0. /\ Silent(q, e) => Silent(p, e) /\ Head(q).ent # e
          /\ \A type : Carries(p, type, e) => Carries(q, type, e)
          /\ \A type : Carries(q, type, e) =>
                 Carries(p, type, e) \/ (Head(q).ent = e /\ Head(q).type = type)
          /\ AddsFirst(q, e) /\ Head(q).ent # e => AddsFirst(p, e)
          /\ AddsFirst(q, e) /\ Head(q).ent = e =>
                 Head(q).type = "addEntity" /\ ~Carries(p, "addEntity", e)
        <3> HIDE DEF p, q
        <3> QED BY <1>1, <1>6, ShortenedLink
    <2>1. /\ Silent(q, e) => Silent(p, e) /\ Head(q).ent # e
          /\ Carries(p, "addEntity", e) => Carries(q, "addEntity", e)
          /\ Carries(p, "removeEntity", e) => Carries(q, "removeEntity", e)
          /\ Carries(q, "removeEntity", e) =>
                Carries(p, "removeEntity", e) \/ (Head(q).ent = e /\ e \notin world[r])
          /\ AddsFirst(q, e) => AddsFirst(p, e)
          /\ Head(q).ent = e => ~AddsFirst(q, e)
        <3> HIDE DEF p, q
        <3> QED BY <1>6, <2>0
    <2> HIDE DEF p, q
    <2>2. Head(q).ent = e /\ e \notin world[r] => Gone(e, H, r)
        BY <1>2, <2>1 DEF Gone
    <2>3. /\ s \notin H => Silent(p, e)
          /\ r \in H => ~Carries(p, "addEntity", e)
          /\ s \in H /\ r \notin H => AddsFirst(p, e)
          /\ Carries(p, "removeEntity", e) => Gone(e, H, s)'
          /\ Gone(e, H, s)' => Gone(e, H, r)' \/ Carries(p, "removeEntity", e)
        BY <1>2, <1>3, <2>1, <2>2
    <2> QED BY <2>3 DEF EntityOnLink, p
<1> QED BY <1>4, <1>5, <1>6

\* Server s loses e and tells its neighbours, except one that has lost it before: the link
\* between two servers of which one has lost e carries its removal, or both have.
LEMMA RemovalLink ==
    ASSUME ChannelsFit, NEW e \in Entity, NEW H \in SUBSET Server, NEW s \in H,
           NEW p \in Server, NEW r \in Server, p # r,
           EntityOnLink(e, H, p, r),
           e \in world[s], e \notin world'[s], \A x \in Server \ {s} : StaysAt(e, x),
           p # s /\ r # s => chan'[<<p, r>>] = chan[<<p, r>>],
           p = s => \/ chan'[<<p, r>>] = chan[<<p, r>>] /\ Gone(e, H, r)
                    \/ \E m \in Message : /\ chan'[<<p, r>>] = Append(chan[<<p, r>>], m)
                                          /\ m.ent = e /\ m.type = "removeEntity",
           r = s => \/ chan'[<<p, r>>] = chan[<<p, r>>]
                    \/ /\ chan[<<p, r>>] # <<>>
                       /\ chan'[<<p, r>>] = Tail(chan[<<p, r>>])
    PROVE  EntityOnLink(e, H, p, r)'
<1> DEFINE q == chan[<<p, r>>]
           n == chan'[<<p, r>>]
<1>1. q \in Seq(Message) /\ n \in Seq(Message) /\ s \in Server
    BY DEF ChannelsFit, Channels
<1>2. /\ p \notin H => Silent(q, e)
      /\ r \in H => ~Carries(q, "addEntity", e)
      /\ p \in H /\ r \notin H => AddsFirst(q, e)
      /\ Carries(q, "removeEntity", e) => Gone(e, H, p)
      /\ Gone(e, H, p) => Gone(e, H, r) \/ Carries(q, "removeEntity", e)
    BY DEF EntityOnLink
<1>3. /\ Gone(e, H, s)' /\ ~Gone(e, H, s)
      /\ \A x \in Server \ {s} : Gone(e, H, x)' <=> Gone(e, H, x)
    BY <1>1 DEF Gone, StaysAt
<1>4. SUFFICES /\ p \notin H => Silent(n, e)
               /\ r \in H => ~Carries(n, "addEntity", e)
               /\ p \in H /\ r \notin H => AddsFirst(n, e)
               /\ Carries(n, "removeEntity", e) => Gone(e, H, p)'
               /\ Gone(e, H, p)' => Gone(e, H, r)' \/ Carries(n, "removeEntity", e)
    BY DEF EntityOnLink
<1>5. CASE n = q /\ (p = s => Gone(e, H, r))
    BY <1>2, <1>3, <1>5
<1>6. ASSUME NEW m \in Message, n = Append(q, m), m.ent = e, m.type = "removeEntity", p = s
      PROVE  /\ r \in H => ~Carries(n, "addEntity", e)
             /\ r \notin H => AddsFirst(n, e)
             /\ Carries(n, "removeEntity", e)
    <2>1. /\ \A type : Carries(n, type, e) <=> (Carries(q, type, e) \/ (m.ent = e /\ m.type = type))
          /\ AddsFirst(q, e) /\ (m.ent = e => m.type # "addEntity") => AddsFirst(n, e)
        <3> HIDE DEF n, q
        <3> QED BY <1>1, <1>6, AppendedLink
    <2> HIDE DEF n, q
    <2> QED BY <1>2, <1>6, <2>1
<1>7. ASSUME q # <<>>, n = Tail(q), r = s
      PROVE  /\ p \notin H => Silent(n, e)
             /\ ~Carries(n, "addEntity", e)
             /\ Carries(n, "removeEntity", e) => Gone(e, H, p)
    <2>1. /\ Silent(q, e) => Silent(n, e)
          /\ \A type : Carries(n, type, e) => Carries(q, type, e)
        <3> HIDE DEF n, q
        <3> QED BY <1>1, <1>7, ShortenedLink
    <2> HIDE DEF n, q
    <2> QED BY <1>2, <1>7, <2>1
<1> HIDE DEF n, q
<1>8. CASE p = s
    <2>1. \/ n = q /\ Gone(e, H, r)
          \/ \E m \in Message : n = Append(q, m) /\ m.ent = e /\ m.type = "removeEntity"
        BY <1>8 DEF n, q
    <2> QED BY <1>3, <1>5, <1>6, <1>8, <2>1
<1>9. CASE r = s
    <2>1. n = q \/ (q # <<>> /\ n = Tail(q))
        BY <1>9 DEF n, q
    <2> QED BY <1>1, <1>2, <1>3, <1>5, <1>7, <1>9, <2>1
<1>10. CASE p # s /\ r # s
    <2>1. n = q
        BY <1>10 DEF n, q
    <2> QED BY <1>5, <1>10, <2>1
<1> QED BY <1>8, <1>9, <1>10

\* Server s gets e and tells the neighbours that have not heard of it.
LEMMA AdditionLink ==
    ASSUME ChannelsFit, NEW e \in Entity, NEW H \in SUBSET Server, NEW s \in Server, s \notin H,
           NEW p \in Server, NEW r \in Server, p # r,
           EntityOnLink(e, H, p, r),
           e \in world'[s], \A x \in Server \ {s} : StaysAt(e, x),
           p # s /\ r # s => chan'[<<p, r>>] = chan[<<p, r>>],
           p = s => \/ chan'[<<p, r>>] = chan[<<p, r>>] /\ r \in H
                    \/ /\ r \notin H
                       /\ \E m \in Message : /\ chan'[<<p, r>>] = Append(chan[<<p, r>>], m)
                                             /\ m.ent = e /\ m.type = "addEntity",
           r = s => \/ chan'[<<p, r>>] = chan[<<p, r>>] /\ p \notin H
                    \/ /\ chan[<<p, r>>] # <<>>
                       /\ chan'[<<p, r>>] = Tail(chan[<<p, r>>])
                       /\ Head(chan[<<p, r>>]).ent = e
    PROVE  EntityOnLink(e, H \cup {s}, p, r)'
<1> DEFINE q == chan[<<p, r>>]
           n == chan'[<<p, r>>]
           J == H \cup {s}
<1>1. q \in Seq(Message) /\ n \in Seq(Message)
    BY DEF ChannelsFit, Channels
<1>2. /\ p \notin H => Silent(q, e)
      /\ r \in H => ~Carries(q, "addEntity", e)
      /\ p \in H /\ r \notin H => AddsFirst(q, e)
      /\ Carries(q, "removeEntity", e) => Gone(e, H, p)
      /\ Gone(e, H, p) => Gone(e, H, r) \/ Carries(q, "removeEntity", e)
    BY DEF EntityOnLink
<1>3. /\ ~Gone(e, J, s)' /\ ~Gone(e, H, s)
      /\ \A x \in Server \ {s} : Gone(e, J, x)' <=> Gone(e, H, x)
    BY DEF Gone, StaysAt
<1>4. SUFFICES /\ p \notin J => Silent(n, e)
               /\ r \in J => ~Carries(n, "addEntity", e)
               /\ p \in J /\ r \notin J => AddsFirst(n, e)
               /\ Carries(n, "removeEntity", e) => Gone(e, J, p)'
               /\ Gone(e, J, p)' => Gone(e, J, r)' \/ Carries(n, "removeEntity", e)
    BY DEF EntityOnLink
<1>5. Silent(q, e) => \A type : ~Carries(q, type, e)
    BY DEF Silent, Carries
<1>6. ASSUME NEW m \in Message, n = Append(q, m), m.ent = e, m.type = "addEntity", Silent(q, e)
      PROVE  AddsFirst(n, e) /\ ~Carries(n, "removeEntity", e)
    <2>1. /\ \A type : Carries(n, type, e) <=> (Carries(q, type, e) \/ (m.ent = e /\ m.type = type))
          /\ Silent(q, e) /\ m.ent = e /\ m.type = "addEntity" => AddsFirst(n, e)
        <3> HIDE DEF n, q
        <3> QED BY <1>1, <1>6, AppendedLink
    <2> HIDE DEF n, q
    <2> QED BY <1>5, <1>6, <2>1
<1>7. ASSUME q # <<>>, n = Tail(q), Head(q).ent = e, r = s
      PROVE  /\ p \in H
             /\ ~Carries(n, "addEntity", e)
             /\ Carries(n, "removeEntity", e) <=> Carries(q, "removeEntity", e)
    <2>1. /\ Silent(q, e) => Head(q).ent # e
          /\ \A type : Carries(n, type, e) => Carries(q, type, e)
          /\ \A type : Carries(q, type, e) =>
                 Carries(n, type, e) \/ (Head(q).ent = e /\ Head(q).type = type)
          /\ AddsFirst(q, e) /\ Head(q).ent = e =>
                 Head(q).type = "addEntity" /\ ~Carries(n, "addEntity", e)
        <3> HIDE DEF n, q
        <3> QED BY <1>1, <1>7, ShortenedLink
    <2> HIDE DEF n, q
    <2> QED BY <1>2, <1>7, <2>1
<1> HIDE DEF n, q
<1>8. CASE p = s
    <2>1. \/ n = q /\ r \in H
          \/ r \notin H /\ \E m \in Message : n = Append(q, m) /\ m.ent = e /\ m.type = "addEntity"
        BY <1>8 DEF n, q
    <2> QED BY <1>2, <1>3, <1>5, <1>6, <1>8, <2>1
<1>9. CASE r = s
    <2>1. \/ n = q /\ p \notin H
          \/ q # <<>> /\ n = Tail(q) /\ Head(q).ent = e
        BY <1>9 DEF n, q
    <2>2. CASE n = q /\ p \notin H
        <3>1. ~Gone(e, J, p)'
            BY <1>3, <1>9, <2>2 DEF Gone
        <3> QED BY <1>2, <1>3, <1>5, <1>9, <2>2, <3>1
    <2>3. CASE q # <<>> /\ n = Tail(q) /\ Head(q).ent = e
        BY <1>2, <1>3, <1>7, <1>9, <2>3
    <2> QED BY <2>1, <2>2, <2>3
<1>10. CASE p # s /\ r # s
    <2>1. n = q
        BY <1>10 DEF n, q
    <2> QED BY <1>2, <1>3, <1>10, <2>1
<1> QED BY <1>8, <1>9, <1>10

(***************************************************************************)
(* Stamps on a link                                                        *)
(***************************************************************************)

\* A stamp of a well-formed set of infos.
Held == Stamp \cup {NoStamp}

\* Ticks and SyncIDs are numbers.
LEMMA StampFields == \A x \in Stamp : x.ts \in Int /\ x.id \in Int
<1>1. Server \subseteq Int /\ Time \subseteq Int
    BY StampAssumption DEF Time
<1> QED BY <1>1 DEF Stamp

\* Stamps are ordered by tick and server.
LEMMA CoversOrder ==
    /\ \A x \in Stamp : Covers(x, x)
    /\ \A x, y, z \in Held : y # NoStamp /\ z # NoStamp /\ Covers(x, y) /\ Covers(y, z) => Covers(x, z)
<1>1. \A x \in Held : x # NoStamp => x.ts \in Int /\ x.id \in Int
    BY StampFields DEF Held
<1>2. \A x \in Stamp : x # NoStamp
    BY StampAssumption
<1>3. \A x \in Stamp : Covers(x, x)
    BY <1>1, <1>2 DEF Covers, Newer, Held
<1>4. \A x, y, z \in Held :
          y # NoStamp /\ z # NoStamp /\ Covers(x, y) /\ Covers(y, z) => Covers(x, z)
    BY <1>1 DEF Covers, Newer
<1> QED BY <1>3, <1>4

\* A server that merges stamps falls behind neither those it had nor those it got.
LEMMA MergedCovers ==
    ASSUME NEW i \in Info, NEW j \in Info, NEW a \in Attr
    PROVE  /\ i[a] # NoStamp => Covers(Merged(i, j)[a], i[a])
           /\ j[a] # NoStamp => Covers(Merged(i, j)[a], j[a])
<1>1. \A x \in Held : x # NoStamp => x.ts \in Int /\ x.id \in Int
    BY StampFields DEF Held
<1>2. i[a] \in Held /\ j[a] \in Held
    BY DEF Info, Held
<1> QED BY <1>1, <1>2 DEF Merged, Accepts, Covers, Newer

\* The sender holds what it held, the receiver is no further behind, and has handled or
\* overtaken what was taken from the link.
LEMMA StampKept ==
    ASSUME ChannelsFit, TypeOK, TypeOK', NEW e \in Entity, NEW a \in Attr,
           NEW H \in SUBSET Server, NEW J \in SUBSET Server, NEW s \in Server, NEW r \in Server,
           StampOnLink(e, H, s, r, a),
           e \in world'[s] => e \in world[s] /\ info'[s][e][a] = info[s][e][a],
           Gone(e, H, r) => Gone(e, J, r)',
           e \in world[r] =>
               \/ Gone(e, J, r)'
               \/ /\ e \in world'[r]
                  /\ info[r][e][a] # NoStamp => Covers(info'[r][e][a], info[r][e][a]),
           \/ chan'[<<s, r>>] = chan[<<s, r>>]
           \/ \E m \in Message :
                 /\ chan'[<<s, r>>] = Append(chan[<<s, r>>], m)
                 /\ e \in world'[s] /\ m.ent = e /\ m.info[a] # NoStamp
                        => Covers(info[s][e][a], m.info[a])
           \/ /\ chan[<<s, r>>] # <<>>
              /\ chan'[<<s, r>>] = Tail(chan[<<s, r>>])
              /\ Head(chan[<<s, r>>]).ent = e /\ Head(chan[<<s, r>>]).info[a] # NoStamp =>
                    \/ Gone(e, J, r)'
                    \/ e \in world'[r] /\ Covers(info'[r][e][a], Head(chan[<<s, r>>]).info[a])
    PROVE  StampOnLink(e, J, s, r, a)'
<1> SUFFICES ASSUME e \in world'[s] PROVE StampOnLink(e, J, s, r, a)'
    BY DEF StampOnLink
<1>1. PICK q \in Seq(Message), n \in Seq(Message) : q = chan[<<s, r>>] /\ n = chan'[<<s, r>>]
    BY DEF ChannelsFit, Channels
<1>2. PICK st \in Held : st = info[s][e][a] /\ st = info'[s][e][a]
    BY DEF TypeOK, Info, Held
<1>3. PICK old \in Held, new \in Held : old = info[r][e][a] /\ new = info'[r][e][a]
    BY DEF TypeOK, Info, Held
<1>4. \A m \in Message : m.info[a] \in Held
    BY DEF Message, Info, Held
<1>5. /\ Behind(q, e, a, st)
      /\ st # NoStamp => Gone(e, H, r) \/ (e \in world[r] /\ Covers(old, st)) \/ Brings(q, e, a, st)
    BY <1>1, <1>2, <1>3 DEF StampOnLink
<1>6. \/ n = q
      \/ \E m \in Message :
            n = Append(q, m) /\ (m.ent = e /\ m.info[a] # NoStamp => Covers(st, m.info[a]))
      \/ /\ q # <<>> /\ n = Tail(q)
         /\ Head(q).ent = e /\ Head(q).info[a] # NoStamp =>
               Gone(e, J, r)' \/ (e \in world'[r] /\ Covers(new, Head(q).info[a]))
    BY <1>1, <1>2, <1>3
<1>7. Behind(n, e, a, st)
    <2>1. CASE n = q
        BY <1>5, <2>1
    <2>2. ASSUME NEW m \in Message, n = Append(q, m),
                 m.ent = e /\ m.info[a] # NoStamp => Covers(st, m.info[a])
          PROVE  Behind(n, e, a, st)
        <3>1. PICK k : /\ DOMAIN n = DOMAIN q \cup {k} /\ n[k] = m
                       /\ \A j \in DOMAIN q : n[j] = q[j]
            BY <2>2, Appended
        <3> QED BY <1>5, <2>2, <3>1 DEF Behind
    <2>3. CASE q # <<>> /\ n = Tail(q)
        <3>1. \A j \in DOMAIN n : j + 1 \in DOMAIN q /\ n[j] = q[j + 1]
            BY <2>3, Shortened
        <3> QED BY <1>5, <3>1 DEF Behind
    <2> QED BY <1>6, <2>1, <2>2, <2>3
<1>8. ASSUME st # NoStamp
      PROVE  Gone(e, J, r)' \/ (e \in world'[r] /\ Covers(new, st)) \/ Brings(n, e, a, st)
    <2>1. CASE Gone(e, H, r)
        BY <2>1
    <2>2. CASE e \in world[r] /\ Covers(old, st)
        <3>1. old # NoStamp
            BY <2>2 DEF Covers
        <3>2. Gone(e, J, r)' \/ (e \in world'[r] /\ Covers(new, old))
            BY <1>3, <2>2, <3>1
        <3> QED BY <1>8, <2>2, <3>1, <3>2, CoversOrder
    <2>3. CASE Brings(q, e, a, st)
        <3>1. PICK k \in DOMAIN q : q[k].ent = e /\ Covers(q[k].info[a], st)
            BY <2>3 DEF Brings
        <3>2. CASE n = q
            BY <2>3, <3>2
        <3>3. ASSUME NEW m \in Message, n = Append(q, m) PROVE Brings(n, e, a, st)
            <4>1. k \in DOMAIN n /\ n[k] = q[k]
                BY <3>3, Appended
            <4> QED BY <3>1, <4>1 DEF Brings
        <3>4. CASE q # <<>> /\ n = Tail(q) /\ k # 1
            <4>1. k - 1 \in DOMAIN n /\ n[k - 1] = q[k]
                BY <3>4, Shortened
            <4> QED BY <3>1, <4>1 DEF Brings
        <3>5. CASE /\ q # <<>> /\ n = Tail(q) /\ k = 1
                   /\ Head(q).ent = e /\ Head(q).info[a] # NoStamp =>
                         Gone(e, J, r)' \/ (e \in world'[r] /\ Covers(new, Head(q).info[a]))
            <4>1. Head(q) = q[k] /\ Head(q) \in Message
                BY <3>5
            <4>2. PICK x \in Held : x = q[k].info[a]
                BY <1>4, <4>1
            <4>3. x # NoStamp
                BY <3>1, <4>2 DEF Covers
            <4>4. Gone(e, J, r)' \/ (e \in world'[r] /\ Covers(new, x))
                BY <3>1, <3>5, <4>1, <4>2, <4>3
            <4> QED BY <1>8, <3>1, <4>2, <4>3, <4>4, CoversOrder
        <3> QED BY <1>6, <3>2, <3>3, <3>4, <3>5
    <2> QED BY <1>5, <1>8, <2>1, <2>2, <2>3
<1> QED BY <1>1, <1>2, <1>3, <1>7, <1>8 DEF StampOnLink

\* The sender holds a newer stamp, and has sent it, or the receiver has it already.
LEMMA StampSent ==
    ASSUME ChannelsFit, TypeOK, TypeOK', NEW e \in Entity, NEW a \in Attr,
           NEW H \in SUBSET Server, NEW J \in SUBSET Server, NEW s \in Server, NEW r \in Server,
           StampOnLink(e, H, s, r, a),
           info'[s][e][a] # NoStamp,
           \/ Silent(chan[<<s, r>>], e)
           \/ /\ e \in world[s]
              /\ info[s][e][a] # NoStamp => Covers(info'[s][e][a], info[s][e][a]),
           \/ /\ chan'[<<s, r>>] = chan[<<s, r>>]
              /\ Gone(e, J, r)' \/ (e \in world'[r] /\ Covers(info'[r][e][a], info'[s][e][a]))
           \/ \E m \in Message :
                 /\ chan'[<<s, r>>] = Append(chan[<<s, r>>], m)
                 /\ m.ent = e /\ m.info[a] = info'[s][e][a]
    PROVE  StampOnLink(e, J, s, r, a)'
<1>1. PICK q \in Seq(Message), n \in Seq(Message) : q = chan[<<s, r>>] /\ n = chan'[<<s, r>>]
    BY DEF ChannelsFit, Channels
<1>2. PICK st \in Stamp : st = info'[s][e][a]
    BY DEF TypeOK, Info
<1>3. PICK old \in Held : old = info[s][e][a]
    BY DEF TypeOK, Info, Held
<1>4. st # NoStamp /\ st \in Held /\ Covers(st, st)
    BY StampAssumption, CoversOrder DEF Held
<1>5. Behind(q, e, a, st)
    <2>1. CASE Silent(q, e)
        BY <2>1 DEF Silent, Behind
    <2>2. CASE e \in world[s] /\ (old # NoStamp => Covers(st, old))
        <3>1. Behind(q, e, a, old)
            BY <1>1, <1>3, <2>2 DEF StampOnLink
        <3>2. SUFFICES ASSUME NEW k \in DOMAIN q, q[k].ent = e, q[k].info[a] # NoStamp
                       PROVE  Covers(st, q[k].info[a])
            BY DEF Behind
        <3>3. PICK x \in Held : x = q[k].info[a]
            <4>1. q[k] \in Message
                OBVIOUS
            <4> QED BY <4>1 DEF Message, Info, Held
        <3>4. Covers(old, x) /\ x # NoStamp
            BY <3>1, <3>2, <3>3 DEF Behind
        <3>5. old # NoStamp
            BY <3>4 DEF Covers
        <3> QED BY <1>4, <2>2, <3>3, <3>4, <3>5, CoversOrder
    <2> QED BY <1>1, <1>2, <1>3, <2>1, <2>2
<1>6. \/ n = q /\ (Gone(e, J, r)' \/ (e \in world'[r] /\ Covers(info'[r][e][a], st)))
      \/ \E m \in Message : n = Append(q, m) /\ m.ent = e /\ m.info[a] = st
    BY <1>1, <1>2
<1>7. CASE n = q /\ (Gone(e, J, r)' \/ (e \in world'[r] /\ Covers(info'[r][e][a], st)))
    BY <1>1, <1>2, <1>5, <1>7 DEF StampOnLink
<1>8. ASSUME NEW m \in Message, n = Append(q, m), m.ent = e, m.info[a] = st
      PROVE  StampOnLink(e, J, s, r, a)'
    <2>1. PICK k : /\ DOMAIN n = DOMAIN q \cup {k} /\ n[k] = m
                   /\ \A j \in DOMAIN q : n[j] = q[j]
        BY <1>8, Appended
    <2>2. Behind(n, e, a, st) /\ Brings(n, e, a, st)
        BY <1>4, <1>5, <1>8, <2>1 DEF Behind, Brings
    <2> QED BY <1>1, <1>2, <2>2 DEF StampOnLink
<1> QED BY <1>6, <1>7, <1>8

(***************************************************************************)
(* The channels after a step                                               *)
(***************************************************************************)

\* Links have two ends.
LEMMA NeighboursFacts ==
    ASSUME NEW s \in Server, NEW r \in Neighbours(s)
    PROVE  r \in Server /\ r # s /\ s \in Neighbours(r)
<1>1. r \in Server /\ r # s /\ {s, r} \in Links /\ {s, r} = {r, s}
    BY DEF Neighbours
<1> QED BY <1>1 DEF Neighbours

\* What a receiver is interested in is not left out.
LEMMA SharedIsSent ==
    ASSUME NEW i \in Info, NEW r \in Server, NEW a \in SharedAttrs
    PROVE  /\ a \in Attr /\ Filtered(i, r)[a] = i[a]
           /\ i[a] # NoStamp => Filtered(i, r) # NoInfo
<1>1. a \in Attr /\ a \in AttrDoI[r]
    BY DEF SharedAttrs
<1> QED BY <1>1 DEF Filtered, NoInfo

\* A step that changes nothing about e, at any server, and carries no message about it: e has
\* spread as far as before.
LEMMA Elsewhere ==
    ASSUME ChannelsFit, TypeOK, TypeOK', NEW D, NEW e \in Entity, NEW o \in Server,
           NEW H \in SUBSET Server, Spreading(D, e, o, H),
           \A x \in Server : StaysAt(e, x) /\ info'[x][e] = info[x][e],
           e \in removed' <=> e \in removed,
           \A w \in written' : w[1] = e => w \in written,
           \A p \in Server : \A r \in Neighbours(p) :
               \/ chan'[<<p, r>>] = chan[<<p, r>>]
               \/ \E m \in Message : chan'[<<p, r>>] = Append(chan[<<p, r>>], m) /\ m.ent # e
               \/ /\ chan[<<p, r>>] # <<>> /\ chan'[<<p, r>>] = Tail(chan[<<p, r>>])
                  /\ Head(chan[<<p, r>>]).ent # e
    PROVE  Spreading(D, e, o, H)'
<1>1. SpreadFrom(D, e, o, H)'
    BY DEF Spreading, SpreadFrom, StaysAt
<1>2. ASSUME NEW p \in Server, NEW r \in Neighbours(p) PROVE EntityOnLink(e, H, p, r)'
    <2>1. EntityOnLink(e, H, p, r) /\ r \in Server /\ StaysAt(e, p) /\ StaysAt(e, r)
        BY NeighboursFacts DEF Spreading
    <2> QED BY <2>1, QuietLink
<1>3. ASSUME ClockPrecise, ClockSynced, NEW a \in SharedAttrs, NEW p \in Server, NEW r \in Neighbours(p)
      PROVE  StampOnLink(e, H, p, r, a)'
    <2>1. StampOnLink(e, H, p, r, a) /\ r \in Server /\ a \in Attr
        BY <1>3, NeighboursFacts DEF Spreading, SharedAttrs
    <2>2. /\ e \in world'[p] => e \in world[p] /\ info'[p][e][a] = info[p][e][a]
          /\ Gone(e, H, r) => Gone(e, H, r)'
          /\ e \in world[r] => e \in world'[r] /\ info'[r][e][a] = info[r][e][a]
        BY <2>1 DEF StaysAt, Gone
    <2>3. info[r][e][a] # NoStamp => Covers(info[r][e][a], info[r][e][a])
        BY <2>1, CoversOrder DEF TypeOK, Info
    <2> QED BY <2>1, <2>2, <2>3, StampKept
<1>4. ASSUME ClockPrecise, ClockSynced, NEW a \in SharedAttrs
      PROVE  IssuerCovers(e, H, a)'
    <2>1. IssuerCovers(e, H, a)
        BY <1>4 DEF Spreading
    <2>2. \A w \in written' : w[3].id \in Server
        BY DEF TypeOK, Stamp
    <2> QED BY <2>1, <2>2 DEF IssuerCovers, StaysAt
<1> QED BY <1>1, <1>2, <1>3, <1>4 DEF Spreading

(***************************************************************************)
(* Local steps                                                             *)
(***************************************************************************)

\* The channels before and after a step are well formed.
LEMMA ChannelsFitFact ==
    ASSUME TypeOK, TypeOK' PROVE ChannelsFit
BY DEF TypeOK, ChannelsFit, Channels

\* A server that has just got an entity, and has sent its stamps.
LEMMA NewcomerLink ==
    ASSUME ChannelsFit, TypeOK, TypeOK', NEW e \in Entity, NEW a \in Attr,
           NEW J \in SUBSET Server, NEW s \in Server, NEW r \in Server,
           e \notin world[s], Silent(chan[<<s, r>>], e),
           \E m \in Message :
               /\ chan'[<<s, r>>] = Append(chan[<<s, r>>], m)
               /\ m.ent = e /\ m.info[a] = info'[s][e][a]
    PROVE  StampOnLink(e, J, s, r, a)'
<1>1. StampOnLink(e, J, s, r, a)
    BY DEF StampOnLink
<1>2. CASE info'[s][e][a] = NoStamp
    <2>1. PICK q \in Seq(Message), n \in Seq(Message) : q = chan[<<s, r>>] /\ n = chan'[<<s, r>>]
        BY DEF ChannelsFit, Channels
    <2>2. PICK m \in Message : n = Append(q, m) /\ m.ent = e /\ m.info[a] = NoStamp
        BY <1>2, <2>1
    <2>3. PICK k : /\ DOMAIN n = DOMAIN q \cup {k} /\ n[k] = m
                   /\ \A j \in DOMAIN q : n[j] = q[j]
        BY <2>2, Appended
    <2>4. Behind(n, e, a, NoStamp)
        BY <2>1, <2>2, <2>3 DEF Behind, Silent
    <2> QED BY <1>2, <2>1, <2>4 DEF StampOnLink
<1>3. CASE info'[s][e][a] # NoStamp
    BY <1>1, <1>3, StampSent
<1> QED BY <1>2, <1>3

\* A new entity is on its way from where it was added to all neighbours.
LEMMA LocalAddConverges ==
    ASSUME NEW D, TreeDistance(D), Inductive, Inductive', Converges(D),
           NEW s \in Server, NEW e \in Entity, NEW A \in SUBSET Registered[s],
           NEW t \in Time, NEW f \in [A -> Writable \cup {Default}], LocalAdd(s, e, A, f, t)
    PROVE  Converges(D)'
<1>0. PICK i \in Info :
          /\ \A a \in A : a \in Attr /\ i[a] \in Stamp /\ i[a].id = s
          /\ world' = [world EXCEPT ![s] = @ \cup {e}]
          /\ info' = [info EXCEPT ![s][e] = i]
          /\ chan' = Send(chan, s, InterestedInEntity(s, e), AddMsg(e, i))
          /\ written' = written \cup {<<e, a, i[a]>> : a \in A}
    <2> DEFINE i == [a \in Attr |-> IF a \in A THEN StampAt(s, t, f[a]) ELSE NoStamp]
    <2>1. A \subseteq Attr /\ \A a \in A : f[a] \in Value
        BY WorldSyncAssumption
    <2>2. i \in Info /\ \A a \in A : a \in Attr /\ i[a] \in Stamp /\ i[a].id = s
        BY <2>1, StampAtType DEF Info
    <2>3. /\ world' = [world EXCEPT ![s] = @ \cup {e}]
          /\ info' = [info EXCEPT ![s][e] = i]
          /\ chan' = Send(chan, s, InterestedInEntity(s, e), AddMsg(e, i))
          /\ written' = written \cup {<<e, a, i[a]>> : a \in A}
        BY DEF LocalAdd
    <2> HIDE DEF i
    <2> QED BY <2>2, <2>3
<1>1. TypeOK /\ TypeOK' /\ ChannelsFit
    BY ChannelsFitFact DEF Inductive
<1>2. e \notin created /\ created' = created \cup {e} /\ removed' = removed
    BY DEF LocalAdd
<1>3. PICK m \in Message : m = AddMsg(e, i) /\ m.ent = e /\ m.type = "addEntity" /\ m.info = i
    BY <1>0, MessageType DEF AddMsg
<1>4. \A p \in Server, r \in Server :
          chan'[<<p, r>>] = IF p = s /\ r \in InterestedInEntity(s, e)
                            THEN Append(chan[<<p, r>>], m) ELSE chan[<<p, r>>]
    <2>1. chan' = Send(chan, s, InterestedInEntity(s, e), m)
        BY <1>0, <1>3
    <2> QED BY <2>1 DEF Send
<1>5. OnlyLinks'
    <2>1. ASSUME NEW p \in Server, NEW r \in Server \ Neighbours(p) PROVE chan'[<<p, r>>] = <<>>
        <3>1. chan[<<p, r>>] = <<>>
            BY DEF Converges, OnlyLinks
        <3>2. p = s => r \notin InterestedInEntity(s, e)
            BY DEF InterestedInEntity
        <3> QED BY <1>4, <3>1, <3>2
    <2> QED BY <2>1 DEF OnlyLinks
<1>6. removed' \subseteq created' /\ \A w \in written' : w[1] \in created'
    BY <1>0, <1>2 DEF Converges
<1>7. ASSUME NEW g \in SharedEntities \cap created, NEW o \in Server, NEW H \in SUBSET Server,
             Spreading(D, g, o, H)
      PROVE  Spreading(D, g, o, H)'
    <2>1. g \in Entity /\ g # e
        BY <1>2 DEF SharedEntities
    <2>2. \A x \in Server : StaysAt(g, x) /\ info'[x][g] = info[x][g]
        BY <1>0, <1>1, <2>1 DEF StaysAt, TypeOK
    <2>3. \A w \in written' : w[1] = g => w \in written
        BY <1>0, <2>1
    <2>4. \A p \in Server : \A r \in Neighbours(p) :
              \/ chan'[<<p, r>>] = chan[<<p, r>>]
              \/ \E j \in Message : chan'[<<p, r>>] = Append(chan[<<p, r>>], j) /\ j.ent # g
        BY <1>3, <1>4, <2>1, NeighboursFacts
    <2> QED BY <1>1, <1>2, <1>7, <2>1, <2>2, <2>3, <2>4, Elsewhere
<1>8. ASSUME e \in SharedEntities
      PROVE  Spreading(D, e, s, {s})'
    <2>1. ASSUME NEW p \in Server, NEW r \in Server
          PROVE  Silent(chan[<<p, r>>], e)
        <3>1. PICK q \in Seq(IssuedMessage) : q = chan[<<p, r>>]
            BY DEF Inductive, MessagesIssued
        <3>2. \A n \in DOMAIN q : q[n] \in IssuedMessage
            OBVIOUS
        <3> QED BY <1>2, <3>1, <3>2 DEF IssuedMessage, Silent
    <2>2. /\ \A x \in Server : e \notin world[x]
          /\ \A x \in Server \ {s} : StaysAt(e, x) /\ e \notin world'[x]
          /\ e \in world'[s]
        BY <1>0, <1>1, <1>2 DEF Inductive, KnownCreated, SyncInfoCoversWorld, TypeOK, StaysAt
    <2>3. SpreadFrom(D, e, s, {s})'
        <3>1. \A p \in Neighbours(s) : ~(D[s][p] < D[s][s])
            <4>1. \A p \in Neighbours(s) : D[s][p] \in Int /\ D[s][s] \in Int /\ D[s][p] > D[s][s]
                BY NeighboursFacts DEF TreeDistance
            <4> QED BY <4>1
        <3>2. e \notin removed'
            BY <1>2 DEF Converges
        <3> QED BY <2>2, <3>1, <3>2 DEF SpreadFrom
    <2>4. ASSUME NEW p \in Server, NEW r \in Neighbours(p)
          PROVE  EntityOnLink(e, {s}, p, r)'
        <3>1. r \in Server /\ p # r
            BY NeighboursFacts
        <3>2. EntityOnLink(e, {}, p, r)
            BY <2>1, <3>1 DEF EntityOnLink, Gone, Silent, Carries
        <3>3. p # s => chan'[<<p, r>>] = chan[<<p, r>>]
            BY <1>4, <3>1
        <3>4. p = s => \E j \in Message : /\ chan'[<<p, r>>] = Append(chan[<<p, r>>], j)
                                          /\ j.ent = e /\ j.type = "addEntity"
            BY <1>3, <1>4, <1>8, <3>1 DEF InterestedInEntity, SharedEntities
        <3>5. {} \cup {s} = {s} /\ {} \in SUBSET Server /\ s \notin {} /\ p \notin {} /\ r \notin {}
            OBVIOUS
        <3>6. EntityOnLink(e, {} \cup {s}, p, r)'
            BY <1>1, <2>2, <3>1, <3>2, <3>3, <3>4, <3>5, AdditionLink
        <3> QED BY <3>5, <3>6
    <2>5. ASSUME NEW a \in SharedAttrs, NEW p \in Server, NEW r \in Neighbours(p)
          PROVE  StampOnLink(e, {s}, p, r, a)'
        <3>1. r \in Server /\ a \in Attr /\ {s} \in SUBSET Server
            BY NeighboursFacts DEF SharedAttrs
        <3>2. CASE p # s
            BY <2>2, <3>2 DEF StampOnLink
        <3>3. CASE p = s
            <4>1. chan'[<<p, r>>] = Append(chan[<<p, r>>], m)
                BY <1>4, <1>8, <3>1, <3>3 DEF InterestedInEntity, SharedEntities
            <4>2. m.info[a] = info'[p][e][a]
                BY <1>0, <1>1, <1>3, <3>1, <3>3 DEF TypeOK
            <4> QED BY <1>1, <1>3, <2>1, <2>2, <3>1, <4>1, <4>2, NewcomerLink
        <3> QED BY <3>2, <3>3
    <2>6. ASSUME NEW a \in SharedAttrs
          PROVE  IssuerCovers(e, {s}, a)'
        <3>1. \A w \in written : w[1] # e
            BY <1>2 DEF Converges
        <3>2. ASSUME NEW w \in written', w[1] = e, w[2] = a
              PROVE  w[3].id \in {s} /\ Covers(info'[w[3].id][e][a], w[3])
            <4>1. w \in {<<e, b, i[b]>> : b \in A}
                BY <1>0, <3>1, <3>2
            <4>2. a \in A /\ w[3] = i[a]
                BY <3>2, <4>1
            <4>3. w[3] \in Stamp /\ w[3].id = s
                BY <1>0, <4>2
            <4>4. info'[s][e] = i
                BY <1>0, <1>1 DEF TypeOK
            <4> QED BY <4>2, <4>3, <4>4, CoversOrder
        <3> QED BY <3>2 DEF IssuerCovers
    <2> QED BY <2>3, <2>4, <2>5, <2>6 DEF Spreading
<1>9. ASSUME NEW g \in SharedEntities \cap created'
      PROVE  \E o \in Server, H \in SUBSET Server : Spreading(D, g, o, H)'
    <2>1. CASE g \in created
        <3>1. PICK o \in Server, H \in SUBSET Server : Spreading(D, g, o, H)
            BY <2>1 DEF Converges
        <3> QED BY <1>7, <2>1, <3>1
    <2>2. CASE g = e
        <3>1. {s} \in SUBSET Server
            OBVIOUS
        <3> QED BY <1>8, <2>2, <3>1
    <2> QED BY <1>2, <2>1, <2>2
<1> QED BY <1>5, <1>6, <1>9 DEF Converges

\* Server s loses e: the links and the stamps of e, given what s takes from and puts on them.
LEMMA RemovalSpreading ==
    ASSUME ChannelsFit, TypeOK, TypeOK', NEW D, NEW e \in SharedEntities, NEW o \in Server,
           NEW H \in SUBSET Server, Spreading(D, e, o, H), NEW s \in Server,
           e \in world[s], e \notin world'[s], e \in removed',
           \A x \in Server \ {s} : StaysAt(e, x) /\ info'[x][e] = info[x][e],
           written' = written,
           \A p \in Server \ {s} : \A r \in Neighbours(p) \ {s} :
               chan'[<<p, r>>] = chan[<<p, r>>],
           \A r \in Neighbours(s) :
               \/ chan'[<<s, r>>] = chan[<<s, r>>] /\ Gone(e, H, r)
               \/ \E m \in Message : /\ chan'[<<s, r>>] = Append(chan[<<s, r>>], m)
                                     /\ m.ent = e /\ m.type = "removeEntity",
           \A p \in Neighbours(s) :
               \/ chan'[<<p, s>>] = chan[<<p, s>>]
               \/ chan[<<p, s>>] # <<>> /\ chan'[<<p, s>>] = Tail(chan[<<p, s>>])
    PROVE  Spreading(D, e, o, H)'
<1>1. e \in Entity /\ s \in H
    BY DEF SharedEntities, Spreading, SpreadFrom
<1>2. SpreadFrom(D, e, o, H)'
    <2>1. \A x \in Server : e \in world'[x] => e \in world[x]
        BY DEF StaysAt
    <2> QED BY <1>1, <2>1 DEF Spreading, SpreadFrom
<1>3. ASSUME NEW p \in Server, NEW r \in Neighbours(p)
      PROVE  EntityOnLink(e, H, p, r)'
    <2>1. EntityOnLink(e, H, p, r) /\ r \in Server /\ p # r /\ p \in Neighbours(r)
        BY NeighboursFacts DEF Spreading
    <2>2. p # s /\ r # s => chan'[<<p, r>>] = chan[<<p, r>>]
        OBVIOUS
    <2>3. p = s => \/ chan'[<<p, r>>] = chan[<<p, r>>] /\ Gone(e, H, r)
                   \/ \E m \in Message : /\ chan'[<<p, r>>] = Append(chan[<<p, r>>], m)
                                         /\ m.ent = e /\ m.type = "removeEntity"
        OBVIOUS
    <2>4. r = s => \/ chan'[<<p, r>>] = chan[<<p, r>>]
                   \/ chan[<<p, r>>] # <<>> /\ chan'[<<p, r>>] = Tail(chan[<<p, r>>])
        BY <2>1
    <2> QED BY <1>1, <2>1, <2>2, <2>3, <2>4, RemovalLink
<1>4. ASSUME ClockPrecise, ClockSynced, NEW a \in SharedAttrs, NEW p \in Server, NEW r \in Neighbours(p)
      PROVE  StampOnLink(e, H, p, r, a)'
    <2>1. StampOnLink(e, H, p, r, a) /\ r \in Server /\ a \in Attr /\ p \in Neighbours(r)
        BY <1>4, NeighboursFacts DEF Spreading, SharedAttrs
    <2>2. CASE p = s
        BY <2>2 DEF StampOnLink
    <2>3. CASE p # s
        <3>1. /\ e \in world'[p] => e \in world[p] /\ info'[p][e][a] = info[p][e][a]
              /\ Gone(e, H, s)'
              /\ Gone(e, H, r) => Gone(e, H, r)'
            BY <1>1, <2>1, <2>3 DEF StaysAt, Gone
        <3>2. e \in world[r] => \/ Gone(e, H, r)'
                                \/ e \in world'[r] /\ info'[r][e][a] = info[r][e][a]
            BY <2>1, <3>1 DEF StaysAt
        <3>3. info[r][e][a] # NoStamp => Covers(info[r][e][a], info[r][e][a])
            BY <1>1, <2>1, CoversOrder DEF TypeOK, Info
        <3>4. \/ chan'[<<p, r>>] = chan[<<p, r>>]
              \/ /\ chan[<<p, r>>] # <<>> /\ chan'[<<p, r>>] = Tail(chan[<<p, r>>])
                 /\ Gone(e, H, r)'
            BY <2>1, <2>3, <3>1
        <3> QED BY <1>1, <2>1, <3>1, <3>2, <3>3, <3>4, StampKept
    <2> QED BY <2>2, <2>3
<1>5. ASSUME ClockPrecise, ClockSynced, NEW a \in SharedAttrs
      PROVE  IssuerCovers(e, H, a)'
    <2>1. IssuerCovers(e, H, a)
        BY <1>5 DEF Spreading
    <2>2. \A w \in written : w[3].id \in Server
        BY DEF TypeOK, Stamp
    <2> QED BY <2>1, <2>2 DEF IssuerCovers, StaysAt
<1> QED BY <1>2, <1>3, <1>4, <1>5 DEF Spreading

\* A removal is on its way to all neighbours.
LEMMA LocalRemoveConverges ==
    ASSUME NEW D, Inductive, Inductive', Converges(D),
           NEW s \in Server, NEW e \in Entity, LocalRemove(s, e)
    PROVE  Converges(D)'
<1>1. TypeOK /\ TypeOK' /\ ChannelsFit
    BY ChannelsFitFact DEF Inductive
<1>2. /\ e \in world[s]
      /\ world' = [world EXCEPT ![s] = @ \ {e}]
      /\ info' = [info EXCEPT ![s][e] = NoInfo]
      /\ removed' = removed \cup {e} /\ created' = created /\ written' = written
    BY DEF LocalRemove
<1>3. PICK m \in Message : m = RemoveMsg(e) /\ m.ent = e /\ m.type = "removeEntity"
    BY NoInfoType, MessageType DEF RemoveMsg
<1>4. \A p \in Server, r \in Server :
          chan'[<<p, r>>] = IF p = s /\ r \in InterestedInEntity(s, e)
                            THEN Append(chan[<<p, r>>], m) ELSE chan[<<p, r>>]
    BY <1>3 DEF LocalRemove, Send
<1>5. OnlyLinks'
    <2>1. ASSUME NEW p \in Server, NEW r \in Server \ Neighbours(p) PROVE chan'[<<p, r>>] = <<>>
        <3>1. chan[<<p, r>>] = <<>>
            BY DEF Converges, OnlyLinks
        <3>2. p = s => r \notin InterestedInEntity(s, e)
            BY DEF InterestedInEntity
        <3> QED BY <1>4, <3>1, <3>2
    <2> QED BY <2>1 DEF OnlyLinks
<1>6. removed' \subseteq created' /\ \A w \in written' : w[1] \in created'
    BY <1>2 DEF Converges, Inductive, KnownCreated, SyncInfoCoversWorld
<1>7. ASSUME NEW g \in SharedEntities \cap created', NEW o \in Server, NEW H \in SUBSET Server,
             Spreading(D, g, o, H)
      PROVE  Spreading(D, g, o, H)'
    <2>1. g \in Entity
        BY DEF SharedEntities
    <2>2. CASE g # e
        <3>1. \A x \in Server : StaysAt(g, x) /\ info'[x][g] = info[x][g]
            BY <1>1, <1>2, <2>1, <2>2 DEF StaysAt, TypeOK
        <3>2. \A p \in Server : \A r \in Neighbours(p) :
                  \/ chan'[<<p, r>>] = chan[<<p, r>>]
                  \/ \E j \in Message : chan'[<<p, r>>] = Append(chan[<<p, r>>], j) /\ j.ent # g
            BY <1>3, <1>4, <2>2, NeighboursFacts
        <3> QED BY <1>1, <1>2, <1>7, <2>1, <2>2, <3>1, <3>2, Elsewhere
    <2>3. CASE g = e
        <3>1. /\ e \notin world'[s] /\ e \in removed'
              /\ \A x \in Server \ {s} : StaysAt(e, x) /\ info'[x][e] = info[x][e]
            BY <1>1, <1>2 DEF StaysAt, TypeOK
        <3>2. \A p \in Server \ {s} : \A r \in Neighbours(p) : chan'[<<p, r>>] = chan[<<p, r>>]
            BY <1>4, NeighboursFacts
        <3>3. \A r \in Neighbours(s) :
                  \E j \in Message : /\ chan'[<<s, r>>] = Append(chan[<<s, r>>], j)
                                     /\ j.ent = e /\ j.type = "removeEntity"
            BY <1>3, <1>4, <2>3, NeighboursFacts DEF InterestedInEntity, SharedEntities
        <3>4. \A p \in Neighbours(s) : chan'[<<p, s>>] = chan[<<p, s>>]
            BY <3>2, NeighboursFacts
        <3> QED BY <1>1, <1>2, <1>7, <2>3, <3>1, <3>2, <3>3, <3>4, RemovalSpreading
    <2> QED BY <2>2, <2>3
<1> QED BY <1>2, <1>5, <1>6, <1>7 DEF Converges

\* A change that is kept back changes nothing that servers tell each other.
LEMMA LocalChangeIgnoredConverges ==
    ASSUME NEW D, Converges(D), UNCHANGED <<world, info, chan, created, removed, written>>
    PROVE  Converges(D)'
<1>1. \A e, H, s : Gone(e, H, s)' <=> Gone(e, H, s)
    BY DEF Gone
<1>2. \A e, o, H : SpreadFrom(D, e, o, H) => SpreadFrom(D, e, o, H)'
    BY DEF SpreadFrom
<1>3. \A e, H, s, r : EntityOnLink(e, H, s, r) => EntityOnLink(e, H, s, r)'
    BY <1>1 DEF EntityOnLink
<1>4. \A e, H, s, r, a : StampOnLink(e, H, s, r, a) => StampOnLink(e, H, s, r, a)'
    BY <1>1 DEF StampOnLink
<1>5. \A e, H, a : IssuerCovers(e, H, a) => IssuerCovers(e, H, a)'
    BY DEF IssuerCovers
<1>6. \A e, o, H : Spreading(D, e, o, H) => Spreading(D, e, o, H)'
    BY <1>2, <1>3, <1>4, <1>5 DEF Spreading
<1>7. OnlyLinks'
    BY DEF Converges, OnlyLinks
<1> QED BY <1>6, <1>7 DEF Converges

\* A local change is stamped later than all stamps of its server and than what it replaces.
LEMMA LocalChangeCovers ==
    ASSUME Inductive, ClockPrecise, ClockSynced, NEW s \in Server, NEW e \in Entity, NEW a \in Attr,
           NEW v \in Value, NEW t \in Time, LocalChangeAnnounced(s, e, a, v, t)
    PROVE  /\ info[s][e][a] # NoStamp => Covers(StampAt(s, t, v), info[s][e][a])
           /\ \A w \in written : w[3].id = s => Covers(StampAt(s, t, v), w[3])
<1>1. PICK st \in Stamp : st = StampAt(s, t, v) /\ st # NoStamp /\ st.id = s /\ st.ts = t
    BY StampAtType
<1>2. /\ ReadClock(s, t)
      /\ info[s][e][a] # NoStamp /\ info[s][e][a].id # s => t > info[s][e][a].ts
    BY DEF LocalChangeAnnounced
<1>3. \A w \in written : w[3].id = s => w[3].ts < t
    <2>1. \A w \in written : w[3].id \in Server /\ w[3].ts \in Int /\ w[3].ts <= clock[w[3].id]
        BY DEF Inductive, TypeOK, Stamp, StampsBehindClock, Time
    <2>2. clock[s] \in Int /\ t \in Int /\ t > clock[s]
        BY <1>2 DEF Inductive, TypeOK, ReadClock, Time
    <2> QED BY <2>1, <2>2
<1>4. ASSUME NEW x \in Stamp, x.ts < t PROVE Covers(st, x)
    BY <1>1, <1>4, StampFields DEF Covers, Newer
<1>5. \A w \in written : w[3] \in Stamp
    BY DEF Inductive, TypeOK
<1>6. ASSUME info[s][e][a] # NoStamp PROVE Covers(st, info[s][e][a])
    <2>1. PICK x \in Stamp : x = info[s][e][a]
        BY <1>6 DEF Inductive, TypeOK, Info
    <2>2. <<e, a, x>> \in written
        BY <1>6, <2>1 DEF Inductive, StampsIssued, InfoIssued
    <2>3. x.id = s => x.ts < t
        BY <1>3, <2>2
    <2>4. x.id # s => x.ts < t
        BY <1>1, <1>2, <1>6, <2>1, StampFields
    <2> QED BY <1>4, <2>1, <2>3, <2>4
<1> QED BY <1>1, <1>3, <1>4, <1>5, <1>6

\* A local change is on its way to all neighbours.
LEMMA LocalChangeConverges ==
    ASSUME NEW D, Inductive, Inductive', Converges(D), NEW s \in Server, NEW e \in Entity,
           NEW b \in Registered[s], NEW v \in Writable, NEW t \in Time,
           LocalChangeAnnounced(s, e, b, v, t)
    PROVE  Converges(D)'
<1>1. TypeOK /\ TypeOK' /\ ChannelsFit
    BY ChannelsFitFact DEF Inductive
<1>2. b \in Attr /\ v \in Value
    BY WorldSyncAssumption
<1>3. PICK st \in Stamp : st = StampAt(s, t, v) /\ st # NoStamp /\ st.id = s
    BY <1>2, StampAtType
<1>4. PICK i \in Info : i = [NoInfo EXCEPT ![b] = st] /\ i[b] = st /\ \A a \in Attr \ {b} : i[a] = NoStamp
    <2>1. [NoInfo EXCEPT ![b] = st] \in Info
        BY <1>2, NoInfoType DEF Info
    <2> QED BY <1>2, <2>1 DEF NoInfo
<1>5. /\ e \in world[s]
      /\ info' = [info EXCEPT ![s][e][b] = st]
      /\ written' = written \cup {<<e, b, st>>}
      /\ UNCHANGED <<world, created, removed>>
      /\ chan' = SendChange(chan, s, Neighbours(s), e, i)
    BY <1>3, <1>4 DEF LocalChangeAnnounced
<1>6. ASSUME NEW p \in Server, NEW r \in Server
      PROVE  \/ chan'[<<p, r>>] = chan[<<p, r>>] /\ (p = s /\ r \in Neighbours(s) => Filtered(i, r) = NoInfo)
             \/ /\ p = s /\ r \in Neighbours(s)
                /\ chan'[<<p, r>>] = Append(chan[<<p, r>>], ChangeMsg(e, Filtered(i, r)))
    BY <1>5 DEF SendChange
<1>7. ASSUME NEW r \in Server
      PROVE  /\ ChangeMsg(e, Filtered(i, r)) \in Message
             /\ ChangeMsg(e, Filtered(i, r)).ent = e
             /\ ChangeMsg(e, Filtered(i, r)).type = "changeAttributes"
             /\ ChangeMsg(e, Filtered(i, r)).info = Filtered(i, r)
    BY FilteredType, MessageType DEF ChangeMsg
<1>8. OnlyLinks'
    BY <1>6 DEF Converges, OnlyLinks
<1>9. removed' \subseteq created' /\ \A w \in written' : w[1] \in created'
    BY <1>5 DEF Converges, Inductive, KnownCreated, SyncInfoCoversWorld
<1>10. \A g \in Entity, x \in Server : StaysAt(g, x)
    BY <1>5 DEF StaysAt
<1>11. \A x \in Server, g \in Entity, a \in Attr :
           info'[x][g][a] = IF x = s /\ g = e /\ a = b THEN st ELSE info[x][g][a]
    <2>1. info \in [Server -> [Entity -> [Attr -> Stamp \cup {NoStamp}]]]
        BY <1>1 DEF TypeOK, Info
    <2> QED BY <1>2, <1>5, <2>1
<1>12. ASSUME NEW g \in SharedEntities \cap created', NEW o \in Server, NEW H \in SUBSET Server,
              Spreading(D, g, o, H), g # e
       PROVE  Spreading(D, g, o, H)'
    <2>1. g \in Entity
        BY DEF SharedEntities
    <2>2. \A x \in Server : StaysAt(g, x) /\ info'[x][g] = info[x][g]
        BY <1>1, <1>5, <1>10, <1>12, <2>1 DEF TypeOK
    <2>3. ASSUME NEW p \in Server, NEW r \in Neighbours(p)
          PROVE  \/ chan'[<<p, r>>] = chan[<<p, r>>]
                 \/ \E j \in Message : chan'[<<p, r>>] = Append(chan[<<p, r>>], j) /\ j.ent # g
        <3>1. r \in Server
            BY NeighboursFacts
        <3>2. PICK j \in Message : j = ChangeMsg(e, Filtered(i, r)) /\ j.ent = e
            BY <1>7, <3>1
        <3> QED BY <1>6, <1>12, <3>1, <3>2
    <2>4. \A w \in written' : w[1] = g => w \in written
        BY <1>5, <1>12
    <2> QED BY <1>1, <1>5, <1>12, <2>1, <2>2, <2>3, <2>4, Elsewhere
<1>13. ASSUME e \in SharedEntities, NEW o \in Server, NEW H \in SUBSET Server, Spreading(D, e, o, H)
       PROVE  Spreading(D, e, o, H)'
    <2>1. s \in H
        BY <1>5, <1>13 DEF Spreading, SpreadFrom
    <2>2. SpreadFrom(D, e, o, H)'
        BY <1>5, <1>13 DEF Spreading, SpreadFrom
    <2>3. ASSUME NEW p \in Server, NEW r \in Neighbours(p)
          PROVE  EntityOnLink(e, H, p, r)'
        <3>1. EntityOnLink(e, H, p, r) /\ r \in Server
            BY <1>13, NeighboursFacts DEF Spreading
        <3>2. \/ chan'[<<p, r>>] = chan[<<p, r>>]
              \/ \E m \in Message :
                    /\ chan'[<<p, r>>] = Append(chan[<<p, r>>], m)
                    /\ m.ent = e => m.type = "changeAttributes" /\ p \in H
            BY <1>6, <1>7, <2>1, <3>1
        <3> QED BY <1>1, <1>10, <3>1, <3>2, QuietLink
    <2>4. ASSUME ClockPrecise, ClockSynced, NEW a \in SharedAttrs, NEW p \in Server,
                 NEW r \in Neighbours(p)
          PROVE  StampOnLink(e, H, p, r, a)'
        <3>1. /\ StampOnLink(e, H, p, r, a) /\ r \in Server /\ a \in Attr /\ r # p
              /\ Gone(e, H, r) => Gone(e, H, r)'
            BY <1>5, <1>13, <2>4, NeighboursFacts DEF Spreading, SharedAttrs, Gone
        <3>2. ASSUME NEW x \in Server
              PROVE  info[x][e][a] # NoStamp => Covers(info'[x][e][a], info[x][e][a])
            <4>1. info[x][e][a] # NoStamp => Covers(info[x][e][a], info[x][e][a])
                BY <1>1, <3>1, CoversOrder DEF TypeOK, Info
            <4>2. info[s][e][b] # NoStamp => Covers(st, info[s][e][b])
                BY <1>2, <1>3, <2>4, LocalChangeCovers
            <4> QED BY <1>11, <3>1, <4>1, <4>2
        <3>3. CASE p = s /\ a = b
            <4>0. Filtered(i, r)[a] = i[a]
                BY <3>1, SharedIsSent
            <4>1. info'[p][e][a] = st /\ Filtered(i, r)[a] = st
                BY <1>4, <1>11, <3>1, <3>3, <4>0
            <4>2. Filtered(i, r) # NoInfo
                BY <1>3, <1>4, <3>1, <3>3, SharedIsSent
            <4>3. \E m \in Message :
                      /\ chan'[<<p, r>>] = Append(chan[<<p, r>>], m)
                      /\ m.ent = e /\ m.info[a] = info'[p][e][a]
                BY <1>6, <1>7, <3>1, <3>3, <4>1, <4>2
            <4> QED BY <1>1, <1>3, <1>5, <3>1, <3>2, <3>3, <4>1, <4>3, StampSent
        <3>4. CASE ~(p = s /\ a = b)
            <4>1. info'[p][e][a] = info[p][e][a] /\ world' = world
                BY <1>5, <1>11, <3>1, <3>4
            <4>2. \/ chan'[<<p, r>>] = chan[<<p, r>>]
                  \/ \E m \in Message :
                        /\ chan'[<<p, r>>] = Append(chan[<<p, r>>], m)
                        /\ m.ent = e /\ m.info[a] = NoStamp
                <5>1. CASE a = b
                    BY <1>6, <3>1, <3>4, <5>1
                <5>2. CASE a # b
                    <6>1. Filtered(i, r)[a] = NoStamp
                        BY <1>4, <3>1, <5>2 DEF Filtered
                    <6> QED BY <1>6, <1>7, <3>1, <6>1
                <5> QED BY <5>1, <5>2
            <4> QED BY <1>1, <3>1, <3>2, <4>1, <4>2, StampKept
        <3> QED BY <3>3, <3>4
    <2>5. ASSUME ClockPrecise, ClockSynced, NEW a \in SharedAttrs
          PROVE  IssuerCovers(e, H, a)'
        <3>1. IssuerCovers(e, H, a) /\ a \in Attr
            BY <1>13, <2>5 DEF Spreading, SharedAttrs
        <3>2. ASSUME NEW w \in written', w[1] = e, w[2] = a
              PROVE  /\ w[3].id \in H
                     /\ e \in world[w[3].id] => Covers(info'[w[3].id][e][a], w[3])
            <4>1. CASE w \in written /\ ~(w[3].id = s /\ a = b)
                <5>1. w[3].id \in Server
                    BY <1>1, <4>1 DEF TypeOK, Stamp
                <5> QED BY <1>11, <3>1, <3>2, <4>1, <5>1 DEF IssuerCovers
            <4>2. CASE w \in written /\ w[3].id = s /\ a = b
                <5>1. Covers(st, w[3])
                    BY <1>2, <1>3, <2>5, <4>2, LocalChangeCovers
                <5> QED BY <1>11, <2>1, <3>1, <4>2, <5>1
            <4>3. CASE w = <<e, b, st>>
                BY <1>3, <1>11, <2>1, <3>1, <3>2, <4>3, CoversOrder
            <4> QED BY <1>5, <4>1, <4>2, <4>3
        <3> QED BY <1>5, <3>2 DEF IssuerCovers
    <2> QED BY <2>2, <2>3, <2>4, <2>5 DEF Spreading
<1> QED BY <1>5, <1>8, <1>9, <1>12, <1>13 DEF Converges

(***************************************************************************)
(* Remote calls                                                            *)
(***************************************************************************)

\* Server s takes message m of its neighbour r.
Takes(r, s, m) ==
    /\ TypeOK /\ TypeOK' /\ ChannelsFit
    /\ known = world
    /\ r \in Neighbours(s) /\ s \in Neighbours(r) /\ r # s
    /\ chan[<<r, s>>] # <<>> /\ m = Head(chan[<<r, s>>])
    /\ m.ent \in Entity /\ m.info \in Info
    /\ UNCHANGED <<created, removed, written>>

\* It takes m, and puts messages of the same kind, about the same entity, on links of its own.
TakesAndSends(r, s, m) ==
    /\ chan'[<<r, s>>] = Tail(chan[<<r, s>>])
    /\ \A p \in Server : \A q \in Server :
          p # s /\ ~(p = r /\ q = s) => chan'[<<p, q>>] = chan[<<p, q>>]
    /\ \A q \in Server : \/ chan'[<<s, q>>] = chan[<<s, q>>]
                         \/ /\ q \in Neighbours(s) \ {r}
                            /\ \E j \in Message : /\ chan'[<<s, q>>] = Append(chan[<<s, q>>], j)
                                                  /\ j.ent = m.ent /\ j.type = m.type

\* What every handler starts from.
LEMMA DeliverTakes ==
    ASSUME NEW D, Inductive, Inductive', Converges(D), NEW r \in Server, NEW s \in Server,
           Deliver(r, s)
    PROVE  \E m \in Message :
               /\ Takes(r, s, m)
               /\ \/ HandleRemoteAddedEntity(r, s, m)
                  \/ HandleRemoteRemovedEntity(r, s, m)
                  \/ HandleRemoteChangedAttributes(r, s, m)
                  \/ HandlerThrows(r, s, m)
<1> DEFINE m == Head(chan[<<r, s>>])
<1>1. TypeOK /\ TypeOK' /\ known = world
    BY DEF Inductive, SyncInfoCoversWorld
<1>2. ChannelsFit
    BY <1>1, ChannelsFitFact
<1>3. /\ \/ HandleRemoteAddedEntity(r, s, m)
         \/ HandleRemoteRemovedEntity(r, s, m)
         \/ HandleRemoteChangedAttributes(r, s, m)
         \/ HandlerThrows(r, s, m)
      /\ chan[<<r, s>>] # <<>>
    BY DEF Deliver
<1>4. m \in Message
    BY <1>1, <1>3, ReceivedType DEF TypeOK
<1>5. s \in Neighbours(r) /\ r \in Neighbours(s) /\ r # s
    BY <1>3, NeighboursFacts DEF Converges, OnlyLinks
<1>6. UNCHANGED <<created, removed, written>>
    <2> HIDE DEF m
    <2> QED BY <1>3 DEF HandleRemoteAddedEntity, HandleRemoteRemovedEntity,
                        HandleRemoteChangedAttributes, HandlerThrows
<1>7. m.ent \in Entity /\ m.info \in Info
    BY <1>4 DEF Message
<1>8. Takes(r, s, m)
    BY <1>1, <1>2, <1>3, <1>5, <1>6, <1>7 DEF Takes
<1> HIDE DEF m
<1> QED BY <1>3, <1>4, <1>8

\* The links after a message was forwarded.
LEMMA ForwardLinks ==
    ASSUME NEW r \in Server, NEW s \in Server, NEW m \in Message, Takes(r, s, m),
           NEW R \in SUBSET Neighbours(s), r \notin R, chan' = Send(Received(r, s), s, R, m)
    PROVE  /\ TakesAndSends(r, s, m)
           /\ \A q \in Server : chan'[<<s, q>>] = IF q \in R THEN Append(chan[<<s, q>>], m)
                                                  ELSE chan[<<s, q>>]
<1>1. chan \in Channels /\ r # s
    BY DEF Takes, ChannelsFit
<1>2. \A p \in Server, q \in Server :
          chan'[<<p, q>>] = IF p = s /\ q \in R THEN Append(Received(r, s)[<<p, q>>], m)
                            ELSE Received(r, s)[<<p, q>>]
    BY DEF Send
<1>3. \A p \in Server, q \in Server :
          Received(r, s)[<<p, q>>] = IF p = r /\ q = s THEN Tail(chan[<<p, q>>]) ELSE chan[<<p, q>>]
    BY <1>1 DEF Received, Channels
<1>4. \A q \in Server : chan'[<<s, q>>] = IF q \in R THEN Append(chan[<<s, q>>], m)
                                          ELSE chan[<<s, q>>]
    BY <1>1, <1>2, <1>3
<1>5. /\ chan'[<<r, s>>] = Tail(chan[<<r, s>>])
      /\ \A p \in Server : \A q \in Server :
            p # s /\ ~(p = r /\ q = s) => chan'[<<p, q>>] = chan[<<p, q>>]
    BY <1>1, <1>2, <1>3
<1> QED BY <1>4, <1>5 DEF TakesAndSends

\* The links after a change was forwarded.
LEMMA ForwardChangeLinks ==
    ASSUME NEW r \in Server, NEW s \in Server, NEW m \in Message, Takes(r, s, m),
           m.type = "changeAttributes",
           chan' = SendChange(Received(r, s), s, Neighbours(s) \ {r}, m.ent, m.info)
    PROVE  /\ TakesAndSends(r, s, m)
           /\ chan'[<<s, r>>] = chan[<<s, r>>]
           /\ \A q \in Neighbours(s) \ {r} :
                 \/ chan'[<<s, q>>] = chan[<<s, q>>] /\ Filtered(m.info, q) = NoInfo
                 \/ \E j \in Message :
                       /\ chan'[<<s, q>>] = Append(chan[<<s, q>>], j)
                       /\ j.ent = m.ent /\ j.info = Filtered(m.info, q)
<1>1. chan \in Channels /\ r # s /\ m.ent \in Entity /\ m.info \in Info
    BY DEF Takes, ChannelsFit
<1>2. \A p \in Server, q \in Server :
          chan'[<<p, q>>] =
              IF p = s /\ q \in Neighbours(s) \ {r} /\ Filtered(m.info, q) # NoInfo
              THEN Append(Received(r, s)[<<p, q>>], ChangeMsg(m.ent, Filtered(m.info, q)))
              ELSE Received(r, s)[<<p, q>>]
    BY DEF SendChange
<1>3. \A p \in Server, q \in Server :
          Received(r, s)[<<p, q>>] = IF p = r /\ q = s THEN Tail(chan[<<p, q>>]) ELSE chan[<<p, q>>]
    BY <1>1 DEF Received, Channels
<1>4. ASSUME NEW q \in Server
      PROVE  \/ /\ chan'[<<s, q>>] = chan[<<s, q>>]
                /\ q \in Neighbours(s) \ {r} => Filtered(m.info, q) = NoInfo
             \/ /\ q \in Neighbours(s) \ {r}
                /\ \E j \in Message : /\ chan'[<<s, q>>] = Append(chan[<<s, q>>], j)
                                      /\ j.ent = m.ent /\ j.type = m.type
                                      /\ j.info = Filtered(m.info, q)
    <2>1. PICK i \in Info : i = Filtered(m.info, q)
        BY <1>1, FilteredType
    <2>2. PICK j \in Message : /\ j = ChangeMsg(m.ent, i)
                               /\ j.ent = m.ent /\ j.type = m.type /\ j.info = i
        BY <1>1, MessageType DEF ChangeMsg
    <2>3. Received(r, s)[<<s, q>>] = chan[<<s, q>>]
        BY <1>1, <1>3
    <2>4. chan'[<<s, q>>] = IF q \in Neighbours(s) \ {r} /\ i # NoInfo
                            THEN Append(chan[<<s, q>>], j) ELSE chan[<<s, q>>]
        BY <1>2, <2>1, <2>2, <2>3
    <2>5. CASE q \in Neighbours(s) \ {r} /\ i # NoInfo
        <3>1. chan'[<<s, q>>] = Append(chan[<<s, q>>], j)
            BY <2>4, <2>5
        <3> QED BY <2>1, <2>2, <2>5, <3>1, Zenon
    <2>6. CASE ~(q \in Neighbours(s) \ {r} /\ i # NoInfo)
        <3>1. chan'[<<s, q>>] = chan[<<s, q>>]
            BY <2>4, <2>6
        <3> QED BY <2>1, <2>6, <3>1, Zenon
    <2> QED BY <2>5, <2>6
<1>5. /\ chan'[<<r, s>>] = Tail(chan[<<r, s>>])
      /\ \A p \in Server : \A q \in Server :
            p # s /\ ~(p = r /\ q = s) => chan'[<<p, q>>] = chan[<<p, q>>]
    BY <1>1, <1>2, <1>3
<1>6. TakesAndSends(r, s, m)
    <2>1. ASSUME NEW q \in Server
          PROVE  \/ chan'[<<s, q>>] = chan[<<s, q>>]
                 \/ /\ q \in Neighbours(s) \ {r}
                    /\ \E j \in Message : /\ chan'[<<s, q>>] = Append(chan[<<s, q>>], j)
                                          /\ j.ent = m.ent /\ j.type = m.type
        BY <1>4, Zenon
    <2> QED BY <1>5, <2>1, Zenon DEF TakesAndSends
<1>7. chan'[<<s, r>>] = chan[<<s, r>>]
    BY <1>4
<1>8. \A q \in Neighbours(s) : q \in Server
    BY NeighboursFacts
<1> QED BY <1>4, <1>6, <1>7, <1>8

\* Other entities have spread as far as before.
LEMMA DeliverElsewhere ==
    ASSUME NEW D, NEW r \in Server, NEW s \in Server, NEW m \in Message,
           Takes(r, s, m), TakesAndSends(r, s, m),
           NEW g \in SharedEntities, g # m.ent,
           NEW o \in Server, NEW H \in SUBSET Server, Spreading(D, g, o, H),
           \A x \in Server : StaysAt(g, x) /\ info'[x][g] = info[x][g]
    PROVE  Spreading(D, g, o, H)'
<1>1. ASSUME NEW p \in Server, NEW q \in Neighbours(p)
      PROVE  \/ chan'[<<p, q>>] = chan[<<p, q>>]
             \/ \E j \in Message : chan'[<<p, q>>] = Append(chan[<<p, q>>], j) /\ j.ent # g
             \/ /\ chan[<<p, q>>] # <<>> /\ chan'[<<p, q>>] = Tail(chan[<<p, q>>])
                /\ Head(chan[<<p, q>>]).ent # g
    <2>1. q \in Server
        BY NeighboursFacts
    <2>2. CASE p = r /\ q = s
        BY <2>2 DEF Takes, TakesAndSends
    <2>3. CASE p = s
        BY <2>1, <2>3 DEF TakesAndSends
    <2>4. CASE p # s /\ ~(p = r /\ q = s)
        BY <2>1, <2>4 DEF TakesAndSends
    <2> QED BY <2>2, <2>3, <2>4
<1>2. /\ g \in Entity /\ ChannelsFit /\ TypeOK /\ TypeOK'
    BY DEF Takes, SharedEntities
<1>3. g \in removed' <=> g \in removed
    BY DEF Takes
<1>4. \A w \in written' : w[1] = g => w \in written
    BY DEF Takes
<1> QED BY <1>1, <1>2, <1>3, <1>4, Elsewhere

\* What the head of a link tells about its ends.
LEMMA HeadTells ==
    ASSUME NEW r \in Server, NEW s \in Server, NEW m \in Message, Takes(r, s, m),
           NEW D, NEW o \in Server, NEW H \in SUBSET Server, Spreading(D, m.ent, o, H)
    PROVE  /\ r \in H
           /\ m.type = "addEntity" <=> s \notin H
           /\ m.type = "removeEntity" => Gone(m.ent, H, r)
<1>1. PICK q \in Seq(Message) : q = chan[<<r, s>>] /\ q # <<>> /\ Head(q) = m
    BY DEF Takes, ChannelsFit, Channels
<1>2. EntityOnLink(m.ent, H, r, s)
    BY DEF Takes, Spreading
<1>3. /\ r \notin H => Silent(q, m.ent)
      /\ s \in H => ~Carries(q, "addEntity", m.ent)
      /\ r \in H /\ s \notin H => AddsFirst(q, m.ent)
      /\ Carries(q, "removeEntity", m.ent) => Gone(m.ent, H, r)
    BY <1>1, <1>2 DEF EntityOnLink
<1>4. /\ Silent(q, m.ent) => m.ent # m.ent
      /\ Carries(q, m.type, m.ent)
      /\ AddsFirst(q, m.ent) => m.type = "addEntity"
    BY <1>1, ShortenedLink
<1> QED BY <1>3, <1>4

\* The sender of a message is not behind it.
LEMMA HeadBehind ==
    ASSUME NEW r \in Server, NEW s \in Server, NEW m \in Message, Takes(r, s, m),
           NEW H \in SUBSET Server, r \in H, NEW a \in Attr, StampOnLink(m.ent, H, r, s, a),
           m.info[a] # NoStamp
    PROVE  Gone(m.ent, H, r) \/ (m.ent \in world[r] /\ Covers(info[r][m.ent][a], m.info[a]))
<1>1. PICK q \in Seq(Message) : q = chan[<<r, s>>] /\ q # <<>> /\ Head(q) = m
    BY DEF Takes, ChannelsFit, Channels
<1>2. CASE m.ent \in world[r]
    <2>1. Behind(q, m.ent, a, info[r][m.ent][a])
        BY <1>1, <1>2 DEF StampOnLink
    <2>2. 1 \in DOMAIN q /\ q[1] = m
        BY <1>1, Shortened
    <2>3. Covers(info[r][m.ent][a], m.info[a])
        BY <2>1, <2>2 DEF Behind
    <2> QED BY <1>2, <2>3
<1>3. CASE m.ent \notin world[r]
    BY <1>3 DEF Gone
<1> QED BY <1>2, <1>3

\* The neighbours an entity has not come from have not heard of it.
LEMMA OneWayIn ==
    ASSUME NEW D, TreeDistance(D), NEW e, NEW o \in Server, NEW H \in SUBSET Server,
           SpreadFrom(D, e, o, H), NEW s \in Server, s \notin H, NEW r \in Neighbours(s), r \in H
    PROVE  /\ \A q \in Neighbours(s) \ {r} : q \notin H
           /\ \A q \in Neighbours(s) : D[o][q] < D[o][s] => q = r
<1>1. s # o
    BY DEF SpreadFrom
<1>2. PICK p \in Neighbours(s) : /\ D[o][p] < D[o][s]
                                 /\ \A q \in Neighbours(s) \ {p} : D[o][q] > D[o][s]
    BY <1>1 DEF TreeDistance
<1>3. ASSUME NEW q \in Neighbours(s), q # p PROVE q \notin H /\ ~(D[o][q] < D[o][s])
    <2>1. q \in Server /\ s \in Neighbours(q)
        BY NeighboursFacts
    <2>2. D[o][q] \in Int /\ D[o][s] \in Int /\ D[o][q] > D[o][s]
        BY <1>2, <1>3, <2>1 DEF TreeDistance
    <2> QED BY <2>1, <2>2 DEF SpreadFrom
<1>4. r = p
    BY <1>3
<1> QED BY <1>3, <1>4

\* A server that is told of a new entity tells the neighbours it has not come from.
LEMMA AddedSpreads ==
    ASSUME NEW D, TreeDistance(D), NEW r \in Server, NEW s \in Server, NEW m \in Message,
           Takes(r, s, m), HandleRemoteAddedEntity(r, s, m), m.ent \in SharedEntities,
           NEW o \in Server, NEW H \in SUBSET Server, Spreading(D, m.ent, o, H)
    PROVE  Spreading(D, m.ent, o, H \cup {s})'
<1>1. PICK e \in SharedEntities : e = m.ent
    OBVIOUS
<1>2. PICK J \in SUBSET Server : J = H \cup {s}
    OBVIOUS
<1>3. e \in Entity /\ ChannelsFit /\ TypeOK /\ TypeOK' /\ r # s /\ r \in Neighbours(s)
    BY <1>1 DEF Takes
<1>4. m.type = "addEntity" /\ r \in H /\ s \notin H
    BY HeadTells DEF HandleRemoteAddedEntity
<1>5. SpreadFrom(D, e, o, H) /\ e \notin world[s] /\ e \notin known[s]
    BY <1>1, <1>4 DEF Spreading, SpreadFrom, Takes
<1>6. /\ world' = [world EXCEPT ![s] = @ \cup {e}]
      /\ info' = [info EXCEPT ![s][e] = Merged(NoInfo, m.info)]
      /\ chan' = Send(Received(r, s), s, InterestedInEntity(s, e) \ {r}, m)
    BY <1>1, <1>5 DEF HandleRemoteAddedEntity
<1>7. InterestedInEntity(s, e) = Neighbours(s)
    BY NeighboursFacts DEF InterestedInEntity, SharedEntities
<1>8. /\ TakesAndSends(r, s, m)
      /\ chan'[<<s, r>>] = chan[<<s, r>>]
      /\ \A q \in Neighbours(s) \ {r} : chan'[<<s, q>>] = Append(chan[<<s, q>>], m)
    <2>1. PICK R \in SUBSET Neighbours(s) : R = Neighbours(s) \ {r}
        OBVIOUS
    <2>2. chan' = Send(Received(r, s), s, R, m) /\ r \notin R
        BY <1>6, <1>7, <2>1
    <2>3. /\ TakesAndSends(r, s, m)
          /\ \A q \in Server : chan'[<<s, q>>] = IF q \in R THEN Append(chan[<<s, q>>], m)
                                                 ELSE chan[<<s, q>>]
        BY <2>2, ForwardLinks
    <2> QED BY <2>1, <2>2, <2>3, NeighboursFacts
<1>9. /\ \A q \in Neighbours(s) \ {r} : q \notin H
      /\ \A q \in Neighbours(s) : D[o][q] < D[o][s] => q = r
    BY <1>3, <1>4, <1>5, OneWayIn
<1>10. /\ e \in world'[s] /\ info'[s][e] = Merged(NoInfo, m.info)
       /\ \A x \in Server \ {s} : StaysAt(e, x) /\ info'[x][e] = info[x][e]
    BY <1>3, <1>6 DEF StaysAt, TypeOK
<1>11. SpreadFrom(D, e, o, J)'
    <2>1. e \in removed' <=> e \in removed
        BY DEF Takes
    <2>2. (\E x \in J : e \notin world'[x]) <=> (\E x \in H : e \notin world[x])
        BY <1>2, <1>4, <1>10 DEF StaysAt
    <2>3. \A x \in J : \A p \in Neighbours(x) : D[o][p] < D[o][x] => p \in J
        BY <1>2, <1>4, <1>5, <1>9 DEF SpreadFrom
    <2>4. \A x \in Server : e \in world'[x] => x \in J
        BY <1>2, <1>5, <1>10 DEF SpreadFrom, StaysAt
    <2> QED BY <1>2, <1>5, <2>1, <2>2, <2>3, <2>4 DEF SpreadFrom
<1>12. ASSUME NEW p \in Server, NEW q \in Neighbours(p) PROVE EntityOnLink(e, J, p, q)'
    <2>1. EntityOnLink(e, H, p, q) /\ q \in Server /\ q # p /\ p \in Neighbours(q)
        BY <1>1, NeighboursFacts DEF Spreading
    <2>2. p # s /\ q # s => chan'[<<p, q>>] = chan[<<p, q>>]
        BY <1>8, <2>1 DEF TakesAndSends
    <2>3. p = s => \/ chan'[<<p, q>>] = chan[<<p, q>>] /\ q \in H
                   \/ /\ q \notin H
                      /\ \E j \in Message : /\ chan'[<<p, q>>] = Append(chan[<<p, q>>], j)
                                            /\ j.ent = e /\ j.type = "addEntity"
        BY <1>1, <1>4, <1>8, <1>9
    <2>4. q = s => \/ chan'[<<p, q>>] = chan[<<p, q>>] /\ p \notin H
                   \/ /\ chan[<<p, q>>] # <<>>
                      /\ chan'[<<p, q>>] = Tail(chan[<<p, q>>])
                      /\ Head(chan[<<p, q>>]).ent = e
        BY <1>1, <1>8, <1>9, <2>1 DEF TakesAndSends, Takes
    <2>5. EntityOnLink(e, H \cup {s}, p, q)'
        BY <1>3, <1>4, <1>10, <2>1, <2>2, <2>3, <2>4, AdditionLink
    <2> QED BY <1>2, <2>5
<1>13. ASSUME ClockPrecise, ClockSynced, NEW a \in SharedAttrs, NEW p \in Server, NEW q \in Neighbours(p)
       PROVE  StampOnLink(e, J, p, q, a)'
    <2>1. /\ StampOnLink(e, H, p, q, a) /\ StampOnLink(e, H, r, s, a)
          /\ q \in Server /\ q # p /\ p \in Neighbours(q) /\ a \in Attr
        BY <1>1, <1>3, <1>13, NeighboursFacts DEF Spreading, SharedAttrs
    <2>2. info'[s][e][a] = m.info[a]
        BY <1>10, <2>1 DEF Merged, NoInfo, Accepts
    <2>3. \A x \in Server : Gone(e, H, x) => Gone(e, J, x)'
        BY <1>2, <1>4, <1>10 DEF Gone, StaysAt
    <2>4. s # p => (e \in world'[p] => e \in world[p] /\ info'[p][e][a] = info[p][e][a])
        BY <1>10 DEF StaysAt
    <2>5. ASSUME NEW x \in Server, e \in world[x]
          PROVE  /\ e \in world'[x]
                 /\ info[x][e][a] # NoStamp => Covers(info'[x][e][a], info[x][e][a])
        <3>1. info[x][e][a] # NoStamp => Covers(info[x][e][a], info[x][e][a])
            BY <1>3, <2>1, CoversOrder DEF TypeOK, Info
        <3> QED BY <1>5, <1>10, <2>5, <3>1 DEF StaysAt
    <2>6. CASE p = s
        <3>1. PICK n \in Seq(Message) : n = chan[<<p, q>>] /\ Silent(n, e)
            <4>1. EntityOnLink(e, H, p, q)
                BY <1>1 DEF Spreading
            <4> QED BY <1>3, <1>4, <2>1, <2>6, <4>1 DEF EntityOnLink, ChannelsFit, Channels
        <3>2. CASE q # r
            <4>1. \E j \in Message : /\ chan'[<<p, q>>] = Append(chan[<<p, q>>], j)
                                     /\ j.ent = e /\ j.info[a] = info'[p][e][a]
                BY <1>1, <1>8, <2>2, <2>6, <3>2
            <4> QED BY <1>3, <1>5, <2>1, <2>6, <3>1, <4>1, NewcomerLink
        <3>3. CASE q = r /\ m.info[a] = NoStamp
            <4>1. Behind(n, e, a, NoStamp)
                BY <3>1 DEF Behind, Silent
            <4> QED BY <1>8, <2>2, <2>6, <3>1, <3>3, <4>1 DEF StampOnLink
        <3>4. CASE q = r /\ m.info[a] # NoStamp
            <4>1. Gone(e, H, r) \/ (e \in world[r] /\ Covers(info[r][e][a], m.info[a]))
                BY <1>1, <1>4, <2>1, <3>4, HeadBehind
            <4>2. Gone(e, J, r)' \/ (e \in world'[r] /\ Covers(info'[r][e][a], info'[s][e][a]))
                BY <1>3, <1>10, <2>2, <2>3, <4>1 DEF StaysAt
            <4>3. info'[p][e][a] # NoStamp /\ chan'[<<p, q>>] = chan[<<p, q>>] /\ Silent(chan[<<p, q>>], e)
                BY <1>8, <2>2, <2>6, <3>1, <3>4
            <4> QED BY <1>3, <2>1, <2>6, <3>4, <4>2, <4>3, StampSent
        <3> QED BY <3>2, <3>3, <3>4
    <2>7. CASE p # s /\ q = s /\ p # r
        <3>1. e \notin world'[p]
            BY <1>5, <1>9, <1>10, <2>1, <2>7 DEF SpreadFrom, StaysAt
        <3> QED BY <3>1 DEF StampOnLink
    <2>8. CASE p = r /\ q = s
        <3>1. /\ chan[<<p, q>>] # <<>> /\ chan'[<<p, q>>] = Tail(chan[<<p, q>>])
              /\ Head(chan[<<p, q>>]) = m
            BY <1>8, <2>8 DEF TakesAndSends, Takes
        <3>2. m.info[a] # NoStamp => Covers(info'[q][e][a], m.info[a])
            <4>1. m.info[a] \in Stamp \cup {NoStamp}
                BY <2>1 DEF Message, Info
            <4> QED BY <2>2, <2>8, <4>1, CoversOrder
        <3> QED BY <1>3, <1>10, <2>1, <2>3, <2>4, <2>5, <2>8, <3>1, <3>2, StampKept
    <2>9. CASE p # s /\ q # s
        <3>1. chan'[<<p, q>>] = chan[<<p, q>>]
            BY <1>8, <2>1, <2>9 DEF TakesAndSends
        <3> QED BY <1>3, <2>1, <2>3, <2>4, <2>5, <2>9, <3>1, StampKept
    <2> QED BY <2>6, <2>7, <2>8, <2>9
<1>14. ASSUME ClockPrecise, ClockSynced, NEW a \in SharedAttrs PROVE IssuerCovers(e, J, a)'
    <2>1. IssuerCovers(e, H, a)
        BY <1>1, <1>14 DEF Spreading
    <2>2. \A x \in H : info'[x][e] = info[x][e] /\ StaysAt(e, x)
        BY <1>4, <1>10
    <2>3. written' = written
        BY DEF Takes
    <2> QED BY <1>2, <2>1, <2>2, <2>3 DEF IssuerCovers, StaysAt
<1>15. Spreading(D, e, o, J)'
    BY <1>11, <1>12, <1>13, <1>14 DEF Spreading
<1> QED BY <1>1, <1>2, <1>15

\* A server that is told of a removal passes it on, if it still had the entity.
LEMMA RemovedSpreads ==
    ASSUME NEW D, NEW r \in Server, NEW s \in Server, NEW m \in Message,
           Takes(r, s, m), HandleRemoteRemovedEntity(r, s, m), m.ent \in SharedEntities,
           NEW o \in Server, NEW H \in SUBSET Server, Spreading(D, m.ent, o, H)
    PROVE  Spreading(D, m.ent, o, H)'
<1>1. PICK e \in SharedEntities : e = m.ent
    OBVIOUS
<1>2. /\ e \in Entity /\ ChannelsFit /\ TypeOK /\ TypeOK' /\ r # s /\ r \in Neighbours(s)
      /\ removed' = removed /\ written' = written
    BY <1>1 DEF Takes
<1>3. Gone(e, H, r) /\ m.type = "removeEntity"
    BY <1>1, HeadTells DEF HandleRemoteRemovedEntity
<1>4. /\ e \in world[s]
      /\ world' = [world EXCEPT ![s] = @ \ {e}]
      /\ info' = [info EXCEPT ![s][e] = NoInfo]
      /\ chan' = Send(Received(r, s), s, InterestedInEntity(s, e) \ {r}, m)
    BY <1>1 DEF HandleRemoteRemovedEntity, Takes
<1>5. InterestedInEntity(s, e) = Neighbours(s)
    BY NeighboursFacts DEF InterestedInEntity, SharedEntities
<1>6. /\ TakesAndSends(r, s, m)
      /\ chan'[<<s, r>>] = chan[<<s, r>>]
      /\ \A q \in Neighbours(s) \ {r} : chan'[<<s, q>>] = Append(chan[<<s, q>>], m)
    <2>1. PICK R \in SUBSET Neighbours(s) : R = Neighbours(s) \ {r}
        OBVIOUS
    <2>2. chan' = Send(Received(r, s), s, R, m) /\ r \notin R
        BY <1>4, <1>5, <2>1
    <2>3. /\ TakesAndSends(r, s, m)
          /\ \A q \in Server : chan'[<<s, q>>] = IF q \in R THEN Append(chan[<<s, q>>], m)
                                                 ELSE chan[<<s, q>>]
        BY <2>2, ForwardLinks
    <2> QED BY <2>1, <2>2, <2>3, NeighboursFacts
<1>7. e \in removed'
    BY <1>1, <1>2, <1>3 DEF Spreading, SpreadFrom, Gone
<1>8. /\ e \notin world'[s]
      /\ \A x \in Server \ {s} : StaysAt(e, x) /\ info'[x][e] = info[x][e]
    BY <1>2, <1>4 DEF StaysAt, TypeOK
<1>9. \A p \in Server \ {s} : \A q \in Neighbours(p) \ {s} : chan'[<<p, q>>] = chan[<<p, q>>]
    BY <1>6, NeighboursFacts DEF TakesAndSends
<1>10. \A q \in Neighbours(s) :
           \/ chan'[<<s, q>>] = chan[<<s, q>>] /\ Gone(e, H, q)
           \/ \E j \in Message : /\ chan'[<<s, q>>] = Append(chan[<<s, q>>], j)
                                 /\ j.ent = e /\ j.type = "removeEntity"
    BY <1>1, <1>3, <1>6
<1>11. \A p \in Neighbours(s) :
           \/ chan'[<<p, s>>] = chan[<<p, s>>]
           \/ chan[<<p, s>>] # <<>> /\ chan'[<<p, s>>] = Tail(chan[<<p, s>>])
    BY <1>6, NeighboursFacts DEF TakesAndSends, Takes
<1>12. Spreading(D, e, o, H)'
    BY <1>1, <1>2, <1>4, <1>7, <1>8, <1>9, <1>10, <1>11, RemovalSpreading
<1> QED BY <1>1, <1>12

\* A message about an entity that the server has lost is dropped.
LEMMA ThrowsSpreads ==
    ASSUME NEW D, NEW r \in Server, NEW s \in Server, NEW m \in Message,
           Takes(r, s, m), HandlerThrows(r, s, m), m.ent \in SharedEntities,
           NEW o \in Server, NEW H \in SUBSET Server, Spreading(D, m.ent, o, H)
    PROVE  Spreading(D, m.ent, o, H)'
<1>1. PICK e \in SharedEntities : e = m.ent
    OBVIOUS
<1>2. /\ e \in Entity /\ ChannelsFit /\ TypeOK /\ TypeOK' /\ r # s
      /\ world' = world /\ info' = info /\ removed' = removed /\ written' = written
      /\ e \notin world[s] /\ m.type \in {"removeEntity", "changeAttributes"}
    BY <1>1 DEF Takes, HandlerThrows
<1>3. ASSUME NEW p \in Server, NEW q \in Server
      PROVE  \/ chan'[<<p, q>>] = chan[<<p, q>>]
             \/ /\ p = r /\ q = s /\ chan[<<p, q>>] # <<>> /\ Head(chan[<<p, q>>]) = m
                /\ chan'[<<p, q>>] = Tail(chan[<<p, q>>])
    <2>1. chan \in Channels /\ chan' = Received(r, s)
        BY DEF Takes, ChannelsFit, HandlerThrows
    <2> QED BY <2>1 DEF Takes, Received, Channels
<1>4. Gone(e, H, s)'
    <2>1. m.type # "addEntity"
        BY <1>2
    <2>2. s \in H
        BY <1>1, <2>1, HeadTells
    <2> QED BY <1>2, <2>2 DEF Gone
<1>5. SpreadFrom(D, e, o, H)'
    BY <1>1, <1>2 DEF Spreading, SpreadFrom
<1>6. ASSUME NEW p \in Server, NEW q \in Neighbours(p) PROVE EntityOnLink(e, H, p, q)'
    <2>1. EntityOnLink(e, H, p, q) /\ q \in Server /\ StaysAt(e, p) /\ StaysAt(e, q)
        BY <1>1, <1>2, NeighboursFacts DEF Spreading, StaysAt
    <2>2. \/ chan'[<<p, q>>] = chan[<<p, q>>]
          \/ /\ chan[<<p, q>>] # <<>>
             /\ chan'[<<p, q>>] = Tail(chan[<<p, q>>])
             /\ Head(chan[<<p, q>>]).ent = e =>
                   \/ Head(chan[<<p, q>>]).type = "changeAttributes"
                   \/ Head(chan[<<p, q>>]).type = "removeEntity" /\ e \notin world[q]
        BY <1>2, <1>3, <2>1
    <2> QED BY <1>2, <2>1, <2>2, QuietLink
<1>7. ASSUME ClockPrecise, ClockSynced, NEW a \in SharedAttrs, NEW p \in Server, NEW q \in Neighbours(p)
      PROVE  StampOnLink(e, H, p, q, a)'
    <2>1. StampOnLink(e, H, p, q, a) /\ q \in Server /\ a \in Attr
        BY <1>1, <1>7, NeighboursFacts DEF Spreading, SharedAttrs
    <2>2. /\ e \in world'[p] => e \in world[p] /\ info'[p][e][a] = info[p][e][a]
          /\ Gone(e, H, q) => Gone(e, H, q)'
          /\ e \in world[q] => e \in world'[q] /\ info'[q][e][a] = info[q][e][a]
        BY <1>2 DEF Gone
    <2>3. info[q][e][a] # NoStamp => Covers(info[q][e][a], info[q][e][a])
        BY <1>2, <2>1, CoversOrder DEF TypeOK, Info
    <2>4. \/ chan'[<<p, q>>] = chan[<<p, q>>]
          \/ /\ chan[<<p, q>>] # <<>> /\ chan'[<<p, q>>] = Tail(chan[<<p, q>>])
             /\ Gone(e, H, q)'
        BY <1>3, <1>4, <2>1
    <2> QED BY <1>2, <2>1, <2>2, <2>3, <2>4, StampKept
<1>8. ASSUME ClockPrecise, ClockSynced, NEW a \in SharedAttrs PROVE IssuerCovers(e, H, a)'
    BY <1>1, <1>2, <1>8 DEF Spreading, IssuerCovers
<1>9. Spreading(D, e, o, H)'
    BY <1>5, <1>6, <1>7, <1>8 DEF Spreading
<1> QED BY <1>1, <1>9

\* A change is merged, and passed on to the neighbours it has not come from.
LEMMA ChangedSpreads ==
    ASSUME NEW D, NEW r \in Server, NEW s \in Server, NEW m \in Message,
           Takes(r, s, m), HandleRemoteChangedAttributes(r, s, m), m.ent \in SharedEntities,
           NEW o \in Server, NEW H \in SUBSET Server, Spreading(D, m.ent, o, H)
    PROVE  Spreading(D, m.ent, o, H)'
<1>1. PICK e \in SharedEntities : e = m.ent
    OBVIOUS
<1>2. PICK new \in Info : new = Merged(info[s][e], m.info)
    BY <1>1, MergedType DEF Takes, TypeOK
<1>3. /\ e \in Entity /\ ChannelsFit /\ TypeOK /\ TypeOK' /\ r # s /\ r \in Neighbours(s)
      /\ world' = world /\ removed' = removed /\ written' = written
      /\ e \in world[s] /\ m.type = "changeAttributes" /\ m.info \in Info
    BY <1>1 DEF Takes, HandleRemoteChangedAttributes
<1>4. /\ info' = [info EXCEPT ![s][e] = new]
      /\ chan' = SendChange(Received(r, s), s, Neighbours(s) \ {r}, e, m.info)
    BY <1>1, <1>2, <1>3 DEF HandleRemoteChangedAttributes, Takes, TypeOK
<1>5. /\ TakesAndSends(r, s, m)
      /\ chan'[<<s, r>>] = chan[<<s, r>>]
      /\ \A q \in Neighbours(s) \ {r} :
            \/ chan'[<<s, q>>] = chan[<<s, q>>] /\ Filtered(m.info, q) = NoInfo
            \/ \E j \in Message :
                  /\ chan'[<<s, q>>] = Append(chan[<<s, q>>], j)
                  /\ j.ent = e /\ j.info = Filtered(m.info, q)
    <2>1. chan' = SendChange(Received(r, s), s, Neighbours(s) \ {r}, m.ent, m.info)
        BY <1>1, <1>4
    <2>2. /\ TakesAndSends(r, s, m)
          /\ chan'[<<s, r>>] = chan[<<s, r>>]
          /\ \A q \in Neighbours(s) \ {r} :
                \/ chan'[<<s, q>>] = chan[<<s, q>>] /\ Filtered(m.info, q) = NoInfo
                \/ \E j \in Message :
                      /\ chan'[<<s, q>>] = Append(chan[<<s, q>>], j)
                      /\ j.ent = m.ent /\ j.info = Filtered(m.info, q)
        <3>1. Takes(r, s, m) /\ m.type = "changeAttributes"
            BY <1>3
        <3> QED BY <2>1, <3>1, ForwardChangeLinks
    <2> QED BY <1>1, <2>2
<1>6. r \in H /\ s \in H
    <2>1. m.type # "addEntity"
        BY <1>3
    <2>2. r \in H /\ (m.type = "addEntity" <=> s \notin H)
        BY HeadTells
    <2> QED BY <2>1, <2>2
<1>7. \A x \in Server : info'[x][e] = IF x = s THEN new ELSE info[x][e]
    BY <1>3, <1>4 DEF TypeOK
<1>8. SpreadFrom(D, e, o, H)'
    BY <1>1, <1>3 DEF Spreading, SpreadFrom
<1>9. ASSUME NEW p \in Server, NEW q \in Neighbours(p) PROVE EntityOnLink(e, H, p, q)'
    <2>1. EntityOnLink(e, H, p, q) /\ q \in Server /\ StaysAt(e, p) /\ StaysAt(e, q)
        BY <1>1, <1>3, NeighboursFacts DEF Spreading, StaysAt
    <2>2. \/ chan'[<<p, q>>] = chan[<<p, q>>]
          \/ \E j \in Message :
                /\ chan'[<<p, q>>] = Append(chan[<<p, q>>], j)
                /\ j.ent = e => j.type = "changeAttributes" /\ p \in H
          \/ /\ chan[<<p, q>>] # <<>>
             /\ chan'[<<p, q>>] = Tail(chan[<<p, q>>])
             /\ Head(chan[<<p, q>>]).type = "changeAttributes"
        BY <1>1, <1>3, <1>5, <1>6, <2>1 DEF TakesAndSends, Takes
    <2> QED BY <1>3, <2>1, <2>2, QuietLink
<1>10. ASSUME ClockPrecise, ClockSynced, NEW a \in SharedAttrs, NEW p \in Server, NEW q \in Neighbours(p)
       PROVE  StampOnLink(e, H, p, q, a)'
    <2>1. /\ StampOnLink(e, H, p, q, a) /\ StampOnLink(e, H, r, s, a)
          /\ q \in Server /\ q # p /\ p \in Neighbours(q) /\ a \in Attr
        BY <1>1, <1>3, <1>10, NeighboursFacts DEF Spreading, SharedAttrs, Takes
    <2>2. PICK local \in Held, remote \in Held :
              /\ local = info[s][e][a] /\ remote = m.info[a]
              /\ new[a] = IF Accepts(local, remote) THEN remote ELSE local
              /\ local # NoStamp => Covers(new[a], local)
              /\ remote # NoStamp => Covers(new[a], remote)
        <3>1. info[s][e] \in Info
            BY <1>3 DEF TypeOK
        <3>2. info[s][e][a] \in Held /\ m.info[a] \in Held
            BY <1>3, <2>1, <3>1 DEF Info, Held
        <3>3. new[a] = IF Accepts(info[s][e][a], m.info[a]) THEN m.info[a] ELSE info[s][e][a]
            BY <1>2, <2>1 DEF Merged
        <3>4. /\ info[s][e][a] # NoStamp => Covers(new[a], info[s][e][a])
              /\ m.info[a] # NoStamp => Covers(new[a], m.info[a])
            BY <1>2, <1>3, <2>1, <3>1, MergedCovers
        <3> QED BY <3>2, <3>3, <3>4
    <2>3. \A x \in Server : Gone(e, H, x) => Gone(e, H, x)'
        BY <1>3 DEF Gone
    <2>4. ASSUME NEW x \in Server
          PROVE  info[x][e][a] # NoStamp => Covers(info'[x][e][a], info[x][e][a])
        <3>1. info[x][e][a] # NoStamp => Covers(info[x][e][a], info[x][e][a])
            BY <1>3, <2>1, CoversOrder DEF TypeOK, Info
        <3> QED BY <1>7, <2>2, <3>1
    <2>5. CASE p = s /\ Accepts(local, remote)
        <3>1. info'[p][e][a] = remote /\ remote # NoStamp
            BY <1>7, <2>2, <2>5 DEF Accepts
        <3>2. CASE q = r
            <4>1. Gone(e, H, r) \/ (e \in world[r] /\ Covers(info[r][e][a], remote))
                BY <1>1, <1>6, <2>1, <2>2, <3>1, HeadBehind
            <4>2. Gone(e, H, r)' \/ (e \in world'[r] /\ Covers(info'[r][e][a], remote))
                BY <1>3, <1>7, <2>3, <4>1
            <4> QED BY <1>3, <1>5, <2>1, <2>4, <2>5, <3>1, <3>2, <4>2, StampSent
        <3>3. CASE q # r
            <4>1. Filtered(m.info, q) # NoInfo /\ Filtered(m.info, q)[a] = remote
                BY <1>3, <2>1, <2>2, <3>1, SharedIsSent
            <4>2. \E j \in Message : /\ chan'[<<p, q>>] = Append(chan[<<p, q>>], j)
                                     /\ j.ent = e /\ j.info[a] = info'[p][e][a]
                BY <1>5, <2>5, <3>1, <3>3, <4>1
            <4> QED BY <1>3, <2>1, <2>4, <2>5, <3>1, <4>2, StampSent
        <3> QED BY <3>2, <3>3
    <2>6. CASE p = s /\ ~Accepts(local, remote)
        <3>1. info'[p][e][a] = info[p][e][a] /\ local = info[p][e][a]
            BY <1>7, <2>2, <2>6
        <3>2. remote # NoStamp => Covers(local, remote)
            BY <2>2, <2>6
        <3>3. \/ chan'[<<p, q>>] = chan[<<p, q>>]
              \/ \E j \in Message :
                    /\ chan'[<<p, q>>] = Append(chan[<<p, q>>], j)
                    /\ j.info[a] # NoStamp => Covers(info[p][e][a], j.info[a])
            <4>1. Filtered(m.info, q)[a] = remote
                BY <1>3, <2>1, <2>2, SharedIsSent
            <4> QED BY <1>5, <2>6, <3>1, <3>2, <4>1
        <3> QED BY <1>3, <2>1, <2>3, <2>4, <3>1, <3>3, StampKept
    <2>7. CASE p # s
        <3>1. info'[p][e][a] = info[p][e][a]
            BY <1>7, <2>7
        <3>2. \/ chan'[<<p, q>>] = chan[<<p, q>>]
              \/ /\ chan[<<p, q>>] # <<>>
                 /\ chan'[<<p, q>>] = Tail(chan[<<p, q>>])
                 /\ Head(chan[<<p, q>>]).info[a] # NoStamp =>
                       e \in world'[q] /\ Covers(info'[q][e][a], Head(chan[<<p, q>>]).info[a])
            BY <1>3, <1>5, <1>7, <2>1, <2>2, <2>7 DEF TakesAndSends, Takes
        <3> QED BY <1>3, <2>1, <2>3, <2>4, <3>1, <3>2, StampKept
    <2> QED BY <2>5, <2>6, <2>7
<1>11. ASSUME ClockPrecise, ClockSynced, NEW a \in SharedAttrs PROVE IssuerCovers(e, H, a)'
    <2>1. IssuerCovers(e, H, a) /\ a \in Attr
        BY <1>1, <1>11 DEF Spreading, SharedAttrs
    <2>2. ASSUME NEW w \in written, w[1] = e, w[2] = a, e \in world[w[3].id]
          PROVE  Covers(info'[w[3].id][e][a], w[3])
        <3>1. PICK st \in Stamp, x \in Server : st = w[3] /\ x = w[3].id
            BY <1>3 DEF TypeOK, Stamp
        <3>2. st # NoStamp /\ st \in Held /\ Covers(info[x][e][a], st)
            BY <2>1, <2>2, <3>1, StampAssumption DEF IssuerCovers, Held
        <3>3. PICK old \in Held, now \in Held : old = info[x][e][a] /\ now = info'[x][e][a]
            BY <1>3, <2>1 DEF TypeOK, Info, Held
        <3>4. old # NoStamp => Covers(now, old)
            <4>1. old # NoStamp => Covers(old, old)
                BY CoversOrder DEF Held
            <4>2. info[s][e] \in Info
                BY <1>3 DEF TypeOK
            <4>3. info[s][e][a] # NoStamp => Covers(new[a], info[s][e][a])
                BY <1>2, <1>3, <2>1, <4>2, MergedCovers
            <4> QED BY <1>7, <3>3, <4>1, <4>3
        <3>5. old # NoStamp
            BY <3>2, <3>3 DEF Covers
        <3> QED BY <3>1, <3>2, <3>3, <3>4, <3>5, CoversOrder
    <2> QED BY <1>3, <2>1, <2>2 DEF IssuerCovers
<1>12. Spreading(D, e, o, H)'
    BY <1>8, <1>9, <1>10, <1>11 DEF Spreading
<1> QED BY <1>1, <1>12

\* Every handler takes its message, and passes on at most messages of its kind and entity.
LEMMA HandlersTakeAndSend ==
    ASSUME NEW r \in Server, NEW s \in Server, NEW m \in Message, Takes(r, s, m),
           \/ HandleRemoteAddedEntity(r, s, m)
           \/ HandleRemoteRemovedEntity(r, s, m)
           \/ HandleRemoteChangedAttributes(r, s, m)
           \/ HandlerThrows(r, s, m)
    PROVE  TakesAndSends(r, s, m)
<1>1. ASSUME chan' = Received(r, s) PROVE TakesAndSends(r, s, m)
    <2>1. chan \in Channels /\ r # s
        BY DEF Takes, ChannelsFit
    <2>2. \A p \in Server, q \in Server :
              chan'[<<p, q>>] = IF p = r /\ q = s THEN Tail(chan[<<p, q>>]) ELSE chan[<<p, q>>]
        <3>1. \A p \in Server, q \in Server :
                  Received(r, s)[<<p, q>>] =
                      IF p = r /\ q = s THEN Tail(chan[<<p, q>>]) ELSE chan[<<p, q>>]
            BY <2>1 DEF Received, Channels
        <3> QED BY <1>1, <3>1
    <2>3. /\ chan'[<<r, s>>] = Tail(chan[<<r, s>>])
          /\ \A p \in Server : \A q \in Server :
                p # s /\ ~(p = r /\ q = s) => chan'[<<p, q>>] = chan[<<p, q>>]
        BY <2>2
    <2>4. \A q \in Server : chan'[<<s, q>>] = chan[<<s, q>>]
        BY <2>1, <2>2
    <2> QED BY <2>3, <2>4 DEF TakesAndSends
<1>2. ASSUME chan' = Send(Received(r, s), s, InterestedInEntity(s, m.ent) \ {r}, m)
      PROVE  TakesAndSends(r, s, m)
    <2>1. PICK R \in SUBSET Neighbours(s) : R = InterestedInEntity(s, m.ent) \ {r}
        BY DEF InterestedInEntity
    <2> QED BY <1>2, <2>1, ForwardLinks
<1>3. CASE HandleRemoteChangedAttributes(r, s, m)
    <2>1. /\ m.type = "changeAttributes"
          /\ chan' = SendChange(Received(r, s), s, Neighbours(s) \ {r}, m.ent, m.info)
        BY <1>3 DEF HandleRemoteChangedAttributes
    <2> QED BY <2>1, ForwardChangeLinks
<1>4. CASE ~HandleRemoteChangedAttributes(r, s, m)
    <2>1. \/ chan' = Received(r, s)
          \/ chan' = Send(Received(r, s), s, InterestedInEntity(s, m.ent) \ {r}, m)
        BY <1>4 DEF HandleRemoteAddedEntity, HandleRemoteRemovedEntity, HandlerThrows
    <2> QED BY <1>1, <1>2, <2>1
<1> QED BY <1>3, <1>4

\* No handler touches another entity than that of its message.
LEMMA HandlersTouch ==
    ASSUME NEW r \in Server, NEW s \in Server, NEW m \in Message, Takes(r, s, m),
           \/ HandleRemoteAddedEntity(r, s, m)
           \/ HandleRemoteRemovedEntity(r, s, m)
           \/ HandleRemoteChangedAttributes(r, s, m)
           \/ HandlerThrows(r, s, m),
           NEW g \in Entity, g # m.ent, NEW x \in Server
    PROVE  StaysAt(g, x) /\ info'[x][g] = info[x][g]
<1>1. /\ world \in [Server -> SUBSET Entity] /\ info \in [Server -> [Entity -> Info]]
      /\ m.ent \in Entity
    BY DEF Takes, TypeOK
<1>2. \/ world' = world
      \/ world' = [world EXCEPT ![s] = @ \cup {m.ent}]
      \/ world' = [world EXCEPT ![s] = @ \ {m.ent}]
    BY DEF HandleRemoteAddedEntity, HandleRemoteRemovedEntity, HandleRemoteChangedAttributes,
           HandlerThrows
<1>3. info' = info \/ \E i : info' = [info EXCEPT ![s][m.ent] = i]
    <2>1. CASE HandleRemoteChangedAttributes(r, s, m)
        <3>1. \/ info' = info
              \/ info' = [info EXCEPT ![s][m.ent] = Merged(@, m.info)]
            BY <2>1 DEF HandleRemoteChangedAttributes
        <3>2. [info EXCEPT ![s][m.ent] = Merged(@, m.info)]
                  = [info EXCEPT ![s][m.ent] = Merged(info[s][m.ent], m.info)]
            BY <1>1
        <3> QED BY <3>1, <3>2
    <2>2. CASE HandleRemoteAddedEntity(r, s, m)
        BY <2>2 DEF HandleRemoteAddedEntity
    <2>3. CASE HandleRemoteRemovedEntity(r, s, m)
        BY <2>3 DEF HandleRemoteRemovedEntity
    <2>4. CASE HandlerThrows(r, s, m)
        BY <2>4 DEF HandlerThrows
    <2> QED BY <2>1, <2>2, <2>3, <2>4, Zenon
<1>4. StaysAt(g, x)
    <2>1. g \in world'[x] <=> g \in world[x]
        <3>1. CASE world' = world
            BY <3>1
        <3>2. CASE world' = [world EXCEPT ![s] = @ \cup {m.ent}]
            BY <1>1, <3>2
        <3>3. CASE world' = [world EXCEPT ![s] = @ \ {m.ent}]
            BY <1>1, <3>3
        <3> QED BY <1>2, <3>1, <3>2, <3>3
    <2> QED BY <2>1 DEF StaysAt
<1>5. info'[x][g] = info[x][g]
    <2>1. ASSUME NEW i, info' = [info EXCEPT ![s][m.ent] = i] PROVE info'[x][g] = info[x][g]
        BY <1>1, <2>1
    <2> QED BY <1>3, <2>1
<1> QED BY <1>4, <1>5

\* A remote call: what the servers lacked is still on its way.
LEMMA DeliverConverges ==
    ASSUME NEW D, TreeDistance(D), Inductive, Inductive', Converges(D),
           NEW r \in Server, NEW s \in Server, Deliver(r, s)
    PROVE  Converges(D)'
<1>1. PICK m \in Message :
          /\ Takes(r, s, m)
          /\ \/ HandleRemoteAddedEntity(r, s, m)
             \/ HandleRemoteRemovedEntity(r, s, m)
             \/ HandleRemoteChangedAttributes(r, s, m)
             \/ HandlerThrows(r, s, m)
    BY DeliverTakes
<1>2. TakesAndSends(r, s, m)
    BY <1>1, HandlersTakeAndSend
<1>3. \A g \in Entity, x \in Server :
          g # m.ent => StaysAt(g, x) /\ info'[x][g] = info[x][g]
    BY <1>1, HandlersTouch
<1>4. /\ created' = created /\ removed' = removed /\ written' = written
      /\ r \in Neighbours(s) /\ s \in Neighbours(r)
    BY <1>1 DEF Takes
<1>5. OnlyLinks'
    <2>1. SUFFICES ASSUME NEW p \in Server, NEW q \in Server \ Neighbours(p)
                   PROVE  chan'[<<p, q>>] = <<>>
        BY DEF OnlyLinks
    <2>2. chan[<<p, q>>] = <<>>
        BY DEF Converges, OnlyLinks
    <2>3. ~(p = r /\ q = s)
        BY <1>4
    <2>4. chan'[<<p, q>>] = chan[<<p, q>>]
        BY <1>2, <2>3 DEF TakesAndSends
    <2> QED BY <2>2, <2>4
<1>6. removed' \subseteq created' /\ \A w \in written' : w[1] \in created'
    BY <1>4 DEF Converges
<1>7. ASSUME NEW g \in SharedEntities \cap created
      PROVE  \E o \in Server, H \in SUBSET Server : Spreading(D, g, o, H)'
    <2>1. PICK o \in Server, H \in SUBSET Server : Spreading(D, g, o, H)
        BY DEF Converges
    <2>2. CASE g # m.ent
        <3>1. g \in Entity
            BY DEF SharedEntities
        <3>2. Spreading(D, g, o, H)'
            BY <1>1, <1>2, <1>3, <2>1, <2>2, <3>1, DeliverElsewhere
        <3> QED BY <3>2
    <2>3. CASE g = m.ent
        <3>1. m.ent \in SharedEntities /\ Spreading(D, m.ent, o, H)
            BY <2>1, <2>3
        <3>2. CASE HandleRemoteAddedEntity(r, s, m)
            <4>1. Spreading(D, m.ent, o, H \cup {s})'
                BY <1>1, <3>1, <3>2, AddedSpreads
            <4>2. H \cup {s} \in SUBSET Server
                OBVIOUS
            <4> QED BY <2>3, <4>1, <4>2
        <3>3. CASE HandleRemoteRemovedEntity(r, s, m)
            <4>1. Spreading(D, m.ent, o, H)'
                BY <1>1, <3>1, <3>3, RemovedSpreads
            <4> QED BY <2>3, <4>1
        <3>4. CASE HandleRemoteChangedAttributes(r, s, m)
            <4>1. Spreading(D, m.ent, o, H)'
                BY <1>1, <3>1, <3>4, ChangedSpreads
            <4> QED BY <2>3, <4>1
        <3>5. CASE HandlerThrows(r, s, m)
            <4>1. Spreading(D, m.ent, o, H)'
                BY <1>1, <3>1, <3>5, ThrowsSpreads
            <4> QED BY <2>3, <4>1
        <3> QED BY <1>1, <3>2, <3>3, <3>4, <3>5
    <2> QED BY <2>2, <2>3
<1> QED BY <1>4, <1>5, <1>6, <1>7 DEF Converges

\* Nothing has spread in the beginning.
LEMMA InitConverges == ASSUME NEW D, Init PROVE Converges(D)
BY DEF Init, Converges, OnlyLinks, Neighbours

\* Every step keeps what servers lack on its way to them.
LEMMA NextConverges ==
    ASSUME NEW D, TreeDistance(D), Inductive, Inductive', Converges(D), [Next]_vars
    PROVE  Converges(D)'
<1>1. ASSUME NEW s \in Server, NEW e \in Entity, NEW A \in SUBSET Registered[s],
             NEW t \in Time, NEW f \in [A -> Writable \cup {Default}], LocalAdd(s, e, A, f, t)
      PROVE  Converges(D)'
    BY <1>1, LocalAddConverges
<1>2. ASSUME NEW s \in Server, NEW e \in Entity, LocalRemove(s, e)
      PROVE  Converges(D)'
    BY <1>2, LocalRemoveConverges
<1>3. ASSUME NEW s \in Server, NEW e \in Entity, NEW a \in Registered[s], NEW v \in Writable,
             LocalChangeIgnored(s, e, a, v)
      PROVE  Converges(D)'
    BY <1>3, LocalChangeIgnoredConverges DEF LocalChangeIgnored
<1>4. ASSUME NEW s \in Server, NEW e \in Entity, NEW a \in Registered[s], NEW v \in Writable,
             NEW t \in Time, LocalChangeAnnounced(s, e, a, v, t)
      PROVE  Converges(D)'
    BY <1>4, LocalChangeConverges
<1>5. ASSUME NEW r \in Server, NEW s \in Server, Deliver(r, s)
      PROVE  Converges(D)'
    BY <1>5, DeliverConverges
<1>6. CASE UNCHANGED vars
    BY <1>6, LocalChangeIgnoredConverges DEF vars
<1> QED BY <1>1, <1>2, <1>3, <1>4, <1>5, <1>6 DEF Next, LocalStep

\* In a tree of servers, whatever a server lacks is on its way to it.
THEOREM WhatServersLackIsOnItsWay ==
    ASSUME NEW CONSTANT D, TreeDistance(D)
    PROVE  Spec => []Converges(D)
<1>1. Init => Converges(D)
    BY InitConverges
<1>2. Inductive /\ Inductive' /\ Converges(D) /\ [Next]_vars => Converges(D)'
    BY NextConverges
<1> QED BY <1>1, <1>2, InductiveInvariant, PTL DEF Spec

\* The same for the distances that TLC checks it with: if they are those of a tree, whatever
\* one server knows of an entity and another does not, its addition, its removal or the
\* newest stamp of an attribute, is on its way along the tree (WorldSync.cs:78-163, 277-365).
THEOREM ServersConvergeInTrees == TreeDistance(Distance) => (Spec => []ServersConverge)
<1> SUFFICES ASSUME TreeDistance(Distance) PROVE Spec => []ServersConverge
    OBVIOUS
<1>1. Init => ServersConverge
    BY InitConverges DEF ServersConverge
<1>2. Inductive /\ Inductive' /\ ServersConverge /\ [Next]_vars => ServersConverge'
    BY NextConverges DEF ServersConverge
<1> QED BY <1>1, <1>2, InductiveInvariant, PTL DEF Spec

(***************************************************************************)
(* When all messages are handled                                           *)
(***************************************************************************)

\* A set of servers with all their neighbours is the set of all servers.
LEMMA Connected ==
    ASSUME NEW D, TreeDistance(D), NEW X \in SUBSET Server, NEW x \in X,
           \A s \in X : Neighbours(s) \subseteq X
    PROVE  X = Server
<1> SUFFICES ASSUME NEW y \in Server, y \notin X PROVE FALSE
    OBVIOUS
<1>1. \A z \in Server : D[x][z] \in Nat
    BY DEF TreeDistance
<1>2. PICK T \in SUBSET Nat : T = {D[x][z] : z \in Server \ X}
    BY <1>1
<1>3. T # {}
    BY <1>2
<1>4. PICK n \in T : \A k \in T : ~(<<k, n>> \in OpToRel(<, Nat))
    BY <1>3, NatLessThanWellFounded, WFMin, Zenon
<1>5. \A k \in T : ~(k < n)
    BY <1>2, <1>4 DEF OpToRel
<1>6. PICK z \in Server \ X : n = D[x][z]
    BY <1>2
<1>7. PICK p \in Neighbours(z) : D[x][p] < D[x][z]
    <2>1. z # x
        BY <1>6
    <2> QED BY <2>1 DEF TreeDistance
<1>8. p \in Server \ X
    BY NeighboursFacts
<1>9. D[x][p] \in T
    BY <1>2, <1>8
<1> QED BY <1>5, <1>6, <1>7, <1>9

\* A shared entity that was added is at every server, or was removed and is at none.
LEMMA EveryServerAgrees ==
    ASSUME NEW D, TreeDistance(D), Quiescent, NEW e, NEW o \in Server,
           NEW H \in SUBSET Server, Spreading(D, e, o, H)
    PROVE  H = Server /\ \A s \in Server : e \in world[s] <=> e \notin removed
<1>1. \A s \in Server : \A r \in Neighbours(s) :
          /\ chan[<<s, r>>] = <<>>
          /\ EntityOnLink(e, H, s, r)
    BY NeighboursFacts DEF Quiescent, Spreading
<1>2. ~AddsFirst(<<>>, e) /\ ~Carries(<<>>, "removeEntity", e)
    BY DEF AddsFirst, Carries
<1>3. H = Server
    <2>1. \A s \in H : Neighbours(s) \subseteq H
        BY <1>1, <1>2, NeighboursFacts DEF EntityOnLink
    <2>2. o \in H
        BY DEF Spreading, SpreadFrom
    <2> QED BY <2>1, <2>2, Connected
<1>4. PICK G \in SUBSET Server : G = {s \in Server : e \notin world[s]}
    OBVIOUS
<1>5. ASSUME NEW s \in G, NEW r \in Neighbours(s) PROVE r \in G
    <2>1. s \in Server /\ r \in Server /\ s \in H
        BY <1>3, <1>4, NeighboursFacts
    <2>2. Gone(e, H, s)
        BY <1>4, <2>1 DEF Gone
    <2>3. Gone(e, H, r)
        BY <1>1, <1>2, <2>1, <2>2 DEF EntityOnLink
    <2> QED BY <1>4, <2>1, <2>3 DEF Gone
<1>6. G # {} => G = Server
    <2>1. ASSUME NEW x \in G PROVE G = Server
        BY <1>5, Connected
    <2> QED BY <2>1
<1>7. e \in removed <=> G # {}
    BY <1>3, <1>4 DEF Spreading, SpreadFrom
<1> QED BY <1>3, <1>4, <1>6, <1>7

\* Every server has the newest stamp of every attribute.
LEMMA EveryServerCovers ==
    ASSUME NEW D, TreeDistance(D), Quiescent, TypeOK, ClockPrecise, ClockSynced,
           NEW e \in Entity, NEW o \in Server, NEW H \in SUBSET Server, Spreading(D, e, o, H),
           e \notin removed, NEW a \in SharedAttrs,
           NEW w \in written, w[1] = e, w[2] = a, NEW s \in Server
    PROVE  Covers(info[s][e][a], w[3])
<1>1. /\ a \in Attr
      /\ \A x \in Server : e \in world[x]
    BY EveryServerAgrees DEF SharedAttrs
<1>2. PICK st \in Held, i \in Server : st = w[3] /\ i = w[3].id /\ st # NoStamp
    BY StampAssumption DEF TypeOK, Stamp, Held
<1>3. ASSUME NEW x \in Server PROVE info[x][e][a] \in Held
    <2>1. info[x][e] \in Info
        BY DEF TypeOK
    <2> QED BY <1>1, <2>1 DEF Info, Held
<1>4. PICK X \in SUBSET Server : X = {x \in Server : Covers(info[x][e][a], st)}
    OBVIOUS
<1>5. i \in X
    BY <1>1, <1>2, <1>4 DEF Spreading, IssuerCovers
<1>6. ASSUME NEW p \in X, NEW q \in Neighbours(p) PROVE q \in X
    <2>1. /\ p \in Server /\ q \in Server /\ chan[<<p, q>>] = <<>>
          /\ Covers(info[p][e][a], st) /\ info[p][e][a] # NoStamp
        BY <1>4, NeighboursFacts DEF Quiescent, Covers
    <2>2. ~Gone(e, H, q) /\ ~Brings(<<>>, e, a, info[p][e][a])
        BY <1>1, <2>1 DEF Gone, Brings
    <2>3. StampOnLink(e, H, p, q, a)
        BY <2>1 DEF Spreading
    <2>4. Covers(info[q][e][a], info[p][e][a])
        BY <1>1, <2>1, <2>2, <2>3 DEF StampOnLink
    <2>5. Covers(info[q][e][a], st)
        BY <1>2, <1>3, <2>1, <2>4, CoversOrder
    <2> QED BY <1>4, <2>1, <2>5
<1>7. X = Server
    BY <1>5, <1>6, Connected
<1> QED BY <1>2, <1>4, <1>7

\* In a tree of servers, what all invariants say together when all messages are handled.
LEMMA NewestEverywhere ==
    ASSUME NEW D, TreeDistance(D), Inductive, Converges(D), Quiescent,
           ClockPrecise, ClockSynced,
           NEW s \in Server, NEW e \in SharedEntities, e \in world[s], NEW a \in SharedAttrs
    PROVE  /\ info[s][e][a] = NoStamp <=> \A w \in written : ~(w[1] = e /\ w[2] = a)
           /\ info[s][e][a] # NoStamp => <<e, a, info[s][e][a]>> \in written
           /\ \A w \in written : w[1] = e /\ w[2] = a /\ w[3] # info[s][e][a]
                  => Newer(info[s][e][a], w[3])
<1>1. /\ e \in Entity /\ a \in Attr /\ TypeOK /\ StampIdentifiesValue /\ StampsIssued
      /\ e \in created
    BY DEF Inductive, KnownCreated, SyncInfoCoversWorld, SharedEntities, SharedAttrs
<1>2. PICK o \in Server, H \in SUBSET Server : Spreading(D, e, o, H)
    BY <1>1 DEF Converges
<1>3. e \notin removed
    BY <1>2, EveryServerAgrees
<1>4. ASSUME NEW w \in written, w[1] = e, w[2] = a PROVE Covers(info[s][e][a], w[3])
    BY <1>1, <1>2, <1>3, <1>4, EveryServerCovers
<1>5. info[s][e][a] # NoStamp => <<e, a, info[s][e][a]>> \in written
    BY <1>1 DEF StampsIssued, InfoIssued
<1>6. ASSUME NEW w \in written, w[1] = e, w[2] = a, w[3] # info[s][e][a]
      PROVE  Newer(info[s][e][a], w[3])
    <2>1. PICK st \in Stamp, i \in Stamp : st = w[3] /\ i = info[s][e][a] /\ Covers(i, st)
        <3>1. w[3] \in Stamp /\ Covers(info[s][e][a], w[3])
            BY <1>1, <1>4, <1>6 DEF TypeOK
        <3>2. info[s][e][a] \in Stamp
            BY <1>1, <3>1 DEF TypeOK, Info, Covers
        <3> QED BY <3>1, <3>2
    <2>2. PICK x \in written : x[1] = e /\ x[2] = a /\ x[3] = i
        BY <1>5, <2>1 DEF Covers
    <2>3. ~(st.ts = i.ts /\ st.id = i.id)
        BY <1>1, <1>6, <2>1, <2>2 DEF StampIdentifiesValue
    <2>4. st.ts \in Int /\ st.id \in Int /\ i.ts \in Int /\ i.id \in Int
        BY <2>1, StampFields
    <2> QED BY <2>1, <2>3, <2>4 DEF Covers, Newer
<1>7. info[s][e][a] = NoStamp => \A w \in written : ~(w[1] = e /\ w[2] = a)
    BY <1>4 DEF Covers
<1> QED BY <1>5, <1>6, <1>7

\* In a tree of servers, when all messages are handled every server has exactly the shared
\* entities that were added and not removed (EntitiesAgree).
THEOREM EntitiesAgreeInTrees ==
    ASSUME NEW CONSTANT D, TreeDistance(D)
    PROVE  Spec => []EntitiesAgree
<1>1. Inductive /\ Converges(D) => EntitiesAgree
    <2> SUFFICES ASSUME Inductive, Converges(D), Quiescent,
                        NEW s \in Server, NEW e \in SharedEntities
                 PROVE  e \in world[s] <=> e \in created \ removed
        BY DEF EntitiesAgree
    <2>1. CASE e \in created
        <3>1. PICK o \in Server, H \in SUBSET Server : Spreading(D, e, o, H)
            BY <2>1 DEF Converges
        <3> QED BY <2>1, <3>1, EveryServerAgrees
    <2>2. CASE e \notin created
        BY <2>2 DEF Inductive, KnownCreated, SyncInfoCoversWorld
    <2> QED BY <2>1, <2>2
<1> QED BY <1>1, InductiveInvariant, WhatServersLackIsOnItsWay, PTL

\* In a tree of servers whose clocks are precise and in step, when all messages are handled
\* every server holds the newest stamp issued for every shared attribute (LastWriteWins).
THEOREM LastWriteWinsInTrees ==
    ASSUME NEW CONSTANT D, TreeDistance(D), ClockPrecise, ClockSynced
    PROVE  Spec => []LastWriteWins
<1>1. Inductive /\ Converges(D) => LastWriteWins
    <2> SUFFICES ASSUME Inductive, Converges(D), Quiescent,
                        NEW s \in Server, NEW e \in SharedEntities, NEW a \in SharedAttrs,
                        e \in world[s],
                        NEW stamps, stamps = {w[3] : w \in {x \in written : x[1] = e /\ x[2] = a}}
                 PROVE  IF stamps = {} THEN info[s][e][a] = NoStamp
                        ELSE /\ info[s][e][a] \in stamps
                             /\ \A st \in stamps \ {info[s][e][a]} : Newer(info[s][e][a], st)
        BY DEF LastWriteWins
    <2>1. /\ info[s][e][a] = NoStamp <=> \A w \in written : ~(w[1] = e /\ w[2] = a)
          /\ info[s][e][a] # NoStamp => <<e, a, info[s][e][a]>> \in written
          /\ \A w \in written : w[1] = e /\ w[2] = a /\ w[3] # info[s][e][a]
                  => Newer(info[s][e][a], w[3])
        BY NewestEverywhere
    <2>2. stamps = {} <=> info[s][e][a] = NoStamp
        BY <2>1
    <2>3. info[s][e][a] # NoStamp => info[s][e][a] \in stamps
        <3>1. ASSUME NEW x \in written, x = <<e, a, info[s][e][a]>> PROVE x[3] \in stamps
            BY <3>1
        <3> QED BY <2>1, <3>1
    <2>4. \A st \in stamps \ {info[s][e][a]} : Newer(info[s][e][a], st)
        BY <2>1
    <2> QED BY <2>2, <2>3, <2>4
<1> QED BY <1>1, InductiveInvariant, WhatServersLackIsOnItsWay, PTL

\* If moreover nobody writes the default value, the values of shared attributes agree as well,
\* wherever their component is registered (ValuesAgree).
THEOREM ValuesAgreeInTrees ==
    ASSUME NEW CONSTANT D, TreeDistance(D), ClockPrecise, ClockSynced, Default \notin Writable
    PROVE  Spec => []ValuesAgree
<1>1. Inductive /\ Converges(D) /\ ValuesFollow => ValuesAgree
    <2> SUFFICES ASSUME Inductive, Converges(D), ValuesFollow, Quiescent,
                        NEW s \in Server, NEW r \in Server,
                        NEW e \in SharedEntities \cap world[s] \cap world[r],
                        NEW a \in SharedAttrs \cap Registered[s] \cap Registered[r]
                 PROVE  value[s][e][a] = value[r][e][a]
        BY DEF ValuesAgree
    <2>1. TypeOK /\ StampIdentifiesValue /\ e \in Entity /\ a \in Attr
        BY DEF Inductive, SharedEntities, SharedAttrs
    <2>2. PICK i \in Held, j \in Held : i = info[s][e][a] /\ j = info[r][e][a]
        BY <2>1 DEF TypeOK, Info, Held
    <2>3. /\ i = NoStamp <=> \A w \in written : ~(w[1] = e /\ w[2] = a)
          /\ i # NoStamp => <<e, a, i>> \in written
          /\ \A w \in written : w[1] = e /\ w[2] = a /\ w[3] # i => Newer(i, w[3])
        BY <2>2, NewestEverywhere
    <2>4. /\ j = NoStamp <=> \A w \in written : ~(w[1] = e /\ w[2] = a)
          /\ j # NoStamp => <<e, a, j>> \in written
          /\ \A w \in written : w[1] = e /\ w[2] = a /\ w[3] # j => Newer(j, w[3])
        BY <2>2, NewestEverywhere
    <2>5. i = j
        <3> SUFFICES ASSUME i # j PROVE FALSE
            OBVIOUS
        <3>1. i # NoStamp /\ j # NoStamp
            BY <2>3, <2>4
        <3>2. Newer(i, j) /\ Newer(j, i)
            BY <2>3, <2>4, <3>1
        <3>3. i.ts \in Int /\ i.id \in Int /\ j.ts \in Int /\ j.id \in Int
            BY <3>1, StampFields DEF Held
        <3> QED BY <3>2, <3>3 DEF Newer
    <2>6. value[s][e][a] = StampedValue(i) /\ value[r][e][a] = StampedValue(j)
        BY <2>1, <2>2 DEF ValuesFollow
    <2> QED BY <2>5, <2>6
<1> QED BY <1>1, InductiveInvariant, WhatServersLackIsOnItsWay, ValuesFollowInfos, PTL

=============================================================================
