----------------------------- MODULE WorldSync -----------------------------
(***************************************************************************)
(* World synchronisation between FiVES servers                             *)
(* (Plugins/ServerSync/SyncOperations/WorldSync.cs).                       *)
(*                                                                         *)
(* Every server keeps a World of entities and, beside it, a dictionary of  *)
(* sync infos.  Local additions, removals and attribute changes raise      *)
(* events which the plugin turns into messages to its neighbours; messages *)
(* are applied to the local World, and the event this raises is recognised *)
(* by an "ignore once" set and not announced again.  Servers are connected *)
(* by reliable in-order channels (EntitySyncInfo.cs, the class comment).   *)
(*                                                                         *)
(* An action is one handler from the first line to the last.  Attribute    *)
(* types are those the wire format gives back unchanged, and no service    *)
(* bus topic is subscribed, so that Suggest sets the attribute at once.    *)
(***************************************************************************)
EXTENDS AttributeSyncInfo, Sequences, FiniteSets

CONSTANTS
    Entity,         \* entity guids; Guid.NewGuid never repeats one
    Links,          \* set of two-element sets of servers: the sync graph
    Default,        \* the value an attribute has before anybody writes it
    Writable,       \* the values local code writes
    Registered,     \* Registered[s]: attributes whose component is registered at s
    EntityDoI,      \* EntityDoI[s]: entities in the domain of interest of s
    AttrDoI,        \* AttrDoI[s]: attributes in the domain of interest of s
    ClockPrecise,   \* TRUE: a server never reads the same tick for two stamps
    ClockSynced     \* TRUE: a clock is past every stamp received from another server

ASSUME WorldSyncAssumption ==
    /\ Links \subseteq SUBSET Server
    /\ Default \in Value
    /\ Writable \subseteq Value
    /\ Registered \in [Server -> SUBSET Attr]
    /\ EntityDoI \in [Server -> SUBSET Entity]
    /\ AttrDoI \in [Server -> SUBSET Attr]
    /\ ClockPrecise \in BOOLEAN
    /\ ClockSynced \in BOOLEAN

VARIABLES
    world,      \* world[s]: the guids in World.Instance of s
    value,      \* value[s][e][a]: the attribute values of the entities of s
    known,      \* known[s]: the keys of the dictionary syncInfo of s
    info,       \* info[s][e]: the entry of syncInfo for e
    ignored,    \* ignored[s]: ignoredAttributeChanges of s
    chan,       \* chan[<<s, r>>]: messages s has sent to r and r has not handled
    clock,      \* clock[s]: the tick s read last (DateTime.UtcNow.Ticks)
    created,    \* history: entities that any server has added
    removed,    \* history: entities that local code of any server has removed
    written     \* history: <<e, a, stamp>> for every stamp a server has issued

vars == <<world, value, known, info, ignored, chan, clock, created, removed, written>>

Message == [type : {"addEntity", "removeEntity", "changeAttributes"}, ent : Entity, info : Info]

TypeOK ==
    /\ world \in [Server -> SUBSET Entity]
    /\ value \in [Server -> [Entity -> [Attr -> Value]]]
    /\ known \in [Server -> SUBSET Entity]
    /\ info \in [Server -> [Entity -> Info]]
    /\ ignored \in [Server -> SUBSET (Entity \X Attr \X Value)]
    /\ chan \in [Server \X Server -> Seq(Message)]
    /\ clock \in [Server -> Time]
    /\ created \in SUBSET Entity
    /\ removed \in SUBSET Entity
    /\ written \in SUBSET (Entity \X Attr \X Stamp)

-----------------------------------------------------------------------------
(* Messages *)

\* RemoteServers of s.
Neighbours(s) == {r \in Server \ {s} : {s, r} \in Links}

AddMsg(e, i) == [type |-> "addEntity", ent |-> e, info |-> i]

RemoveMsg(e) == [type |-> "removeEntity", ent |-> e, info |-> NoInfo]
ChangeMsg(e, i) == [type |-> "changeAttributes", ent |-> e, info |-> i]

\* Mutant: attributes whose component the receiver lacks are left out as well.
FilteredByRegistered(i, r) ==
    [a \in Attr |-> IF a \in AttrDoI[r] \cap Registered[r] THEN i[a] ELSE NoStamp]

\* The attributes of i that r wants to hear about.
Filtered(i, r) == [a \in Attr |-> IF a \in AttrDoI[r] THEN i[a] ELSE NoStamp]

\* The channels after s has sent m to the servers in R.
Send(ch, s, R, m) ==
    [l \in Server \X Server |-> IF l[1] = s /\ l[2] \in R THEN Append(ch[l], m) ELSE ch[l]]

\* The channels after s has sent the change of e to the servers in R, leaving
\* out the attributes a server is not interested in, and the message altogether
\* when nothing is left of it.
SendChange(ch, s, R, e, i) ==
    [l \in Server \X Server |->
        IF l[1] = s /\ l[2] \in R /\ Filtered(i, l[2]) # NoInfo
        THEN Append(ch[l], ChangeMsg(e, Filtered(i, l[2])))
        ELSE ch[l]]

InterestedInEntity(s, e) == {r \in Neighbours(s) : e \in EntityDoI[r]}

\* The channels after r has taken the oldest message of s.
Received(s, r) == [chan EXCEPT ![<<s, r>>] = Tail(@)]

-----------------------------------------------------------------------------
(* Local events *)

\* The constructor of AttributeSyncInfo reads the clock.
ReadClock(s, t) ==
    /\ t \in clock[s] .. MaxTime
    /\ ClockPrecise => t > clock[s]
    /\ clock' = [clock EXCEPT ![s] = t]

StampAt(s, t, v) == [ts |-> t, id |-> s, value |-> v]

\* Local code adds a new entity whose attributes in A (of registered components)
\* exist and have the values in f: World.Add, then HandleLocalAddedEntity.
LocalAdd(s, e, A, f, t) ==
    LET i == [a \in Attr |-> IF a \in A THEN StampAt(s, t, f[a]) ELSE NoStamp] IN
    /\ e \notin created
    /\ ReadClock(s, t)
    /\ world' = [world EXCEPT ![s] = @ \cup {e}]
    /\ value' = [value EXCEPT ![s][e] = [a \in Attr |-> IF a \in A THEN f[a] ELSE Default]]
    /\ known' = [known EXCEPT ![s] = @ \cup {e}]
    /\ info' = [info EXCEPT ![s][e] = i]
    /\ chan' = Send(chan, s, InterestedInEntity(s, e), AddMsg(e, i))
    /\ created' = created \cup {e}
    /\ written' = written \cup {<<e, a, i[a]>> : a \in A}
    /\ UNCHANGED <<ignored, removed>>

\* Local code removes an entity: World.Remove, then HandleLocalRemovedEntity.
LocalRemove(s, e) ==
    /\ e \in world[s]
    /\ world' = [world EXCEPT ![s] = @ \ {e}]
    /\ value' = [value EXCEPT ![s][e] = [a \in Attr |-> Default]]
    /\ known' = [known EXCEPT ![s] = @ \ {e}]
    /\ info' = [info EXCEPT ![s][e] = NoInfo]
    /\ chan' = Send(chan, s, InterestedInEntity(s, e), RemoveMsg(e))
    /\ removed' = removed \cup {e}
    /\ UNCHANGED <<ignored, clock, created, written>>

\* Local code sets an attribute to another value and an entry of the ignore set
\* matches the event: HandleLocalChangedAttribute returns at once.
LocalChangeIgnored(s, e, a, v) ==
    /\ e \in world[s]
    /\ v # value[s][e][a]
    /\ <<e, a, v>> \in ignored[s]
    /\ value' = [value EXCEPT ![s][e][a] = v]
    /\ ignored' = [ignored EXCEPT ![s] = @ \ {<<e, a, v>>}]
    /\ UNCHANGED <<world, known, info, chan, clock, created, removed, written>>

\* Local code sets an attribute to another value: HandleLocalChangedAttribute
\* stamps the change, overwrites the sync info and tells the interested servers.
LocalChangeAnnounced(s, e, a, v, t) ==
    LET st == StampAt(s, t, v) IN
    /\ e \in world[s]
    /\ v # value[s][e][a]
    /\ <<e, a, v>> \notin ignored[s]
    /\ e \in known[s]
    /\ ReadClock(s, t)
    /\ ClockSynced /\ info[s][e][a] # NoStamp /\ info[s][e][a].id # s => t > info[s][e][a].ts
    /\ value' = [value EXCEPT ![s][e][a] = v]
    /\ info' = [info EXCEPT ![s][e][a] = st]
    /\ chan' = SendChange(chan, s, Neighbours(s), e, [NoInfo EXCEPT ![a] = st])
    /\ written' = written \cup {<<e, a, st>>}
    /\ UNCHANGED <<world, known, ignored, created, removed>>

-----------------------------------------------------------------------------
(* Remote calls.  m is the oldest message from server r to server s. *)

\* Mutant: only the first value of an attribute reaches the World.
SuggestsOnce(s, a, local, remote) ==
    remote # NoStamp /\ local = NoStamp /\ a \in Registered[s]

\* HandleRemoteChangedAttribute reaches Suggest: the stamp was accepted, its value
\* differs from the last one, and the component is registered here.
Suggests(s, a, local, remote) ==
    /\ Accepts(local, remote)
    /\ local = NoStamp \/ local.value # remote.value
    /\ a \in Registered[s]

\* ProcessChangedAttributes of entity e at s, given the sync info and the values it starts from.
SuggestedAttrs(s, local, remote) == {a \in Attr : Suggests(s, a, local[a], remote[a])}

ProcessedValues(s, vals, local, remote) ==
    [a \in Attr |-> IF a \in SuggestedAttrs(s, local, remote) THEN remote[a].value ELSE vals[a]]

\* Mutant: the change event leaves the entry in the ignore set.
ProcessedIgnoresKept(s, e, vals, local, remote) ==
    ignored[s] \cup {<<e, a, remote[a].value>> : a \in SuggestedAttrs(s, local, remote)}

\* Each suggested attribute puts an entry into the ignore set; the change event takes it out
\* again, and an attribute that already has the value raises no event.
ProcessedIgnores(s, e, vals, local, remote) ==
    LET S == SuggestedAttrs(s, local, remote) IN
    (ignored[s] \ {<<e, a, remote[a].value>> : a \in S})
        \cup {<<e, a, remote[a].value>> : a \in {b \in S : vals[b] = remote[b].value}}

HandleRemoteAddedEntity(r, s, m) ==
    LET e == m.ent
        vals == [a \in Attr |-> Default]
    IN
    /\ m.type = "addEntity"
    /\ IF e \in known[s]
       THEN /\ chan' = Received(r, s)
            /\ UNCHANGED <<world, value, known, info, ignored>>
       ELSE /\ world' = [world EXCEPT ![s] = @ \cup {e}]
            /\ known' = [known EXCEPT ![s] = @ \cup {e}]
            /\ info' = [info EXCEPT ![s][e] = Merged(NoInfo, m.info)]
            /\ value' = [value EXCEPT ![s][e] = ProcessedValues(s, vals, NoInfo, m.info)]
            /\ ignored' = [ignored EXCEPT ![s] = ProcessedIgnores(s, e, vals, NoInfo, m.info)]
            /\ chan' = Send(Received(r, s), s, InterestedInEntity(s, e) \ {r}, m)
    /\ UNCHANGED <<clock, created, removed, written>>

\* Mutant: the removal is not passed on.
RemovedNotForwarded(r, s, m) ==
    LET e == m.ent IN
    /\ m.type = "removeEntity"
    /\ e \in world[s]
    /\ chan' = Received(r, s)
    /\ world' = [world EXCEPT ![s] = @ \ {e}]
    /\ value' = [value EXCEPT ![s][e] = [a \in Attr |-> Default]]
    /\ known' = [known EXCEPT ![s] = @ \ {e}]
    /\ info' = [info EXCEPT ![s][e] = NoInfo]
    /\ UNCHANGED <<ignored, clock, created, removed, written>>

\* FindEntity throws when the entity is not in the World: nothing is forwarded.
HandleRemoteRemovedEntity(r, s, m) ==
    LET e == m.ent IN
    /\ m.type = "removeEntity"
    /\ e \in world[s]
    /\ chan' = Send(Received(r, s), s, InterestedInEntity(s, e) \ {r}, m)
    /\ IF e \in known[s]
       THEN /\ world' = [world EXCEPT ![s] = @ \ {e}]
            /\ value' = [value EXCEPT ![s][e] = [a \in Attr |-> Default]]
            /\ known' = [known EXCEPT ![s] = @ \ {e}]
            /\ info' = [info EXCEPT ![s][e] = NoInfo]
       ELSE UNCHANGED <<world, value, known, info>>
    /\ UNCHANGED <<ignored, clock, created, removed, written>>

\* Mutant: the change is not passed on.
ChangeNotForwarded(r, s, m) ==
    LET e == m.ent IN
    /\ m.type = "changeAttributes"
    /\ e \in known[s]
    /\ chan' = Received(r, s)
    /\ info' = [info EXCEPT ![s][e] = Merged(@, m.info)]
    /\ value' = [value EXCEPT ![s][e] = ProcessedValues(s, @, info[s][e], m.info)]
    /\ ignored' = [ignored EXCEPT
            ![s] = ProcessedIgnores(s, e, value[s][e], info[s][e], m.info)]
    /\ UNCHANGED <<world, known, clock, created, removed, written>>

\* The update is forwarded before it is processed, whatever Sync makes of it.
HandleRemoteChangedAttributes(r, s, m) ==
    LET e == m.ent IN
    /\ m.type = "changeAttributes"
    /\ e \in world[s]
    /\ chan' = SendChange(Received(r, s), s, Neighbours(s) \ {r}, e, m.info)
    /\ IF e \in known[s]
       THEN /\ info' = [info EXCEPT ![s][e] = Merged(@, m.info)]
            /\ value' = [value EXCEPT ![s][e] = ProcessedValues(s, @, info[s][e], m.info)]
            /\ ignored' = [ignored EXCEPT
                    ![s] = ProcessedIgnores(s, e, value[s][e], info[s][e], m.info)]
       ELSE UNCHANGED <<info, value, ignored>>
    /\ UNCHANGED <<world, known, clock, created, removed, written>>

\* The call of a handler that throws EntityNotFoundException in its first lines.
HandlerThrows(r, s, m) ==
    /\ m.type \in {"removeEntity", "changeAttributes"}
    /\ m.ent \notin world[s]
    /\ chan' = Received(r, s)
    /\ UNCHANGED <<world, value, known, info, ignored, clock, created, removed, written>>

Deliver(r, s) ==
    /\ chan[<<r, s>>] # <<>>
    /\ LET m == Head(chan[<<r, s>>]) IN
        \/ HandleRemoteAddedEntity(r, s, m)
        \/ HandleRemoteRemovedEntity(r, s, m)
        \/ HandleRemoteChangedAttributes(r, s, m)
        \/ HandlerThrows(r, s, m)

-----------------------------------------------------------------------------

Init ==
    /\ world = [s \in Server |-> {}]
    /\ value = [s \in Server |-> [e \in Entity |-> [a \in Attr |-> Default]]]
    /\ known = [s \in Server |-> {}]
    /\ info = [s \in Server |-> [e \in Entity |-> NoInfo]]
    /\ ignored = [s \in Server |-> {}]
    /\ chan = [l \in Server \X Server |-> <<>>]
    /\ clock = [s \in Server |-> 0]
    /\ created = {}
    /\ removed = {}
    /\ written = {}

LocalStep(s) ==
    \E e \in Entity :
        \/ \E A \in SUBSET Registered[s], t \in Time :
              \E f \in [A -> Writable \cup {Default}] : LocalAdd(s, e, A, f, t)
        \/ LocalRemove(s, e)
        \/ \E a \in Registered[s], v \in Writable : LocalChangeIgnored(s, e, a, v)
        \/ \E a \in Registered[s], v \in Writable, t \in Time : LocalChangeAnnounced(s, e, a, v, t)

Next ==
    \/ \E s \in Server : LocalStep(s)
    \/ \E r, s \in Server : Deliver(r, s)

Spec == Init /\ [][Next]_vars

\* The connections are reliable: a message that was sent is handled in the end.
FairSpec == Spec /\ \A r, s \in Server : WF_vars(Deliver(r, s))

-----------------------------------------------------------------------------
(* Properties *)

\* Every message that was sent has been handled.
Quiescent == \A l \in Server \X Server : chan[l] = <<>>

\* Entities and attributes that every server is interested in.
SharedEntities == {e \in Entity : \A s \in Server : e \in EntityDoI[s]}
SharedAttrs == {a \in Attr : \A s \in Server : a \in AttrDoI[s]}

\* The dictionary of sync infos and the World hold the same entities, so that no
\* handler finds one without the other (WorldSync.cs:114, 286 and 329 only warn).
SyncInfoCoversWorld ==
    /\ known = world
    /\ \A s \in Server : \A e \in Entity \ known[s] : info[s][e] = NoInfo

\* A tick and a SyncID name one assignment: two stamps of an attribute that agree
\* in both carry the same value, otherwise Sync keeps whichever came first.
StampIdentifiesValue ==
    \A w, x \in written :
        w[1] = x[1] /\ w[2] = x[2] /\ w[3].ts = x[3].ts /\ w[3].id = x[3].id => w = x

\* Stamps come from a server's clock and spread unchanged: what a server holds for an
\* attribute, and what travels in a message, was issued for that attribute of that
\* entity, and no stamp is ahead of the clock of the server it names.
InfoIssued(e, i) == \A a \in Attr : i[a] # NoStamp => <<e, a, i[a]>> \in written

StampsIssued == \A s \in Server, e \in Entity : InfoIssued(e, info[s][e])

IssuedMessage == {m \in Message : m.ent \in created /\ InfoIssued(m.ent, m.info)}

MessagesIssued == chan \in [Server \X Server -> Seq(IssuedMessage)]

KnownCreated == \A s \in Server : known[s] \subseteq created

StampsBehindClock == \A w \in written : w[3].ts <= clock[w[3].id]

\* What the handlers rely on whenever they run: World and sync infos hold the same
\* entities, every stamp that a server holds or that travels was issued for that attribute
\* and is not ahead of the clock it names, no entity is heard of before it was created, and
\* with precise clocks a stamp names one value. This is the invariant that is inductive.
Inductive ==
    /\ TypeOK
    /\ SyncInfoCoversWorld
    /\ StampsIssued
    /\ MessagesIssued
    /\ KnownCreated
    /\ StampsBehindClock
    /\ ClockPrecise => StampIdentifiesValue

\* When all messages are handled every server has exactly the entities that were
\* added and not removed: neither side of a removal crossing a change, nor of two
\* crossing removals, loses or resurrects one.
EntitiesAgree ==
    Quiescent =>
        \A s \in Server, e \in SharedEntities : e \in world[s] <=> e \in created \ removed

\* When all messages are handled every server holds, for every attribute, the newest
\* stamp any server has issued for it.
LastWriteWins ==
    Quiescent =>
        \A s \in Server, e \in SharedEntities, a \in SharedAttrs :
            LET stamps == {w[3] : w \in {x \in written : x[1] = e /\ x[2] = a}} IN
            e \in world[s] =>
                IF stamps = {} THEN info[s][e][a] = NoStamp
                ELSE /\ info[s][e][a] \in stamps
                     /\ \A st \in stamps \ {info[s][e][a]} : Newer(info[s][e][a], st)

\* When all messages are handled the attribute values themselves agree, on the
\* servers that have the component registered.
ValuesAgree ==
    Quiescent =>
        \A s, r \in Server : \A e \in SharedEntities \cap world[s] \cap world[r] :
            \A a \in SharedAttrs \cap Registered[s] \cap Registered[r] :
                value[s][e][a] = value[r][e][a]

\* An entity in the World changes an attribute only together with its sync info: no
\* change made by local code is taken for the echo of a remote one and kept back.
EveryChangeIsStamped ==
    [][\A s \in Server : \A e \in world[s] \cap world'[s] : \A a \in Attr :
          value'[s][e][a] # value[s][e][a] => info'[s][e][a] # info[s][e][a]]_vars

\* The stamps behave as last-writer-wins registers.
LWW == INSTANCE LastWriterWins WITH issued <- written, held <- info
Registers == LWW!LwwSpec

\* A stamp that was issued reaches every server, or is overtaken there by a newer one,
\* or the entity is removed.
WritesSpread ==
    \A e \in SharedEntities, a \in SharedAttrs, s \in Server, t \in Time :
        LET issued == {w[3] : w \in {x \in written :
                x[1] = e /\ x[2] = a /\ x[3].id = s /\ x[3].ts = t}}
        IN issued # {}
            ~> \/ e \in removed
               \/ \A r \in Server, st \in issued :
                     info[r][e][a] # NoStamp /\ ~Newer(st, info[r][e][a])

\* A removed entity disappears from every server.
RemovalSpreads ==
    \A e \in SharedEntities : e \in removed ~> [](\A s \in Server : e \notin world[s])

=============================================================================
