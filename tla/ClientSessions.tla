--------------------------- MODULE ClientSessions ---------------------------
(***************************************************************************)
(* The session of one web client: how it signs in, and how its entities    *)
(* follow the World of the server from then on.                            *)
(*                                                                         *)
(* Server: ClientManager.cs and Authentication.cs. ReceiveAuthenticated-   *)
(* Client registers the functions and then the three kinds of updates of a *)
(* connection, while other threads add, remove and change entities without *)
(* its lock. ListObjects enumerates the World, which nobody locks either.  *)
(* Client: fives_communicator.js, clientsync.js, entity_registry.js. Each  *)
(* step of the sign-in waits for the answer to the one before; functions   *)
(* for the server are registered with the last one.                        *)
(*                                                                         *)
(* Abstracted: an entity has one attribute, whose value is the number of   *)
(* its changes; the update queue hands on what it holds in one step (the   *)
(* modules ClientUpdateQueue and ClientView look inside); the entities are *)
(* not the client's own, which it would not be told of. External: SINFONI  *)
(* keeps the order of what it sends over a connection.                     *)
(***************************************************************************)
EXTENDS Naturals, Sequences, Functions

CONSTANTS Entities,
          Initial,     \* the entities that the World holds at the start
          MaxChanges   \* changes of an entity (a bound)

ASSUME SessionAssumption == Initial \subseteq Entities /\ MaxChanges \in Nat

VARIABLES world,     \* the entities of the World, with their values
          past,      \* entities that have been in the World
          adding,    \* entities whose AddedEntity event is still to reach HandleEntityAdded
          removing,  \* the same for RemovedEntity and HandleEntityRemoved
          queued,    \* the updates in the UpdateQueue
          handlers,  \* what ReceiveAuthenticatedClient has registered for the connection
          work,      \* what the server does for the client: a request, or a step of one
          listing,   \* the entities that ListObjects has begun to enumerate
          phase,     \* how far the client has got
          inbox,     \* messages on their way to the client
          known,     \* the client's EntityRegistry, with the values of its entities
          crossed,   \* history: ListObjects failed, or updates went out while it ran
          aborted    \* history: the client gave up in the middle of some updates

worldVars == <<world, past, adding, removing, queued>>
serverVars == <<handlers, work, listing>>
clientVars == <<phase, known>>
vars == <<worldVars, serverVars, inbox, clientVars, crossed, aborted>>

Values == 0 .. MaxChanges
Registered == {"functions", "new", "removed", "updates"}
Requests == {"basicServices", "login", "services", "listObjects"}
Phases == {"start", "basicServices", "login", "services", "listing", "ready", "failed", "gone"}

\* What ReceiveAuthenticatedClient and WrapUpdateMethods register, one after the
\* other; the first step also subscribes to Closed.
Registers == [login |-> "functions", new |-> "new", removed |-> "removed", updates |-> "updates"]
AndThen == [login |-> "new", new |-> "removed", removed |-> "updates", updates |-> "answer"]

Maps == UNION {[S -> Values] : S \in SUBSET Entities}
Updates == [entity : Entities, value : Values]
Messages ==
    [type : {"granted", "refused", "loggedIn", "exception"}]
    \cup [type : {"removed"}, entity : Entities]
    \cup [type : {"new"}, entity : Entities, value : Values]
    \cup [type : {"updates"}, updates : Seq(Updates)]
    \cup [type : {"objects"}, infos : Maps]

TypeOK ==
    /\ world \in Maps
    /\ past \subseteq Entities /\ adding \subseteq past /\ removing \subseteq past
    /\ queued \in Seq(Updates)
    /\ handlers \subseteq Registered
    /\ work \in Requests \cup DOMAIN Registers \cup {"answer", "nothing", "listed"}
    /\ listing \in Maps
    /\ phase \in Phases
    /\ inbox \in Seq(Messages)
    /\ known \in Maps
    /\ crossed \in BOOLEAN /\ aborted \in BOOLEAN

Empty == <<>>

Init ==
    /\ world = [e \in Initial |-> 0]
    /\ past = Initial /\ adding = {} /\ removing = {}
    /\ queued = <<>>
    /\ handlers = {}
    /\ work = "nothing"
    /\ listing = Empty
    /\ phase = "start"
    /\ inbox = <<>>
    /\ known = Empty
    /\ crossed = FALSE /\ aborted = FALSE

With(f, e, v) == [x \in DOMAIN f \cup {e} |-> IF x = e THEN v ELSE f[x]]
Without(f, e) == Restrict(f, DOMAIN f \ {e})

\* What is sent over a connection that has been closed is lost.
Sent(m) == IF phase = "gone" THEN inbox ELSE Append(inbox, m)

(***************************************************************************)
(* The World, which any thread of the server changes.                      *)
(***************************************************************************)

\* World.Add, up to the event: the update queue subscribes to the changes.
AddEntity(e) ==
    /\ e \notin past
    /\ world' = With(world, e, 0)
    /\ past' = past \cup {e}
    /\ adding' = adding \cup {e}
    /\ UNCHANGED <<removing, queued, serverVars, inbox, clientVars, crossed, aborted>>

\* Mutant: the test for the owner is turned round, and the client told of its own entities only.
HandleEntityAddedSkips(e) ==
    /\ e \in adding
    /\ adding' = adding \ {e}
    /\ UNCHANGED <<world, past, removing, queued, serverVars, inbox, clientVars, crossed, aborted>>

HandleEntityAdded(e) ==
    /\ e \in adding
    /\ adding' = adding \ {e}
    /\ inbox' = IF "new" \in handlers
                THEN Sent([type |-> "new", entity |-> e, value |-> world[e]]) ELSE inbox
    /\ UNCHANGED <<world, past, removing, queued, serverVars, clientVars, crossed, aborted>>

\* Nobody knows an entity well enough to remove it before the handlers of
\* AddedEntity have run.
RemoveEntity(e) ==
    /\ e \in DOMAIN world \ adding
    /\ world' = Without(world, e)
    /\ removing' = removing \cup {e}
    /\ UNCHANGED <<past, adding, queued, serverVars, inbox, clientVars, crossed, aborted>>

HandleEntityRemoved(e) ==
    /\ e \in removing
    /\ removing' = removing \ {e}
    /\ inbox' = IF "removed" \in handlers
                THEN Sent([type |-> "removed", entity |-> e]) ELSE inbox
    /\ UNCHANGED <<world, past, adding, queued, serverVars, clientVars, crossed, aborted>>

ChangeAttribute(e) ==
    /\ e \in DOMAIN world /\ world[e] < MaxChanges
    /\ world' = [world EXCEPT ![e] = @ + 1]
    /\ queued' = Append(queued, [entity |-> e, value |-> world'[e]])
    /\ UNCHANGED <<past, adding, removing, serverVars, inbox, clientVars, crossed, aborted>>

\* The update queue hands its updates to the clients that are registered with it.
FlushUpdates ==
    /\ queued # <<>>
    /\ queued' = <<>>
    /\ \/ /\ "updates" \in handlers
          /\ inbox' = Sent([type |-> "updates", updates |-> queued])
          /\ crossed' = (crossed \/ work = "listed")
       \/ "updates" \notin handlers /\ UNCHANGED <<inbox, crossed>>
    /\ UNCHANGED <<world, past, adding, removing, serverVars, clientVars, aborted>>

(***************************************************************************)
(* Requests of the client.                                                 *)
(***************************************************************************)

Answer(type) == inbox' = Sent([type |-> type])

\* Implements, before the connection is authenticated.
Implements ==
    /\ work = "basicServices"
    /\ work' = "nothing"
    /\ Answer("granted")
    /\ UNCHANGED <<worldVars, handlers, listing, clientVars, crossed, aborted>>

\* Mutant: the client is answered first, and registered after that.
ReceiveAnswersFirst ==
    \/ /\ work = "login"
       /\ work' = "nothing"
       /\ Answer("loggedIn")
       /\ UNCHANGED <<handlers, worldVars, listing, clientVars, crossed, aborted>>
    \/ /\ phase \notin {"start", "basicServices", "login", "gone"}
       /\ \E h \in Registered \ handlers : handlers' = handlers \cup {h}
       /\ UNCHANGED <<work, inbox, worldVars, listing, clientVars, crossed, aborted>>

\* Mutant: login is one-way.
ReceiveNoReply ==
    /\ \/ /\ work \in DOMAIN Registers
          /\ handlers' = handlers \cup {Registers[work]}
          /\ work' = AndThen[work]
       \/ work = "answer" /\ work' = "nothing" /\ UNCHANGED handlers
    /\ UNCHANGED <<worldVars, listing, inbox, clientVars, crossed, aborted>>

\* Authenticate accepts everybody, and answers when the client is registered. A
\* connection that is closed in the middle of it is registered all the same.
ReceiveAuthenticatedClient ==
    /\ \/ /\ work \in DOMAIN Registers
          /\ handlers' = handlers \cup {Registers[work]}
          /\ work' = AndThen[work]
          /\ UNCHANGED inbox
       \/ /\ work = "answer"
          /\ work' = "nothing"
          /\ Answer("loggedIn")
          /\ UNCHANGED handlers
    /\ UNCHANGED <<worldVars, listing, clientVars, crossed, aborted>>

\* AuthenticatedImplements, or Implements if that has not been replaced yet.
AuthenticatedImplements ==
    /\ work = "services"
    /\ work' = "nothing"
    /\ Answer(IF "functions" \in handlers THEN "granted" ELSE "refused")
    /\ UNCHANGED <<worldVars, handlers, listing, clientVars, crossed, aborted>>

\* ListObjects begins: no value that it reads will be older than this.
StartListing ==
    /\ work = "listObjects"
    /\ work' = "listed"
    /\ listing' = world
    /\ UNCHANGED <<worldVars, handlers, inbox, clientVars, crossed, aborted>>

\* The enumeration throws when entities came or went while it ran.
FinishListing ==
    /\ work = "listed"
    /\ work' = "nothing"
    /\ listing' = Empty
    /\ \/ /\ DOMAIN world # DOMAIN listing
          /\ Answer("exception")
          /\ crossed' = TRUE
       \/ /\ DOMAIN world = DOMAIN listing
          /\ \E f \in [DOMAIN world -> Values] :
                /\ \A e \in DOMAIN f : f[e] \in listing[e] .. world[e]
                /\ inbox' = Sent([type |-> "objects", infos |-> f])
          /\ UNCHANGED crossed
    /\ UNCHANGED <<worldVars, handlers, clientVars, aborted>>

\* HandleAuthenticatedClientDisconnected, which takes no lock: a request of the
\* client that is being served goes on. The client's socket reconnects, but nobody
\* signs in again.
ConnectionClosed ==
    /\ phase # "gone"
    /\ phase' = "gone"
    /\ handlers' = {}
    /\ inbox' = <<>>
    /\ UNCHANGED <<worldVars, work, listing, known, crossed, aborted>>

(***************************************************************************)
(* The client.                                                             *)
(***************************************************************************)

Receives(type) == inbox # <<>> /\ Head(inbox).type = type
TakeNext == inbox' = Tail(inbox)

Request(next, request) == phase' = next /\ work' = request

\* auth of FivesCommunicator, called by the sign-in dialog.
Auth ==
    /\ phase = "start"
    /\ Request("basicServices", "basicServices")
    /\ UNCHANGED <<worldVars, handlers, listing, inbox, known, crossed, aborted>>

Login ==
    /\ phase = "basicServices" /\ Receives("granted")
    /\ TakeNext
    /\ Request("login", "login")
    /\ UNCHANGED <<worldVars, handlers, listing, known, crossed, aborted>>

Connect ==
    /\ phase = "login" /\ Receives("loggedIn")
    /\ TakeNext
    /\ Request("services", "services")
    /\ UNCHANGED <<worldVars, handlers, listing, known, crossed, aborted>>

\* The answer to the second "implements": ConnectionEstablished registers the
\* functions and asks for the objects; or "Server does not support required service".
ConnectionEstablished ==
    /\ phase = "services"
    /\ inbox # <<>> /\ Head(inbox).type \in {"granted", "refused"}
    /\ TakeNext
    /\ IF Receives("granted") THEN Request("listing", "listObjects")
                              ELSE phase' = "failed" /\ UNCHANGED work
    /\ UNCHANGED <<worldVars, handlers, listing, known, crossed, aborted>>

\* _listObjectsCallback. Nobody listens to the exception.
ListObjectsCallback ==
    /\ phase = "listing"
    /\ \/ /\ Receives("objects")
          /\ LET infos == Head(inbox).infos
             IN  known' = [e \in DOMAIN known \cup DOMAIN infos |->
                             IF e \in DOMAIN infos THEN infos[e] ELSE known[e]]
       \/ Receives("exception") /\ UNCHANGED known
    /\ TakeNext
    /\ phase' = "ready"
    /\ UNCHANGED <<worldVars, serverVars, crossed, aborted>>

\* Before ConnectionEstablished the functions that the server calls are unknown.
Listens == phase \in {"listing", "ready"}

IgnoreCall ==
    /\ ~Listens
    /\ Receives("new") \/ Receives("removed") \/ Receives("updates")
    /\ TakeNext
    /\ UNCHANGED <<worldVars, serverVars, clientVars, crossed, aborted>>

AddEntityFromServer ==
    /\ Listens /\ Receives("new")
    /\ TakeNext
    /\ known' = With(known, Head(inbox).entity, Head(inbox).value)
    /\ UNCHANGED <<worldVars, serverVars, phase, crossed, aborted>>

\* removeEntity, which throws without effect for an entity it does not know.
RemoveEntityFromServer ==
    /\ Listens /\ Receives("removed")
    /\ TakeNext
    /\ known' = Without(known, Head(inbox).entity)
    /\ UNCHANGED <<worldVars, serverVars, phase, crossed, aborted>>

\* _applyObjectUpdates throws at the first update of an entity that is unknown.
ApplyObjectUpdates ==
    /\ Listens /\ Receives("updates")
    /\ TakeNext
    /\ LET u == Head(inbox).updates
           fits(n) == \A i \in 1 .. n : u[i].entity \in DOMAIN known
           n == CHOOSE k \in 0 .. Len(u) : fits(k) /\ (k < Len(u) => ~fits(k + 1))
           last(e) == CHOOSE i \in 1 .. n :
                         u[i].entity = e /\ \A j \in i + 1 .. n : u[j].entity # e
           updated == {u[i].entity : i \in 1 .. n}
       IN  /\ known' = [e \in DOMAIN known |->
                          IF e \in updated THEN u[last(e)].value ELSE known[e]]
           /\ aborted' = (aborted \/ n < Len(u))
    /\ UNCHANGED <<worldVars, serverVars, phase, crossed>>

ServerStep ==
    Implements \/ ReceiveAuthenticatedClient \/ AuthenticatedImplements \/ StartListing \/ FinishListing

ClientStep ==
    \/ Auth \/ Login \/ Connect \/ ConnectionEstablished \/ ListObjectsCallback
    \/ IgnoreCall \/ AddEntityFromServer \/ RemoveEntityFromServer \/ ApplyObjectUpdates

Next ==
    \/ \E e \in Entities :
          \/ AddEntity(e) \/ HandleEntityAdded(e) \/ RemoveEntity(e) \/ HandleEntityRemoved(e)
          \/ ChangeAttribute(e)
    \/ FlushUpdates \/ ServerStep \/ ClientStep \/ ConnectionClosed

\* The server runs its threads, the browser its tasks; that includes the user
\* who signs in.
Spec == Init /\ [][Next]_vars /\ WF_vars(ServerStep) /\ WF_vars(ClientStep)

(***************************************************************************)
(* Properties.                                                             *)
(***************************************************************************)

\* All the news of the World has reached the client, which has its objects.
Quiet == phase = "ready" /\ inbox = <<>> /\ queued = <<>> /\ adding = {} /\ removing = {}

\* The client ends with the entities of the World and their values, whatever
\* happened to them while it signed in: what was pushed before the client had
\* registered its functions is in the list it asks for afterwards. Excepted are
\* lists that fail or that updates overtake, and updates that are given up.
ClientFollows ==
    Quiet /\ ~crossed /\ ~aborted => known = world

\* Synchronisation "is solely done by synchronising attribute values" (user
\* guide): what a value becomes, the client gets. But an update of an entity that
\* has been removed, or not yet been added, takes the ones behind it with it.
NoUpdateLost ==
    Quiet /\ ~crossed => known = world

\* A client that has signed in is granted the services that need it: the answer
\* to login is sent when the functions have been registered.
NeverRefused == phase # "failed" /\ ~Receives("refused")

\* Whoever signs in gets the list of objects, or its failure, in the end.
SignInCompletes == (phase = "start") ~> (phase \in {"ready", "gone"})

(***************************************************************************)
(* What every step keeps, and the proofs rest on.                          *)
(***************************************************************************)

IsAnswer(m) == m.type \in {"granted", "refused", "loggedIn", "exception", "objects"}
NoAnswer(s) == \A i \in DOMAIN s : ~IsAnswer(s[i])
OneAnswer(s, types) ==
    \E i \in DOMAIN s : s[i].type \in types /\ \A j \in DOMAIN s : IsAnswer(s[j]) => j = i

\* The server is at one of these requests, or its one answer is on its way.
WaitsFor(requests, types) ==
    (work \in requests /\ NoAnswer(inbox)) \/ (work = "nothing" /\ OneAnswer(inbox, types))

AnswersFit ==
    /\ phase \in {"start", "ready"} => work = "nothing" /\ NoAnswer(inbox)
    /\ phase = "basicServices" => WaitsFor({"basicServices"}, {"granted"})
    /\ phase = "login" => WaitsFor({"login", "new", "removed", "updates", "answer"}, {"loggedIn"})
    /\ phase = "services" => WaitsFor({"services"}, {"granted"})
    /\ phase = "listing" =>
           WaitsFor({"listObjects", "listed"}, IF crossed THEN {"objects", "exception"} ELSE {"objects"})
    /\ phase = "gone" => inbox = <<>>
    /\ phase # "failed"

\* What has been registered when the server has got so far.
HandlersFit ==
    /\ phase = "login" =>
           /\ work \in {"new", "removed", "updates"} => "functions" \in handlers
           /\ work \in {"removed", "updates"} => "new" \in handlers
           /\ work = "updates" => "removed" \in handlers
           /\ work \in {"answer", "nothing"} => handlers = Registered
    /\ phase \in {"services", "listing", "ready"} => handlers = Registered

\* A message shows an entity to the client, or takes it away.
Shows(m, e) == (m.type = "new" /\ m.entity = e) \/ (m.type = "objects" /\ e \in DOMAIN m.infos)
Removes(m, e) == m.type = "removed" /\ m.entity = e

\* No entity comes back, and none is removed before the handlers of its event have run.
WorldFits ==
    /\ adding \subseteq DOMAIN world /\ DOMAIN world \subseteq past
    /\ removing \cap DOMAIN world = {} /\ DOMAIN known \subseteq past
    /\ DOMAIN listing \subseteq past /\ \A i \in DOMAIN queued : queued[i].entity \in past
    /\ ~Listens /\ phase # "gone" => DOMAIN known = {}
    /\ \A i \in DOMAIN inbox, e \in Entities :
          /\ Shows(inbox[i], e) => e \in past
          /\ Removes(inbox[i], e) => e \in past \ (DOMAIN world \cup removing)

\* The last of the updates u of an entity, if there is one, tells its value v.
Updated(u, e) == \E i \in DOMAIN u : u[i].entity = e
LastUpdateIs(u, e, v) ==
    \A i \in DOMAIN u :
        u[i].entity = e /\ (\A j \in DOMAIN u : j > i => u[j].entity # e) => u[i].value = v

QueueFits == \A e \in DOMAIN world : LastUpdateIs(queued, e, world[e])

\* What has changed since ListObjects began is in the queue, unless updates went out.
ListingFits ==
    work = "listed" /\ phase = "listing" /\ ~crossed =>
        \A e \in DOMAIN listing \cap DOMAIN world : ~Updated(queued, e) => listing[e] = world[e]

\* The last message that tells of an entity, if there is one, tells its value v.
Tells(m, e) == Shows(m, e) \/ (m.type = "updates" /\ Updated(m.updates, e))
Says(m, e, v) ==
    /\ m.type = "new" => m.value = v
    /\ m.type = "objects" => m.infos[e] = v
    /\ m.type = "updates" => LastUpdateIs(m.updates, e, v)
LastSays(s, e, v) ==
    \A i \in DOMAIN s : Tells(s[i], e) /\ (\A j \in DOMAIN s : j > i => ~Tells(s[j], e)) => Says(s[i], e, v)

\* The client will listen to the messages that were sent after the services were granted.
Heard(i) == Listens \/ (phase = "services" /\ \E j \in DOMAIN inbox : j < i /\ inbox[j].type = "granted")
Listed == phase = "ready" \/ (phase = "listing" /\ work = "nothing")

\* What has been removed is taken away from a client that knows it, or is going to.
Forgets(e) ==
    e \notin DOMAIN world \cup removing =>
        /\ \A i \in DOMAIN inbox : Heard(i) /\ Shows(inbox[i], e) =>
               \E j \in DOMAIN inbox : j > i /\ Removes(inbox[j], e)
        /\ e \in DOMAIN known => \E j \in DOMAIN inbox : Removes(inbox[j], e)

\* When the list of objects has been sent, what the client knows, what is on its way to it
\* and what is queued end with the value that an entity has.
Learns(e) ==
    Listed /\ ~crossed /\ ~aborted /\ e \in DOMAIN world \ adding =>
        /\ e \in DOMAIN known \/ \E i \in DOMAIN inbox : Shows(inbox[i], e)
        /\ ~Updated(queued, e) =>
               /\ LastSays(inbox, e, world[e])
               /\ (\A i \in DOMAIN inbox : ~Tells(inbox[i], e)) => known[e] = world[e]

Inductive ==
    /\ TypeOK /\ AnswersFit /\ HandlersFit /\ WorldFits /\ QueueFits /\ ListingFits
    /\ phase # "gone" => \A e \in Entities : Forgets(e) /\ Learns(e)
=============================================================================
