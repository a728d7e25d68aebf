------------------------- MODULE ServerConnections -------------------------
(***************************************************************************)
(* How the synchronisation nodes of the ServerSync plugin get to know each *)
(* other: ServerSyncImpl.cs (handshake, RemoteServers, AddedServer and     *)
(* RemovedServer), DomainSync.cs, ComponentSync.cs, RemoteServerImpl.cs    *)
(* and what WorldSync.cs sends to a server that was added.                 *)
(*                                                                         *)
(* A link joins a server that dials to one that listens; each of its ends  *)
(* is a Connection object of the server on that side. HandleNewServer-     *)
(* Connected asks the other side for its DoR, its DoI and its SyncID. The  *)
(* delegates that take the answers share captured variables without a      *)
(* lock: a delegate stores its answer, and then looks for the other two.   *)
(*                                                                         *)
(* External: SINFONI hands each message of a link to its handler on a      *)
(* thread of its own. The handlers take no lock and overlap, so that their *)
(* first steps may come in any order, whatever the order of the messages:  *)
(* an inbox is a bag. What a server sends over a link that it, or the      *)
(* other side, knows to be closed is lost. A domain is known by the number *)
(* of changes it has seen: 0 is the empty one of Domains/, to which        *)
(* nothing is of interest, and to the others everything is. Plugins change *)
(* domains on threads of their own. What happens to an entity after it has *)
(* been added is the subject of WorldSync.                                 *)
(***************************************************************************)
EXTENDS Naturals, FiniteSets, Bags

CONSTANTS Servers,
          Links,          \* [dials : Servers, listens : Servers]: the configured URIs
          Linked,         \* the links whose handshakes have been completed before
          Components,     \* names of component definitions
          Defined,        \* the definitions each server registers when its plugins load
          Present,        \* the entities each server loads, each named for its component
          Domains,        \* "DoI" and "DoR", which are treated alike
          MaxChanges,     \* changes of each domain of a server (a bound)
          Registering,    \* definitions that servers register later
          Breaking,       \* the links that may break
          Unknown         \* null: an answer that has not arrived

Parts == Domains \cup {"SyncID"}
Ends == [link : Links, side : {"dials", "listens"}]
Other(e) == [e EXCEPT !.side = IF @ = "dials" THEN "listens" ELSE "dials"]
Local(e) == e.link[e.side]
Remote(e) == Local(Other(e))
EndsOf(s) == {e \in Ends : Local(e) = s}

ASSUME LinksAssumption ==
    /\ Links \subseteq [dials : Servers, listens : Servers]
    /\ Linked \subseteq {k \in Links : k.dials # k.listens}
    /\ Breaking \subseteq Links
ASSUME DefinitionsAssumption ==
    /\ IsFiniteSet(Components)
    /\ Defined \in [Servers -> SUBSET Components]
    /\ Present \in [Servers -> SUBSET Components]
    /\ \A s \in Servers : Present[s] \subseteq Defined[s]
    /\ Registering \in [Servers -> SUBSET Components]
    /\ \A k \in Linked : Defined[k.dials] = Defined[k.listens] /\ Present[k.dials] = Present[k.listens]
ASSUME UnknownAssumption == Unknown \notin Nat
ASSUME DomainsAssumption == Domains \in {{"DoI"}, {"DoI", "DoR"}} /\ MaxChanges \in [Servers -> Nat]

VARIABLES up,          \* "new", "up" or "down": what each end knows of its link
          inbox,       \* the bag of messages to each end whose handler has not begun
          answers,     \* the captured variables dor, doi and syncID of each end
          delegate,    \* what the delegate for each part, at each end, does next
          domains,     \* the local domains of each server
          changing,    \* how many handlers of a changed domain have not yet read it
          telling,     \* the bag of updates that such handlers have still to send
          registered,  \* the ends that are keys of their server's remoteServers
          view,        \* DoI and DoR of the RemoteServerImpl of each end
          subscribed,  \* the ends whose Closed event has a handler
          added,       \* history: how often AddedServer was raised for each end
          removed,     \* history: how often RemovedServer was raised for each end
          registry,    \* the component definitions of each server
          raising,     \* definitions that were registered locally: the event is still to come
          relayed,     \* definitions that were relayed, and are still to be registered
          entities,    \* the world of each server, by component: "none", "bare" or "whole"
          raced        \* history: <<e, d>> if the last change of the domain d at the other
                       \* side of e came during the handshake, or on top of another one

vars == <<up, inbox, answers, delegate, domains, registered, view, subscribed, added,
          removed, registry, raising, relayed, entities, changing, telling, raced>>

handshakeVars == <<answers, delegate>>
domainVars == <<domains, changing, telling, raced>>
serverVars == <<registered, view, subscribed, added, removed>>
componentVars == <<registry, raising, relayed>>

Updates == [type : {"update"}, part : Domains, value : Nat]
Messages ==
    Updates
    \cup [type : {"get"}, part : Parts]
    \cup [type : {"answer"}, part : Parts, value : Nat]
    \cup [type : {"addEntity", "define"}, name : Components]
MessageBag(B) == IsABag(B) /\ BagToSet(B) \subseteq Messages

TypeOK ==
    /\ up \in [Ends -> {"new", "up", "down"}]
    /\ DOMAIN inbox = Ends /\ \A e \in Ends : MessageBag(inbox[e])
    /\ answers \in [Ends -> [Parts -> Nat \cup {Unknown}]]
    /\ delegate \in [Ends -> [Parts -> {"idle", "stored", "added", "announced"}]]
    /\ domains \in [Servers -> [Domains -> Nat]]
    /\ changing \in [Servers -> [Domains -> Nat]]
    /\ DOMAIN telling = Servers
    /\ \A s \in Servers : MessageBag(telling[s]) /\ BagToSet(telling[s]) \subseteq Updates
    /\ registered \subseteq Ends
    /\ view \in [Ends -> [Domains -> Nat]]
    /\ subscribed \subseteq Ends
    /\ added \in [Ends -> Nat]
    /\ removed \in [Ends -> Nat]
    /\ registry \in [Servers -> SUBSET Components]
    /\ raising \in [Servers -> SUBSET Components]
    /\ relayed \in [Servers -> SUBSET Components]
    /\ entities \in [Servers -> [Components -> {"none", "bare", "whole"}]]
    /\ raced \subseteq Ends \X Domains

Init ==
    LET linkedEnds == {e \in Ends : e.link \in Linked}
    IN  /\ up = [e \in Ends |-> IF e \in linkedEnds THEN "up" ELSE "new"]
        /\ inbox = [e \in Ends |-> EmptyBag]
        /\ answers = [e \in Ends |-> [p \in Parts |-> IF e \in linkedEnds THEN 0 ELSE Unknown]]
        /\ delegate = [e \in Ends |-> [p \in Parts |-> "idle"]]
        /\ domains = [s \in Servers |-> [d \in Domains |-> 0]]
        /\ changing = [s \in Servers |-> [d \in Domains |-> 0]]
        /\ telling = [s \in Servers |-> EmptyBag]
        /\ registered = linkedEnds
        /\ view = [e \in Ends |-> [d \in Domains |-> 0]]
        /\ subscribed = linkedEnds
        /\ added = [e \in Ends |-> IF e \in linkedEnds THEN 1 ELSE 0]
        /\ removed = [e \in Ends |-> 0]
        /\ registry = Defined
        /\ raising = [s \in Servers |-> {}]
        /\ relayed = [s \in Servers |-> {}]
        /\ entities = [s \in Servers |->
                         [c \in Components |-> IF c \in Present[s] THEN "whole" ELSE "none"]]
        /\ raced = {}

(***************************************************************************)
(* Sending, and the handlers of what arrives.                              *)
(***************************************************************************)

\* box, after the messages Q have been sent from the ends E.
SendTo(box, E, Q) ==
    [e \in Ends |-> IF Other(e) \in E /\ up[Other(e)] # "down" /\ up[e] # "down"
                    THEN box[e] (+) SetToBag(Q) ELSE box[e]]

\* The messages of a type whose handlers may begin at e, and what they leave.
Received(e, type) == {m \in BagToSet(inbox[e]) : up[e] = "up" /\ m.type = type}
Rest(e, m) == [inbox EXCEPT ![e] = @ (-) SetToBag({m})]

Peers(s) == EndsOf(s) \cap registered

\* server.DoI.IsInterestedInEntity
Interested(e) == view[e]["DoI"] > 0

Request(p) == [type |-> "get", part |-> p]
Entity(c) == [type |-> "addEntity", name |-> c]
Definition(c) == [type |-> "define", name |-> c]
Update(s, d) == [type |-> "update", part |-> d, value |-> domains[s][d]]

(***************************************************************************)
(* The handshake.                                                          *)
(***************************************************************************)

HandleNewServerConnected(e) ==
    /\ up[e] = "new"
    /\ up' = [up EXCEPT ![e] = "up"]
    /\ inbox' = SendTo(inbox, {e}, {Request(p) : p \in Parts})
    /\ UNCHANGED <<handshakeVars, domainVars, serverVars, componentVars, entities>>

\* GetDoR, GetDoI and the getSyncID function.
AnswerRequest(e) ==
    /\ \E m \in Received(e, "get") :
          LET v == IF m.part \in Domains THEN domains[Local(e)][m.part] ELSE 0
          IN  inbox' = SendTo(Rest(e, m), {e},
                              {[type |-> "answer", part |-> m.part, value |-> v]})
    /\ UNCHANGED <<up, handshakeVars, domainVars, serverVars, componentVars, entities>>

\* The first half of the delegate for an answer.
StoreAnswer(e) ==
    /\ \E m \in Received(e, "answer") :
          /\ answers' = [answers EXCEPT ![e][m.part] = m.value]
          /\ delegate' = [delegate EXCEPT ![e][m.part] = "stored"]
          /\ inbox' = Rest(e, m)
    /\ UNCHANGED <<up, domainVars, serverVars, componentVars, entities>>

AllAnswered(e) == \A p \in Parts : answers[e][p] # Unknown

\* Mutant: remoteServers[connection] = newServer, which does not throw.
AddRemoteServerTwice(e, p) ==
    /\ delegate[e][p] = "stored"
    /\ \/ /\ AllAnswered(e) /\ Remote(e) # Local(e)
          /\ registered' = registered \cup {e}
          /\ view' = [view EXCEPT ![e] = [d \in Domains |-> answers[e][d]]]
          /\ delegate' = [delegate EXCEPT ![e][p] = "added"]
       \/ /\ ~AllAnswered(e) \/ Remote(e) = Local(e)
          /\ delegate' = [delegate EXCEPT ![e][p] = "idle"]
          /\ UNCHANGED <<registered, view>>
    /\ UNCHANGED <<up, inbox, answers, domainVars, subscribed, added, removed, componentVars,
                   entities>>

\* Two delegates may both find the three answers: Dictionary.Add throws for
\* the second one.
AddRemoteServer(e, p) ==
    /\ delegate[e][p] = "stored"
    /\ \/ /\ AllAnswered(e) /\ Remote(e) # Local(e) /\ e \notin registered
          /\ registered' = registered \cup {e}
          /\ view' = [view EXCEPT ![e] = [d \in Domains |-> answers[e][d]]]
          /\ delegate' = [delegate EXCEPT ![e][p] = "added"]
       \/ /\ ~AllAnswered(e) \/ Remote(e) = Local(e) \/ e \in registered
          /\ delegate' = [delegate EXCEPT ![e][p] = "idle"]
          /\ UNCHANGED <<registered, view>>
    /\ UNCHANGED <<up, inbox, answers, domainVars, subscribed, added, removed, componentVars,
                   entities>>

\* AddedServer: the handler of WorldSync was subscribed before that of ComponentSync.
AnnounceServer(e, p) ==
    LET world == {c \in Components : Interested(e) /\ entities[Local(e)][c] # "none"}
    IN  /\ delegate[e][p] = "added"
        /\ delegate' = [delegate EXCEPT ![e][p] = "announced"]
        /\ added' = [added EXCEPT ![e] = @ + 1]
        /\ inbox' = SendTo(inbox, {e}, {Entity(c) : c \in world}
                                       \cup {Definition(c) : c \in registry[Local(e)]})
        /\ UNCHANGED <<up, answers, domainVars, registered, view, subscribed, removed,
                       componentVars, entities>>

SubscribeToClosed(e, p) ==
    /\ delegate[e][p] = "announced"
    /\ delegate' = [delegate EXCEPT ![e][p] = "idle"]
    /\ subscribed' = subscribed \cup {e}
    /\ UNCHANGED <<up, inbox, answers, domainVars, registered, view, added, removed,
                   componentVars, entities>>

\* The Closed event of the connection.
ConnectionClosed(e) ==
    /\ e.link \in Breaking
    /\ up[e] = "up"
    /\ up' = [up EXCEPT ![e] = "down"]
    /\ inbox' = [inbox EXCEPT ![e] = EmptyBag]
    /\ registered' = IF e \in subscribed THEN registered \ {e} ELSE registered
    /\ removed' = IF e \in subscribed THEN [removed EXCEPT ![e] = @ + 1] ELSE removed
    /\ UNCHANGED <<handshakeVars, domainVars, view, subscribed, added, componentVars, entities>>

(***************************************************************************)
(* Domains of interest and of responsibility.                              *)
(***************************************************************************)

Settled(k) == \A e \in Ends : e.link = k => e \in registered \/ up[e] = "down"
Untouched(k) == \A e \in Ends : e.link = k => up[e] = "new"

Has(B, type, part) == \E m \in BagToSet(B) : m.type = type /\ m.part = part

\* A change of the domain d at the other side of e has not yet been taken notice of at e.
UnderWay(e, d) ==
    \/ changing[Remote(e)][d] > 0
    \/ Has(telling[Remote(e)], "update", d) \/ Has(inbox[e], "update", d)

\* The setters of LocalServerImpl, up to the event.
ChangeDomain(s, d) ==
    /\ domains[s][d] < MaxChanges[s]
    /\ domains' = [domains EXCEPT ![s][d] = @ + 1]
    /\ changing' = [changing EXCEPT ![s][d] = @ + 1]
    /\ raced' = {x \in Ends \X Domains :
                    IF Remote(x[1]) = s /\ x[2] = d
                    THEN \/ ~Settled(x[1].link) /\ ~Untouched(x[1].link)
                         \/ UnderWay(x[1], d)
                    ELSE x \in raced}
    /\ UNCHANGED <<up, inbox, handshakeVars, telling, serverVars, componentVars, entities>>

\* HandleLocalDoIChanged and its sibling: the domain is serialised as it is by now ...
SerializeDomain(s, d) ==
    /\ changing[s][d] > 0
    /\ changing' = [changing EXCEPT ![s][d] = @ - 1]
    /\ telling' = [telling EXCEPT ![s] = @ (+) SetToBag({Update(s, d)})]
    /\ UNCHANGED <<up, inbox, handshakeVars, domains, raced, serverVars, componentVars, entities>>

\* ... and then sent to the servers that are registered.
UpdateRemoteServers(s) ==
    /\ \E m \in BagToSet(telling[s]) :
          /\ telling' = [telling EXCEPT ![s] = @ (-) SetToBag({m})]
          /\ inbox' = SendTo(inbox, Peers(s), {m})
    /\ UNCHANGED <<up, handshakeVars, domains, changing, raced, serverVars, componentVars,
                   entities>>

\* Mutant: the servers with another connection are updated.
UpdateOtherServers(e) ==
    /\ \E m \in Received(e, "update") :
          /\ view' = [f \in Ends |-> IF f \in Peers(Local(e)) \ {e}
                                     THEN [view[f] EXCEPT ![m.part] = m.value] ELSE view[f]]
          /\ inbox' = Rest(e, m)
    /\ UNCHANGED <<up, handshakeVars, domainVars, registered, subscribed, added, removed,
                   componentVars, entities>>

\* HandleRemoteDoIChanged and HandleRemoteDoRChanged, which throw when the
\* server is not registered.
HandleRemoteDomainChanged(e) ==
    /\ \E m \in Received(e, "update") :
          /\ view' = IF e \in registered THEN [view EXCEPT ![e][m.part] = m.value] ELSE view
          /\ inbox' = Rest(e, m)
    /\ UNCHANGED <<up, handshakeVars, domainVars, registered, subscribed, added, removed,
                   componentVars, entities>>

(***************************************************************************)
(* Component definitions, and the entities of a server that was added.     *)
(***************************************************************************)

\* ComponentRegistry.Register, up to the event.
RegisterComponent(s, c) ==
    /\ c \in Registering[s] \ registry[s]
    /\ registry' = [registry EXCEPT ![s] = @ \cup {c}]
    /\ raising' = [raising EXCEPT ![s] = @ \cup {c}]
    /\ UNCHANGED <<up, inbox, handshakeVars, domainVars, serverVars, relayed, entities>>

\* Mutant: a definition is told to nobody.
LocalComponentNotSent(s, c) ==
    /\ c \in raising[s]
    /\ raising' = [raising EXCEPT ![s] = @ \ {c}]
    /\ UNCHANGED <<up, inbox, handshakeVars, domainVars, serverVars, registry, relayed, entities>>

HandleLocalRegisteredComponent(s, c) ==
    /\ c \in raising[s]
    /\ raising' = [raising EXCEPT ![s] = @ \ {c}]
    /\ inbox' = SendTo(inbox, Peers(s), {Definition(c)})
    /\ UNCHANGED <<up, handshakeVars, domainVars, serverVars, registry, relayed, entities>>

\* HandleRemoteRegisteredComponentDefinition: every definition is relayed ...
RelayDefinition(e) ==
    /\ \E m \in Received(e, "define") :
          /\ inbox' = SendTo(Rest(e, m), Peers(Local(e)) \ {e}, {m})
          /\ relayed' = [relayed EXCEPT ![Local(e)] = @ \cup {m.name}]
    /\ UNCHANGED <<up, handshakeVars, domainVars, serverVars, registry, raising, entities>>

\* ... and then registered, if its name is new. The event it raises is ignored,
\* because ignoredComponentRegistrations holds the definition's Guid.
RegisterRemoteDefinition(s, c) ==
    /\ c \in relayed[s]
    /\ relayed' = [relayed EXCEPT ![s] = @ \ {c}]
    /\ registry' = [registry EXCEPT ![s] = @ \cup {c}]
    /\ UNCHANGED <<up, inbox, handshakeVars, domainVars, serverVars, raising, entities>>

\* HandleRemoteAddedEntity: the attributes of a component that is not
\* registered are skipped (ComponentAccessException).
HandleRemoteAddedEntity(e) ==
    /\ \E m \in Received(e, "addEntity") :
          LET c == m.name
              s == Local(e)
          IN  \/ /\ entities[s][c] = "none"
                 /\ entities' = [entities EXCEPT ![s][c] =
                                   IF c \in registry[s] THEN "whole" ELSE "bare"]
                 /\ inbox' = SendTo(Rest(e, m), {f \in Peers(s) \ {e} : Interested(f)}, {m})
              \/ /\ entities[s][c] # "none"
                 /\ inbox' = Rest(e, m)
                 /\ UNCHANGED entities
    /\ UNCHANGED <<up, handshakeVars, domainVars, serverVars, componentVars>>

HandleMessage(e) ==
    \/ AnswerRequest(e) \/ StoreAnswer(e) \/ HandleRemoteDomainChanged(e)
    \/ RelayDefinition(e) \/ HandleRemoteAddedEntity(e)

DelegateStep(e, p) ==
    AddRemoteServer(e, p) \/ AnnounceServer(e, p) \/ SubscribeToClosed(e, p)

ComponentStep(s, c) ==
    HandleLocalRegisteredComponent(s, c) \/ RegisterRemoteDefinition(s, c)

Next ==
    \/ \E e \in Ends :
          \/ HandleNewServerConnected(e) \/ HandleMessage(e) \/ ConnectionClosed(e)
          \/ \E p \in Parts : DelegateStep(e, p)
    \/ \E s \in Servers :
          \/ \E d \in Domains : ChangeDomain(s, d) \/ SerializeDomain(s, d)
          \/ UpdateRemoteServers(s)
          \/ \E c \in Components : RegisterComponent(s, c) \/ ComponentStep(s, c)

\* Threads that have started run on, and messages are delivered as long as the
\* link holds. Nobody has to change a domain or register a component.
Fairness ==
    /\ \A e \in Ends : WF_vars(HandleMessage(e)) /\ WF_vars(\E p \in Parts : DelegateStep(e, p))
    /\ \A s \in Servers :
          /\ WF_vars(\E c \in Components : ComponentStep(s, c))
          /\ WF_vars(UpdateRemoteServers(s) \/ \E d \in Domains : SerializeDomain(s, d))

Spec == Init /\ [][Next]_vars /\ Fairness

(***************************************************************************)
(* Properties.                                                             *)
(***************************************************************************)

AtRest(e) == \A p \in Parts : delegate[e][p] = "idle"
Holds(k) == \A e \in Ends : e.link = k => up[e] = "up"
Calm ==
    /\ \A e \in Ends : AtRest(e) /\ inbox[e] = EmptyBag
    /\ \A s \in Servers :
          /\ raising[s] = {} /\ relayed[s] = {} /\ telling[s] = EmptyBag
          /\ \A d \in Domains : changing[s][d] = 0

\* However the answers and their delegates interleave, AddedServer is raised
\* once for each server that comes to be registered, as long as its connection
\* holds, and RemovedServer at most once and only after it. (A delegate that is
\* delayed until the server has been removed would add it again.)
AnnouncedOnce ==
    \A e \in Ends :
        /\ up[e] # "down" => added[e] <= 1 /\ (e \in registered /\ AtRest(e) => added[e] = 1)
        /\ removed[e] <= 1 /\ removed[e] <= added[e]

\* A server knows the domain of a server it is connected to as it was changed last, unless
\* that change was made during the handshake or while the update of an earlier one was still
\* on its way: setters, handshakes and the handlers of both sides take no common lock.
DomainsFollow ==
    \A e \in registered, d \in Domains :
        Calm /\ Holds(e.link) /\ <<e, d>> \notin raced => view[e][d] = domains[Remote(e)][d]

\* DomainSync promises "synchronization of the DoI and DoR between changes". An
\* update that overtakes the handshake is refused, one that is made before the other
\* side is registered is not sent, and two updates may be handled in reverse order.
DomainsAgree ==
    \A e \in registered : Calm /\ Holds(e.link) => view[e] = domains[Remote(e)]

\* ComponentSync promises "synchronization of the registered component definitions
\* across servers". A server that is added between the relaying of a definition
\* and its registration is told of it by neither.
DefinitionsAgree ==
    \A e \in registered : Calm /\ Holds(e.link) => registry[Local(e)] = registry[Remote(e)]

\* An entity that is handed to a new server arrives with its attributes when the
\* sender knows its component. The entities are sent before the definitions.
EntitiesWhole ==
    \A s \in Servers, c \in Components : entities[s][c] # "bare"

\* A server whose connection is gone does not stay among the RemoteServers.
GoneServersForgotten ==
    \A e \in Ends : up[e] = "down" /\ AtRest(e) => e \notin registered

\* The definitions that come to the registry of s by the plugins of s, and not from
\* another server.
Own(s) == Defined[s] \cup (Registering[s] \ UNION {Defined[t] \cup Registering[t] : t \in Servers \ {s}})

\* c is registered at the other side of e, or on its way there.
Delivered(e, c) ==
    \/ c \in registry[Remote(e)] \cup relayed[Remote(e)] \cup raising[Local(e)]
    \/ BagIn(Definition(c), inbox[Other(e)])
    \/ \E p \in Parts : delegate[e][p] = "added"

\* A definition that a server made itself is never lost to a server it has added, unless one
\* side of the link knows it to be closed (a server whose connection is gone may stay among
\* the RemoteServers): the handlers of Register and of AddedServer do not exclude each other,
\* and yet one of the two always sends it (ComponentSync.cs:54-87).
DefinitionsUnderWay ==
    \A e \in registered : up[e] # "down" /\ up[Other(e)] # "down" =>
        \A c \in Own(Local(e)) \cap registry[Local(e)] : Delivered(e, c)

\* Again and again, each server that has been added has all the definitions of
\* the one that added it, as long as the link holds: a registration either finds
\* the server in RemoteServers, or is found by the handler of AddedServer.
DefinitionsArrive ==
    []<>(\A e \in registered :
            Holds(e.link) => registry[Local(e)] \subseteq registry[Remote(e)])

(***************************************************************************)
(* What every step keeps, and the proofs rest on.                          *)
(***************************************************************************)

\* A bag holds at most one message of the type about the part.
Once(B, type, part) ==
    \A m, n \in BagToSet(B) :
        m.type = type /\ n.type = type /\ m.part = part /\ n.part = part => m = n /\ B[m] = 1

\* An end asks for each part once: either the question is on its way, or the answer is,
\* and then there is no answer yet and no delegate that works on one.
AskedOnce(e, p) ==
    /\ Once(inbox[Other(e)], "get", p) /\ Once(inbox[e], "answer", p)
    /\ ~(Has(inbox[Other(e)], "get", p) /\ Has(inbox[e], "answer", p))
    /\ Has(inbox[Other(e)], "get", p) \/ Has(inbox[e], "answer", p) =>
           answers[e][p] = Unknown /\ up[e] # "new"
    /\ IF answers[e][p] = Unknown THEN delegate[e][p] = "idle" ELSE up[e] # "new"

\* At most one delegate has added the server, and AddedServer has been raised unless that
\* one is still to do it.
OneDelegate(e) ==
    LET raised == \A p \in Parts : delegate[e][p] # "added" IN
    /\ \A p \in Parts : delegate[e][p] \in {"added", "announced"} => e \in registered
    /\ \A p, q \in Parts : {delegate[e][p], delegate[e][q]} \subseteq {"added", "announced"} => p = q
    /\ added[e] = IF e \in registered /\ raised THEN 1 ELSE 0
    /\ e \in subscribed => e \in registered /\ raised

Announcing(e) ==
    /\ removed[e] = 0 \/ (removed[e] = 1 /\ added[e] > 0 /\ up[e] = "down")
    /\ up[e] # "down" => OneDelegate(e)
    /\ e \in registered => AllAnswered(e)

\* All that is said of d in the messages of type in B is that its state is v.
Tell(B, type, d, v) == \A m \in BagToSet(B) : m.type = type /\ m.part = d => m.value = v

\* Unless the last change of a domain raced with the handshake or with another one, what an
\* end knows of the domain, or is going to be told of it, is the state that it has.
Follows(e, d) ==
    LET s == Remote(e)
        now == domains[s][d]
    IN  up[e] # "down" /\ up[Other(e)] # "down" /\ <<e, d>> \notin raced =>
            /\ Tell(inbox[e], "update", d, now) /\ Tell(telling[s], "update", d, now)
            /\ Tell(inbox[e], "answer", d, now)
            /\ e \notin registered => answers[e][d] \in {Unknown, now}
            /\ e \in registered =>
                   view[e][d] = now \/ (Other(e) \in registered /\ UnderWay(e, d))

\* Nobody has heard of a definition before the server that makes it has registered it.
Unheard(c) ==
    /\ \A s \in Servers : c \notin registry[s] \cup relayed[s] \cup raising[s]
    /\ \A e \in Ends : ~BagIn(Definition(c), inbox[e])

DefinitionsInductive ==
    /\ \A s \in Servers : Defined[s] \subseteq registry[s]
    /\ \A s \in Servers : \A c \in Own(s) \ registry[s] : Unheard(c)
    /\ DefinitionsUnderWay

Inductive ==
    /\ TypeOK
    /\ \A e \in Ends : Announcing(e)
    /\ \A e \in Ends, p \in Parts : AskedOnce(e, p)
    /\ \A e \in Ends, d \in Domains : Follows(e, d)
=============================================================================
