# Verification of FiVES

FiVES is a server for shared virtual environments, written in C#, with a browser client in
JavaScript. A server keeps a *World* of entities; an entity has components with attributes.
Nearly everything else is a plugin: one sends the World to browser clients, another keeps
the Worlds of several servers alike, others move, animate or edit entities.

This directory holds TLA+ models of the parts of FiVES in which several threads, servers or
nested calls meet, the TLC configurations that check them, and proofs for TLAPS. All names
of actions, variables and operators are those of the code wherever TLA+ allows it, and
`PROJECT.json` ("map") gives the lines of code every definition stands for.

## 1. The system

| Component | State | Operations | Interacts with |
|---|---|---|---|
| **Domain model** `Core/DomainModel` | `World` (dictionary of entities), components of an entity (created on first access), attribute values, `ComponentRegistry` | `Add`, `Remove`, `FindEntity`, `Suggest`, `Set`, `Register` | raises `AddedEntity`, `RemovedEntity`, `ChangedAttribute`, `ProposedAttributeChange`, `RegisteredComponent` on the calling thread |
| **Plugin manager** `Core/PluginManager` | attempted files, loaded and deferred plugins with their missing dependencies | `LoadPlugin`, `AddPluginLoadedHandler`, `ShutdownAllPlugins` | calls `Initialize` and `Shutdown`, listens to the component registry |
| **World synchronisation** `Plugins/ServerSync/SyncOperations/WorldSync.cs` | sync info (time stamp, SyncID, value) per attribute, three "ignore once" sets | handlers of local events and of the remote calls `addEntity`, `removeEntity`, `changeAttributes` | neighbours in the sync graph, World |
| **Server connections** `ServerSyncImpl.cs`, `Servers` | dictionary of remote servers, attempted connections | three-call handshake, add, remove | WorldSync, DomainSync, ComponentSync |
| **Domain and component synchronisation** | domains of interest and responsibility of each server; component definitions seen | updates of domains, registrations | neighbours, component registry |
| **Client update queue** `Plugins/ClientManager` | global queue, one queue and one thread per client | queue a change, flush, clear, register, stop | attribute events, client callbacks |
| **Client sessions** `ClientManager.cs` | authenticated clients, handlers per client | authenticate, disconnect, tell clients of added and removed entities | World, update queue |
| **Service bus** `ServiceBus` | chains of services per topic | run a chain for a proposed change, apply the result | `Suggest`, thread pool |
| **Event loop, Motion, KeyframeAnimation** | one ticking thread; moving entities; running and finished animations | tick, start, stop | World, service bus |
| **Avatar, Auth** | avatar entity per login, login per connection | log in, create, remove | client sessions |
| **Terminal, RESTService, SIXPrimeLD, Scripting, Diagnosis, Testing, SINFONI** | command line and history; HTTP handlers; scripts | parse, format, forward | World |
| **Scene plugins** (Location, Light, Renderable, Editing ...) | none of their own | register a component, suggest values | World |
| **Web client: remote calls** `lib/websocket-json.js`, part of `lib/kiara.js` | sockets, calls that wait for an answer, calls that wait for a connection, functions offered to the server | call, answer, connect, reconnect, give up | scripts of the client, the server |
| **Web client: sign-in** `communication`, `plugins/clientsync` | how far the sign-in is | authenticate, connect, register functions, list objects | client sessions |
| **Web client: entities and scene** `models`, `resources`, `util`, `plugins/renderable`, `light`, `location` | registry, entities with updates that wait, pending mesh requests, elements of the scene | add, update, flush, load, remove | the server's messages, timers, ajax |
| **Web client: input, avatars, animation** | timers, dialogs | keys, camera, playing keyframes | scene, client services |

### What is hard in it, and what makes it correct

* *World synchronisation.* Every server may change every attribute at any time, and nobody
  coordinates. Messages cross on the way, travel through servers that lack a component, and
  the events raised by a remote change must not be announced again. Correct: when all
  messages are handled the servers have the same entities, newest stamps and values; a
  stamp identifies a value; a local change is always announced.
* *Server connections.* Three answers complete a handshake in any order; connections close
  meanwhile; a reconnecting server meets a World that has moved on. Correct: one entry per
  open connection, none for a closed one, nothing resurrected.
* *Client update queue.* Writers, an update thread and a thread per client share queues
  under three kinds of locks, and clients fail, come and go. Correct: each client gets every
  flushed update once and in order; no change is lost; nobody is held up for ever.
* *Plugin manager.* `Initialize` of one plugin triggers that of others inside it. Correct: once
  each, after all dependencies, none forgotten; shutdown in the reverse order.
* *Domain model.* Lazy creation and check-then-act without locks; the order of stores and of
  events differs between threads. Correct: one component per name, events in store order.
* *Service bus, Motion, Animation.* Asynchronous chains share an accumulator and overtake each
  other; ticks read, modify and write what clients write too; an entity may be gone. Correct:
  the last suggestion wins, restarted animations keep running, the tick thread survives.
* *Client sessions, Avatars.* Dictionaries enumerated without locks; look-up and creation in
  two steps; news is pushed while the client still signs in. Correct: each client ends with the
  entities of the World and their values, one avatar per login.
* *Web client: remote calls.* Connections close and break, calls are made meanwhile, old sockets
  keep their handlers, listeners throw. Correct: each call is sent once and in order, its answer
  reaches it and no other, it is answered or reported as failed.
* *Web client: entities and scene.* Meshes arrive at any time, before or after removals; one
  exception ends a loop over many things. Correct: the scene shows the registry, the last value
  of an attribute wins, nothing waits for ever.

`PROJECT.json` ("hazards") lists the single places, with the property that watches each or the
reason why none does so far.

## 2. Modules

| Module | What it is |
|---|---|
| `AttributeSyncInfo` | the stamps, and the rule by which one wins (pure operators) |
| `WorldSync` | any number of servers in any sync graph; one action per handler |
| `LastWriterWins` | abstract specification: last-writer-wins registers |
| `MCWorldSync` | the instances of `WorldSync` that TLC checks |
| `WorldSyncConvergence` | why the servers agree: the invariants of values and of messages on their way |
| `WorldSyncProofs` | theorems about `WorldSync` |
| `ClientUpdateQueue` | the threads, locks and queues between attribute events and clients |
| `UpdateStream` | abstract specification: clients following one feed |
| `ClientUpdateQueueProofs` | theorems about `ClientUpdateQueue` |
| `PluginManager` | nested loading and the shutdown of plugins |
| `MCPluginManager` | the instance of `PluginManager` that TLC checks |
| `PluginManagerProofs` | theorems about `PluginManager` |
| `ServerConnections` | the handshake of servers, with domain and component synchronisation |
| `MCServerConnections` | the instances of `ServerConnections` that TLC checks |
| `ServerConnectionsProofs` | theorems about `ServerConnections` |
| `ClientSessions` | the session of one client, on the server and in the browser |
| `ClientSessionsProofs` | theorems about `ClientSessions` |
| `KeyframeAnimations` | the event loop and the animations it advances |
| `MCKeyframeAnimations` | the instances of `KeyframeAnimations` that TLC checks |
| `KeyframeAnimationsProofs` | theorems about `KeyframeAnimations` |
| `FivesJson` | remote calls of the web client over sockets that come and go |
| `RemoteCalls` | abstract specification: what a script is told of its calls |
| `FivesJsonProofs` | theorems about `FivesJson` |
| `ClientView` | registry, entities and scene of the web client |
| `MCClientView` | the instance of `ClientView` that TLC checks |
| `ClientViewProofs` | theorems about `ClientView` |

A module also holds the *mutants* of its definitions (each marked as such): what a plausible
slip in the code would make of a definition. `PROJECT.json` ("mutants") says which property
fails when the definition is replaced by its mutant.

### 2.1 World synchronisation

`WorldSync` has for each server its `world` and the `value` of every attribute, the dictionary
`syncInfo` as `known` (its keys) and `info` (its entries), the set `ignored`, the `clock`, and a
channel to every other server. `created`, `removed` and `written` are history variables.

| Action | Code |
|---|---|
| `LocalAdd`, `LocalRemove` | `World.Add`, `World.Remove` with `HandleLocalAddedEntity`, `HandleLocalRemovedEntity` |
| `LocalChangeIgnored`, `LocalChangeAnnounced` | an attribute gets another value, and the two outcomes of `HandleLocalChangedAttribute` |
| `Deliver` with `HandleRemoteAddedEntity`, `HandleRemoteRemovedEntity`, `HandleRemoteChangedAttributes` | the remote calls, forwarding included |
| `HandlerThrows` | the same calls when `FindEntity` throws in their first lines |

Abstractions: a pair of component and attribute name is one attribute; the sets
`ignoredEntityAdditions` and `ignoredEntityRemovals` are always empty between two handlers,
since `World.Add` and `World.Remove` raise their events at once, and are left out; clocks are
integers up to `MaxTime`; a local change is made to an entity of the World (a plugin that still holds
a removed one reaches the warning of `WorldSync.cs:286`, which sends nothing and at most uses up an
entry of the ignore set); a handler is one step. The last is an abstraction where local threads
change one attribute at the same time: the handlers take the lock of `syncInfo` for parts of
their work only, and a finer model is planned. Channels lose nothing and keep their order, as
`EntitySyncInfo.cs` demands ("we use reliable in-order WebSocket protocol and allow no loops in
the sync graph"), and handlers begin in that order; `ServerConnections` does without the order.
Interest of servers in a part of the attributes is part of the model and of the proofs; of the
configurations only `MCWorldSync_partial.cfg` has an instance of it.

Two Boolean constants say what is assumed about clocks. `ClockPrecise`: a server never reads one
tick twice. `ClockSynced`: when a server overwrites a stamp of another server its clock is past
that stamp. The code assumes both without saying so; `MCWorldSync_tick.cfg` shows what happens
without the first.

### 2.2 Client update queue

`pending[t]` is the change a thread has made whose event it has still to handle; `updateQueue` is
the global queue; `updater` and `todo` say how far the update thread is; `thread[c]` and
`queue[c]` belong to the queue of client `c`. An action is what a thread does while it holds a
lock, and locks that are held over several actions (`QueueLocked`, `RegistryLocked`,
`ClientLocked`) are guards of the others. Updates are numbered in the order they are queued;
`feed`, `sent` and `start` record what was flushed, what each client was called with, and where
in the feed it registered.

### 2.3 Plugin manager

Everything runs on one thread. `stack` holds the open calls: `Initialize` of a plugin (called by
`LoadPlugin` or for a deferred plugin), `LoadDeferredPluginsWithNoDeps` with the plugins it has
still to come to, and the raising of `OnAnyPluginInitialized` with the handlers still to be
called. An action is the next thing the innermost call does, so that every order of
registrations, added handlers, returns and exceptions within `Initialize` is explored, and every
order of files. `HandleInitializedPlugin` is the first handler of the event (the constructor
subscribes it), which is why `InitializeReturns` runs it before any `Notify`.

### 2.4 Server connections

A *link* joins a server that dials to one that listens, and has a `Connection` object at each
*end*. `up`, `inbox` are the connection: SINFONI starts a thread for each message, the handlers take
no common lock, and so the inbox is a *bag* from which any message may be handled next; what is sent
over a link that either side knows to be closed is lost, also when the sender has the other side
still among its remote servers. `answers` are the captured variables `dor`, `doi` and
`syncID` of `HandleNewServerConnected`, and `delegate` is what the delegate of each answer does
next; `registered`, `view` and `subscribed` are `remoteServers`, the `RemoteServerImpl` and the
handler of `Closed`; `domains`, `registry` and `entities` belong to the servers. `raising` and
`relayed` hold definitions that are between two steps of a handler, and `changing` and `telling`
changed domains: those whose handler has not yet read the domain, and those that were serialised and
are still to be sent. `raced` is a history variable for `DomainsFollow`.

| Action | Code |
|---|---|
| `HandleNewServerConnected`, `AnswerRequest` | the three requests, and `GetDoR`, `GetDoI`, `getSyncID` on the other side |
| `StoreAnswer`, `AddRemoteServer`, `AnnounceServer`, `SubscribeToClosed` | a delegate, in four steps: its answer is stored, the three are looked at and the server is added, `AddedServer` is raised, `Closed` is subscribed to |
| `ConnectionClosed` | the end notices that the link is gone |
| `ChangeDomain`, `SerializeDomain`, `UpdateRemoteServers` | the setters of `LocalServerImpl`; `HandleLocalDoIChanged` and its sibling in two steps: the domain is serialised as it is by then, and sent to the servers that are registered by then |
| `HandleRemoteDomainChanged` | an update is taken, in any order, and becomes the domain of the `RemoteServerImpl`, or the handler throws |
| `RegisterComponent`, `HandleLocalRegisteredComponent`, `RelayDefinition`, `RegisterRemoteDefinition` | `ComponentRegistry` with `ComponentSync` |
| `HandleRemoteAddedEntity` | the entities a new server is sent, as far as their components are concerned |

Abstractions: a domain is the number of its changes, and the empty one has no entity of interest; a
definition is its name; of an entity it matters only whether its component was known when it
arrived. The order of the messages of one announcement is lost in the bag: that entities are sent
before the definitions matters for `EntitiesWhole` only, which is broken in any case.

### 2.5 Client sessions

`world` with `adding`, `removing` and `queued` is the server's World and the events that are on
their way to the client manager; `handlers` are the four registrations of a connection, and `work`
is the request being served; `phase` and `known` are the client, `inbox` is the connection. The
order of the client's steps is that of its callbacks: `Auth`, `Login`, `Connect`,
`ConnectionEstablished`, `ListObjectsCallback`. `ReceiveAuthenticatedClient` makes its four
registrations one by one, while entities come, change and go. `ListObjects` has a beginning and an
end: values are read in between, and the enumeration throws when entities came or went.

### 2.6 Keyframe animations

`running` and `finished` are the two dictionaries of `KeyframeAnimationManager`, keyed by entity and
name; `loop` is the thread of the event loop. `Tick` is the locked loop of `HandleEventTick`;
`stopping` is what the `foreach` over `FinishedAnimations` has still to come to, `Finalize` each call of
`StopAnimation` in it, and `EndTick` the `Clear` after it: a client may start an animation of that
name in between. `TickThrows` is a tick that meets an entity that has been removed; the exception
ends the thread, which nobody starts again. `Advance` translates the arithmetic of
`KeyframeAnimation.Tick`, over whole frames and for any speed. TLC gets speeds of 2, 1 and 0 (a
negative one has no lowest frame, so that only the proofs reach it).

### 2.7 Remote calls of the web client

`sockets`, `attempts`, `nextCallID`, `activeCalls`, `cachedCalls` and `funcs` are the fields of
`JSONWebSocket` (`__ws` is the newest socket); `status` is the state of every `CallResponse`;
`requests` is what the server still owes. One action per event of a socket and per call of a
script. `HandleDisconnect` runs twice when a socket breaks, since both `onerror` and `onclose` are
bound to it, and then two new sockets take the place of one; the model keeps all of them, with
their handlers. `sent` and `served` are history variables. `RemoteCalls` says what a script may
rely on: a call is made once, is answered once at most, and not after it has been reported as
failed. (Only a call whose listener threw can be reported as failed after its answer.)

Two limits: a socket of the browser may be *closing*, and calls made then are cached although its close
event is still to come, while in the model a call is made before a socket closes or after its event. And
a result whose listener threw stays in `_result`, so that `_listenerAdded` emits it again when another
listener is added; in the model scripts add their listeners when they make the call, and none later.

### 2.8 Entities and scene of the web client

`entities` holds every `Entity` object that was created, and `registry` the one that each guid leads
to; `pending` and `document` are `_pendingRequests` and `_cachedDocuments` of the loader; `dom` counts
the elements of the scene. `task` is the loop that the browser is in: `AddEntityFromServer`,
`UpdateAttribute`, `HandlePending` are single turns of it, and an exception ends it. `FlushUpdates`
is the timer of an entity. The order in which the handlers of one event run is that of the modules in
`client.xhtml` and `app.js`.

## 3. Runs

Runs that pass:

| Run | Instance | Shows |
|---|---|---|
| `sync_line` | 3 servers in a line, the middle one without the component, 1 entity, 1 attribute, 2 written values of which one is the default, ticks 0..2, fair delivery | all servers end with the same entities and the newest stamps, the stamps implement `LastWriterWins`, writes and removals reach every server, through one that cannot store them |
| `sync_values` | a line of 3, all with the component, with 2 written values, neither the default | whatever one server has and another lacks is on its way (`ServersConverge`), the values agree in the end; every change of a value comes with a change of its stamp |
| `queue` | 2 clients of which one may fail, 1 writing thread, 3 changes, fair threads | clients get every flushed update once and in order, and follow one `UpdateStream`; updates arrive, writers get out of the event handler, threads of clients that left end |
| `plugins` | 7 files: nested registration, a diamond, a ring of two, a missing dependency; three plugins may throw at any point, two register one component | dependencies first, once each, none forgotten as long as none fails, handlers for other plugins run once, orderly shutdown; loading returns |
| `connections` | 2 servers, 1 link that may break, 1 component registered later | `AddedServer` once per server, `RemovedServer` at most once and after it; a definition that an added server lacks is on its way (`DefinitionsUnderWay`), and definitions arrive |
| `connections_domains` | 2 servers, 1 link that may break, 2 changes of the domain of one of them | the other ends with the last state of the domain, unless the last change raced with the handshake or with the first change |
| `sessions` | 1 client, 2 entities of which one comes later, 1 change each | the client ends with the World, is never refused, and gets to the end of the sign-in |
| `animations` | 2 entities, 2 names, a finite, an endless and a standing animation, ticks of 1 and 3 frames, 3 starts | no frame is lost at the end of a cycle, only what has been played is stopped, finite animations that run forward end |
| `protocol` | 3 calls, one of them one-way and one with a listener that throws, 3 reconnections | calls are sent once and in order, answers reach their calls, `RemoteCalls` is implemented, the cache drains |
| `view` | 3 entities of which two share a mesh (one is a light) and one has none, 2 updates, batches of 2 | the scene follows the registry, every mesh is shown or waited for (`MeshesShown`), the last value of an attribute is kept when handlers throw, entities catch up |

Runs that end in a violation, each a disagreement between the code and what a comment in it says:

| Run | Property | What happens |
|---|---|---|
| `queue_lost` | `NoUpdateLost` | a change queued between `FlushQueueToClients` and `ClearQueue` is cleared without having been sent |
| `connections_relay` | `DefinitionsAgree` | a server that is added between the relaying of a definition and its registration never gets it |

### Known deviations

These configurations are not among the runs. TLC finds each property violated, and the
counterexample shows a case in which the code does less than one might expect. The properties of
the passing runs name these cases as exceptions, and hold otherwise.

| Configuration | Property | What happens |
|---|---|---|
| `MCWorldSync_swallow` | `EveryChangeIsStamped` | a remote value equal to the default raises no event; its entry stays in the ignore set and swallows the next local change to that value |
| `MCWorldSync_tick` | `ValuesAgree` | two local writes in one tick of the clock: the others keep the first, the writer the second |
| `MCClientUpdateQueue_removed` | `RemovedEntityUnqueued` | a string is compared with a `Guid`: no update of a removed entity leaves the queue, against `ClientUpdateQueue.cs:212` |
| `MCPluginManager_forgotten` | `NoPluginForgotten` | when one deferred plugin throws, those selected with it are dropped |
| `MCServerConnections_handshake` | `DomainsAgree` | an update of a domain that overtakes the handshake is refused, one before the other side is registered is not sent |
| `MCServerConnections_reversed` | `DomainsAgree` | two updates of one domain are handled, or sent, in reverse order: the other server keeps the older one |
| `MCServerConnections_whole` | `EntitiesWhole` | entities are sent to a new server before the definitions of their components |
| `MCServerConnections_closed` | `GoneServersForgotten` | a connection that closes before `Closed` is subscribed to stays among the remote servers |
| `ClientSessions_lost` | `NoUpdateLost` | an update of an entity that the client does not know takes those behind it with it |
| `MCKeyframeAnimations_range` | `FramesInRange` | an animation that does not start at frame 0 goes on at a frame before its first one |
| `MCKeyframeAnimations_speed` | `EndAtAnySpeed` | a finite animation of speed 0 (or less) never ends |
| `MCKeyframeAnimations_dead` | `LoopSurvives` | the tick after the removal of an animated entity throws, and ends the thread of the event loop |
| `FivesJson_forgotten` | `NoCallForgotten` | a broken connection makes two sockets; cached calls are lost when the older one opens first |
| `MCClientView_pending` | `AllPendingHandled` | the loop over the entities that wait for a mesh ends at one that has been removed |

`MCWorldSync_partial` is not a deviation but a larger instance: with two attributes, of which the
server in the middle lacks one and an end server does not want to hear of the other, and the default
value written as well, `LastWriteWins` holds.

### Bounds, and why they are enough

* *Servers.* Three in a line is the smallest sync graph in which a server forwards and in which
  changes made at both ends cross in the middle. One entity suffices because no handler relates
  two entities; two attributes are used where a message can lose a part (`MCWorldSync_partial.cfg`).
* *Clocks.* Ticks 0..2 allow two stamps per server, hence every combination of older, equal and
  newer, with ties between servers.
* *Values.* Two, of which one is the default, because the code behaves differently when a value
  equals the one the attribute has; three where two different written values must be told apart
  from the default.
* *Clients.* Two: one that fails and one that must not suffer from it. Three changes let one be
  in the global queue, one in a client's queue and one sent at the same time.
* *Plugins.* The instance has a component registered in the middle of an `Initialize` that makes
  two plugins ready together, a plugin that depends on two plugins and a component, a ring and a
  missing plugin; `MCPluginManager` gives the details.
* *Connections.* A handshake concerns two servers; only relaying needs a third. One domain is
  enough, because the two are handled alike and apart. Both ends take their answers in any order, and
  the delegates' steps in any interleaving. Two changes of a domain are under way at the same time, so
  that one can overtake the other when it is serialised, sent or handled.
* *Sessions.* Two entities, one in the World from the start and one that comes: the sign-in crosses
  an addition, a removal and a change of either.
* *Animations.* Ticks of 1 and 3 frames at speeds of 1 and 2 against ranges of 2 and 3: a tick is
  shorter than a cycle, ends one exactly, and spans more than one. A speed of 0 is there because the
  code takes any.
* *Calls.* Three calls: one in the cache, one under way and one answered at the same time. Three
  reconnections let two sockets be there after one broke, and one of them break again.
* *Entities of the client.* Two that wait for one mesh, so that the loop over them has something to
  lose; the third has no mesh, on which `Renderable` throws.

Every module has a type invariant `TypeOK`, and below it, under "What every step keeps", the parts of
the invariant `Inductive` on which its proofs rest. Both were checked in the configurations of the module
before they were proved, and are listed in none: as theorems they hold for all values of the constants.
The same goes for `LoadingAdvances`, `NewestDrains` and `PendingHandledUnlessRemoved`.

`CHECK_DEADLOCK FALSE` in every configuration: the bounds (ticks, changes, starts, calls, updates) let
the models come to rest, the application ends after the shutdown of the plugins, and a client may
be gone.

### Fairness

* `WorldSync!FairSpec`: weak fairness of `Deliver` on each connection; connections are reliable and
  SINFONI dispatches every call that has arrived. Local code owes nothing.
* `ClientUpdateQueue!Fairness`: the update thread and the client threads run (weak fairness), and
  a client that is called answers or fails. Strong fairness for the two operations that compete for
  a lock again and again, `AddUpdates` with the thread of the client and `AddEntityUpdateToQueue`
  with the update thread: the competing thread sleeps 15 or 10 ms without the lock in every
  turn, so that the lock is free for nearly all of the time. A client that never answers is
  excluded by this assumption; it would stop the update thread and, with it, all writers, since
  the lock of its queue is held during the call.
* `ServerConnections!Fairness`: SINFONI hands messages to their handlers while the link holds, in
  some order (of the messages of an end one is always handled next, not each one), and threads that
  run a delegate or a handler go on. No server has to dial, change or register anything.
* `ClientSessions!Spec`: the server serves requests and the browser runs its tasks, the user who
  signs in included. The World owes nothing; the connection may close at any time.
* `KeyframeAnimations!Spec`: the event loop is a `while (true)` with a sleep.
* `FivesJson!Fairness`: a socket that is connecting opens or breaks, since the browser gives up after
  a while. The server need not answer, and an open socket may stay open for ever.
* `ClientView!Fairness`: a task of the browser runs to its end, an ajax request succeeds or fails,
  and timers go off.
* `PluginManager!FairSpec`: a call that was made goes on, that is, every `Initialize` and `Shutdown`
  returns or throws.

## 4. Proofs

Every module has its theorems: each type invariant, each safety invariant and action property that
the runs check, and the three refinements are proved, for all values of the constants that satisfy the
`ASSUME`s named below (TLC evaluates them on its instances). In every module `InductiveInvariant` is
`Spec => []Inductive`, where `Inductive` contains `TypeOK` and the parts explained here, and `TypeCorrect`
follows from it (in `WorldSyncProofs` it is proved on its own). Specifications with fairness imply `Spec`.
The proofs have one shape: first lemmas about operators (what `Merged`, `Send`, `SendAll`, a tail or an
append do), then a lemma for each action, or for each action and part of the invariant, then the
step, and the theorems at the end.

### 4.1 World synchronisation

`WorldSyncProofs` assumes `StampAssumption` and `WorldSyncAssumption`: SyncIDs are numbered in their
order, `MaxTime` is a natural number, `NoStamp` is no stamp, the constants have their types. What else a
theorem needs is one of its hypotheses.

| Theorem | Hypotheses | Statement |
|---|---|---|
| `SyncInfoCovers` | | `Spec => []SyncInfoCoversWorld` |
| `StampsIdentify` | `ClockPrecise` | `Spec => []StampIdentifiesValue` |
| `RegistersImplemented` | `ClockPrecise`, `ClockSynced` | `Spec => Registers`: world synchronisation implements `LastWriterWins` |
| `ValuesFollowInfos` | `Default \notin Writable` | `Spec => []ValuesFollow` |
| `ChangesAreStamped` | `Default \notin Writable` | `Spec => EveryChangeIsStamped` |
| `WhatServersLackIsOnItsWay` | a tree | `Spec => []Converges(D)` |
| `ServersConvergeInTrees` | `TreeDistance(Distance)` | `Spec => []ServersConverge` |
| `EntitiesAgreeInTrees` | a tree | `Spec => []EntitiesAgree` |
| `LastWriteWinsInTrees` | a tree, `ClockPrecise`, `ClockSynced` | `Spec => []LastWriteWins` |
| `ValuesAgreeInTrees` | the same and `Default \notin Writable` | `Spec => []ValuesAgree` |

*The inductive invariant.* `StampIdentifiesValue` alone is not inductive: a new stamp differs from
all others only if those with the same SyncID are behind the clock of that server. So `Inductive`
says in addition that no stamp is ahead of the clock of the server it names
(`StampsBehindClock`), and that the stamps in sync infos and in messages are among those that have
been issued for the same attribute (`StampsIssued`, `MessagesIssued`). `KnownCreated` and the
entities of `MessagesIssued` keep an entity from being announced before it was created: `LocalAdd`
would otherwise overwrite stamps. `SyncInfoCoversWorld` is needed because the handlers test the
World in one place and the dictionary in another. None of this depends on the sync graph: it holds with
loops as well.

*The refinement.* Under the mapping `issued <- written, held <- info`, `LocalAdd` and
`LocalChangeAnnounced` are `Issue` (here `ClockSynced` is needed: the new stamp must win over the
one it replaces), `HandleRemoteAddedEntity` and `HandleRemoteChangedAttributes` are `Learn`, the
removals are `Forget`, and the other actions stutter.

*Values.* `ValuesFollow` says that a registered attribute has the value of its stamp, and that the
ignore set holds nothing but entries of the default value. The second part is what makes the first
inductive: an entry for another value would be met by a later local change, which would then go
without a stamp. Entries of the default value do remain, so the hypothesis that nobody writes that value
cannot be dropped: `MCWorldSync_swallow.cfg` shows what happens without it.

*Convergence.* `EntitiesAgree`, `LastWriteWins` and `ValuesAgree` speak of states in which no message is
on its way, and say nothing about how one gets there. `Converges(D)` (module
`WorldSyncConvergence`) does: for every shared entity there are a server `o` that added it and a set
`H` of servers that have heard of it, and

* `SpreadFrom`: `H` contains with every server the neighbour that is nearer to `o`, and the entity counts as
  removed when a server of `H` has it no more;
* `EntityOnLink`, for each direction of each link: a server that has not heard of the entity says nothing
  of it; if its neighbour has, the first message about it adds it; a server that has it no more has told its
  neighbour, or the neighbour has it no more either;
* `StampOnLink`: a server is never behind the stamps it sends (`Behind`), and the stamp it holds its
  neighbour holds, has dropped with the entity, or is sent (`Brings`), newer ones counting as well;
* `IssuerCovers`: the server that issued a stamp is not behind it.

When nothing is on its way, `AddsFirst` fails and `H` is closed under neighbours; the removals and stamps of
linked servers agree, and so do those of all: of the servers that differ from `o` one nearest to `o` would
have a neighbour that is nearer and does not (the well-foundedness of the naturals, used once).

*Why a tree.* `EntitySyncInfo.cs:30` says that the sync graph has no loops. The theorems take this as the
hypothesis `TreeDistance(D)`: `D[o]` ranks the servers such that every server but `o` has one neighbour nearer
to `o` and all its others are farther away. Trees have such a `D`, the number of links, and TLC
evaluates it for the line of the runs (`MCLineIsTree`). `ServersConverge` is `Converges` for the distances that
a run is given by the constant `Distance`; nothing else depends on that constant. On a cycle the invariant is false: an `addEntity` that
comes round late finds a server that has removed the entity already, and adds it again.

### 4.2 Client update queue

`ClientUpdateQueueProofs` assumes `QueueAssumption`.

| Theorem | Statement |
|---|---|
| `ClientsGetAll` | `Spec => []ClientsComplete` |
| `StreamImplemented` | `Spec => FollowStream`: the queue implements `UpdateStream` |

`FollowsFeed` says where in the feed a client is: what it has been sent is the part from its `start` on, and what
is in its queue is the part that follows; this goes on when the client has left, since its thread may send the rest.
`UpToDate` says that a registered client lacks nothing but the snapshot it has still to get, and
`SnapshotFlushed` that the snapshot is the end of the feed: both together carry the clients through the
loop over them. `InOrder` keeps the feed increasing; for this what waits in the queue must be newer than all of
the feed, which holds whenever nothing is being flushed. `WithinBound` and `Untouched` relate the history
variables to the bounds and to clients that never came. The lost updates of `queue_lost` are no
exception here: they are in the log and never in the feed.

### 4.3 Plugin manager

`PluginManagerProofs` assumes `PluginAssumption` (types only: dependencies may have cycles or be missing).

| Theorem | Statement |
|---|---|
| `LoadsInOrder` | `Spec => []DependenciesFirst` |
| `InitializesOnce` | `Spec => []InitializedOnce` |
| `NoneLeftReady` | `Spec => []NothingReadyDeferred` |
| `NoneForgotten` | `Spec => []NoneForgottenWithoutFailure` |
| `StopsInOrder` | `Spec => []ShutdownInOrder` |
| `HandlersAreCalled` | `Spec => []HandlersRunOnce` |
| `LoadingComesToAnEnd` | `Spec => LoadingAdvances` |

The invariant is about the stack of nested calls. A call *claims* the plugins it works on or has selected:
`ClaimsDiffer` says that no two calls claim one, `FrameFits` that what is claimed is not deferred, has all it
needs, and is loaded only in the call that notifies the other handlers. Being initialized once follows, as does
the order, since what a plugin needs never goes away. `DeferredWait` says that the lists of a deferred
plugin hold exactly what is missing: what nested calls take off them is what the outer call finds.
`Accounted` (some call claims each plugin that is neither loaded nor deferred) holds as long as nothing has
failed; `CalledFrom` is needed because the return of `Initialize` changes the frame below it.
`HandlersFit` says that a handler whose plugin is loaded is about to be called.

*Why `LoadPlugin` returns.* `LoadingAdvances` is an argument about every single step of the nested calls: `Done`
collects what is done once and never undone (components registered, plugins begun and ended, handlers
subscribed and called), and a step inside of `LoadPlugin` adds to it or closes a call. What is delicate is that a step
that claims to do something new does: a plugin that begins must not have begun, for which `FailedFits` (a plugin
that failed is neither loaded nor deferred nor claimed by a call) was added to the invariant, and a handler that is
called must not have been. Plugins, components and handlers are finitely many, so with the fairness of
`FairSpec` this is why `LoadingReturns` holds; the step from one to the other is the part that TLC checks.

### 4.4 Server connections

`ServerConnectionsProofs` assumes `LinksAssumption`, `DefinitionsAssumption` (servers that are linked at
the start know the same definitions, of which there are finitely many), `UnknownAssumption` and
`DomainsAssumption`.

| Theorem | Statement |
|---|---|
| `ServersAnnouncedOnce` | `Spec => []AnnouncedOnce` |
| `DomainsAreFollowed` | `Spec => []DomainsFollow` |
| `DefinitionsAreUnderWay` | `Spec => []DefinitionsUnderWay` |
| `OwnDefinitionsArrived` | when nothing is under way, a server has the own definitions of those that added it, if the link holds |

The three delegates of a handshake share the captured variables, and each of them may find all answers there.
`AskedOnce` follows one part through the handshake: the question is on its way, or the answer, or a delegate has it.
`OneDelegate` says that of the delegates one at most has added the server, and that `AddedServer` has been raised
once unless this one has still to do it. Inboxes are bags, so every action is described by what it
takes from an inbox and what it adds (`Moved`), and a part of the invariant is kept by what is, or is
not, among these; that a question or an answer is there only once (`Once`) is part of `AskedOnce`.

`Follows` is about one domain at one end. A change *races* if the link is in the middle of its handshake,
or if an earlier change of this domain has still to be read, sent or handled. After one that does not,
everything that is said of the domain says the same: `Tell` for the updates that are sent, those that
have been, and the answers. What the end knows is that, or the change is still on its way to it, from
`changing` through `telling` and the inbox (`UnderWay`). The handler of an update finds the end
registered, because a change that does not race was made after the handshake, or before it began, when
the questions had not been answered. After a change that races nothing is claimed, and
`MCServerConnections_handshake` and `_reversed` show that nothing can be.

`DefinitionsUnderWay` says of a definition that a server made itself, and of a server it has added over a
link that neither side knows to be closed, that it is
registered there, is being relayed there, is in a message, or is still to be sent by the handler of `Register`
or by the delegate that announces the server. The two handlers do not exclude each other, and either may come
first; the proof shows that the one that comes second finds what the first has left. It needs
`DefinitionsInductive`: a definition that its maker has not registered yet is nowhere else (`Unheard`), so that
a registration by somebody else never stands in for it. It holds for own definitions only: one that was heard
from a third server may be missed, which is what `connections_relay` shows.

### 4.5 Client sessions

`ClientSessionsProofs` assumes `SessionAssumption`.

| Theorem | Statement |
|---|---|
| `SignInIsGranted` | `Spec => []NeverRefused` |
| `ClientEndsWithWorld` | `Spec => []ClientFollows` |

`AnswersFit` says that the server is at the one request that the client waits for, or its one answer is on its
way, and `HandlersFit` which registrations have been made by then. `Forgets` says that an entity that is gone, and
whose handlers have run, is taken away from a client that knows it by a message that comes after all that show
it. `Learns` says that once the list was sent, the client knows an entity or is shown it, and that
the last message that tells of it has its value, unless an update in the queue will bring it. The list itself is read
over time, so `ListingFits` says the same of what `ListObjects` has read so far, and `QueueFits` that the queue ends
with the present values. `Heard` is what keeps messages apart that come before the client listens.

### 4.6 Keyframe animations

`KeyframeAnimationsProofs` assumes `AnimationsAssumption`: frames are natural numbers, ranges are not empty,
a tick lasts at least a frame at speed 1. Speeds are any integers.

| Theorem | Statement |
|---|---|
| `FramesCorrect` | `Spec => []FramesFollowTime` |
| `FinishedPlayed` | `Spec => FinishedArePlayed` |

`PlayedFits` says of an animation that goes on how many frames it has been
played, and of one that is over that it has been played in all its cycles; the first is what makes
the second true at the tick that ends the last cycle, which only an animation that runs forward comes
to. What `FinalizeFinishedAnimations` stops is over because the list is cleared at the end of the tick, so
that the next `foreach` finds only what its own tick ended, and a name on it
whose animation was replaced since then is in `restarted`. The arithmetic is in `WholeCycles`,
`CycleLess` (the code divides the frame, and takes the rest of the frame less one range) and
`FramesCounted`.

### 4.7 Remote calls of the web client

`FivesJsonProofs` assumes `CallsAssumption`, `FuncsAssumption` and `AttemptsAssumption`, the types of the
constants.

| Theorem | Statement |
|---|---|
| `SentInOrder` | `Spec => []SentOnceInOrder` |
| `AnswersBelongToCalls` | `Spec => AnswersBelong` |
| `PromiseKept` | `Spec => KeepsPromise`: the protocol implements `RemoteCalls` |
| `SocketsInvariant` | `Spec => [](Inductive /\ SocketsFit /\ NoneForgottenIfClosedCleanly)` |
| `CacheIsDrained` | `Spec => NewestDrains` |
| `NoCallIsForgotten` | `Spec => []NoneForgottenIfClosedCleanly` |
| `RepliesReturn` | `Spec => RepliesGoBack` |

That calls are sent in order needs `Ordered` (the calls sent come before
those cached, and both are in order), which a new call keeps only because scripts make their calls
one after the other (`MadeInOrder`) and because calls are cached only while there is no open socket
(`CachedOffline`): otherwise a call that is sent at once would overtake the cache. That an answer
belongs to its call needs `IDsArePositions`: a call ID is the position of its call among those that
were sent, so that no ID is used twice, whichever socket the answer comes from. The refinement needs
`StatusFits`: a request that the server can still answer under an active ID is one of which the
script has heard nothing yet, and an entry that stays active after its answer is one whose listener
threw.

That nothing is forgotten, and that replies go back, holds only while no connection breaks, and needs a count:
`SocketsFit` says that there is one socket for each attempt, up to the limit, that no more have closed than attempts were
made, and that as long as none broke all sockets but the newest are closed, the newest too once the client
has given up. That the cache drains needs no such restriction: `CacheIsDrained` says that calls are in the cache only
while the newest socket is connecting, and that when this one opens or breaks, the cache is empty (its calls were
sent, or have failed) or a newer socket is connecting, of which there are `MaxReconnectAttempts + 1` at
most, in whatever order the older sockets open, break and close. `FivesJson_forgotten.cfg` shows a call that is lost after a broken connection.

### 4.8 Entities and scene of the web client

`ClientViewProofs` assumes `MeshAssumption` (a URI is none of the names that the model uses for
kinds of tasks), `LightsAssumption` and `BoundsAssumption`.

| Theorem | Statement |
|---|---|
| `LatestIsKept` | `Spec => []LatestKept` |
| `PendingAreHandled` | `Spec => []PendingHandledUnlessRemoved` |
| `MeshesAreShown` | `Spec => []MeshesShown` |
| `SceneIsRegistry` | `Spec => []SceneFollowsRegistry` |

`CacheFits` (one change at most waits for an attribute) is what lets `LatestKept` survive a flush that is
repeated after an exception. `TaskFits` says that the loop over the entities that wait for a mesh has some of
them left, and that the mesh is there; `PendingFits` that an entity waits for its own mesh, once, and that what
is left over by a loop includes one that has been removed or replaced. `SceneFits` counts the elements of an entity
that the server sent once (`ElementsFit`): that a group is not added twice rests on `Waits`, an entity whose mesh is
still to be shown has none yet.

`MeshesShown` is the other half of this: of an object in the registry whose mesh has a URI, the mesh is shown, or
the object waits in `pending` or in the loop. It is inductive together with the invariant above, but each step
needs its own reason: a loop that goes on keeps those behind the head, one that ends by an exception puts the
blame on an object that is not in the registry any more (`LeftOver`), an object that is sent again must not make an
older one with the same guid count, and a mesh that arrives must find a loop that takes all of `pending`.

### 4.9 Only model-checked

The liveness properties: `WritesSpread`, `RemovalSpreads`, `UpdatesArrive`, `WritersProgress`, `StoppedThreadsEnd`,
`LoadingReturns`, `CacheDrains`, `CatchesUp`, `DefinitionsArrive`, `SignInCompletes` and `AnimationsEnd`. They rest on
fairness and so on `ENABLED`, which the prover does not handle. For most of them the part that is safety is
proved: as long as what is to come has not come, something that brings it is there, or each step brings it nearer.

| Checked with TLC | Proved for all constants |
|---|---|
| `WritesSpread`, `RemovalSpreads` | `ServersConverge`: what a server lacks is on its way, link by link (in trees) |
| `UpdatesArrive` | `ClientsComplete`: what was flushed is sent or queued |
| `LoadingReturns` | `LoadingAdvances`: each step does something that is done once, or closes a call |
| `DefinitionsArrive` | `DefinitionsUnderWay`: a message, a handler or a delegate has what is missing |
| `CacheDrains` | `NewestDrains`: the newest socket empties the cache or makes place for one of finitely many |
| `CatchesUp` | `LatestKept` and `MeshesShown`: the last value waits, and the object waits for its mesh |

`WritersProgress`, `StoppedThreadsEnd`, `SignInCompletes` and `AnimationsEnd` have no such half: what they say is that
locks become free, that threads look at their flag again, and that requests and ticks go on.

## 5. Not modelled

* A server that reconnects to a World that has moved on: `WorldSync` has its servers connected from
  the start, `ServerConnections` does not look at stamps.
* Attribute values that the wire format or a service bus chain changes: `Suggest` sets the value it
  was given, as it does when no chain is configured for the attribute.
* Threads of one server that run its handlers at the same time: a handler of `WorldSync` is one step,
  and messages are handled in the order in which they arrive.
* An entity with a mesh and no location: `scene_manager.js:79` throws for it. Nothing in the repository
  makes one, only an external client could; in `ClientView` every entity with a mesh has a location.
* Several clients in one session model, and what a client itself adds and changes; the time
  synchronisation (`getTime`).
* The service bus, motion, and avatars: planned, see below.
* The playing of animations in the browser, keyboard, camera and dialogs: single-threaded code
  whose state is that of the rendering library.
* Loading and parsing of interface definitions in `kiara.js` (all of it but `CallResponse` and the
  wrappers of functions), of configuration files and of command lines.
* Third-party code kept in the repository: `xml3d.js`, `xml3d_elementbyray.js`, `xml3d-motion.js`,
  `require.js`, `underscore.js`, jQuery, bootstrap. They make up about 19 in 20 of the lines of
  JavaScript, and nothing of what FiVES promises; of FiVES's own code most is C#.

`PROJECT.json` ("components") says for each component what is left out and why.

## 6. Plan

Done: `WorldSync` with `LastWriterWins`; `ClientUpdateQueue` with `UpdateStream`; `PluginManager`;
`ServerConnections`; `ClientSessions`; `KeyframeAnimations`; `FivesJson` with `RemoteCalls`; `ClientView`; for each
of them the proofs of section 4.

In the order in which it is to be done:

1. `Reconnect`: `WorldSync` with servers that come and go; `AttributeEcho`: retyped values;
   `LocalThreads`: handlers in single steps, with the domain model's lazily created components.
2. `ServiceBus`: chains on the thread pool, and `Motion` on top of it.
3. `ClientSessions` with several clients, and `Avatar` on top: one avatar per login.
4. `Terminal` (the line editor and its history) and the REST service's handling of paths.
