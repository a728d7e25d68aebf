---------------------------- MODULE ClientView ----------------------------
(***************************************************************************)
(* The entities of the web client and what the user sees of them:          *)
(* scripts/models (registry, entity), plugins/clientsync (what the server  *)
(* tells), util/remote-xml3d-loader.js and resources (loading meshes, the  *)
(* scene), plugins/renderable, light and location (handlers of events).    *)
(*                                                                         *)
(* The browser runs one task at a time: a message of the server, the timer *)
(* of an entity, or the answer to an ajax request. A task that handles a   *)
(* list of things is broken into steps (task); nothing else runs until it  *)
(* is done, but an exception may end it early. Handlers of an event run in *)
(* the order in which client.xhtml and app.js add them: for a new entity   *)
(* Renderable, Light, SceneManager; for a changed component Location       *)
(* before Renderable.                                                      *)
(*                                                                         *)
(* Values of attributes are the numbers of the updates that brought them;  *)
(* the attributes are those of one component. External: the browser        *)
(* (timers, ajax, DOM) and the server, whose messages may name entities    *)
(* that the client does not know or has already.                           *)
(***************************************************************************)
EXTENDS Naturals, Sequences, FiniteSets, SequencesExt

CONSTANTS Guids,         \* the entities of the server
          Uris,          \* the meshes
          NoUri, NoMesh, \* of entities whose mesh has no URI, or that have no mesh component
          Mesh,          \* the mesh of each entity
          Lights,        \* the entities with a light component
          Attrs,         \* the attributes
          MaxInstances,  \* how many entity objects are created (a bound)
          MaxUpdates,    \* how many updates are received (a bound)
          MaxBatch       \* how long a list of objects or updates is (a bound)

ASSUME MeshAssumption ==
    /\ Mesh \in [Guids -> Uris \cup {NoUri, NoMesh}]
    /\ NoUri \notin Uris /\ NoMesh \notin Uris /\ NoUri # NoMesh
    /\ Uris \cap {"idle", "objects", "updates"} = {}
ASSUME LightsAssumption == Lights \subseteq Guids
ASSUME BoundsAssumption == MaxInstances \in Nat /\ MaxUpdates \in Nat /\ MaxBatch \in Nat

VARIABLES registry,  \* EntityRegistry._entities: the object of each guid, or 0
          entities,  \* every Entity object: its fields, the cached updates and its view
          document,  \* the loader's knowledge of each URI
          pending,   \* _pendingRequests: the entity objects that wait for each URI
          dom,       \* how many elements of each kind the scene holds for each guid
          task,      \* what is left of the task that is running
          updates    \* how many updates have been received

vars == <<registry, entities, document, pending, dom, task, updates>>

Objects == 1 .. MaxInstances
Elements == {"group", "light", "transform", "defs"}
Update == [guid : Guids, attr : Attrs, value : 1 .. MaxUpdates]
Change == [attr : Attrs, value : 1 .. MaxUpdates]

\* A task is a kind and what it has still to handle.
Idle == [kind |-> "idle", rest |-> <<>>]
Handling(kind, rest) == IF rest = <<>> THEN Idle ELSE [kind |-> kind, rest |-> rest]

\* group: the element that xml3dView.groupElement refers to; told: history, the
\* last value that updateAttribute was called with.
Entity ==
    [guid : Guids, values : [Attrs -> 0 .. MaxUpdates], cached : Seq(Change),
     told : [Attrs -> 0 .. MaxUpdates],
     group : {"none", "group", "light"}, transform : BOOLEAN, defs : BOOLEAN]

TypeOK ==
    /\ entities \in Seq(Entity)
    /\ registry \in [Guids -> 0 .. Len(entities)]
    /\ document \in [Uris -> {"absent", "requested", "cached", "failed"}]
    /\ pending \in [Uris -> Seq(1 .. Len(entities))]
    /\ dom \in [Elements -> [Guids -> Nat]]
    /\ task.kind \in {"idle", "objects", "updates"} \cup Uris
    /\ updates \in 0 .. MaxUpdates

Init ==
    /\ registry = [g \in Guids |-> 0]
    /\ entities = <<>>
    /\ document = [u \in Uris |-> "absent"]
    /\ pending = [u \in Uris |-> <<>>]
    /\ dom = [e \in Elements |-> [g \in Guids |-> 0]]
    /\ task = Idle
    /\ updates = 0

(***************************************************************************)
(* The scene. Changes of dom are sets of elements that are added or taken  *)
(* away for one guid.                                                      *)
(***************************************************************************)
Appended(g, elements) ==
    [e \in Elements |-> IF e \in elements THEN [dom[e] EXCEPT ![g] = @ + 1] ELSE dom[e]]
Removed(g, elements) ==
    [e \in Elements |-> IF e \in elements THEN [dom[e] EXCEPT ![g] = @ - 1] ELSE dom[e]]

\* What SceneManager.removeEntity finds in the view of an entity.
ViewOf(entity) ==
    (IF entity.group = "none" THEN {} ELSE {entity.group})
        \cup (IF entity.transform THEN {"transform"} ELSE {})
        \cup (IF entity.defs THEN {"defs"} ELSE {})

(***************************************************************************)
(* Adding entities: addEntityFromServer, with all handlers of EntityAdded. *)
(***************************************************************************)
NewObject == Len(entities) + 1

\* Renderable, Light and SceneManager handle the new object of g. Renderable
\* throws when there is no mesh component, and the others do not run. A mesh
\* that has been loaded is shown at once, and the light comes after it.
ShownAtOnce(g) == Mesh[g] \in Uris /\ document[Mesh[g]] = "cached"

NewEntity(g) ==
    [guid |-> g,
     values |-> [a \in Attrs |-> 0], cached |-> <<>>, told |-> [a \in Attrs |-> 0],
     group |-> IF Mesh[g] = NoMesh THEN "none"
               ELSE IF g \in Lights THEN "light"
               ELSE IF ShownAtOnce(g) THEN "group" ELSE "none",
     transform |-> Mesh[g] # NoMesh,
     defs |-> ShownAtOnce(g)]

ElementsOfNew(g) ==
    IF Mesh[g] = NoMesh THEN {}
    ELSE {"transform"} \cup (IF g \in Lights THEN {"light"} ELSE {})
                       \cup (IF ShownAtOnce(g) THEN {"group", "defs"} ELSE {})

\* loadXML3D: wait with the others, or send the first request.
RequestMesh(g) ==
    \/ /\ Mesh[g] \in Uris /\ ~ShownAtOnce(g)
       /\ pending' = [pending EXCEPT ![Mesh[g]] = Append(@, NewObject)]
       /\ document' = [document EXCEPT ![Mesh[g]] = IF @ = "absent" THEN "requested" ELSE @]
    \/ (Mesh[g] \notin Uris \/ ShownAtOnce(g)) /\ UNCHANGED <<pending, document>>

\* One object of receiveNewObjects or of the answer to listObjects. An exception
\* ends the loop over the listed objects.
AddEntityFromServer ==
    LET g == Head(task.rest) IN
    /\ task.kind = "objects"
    /\ NewObject <= MaxInstances
    /\ entities' = Append(entities, NewEntity(g))
    /\ registry' = [registry EXCEPT ![g] = NewObject]
    /\ RequestMesh(g)
    /\ dom' = Appended(g, ElementsOfNew(g))
    /\ task' = IF Mesh[g] = NoMesh THEN Idle ELSE Handling("objects", Tail(task.rest))
    /\ UNCHANGED updates

\* receiveNewObjects brings one object; listObjects answers with many.
ReceiveObjects(guids) ==
    /\ task = Idle
    /\ Len(entities) + Len(guids) <= MaxInstances
    /\ task' = Handling("objects", guids)
    /\ UNCHANGED <<registry, entities, document, pending, dom, updates>>

\* removeObject of an entity that is not known throws, and changes nothing.
RemoveEntity(g) ==
    LET e == registry[g] IN
    /\ task = Idle
    /\ e # 0
    /\ dom' = Removed(g, ViewOf(entities[e]))
    /\ entities' = [entities EXCEPT ![e].group = "none", ![e].transform = FALSE,
                                    ![e].defs = FALSE]
    /\ registry' = [registry EXCEPT ![g] = 0]
    /\ UNCHANGED <<document, pending, task, updates>>

(***************************************************************************)
(* Loading meshes.                                                         *)
(***************************************************************************)
AjaxSuccess(u) ==
    /\ task = Idle
    /\ document[u] = "requested"
    /\ document' = [document EXCEPT ![u] = "cached"]
    /\ task' = Handling(u, pending[u])
    /\ UNCHANGED <<registry, entities, pending, dom, updates>>

\* The error is printed; the requests stay pending, and later ones join them.
AjaxError(u) ==
    /\ task = Idle
    /\ document[u] = "requested"
    /\ document' = [document EXCEPT ![u] = "failed"]
    /\ UNCHANGED <<registry, entities, pending, dom, task, updates>>

\* Mutant: only the first of the requests that wait is handled.
HandlePendingFirst(u) ==
    LET e == registry[entities[Head(task.rest)].guid]
    IN  /\ task.kind = u
        /\ e # 0
        /\ dom' = Appended(entities[e].guid, {"group", "defs"})
        /\ entities' = [entities EXCEPT ![e].group = "group", ![e].defs = TRUE]
        /\ task' = Idle
        /\ UNCHANGED <<registry, pending, document, updates>>

\* One turn of the loop of _handlePendingRequests, for an entity that is in the
\* registry: _addMeshToScene looks it up by its guid.
HandlePending(u) ==
    LET g == entities[Head(task.rest)].guid
        e == registry[g]
    IN  /\ task.kind = u
        /\ e # 0
        /\ dom' = Appended(g, {"group", "defs"})
        /\ entities' = [entities EXCEPT ![e].group = "group", ![e].defs = TRUE]
        /\ task' = Handling(u, Tail(task.rest))
        /\ pending' = IF Len(task.rest) = 1 THEN [pending EXCEPT ![u] = <<>>] ELSE pending
        /\ UNCHANGED <<registry, document, updates>>

\* Mutant: the mesh of an entity that has been removed is shown as well.
HandlePendingShowsRemoved(u) ==
    LET g == entities[Head(task.rest)].guid
    IN  /\ task.kind = u
        /\ registry[g] = 0
        /\ dom' = Appended(g, {"group", "defs"})
        /\ task' = Handling(u, Tail(task.rest))
        /\ UNCHANGED <<registry, entities, document, pending, updates>>

\* For an entity that has been removed, the definitions are added to the scene
\* before the exception, which ends the loop.
HandlePendingThrows(u) ==
    LET g == entities[Head(task.rest)].guid
    IN  /\ task.kind = u
        /\ registry[g] = 0
        /\ dom' = Appended(g, {"defs"})
        /\ task' = Idle
        /\ UNCHANGED <<registry, entities, document, pending, updates>>

(***************************************************************************)
(* Updates of attributes.                                                  *)
(***************************************************************************)
\* receiveObjectUpdates.
ReceiveUpdates(batch) ==
    /\ task = Idle
    /\ updates + Len(batch) <= MaxUpdates
    /\ updates' = updates + Len(batch)
    /\ task' = Handling("updates", [k \in DOMAIN batch |->
                   [guid |-> batch[k].guid, attr |-> batch[k].attr, value |-> updates + k]])
    /\ UNCHANGED <<registry, entities, document, pending, dom>>

\* updateAttribute: a later value replaces the one that waits.
Cached(cached, u) ==
    LET same == {k \in DOMAIN cached : cached[k].attr = u.attr}
    IN  IF same = {} THEN Append(cached, [attr |-> u.attr, value |-> u.value])
        ELSE [k \in DOMAIN cached |-> IF k \in same THEN [cached[k] EXCEPT !.value = u.value]
                                      ELSE cached[k]]

\* One turn of _applyObjectUpdates. An entity that is not known ends the loop.
UpdateAttribute ==
    LET u == Head(task.rest)
        e == registry[u.guid]
    IN  /\ task.kind = "updates"
        /\ \/ /\ e # 0
              /\ entities' = [entities EXCEPT ![e].cached = Cached(@, u),
                                              ![e].told[u.attr] = u.value]
              /\ task' = Handling("updates", Tail(task.rest))
           \/ e = 0 /\ task' = Idle /\ UNCHANGED entities
        /\ UNCHANGED <<registry, document, pending, dom, updates>>

\* The values after the given changes have been applied one after the other.
Applied(values, changes) ==
    [a \in Attrs |-> IF \E c \in ToSet(changes) : c.attr = a
                     THEN (CHOOSE c \in ToSet(changes) : c.attr = a).value ELSE values[a]]

\* Mutant: the cache is cleared although a handler has thrown.
FlushUpdatesClears(e) ==
    /\ task = Idle
    /\ entities[e].cached # <<>>
    /\ entities' = [entities EXCEPT
          ![e].values = Applied(@, IF entities[e].group = "none"
                                   THEN <<Head(entities[e].cached)>> ELSE entities[e].cached),
          ![e].cached = <<>>]
    /\ UNCHANGED <<registry, document, pending, dom, task, updates>>

\* Mutant: a flush always ends after the first attribute.
FlushUpdatesFirst(e) ==
    /\ task = Idle
    /\ entities[e].cached # <<>>
    /\ entities' = [entities EXCEPT ![e].values = Applied(@, <<Head(entities[e].cached)>>)]
    /\ UNCHANGED <<registry, document, pending, dom, task, updates>>

\* The timer of object e, which also runs on when the entity has been removed.
\* updateMesh throws as long as there is no group element: the first attribute
\* has been set, the others wait, and the next turn starts over.
FlushUpdates(e) ==
    /\ task = Idle
    /\ entities[e].cached # <<>>
    /\ entities' = [entities EXCEPT
          ![e].values = Applied(@, IF entities[e].group = "none"
                                   THEN <<Head(entities[e].cached)>> ELSE entities[e].cached),
          ![e].cached = IF entities[e].group = "none" THEN @ ELSE <<>>]
    /\ UNCHANGED <<registry, document, pending, dom, task, updates>>

\* The entities that updates are sent for: those in the registry, and one that is
\* not (which one makes no difference).
Addressees ==
    LET unknown == {g \in Guids : registry[g] = 0}
    IN  (Guids \ unknown) \cup (IF unknown = {} THEN {} ELSE {CHOOSE g \in unknown : TRUE})

ServerTells ==
    \/ \E n \in 1 .. MaxBatch : \E guids \in [1 .. n -> Guids] :
          IsInjective(guids) /\ ReceiveObjects(guids)
    \/ \E g \in Guids : RemoveEntity(g)
    \/ \E n \in 1 .. MaxBatch : \E batch \in [1 .. n -> [guid : Addressees, attr : Attrs]] :
          ReceiveUpdates(batch)

Step ==
    \/ AddEntityFromServer
    \/ UpdateAttribute
    \/ \E u \in Uris : HandlePending(u) \/ HandlePendingThrows(u)

Next ==
    \/ ServerTells
    \/ Step
    \/ \E u \in Uris : AjaxSuccess(u) \/ AjaxError(u)
    \/ \E e \in DOMAIN entities : FlushUpdates(e)

\* A task runs to its end, a request is answered, and timers go off.
Fairness ==
    /\ WF_vars(Step)
    /\ \A u \in Uris : WF_vars(AjaxSuccess(u) \/ AjaxError(u))
    /\ \A e \in Objects : WF_vars(e \in DOMAIN entities /\ FlushUpdates(e))

Spec == Init /\ [][Next]_vars /\ Fairness

(***************************************************************************)
(* Properties.                                                             *)
(***************************************************************************)
GuidOf(e) == entities[e].guid
Registered(e) == e \in DOMAIN entities /\ registry[GuidOf(e)] = e

\* The last update of an attribute that reached an entity is its value or waits
\* to become it: it is not lost when updates are merged, nor when a handler
\* throws in the middle of a flush and the flush is repeated.
LatestKept ==
    \A e \in DOMAIN entities : \A a \in Attrs :
        LET waiting == {c \in ToSet(entities[e].cached) : c.attr = a}
        IN  entities[e].told[a] \in IF waiting = {} THEN {entities[e].values[a]}
                                    ELSE {c.value : c \in waiting}

\* The scene shows what is in the registry: at most one group, light and transform
\* for an entity, and none for an entity that is not there, although meshes arrive
\* before or after additions and removals. This needs the server to send an entity
\* once. The view has one reference for the group of a mesh and of a light: an
\* entity with both leaves one of them behind.
SceneFollowsRegistry ==
    \A g \in Guids :
        LET present == IF registry[g] # 0 THEN 1 ELSE 0
            both == g \in Lights /\ Mesh[g] \in Uris
        IN  Cardinality({e \in DOMAIN entities : GuidOf(e) = g}) <= 1
            => /\ dom["transform"][g] = IF Mesh[g] = NoMesh THEN 0 ELSE present
               /\ dom["group"][g] + dom["light"][g] <= IF both THEN present + 1 ELSE present

\* The loader says of a request for a mesh: "When this response returns, all pending
\* requests to this response are handled". At least those of entities that are still
\* there: none of them waits any more once the mesh is there.
AllPendingHandled ==
    \A u \in Uris : document[u] = "cached" /\ task = Idle
                      => \A e \in ToSet(pending[u]) : ~Registered(e)

\* The entities that wait for u are not shown: it cannot be loaded, or the loop over
\* them ended at one that had been removed or sent again.
NotShown(u) ==
    \/ document[u] = "failed"
    \/ /\ document[u] = "cached" /\ task = Idle
       /\ \E e \in ToSet(pending[u]) : ~Registered(e)

\* Requests are left over only if one of the entities that waited was removed
\* or sent again in the meantime.
PendingHandledUnlessRemoved ==
    \A u \in Uris :
        document[u] = "cached" /\ task = Idle
        => pending[u] = <<>> \/ NotShown(u)

\* The entity is among those that wait for its mesh, or for their turn to show it.
Waits(e) ==
    LET u == Mesh[GuidOf(e)]
    IN  \/ u \in Uris /\ document[u] # "cached" /\ e \in ToSet(pending[u])
        \/ u \in Uris /\ task.kind = u /\ e \in ToSet(task.rest)

\* The loop over those that waited for u has ended at one that had been removed or sent again.
LeftOver(u) ==
    document[u] = "cached" /\ task.kind # u /\ \E e \in ToSet(pending[u]) : ~Registered(e)

\* An entity that is there shows its mesh or waits for it, unless the loop over those that
\* waited was left early: no request for a mesh gets lost between loadXML3D, the answer and
\* the loop, even if the entity is removed and sent again meanwhile.
MeshesShown ==
    \A e \in DOMAIN entities :
        Registered(e) /\ Mesh[GuidOf(e)] \in Uris
        => entities[e].defs \/ Waits(e) \/ LeftOver(Mesh[GuidOf(e)])

\* An entity that has a mesh ends up with the values it was last told, unless it
\* is removed, its mesh cannot be loaded, or the loop over those that waited for
\* the mesh was left early.
CatchesUp ==
    \A e \in Objects :
        (Registered(e) /\ Mesh[GuidOf(e)] \in Uris /\ entities[e].cached # <<>>)
        ~> \/ ~Registered(e)
           \/ entities[e].cached = <<>> /\ entities[e].values = entities[e].told
           \/ \E v \in Uris : Mesh[GuidOf(e)] = v /\ NotShown(v)
(***************************************************************************)
(* What every step keeps, and the proofs rest on.                          *)
(***************************************************************************)

\* One change at most waits for an attribute.
CacheFits ==
    \A e \in DOMAIN entities : \A i, j \in DOMAIN entities[e].cached :
        entities[e].cached[i].attr = entities[e].cached[j].attr => i = j

\* The object of a guid is one of that guid, and what its view refers to is in the scene.
RegistryFits ==
    \A g \in Guids : registry[g] # 0 =>
        /\ GuidOf(registry[g]) = g
        /\ \A el \in ViewOf(entities[registry[g]]) : dom[el][g] > 0

\* What is left of a task; the entities that are left of those that wait for a mesh, which is
\* there, are some of them.
TaskFits ==
    \/ task = Idle
    \/ task.kind = "objects" /\ task.rest \in Seq(Guids) \ {<<>>}
    \/ task.kind = "updates" /\ task.rest \in Seq(Update) \ {<<>>}
    \/ /\ task.kind \in Uris /\ task.rest \in Seq(DOMAIN entities) \ {<<>>}
       /\ document[task.kind] = "cached"
       /\ IsInjective(task.rest) /\ ToSet(task.rest) \subseteq ToSet(pending[task.kind])

\* An entity waits for its own mesh, once. Those that are left over when it is there have been
\* left by a loop that ended at one of them.
PendingFits ==
    \A u \in Uris :
        /\ IsInjective(pending[u])
        /\ \A e \in ToSet(pending[u]) : Mesh[GuidOf(e)] = u
        /\ document[u] = "cached" /\ task.kind # u /\ pending[u] # <<>> =>
               \E e \in ToSet(pending[u]) : ~Registered(e)

\* The elements of an entity of which there has been one object, e.
ElementsFit(e, g) ==
    /\ entities[e].transform = (registry[g] # 0 /\ Mesh[g] # NoMesh)
    /\ dom["transform"][g] = IF entities[e].transform THEN 1 ELSE 0
    /\ registry[g] = 0 => entities[e].group = "none"
    /\ g \notin Lights \/ Mesh[g] = NoMesh => dom["light"][g] = 0 /\ entities[e].group # "light"
    /\ Mesh[g] \notin Uris => dom["group"][g] = 0 /\ entities[e].group # "group"
    /\ g \notin Lights => dom["group"][g] = IF entities[e].group = "group" THEN 1 ELSE 0
    /\ g \in Lights /\ Mesh[g] # NoMesh =>
           IF registry[g] # 0
           THEN dom["light"][g] = 1 /\ dom["group"][g] <= 1 /\ entities[e].group # "none"
           ELSE dom["light"][g] + dom["group"][g] <= 1 /\ (Mesh[g] \notin Uris => dom["light"][g] = 0)
    /\ Waits(e) => entities[e].group # "group" /\ dom["group"][g] = 0

SceneFits ==
    \A g \in Guids :
        /\ (\A e \in DOMAIN entities : GuidOf(e) # g) =>
               registry[g] = 0 /\ \A el \in {"transform", "group", "light"} : dom[el][g] = 0
        /\ \A e \in DOMAIN entities :
               GuidOf(e) = g /\ (\A f \in DOMAIN entities : GuidOf(f) = g => f = e) => ElementsFit(e, g)

Inductive ==
    TypeOK /\ CacheFits /\ LatestKept /\ RegistryFits /\ TaskFits /\ PendingFits /\ SceneFits
=============================================================================
