--------------------------- MODULE ClientViewProofs ---------------------------
(***************************************************************************)
(* Proofs about the entities of the web client and what is shown of them,  *)
(* for any entities, meshes, lights and attributes.                        *)
(***************************************************************************)
EXTENDS ClientView, SequenceTheorems, FiniteSetTheorems, TLAPS

(***************************************************************************)
(* Sequences.                                                              *)
(***************************************************************************)

\* The elements of a sequence are of its kind.
LEMMA Members ==
    ASSUME NEW M, NEW s \in Seq(M)
    PROVE  /\ ToSet(s) \subseteq M /\ \A i \in DOMAIN s : s[i] \in ToSet(s) /\ s[i] \in M /\ i \in Nat \ {0}
           /\ s = <<>> <=> DOMAIN s = {}
<1> DEFINE a == Len(s)
<1>1. a \in Nat /\ DOMAIN s = 1 .. a /\ s \in [1 .. a -> M] /\ (s # <<>> => a # 0) /\ (s = <<>> => a = 0)
    BY LenProperties, EmptySeq
<1> HIDE DEF a
<1>2. (1 .. a = {} <=> a = 0) /\ \A i \in 1 .. a : i \in Nat \ {0}
    BY <1>1
<1> QED BY <1>1, <1>2 DEF ToSet

\* What is appended comes last.
LEMMA PutBehind ==
    ASSUME NEW M, NEW s \in Seq(M), NEW m \in M
    PROVE  LET t == Append(s, m) IN
           /\ t \in Seq(M) /\ t # <<>> /\ Len(t) = Len(s) + 1
           /\ DOMAIN t = DOMAIN s \cup {Len(s) + 1} /\ Len(s) + 1 \notin DOMAIN s
           /\ t[Len(s) + 1] = m /\ \A i \in DOMAIN s : t[i] = s[i]
<1> DEFINE t == Append(s, m)
           a == Len(s)
<1>1. /\ t \in Seq(M) /\ Len(t) = a + 1 /\ t[a + 1] = m
      /\ \A i \in 1 .. a : t[i] = s[i]
    BY AppendProperties
<1>2. a \in Nat /\ DOMAIN s = 1 .. a /\ DOMAIN t = 1 .. a + 1
    BY <1>1, LenProperties
<1> HIDE DEF t, a
<1>3. 1 .. a + 1 = (1 .. a) \cup {a + 1} /\ a + 1 \notin 1 .. a /\ a + 1 # 0
    BY <1>2
<1>4. t # <<>>
    BY <1>1, <1>3, EmptySeq
<1> QED BY <1>1, <1>2, <1>3, <1>4 DEF t, a

\* The set of what has been appended to.
LEMMA SetPutBehind ==
    ASSUME NEW M, NEW s \in Seq(M), NEW m \in M
    PROVE  LET t == Append(s, m) IN
           /\ ToSet(t) = ToSet(s) \cup {m}
           /\ IsInjective(s) /\ m \notin ToSet(s) => IsInjective(t)
<1>1. PICK t : t = Append(s, m)
    OBVIOUS
<1>2. PICK n : n = Len(s) + 1
    OBVIOUS
<1>3. DOMAIN t = DOMAIN s \cup {n} /\ n \notin DOMAIN s /\ t[n] = m /\ \A i \in DOMAIN s : t[i] = s[i]
    BY <1>1, <1>2, PutBehind
<1>4. ToSet(t) = ToSet(s) \cup {m}
    BY <1>3 DEF ToSet
<1>5. IsInjective(s) /\ m \notin ToSet(s) => IsInjective(t)
    BY <1>3 DEF ToSet, IsInjective
<1> QED BY <1>1, <1>4, <1>5

\* When the first one is taken, the others are left.
LEMMA TakenAway ==
    ASSUME NEW M, NEW s \in Seq(M), s # <<>>
    PROVE  LET t == Tail(s) IN
           /\ t \in Seq(M) /\ Head(s) \in M /\ Head(s) \in ToSet(s) /\ ToSet(t) \subseteq ToSet(s)
           /\ IsInjective(s) => IsInjective(t) /\ Head(s) \notin ToSet(t)
           /\ (t = <<>>) <=> (Len(s) = 1)
<1> DEFINE t == Tail(s)
           a == Len(s)
<1>1. a \in Nat \ {0} /\ DOMAIN s = 1 .. a
    BY EmptySeq, LenProperties
<1>2. t \in Seq(M) /\ Len(t) = a - 1 /\ Head(s) = s[1] /\ Head(s) \in M
    BY HeadTailProperties
<1>3. \A i \in 1 .. a - 1 : t[i] = s[i + 1]
    BY <1>2, HeadTailProperties
<1>4. DOMAIN t = 1 .. a - 1 /\ (t = <<>> <=> a - 1 = 0)
    BY <1>1, <1>2, LenProperties, EmptySeq
<1> HIDE DEF t, a
<1>5. /\ 1 \in 1 .. a /\ (a - 1 = 0 <=> a = 1)
      /\ \A i \in 1 .. a - 1 : i + 1 \in 1 .. a /\ i + 1 # 1 /\ \A j \in 1 .. a - 1 : i + 1 = j + 1 => i = j
    BY <1>1
<1>6. Head(s) \in ToSet(s) /\ ToSet(t) \subseteq ToSet(s)
    <2>1. \A i \in 1 .. a : s[i] \in ToSet(s)
        BY <1>1 DEF ToSet
    <2>2. \A i \in 1 .. a - 1 : t[i] \in ToSet(s)
        BY <1>3, <1>5, <2>1
    <2>3. ToSet(t) \subseteq ToSet(s)
        BY <1>4, <2>2 DEF ToSet
    <2>4. s[1] \in ToSet(s)
        BY <1>5, <2>1
    <2> QED BY <1>2, <2>3, <2>4
<1>7. ASSUME IsInjective(s) PROVE IsInjective(t) /\ Head(s) \notin ToSet(t)
    <2>1. \A i, j \in 1 .. a : s[i] = s[j] => i = j
        BY <1>1, <1>7 DEF IsInjective
    <2>2. IsInjective(t)
        <3> SUFFICES ASSUME NEW i \in 1 .. a - 1, NEW j \in 1 .. a - 1, t[i] = t[j] PROVE i = j
            BY <1>4 DEF IsInjective
        <3>1. s[i + 1] = s[j + 1]
            BY <1>3
        <3> QED BY <1>5, <2>1, <3>1
    <2>3. ASSUME NEW i \in 1 .. a - 1, t[i] = Head(s) PROVE FALSE
        <3>1. s[i + 1] = s[1]
            BY <1>2, <1>3, <2>3
        <3> QED BY <1>5, <2>1, <3>1
    <2> QED BY <1>4, <2>2, <2>3 DEF ToSet
<1> QED BY <1>2, <1>4, <1>5, <1>6, <1>7 DEF t, a

\* An element of a sequence is exchanged.
LEMMA Exchanged ==
    ASSUME NEW M, NEW s \in Seq(M), NEW e \in DOMAIN s, NEW r \in M
    PROVE  LET t == [s EXCEPT ![e] = r] IN
           /\ t \in Seq(M) /\ Len(t) = Len(s) /\ DOMAIN t = DOMAIN s
           /\ t[e] = r /\ \A x \in DOMAIN s : x # e => t[x] = s[x]
<1>1. e \in 1 .. Len(s) /\ DOMAIN s = 1 .. Len(s)
    BY LenProperties
<1> QED BY <1>1, ExceptSeq, LenProperties

\* A task that has nothing left is over.
LEMMA Handled ==
    ASSUME NEW kind, NEW rest
    PROVE  /\ rest = <<>> => Handling(kind, rest) = Idle
           /\ rest # <<>> => Handling(kind, rest).kind = kind /\ Handling(kind, rest).rest = rest
           /\ Idle.kind = "idle" /\ Idle.kind \notin Uris
BY MeshAssumption DEF Handling, Idle

(***************************************************************************)
(* What is kept when a step changes other things.                          *)
(***************************************************************************)

\* Scene, registry and requests fit when no object, request or element changes.
LEMMA SceneKept ==
    ASSUME TypeOK, RegistryFits, PendingFits, SceneFits,
           UNCHANGED <<registry, document, pending, dom>>, DOMAIN entities' = DOMAIN entities,
           \A e \in DOMAIN entities :
               /\ entities'[e].guid = entities[e].guid /\ entities'[e].group = entities[e].group
               /\ entities'[e].transform = entities[e].transform /\ entities'[e].defs = entities[e].defs,
           task' = task \/ (task.kind \notin Uris /\ task'.kind \notin Uris)
    PROVE  RegistryFits' /\ PendingFits' /\ SceneFits'
<1>1. \A e \in DOMAIN entities : GuidOf(e)' = GuidOf(e) /\ (Registered(e)' <=> Registered(e))
    BY DEF GuidOf, Registered
<1>2. registry \in [Guids -> 0 .. Len(entities)] /\ DOMAIN entities = 1 .. Len(entities) /\ Len(entities) \in Nat
    BY LenProperties DEF TypeOK
<1>3. \A g \in Guids : registry[g] # 0 => registry[g] \in DOMAIN entities
    BY <1>2
<1>4. RegistryFits'
    <2> SUFFICES ASSUME NEW g \in Guids, registry[g] # 0
                 PROVE  entities'[registry[g]].guid = g /\ \A el \in ViewOf(entities'[registry[g]]) : dom[el][g] > 0
        BY DEF RegistryFits, GuidOf
    <2>1. registry[g] \in DOMAIN entities
        BY <1>3
    <2>2. ViewOf(entities'[registry[g]]) = ViewOf(entities[registry[g]])
        BY <2>1 DEF ViewOf
    <2> QED BY <2>1, <2>2 DEF RegistryFits, GuidOf
<1>5. \A u \in Uris : ToSet(pending[u]) \subseteq DOMAIN entities
    <2> SUFFICES ASSUME NEW u \in Uris PROVE ToSet(pending[u]) \subseteq DOMAIN entities
        OBVIOUS
    <2>1. pending[u] \in Seq(DOMAIN entities)
        BY <1>2 DEF TypeOK
    <2> QED BY <2>1, Members
<1>6. PendingFits'
    <2> SUFFICES ASSUME NEW u \in Uris
                 PROVE  /\ IsInjective(pending[u])
                        /\ \A e \in ToSet(pending[u]) : Mesh[GuidOf(e)'] = u
                        /\ document[u] = "cached" /\ task'.kind # u /\ pending[u] # <<>> =>
                               \E e \in ToSet(pending[u]) : ~Registered(e)'
        BY DEF PendingFits
    <2>1. task'.kind # u => task.kind # u
        OBVIOUS
    <2> QED BY <1>1, <1>5, <2>1 DEF PendingFits
<1>7. \A e \in DOMAIN entities : Waits(e)' <=> Waits(e)
    <2> SUFFICES ASSUME NEW e \in DOMAIN entities PROVE Waits(e)' <=> Waits(e)
        OBVIOUS
    <2> DEFINE u == Mesh[GuidOf(e)]
    <2>1. (Mesh[GuidOf(e)])' = u
        BY <1>1
    <2>2. u \in Uris /\ task'.kind = u /\ e \in ToSet(task'.rest) <=> u \in Uris /\ task.kind = u /\ e \in ToSet(task.rest)
        OBVIOUS
    <2>3. PICK v : v = u
        OBVIOUS
    <2> QED BY <2>1, <2>2, <2>3 DEF Waits
<1>8. \A e \in DOMAIN entities, g \in Guids : ElementsFit(e, g) => ElementsFit(e, g)'
    BY <1>7 DEF ElementsFit
<1>9. SceneFits'
    BY <1>1, <1>8 DEF SceneFits
<1> QED BY <1>4, <1>6, <1>9

\* Values and waiting changes fit when no object's change.
LEMMA DataKept ==
    ASSUME CacheFits, LatestKept, DOMAIN entities' = DOMAIN entities,
           \A e \in DOMAIN entities :
               /\ entities'[e].values = entities[e].values /\ entities'[e].cached = entities[e].cached
               /\ entities'[e].told = entities[e].told
    PROVE  CacheFits' /\ LatestKept'
<1>1. CacheFits'
    BY DEF CacheFits
<1>2. LatestKept'
    <2> SUFFICES ASSUME NEW e \in DOMAIN entities, NEW a \in Attrs
                 PROVE  LET waiting == {c \in ToSet(entities'[e].cached) : c.attr = a}
                        IN  entities'[e].told[a] \in IF waiting = {} THEN {entities'[e].values[a]}
                                                     ELSE {c.value : c \in waiting}
        BY DEF LatestKept
    <2>1. LET waiting == {c \in ToSet(entities[e].cached) : c.attr = a}
          IN  entities[e].told[a] \in IF waiting = {} THEN {entities[e].values[a]}
                                      ELSE {c.value : c \in waiting}
        BY DEF LatestKept
    <2>2. /\ entities'[e].values = entities[e].values /\ entities'[e].cached = entities[e].cached
          /\ entities'[e].told = entities[e].told
        OBVIOUS
    <2> QED BY <2>1, <2>2
<1> QED BY <1>1, <1>2

(***************************************************************************)
(* Messages of the server arrive, and tasks begin.                         *)
(***************************************************************************)

\* A task that is not about a mesh begins, or ends: nothing else changes.
LEMMA TaskBegins ==
    ASSUME Inductive, task.kind \notin Uris, task'.kind \in {"idle", "objects", "updates"}, TaskFits',
           updates' \in 0 .. MaxUpdates, UNCHANGED <<registry, entities, document, pending, dom>>
    PROVE  Inductive'
<1>1. task.kind \notin Uris /\ task'.kind \notin Uris
    BY MeshAssumption
<1>2. RegistryFits' /\ PendingFits' /\ SceneFits'
    BY <1>1, SceneKept DEF Inductive
<1>3. CacheFits' /\ LatestKept'
    BY DataKept DEF Inductive
<1>4. TypeOK'
    BY DEF Inductive, TypeOK
<1> QED BY <1>2, <1>3, <1>4 DEF Inductive

\* What is left of a task, when it is begun or went on.
LEMMA Left ==
    ASSUME NEW M, NEW kind, NEW rest \in Seq(M)
    PROVE  LET t == Handling(kind, rest) IN t = Idle \/ (t.kind = kind /\ t.rest = rest /\ rest # <<>>)
BY Handled

\* New entities are announced.
LEMMA ReceiveObjectsInductive ==
    ASSUME Inductive, NEW n \in 1 .. MaxBatch, NEW guids \in [1 .. n -> Guids], ReceiveObjects(guids)
    PROVE  Inductive'
<1>1. guids \in Seq(Guids)
    <2>1. n \in Nat
        BY BoundsAssumption
    <2> QED BY <2>1
<1>2. /\ task = Idle /\ task' = Handling("objects", guids)
      /\ UNCHANGED <<registry, entities, document, pending, dom, updates>>
    BY DEF ReceiveObjects
<1>3. task' = Idle \/ (task'.kind = "objects" /\ task'.rest = guids /\ guids # <<>>)
    BY <1>1, <1>2, Left
<1>4. TaskFits'
    BY <1>1, <1>3 DEF TaskFits
<1>5. updates' \in 0 .. MaxUpdates
    BY <1>2 DEF Inductive, TypeOK
<1>6. task'.kind \in {"idle", "objects", "updates"}
    BY <1>3, Handled
<1> QED BY <1>2, <1>4, <1>5, <1>6, Handled, TaskBegins

\* Updates arrive, and are numbered on.
LEMMA ReceiveUpdatesInductive ==
    ASSUME Inductive, NEW n \in 1 .. MaxBatch,
           NEW batch \in [1 .. n -> [guid : Addressees, attr : Attrs]], ReceiveUpdates(batch)
    PROVE  Inductive'
<1>1. PICK rest : rest = [k \in DOMAIN batch |->
                             [guid |-> batch[k].guid, attr |-> batch[k].attr, value |-> updates + k]]
    OBVIOUS
<1>2. /\ task = Idle /\ task' = Handling("updates", rest) /\ updates + Len(batch) <= MaxUpdates
      /\ updates' = updates + Len(batch)
      /\ UNCHANGED <<registry, entities, document, pending, dom>>
    BY <1>1 DEF ReceiveUpdates
<1>3. n \in Nat /\ updates \in Nat /\ MaxUpdates \in Nat
    BY BoundsAssumption DEF Inductive, TypeOK
<1>4. Len(batch) = n /\ DOMAIN batch = 1 .. n
    <2>1. PICK M : M = [guid : Addressees, attr : Attrs]
        OBVIOUS
    <2>2. batch \in [1 .. n -> M]
        BY <2>1
    <2>3. batch \in Seq(M) /\ DOMAIN batch = 1 .. n
        BY <1>3, <2>2
    <2>4. Len(batch) \in Nat /\ 1 .. Len(batch) = 1 .. n
        BY <2>3, LenProperties
    <2> QED BY <1>3, <2>3, <2>4
<1>5. Addressees \subseteq Guids
    BY DEF Addressees
<1>6. rest \in Seq(Update)
    <2>1. \A k \in 1 .. n : updates + k \in 1 .. MaxUpdates
        BY <1>2, <1>3, <1>4
    <2>2. rest \in [1 .. n -> Update]
        BY <1>1, <1>4, <1>5, <2>1 DEF Update
    <2> QED BY <1>3, <2>2
<1>7. task' = Idle \/ (task'.kind = "updates" /\ task'.rest = rest /\ rest # <<>>)
    BY <1>2, <1>6, Left
<1>8. TaskFits'
    BY <1>6, <1>7 DEF TaskFits
<1>9. updates' \in 0 .. MaxUpdates
    BY <1>2, <1>3, <1>4
<1>10. task'.kind \in {"idle", "objects", "updates"}
    BY <1>7, Handled
<1> QED BY <1>2, <1>8, <1>9, <1>10, Handled, TaskBegins

(***************************************************************************)
(* Values of attributes.                                                   *)
(***************************************************************************)
Waiting(cached, a) == {c \in ToSet(cached) : c.attr = a}
OneEach(cached) == \A i, j \in DOMAIN cached : cached[i].attr = cached[j].attr => i = j

\* An update waits, in the place of an earlier one of its attribute.
LEMMA CachedFacts ==
    ASSUME NEW s \in Seq(Change), OneEach(s), NEW u \in Update
    PROVE  LET t == Cached(s, u) IN
           /\ t \in Seq(Change) /\ OneEach(t)
           /\ Waiting(t, u.attr) # {} /\ \A c \in Waiting(t, u.attr) : c.value = u.value
           /\ \A a \in Attrs \ {u.attr} : Waiting(t, a) = Waiting(s, a)
<1> DEFINE same == {k \in DOMAIN s : s[k].attr = u.attr}
<1>1. u.attr \in Attrs /\ u.value \in 1 .. MaxUpdates
    BY DEF Update
<1>2. Len(s) \in Nat /\ DOMAIN s = 1 .. Len(s) /\ \A k \in DOMAIN s : s[k] \in Change
    BY LenProperties
<1>3. CASE same = {}
    <2>1. PICK m : m = [attr |-> u.attr, value |-> u.value]
        OBVIOUS
    <2>2. m \in Change /\ m.attr = u.attr /\ m.value = u.value
        BY <1>1, <2>1 DEF Change
    <2>3. PICK t : t = Append(s, m)
        OBVIOUS
    <2>4. PICK n : n = Len(s) + 1
        OBVIOUS
    <2>5. /\ t \in Seq(Change) /\ DOMAIN t = DOMAIN s \cup {n} /\ n \notin DOMAIN s /\ t[n] = m
          /\ \A i \in DOMAIN s : t[i] = s[i]
        BY <2>2, <2>3, <2>4, PutBehind
    <2>6. Cached(s, u) = t
        BY <1>3, <2>1, <2>3 DEF Cached
    <2>7. OneEach(t)
        BY <1>3, <2>2, <2>5 DEF OneEach
    <2>8. ToSet(t) = ToSet(s) \cup {m}
        BY <2>5 DEF ToSet
    <2>9. /\ \A c \in ToSet(s) : c.attr # u.attr
        BY <1>3 DEF ToSet
    <2>10. Waiting(t, u.attr) = {m} /\ \A a \in Attrs \ {u.attr} : Waiting(t, a) = Waiting(s, a)
        BY <2>2, <2>8, <2>9 DEF Waiting
    <2> QED BY <2>2, <2>5, <2>6, <2>7, <2>10
<1>4. CASE same # {}
    <2>1. PICK t : t = [k \in DOMAIN s |-> IF k \in same THEN [s[k] EXCEPT !.value = u.value] ELSE s[k]]
        OBVIOUS
    <2>2. Cached(s, u) = t
        BY <1>4, <2>1 DEF Cached
    <2>3. /\ DOMAIN t = DOMAIN s
          /\ \A k \in same : t[k] \in Change /\ t[k].attr = u.attr /\ t[k].value = u.value
          /\ \A k \in DOMAIN s \ same : t[k] = s[k] /\ t[k].attr # u.attr
          /\ \A k \in DOMAIN s : t[k].attr = s[k].attr
        BY <1>1, <1>2, <2>1 DEF Change
    <2>4. t \in Seq(Change)
        <3>1. t \in [1 .. Len(s) -> Change]
            BY <1>2, <2>1, <2>3
        <3> QED BY <1>2, <3>1
    <2>5. OneEach(t)
        BY <2>3 DEF OneEach
    <2>6. Waiting(t, u.attr) # {}
        BY <1>4, <2>3 DEF Waiting, ToSet
    <2>7. \A c \in Waiting(t, u.attr) : c.value = u.value
        BY <2>3 DEF Waiting, ToSet
    <2>8. ASSUME NEW a \in Attrs \ {u.attr} PROVE Waiting(t, a) = Waiting(s, a)
        <3>1. \A k \in same : s[k].attr # a /\ t[k].attr # a
            BY <2>3
        <3> QED BY <2>3, <3>1 DEF Waiting, ToSet
    <2> QED BY <2>2, <2>4, <2>5, <2>6, <2>7, <2>8
<1> QED BY <1>3, <1>4

\* The parts of an entity.
LEMMA EntityFacts ==
    ASSUME NEW r \in Entity
    PROVE  /\ r.guid \in Guids /\ r.values \in [Attrs -> 0 .. MaxUpdates] /\ r.cached \in Seq(Change)
           /\ r.told \in [Attrs -> 0 .. MaxUpdates] /\ r.group \in {"none", "group", "light"}
           /\ r.transform \in BOOLEAN /\ r.defs \in BOOLEAN
BY DEF Entity

\* What of the invariant is about the values of one object.
Data(r) ==
    /\ OneEach(r.cached)
    /\ \A a \in Attrs : r.told[a] \in IF Waiting(r.cached, a) = {} THEN {r.values[a]}
                                      ELSE {c.value : c \in Waiting(r.cached, a)}

AllData == \A e \in DOMAIN entities : Data(entities[e])

\* It is what the invariant says of all of them.
LEMMA DataFits ==
    (CacheFits /\ LatestKept) <=> AllData
BY DEF CacheFits, LatestKept, AllData, Data, OneEach, Waiting

\* The values of one object change: what is left to show is that they fit.
LEMMA ObjectInductive ==
    ASSUME Inductive, NEW e \in DOMAIN entities, NEW r \in Entity, Data(r), entities' = [entities EXCEPT ![e] = r],
           r.guid = entities[e].guid, r.group = entities[e].group, r.transform = entities[e].transform,
           r.defs = entities[e].defs, UNCHANGED <<registry, document, pending, dom, updates>>,
           task' = task \/ (task.kind \notin Uris /\ task'.kind \in {"idle", "updates"}), TaskFits'
    PROVE  Inductive'
<1>1. entities \in Seq(Entity) /\ TypeOK
    BY DEF Inductive, TypeOK
<1>2. PICK t : t = entities'
    OBVIOUS
<1>3. /\ t \in Seq(Entity) /\ Len(t) = Len(entities) /\ DOMAIN t = DOMAIN entities
      /\ t[e] = r /\ \A x \in DOMAIN entities : x # e => t[x] = entities[x]
    <2>1. t = [entities EXCEPT ![e] = r]
        BY <1>2
    <2> QED BY <1>1, <2>1, Exchanged
<1>4. task' = task \/ (task.kind \notin Uris /\ task'.kind \notin Uris)
    BY MeshAssumption
<1>5. RegistryFits' /\ PendingFits' /\ SceneFits'
    <2>1. DOMAIN entities' = DOMAIN entities
        BY <1>2, <1>3
    <2>2. \A x \in DOMAIN entities :
              /\ entities'[x].guid = entities[x].guid /\ entities'[x].group = entities[x].group
              /\ entities'[x].transform = entities[x].transform /\ entities'[x].defs = entities[x].defs
        BY <1>2, <1>3
    <2> QED BY <1>1, <1>4, <2>1, <2>2, SceneKept DEF Inductive
<1>6. CacheFits' /\ LatestKept'
    <2>1. \A x \in DOMAIN t : Data(t[x])
        BY <1>3, DataFits DEF Inductive, AllData
    <2>2. AllData'
        BY <1>2, <2>1 DEF AllData
    <2> QED BY <2>2, DataFits, PTL
<1>7. TypeOK'
    <2>1. task'.kind \in {"idle", "objects", "updates"} \cup Uris
        BY <1>1 DEF TypeOK
    <2> QED BY <1>1, <1>2, <1>3, <2>1 DEF TypeOK
<1> QED BY <1>5, <1>6, <1>7 DEF Inductive

\* What the task that is running has still to handle, by its kind.
LEMMA TaskKinds ==
    ASSUME TaskFits, task.kind # "idle"
    PROVE  /\ task.rest # <<>>
           /\ task.kind = "objects" => task.rest \in Seq(Guids)
           /\ task.kind = "updates" => task.rest \in Seq(Update)
           /\ task.kind \in Uris =>
                  /\ task.rest \in Seq(DOMAIN entities) /\ document[task.kind] = "cached"
                  /\ IsInjective(task.rest) /\ ToSet(task.rest) \subseteq ToSet(pending[task.kind])
<1>1. task # Idle
    BY Handled
<1> QED BY <1>1, MeshAssumption DEF TaskFits

\* The object that is registered for a guid.
LEMMA TheRegistered ==
    ASSUME TypeOK, RegistryFits, NEW g \in Guids, registry[g] # 0
    PROVE  /\ registry[g] \in DOMAIN entities /\ entities[registry[g]] \in Entity
           /\ entities[registry[g]].guid = g
<1>1. DOMAIN entities = 1 .. Len(entities) /\ Len(entities) \in Nat
    BY LenProperties DEF TypeOK
<1>2. registry[g] \in DOMAIN entities
    BY <1>1 DEF TypeOK
<1>3. entities[registry[g]] \in Entity
    BY <1>2, Members DEF TypeOK
<1> QED BY <1>2, <1>3 DEF RegistryFits, GuidOf

\* An update reaches its object, and waits; or the loop ends at it.
LEMMA UpdateAttributeInductive ==
    ASSUME Inductive, UpdateAttribute
    PROVE  Inductive'
<1>1. TypeOK /\ RegistryFits /\ TaskFits /\ entities \in Seq(Entity)
    BY DEF Inductive, TypeOK
<1>2. /\ task.kind = "updates"
      /\ UNCHANGED <<registry, document, pending, dom, updates>>
    BY DEF UpdateAttribute
<1>3. task.rest \in Seq(Update) /\ task.rest # <<>> /\ task.kind \notin Uris
    BY <1>1, <1>2, TaskKinds, MeshAssumption
<1>4. PICK u \in Update : u = Head(task.rest)
    BY <1>3, TakenAway
<1>5. u.guid \in Guids /\ u.attr \in Attrs /\ u.value \in 1 .. MaxUpdates
    BY DEF Update
<1>6. CASE task' = Idle /\ entities' = entities
    <2>1. TaskFits' /\ task'.kind = "idle"
        BY <1>6, Handled DEF TaskFits
    <2>2. updates' \in 0 .. MaxUpdates
        BY <1>1, <1>2 DEF TypeOK
    <2> QED BY <1>2, <1>3, <1>6, <2>1, <2>2, TaskBegins
<1>7. ASSUME registry[u.guid] # 0,
             entities' = [entities EXCEPT ![registry[u.guid]].cached = Cached(@, u),
                                          ![registry[u.guid]].told[u.attr] = u.value],
             task' = Handling("updates", Tail(task.rest))
      PROVE  Inductive'
    <2>1. PICK e \in DOMAIN entities : e = registry[u.guid] /\ entities[e] \in Entity
        BY <1>1, <1>5, <1>7, TheRegistered
    <2>2. PICK o \in Entity : o = entities[e]
        BY <2>1
    <2>3. PICK r : r = [o EXCEPT !.cached = Cached(@, u), !.told[u.attr] = u.value]
        OBVIOUS
    <2>4. entities' = [entities EXCEPT ![e] = r]
        <3>1. entities' = [entities EXCEPT ![e].cached = Cached(@, u), ![e].told[u.attr] = u.value]
            BY <1>7, <2>1
        <3> QED BY <1>1, <2>2, <2>3, <3>1
    <2>5. Data(o) /\ o.cached \in Seq(Change) /\ OneEach(o.cached) /\ o.told \in [Attrs -> 0 .. MaxUpdates]
        BY <2>1, <2>2, DataFits, EntityFacts DEF Inductive, AllData, Data
    <2>6. PICK t : t = Cached(o.cached, u)
        OBVIOUS
    <2>7. /\ t \in Seq(Change) /\ OneEach(t)
          /\ Waiting(t, u.attr) # {} /\ \A c \in Waiting(t, u.attr) : c.value = u.value
          /\ \A a \in Attrs \ {u.attr} : Waiting(t, a) = Waiting(o.cached, a)
        BY <2>5, <2>6, CachedFacts
    <2>8. /\ r \in Entity /\ r.guid = o.guid /\ r.group = o.group /\ r.transform = o.transform /\ r.defs = o.defs
          /\ r.cached = t /\ r.values = o.values
          /\ r.told[u.attr] = u.value /\ \A a \in Attrs \ {u.attr} : r.told[a] = o.told[a]
        <3>1. MaxUpdates \in Nat
            BY BoundsAssumption
        <3>2. r = [o EXCEPT !.cached = t, !.told = [o.told EXCEPT ![u.attr] = u.value]]
            BY <2>3, <2>6 DEF Entity
        <3>3. PICK w : w = [o.told EXCEPT ![u.attr] = u.value]
            OBVIOUS
        <3>4. w \in [Attrs -> 0 .. MaxUpdates] /\ w[u.attr] = u.value /\ \A a \in Attrs \ {u.attr} : w[a] = o.told[a]
            <4>1. u.value \in 0 .. MaxUpdates
                BY <1>5, <3>1
            <4> QED BY <1>5, <2>5, <3>3, <4>1
        <3>5. r = [o EXCEPT !.cached = t, !.told = w]
            BY <3>2, <3>3
        <3> QED BY <2>7, <3>4, <3>5 DEF Entity
    <2>9. Data(r)
        <3> SUFFICES ASSUME NEW a \in Attrs
                     PROVE  r.told[a] \in IF Waiting(t, a) = {} THEN {r.values[a]} ELSE {c.value : c \in Waiting(t, a)}
            BY <2>7, <2>8 DEF Data
        <3>1. CASE a = u.attr
            BY <2>7, <2>8, <3>1
        <3>2. CASE a # u.attr
            BY <2>5, <2>7, <2>8, <3>2 DEF Data
        <3> QED BY <3>1, <3>2
    <2>10. PICK rest \in Seq(Update) : rest = Tail(task.rest)
        BY <1>3, TakenAway
    <2>11. task' = Idle \/ (task'.kind = "updates" /\ task'.rest = rest /\ rest # <<>>)
        <3>1. task' = Handling("updates", rest)
            BY <1>7, <2>10
        <3> QED BY <3>1, Left
    <2>12. TaskFits' /\ task'.kind \in {"idle", "updates"}
        BY <2>10, <2>11, Handled DEF TaskFits
    <2> QED BY <1>2, <1>3, <2>2, <2>4, <2>8, <2>9, <2>12, ObjectInductive
<1> QED BY <1>4, <1>6, <1>7 DEF UpdateAttribute

\* Changes are applied: the values of other attributes are as before.
LEMMA AppliedFacts ==
    ASSUME NEW values \in [Attrs -> 0 .. MaxUpdates], NEW s \in Seq(Change)
    PROVE  LET w == Applied(values, s) IN
           /\ w \in [Attrs -> 0 .. MaxUpdates]
           /\ \A a \in Attrs : Waiting(s, a) = {} => w[a] = values[a]
           /\ \A a \in Attrs : \A c \in Waiting(s, a) : Waiting(s, a) = {c} => w[a] = c.value
<1>1. PICK w : w = Applied(values, s)
    OBVIOUS
<1>2. ToSet(s) \subseteq Change /\ MaxUpdates \in Nat
    BY Members, BoundsAssumption
<1>3. \A c \in Change : c.value \in 0 .. MaxUpdates
    BY <1>2 DEF Change
<1>4. ASSUME NEW a \in Attrs, \E c \in ToSet(s) : c.attr = a
      PROVE  /\ w[a] = (CHOOSE c \in ToSet(s) : c.attr = a).value
             /\ (CHOOSE c \in ToSet(s) : c.attr = a) \in Waiting(s, a)
    BY <1>1, <1>4 DEF Applied, Waiting
<1>5. ASSUME NEW a \in Attrs, ~\E c \in ToSet(s) : c.attr = a
      PROVE  w[a] = values[a] /\ Waiting(s, a) = {}
    BY <1>1, <1>5 DEF Applied, Waiting
<1>6. \A a \in Attrs : w[a] \in 0 .. MaxUpdates
    <2> SUFFICES ASSUME NEW a \in Attrs PROVE w[a] \in 0 .. MaxUpdates
        OBVIOUS
    <2>1. CASE \E c \in ToSet(s) : c.attr = a
        <3>1. PICK c : c = CHOOSE x \in ToSet(s) : x.attr = a
            OBVIOUS
        <3>2. c \in ToSet(s) /\ w[a] = c.value
            BY <1>4, <2>1, <3>1 DEF Waiting
        <3> QED BY <1>2, <1>3, <3>2
    <2>2. CASE ~\E c \in ToSet(s) : c.attr = a
        BY <1>5, <2>2
    <2> QED BY <2>1, <2>2
<1>7. w \in [Attrs -> 0 .. MaxUpdates]
    <2>1. w = [a \in Attrs |-> w[a]]
        BY <1>1 DEF Applied
    <2> QED BY <1>6, <2>1
<1>8. \A a \in Attrs : Waiting(s, a) = {} => w[a] = values[a]
    BY <1>5 DEF Waiting
<1>9. \A a \in Attrs : \A c \in Waiting(s, a) : Waiting(s, a) = {c} => w[a] = c.value
    <2> SUFFICES ASSUME NEW a \in Attrs, NEW c \in Waiting(s, a), Waiting(s, a) = {c} PROVE w[a] = c.value
        OBVIOUS
    <2>1. \E x \in ToSet(s) : x.attr = a
        BY DEF Waiting
    <2>2. PICK d : d = CHOOSE x \in ToSet(s) : x.attr = a
        OBVIOUS
    <2>3. d \in Waiting(s, a) /\ w[a] = d.value
        BY <1>4, <2>1, <2>2
    <2> QED BY <2>3
<1> QED BY <1>1, <1>7, <1>8, <1>9

\* The timer of an object: its changes are applied, or the first of them when a handler throws.
LEMMA FlushUpdatesInductive ==
    ASSUME Inductive, NEW e \in DOMAIN entities, FlushUpdates(e)
    PROVE  Inductive'
<1>1. TypeOK /\ entities \in Seq(Entity) /\ TaskFits
    BY DEF Inductive, TypeOK
<1>2. PICK o \in Entity : o = entities[e]
    BY <1>1, Members
<1>3. /\ o.cached # <<>> /\ task = Idle
      /\ UNCHANGED <<registry, document, pending, dom, task, updates>>
    BY <1>2 DEF FlushUpdates
<1>4. PICK s : s = IF o.group = "none" THEN <<Head(o.cached)>> ELSE o.cached
    OBVIOUS
<1>5. PICK k : k = IF o.group = "none" THEN o.cached ELSE <<>>
    OBVIOUS
<1>6. PICK w : w = Applied(o.values, s)
    OBVIOUS
<1>7. PICK r : r = [o EXCEPT !.values = w, !.cached = k]
    OBVIOUS
<1>8. /\ Data(o) /\ o.cached \in Seq(Change) /\ OneEach(o.cached)
      /\ o.values \in [Attrs -> 0 .. MaxUpdates] /\ o.told \in [Attrs -> 0 .. MaxUpdates]
    BY <1>2, DataFits, EntityFacts DEF Inductive, AllData, Data
<1>9. entities' = [entities EXCEPT ![e] = r]
    BY <1>1, <1>2, <1>4, <1>5, <1>6, <1>7 DEF FlushUpdates
<1>10. s \in Seq(Change) /\ k \in Seq(Change)
    <2>1. Head(o.cached) \in Change
        BY <1>3, <1>8, TakenAway
    <2>2. <<Head(o.cached)>> \in Seq(Change)
        BY <2>1
    <2> QED BY <1>4, <1>5, <1>8, <2>2, EmptySeq
<1>11. /\ w \in [Attrs -> 0 .. MaxUpdates]
       /\ \A a \in Attrs : Waiting(s, a) = {} => w[a] = o.values[a]
       /\ \A a \in Attrs : \A c \in Waiting(s, a) : Waiting(s, a) = {c} => w[a] = c.value
    <2>1. PICK v \in [Attrs -> 0 .. MaxUpdates] : v = o.values
        BY <1>8
    <2>2. w = Applied(v, s)
        BY <1>6, <2>1
    <2>3. /\ Applied(v, s) \in [Attrs -> 0 .. MaxUpdates]
          /\ \A a \in Attrs : Waiting(s, a) = {} => Applied(v, s)[a] = v[a]
          /\ \A a \in Attrs : \A c \in Waiting(s, a) : Waiting(s, a) = {c} => Applied(v, s)[a] = c.value
        <3>1. s \in Seq(Change)
            BY <1>10
        <3> QED BY <3>1, AppliedFacts
    <2> QED BY <2>1, <2>2, <2>3
<1>12. /\ r \in Entity /\ r.guid = o.guid /\ r.group = o.group /\ r.transform = o.transform /\ r.defs = o.defs
       /\ r.cached = k /\ r.values = w /\ r.told = o.told
    BY <1>7, <1>10, <1>11 DEF Entity
<1>13. Data(r)
    <2>1. CASE o.group = "none"
        <3>1. ToSet(s) = {Head(o.cached)} /\ Head(o.cached) \in ToSet(o.cached)
            <4>1. ToSet(<<Head(o.cached)>>) = {Head(o.cached)}
                BY DEF ToSet
            <4> QED BY <1>3, <1>4, <1>8, <2>1, <4>1, TakenAway
        <3>2. \A a \in Attrs : Waiting(o.cached, a) = {} => Waiting(s, a) = {}
            BY <3>1 DEF Waiting
        <3>3. k = o.cached
            BY <1>5, <2>1
        <3> QED BY <1>8, <1>11, <1>12, <3>2, <3>3 DEF Data
    <2>2. CASE o.group # "none"
        <3>1. s = o.cached /\ k = <<>>
            BY <1>4, <1>5, <2>2
        <3>2. OneEach(k) /\ \A a \in Attrs : Waiting(k, a) = {}
            BY <3>1 DEF OneEach, Waiting, ToSet
        <3>3. ASSUME NEW a \in Attrs PROVE o.told[a] = w[a]
            <4>1. CASE Waiting(s, a) = {}
                BY <1>8, <1>11, <3>1, <4>1 DEF Data
            <4>2. CASE Waiting(s, a) # {}
                <5>1. PICK c \in Waiting(s, a) : o.told[a] = c.value
                    BY <1>8, <3>1, <4>2 DEF Data
                <5>2. Waiting(s, a) = {c}
                    BY <1>8, <3>1 DEF Waiting, OneEach, ToSet
                <5> QED BY <1>11, <5>1, <5>2
            <4> QED BY <4>1, <4>2
        <3> QED BY <1>12, <3>2, <3>3 DEF Data
    <2> QED BY <2>1, <2>2
<1>14. TaskFits'
    BY <1>3, Handled DEF TaskFits
<1> QED BY <1>2, <1>3, <1>9, <1>12, <1>13, <1>14, ObjectInductive

(***************************************************************************)
(* The elements of the scene.                                              *)
(***************************************************************************)

\* Elements of one guid are added, each of them once.
LEMMA AppendedFacts ==
    ASSUME TypeOK, NEW g \in Guids, NEW els \in SUBSET Elements
    PROVE  LET d == Appended(g, els) IN
           /\ d \in [Elements -> [Guids -> Nat]]
           /\ \A el \in Elements : d[el][g] = IF el \in els THEN dom[el][g] + 1 ELSE dom[el][g]
           /\ \A el \in Elements : \A h \in Guids \ {g} : d[el][h] = dom[el][h]
<1>1. PICK d : d = Appended(g, els)
    OBVIOUS
<1>2. \A el \in Elements : dom[el] \in [Guids -> Nat] /\ dom[el][g] \in Nat
    BY DEF TypeOK
<1>3. \A el \in els : d[el] = [dom[el] EXCEPT ![g] = @ + 1]
    BY <1>1 DEF Appended
<1>4. \A el \in Elements \ els : d[el] = dom[el]
    BY <1>1 DEF Appended
<1>5. \A el \in els : d[el] \in [Guids -> Nat] /\ d[el][g] = dom[el][g] + 1 /\ \A h \in Guids \ {g} : d[el][h] = dom[el][h]
    <2> SUFFICES ASSUME NEW el \in els
                 PROVE  d[el] \in [Guids -> Nat] /\ d[el][g] = dom[el][g] + 1 /\ \A h \in Guids \ {g} : d[el][h] = dom[el][h]
        OBVIOUS
    <2>1. PICK f \in [Guids -> Nat] : f = dom[el]
        BY <1>2
    <2>2. d[el] = [f EXCEPT ![g] = f[g] + 1]
        BY <1>3, <2>1
    <2>3. f[g] + 1 \in Nat
        BY <2>1
    <2> QED BY <2>1, <2>2, <2>3
<1>6. d \in [Elements -> [Guids -> Nat]]
    <2>1. d = [el \in Elements |-> d[el]]
        BY <1>1 DEF Appended
    <2>2. \A el \in Elements : d[el] \in [Guids -> Nat]
        BY <1>2, <1>4, <1>5
    <2> QED BY <2>1, <2>2
<1> QED BY <1>1, <1>4, <1>5, <1>6

\* Elements of one guid that are in the scene are taken away, each of them once.
LEMMA RemovedFacts ==
    ASSUME TypeOK, NEW g \in Guids, NEW els \in SUBSET Elements, \A el \in els : dom[el][g] > 0
    PROVE  LET d == Removed(g, els) IN
           /\ d \in [Elements -> [Guids -> Nat]]
           /\ \A el \in Elements : d[el][g] = IF el \in els THEN dom[el][g] - 1 ELSE dom[el][g]
           /\ \A el \in Elements : \A h \in Guids \ {g} : d[el][h] = dom[el][h]
<1>1. PICK d : d = Removed(g, els)
    OBVIOUS
<1>2. \A el \in Elements : dom[el] \in [Guids -> Nat] /\ dom[el][g] \in Nat
    BY DEF TypeOK
<1>3. \A el \in els : d[el] = [dom[el] EXCEPT ![g] = @ - 1]
    BY <1>1 DEF Removed
<1>4. \A el \in Elements \ els : d[el] = dom[el]
    BY <1>1 DEF Removed
<1>5. \A el \in els : d[el] \in [Guids -> Nat] /\ d[el][g] = dom[el][g] - 1 /\ \A h \in Guids \ {g} : d[el][h] = dom[el][h]
    <2> SUFFICES ASSUME NEW el \in els
                 PROVE  d[el] \in [Guids -> Nat] /\ d[el][g] = dom[el][g] - 1 /\ \A h \in Guids \ {g} : d[el][h] = dom[el][h]
        OBVIOUS
    <2>1. PICK f \in [Guids -> Nat] : f = dom[el]
        BY <1>2
    <2>2. d[el] = [f EXCEPT ![g] = f[g] - 1]
        BY <1>3, <2>1
    <2>3. f[g] - 1 \in Nat
        <3>1. f[g] \in Nat /\ f[g] > 0
            BY <2>1
        <3> QED BY <3>1
    <2> QED BY <2>1, <2>2, <2>3
<1>6. d \in [Elements -> [Guids -> Nat]]
    <2>1. d = [el \in Elements |-> d[el]]
        BY <1>1 DEF Removed
    <2>2. \A el \in Elements : d[el] \in [Guids -> Nat]
        BY <1>2, <1>4, <1>5
    <2> QED BY <2>1, <2>2
<1> QED BY <1>1, <1>4, <1>5, <1>6

\* The elements of an entity fit when neither they nor its object change, and it waits no more
\* than before.
LEMMA ElementsStay ==
    ASSUME NEW x, NEW h, ElementsFit(x, h), registry'[h] = registry[h],
           entities'[x].group = entities[x].group, entities'[x].transform = entities[x].transform,
           dom'["transform"][h] = dom["transform"][h], dom'["group"][h] = dom["group"][h],
           dom'["light"][h] = dom["light"][h], Waits(x)' => Waits(x)
    PROVE  ElementsFit(x, h)'
<1>1. /\ entities[x].transform = (registry[h] # 0 /\ Mesh[h] # NoMesh)
      /\ dom["transform"][h] = IF entities[x].transform THEN 1 ELSE 0
      /\ registry[h] = 0 => entities[x].group = "none"
      /\ h \notin Lights \/ Mesh[h] = NoMesh => dom["light"][h] = 0 /\ entities[x].group # "light"
      /\ Mesh[h] \notin Uris => dom["group"][h] = 0 /\ entities[x].group # "group"
      /\ h \notin Lights => dom["group"][h] = IF entities[x].group = "group" THEN 1 ELSE 0
      /\ h \in Lights /\ Mesh[h] # NoMesh =>
             IF registry[h] # 0
             THEN dom["light"][h] = 1 /\ dom["group"][h] <= 1 /\ entities[x].group # "none"
             ELSE dom["light"][h] + dom["group"][h] <= 1 /\ (Mesh[h] \notin Uris => dom["light"][h] = 0)
      /\ Waits(x)' => entities[x].group # "group" /\ dom["group"][h] = 0
    BY DEF ElementsFit
<1> QED BY <1>1 DEF ElementsFit

\* The scene fits when what changes is about one entity, and fits.
LEMMA SceneOfOne ==
    ASSUME SceneFits, DOMAIN entities' = DOMAIN entities, \A x \in DOMAIN entities : entities'[x].guid = entities[x].guid,
           NEW g \in Guids, \E x \in DOMAIN entities : GuidOf(x) = g,
           \A h \in Guids \ {g} : registry'[h] = registry[h],
           \A h \in Guids \ {g}, el \in {"transform", "group", "light"} : dom'[el][h] = dom[el][h],
           \A x \in DOMAIN entities : GuidOf(x) # g =>
               /\ entities'[x].group = entities[x].group /\ entities'[x].transform = entities[x].transform
               /\ Waits(x)' => Waits(x),
           \A x \in DOMAIN entities : GuidOf(x) = g /\ (\A f \in DOMAIN entities : GuidOf(f) = g => f = x)
                                      /\ ElementsFit(x, g) => ElementsFit(x, g)'
    PROVE  SceneFits'
<1>1. \A x \in DOMAIN entities : GuidOf(x)' = GuidOf(x)
    BY DEF GuidOf
<1> SUFFICES ASSUME NEW h \in Guids
             PROVE  /\ (\A x \in DOMAIN entities : GuidOf(x) # h) =>
                           registry'[h] = 0 /\ \A el \in {"transform", "group", "light"} : dom'[el][h] = 0
                    /\ \A x \in DOMAIN entities :
                           GuidOf(x) = h /\ (\A f \in DOMAIN entities : GuidOf(f) = h => f = x) => ElementsFit(x, h)'
    BY <1>1 DEF SceneFits
<1>2. /\ (\A x \in DOMAIN entities : GuidOf(x) # h) =>
             registry[h] = 0 /\ \A el \in {"transform", "group", "light"} : dom[el][h] = 0
      /\ \A x \in DOMAIN entities :
             GuidOf(x) = h /\ (\A f \in DOMAIN entities : GuidOf(f) = h => f = x) => ElementsFit(x, h)
    BY DEF SceneFits
<1>3. CASE h = g
    BY <1>2, <1>3
<1>4. CASE h # g
    <2>1. ASSUME NEW x \in DOMAIN entities, GuidOf(x) = h, ElementsFit(x, h) PROVE ElementsFit(x, h)'
        <3>1. /\ registry'[h] = registry[h] /\ entities'[x].group = entities[x].group
              /\ entities'[x].transform = entities[x].transform /\ (Waits(x)' => Waits(x))
              /\ dom'["transform"][h] = dom["transform"][h] /\ dom'["group"][h] = dom["group"][h]
              /\ dom'["light"][h] = dom["light"][h]
            BY <1>4, <2>1
        <3> QED BY <2>1, <3>1, ElementsStay
    <2> QED BY <1>2, <1>4, <2>1
<1> QED BY <1>3, <1>4

\* Those who wait for a mesh are objects.
LEMMA PendingTypes ==
    ASSUME TypeOK, NEW u \in Uris
    PROVE  pending[u] \in Seq(DOMAIN entities) /\ ToSet(pending[u]) \subseteq DOMAIN entities
<1>1. DOMAIN entities = 1 .. Len(entities)
    BY LenProperties DEF TypeOK
<1>2. pending[u] \in Seq(DOMAIN entities)
    BY <1>1 DEF TypeOK
<1> QED BY <1>2, Members

(***************************************************************************)
(* Answers to requests, and the loop over those who wait.                  *)
(***************************************************************************)

\* The scene fits when no object, and no element that an object has one of, changes.
LEMMA SceneStays ==
    ASSUME SceneFits, UNCHANGED <<registry, entities>>,
           \A h \in Guids, el \in {"transform", "group", "light"} : dom'[el][h] = dom[el][h],
           \A x \in DOMAIN entities : Waits(x)' => Waits(x)
    PROVE  SceneFits'
<1>1. \A x \in DOMAIN entities : GuidOf(x)' = GuidOf(x)
    BY DEF GuidOf
<1>2. ASSUME NEW h \in Guids, NEW x \in DOMAIN entities, ElementsFit(x, h) PROVE ElementsFit(x, h)'
    <2>1. /\ dom'["transform"][h] = dom["transform"][h] /\ dom'["group"][h] = dom["group"][h]
          /\ dom'["light"][h] = dom["light"][h] /\ (Waits(x)' => Waits(x))
        OBVIOUS
    <2> QED BY <1>2, <2>1, ElementsStay
<1> QED BY <1>1, <1>2 DEF SceneFits

\* A mesh could not be loaded: those who wait for it go on waiting.
LEMMA AjaxErrorInductive ==
    ASSUME Inductive, NEW u \in Uris, AjaxError(u)
    PROVE  Inductive'
<1>1. /\ TypeOK /\ CacheFits /\ LatestKept /\ RegistryFits /\ PendingFits /\ SceneFits
      /\ document \in [Uris -> {"absent", "requested", "cached", "failed"}]
    BY DEF Inductive, TypeOK
<1>2. /\ task = Idle /\ document[u] = "requested" /\ document' = [document EXCEPT ![u] = "failed"]
      /\ UNCHANGED <<registry, entities, pending, dom, task, updates>>
    BY DEF AjaxError
<1>3. /\ document' \in [Uris -> {"absent", "requested", "cached", "failed"}]
      /\ \A v \in Uris : document'[v] = "cached" <=> document[v] = "cached"
    BY <1>1, <1>2
<1>4. TypeOK'
    BY <1>1, <1>2, <1>3 DEF TypeOK
<1>5. CacheFits' /\ LatestKept'
    BY <1>1, <1>2, DataKept
<1>6. RegistryFits'
    BY <1>1, <1>2 DEF RegistryFits, GuidOf
<1>7. TaskFits'
    BY <1>2 DEF TaskFits
<1>8. PendingFits'
    BY <1>1, <1>2, <1>3 DEF PendingFits, GuidOf, Registered
<1>9. \A x \in DOMAIN entities : Waits(x)' => Waits(x)
    BY <1>2, <1>3 DEF Waits, GuidOf
<1>10. SceneFits'
    BY <1>1, <1>2, <1>9, SceneStays
<1> QED BY <1>4, <1>5, <1>6, <1>7, <1>8, <1>10 DEF Inductive

\* A mesh has been loaded: all who wait for it are to be handled.
LEMMA AjaxSuccessInductive ==
    ASSUME Inductive, NEW u \in Uris, AjaxSuccess(u)
    PROVE  Inductive'
<1>1. /\ TypeOK /\ CacheFits /\ LatestKept /\ RegistryFits /\ PendingFits /\ SceneFits
      /\ document \in [Uris -> {"absent", "requested", "cached", "failed"}]
    BY DEF Inductive, TypeOK
<1>2. /\ task = Idle /\ document[u] = "requested" /\ document' = [document EXCEPT ![u] = "cached"]
      /\ task' = Handling(u, pending[u])
      /\ UNCHANGED <<registry, entities, pending, dom, updates>>
    BY DEF AjaxSuccess
<1>3. /\ document' \in [Uris -> {"absent", "requested", "cached", "failed"}]
      /\ document'[u] = "cached" /\ \A v \in Uris \ {u} : document'[v] = document[v]
    BY <1>1, <1>2
<1>4. pending[u] \in Seq(DOMAIN entities)
    BY <1>1, PendingTypes
<1>5. \/ task' = Idle /\ pending[u] = <<>>
      \/ task'.kind = u /\ task'.rest = pending[u] /\ pending[u] # <<>>
    BY <1>2, Handled
<1>6. task.kind = "idle" /\ \A v \in Uris : task.kind # v
    BY <1>2, Handled, MeshAssumption DEF Idle
<1>7. \A v \in Uris : v # u => task'.kind # v
    BY <1>5, Handled
<1>8. TypeOK'
    <2>1. task'.kind \in {"idle", "objects", "updates"} \cup Uris
        BY <1>5, Handled
    <2> QED BY <1>1, <1>2, <1>3, <2>1 DEF TypeOK
<1>9. CacheFits' /\ LatestKept'
    BY <1>1, <1>2, DataKept
<1>10. RegistryFits'
    BY <1>1, <1>2 DEF RegistryFits, GuidOf
<1>11. TaskFits'
    <2>1. CASE task' = Idle
        BY <2>1, Handled DEF TaskFits
    <2>2. CASE task'.kind = u /\ task'.rest = pending[u] /\ pending[u] # <<>>
        <3>1. IsInjective(pending[u])
            BY <1>1 DEF PendingFits
        <3> QED BY <1>2, <1>3, <1>4, <2>2, <3>1 DEF TaskFits
    <2> QED BY <1>5, <2>1, <2>2
<1>12. PendingFits'
    <2> SUFFICES ASSUME NEW v \in Uris
                 PROVE  /\ IsInjective(pending[v])
                        /\ \A e \in ToSet(pending[v]) : Mesh[GuidOf(e)'] = v
                        /\ document'[v] = "cached" /\ task'.kind # v /\ pending[v] # <<>> =>
                               \E e \in ToSet(pending[v]) : ~Registered(e)'
        BY <1>2 DEF PendingFits
    <2>1. IsInjective(pending[v]) /\ \A e \in ToSet(pending[v]) : Mesh[GuidOf(e)'] = v
        BY <1>1, <1>2 DEF PendingFits, GuidOf
    <2>2. CASE v = u
        BY <1>5, <2>1, <2>2
    <2>3. CASE v # u
        <3>1. document[v] = "cached" /\ task.kind # v /\ pending[v] # <<>> =>
                  \E e \in ToSet(pending[v]) : ~Registered(e)
            BY <1>1 DEF PendingFits
        <3>2. \A e : Registered(e)' <=> Registered(e)
            BY <1>2 DEF Registered, GuidOf
        <3> QED BY <1>3, <1>6, <2>1, <2>3, <3>1, <3>2
    <2> QED BY <2>2, <2>3
<1>13. \A x \in DOMAIN entities : Waits(x)' => Waits(x)
    <2> SUFFICES ASSUME NEW x \in DOMAIN entities, Waits(x)' PROVE Waits(x)
        OBVIOUS
    <2>1. PICK v : v = Mesh[GuidOf(x)]
        OBVIOUS
    <2>2. \/ v \in Uris /\ document'[v] # "cached" /\ x \in ToSet(pending[v])
          \/ v \in Uris /\ task'.kind = v /\ x \in ToSet(task'.rest)
        BY <1>2, <2>1 DEF Waits, GuidOf
    <2>3. v \in Uris /\ document[v] # "cached" /\ x \in ToSet(pending[v])
        <3>1. CASE v \in Uris /\ document'[v] # "cached" /\ x \in ToSet(pending[v])
            BY <1>3, <3>1
        <3>2. CASE v \in Uris /\ task'.kind = v /\ x \in ToSet(task'.rest)
            BY <1>2, <1>5, <1>7, <3>2, Handled
        <3> QED BY <2>2, <3>1, <3>2
    <2> QED BY <2>1, <2>3 DEF Waits
<1>14. SceneFits'
    BY <1>1, <1>2, <1>13, SceneStays
<1> QED BY <1>8, <1>9, <1>10, <1>11, <1>12, <1>14 DEF Inductive

\* The first of those who are left of the loop over u.
LEMMA FirstLeft ==
    ASSUME Inductive, NEW u \in Uris, task.kind = u
    PROVE  /\ task.rest \in Seq(DOMAIN entities) /\ task.rest # <<>> /\ IsInjective(task.rest)
           /\ ToSet(task.rest) \subseteq ToSet(pending[u]) /\ document[u] = "cached"
           /\ Head(task.rest) \in DOMAIN entities /\ Head(task.rest) \in ToSet(task.rest)
           /\ entities[Head(task.rest)] \in Entity /\ entities[Head(task.rest)].guid \in Guids
           /\ Mesh[entities[Head(task.rest)].guid] = u
<1>1. TypeOK /\ TaskFits /\ PendingFits
    BY DEF Inductive
<1>2. task.kind # "idle"
    BY MeshAssumption
<1>3. /\ task.rest # <<>> /\ task.rest \in Seq(DOMAIN entities) /\ IsInjective(task.rest)
      /\ ToSet(task.rest) \subseteq ToSet(pending[u]) /\ document[u] = "cached"
    BY <1>1, <1>2, TaskKinds
<1>4. PICK w : w = Head(task.rest)
    OBVIOUS
<1>5. w \in DOMAIN entities /\ w \in ToSet(task.rest)
    BY <1>3, <1>4, TakenAway
<1>6. entities[w] \in Entity /\ entities[w].guid \in Guids
    <2>1. entities \in Seq(Entity)
        BY <1>1 DEF TypeOK
    <2> QED BY <1>5, <2>1, Members, EntityFacts
<1>7. Mesh[entities[w].guid] = u
    BY <1>1, <1>3, <1>5 DEF PendingFits, GuidOf
<1> QED BY <1>3, <1>4, <1>5, <1>6, <1>7

\* The loop ends at an entity that has been removed: it is one of those that are left over.
LEMMA HandlePendingThrowsInductive ==
    ASSUME Inductive, NEW u \in Uris, HandlePendingThrows(u)
    PROVE  Inductive'
<1>1. TypeOK /\ CacheFits /\ LatestKept /\ RegistryFits /\ PendingFits /\ SceneFits
    BY DEF Inductive
<1>2. PICK w, g : w = Head(task.rest) /\ g = entities[w].guid
    OBVIOUS
<1>3. /\ task.kind = u /\ registry[g] = 0 /\ dom' = Appended(g, {"defs"}) /\ task' = Idle
      /\ UNCHANGED <<registry, entities, document, pending, updates>>
    BY <1>2 DEF HandlePendingThrows
<1>4. /\ ToSet(task.rest) \subseteq ToSet(pending[u]) /\ w \in DOMAIN entities /\ w \in ToSet(task.rest)
      /\ g \in Guids
    BY <1>2, <1>3, FirstLeft
<1>5. PICK d : d = dom'
    OBVIOUS
<1>6. /\ d \in [Elements -> [Guids -> Nat]]
      /\ \A el \in Elements : d[el][g] = IF el \in {"defs"} THEN dom[el][g] + 1 ELSE dom[el][g]
      /\ \A el \in Elements : \A h \in Guids \ {g} : d[el][h] = dom[el][h]
    <2>1. {"defs"} \in SUBSET Elements
        BY DEF Elements
    <2>2. PICK els \in SUBSET Elements : els = {"defs"}
        BY <2>1
    <2>3. d = Appended(g, els)
        BY <1>3, <1>5, <2>2
    <2> QED BY <1>1, <1>4, <2>2, <2>3, AppendedFacts
<1>7. TypeOK'
    BY <1>1, <1>3, <1>5, <1>6, Handled DEF TypeOK, Idle
<1>8. CacheFits' /\ LatestKept'
    BY <1>1, <1>3, DataKept
<1>9. RegistryFits'
    <2> SUFFICES ASSUME NEW h \in Guids, registry[h] # 0
                 PROVE  GuidOf(registry[h]) = h /\ \A el \in ViewOf(entities[registry[h]]) : d[el][h] > 0
        BY <1>3, <1>5 DEF RegistryFits, GuidOf
    <2>1. h # g
        BY <1>3
    <2>2. ViewOf(entities[registry[h]]) \subseteq Elements
        <3>1. entities[registry[h]].group \in {"none", "group", "light"}
            BY <1>1, TheRegistered, EntityFacts
        <3> QED BY <3>1 DEF ViewOf, Elements
    <2> QED BY <1>1, <1>6, <2>1, <2>2 DEF RegistryFits
<1>10. TaskFits'
    BY <1>3 DEF TaskFits
<1>11. PendingFits'
    <2> SUFFICES ASSUME NEW v \in Uris
                 PROVE  /\ IsInjective(pending[v])
                        /\ \A e \in ToSet(pending[v]) : Mesh[GuidOf(e)'] = v
                        /\ document[v] = "cached" /\ task'.kind # v /\ pending[v] # <<>> =>
                               \E e \in ToSet(pending[v]) : ~Registered(e)'
        BY <1>3 DEF PendingFits
    <2>1. \A e : GuidOf(e)' = GuidOf(e) /\ (Registered(e)' <=> Registered(e))
        BY <1>3 DEF Registered, GuidOf
    <2>2. /\ IsInjective(pending[v]) /\ \A e \in ToSet(pending[v]) : Mesh[GuidOf(e)] = v
          /\ document[v] = "cached" /\ task.kind # v /\ pending[v] # <<>> =>
                 \E e \in ToSet(pending[v]) : ~Registered(e)
        BY <1>1 DEF PendingFits
    <2>3. w \in ToSet(pending[u]) /\ ~Registered(w)
        <3>1. w # 0
            <4>1. entities \in Seq(Entity)
                BY <1>1 DEF TypeOK
            <4>2. w \in Nat \ {0}
                BY <1>4, <4>1, Members
            <4> QED BY <4>2
        <3> QED BY <1>2, <1>3, <1>4, <3>1 DEF Registered, GuidOf
    <2> QED BY <1>3, <2>1, <2>2, <2>3
<1>12. \A x \in DOMAIN entities : Waits(x)' => Waits(x)
    <2> SUFFICES ASSUME NEW x \in DOMAIN entities, Waits(x)' PROVE Waits(x)
        OBVIOUS
    <2>1. PICK v : v = Mesh[GuidOf(x)]
        OBVIOUS
    <2>2. \/ v \in Uris /\ document[v] # "cached" /\ x \in ToSet(pending[v])
          \/ v \in Uris /\ task'.kind = v /\ x \in ToSet(task'.rest)
        BY <1>3, <2>1 DEF Waits, GuidOf
    <2>3. v \in Uris => task'.kind # v
        BY <1>3, Handled
    <2> QED BY <2>1, <2>2, <2>3 DEF Waits
<1>13. SceneFits'
    <2>1. \A h \in Guids, el \in {"transform", "group", "light"} : dom'[el][h] = dom[el][h]
        BY <1>5, <1>6 DEF Elements
    <2> QED BY <1>1, <1>3, <1>12, <2>1, SceneStays
<1> QED BY <1>7, <1>8, <1>9, <1>10, <1>11, <1>13 DEF Inductive

(***************************************************************************)
(* Entities are removed.                                                   *)
(***************************************************************************)

\* The elements of the one object there has been of g, once they are taken away.
LEMMA ElementsTaken ==
    ASSUME NEW e, NEW g, ElementsFit(e, g), registry[g] # 0, registry'[g] = 0,
           entities[e].group \in {"none", "group", "light"}, entities[e].transform \in BOOLEAN,
           \A el \in {"transform", "group", "light"} :
               dom[el][g] \in Nat /\ dom'[el][g] = IF el \in ViewOf(entities[e]) THEN dom[el][g] - 1 ELSE dom[el][g],
           \A el \in ViewOf(entities[e]) : dom[el][g] > 0,
           entities'[e].group = "none", entities'[e].transform = FALSE, Waits(e)' => Waits(e)
    PROVE  ElementsFit(e, g)'
<1>1. PICK group, transform : group = entities[e].group /\ transform = entities[e].transform
    OBVIOUS
<1>2. PICK t, n, l : t = dom["transform"][g] /\ n = dom["group"][g] /\ l = dom["light"][g]
    OBVIOUS
<1>3. /\ transform = (Mesh[g] # NoMesh)
      /\ t = IF transform THEN 1 ELSE 0
      /\ g \notin Lights \/ Mesh[g] = NoMesh => l = 0 /\ group # "light"
      /\ Mesh[g] \notin Uris => n = 0 /\ group # "group"
      /\ g \notin Lights => n = IF group = "group" THEN 1 ELSE 0
      /\ g \in Lights /\ Mesh[g] # NoMesh => l = 1 /\ n <= 1 /\ group # "none"
      /\ Waits(e)' => group # "group" /\ n = 0
    BY <1>1, <1>2 DEF ElementsFit
<1>4. /\ "transform" \in ViewOf(entities[e]) <=> transform
      /\ "group" \in ViewOf(entities[e]) <=> group = "group"
      /\ "light" \in ViewOf(entities[e]) <=> group = "light"
    BY <1>1 DEF ViewOf
<1>5. PICK t1, n1, l1 : t1 = dom'["transform"][g] /\ n1 = dom'["group"][g] /\ l1 = dom'["light"][g]
    OBVIOUS
<1>6. /\ t1 = IF transform THEN t - 1 ELSE t
      /\ n1 = IF group = "group" THEN n - 1 ELSE n
      /\ l1 = IF group = "light" THEN l - 1 ELSE l
      /\ t \in Nat /\ n \in Nat /\ l \in Nat
      /\ group = "group" => n > 0
      /\ group = "light" => l > 0
    BY <1>2, <1>4, <1>5
<1>7. group \in {"none", "group", "light"} /\ transform \in BOOLEAN
    BY <1>1
<1>8. /\ t1 = 0
      /\ g \notin Lights \/ Mesh[g] = NoMesh => l1 = 0
      /\ Mesh[g] \notin Uris => n1 = 0
      /\ g \notin Lights => n1 = 0
      /\ Waits(e)' => n1 = 0
    BY <1>3, <1>6, <1>7
<1>9. ASSUME g \in Lights, Mesh[g] # NoMesh PROVE l1 + n1 <= 1 /\ (Mesh[g] \notin Uris => l1 = 0)
    <2>1. l = 1 /\ n <= 1 /\ group # "none" /\ (Mesh[g] \notin Uris => group # "group")
        BY <1>3, <1>9
    <2>2. CASE group = "light"
        BY <1>6, <2>1, <2>2
    <2>3. CASE group = "group"
        BY <1>6, <2>1, <2>3
    <2> QED BY <1>7, <2>1, <2>2, <2>3
<1> QED BY <1>5, <1>8, <1>9 DEF ElementsFit

\* An entity is removed: what its view refers to is taken out of the scene.
LEMMA RemoveEntityInductive ==
    ASSUME Inductive, NEW g \in Guids, RemoveEntity(g)
    PROVE  Inductive'
<1>1. /\ TypeOK /\ CacheFits /\ LatestKept /\ RegistryFits /\ PendingFits /\ SceneFits
      /\ entities \in Seq(Entity)
    BY DEF Inductive, TypeOK
<1>2. PICK e : e = registry[g]
    OBVIOUS
<1>3. registry[g] # 0 /\ task = Idle
    BY DEF RemoveEntity
<1>4. e \in DOMAIN entities /\ entities[e] \in Entity /\ entities[e].guid = g
    BY <1>1, <1>2, <1>3, TheRegistered
<1>5. PICK o \in Entity : o = entities[e]
    BY <1>4
<1>6. PICK r : r = [o EXCEPT !.group = "none", !.transform = FALSE, !.defs = FALSE]
    OBVIOUS
<1>7. /\ dom' = Removed(g, ViewOf(o)) /\ registry' = [registry EXCEPT ![g] = 0]
      /\ UNCHANGED <<document, pending, task, updates>>
    BY <1>2, <1>5 DEF RemoveEntity
<1>8. entities' = [entities EXCEPT ![e] = r]
    <2>1. entities' = [entities EXCEPT ![e].group = "none", ![e].transform = FALSE, ![e].defs = FALSE]
        BY <1>2 DEF RemoveEntity
    <2> QED BY <1>1, <1>4, <1>5, <1>6, <2>1
<1>9. /\ r \in Entity /\ r.guid = g /\ r.values = o.values /\ r.cached = o.cached /\ r.told = o.told
      /\ r.group = "none" /\ r.transform = FALSE /\ r.defs = FALSE
    BY <1>4, <1>5, <1>6 DEF Entity
<1>10. PICK t : t = entities'
    OBVIOUS
<1>11. /\ t \in Seq(Entity) /\ Len(t) = Len(entities) /\ DOMAIN t = DOMAIN entities
       /\ t[e] = r /\ \A x \in DOMAIN entities : x # e => t[x] = entities[x]
    <2>1. t = [entities EXCEPT ![e] = r]
        BY <1>8, <1>10
    <2> QED BY <1>1, <1>4, <1>9, <2>1, Exchanged
<1>12. PICK d : d = dom'
    OBVIOUS
<1>13. /\ ViewOf(o) \subseteq Elements /\ \A el \in ViewOf(o) : dom[el][g] > 0
    <2>1. o.group \in {"none", "group", "light"}
        BY EntityFacts
    <2>2. ViewOf(o) \subseteq Elements
        BY <2>1 DEF ViewOf, Elements
    <2> QED BY <1>1, <1>2, <1>3, <1>5, <2>2 DEF RegistryFits
<1>14. /\ d \in [Elements -> [Guids -> Nat]]
       /\ \A el \in Elements : d[el][g] = IF el \in ViewOf(o) THEN dom[el][g] - 1 ELSE dom[el][g]
       /\ \A el \in Elements : \A h \in Guids \ {g} : d[el][h] = dom[el][h]
    <2>1. PICK els \in SUBSET Elements : els = ViewOf(o)
        BY <1>13
    <2>2. d = Removed(g, els) /\ \A el \in els : dom[el][g] > 0
        BY <1>7, <1>12, <1>13, <2>1
    <2> QED BY <1>1, <2>1, <2>2, RemovedFacts
<1>15. /\ registry' \in [Guids -> 0 .. Len(entities)] /\ registry'[g] = 0
       /\ \A h \in Guids \ {g} : registry'[h] = registry[h]
    <2>1. registry \in [Guids -> 0 .. Len(entities)] /\ Len(entities) \in Nat
        BY <1>1, LenProperties DEF TypeOK
    <2> QED BY <1>7, <2>1
<1>16. TypeOK'
    BY <1>1, <1>7, <1>10, <1>11, <1>12, <1>14, <1>15 DEF TypeOK
<1>17. CacheFits' /\ LatestKept'
    <2>1. \A x \in DOMAIN entities : /\ entities'[x].values = entities[x].values
                                     /\ entities'[x].cached = entities[x].cached
                                     /\ entities'[x].told = entities[x].told
        BY <1>5, <1>9, <1>10, <1>11
    <2> QED BY <1>1, <1>10, <1>11, <2>1, DataKept
<1>18. \A x \in DOMAIN entities : entities'[x].guid = entities[x].guid
    BY <1>4, <1>9, <1>10, <1>11
<1>19. RegistryFits'
    <2> SUFFICES ASSUME NEW h \in Guids, registry'[h] # 0
                 PROVE  t[registry'[h]].guid = h /\ \A el \in ViewOf(t[registry'[h]]) : d[el][h] > 0
        BY <1>10, <1>12 DEF RegistryFits, GuidOf
    <2>1. h # g /\ registry'[h] = registry[h]
        BY <1>15
    <2>2. registry[h] \in DOMAIN entities /\ entities[registry[h]] \in Entity /\ entities[registry[h]].guid = h
        BY <1>1, <2>1, TheRegistered
    <2>3. registry[h] # e
        BY <1>4, <2>1, <2>2
    <2>4. t[registry'[h]] = entities[registry[h]]
        BY <1>11, <2>1, <2>2, <2>3
    <2>5. ViewOf(entities[registry[h]]) \subseteq Elements
        <3>1. entities[registry[h]].group \in {"none", "group", "light"}
            BY <2>2, EntityFacts
        <3> QED BY <3>1 DEF ViewOf, Elements
    <2>6. \A el \in ViewOf(entities[registry[h]]) : dom[el][h] > 0
        BY <1>1, <2>1 DEF RegistryFits
    <2> QED BY <1>14, <2>1, <2>2, <2>4, <2>5, <2>6
<1>20. TaskFits'
    BY <1>3, <1>7 DEF TaskFits
<1>21. PendingFits'
    <2> SUFFICES ASSUME NEW v \in Uris
                 PROVE  /\ IsInjective(pending[v])
                        /\ \A x \in ToSet(pending[v]) : Mesh[GuidOf(x)'] = v
                        /\ document[v] = "cached" /\ task.kind # v /\ pending[v] # <<>> =>
                               \E x \in ToSet(pending[v]) : ~Registered(x)'
        BY <1>7 DEF PendingFits
    <2>1. ToSet(pending[v]) \subseteq DOMAIN entities
        BY <1>1, PendingTypes
    <2>2. \A x \in DOMAIN entities : GuidOf(x)' = GuidOf(x)
        BY <1>18 DEF GuidOf
    <2>3. ASSUME NEW x \in DOMAIN entities, ~Registered(x) PROVE ~Registered(x)'
        <3>1. x # 0 /\ GuidOf(x) \in Guids
            <4>1. x \in Nat \ {0} /\ entities[x] \in Entity
                BY <1>1, Members
            <4> QED BY <4>1, EntityFacts DEF GuidOf
        <3>2. registry'[GuidOf(x)] # x
            <4>1. registry[GuidOf(x)] # x
                BY <2>3 DEF Registered
            <4> QED BY <1>15, <3>1, <4>1
        <3> QED BY <2>2, <3>2 DEF Registered
    <2>4. /\ IsInjective(pending[v]) /\ \A x \in ToSet(pending[v]) : Mesh[GuidOf(x)] = v
          /\ document[v] = "cached" /\ task.kind # v /\ pending[v] # <<>> =>
                 \E x \in ToSet(pending[v]) : ~Registered(x)
        BY <1>1 DEF PendingFits
    <2> QED BY <2>1, <2>2, <2>3, <2>4
<1>22. \A x \in DOMAIN entities : Waits(x)' => Waits(x)
    <2> SUFFICES ASSUME NEW x \in DOMAIN entities, Waits(x)' PROVE Waits(x)
        OBVIOUS
    <2>1. GuidOf(x)' = GuidOf(x)
        BY <1>18 DEF GuidOf
    <2> QED BY <1>7, <2>1 DEF Waits
<1>23. SceneFits'
    <2>1. \A h \in Guids \ {g}, el \in {"transform", "group", "light"} : dom'[el][h] = dom[el][h]
        BY <1>12, <1>14 DEF Elements
    <2>2. \E x \in DOMAIN entities : GuidOf(x) = g
        BY <1>4 DEF GuidOf
    <2>3. \A x \in DOMAIN entities : GuidOf(x) # g =>
              /\ entities'[x].group = entities[x].group /\ entities'[x].transform = entities[x].transform
              /\ Waits(x)' => Waits(x)
        BY <1>4, <1>10, <1>11, <1>22 DEF GuidOf
    <2>4. ASSUME NEW x \in DOMAIN entities, GuidOf(x) = g, \A f \in DOMAIN entities : GuidOf(f) = g => f = x,
                 ElementsFit(x, g)
          PROVE  ElementsFit(x, g)'
        <3>1. x = e
            BY <1>4, <2>4 DEF GuidOf
        <3>2. /\ entities[e].group \in {"none", "group", "light"} /\ entities[e].transform \in BOOLEAN
              /\ entities'[e].group = "none" /\ entities'[e].transform = FALSE /\ (Waits(e)' => Waits(e))
            BY <1>4, <1>9, <1>10, <1>11, <1>22, EntityFacts
        <3>3. \A el \in {"transform", "group", "light"} :
                  dom[el][g] \in Nat /\ dom'[el][g] = IF el \in ViewOf(entities[e]) THEN dom[el][g] - 1 ELSE dom[el][g]
            <4>1. \A el \in Elements : dom[el][g] \in Nat
                BY <1>1 DEF TypeOK
            <4> QED BY <1>5, <1>12, <1>14, <4>1 DEF Elements
        <3>4. \A el \in ViewOf(entities[e]) : dom[el][g] > 0
            BY <1>5, <1>13
        <3>5. ElementsFit(e, g) /\ registry'[g] = 0
            BY <1>15, <2>4, <3>1
        <3> QED BY <1>3, <3>1, <3>2, <3>3, <3>4, <3>5, ElementsTaken
    <2>5. DOMAIN entities' = DOMAIN entities
        BY <1>10, <1>11
    <2> QED BY <1>1, <1>15, <1>18, <2>1, <2>2, <2>3, <2>4, <2>5, SceneOfOne
<1> QED BY <1>16, <1>17, <1>19, <1>20, <1>21, <1>23 DEF Inductive

(***************************************************************************)
(* A mesh is shown.                                                        *)
(***************************************************************************)

\* The elements of the one object there has been of g, which waited for its mesh and has it now.
LEMMA ElementsShown ==
    ASSUME NEW e, NEW g, ElementsFit(e, g), Waits(e), ~Waits(e)', Mesh[g] \in Uris,
           registry[g] # 0, registry'[g] = registry[g],
           dom'["transform"][g] = dom["transform"][g], dom'["group"][g] = dom["group"][g] + 1,
           dom'["light"][g] = dom["light"][g],
           entities'[e].group = "group", entities'[e].transform = entities[e].transform
    PROVE  ElementsFit(e, g)'
<1>1. /\ entities[e].transform = (Mesh[g] # NoMesh)
      /\ dom["transform"][g] = IF entities[e].transform THEN 1 ELSE 0
      /\ g \notin Lights \/ Mesh[g] = NoMesh => dom["light"][g] = 0
      /\ g \in Lights /\ Mesh[g] # NoMesh => dom["light"][g] = 1
      /\ dom["group"][g] = 0
    BY DEF ElementsFit
<1>2. dom'["group"][g] = 1 /\ dom'["group"][g] <= 1
    BY <1>1
<1>3. Mesh[g] # NoMesh
    BY MeshAssumption
<1> QED BY <1>1, <1>2, <1>3 DEF ElementsFit

\* The entity whose turn it is has been registered: it is shown, and the loop goes on.
LEMMA HandlePendingInductive ==
    ASSUME Inductive, NEW u \in Uris, HandlePending(u)
    PROVE  Inductive'
<1>1. /\ TypeOK /\ CacheFits /\ LatestKept /\ RegistryFits /\ PendingFits /\ SceneFits
      /\ entities \in Seq(Entity)
    BY DEF Inductive, TypeOK
<1>2. PICK w, g, e, rest : w = Head(task.rest) /\ g = entities[w].guid /\ e = registry[g] /\ rest = Tail(task.rest)
    OBVIOUS
<1>3. /\ task.kind = u /\ e # 0 /\ dom' = Appended(g, {"group", "defs"}) /\ task' = Handling(u, rest)
      /\ pending' = IF Len(task.rest) = 1 THEN [pending EXCEPT ![u] = <<>>] ELSE pending
      /\ UNCHANGED <<registry, document, updates>>
    BY <1>2 DEF HandlePending
<1>4. /\ task.rest \in Seq(DOMAIN entities) /\ task.rest # <<>> /\ IsInjective(task.rest)
      /\ ToSet(task.rest) \subseteq ToSet(pending[u]) /\ document[u] = "cached"
      /\ w \in DOMAIN entities /\ w \in ToSet(task.rest) /\ g \in Guids /\ Mesh[g] = u
    BY <1>2, <1>3, FirstLeft
<1>5. /\ rest \in Seq(DOMAIN entities) /\ ToSet(rest) \subseteq ToSet(task.rest)
      /\ IsInjective(rest) /\ w \notin ToSet(rest) /\ (rest = <<>> <=> Len(task.rest) = 1)
    BY <1>2, <1>4, TakenAway
<1>6. e \in DOMAIN entities /\ entities[e] \in Entity /\ entities[e].guid = g
    BY <1>1, <1>2, <1>3, <1>4, TheRegistered
<1>7. PICK o \in Entity : o = entities[e]
    BY <1>6
<1>8. PICK r : r = [o EXCEPT !.group = "group", !.defs = TRUE]
    OBVIOUS
<1>9. entities' = [entities EXCEPT ![e] = r]
    <2>1. entities' = [entities EXCEPT ![e].group = "group", ![e].defs = TRUE]
        BY <1>2 DEF HandlePending
    <2> QED BY <1>1, <1>6, <1>7, <1>8, <2>1
<1>10. /\ r \in Entity /\ r.guid = g /\ r.values = o.values /\ r.cached = o.cached /\ r.told = o.told
       /\ r.group = "group" /\ r.transform = o.transform /\ r.defs = TRUE
    BY <1>6, <1>7, <1>8 DEF Entity
<1>11. PICK t : t = entities'
    OBVIOUS
<1>12. /\ t \in Seq(Entity) /\ Len(t) = Len(entities) /\ DOMAIN t = DOMAIN entities
       /\ t[e] = r /\ \A x \in DOMAIN entities : x # e => t[x] = entities[x]
    <2>1. t = [entities EXCEPT ![e] = r]
        BY <1>9, <1>11
    <2> QED BY <1>1, <1>6, <1>10, <2>1, Exchanged
<1>13. PICK d : d = dom'
    OBVIOUS
<1>14. /\ d \in [Elements -> [Guids -> Nat]]
       /\ \A el \in Elements : d[el][g] = IF el \in {"group", "defs"} THEN dom[el][g] + 1 ELSE dom[el][g]
       /\ \A el \in Elements : \A h \in Guids \ {g} : d[el][h] = dom[el][h]
    <2>1. {"group", "defs"} \in SUBSET Elements
        BY DEF Elements
    <2>2. PICK els \in SUBSET Elements : els = {"group", "defs"}
        BY <2>1
    <2>3. d = Appended(g, els)
        BY <1>3, <1>13, <2>2
    <2>4. /\ d \in [Elements -> [Guids -> Nat]]
          /\ \A el \in Elements : d[el][g] = IF el \in els THEN dom[el][g] + 1 ELSE dom[el][g]
          /\ \A el \in Elements : \A h \in Guids \ {g} : d[el][h] = dom[el][h]
        BY <1>1, <1>4, <2>3, AppendedFacts
    <2> QED BY <2>2, <2>4
<1>15. /\ \A v \in Uris \ {u} : pending'[v] = pending[v]
       /\ rest = <<>> => pending'[u] = <<>>
       /\ rest # <<>> => pending'[u] = pending[u]
       /\ pending' \in [Uris -> Seq(1 .. Len(entities))]
    <2>1. pending \in [Uris -> Seq(1 .. Len(entities))]
        BY <1>1 DEF TypeOK
    <2>2. PICK empty \in Seq(1 .. Len(entities)) : empty = <<>>
        BY EmptySeq
    <2>3. CASE rest = <<>>
        <3>1. pending' = [pending EXCEPT ![u] = empty]
            BY <1>3, <1>5, <2>2, <2>3
        <3> QED BY <2>1, <2>2, <2>3, <3>1
    <2>4. CASE rest # <<>>
        BY <1>3, <1>5, <2>1, <2>4
    <2> QED BY <2>3, <2>4
<1>16. \/ task' = Idle /\ rest = <<>>
       \/ task'.kind = u /\ task'.rest = rest /\ rest # <<>>
    BY <1>3, Handled
<1>17. \A v \in Uris : v # u => task'.kind # v
    BY <1>16, Handled
<1>18. TypeOK'
    <2>1. task'.kind \in {"idle", "objects", "updates"} \cup Uris
        BY <1>16, Handled
    <2> QED BY <1>1, <1>3, <1>11, <1>12, <1>13, <1>14, <1>15, <2>1 DEF TypeOK
<1>19. CacheFits' /\ LatestKept'
    <2>1. \A x \in DOMAIN entities : /\ entities'[x].values = entities[x].values
                                     /\ entities'[x].cached = entities[x].cached
                                     /\ entities'[x].told = entities[x].told
        BY <1>7, <1>10, <1>11, <1>12
    <2> QED BY <1>1, <1>11, <1>12, <2>1, DataKept
<1>20. \A x \in DOMAIN entities : entities'[x].guid = entities[x].guid /\ GuidOf(x)' = GuidOf(x)
    BY <1>6, <1>10, <1>11, <1>12 DEF GuidOf
<1>21. RegistryFits'
    <2> SUFFICES ASSUME NEW h \in Guids, registry[h] # 0
                 PROVE  t[registry[h]].guid = h /\ \A el \in ViewOf(t[registry[h]]) : d[el][h] > 0
        BY <1>3, <1>11, <1>13 DEF RegistryFits, GuidOf
    <2>1. registry[h] \in DOMAIN entities /\ entities[registry[h]] \in Entity /\ entities[registry[h]].guid = h
        BY <1>1, TheRegistered
    <2>2. ViewOf(entities[registry[h]]) \subseteq Elements
        <3>1. entities[registry[h]].group \in {"none", "group", "light"}
            BY <2>1, EntityFacts
        <3> QED BY <3>1 DEF ViewOf, Elements
    <2>3. \A el \in ViewOf(entities[registry[h]]) : dom[el][h] > 0
        BY <1>1 DEF RegistryFits
    <2>4. CASE h # g
        <3>1. registry[h] # e
            BY <1>6, <2>1, <2>4
        <3> QED BY <1>12, <1>14, <2>1, <2>2, <2>3, <2>4, <3>1
    <2>5. CASE h = g
        <3>1. t[registry[h]] = r
            BY <1>2, <1>12, <2>5
        <3>2. ViewOf(r) \subseteq {"group", "defs", "transform"} /\ ("transform" \in ViewOf(r) <=> o.transform)
            BY <1>10 DEF ViewOf
        <3>3. d["group"][g] > 0 /\ d["defs"][g] > 0
            <4>1. dom["group"][g] \in Nat /\ dom["defs"][g] \in Nat
                BY <1>1, <1>4 DEF TypeOK, Elements
            <4>2. d["group"][g] = dom["group"][g] + 1 /\ d["defs"][g] = dom["defs"][g] + 1
                BY <1>14 DEF Elements
            <4> QED BY <4>1, <4>2
        <3>4. o.transform => d["transform"][g] > 0
            <4>1. o.transform => "transform" \in ViewOf(entities[registry[h]])
                BY <1>2, <1>7, <2>5 DEF ViewOf
            <4>2. d["transform"][g] = dom["transform"][g]
                BY <1>14 DEF Elements
            <4> QED BY <2>3, <2>5, <4>1, <4>2
        <3> QED BY <1>10, <2>5, <3>1, <3>2, <3>3, <3>4
    <2> QED BY <2>4, <2>5
<1>22. TaskFits'
    <2>1. CASE task' = Idle
        BY <2>1 DEF TaskFits
    <2>2. CASE task'.kind = u /\ task'.rest = rest /\ rest # <<>>
        <3>1. rest \in Seq(DOMAIN entities') /\ document'[u] = "cached" /\ ToSet(rest) \subseteq ToSet(pending'[u])
            BY <1>3, <1>4, <1>5, <1>11, <1>12, <1>15, <2>2
        <3> QED BY <1>5, <2>2, <3>1 DEF TaskFits
    <2> QED BY <1>16, <2>1, <2>2
<1>23. PendingFits'
    <2> SUFFICES ASSUME NEW v \in Uris
                 PROVE  /\ IsInjective(pending'[v])
                        /\ \A x \in ToSet(pending'[v]) : Mesh[GuidOf(x)'] = v
                        /\ document[v] = "cached" /\ task'.kind # v /\ pending'[v] # <<>> =>
                               \E x \in ToSet(pending'[v]) : ~Registered(x)'
        BY <1>3 DEF PendingFits
    <2>1. ToSet(pending[v]) \subseteq DOMAIN entities
        BY <1>1, PendingTypes
    <2>2. \A x \in DOMAIN entities : Registered(x)' <=> Registered(x)
        BY <1>3, <1>11, <1>12, <1>20 DEF Registered
    <2>3. /\ IsInjective(pending[v]) /\ \A x \in ToSet(pending[v]) : Mesh[GuidOf(x)] = v
          /\ document[v] = "cached" /\ task.kind # v /\ pending[v] # <<>> =>
                 \E x \in ToSet(pending[v]) : ~Registered(x)
        BY <1>1 DEF PendingFits
    <2>4. IsInjective(<<>>) /\ ToSet(<<>>) = {}
        BY DEF IsInjective, ToSet
    <2>5. CASE v = u
        BY <1>15, <1>16, <1>20, <2>1, <2>3, <2>4, <2>5
    <2>6. CASE v # u
        BY <1>3, <1>15, <1>20, <2>1, <2>2, <2>3, <2>6
    <2> QED BY <2>5, <2>6
<1>24. \A x \in DOMAIN entities : Waits(x)' => Waits(x) /\ x # w
    <2> SUFFICES ASSUME NEW x \in DOMAIN entities, Waits(x)' PROVE Waits(x) /\ x # w
        OBVIOUS
    <2>1. PICK v : v = Mesh[GuidOf(x)]
        OBVIOUS
    <2>2. \/ v \in Uris /\ document[v] # "cached" /\ x \in ToSet(pending'[v])
          \/ v \in Uris /\ task'.kind = v /\ x \in ToSet(task'.rest)
        BY <1>3, <1>20, <2>1 DEF Waits
    <2>3. CASE v \in Uris /\ document[v] # "cached" /\ x \in ToSet(pending'[v])
        <3>1. v # u
            BY <1>4, <2>3
        <3>2. Mesh[GuidOf(w)] = u
            BY <1>2, <1>4 DEF GuidOf
        <3> QED BY <1>15, <2>1, <2>3, <3>1, <3>2 DEF Waits
    <2>4. CASE v \in Uris /\ task'.kind = v /\ x \in ToSet(task'.rest)
        <3>1. v = u /\ x \in ToSet(rest)
            BY <1>16, <1>17, <2>4, Handled
        <3> QED BY <1>3, <1>5, <2>1, <3>1 DEF Waits
    <2> QED BY <2>2, <2>3, <2>4
<1>25. SceneFits'
    <2>1. \A h \in Guids \ {g}, el \in {"transform", "group", "light"} : dom'[el][h] = dom[el][h]
        BY <1>13, <1>14 DEF Elements
    <2>2. \E x \in DOMAIN entities : GuidOf(x) = g
        BY <1>6 DEF GuidOf
    <2>3. \A x \in DOMAIN entities : GuidOf(x) # g =>
              /\ entities'[x].group = entities[x].group /\ entities'[x].transform = entities[x].transform
              /\ Waits(x)' => Waits(x)
        BY <1>6, <1>11, <1>12, <1>24 DEF GuidOf
    <2>4. ASSUME NEW x \in DOMAIN entities, GuidOf(x) = g, \A f \in DOMAIN entities : GuidOf(f) = g => f = x,
                 ElementsFit(x, g)
          PROVE  ElementsFit(x, g)'
        <3>1. x = e /\ x = w
            BY <1>2, <1>4, <1>6, <2>4 DEF GuidOf
        <3>2. entities'[x].group = "group" /\ entities'[x].transform = entities[x].transform
            BY <1>7, <1>10, <1>11, <1>12, <3>1
        <3>3. /\ dom'["transform"][g] = dom["transform"][g] /\ dom'["group"][g] = dom["group"][g] + 1
              /\ dom'["light"][g] = dom["light"][g]
            BY <1>13, <1>14 DEF Elements
        <3>4. Waits(x)
            BY <1>3, <1>4, <2>4, <3>1 DEF Waits
        <3>5. ~Waits(x)'
            BY <1>24, <2>4, <3>1
        <3>6. Mesh[g] \in Uris /\ registry[g] # 0 /\ registry'[g] = registry[g]
            BY <1>2, <1>3, <1>4
        <3> QED BY <2>4, <3>2, <3>3, <3>4, <3>5, <3>6, ElementsShown
    <2>5. DOMAIN entities' = DOMAIN entities
        BY <1>11, <1>12
    <2>6. \A h \in Guids \ {g} : registry'[h] = registry[h]
        BY <1>3
    <2> QED BY <1>1, <1>4, <1>20, <2>1, <2>2, <2>3, <2>4, <2>5, <2>6, SceneOfOne
<1> QED BY <1>18, <1>19, <1>21, <1>22, <1>23, <1>25 DEF Inductive

(***************************************************************************)
(* Entities are added.                                                     *)
(***************************************************************************)

\* The object of a new entity, and the elements that are made for it.
LEMMA NewFacts ==
    ASSUME NEW g \in Guids
    PROVE  LET o == NewEntity(g) IN
           /\ o \in Entity /\ o.guid = g /\ Data(o)
           /\ o.group = IF Mesh[g] = NoMesh THEN "none"
                        ELSE IF g \in Lights THEN "light" ELSE IF ShownAtOnce(g) THEN "group" ELSE "none"
           /\ o.transform = (Mesh[g] # NoMesh)
           /\ ViewOf(o) \subseteq ElementsOfNew(g) /\ ElementsOfNew(g) \subseteq Elements
           /\ "transform" \in ElementsOfNew(g) <=> Mesh[g] # NoMesh
           /\ "light" \in ElementsOfNew(g) <=> Mesh[g] # NoMesh /\ g \in Lights
           /\ "group" \in ElementsOfNew(g) <=> ShownAtOnce(g)
<1>1. PICK o : o = NewEntity(g)
    OBVIOUS
<1>2. /\ o.guid = g /\ o.values = [a \in Attrs |-> 0] /\ o.cached = <<>> /\ o.told = [a \in Attrs |-> 0]
      /\ o.group = IF Mesh[g] = NoMesh THEN "none"
                   ELSE IF g \in Lights THEN "light" ELSE IF ShownAtOnce(g) THEN "group" ELSE "none"
      /\ o.transform = (Mesh[g] # NoMesh) /\ o.defs = ShownAtOnce(g)
    BY <1>1 DEF NewEntity
<1>3. ShownAtOnce(g) => Mesh[g] # NoMesh
    BY MeshAssumption DEF ShownAtOnce
<1>4. o \in Entity
    <2>1. o.group \in {"none", "group", "light"} /\ ShownAtOnce(g) \in BOOLEAN
        BY <1>2 DEF ShownAtOnce
    <2>2. PICK z \in [Attrs -> 0 .. MaxUpdates] : z = [a \in Attrs |-> 0]
        <3>1. 0 \in 0 .. MaxUpdates
            BY BoundsAssumption
        <3>2. [a \in Attrs |-> 0] \in [Attrs -> 0 .. MaxUpdates]
            BY <3>1
        <3> QED BY <3>2
    <2>3. PICK c \in Seq(Change) : c = <<>>
        BY EmptySeq
    <2>4. PICK p \in {"none", "group", "light"}, q \in BOOLEAN, s \in BOOLEAN :
              p = o.group /\ q = (Mesh[g] # NoMesh) /\ s = ShownAtOnce(g)
        BY <2>1
    <2>5. o = [guid |-> g, values |-> z, cached |-> c, told |-> z, group |-> p, transform |-> q, defs |-> s]
        BY <1>1, <1>2, <2>2, <2>3, <2>4 DEF NewEntity
    <2> QED BY <2>5 DEF Entity
<1>5. Data(o)
    <2>1. OneEach(<<>>) /\ \A a \in Attrs : Waiting(<<>>, a) = {}
        BY DEF OneEach, Waiting, ToSet
    <2> QED BY <1>2, <2>1 DEF Data
<1>6. /\ "transform" \in ElementsOfNew(g) <=> Mesh[g] # NoMesh
      /\ "light" \in ElementsOfNew(g) <=> Mesh[g] # NoMesh /\ g \in Lights
      /\ "group" \in ElementsOfNew(g) <=> ShownAtOnce(g)
      /\ "defs" \in ElementsOfNew(g) <=> ShownAtOnce(g)
    BY <1>3 DEF ElementsOfNew
<1>7. ElementsOfNew(g) \subseteq Elements
    BY DEF ElementsOfNew, Elements
<1>8. ViewOf(o) \subseteq ElementsOfNew(g)
    <2>1. o.group # "none" => o.group \in ElementsOfNew(g)
        BY <1>2, <1>6
    <2>2. (o.transform => "transform" \in ElementsOfNew(g)) /\ (o.defs => "defs" \in ElementsOfNew(g))
        BY <1>2, <1>6
    <2> QED BY <2>1, <2>2 DEF ViewOf
<1> QED BY <1>1, <1>2, <1>4, <1>5, <1>6, <1>7, <1>8

\* Those who wait for a mesh, and what is known of it, when an object of g is added: the object
\* waits with the others unless the mesh is there.
LEMMA RequestFacts ==
    ASSUME TypeOK, NEW g \in Guids, RequestMesh(g), NEW v \in Uris
    PROVE  /\ document'[v] = "cached" <=> document[v] = "cached"
           /\ document' \in [Uris -> {"absent", "requested", "cached", "failed"}]
           /\ pending' \in [Uris -> Seq(1 .. NewObject)]
           /\ \/ pending'[v] = pending[v]
              \/ /\ pending'[v] = Append(pending[v], NewObject)
                 /\ v = Mesh[g] /\ document[v] # "cached"
<1>1. Len(entities) \in Nat
    BY LenProperties DEF TypeOK
<1>2. \A x \in Uris : pending[x] \in Seq(1 .. NewObject)
    <2> SUFFICES ASSUME NEW x \in Uris PROVE pending[x] \in Seq(1 .. NewObject)
        OBVIOUS
    <2>1. pending[x] \in Seq(1 .. Len(entities)) /\ 1 .. Len(entities) \subseteq 1 .. NewObject
        BY <1>1 DEF TypeOK, NewObject
    <2>2. PICK A, B : A = 1 .. Len(entities) /\ B = 1 .. NewObject
        OBVIOUS
    <2>3. PICK s \in Seq(A) : s = pending[x]
        BY <2>1, <2>2
    <2>4. PICK k \in Nat : s \in [1 .. k -> A]
        BY LenProperties
    <2>5. s \in [1 .. k -> B]
        <3>1. A \subseteq B
            BY <2>1, <2>2
        <3> QED BY <2>4, <3>1
    <2>6. s \in Seq(B)
        BY <2>5
    <2> QED BY <2>2, <2>3, <2>6
<1>3. pending \in [Uris -> Seq(1 .. NewObject)]
    <2>1. pending = [x \in Uris |-> pending[x]]
        BY DEF TypeOK
    <2> QED BY <1>2, <2>1
<1>4. document \in [Uris -> {"absent", "requested", "cached", "failed"}]
    BY DEF TypeOK
<1>5. CASE (Mesh[g] \notin Uris \/ ShownAtOnce(g)) /\ UNCHANGED <<pending, document>>
    BY <1>3, <1>4, <1>5
<1>6. ASSUME Mesh[g] \in Uris, ~ShownAtOnce(g),
             pending' = [pending EXCEPT ![Mesh[g]] = Append(@, NewObject)],
             document' = [document EXCEPT ![Mesh[g]] = IF @ = "absent" THEN "requested" ELSE @]
      PROVE  /\ document'[v] = "cached" <=> document[v] = "cached"
             /\ document' \in [Uris -> {"absent", "requested", "cached", "failed"}]
             /\ pending' \in [Uris -> Seq(1 .. NewObject)]
             /\ \/ pending'[v] = pending[v]
                \/ /\ pending'[v] = Append(pending[v], NewObject)
                   /\ v = Mesh[g] /\ document[v] # "cached"
    <2>1. PICK u \in Uris : u = Mesh[g]
        BY <1>6
    <2>2. document[u] # "cached"
        BY <1>6, <2>1 DEF ShownAtOnce
    <2>3. PICK q : q = Append(pending[u], NewObject)
        OBVIOUS
    <2>4. q \in Seq(1 .. NewObject)
        <3>1. NewObject \in 1 .. NewObject
            BY <1>1 DEF NewObject
        <3> QED BY <1>2, <2>3, <3>1, AppendProperties
    <2>5. pending' = [pending EXCEPT ![u] = q]
        BY <1>6, <2>1, <2>3
    <2>6. document' = [document EXCEPT ![u] = IF document[u] = "absent" THEN "requested" ELSE document[u]]
        BY <1>6, <2>1
    <2>7. /\ document'[v] = "cached" <=> document[v] = "cached"
          /\ document' \in [Uris -> {"absent", "requested", "cached", "failed"}]
        BY <1>4, <2>2, <2>6
    <2>8. pending' \in [Uris -> Seq(1 .. NewObject)] /\ pending'[u] = q /\ \A x \in Uris \ {u} : pending'[x] = pending[x]
        BY <1>3, <2>4, <2>5
    <2> QED BY <2>1, <2>2, <2>3, <2>7, <2>8
<1> QED BY <1>5, <1>6 DEF RequestMesh

\* The elements of an entity of which this is the first object.
LEMMA ElementsOfFirst ==
    ASSUME NEW e, NEW g \in Guids, entities'[e] = NewEntity(g), registry'[g] = e, e # 0,
           \A el \in {"transform", "group", "light"} :
               dom'[el][g] = IF el \in ElementsOfNew(g) THEN 1 ELSE 0,
           Waits(e)' => ~ShownAtOnce(g)
    PROVE  ElementsFit(e, g)'
<1>1. PICK o : o = entities'[e]
    OBVIOUS
<1>2. /\ o.group = IF Mesh[g] = NoMesh THEN "none"
                   ELSE IF g \in Lights THEN "light" ELSE IF ShownAtOnce(g) THEN "group" ELSE "none"
      /\ o.transform = (Mesh[g] # NoMesh)
      /\ "transform" \in ElementsOfNew(g) <=> Mesh[g] # NoMesh
      /\ "light" \in ElementsOfNew(g) <=> Mesh[g] # NoMesh /\ g \in Lights
      /\ "group" \in ElementsOfNew(g) <=> ShownAtOnce(g)
    BY <1>1, NewFacts
<1>3. ShownAtOnce(g) => Mesh[g] \in Uris /\ Mesh[g] # NoMesh
    BY MeshAssumption DEF ShownAtOnce
<1>4. /\ dom'["transform"][g] = IF Mesh[g] # NoMesh THEN 1 ELSE 0
      /\ dom'["light"][g] = IF Mesh[g] # NoMesh /\ g \in Lights THEN 1 ELSE 0
      /\ dom'["group"][g] = IF ShownAtOnce(g) THEN 1 ELSE 0
    BY <1>2
<1>5. dom'["group"][g] <= 1
    BY <1>4
<1> QED BY <1>1, <1>2, <1>3, <1>4, <1>5 DEF ElementsFit

\* An object of the server's list is made: its handlers fill the scene, and request its mesh.
LEMMA AddEntityFromServerInductive ==
    ASSUME Inductive, AddEntityFromServer
    PROVE  Inductive'
<1>1. /\ TypeOK /\ CacheFits /\ LatestKept /\ RegistryFits /\ TaskFits /\ PendingFits /\ SceneFits
      /\ entities \in Seq(Entity) /\ registry \in [Guids -> 0 .. Len(entities)]
    BY DEF Inductive, TypeOK
<1>2. PICK g, n, rest : g = Head(task.rest) /\ n = NewObject /\ rest = Tail(task.rest)
    OBVIOUS
<1>3. /\ task.kind = "objects" /\ entities' = Append(entities, NewEntity(g))
      /\ registry' = [registry EXCEPT ![g] = n] /\ RequestMesh(g) /\ dom' = Appended(g, ElementsOfNew(g))
      /\ task' = IF Mesh[g] = NoMesh THEN Idle ELSE Handling("objects", rest)
      /\ UNCHANGED updates
    BY <1>2 DEF AddEntityFromServer
<1>4. task.rest \in Seq(Guids) /\ task.rest # <<>> /\ task.kind \notin Uris
    BY <1>1, <1>3, TaskKinds, MeshAssumption
<1>5. g \in Guids /\ rest \in Seq(Guids)
    BY <1>2, <1>4, TakenAway
<1>6. PICK o \in Entity : o = NewEntity(g) /\ o.guid = g /\ Data(o) /\ ViewOf(o) \subseteq ElementsOfNew(g)
    BY <1>5, NewFacts
<1>7. PICK t : t = entities'
    OBVIOUS
<1>8. /\ t \in Seq(Entity) /\ Len(t) = n /\ DOMAIN t = DOMAIN entities \cup {n} /\ n \notin DOMAIN entities
      /\ t[n] = o /\ \A x \in DOMAIN entities : t[x] = entities[x]
    <2>1. t = Append(entities, o) /\ n = Len(entities) + 1
        BY <1>2, <1>3, <1>6, <1>7 DEF NewObject
    <2> QED BY <1>1, <2>1, PutBehind
<1>9. Len(entities) \in Nat /\ n \in Nat \ {0} /\ Len(entities) \in 0 .. n /\ n = Len(entities) + 1
    <2>1. Len(entities) \in Nat /\ n = Len(entities) + 1
        BY <1>1, <1>2, LenProperties DEF NewObject
    <2> QED BY <2>1
<1>10. /\ registry' \in [Guids -> 0 .. n] /\ registry'[g] = n
       /\ \A h \in Guids \ {g} : registry'[h] = registry[h]
    <2>1. PICK a \in Nat : a = Len(entities)
        BY <1>9
    <2>2. \A h \in Guids : registry[h] \in 0 .. n
        BY <1>1, <1>9, <2>1
    <2>3. n \in 0 .. n
        BY <1>9
    <2> QED BY <1>1, <1>3, <1>5, <2>2, <2>3
<1>11. \A v \in Uris :
           /\ document'[v] = "cached" <=> document[v] = "cached"
           /\ \/ pending'[v] = pending[v]
              \/ pending'[v] = Append(pending[v], n) /\ v = Mesh[g] /\ document[v] # "cached"
    BY <1>1, <1>2, <1>3, <1>5, RequestFacts
<1>12. /\ document' \in [Uris -> {"absent", "requested", "cached", "failed"}]
       /\ pending' \in [Uris -> Seq(1 .. n)]
    <2>1. CASE Uris = {}
        <3>1. Mesh[g] \notin Uris
            BY <2>1
        <3>2. UNCHANGED <<pending, document>>
            BY <1>3, <3>1 DEF RequestMesh
        <3> QED BY <1>1, <2>1, <3>2 DEF TypeOK
    <2>2. ASSUME NEW v \in Uris
          PROVE  /\ document' \in [Uris -> {"absent", "requested", "cached", "failed"}]
                 /\ pending' \in [Uris -> Seq(1 .. n)]
        BY <1>1, <1>2, <1>3, <1>5, RequestFacts
    <2> QED BY <2>1, <2>2
<1>13. PICK d, els : d = dom' /\ els = ElementsOfNew(g)
    OBVIOUS
<1>14. /\ els \subseteq Elements /\ d \in [Elements -> [Guids -> Nat]]
       /\ \A el \in Elements : d[el][g] = IF el \in els THEN dom[el][g] + 1 ELSE dom[el][g]
       /\ \A el \in Elements : \A h \in Guids \ {g} : d[el][h] = dom[el][h]
       /\ \A el \in Elements, h \in Guids : dom[el][h] \in Nat
    <2>1. els \in SUBSET Elements
        BY <1>5, <1>13, NewFacts
    <2>2. d = Appended(g, els)
        BY <1>3, <1>13
    <2>3. \A el \in Elements, h \in Guids : dom[el][h] \in Nat
        BY <1>1 DEF TypeOK
    <2> QED BY <1>1, <1>5, <2>1, <2>2, <2>3, AppendedFacts
<1>15. task' = Idle \/ (task'.kind = "objects" /\ task'.rest = rest /\ rest # <<>>)
    BY <1>3, Handled
<1>16. task'.kind \in {"idle", "objects"} /\ task'.kind \notin Uris
    BY <1>15, Handled, MeshAssumption
<1>17. TypeOK'
    <2>1. /\ t \in Seq(Entity) /\ registry' \in [Guids -> 0 .. Len(t)] /\ pending' \in [Uris -> Seq(1 .. Len(t))]
          /\ d \in [Elements -> [Guids -> Nat]] /\ updates' \in 0 .. MaxUpdates
        BY <1>1, <1>3, <1>8, <1>10, <1>12, <1>14 DEF TypeOK
    <2> QED BY <1>7, <1>12, <1>13, <1>16, <2>1 DEF TypeOK
<1>18. CacheFits' /\ LatestKept'
    <2>1. \A x \in DOMAIN t : Data(t[x])
        BY <1>1, <1>6, <1>8, DataFits DEF AllData
    <2>2. AllData'
        BY <1>7, <2>1 DEF AllData
    <2> QED BY <2>2, DataFits, PTL
<1>19. \A x \in DOMAIN entities : GuidOf(x)' = GuidOf(x) /\ GuidOf(x) \in Guids /\ entities[x] \in Entity
    <2>1. \A x \in DOMAIN entities : entities[x] \in Entity
        BY <1>1, Members
    <2>2. \A x \in DOMAIN entities : GuidOf(x) \in Guids
        BY <2>1, EntityFacts DEF GuidOf
    <2> QED BY <1>7, <1>8, <2>1, <2>2 DEF GuidOf
<1>20. GuidOf(n)' = g
    BY <1>6, <1>7, <1>8 DEF GuidOf
<1>21. RegistryFits'
    <2> SUFFICES ASSUME NEW h \in Guids, registry'[h] # 0
                 PROVE  t[registry'[h]].guid = h /\ \A el \in ViewOf(t[registry'[h]]) : d[el][h] > 0
        BY <1>7, <1>13 DEF RegistryFits, GuidOf
    <2>1. CASE h = g
        <3>1. t[registry'[h]] = o
            BY <1>8, <1>10, <2>1
        <3>2. \A el \in els : d[el][g] > 0
            <4> SUFFICES ASSUME NEW el \in els PROVE d[el][g] > 0
                OBVIOUS
            <4>1. d[el][g] = dom[el][g] + 1 /\ dom[el][g] \in Nat
                BY <1>5, <1>14
            <4> QED BY <4>1
        <3> QED BY <1>6, <1>13, <2>1, <3>1, <3>2
    <2>2. CASE h # g
        <3>1. registry'[h] = registry[h]
            BY <1>10, <2>2
        <3>2. registry[h] \in DOMAIN entities /\ entities[registry[h]] \in Entity /\ entities[registry[h]].guid = h
            BY <1>1, <3>1, TheRegistered
        <3>3. ViewOf(entities[registry[h]]) \subseteq Elements
            <4>1. entities[registry[h]].group \in {"none", "group", "light"}
                BY <3>2, EntityFacts
            <4> QED BY <4>1 DEF ViewOf, Elements
        <3>4. \A el \in ViewOf(entities[registry[h]]) : dom[el][h] > 0
            BY <1>1, <3>1 DEF RegistryFits
        <3> QED BY <1>8, <1>14, <2>2, <3>1, <3>2, <3>3, <3>4
    <2> QED BY <2>1, <2>2
<1>22. TaskFits'
    <2>1. CASE task' = Idle
        BY <2>1 DEF TaskFits
    <2>2. CASE task'.kind = "objects" /\ task'.rest = rest /\ rest # <<>>
        BY <1>5, <2>2 DEF TaskFits
    <2> QED BY <1>15, <2>1, <2>2
<1>23. PendingFits'
    <2> SUFFICES ASSUME NEW v \in Uris
                 PROVE  /\ IsInjective(pending'[v])
                        /\ \A x \in ToSet(pending'[v]) : Mesh[GuidOf(x)'] = v
                        /\ document'[v] = "cached" /\ task'.kind # v /\ pending'[v] # <<>> =>
                               \E x \in ToSet(pending'[v]) : ~Registered(x)'
        BY DEF PendingFits
    <2>1. ToSet(pending[v]) \subseteq DOMAIN entities /\ pending[v] \in Seq(DOMAIN entities)
        BY <1>1, PendingTypes
    <2>2. /\ IsInjective(pending[v]) /\ \A x \in ToSet(pending[v]) : Mesh[GuidOf(x)] = v
          /\ document[v] = "cached" /\ task.kind # v /\ pending[v] # <<>> =>
                 \E x \in ToSet(pending[v]) : ~Registered(x)
        BY <1>1 DEF PendingFits
    <2>3. ASSUME NEW x \in DOMAIN entities, ~Registered(x) PROVE ~Registered(x)'
        <3>1. registry[GuidOf(x)] # x /\ x # n
            BY <1>8, <2>3 DEF Registered
        <3>2. registry'[GuidOf(x)] # x
            BY <1>10, <1>19, <3>1
        <3> QED BY <1>19, <3>2 DEF Registered
    <2>4. CASE pending'[v] = pending[v]
        BY <1>4, <1>11, <1>19, <2>1, <2>2, <2>3, <2>4
    <2>5. CASE pending'[v] = Append(pending[v], n) /\ v = Mesh[g] /\ document[v] # "cached"
        <3>1. PICK M : M = DOMAIN entities \cup {n}
            OBVIOUS
        <3>2. PICK s : s = pending[v]
            OBVIOUS
        <3>3. s \in Seq(M)
            <4>1. PICK k \in Nat : s \in [1 .. k -> DOMAIN entities]
                BY <2>1, <3>2, LenProperties
            <4>2. s \in [1 .. k -> M]
                BY <3>1, <4>1
            <4> QED BY <4>2
        <3>4. n \in M /\ n \notin ToSet(s)
            BY <1>8, <2>1, <3>1, <3>2
        <3>5. ToSet(Append(s, n)) = ToSet(s) \cup {n} /\ IsInjective(Append(s, n))
            BY <2>2, <3>2, <3>3, <3>4, SetPutBehind
        <3> QED BY <1>11, <1>19, <1>20, <2>1, <2>2, <2>5, <3>2, <3>5
    <2> QED BY <1>11, <2>4, <2>5
<1>24. \A x \in DOMAIN entities : Waits(x)' => Waits(x)
    <2> SUFFICES ASSUME NEW x \in DOMAIN entities, Waits(x)' PROVE Waits(x)
        OBVIOUS
    <2>1. PICK v : v = Mesh[GuidOf(x)]
        OBVIOUS
    <2>2. v \in Uris /\ document'[v] # "cached" /\ x \in ToSet(pending'[v])
        BY <1>16, <1>19, <2>1 DEF Waits
    <2>3. x \in ToSet(pending[v])
        <3>1. CASE pending'[v] = pending[v]
            BY <2>2, <3>1
        <3>2. CASE pending'[v] = Append(pending[v], n)
            <4>1. PICK M : M = DOMAIN entities \cup {n}
                OBVIOUS
            <4>2. PICK s : s = pending[v]
                OBVIOUS
            <4>3. s \in Seq(M)
                <5>1. s \in Seq(DOMAIN entities)
                    BY <1>1, <2>2, <4>2, PendingTypes
                <5>2. PICK k \in Nat : s \in [1 .. k -> DOMAIN entities]
                    BY <5>1, LenProperties
                <5>3. s \in [1 .. k -> M]
                    BY <4>1, <5>2
                <5> QED BY <5>3
            <4>4. ToSet(Append(s, n)) = ToSet(s) \cup {n}
                BY <4>1, <4>3, SetPutBehind
            <4> QED BY <1>8, <2>2, <3>2, <4>2, <4>4
        <3> QED BY <1>11, <2>2, <3>1, <3>2
    <2> QED BY <1>11, <2>1, <2>2, <2>3 DEF Waits
<1>25. Waits(n)' => ~ShownAtOnce(g)
    <2> SUFFICES ASSUME Waits(n)' PROVE ~ShownAtOnce(g)
        OBVIOUS
    <2>1. Mesh[g] \in Uris /\ document'[Mesh[g]] # "cached"
        BY <1>16, <1>20 DEF Waits
    <2> QED BY <1>11, <2>1 DEF ShownAtOnce
<1>26. SceneFits'
    <2> SUFFICES ASSUME NEW h \in Guids
                 PROVE  /\ (\A x \in DOMAIN t : GuidOf(x)' # h) =>
                               registry'[h] = 0 /\ \A el \in {"transform", "group", "light"} : d[el][h] = 0
                        /\ \A x \in DOMAIN t :
                               GuidOf(x)' = h /\ (\A f \in DOMAIN t : GuidOf(f)' = h => f = x) => ElementsFit(x, h)'
        BY <1>7, <1>13 DEF SceneFits
    <2>1. /\ (\A x \in DOMAIN entities : GuidOf(x) # h) =>
                 registry[h] = 0 /\ \A el \in {"transform", "group", "light"} : dom[el][h] = 0
          /\ \A x \in DOMAIN entities :
                 GuidOf(x) = h /\ (\A f \in DOMAIN entities : GuidOf(f) = h => f = x) => ElementsFit(x, h)
        BY <1>1 DEF SceneFits
    <2>2. CASE h # g
        <3>1. /\ registry'[h] = registry[h] /\ d["transform"][h] = dom["transform"][h]
              /\ d["group"][h] = dom["group"][h] /\ d["light"][h] = dom["light"][h]
            BY <1>10, <1>14, <2>2 DEF Elements
        <3>2. (\A x \in DOMAIN t : GuidOf(x)' # h) =>
                  registry'[h] = 0 /\ \A el \in {"transform", "group", "light"} : d[el][h] = 0
            BY <1>8, <1>19, <2>1, <3>1
        <3>3. ASSUME NEW x \in DOMAIN t, GuidOf(x)' = h, \A f \in DOMAIN t : GuidOf(f)' = h => f = x
              PROVE  ElementsFit(x, h)'
            <4>1. x \in DOMAIN entities
                BY <1>8, <1>20, <2>2, <3>3
            <4>2. GuidOf(x) = h /\ \A f \in DOMAIN entities : GuidOf(f) = h => f = x
                BY <1>8, <1>19, <3>3, <4>1
            <4>3. ElementsFit(x, h)
                BY <2>1, <4>1, <4>2
            <4>4. /\ entities'[x].group = entities[x].group /\ entities'[x].transform = entities[x].transform
                  /\ Waits(x)' => Waits(x)
                BY <1>7, <1>8, <1>24, <4>1
            <4>5. /\ dom'["transform"][h] = dom["transform"][h] /\ dom'["group"][h] = dom["group"][h]
                  /\ dom'["light"][h] = dom["light"][h] /\ registry'[h] = registry[h]
                BY <1>13, <3>1
            <4> QED BY <4>3, <4>4, <4>5, ElementsStay
        <3> QED BY <3>2, <3>3
    <2>3. CASE h = g
        <3>1. ASSUME NEW x \in DOMAIN t, GuidOf(x)' = h, \A f \in DOMAIN t : GuidOf(f)' = h => f = x
              PROVE  ElementsFit(x, h)'
            <4>1. x = n
                BY <1>8, <1>20, <2>3, <3>1
            <4>2. \A y \in DOMAIN entities : GuidOf(y) # g
                BY <1>8, <1>19, <2>3, <3>1, <4>1
            <4>3. \A el \in {"transform", "group", "light"} : dom[el][g] = 0
                BY <2>1, <2>3, <4>2
            <4>4. \A el \in {"transform", "group", "light"} : dom'[el][g] = IF el \in ElementsOfNew(g) THEN 1 ELSE 0
                <5> SUFFICES ASSUME NEW el \in {"transform", "group", "light"}
                             PROVE  d[el][g] = IF el \in els THEN 1 ELSE 0
                    BY <1>13
                <5>1. el \in Elements /\ dom[el][g] = 0
                    BY <4>3 DEF Elements
                <5>2. d[el][g] = IF el \in els THEN 0 + 1 ELSE 0
                    BY <1>14, <5>1
                <5> QED BY <5>2
            <4>5. entities'[n] = NewEntity(g) /\ registry'[g] = n /\ n # 0
                BY <1>6, <1>7, <1>8, <1>9, <1>10
            <4>6. ElementsFit(n, g)'
                BY <1>5, <1>25, <4>4, <4>5, ElementsOfFirst
            <4> QED BY <2>3, <4>1, <4>6
        <3> QED BY <1>8, <1>20, <2>3, <3>1
    <2> QED BY <2>2, <2>3
<1> QED BY <1>17, <1>18, <1>21, <1>22, <1>23, <1>26 DEF Inductive

(***************************************************************************)
(* Meshes are shown, or waited for.                                        *)
(***************************************************************************)

\* The object e, whose mesh is u, shows it or waits for it, or the loop was left.
Shows(e, u) ==
    \/ entities[e].defs
    \/ document[u] # "cached" /\ e \in ToSet(pending[u])
    \/ task.kind = u /\ e \in ToSet(task.rest)
    \/ LeftOver(u)

AllShow == \A e \in DOMAIN entities, u \in Uris : Registered(e) /\ Mesh[GuidOf(e)] = u => Shows(e, u)

LEMMA ShowsIs == MeshesShown <=> AllShow
BY DEF MeshesShown, AllShow, Shows, Waits

\* An element of a sequence is the first one or one of the others.
LEMMA HeadOrTail ==
    ASSUME NEW M, NEW s \in Seq(M), s # <<>>, NEW m \in ToSet(s), m # Head(s)
    PROVE  m \in ToSet(Tail(s))
<1>1. PICK i \in DOMAIN s : s[i] = m
    BY DEF ToSet
<1>2. DOMAIN s = 1 .. Len(s) /\ Len(s) \in Nat \ {0} /\ Head(s) = s[1]
    BY EmptySeq, LenProperties
<1>3. /\ Tail(s) \in Seq(M) /\ DOMAIN Tail(s) = 1 .. Len(s) - 1
      /\ \A j \in 1 .. Len(s) - 1 : Tail(s)[j] = s[j + 1]
    BY HeadTailProperties, LenProperties
<1>4. i # 1
    BY <1>1, <1>2
<1>5. i - 1 \in 1 .. Len(s) - 1 /\ (i - 1) + 1 = i
    BY <1>2, <1>4
<1>6. i - 1 \in DOMAIN Tail(s) /\ Tail(s)[i - 1] = m
    BY <1>1, <1>3, <1>5
<1> QED BY <1>6 DEF ToSet

\* A sequence of a set is one of a greater set.
LEMMA SeqOfMore ==
    ASSUME NEW A, NEW B, A \subseteq B, NEW s \in Seq(A)
    PROVE  s \in Seq(B)
<1>1. PICK k \in Nat : s \in [1 .. k -> A]
    BY LenProperties
<1>2. s \in [1 .. k -> B]
    BY <1>1
<1> QED BY <1>2

\* Values that are told, or applied, change nothing else of an object.
LEMMA DataOnly ==
    ASSUME Inductive, UpdateAttribute \/ \E e \in DOMAIN entities : FlushUpdates(e)
    PROVE  /\ DOMAIN entities' = DOMAIN entities
           /\ \A x \in DOMAIN entities : entities'[x].guid = entities[x].guid /\ entities'[x].defs = entities[x].defs
<1>1. \A x \in DOMAIN entities : entities[x] \in Entity
    BY Members DEF Inductive, TypeOK
<1>2. CASE UpdateAttribute
    <2> DEFINE u == Head(task.rest)
               x == registry[u.guid]
    <2>1. \/ entities' = [entities EXCEPT ![x].cached = Cached(entities[x].cached, u), ![x].told[u.attr] = u.value]
          \/ entities' = entities
        BY <1>2 DEF UpdateAttribute
    <2> HIDE DEF u, x
    <2>2. CASE entities' = entities
        BY <2>2
    <2>3. ASSUME NEW c, entities' = [entities EXCEPT ![x].cached = c, ![x].told[u.attr] = u.value]
          PROVE  /\ DOMAIN entities' = DOMAIN entities
                 /\ \A y \in DOMAIN entities : entities'[y].guid = entities[y].guid /\ entities'[y].defs = entities[y].defs
        <3>1. DOMAIN entities' = DOMAIN entities
            BY <2>3
        <3>2. ASSUME NEW y \in DOMAIN entities
              PROVE  entities'[y].guid = entities[y].guid /\ entities'[y].defs = entities[y].defs
            <4>1. CASE y # x
                BY <2>3, <4>1
            <4>2. CASE y = x
                BY <1>1, <2>3, <4>2 DEF Entity
            <4> QED BY <4>1, <4>2
        <3> QED BY <3>1, <3>2
    <2> QED BY <2>1, <2>2, <2>3
<1>3. ASSUME NEW e \in DOMAIN entities, FlushUpdates(e)
      PROVE  /\ DOMAIN entities' = DOMAIN entities
             /\ \A x \in DOMAIN entities : entities'[x].guid = entities[x].guid /\ entities'[x].defs = entities[x].defs
    <2>1. PICK w, c : entities' = [entities EXCEPT ![e].values = w, ![e].cached = c]
        BY <1>3 DEF FlushUpdates
    <2> QED BY <1>1, <2>1 DEF Entity
<1> QED BY <1>2, <1>3

\* Nothing of this changes when no object, request or registration does.
LEMMA ShowsKept ==
    ASSUME AllShow, UNCHANGED <<registry, pending>>, DOMAIN entities' = DOMAIN entities,
           \A e \in DOMAIN entities : entities'[e].guid = entities[e].guid /\ entities'[e].defs = entities[e].defs,
           \A u \in Uris : document'[u] = "cached" <=> document[u] = "cached",
           task' = task \/ (task.kind \notin Uris /\ task'.kind \notin Uris)
    PROVE  AllShow'
<1> SUFFICES ASSUME NEW e \in DOMAIN entities, NEW u \in Uris, Registered(e)', Mesh[GuidOf(e)'] = u
             PROVE  Shows(e, u)'
    BY DEF AllShow
<1>1. \A x : (Registered(x)' <=> Registered(x))
    BY DEF Registered, GuidOf
<1>2. Shows(e, u)
    BY <1>1 DEF AllShow, GuidOf
<1>3. LeftOver(u) => LeftOver(u)'
    BY <1>1 DEF LeftOver
<1>4. task.kind = u /\ e \in ToSet(task.rest) => task'.kind = u /\ e \in ToSet(task'.rest)
    OBVIOUS
<1> QED BY <1>2, <1>3, <1>4 DEF Shows

\* All who wait for a mesh are to be handled when it arrives.
LEMMA AjaxSuccessShows ==
    ASSUME Inductive, AllShow, NEW u \in Uris, AjaxSuccess(u)
    PROVE  AllShow'
<1> SUFFICES ASSUME NEW e \in DOMAIN entities, NEW v \in Uris, Registered(e)', Mesh[GuidOf(e)'] = v
             PROVE  Shows(e, v)'
    BY DEF AllShow, AjaxSuccess
<1>1. /\ task = Idle /\ document[u] = "requested" /\ document' = [document EXCEPT ![u] = "cached"]
      /\ task' = Handling(u, pending[u]) /\ document \in [Uris -> {"absent", "requested", "cached", "failed"}]
      /\ UNCHANGED <<registry, entities, pending>>
    BY DEF AjaxSuccess, Inductive, TypeOK
<1>2. /\ document'[u] = "cached" /\ \A x \in Uris \ {u} : document'[x] = document[x]
      /\ \A x \in Uris : task.kind # x
    BY <1>1, Handled
<1>3. (\A x : Registered(x)' <=> Registered(x)) /\ GuidOf(e)' = GuidOf(e)
    BY <1>1 DEF Registered, GuidOf
<1>4. Shows(e, v)
    BY <1>3 DEF AllShow
<1>5. CASE v = u
    <2>1. entities[e].defs \/ e \in ToSet(pending[u])
        BY <1>1, <1>2, <1>4, <1>5 DEF Shows, LeftOver
    <2>2. e \in ToSet(pending[u]) => pending[u] # <<>>
        BY DEF ToSet
    <2>3. pending[u] # <<>> => task'.kind = u /\ task'.rest = pending[u]
        BY <1>1, Handled
    <2> QED BY <1>1, <1>5, <2>1, <2>2, <2>3 DEF Shows
<1>6. CASE v # u
    <2>1. task'.kind # v
        <3>1. pending[u] = <<>> \/ pending[u] # <<>>
            OBVIOUS
        <3> QED BY <1>1, <1>6, <3>1, Handled
    <2>2. LeftOver(v) => LeftOver(v)'
        BY <1>1, <1>2, <1>3, <1>6, <2>1 DEF LeftOver
    <2> QED BY <1>1, <1>2, <1>4, <1>6, <2>2 DEF Shows
<1> QED BY <1>5, <1>6

\* The loop ends at an entity that has been removed.
LEMMA HandlePendingThrowsShows ==
    ASSUME Inductive, AllShow, NEW u \in Uris, HandlePendingThrows(u)
    PROVE  AllShow'
<1> SUFFICES ASSUME NEW e \in DOMAIN entities, NEW v \in Uris, Registered(e)', Mesh[GuidOf(e)'] = v
             PROVE  Shows(e, v)'
    BY DEF AllShow, HandlePendingThrows
<1>1. PICK w : w = Head(task.rest)
    OBVIOUS
<1>2. /\ task.kind = u /\ registry[entities[w].guid] = 0 /\ task' = Idle
      /\ UNCHANGED <<registry, entities, document, pending>>
    BY <1>1 DEF HandlePendingThrows
<1>3. w \in DOMAIN entities /\ w \in ToSet(pending[u]) /\ document[u] = "cached"
    BY <1>1, <1>2, FirstLeft
<1>4. w # 0
    BY <1>3, LenProperties DEF Inductive, TypeOK
<1>5. (\A x : Registered(x)' <=> Registered(x)) /\ GuidOf(e)' = GuidOf(e)
    BY <1>2 DEF Registered, GuidOf
<1>6. Shows(e, v)
    BY <1>5 DEF AllShow
<1>7. \A x \in Uris : task'.kind # x
    BY <1>2, Handled
<1>8. CASE v = u
    <2>1. ~Registered(w)
        BY <1>2, <1>4 DEF Registered, GuidOf
    <2> QED BY <1>2, <1>3, <1>5, <1>7, <1>8, <2>1 DEF Shows, LeftOver
<1>9. CASE v # u
    <2>1. LeftOver(v) => LeftOver(v)'
        BY <1>2, <1>5, <1>7 DEF LeftOver
    <2> QED BY <1>2, <1>6, <1>9, <2>1 DEF Shows
<1> QED BY <1>8, <1>9

\* Entities that are removed need not be shown; the others are as before.
LEMMA RemoveEntityShows ==
    ASSUME Inductive, AllShow, NEW g \in Guids, RemoveEntity(g)
    PROVE  AllShow'
<1>1. TypeOK /\ RegistryFits /\ PendingFits /\ entities \in Seq(Entity)
    BY DEF Inductive, TypeOK
<1>2. PICK r : r = registry[g]
    OBVIOUS
<1>3. /\ task = Idle /\ r # 0 /\ registry' = [registry EXCEPT ![g] = 0]
      /\ entities' = [entities EXCEPT ![r].group = "none", ![r].transform = FALSE, ![r].defs = FALSE]
      /\ UNCHANGED <<document, pending, task>> /\ registry \in [Guids -> 0 .. Len(entities)]
    BY <1>1, <1>2 DEF RemoveEntity, TypeOK
<1>4. r \in DOMAIN entities /\ entities[r] \in Entity /\ entities[r].guid = g
    BY <1>1, <1>2, <1>3, TheRegistered
<1>5. /\ DOMAIN entities' = DOMAIN entities
      /\ \A x \in DOMAIN entities : x # r => entities'[x] = entities[x]
      /\ entities'[r].guid = g
    BY <1>1, <1>3, <1>4 DEF Entity
<1>6. \A x \in DOMAIN entities : entities'[x].guid = entities[x].guid
    BY <1>4, <1>5
<1>7. \A x \in DOMAIN entities : x # 0 /\ entities[x].guid \in Guids
    <2>1. \A x \in DOMAIN entities : x # 0 /\ entities[x] \in Entity
        BY <1>1, Members
    <2> QED BY <2>1, EntityFacts
<1>8. \A x \in DOMAIN entities : Registered(x)' => Registered(x) /\ x # r
    BY <1>2, <1>3, <1>4, <1>5, <1>6, <1>7 DEF Registered, GuidOf
<1> SUFFICES ASSUME NEW e \in DOMAIN entities, NEW v \in Uris, Registered(e)', Mesh[GuidOf(e)'] = v
             PROVE  Shows(e, v)'
    BY <1>5 DEF AllShow
<1>9. Registered(e) /\ e # r /\ GuidOf(e)' = GuidOf(e)
    BY <1>6, <1>8 DEF GuidOf
<1>10. Shows(e, v)
    BY <1>9 DEF AllShow
<1>11. LeftOver(v) => LeftOver(v)'
    <2>1. ToSet(pending[v]) \subseteq DOMAIN entities
        BY <1>1, PendingTypes
    <2> QED BY <1>3, <1>8, <2>1 DEF LeftOver
<1> QED BY <1>3, <1>5, <1>9, <1>10, <1>11 DEF Shows

\* The loop shows the mesh of one entity that waits, and the others go on waiting.
LEMMA HandlePendingShows ==
    ASSUME Inductive, AllShow, NEW u \in Uris, HandlePending(u)
    PROVE  AllShow'
<1>1. TypeOK /\ RegistryFits /\ entities \in Seq(Entity)
    BY DEF Inductive, TypeOK
<1>2. PICK w, g, r, rest : w = Head(task.rest) /\ g = entities[w].guid /\ r = registry[g] /\ rest = Tail(task.rest)
    OBVIOUS
<1>3. /\ task.kind = u /\ r # 0 /\ task' = Handling(u, rest)
      /\ entities' = [entities EXCEPT ![r].group = "group", ![r].defs = TRUE]
      /\ pending' = IF Len(task.rest) = 1 THEN [pending EXCEPT ![u] = <<>>] ELSE pending
      /\ UNCHANGED <<registry, document>>
    BY <1>2 DEF HandlePending
<1>4. /\ task.rest \in Seq(DOMAIN entities) /\ task.rest # <<>> /\ g \in Guids /\ document[u] = "cached"
    BY <1>2, <1>3, FirstLeft
<1>5. r \in DOMAIN entities /\ entities[r] \in Entity /\ entities[r].guid = g
    BY <1>1, <1>2, <1>3, <1>4, TheRegistered
<1>6. /\ DOMAIN entities' = DOMAIN entities
      /\ \A x \in DOMAIN entities : x # r => entities'[x] = entities[x]
      /\ entities'[r].guid = g /\ entities'[r].defs = TRUE
    BY <1>1, <1>3, <1>5 DEF Entity
<1>7. \A x \in DOMAIN entities : entities'[x].guid = entities[x].guid /\ (entities[x].defs => entities'[x].defs)
    BY <1>5, <1>6
<1>8. \A x : Registered(x)' <=> Registered(x)
    BY <1>3, <1>6, <1>7 DEF Registered, GuidOf
<1> SUFFICES ASSUME NEW e \in DOMAIN entities, NEW v \in Uris, Registered(e)', Mesh[GuidOf(e)'] = v
             PROVE  Shows(e, v)'
    BY <1>6 DEF AllShow
<1>9. Registered(e) /\ GuidOf(e)' = GuidOf(e)
    BY <1>7, <1>8 DEF GuidOf
<1>10. Shows(e, v)
    BY <1>9 DEF AllShow
<1>11. CASE v = u
    <2>1. entities[e].defs \/ e \in ToSet(task.rest)
        BY <1>3, <1>4, <1>10, <1>11 DEF Shows, LeftOver
    <2>2. CASE e = w
        <3>1. e = r
            BY <1>2, <1>9, <2>2 DEF Registered, GuidOf
        <3> QED BY <1>6, <3>1 DEF Shows
    <2>3. CASE e # w /\ e \in ToSet(task.rest)
        <3>1. e \in ToSet(rest)
            BY <1>2, <1>4, <2>3, HeadOrTail
        <3>2. rest # <<>>
            BY <3>1 DEF ToSet
        <3>3. task'.kind = u /\ task'.rest = rest
            BY <1>3, <3>2, Handled
        <3> QED BY <1>11, <3>1, <3>3 DEF Shows
    <2>4. CASE entities[e].defs
        BY <1>7, <2>4 DEF Shows
    <2> QED BY <2>1, <2>2, <2>3, <2>4
<1>12. CASE v # u
    <2>1. pending'[v] = pending[v]
        BY <1>1, <1>3, <1>12 DEF TypeOK
    <2>2. task'.kind # v
        <3>1. rest = <<>> \/ rest # <<>>
            OBVIOUS
        <3> QED BY <1>3, <1>12, <3>1, Handled
    <2>3. LeftOver(v) => LeftOver(v)'
        BY <1>3, <1>8, <2>1, <2>2 DEF LeftOver
    <2> QED BY <1>3, <1>7, <1>10, <1>12, <2>1, <2>3 DEF Shows
<1> QED BY <1>11, <1>12

\* A new entity shows a mesh that is there, and else waits for it with the others.
LEMMA AddEntityShows ==
    ASSUME Inductive, AllShow, AddEntityFromServer
    PROVE  AllShow'
<1>1. /\ TypeOK /\ TaskFits /\ entities \in Seq(Entity) /\ registry \in [Guids -> 0 .. Len(entities)]
      /\ Len(entities) \in Nat /\ DOMAIN entities = 1 .. Len(entities)
    BY LenProperties DEF Inductive, TypeOK
<1>2. PICK g, n : g = Head(task.rest) /\ n = NewObject
    OBVIOUS
<1>3. /\ task.kind = "objects" /\ entities' = Append(entities, NewEntity(g))
      /\ registry' = [registry EXCEPT ![g] = n] /\ RequestMesh(g)
      /\ task' = IF Mesh[g] = NoMesh THEN Idle ELSE Handling("objects", Tail(task.rest))
    BY <1>2 DEF AddEntityFromServer
<1>4. g \in Guids
    <2>1. task.rest \in Seq(Guids) /\ task.rest # <<>>
        BY <1>1, <1>3, TaskKinds
    <2> QED BY <1>2, <2>1, TakenAway
<1>5. PICK o \in Entity : o = NewEntity(g) /\ o.guid = g /\ o.defs = ShownAtOnce(g)
    <2>1. NewEntity(g) \in Entity /\ NewEntity(g).guid = g
        BY <1>4, NewFacts
    <2>2. NewEntity(g).defs = ShownAtOnce(g)
        BY DEF NewEntity
    <2> QED BY <2>1, <2>2
<1>6. PICK t : t = entities'
    OBVIOUS
<1>7. /\ DOMAIN t = DOMAIN entities \cup {n} /\ n \notin DOMAIN entities
      /\ t[n] = o /\ \A x \in DOMAIN entities : t[x] = entities[x]
    <2>1. t = Append(entities, o) /\ n = Len(entities) + 1
        BY <1>2, <1>3, <1>5, <1>6 DEF NewObject
    <2> QED BY <1>1, <2>1, PutBehind
<1>8. task.kind \notin Uris /\ task'.kind \notin Uris
    <2>1. Tail(task.rest) = <<>> \/ Tail(task.rest) # <<>>
        OBVIOUS
    <2> QED BY <1>3, <2>1, Handled, MeshAssumption
<1>9. registry'[g] = n /\ \A h \in Guids \ {g} : registry'[h] = registry[h]
    BY <1>1, <1>3, <1>4
<1>10. \A x \in DOMAIN entities : entities[x].guid \in Guids
    BY <1>1, Members, EntityFacts
<1>11. \A x \in DOMAIN entities : Registered(x)' => Registered(x) /\ GuidOf(x) # g
    BY <1>6, <1>7, <1>9, <1>10 DEF Registered, GuidOf
<1>12. ASSUME NEW v \in Uris
       PROVE  /\ document'[v] = "cached" <=> document[v] = "cached"
              /\ ToSet(pending[v]) \subseteq ToSet(pending'[v]) /\ ToSet(pending[v]) \subseteq DOMAIN entities
              /\ v = Mesh[g] /\ ~ShownAtOnce(g) => n \in ToSet(pending'[v]) /\ document[v] # "cached"
    <2>1. pending[v] \in Seq(DOMAIN entities) /\ ToSet(pending[v]) \subseteq DOMAIN entities
        BY <1>1, PendingTypes
    <2>2. document'[v] = "cached" <=> document[v] = "cached"
        BY <1>1, <1>3, <1>4, RequestFacts
    <2>3. PICK M : M = DOMAIN entities \cup {n}
        OBVIOUS
    <2>4. pending[v] \in Seq(M)
        BY <2>1, <2>3, SeqOfMore
    <2>5. ToSet(Append(pending[v], n)) = ToSet(pending[v]) \cup {n}
        BY <2>3, <2>4, SetPutBehind
    <2>6. \/ pending'[v] = pending[v]
          \/ pending'[v] = Append(pending[v], n)
        BY <1>1, <1>2, <1>3, <1>4, RequestFacts
    <2>7. v = Mesh[g] /\ ~ShownAtOnce(g) => pending'[v] = Append(pending[v], n) /\ document[v] # "cached"
        BY <1>1, <1>2, <1>3 DEF RequestMesh, ShownAtOnce, TypeOK
    <2> QED BY <2>1, <2>2, <2>5, <2>6, <2>7
<1> SUFFICES ASSUME NEW e \in DOMAIN t, NEW v \in Uris, Registered(e)', Mesh[GuidOf(e)'] = v
             PROVE  Shows(e, v)'
    BY <1>6 DEF AllShow
<1>13. CASE e = n
    <2>1. v = Mesh[g]
        BY <1>5, <1>6, <1>7, <1>13 DEF GuidOf
    <2>2. CASE ShownAtOnce(g)
        BY <1>5, <1>6, <1>7, <1>13, <2>2 DEF Shows
    <2>3. CASE ~ShownAtOnce(g)
        BY <1>12, <1>13, <2>1, <2>3 DEF Shows
    <2> QED BY <2>2, <2>3
<1>14. CASE e # n
    <2>1. e \in DOMAIN entities /\ Registered(e) /\ GuidOf(e)' = GuidOf(e) /\ t[e] = entities[e]
        BY <1>6, <1>7, <1>11, <1>14 DEF GuidOf
    <2>2. Shows(e, v)
        BY <2>1 DEF AllShow
    <2>3. LeftOver(v) => LeftOver(v)'
        <3> SUFFICES ASSUME LeftOver(v) PROVE LeftOver(v)'
            OBVIOUS
        <3>1. PICK f \in ToSet(pending[v]) : ~Registered(f)
            BY DEF LeftOver
        <3>2. f \in ToSet(pending'[v]) /\ ~Registered(f)'
            BY <1>11, <1>12, <3>1
        <3> QED BY <1>8, <1>12, <3>2 DEF LeftOver
    <2> QED BY <1>6, <1>8, <1>12, <2>1, <2>2, <2>3 DEF Shows
<1> QED BY <1>13, <1>14

\* Every task and every timer keeps it.
LEMMA NextShows == Inductive /\ AllShow /\ [Next]_vars => AllShow'
<1> SUFFICES ASSUME Inductive, AllShow, [Next]_vars PROVE AllShow'
    OBVIOUS
<1>1. ASSUME NEW n, NEW guids, ReceiveObjects(guids) PROVE AllShow'
    <2>1. task.kind \notin Uris /\ task'.kind \notin Uris
        <3>1. guids = <<>> \/ guids # <<>>
            OBVIOUS
        <3> QED BY <1>1, <3>1, Handled, MeshAssumption DEF ReceiveObjects
    <2> QED BY <1>1, <2>1, ShowsKept DEF ReceiveObjects
<1>2. ASSUME NEW batch, ReceiveUpdates(batch) PROVE AllShow'
    <2>1. PICK rest : task' = Handling("updates", rest)
        BY <1>2 DEF ReceiveUpdates
    <2>2. task.kind \notin Uris /\ task'.kind \notin Uris
        <3>1. rest = <<>> \/ rest # <<>>
            OBVIOUS
        <3> QED BY <1>2, <2>1, <3>1, Handled, MeshAssumption DEF ReceiveUpdates
    <2> QED BY <1>2, <2>2, ShowsKept DEF ReceiveUpdates
<1>3. CASE UpdateAttribute
    <2>1. task.kind \notin Uris /\ task'.kind \notin Uris
        <3> DEFINE t == Tail(task.rest)
        <3>1. task.kind = "updates" /\ (task' = Handling("updates", t) \/ task' = Idle)
            BY <1>3 DEF UpdateAttribute
        <3> HIDE DEF t
        <3>2. Handling("updates", t).kind \in {"updates", "idle"}
            BY Handled DEF Idle
        <3>3. task'.kind \in {"updates", "idle"}
            BY <3>1, <3>2 DEF Idle
        <3> QED BY <3>1, <3>3, MeshAssumption
    <2>2. /\ DOMAIN entities' = DOMAIN entities
          /\ \A e \in DOMAIN entities : entities'[e].guid = entities[e].guid /\ entities'[e].defs = entities[e].defs
        BY <1>3, DataOnly DEF UpdateAttribute
    <2> QED BY <1>3, <2>1, <2>2, ShowsKept DEF UpdateAttribute
<1>4. ASSUME NEW e \in DOMAIN entities, FlushUpdates(e) PROVE AllShow'
    <2>1. /\ DOMAIN entities' = DOMAIN entities
          /\ \A x \in DOMAIN entities : entities'[x].guid = entities[x].guid /\ entities'[x].defs = entities[x].defs
        BY <1>4, DataOnly DEF FlushUpdates
    <2> QED BY <1>4, <2>1, ShowsKept DEF FlushUpdates
<1>5. CASE UNCHANGED vars
    BY <1>5, ShowsKept DEF vars
<1>6. ASSUME NEW u \in Uris, AjaxError(u) PROVE AllShow'
    <2>1. document \in [Uris -> {"absent", "requested", "cached", "failed"}]
        BY DEF Inductive, TypeOK
    <2> QED BY <1>6, <2>1, ShowsKept DEF AjaxError
<1>7. CASE ServerTells
    BY <1>1, <1>2, <1>7, RemoveEntityShows DEF ServerTells
<1>8. CASE Step
    BY <1>3, <1>8, AddEntityShows, HandlePendingShows, HandlePendingThrowsShows DEF Step
<1> QED BY <1>4, <1>5, <1>6, <1>7, <1>8, AjaxSuccessShows DEF Next

(***************************************************************************)
(* The theorems.                                                           *)
(***************************************************************************)

\* Nothing has been told and nothing is shown.
LEMMA InitInductive == Init => Inductive
<1> SUFFICES ASSUME Init PROVE Inductive
    OBVIOUS
<1>1. /\ registry = [g \in Guids |-> 0] /\ entities = <<>> /\ document = [u \in Uris |-> "absent"]
      /\ pending = [u \in Uris |-> <<>>] /\ dom = [el \in Elements |-> [g \in Guids |-> 0]]
      /\ task = Idle /\ updates = 0
    BY DEF Init
<1>2. entities \in Seq(Entity) /\ Len(entities) = 0 /\ DOMAIN entities = {}
    <2>1. entities \in Seq(Entity) /\ Len(entities) = 0
        BY <1>1, EmptySeq
    <2> QED BY <1>1, <2>1, Members
<1>3. TypeOK
    <2>1. registry \in [Guids -> 0 .. Len(entities)]
        BY <1>1, <1>2
    <2>2. document \in [Uris -> {"absent", "requested", "cached", "failed"}]
        BY <1>1
    <2>3. pending \in [Uris -> Seq(1 .. Len(entities))]
        <3>1. PICK empty \in Seq(1 .. Len(entities)) : empty = <<>>
            BY EmptySeq
        <3> QED BY <1>1, <3>1
    <2>4. dom \in [Elements -> [Guids -> Nat]]
        <3>1. PICK none \in [Guids -> Nat] : none = [g \in Guids |-> 0]
            <4>1. [g \in Guids |-> 0] \in [Guids -> Nat]
                OBVIOUS
            <4> QED BY <4>1
        <3> QED BY <1>1, <3>1
    <2>5. updates \in 0 .. MaxUpdates /\ task.kind = "idle"
        BY <1>1, BoundsAssumption, Handled
    <2> QED BY <1>2, <2>1, <2>2, <2>3, <2>4, <2>5 DEF TypeOK
<1>4. CacheFits /\ LatestKept /\ RegistryFits /\ TaskFits
    BY <1>1, <1>2 DEF CacheFits, LatestKept, RegistryFits, TaskFits
<1>5. PendingFits
    <2>1. IsInjective(<<>>) /\ ToSet(<<>>) = {}
        BY DEF IsInjective, ToSet
    <2>2. \A u \in Uris : pending[u] = <<>>
        BY <1>1
    <2> QED BY <2>1, <2>2 DEF PendingFits
<1>6. SceneFits
    <2>1. \A g \in Guids : registry[g] = 0 /\ \A el \in {"transform", "group", "light"} : dom[el][g] = 0
        BY <1>1 DEF Elements
    <2> QED BY <1>2, <2>1 DEF SceneFits
<1> QED BY <1>3, <1>4, <1>5, <1>6 DEF Inductive

\* Every task and every timer keeps the invariant.
LEMMA NextInductive == Inductive /\ [Next]_vars => Inductive'
<1> SUFFICES ASSUME Inductive, [Next]_vars PROVE Inductive'
    OBVIOUS
<1>1. CASE ServerTells
    BY <1>1, ReceiveObjectsInductive, RemoveEntityInductive, ReceiveUpdatesInductive DEF ServerTells
<1>2. CASE Step
    BY <1>2, AddEntityFromServerInductive, UpdateAttributeInductive, HandlePendingInductive,
       HandlePendingThrowsInductive DEF Step
<1>3. ASSUME NEW u \in Uris, AjaxSuccess(u) \/ AjaxError(u) PROVE Inductive'
    BY <1>3, AjaxSuccessInductive, AjaxErrorInductive
<1>4. ASSUME NEW e \in DOMAIN entities, FlushUpdates(e) PROVE Inductive'
    BY <1>4, FlushUpdatesInductive
<1>5. CASE UNCHANGED vars
    <2>1. UNCHANGED <<registry, entities, document, pending, dom, task, updates>>
        BY <1>5 DEF vars
    <2>2. RegistryFits' /\ PendingFits' /\ SceneFits'
        BY <2>1, SceneKept DEF Inductive
    <2>3. CacheFits' /\ LatestKept'
        BY <2>1, DataKept DEF Inductive
    <2>4. TypeOK' /\ TaskFits'
        BY <2>1 DEF Inductive, TypeOK, TaskFits
    <2> QED BY <2>2, <2>3, <2>4 DEF Inductive
<1> QED BY <1>1, <1>2, <1>3, <1>4, <1>5 DEF Next

\* What every step keeps holds in every state.
THEOREM InductiveInvariant == Spec => []Inductive
BY InitInductive, NextInductive, PTL DEF Spec

\* The state of the client is of the types that are declared.
THEOREM TypeCorrect == Spec => []TypeOK
<1>1. Inductive => TypeOK
    BY DEF Inductive
<1> QED BY <1>1, InductiveInvariant, PTL

\* The last update of an attribute that reached an entity is its value or waits to become it, also
\* when updates are merged and a handler throws in the middle of a flush.
THEOREM LatestIsKept == Spec => []LatestKept
<1>1. Inductive => LatestKept
    BY DEF Inductive
<1> QED BY <1>1, InductiveInvariant, PTL

\* When a mesh is there and no task runs, nobody waits for it, unless the loop was left early.
THEOREM PendingAreHandled == Spec => []PendingHandledUnlessRemoved
<1>1. Inductive => PendingHandledUnlessRemoved
    <2> SUFFICES ASSUME Inductive, NEW u \in Uris, document[u] = "cached", task = Idle, pending[u] # <<>>
                 PROVE  NotShown(u)
        BY DEF PendingHandledUnlessRemoved
    <2>1. task.kind # u
        BY Handled
    <2> QED BY <2>1 DEF Inductive, PendingFits, NotShown
<1> QED BY <1>1, InductiveInvariant, PTL

\* An entity that is there and has a mesh with a URI shows it or is among those that wait for it, in
\* whatever order meshes, additions and removals come, unless the loop over those that waited has
\* ended at an entity that had been removed or sent again.
THEOREM MeshesAreShown == Spec => []MeshesShown
<1>1. Init => AllShow
    <2>1. Init => DOMAIN entities = {}
        BY DEF Init
    <2> QED BY <2>1 DEF AllShow
<1>2. AllShow => MeshesShown
    BY ShowsIs
<1> QED BY <1>1, <1>2, NextShows, InductiveInvariant, PTL DEF Spec

\* There are not two objects of a guid when their number is at most one.
LEMMA OneObject ==
    ASSUME entities \in Seq(Entity), NEW g, Cardinality({e \in DOMAIN entities : GuidOf(e) = g}) <= 1,
           NEW x \in DOMAIN entities, NEW y \in DOMAIN entities, GuidOf(x) = g, GuidOf(y) = g
    PROVE  x = y
<1> SUFFICES ASSUME x # y PROVE FALSE
    OBVIOUS
<1>1. PICK S : S = {e \in DOMAIN entities : GuidOf(e) = g}
    OBVIOUS
<1>2. IsFiniteSet(S)
    <2>1. DOMAIN entities = 1 .. Len(entities) /\ Len(entities) \in Nat
        BY LenProperties
    <2>2. IsFiniteSet(DOMAIN entities)
        BY <2>1, FS_Interval
    <2>3. S \subseteq DOMAIN entities
        BY <1>1
    <2> QED BY <2>2, <2>3, FS_Subset
<1>3. {x, y} \subseteq S
    BY <1>1
<1>4. IsFiniteSet({x}) /\ Cardinality({x}) = 1
    BY FS_Singleton
<1>5. Cardinality({x} \cup {y}) = 1 + 1
    BY <1>4, FS_AddElement
<1>6. Cardinality({x, y}) <= Cardinality(S)
    BY <1>2, <1>3, FS_Subset
<1>7. {x} \cup {y} = {x, y} /\ Cardinality(S) \in Nat
    BY <1>2, FS_CardinalityType
<1>8. Cardinality(S) <= 1
    BY <1>1, Zenon
<1>9. PICK two : two = Cardinality({x, y})
    OBVIOUS
<1>10. two = 1 + 1 /\ two <= Cardinality(S)
    <2>1. two = Cardinality({x} \cup {y})
        BY <1>7, <1>9
    <2> QED BY <1>5, <1>6, <1>9, <2>1
<1> QED BY <1>7, <1>8, <1>10

\* The scene shows what is in the registry: one transform for each entity that is there and has a
\* mesh component, at most one group and light, and nothing for an entity that is not there, when the
\* server sends no entity twice; an entity with a mesh and a light leaves at most one of them behind.
THEOREM SceneIsRegistry == Spec => []SceneFollowsRegistry
<1>1. Inductive => SceneFollowsRegistry
    <2> SUFFICES ASSUME Inductive, NEW g \in Guids, Cardinality({e \in DOMAIN entities : GuidOf(e) = g}) <= 1
                 PROVE  LET present == IF registry[g] # 0 THEN 1 ELSE 0
                            both == g \in Lights /\ Mesh[g] \in Uris
                        IN  /\ dom["transform"][g] = IF Mesh[g] = NoMesh THEN 0 ELSE present
                            /\ dom["group"][g] + dom["light"][g] <= IF both THEN present + 1 ELSE present
        BY DEF SceneFollowsRegistry
    <2>1. entities \in Seq(Entity) /\ SceneFits
        BY DEF Inductive, TypeOK
    <2>2. PICK t, n, l : t = dom["transform"][g] /\ n = dom["group"][g] /\ l = dom["light"][g]
        OBVIOUS
    <2>3. t \in Nat /\ n \in Nat /\ l \in Nat
        BY <2>2 DEF Inductive, TypeOK, Elements
    <2>4. CASE \A e \in DOMAIN entities : GuidOf(e) # g
        <3>1. registry[g] = 0 /\ t = 0 /\ n = 0 /\ l = 0
            BY <2>1, <2>2, <2>4 DEF SceneFits
        <3> QED BY <2>2, <3>1
    <2>5. ASSUME NEW e \in DOMAIN entities, GuidOf(e) = g
          PROVE  LET present == IF registry[g] # 0 THEN 1 ELSE 0
                     both == g \in Lights /\ Mesh[g] \in Uris
                 IN  /\ t = IF Mesh[g] = NoMesh THEN 0 ELSE present
                     /\ n + l <= IF both THEN present + 1 ELSE present
        <3>1. \A f \in DOMAIN entities : GuidOf(f) = g => f = e
            BY <2>1, <2>5, OneObject
        <3>2. ElementsFit(e, g)
            BY <2>1, <2>5, <3>1 DEF SceneFits
        <3>3. PICK group : group = entities[e].group
            OBVIOUS
        <3>4. /\ t = IF registry[g] # 0 /\ Mesh[g] # NoMesh THEN 1 ELSE 0
              /\ registry[g] = 0 => group = "none"
              /\ g \notin Lights \/ Mesh[g] = NoMesh => l = 0
              /\ Mesh[g] \notin Uris => n = 0
              /\ g \notin Lights => n = IF group = "group" THEN 1 ELSE 0
              /\ g \in Lights /\ Mesh[g] # NoMesh =>
                     IF registry[g] # 0 THEN l = 1 /\ n <= 1
                     ELSE l + n <= 1 /\ (Mesh[g] \notin Uris => l = 0)
            BY <2>2, <3>2, <3>3 DEF ElementsFit
        <3>5. CASE g \notin Lights
            BY <2>3, <3>4, <3>5
        <3>6. CASE g \in Lights /\ Mesh[g] = NoMesh
            <4>1. l = 0 /\ n = 0 /\ t = 0
                BY <3>4, <3>6, MeshAssumption
            <4> QED BY <3>6, <4>1, MeshAssumption
        <3>7. CASE g \in Lights /\ Mesh[g] # NoMesh
            BY <2>3, <3>4, <3>7
        <3> QED BY <3>5, <3>6, <3>7
    <2> QED BY <2>2, <2>4, <2>5
<1> QED BY <1>1, InductiveInvariant, PTL
=============================================================================
