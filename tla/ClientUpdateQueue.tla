------------------------- MODULE ClientUpdateQueue -------------------------
(***************************************************************************)
(* Attribute changes on their way to the clients                           *)
(* (Plugins/ClientManager/ClientUpdateQueue.cs and ClientQueue.cs).        *)
(*                                                                         *)
(* The thread that changes an attribute puts the change into one global    *)
(* queue.  An update thread copies that queue to a queue per client and    *)
(* then clears it, and each client has a thread that calls the client with *)
(* what its queue holds.  QueueLock guards the global queue,               *)
(* CallbackRegistryLock the dictionary of clients, and each client queue   *)
(* is its own lock.  An action is what a thread does under a lock; where   *)
(* several steps happen under one, it is held between the actions.         *)
(*                                                                         *)
(* The k-th update that was queued is the number k, and log[k] its entity: *)
(* nothing here looks at the rest of an UpdateInfo.  The client filter     *)
(* InterestedIn is empty for every client.                                 *)
(***************************************************************************)
EXTENDS Integers, Sequences, SequencesExt

CONSTANTS
    Client,         \* client connections; a connection registers once
    Entity,         \* entities in the World to whose changes the queue has subscribed
    Writer,         \* threads that change attributes
    Failing,        \* clients whose callback may throw
    MaxChanges,     \* bound: number of attribute changes
    Nothing         \* no change

ASSUME QueueAssumption ==
    /\ Failing \subseteq Client
    /\ MaxChanges \in Nat
    /\ Nothing \notin Entity

VARIABLES
    world,          \* entities in the World
    pending,        \* pending[t]: entity that t has changed with the event still to be handled
    log,            \* history: the entities of the updates queued so far
    updateQueue,    \* UpdateQueue
    updater,        \* what the update thread is doing
    todo,           \* clients that InvokeClientCallbacks has still to reach
    clients,        \* the keys of ClientQueues
    thread,         \* thread[c]: where the thread of the queue of c stands
    running,        \* running[c]: Running of the queue of c
    queue,          \* queue[c]: Queue of the queue of c
    sent,           \* history: sent[c] is what c was called with
    feed,           \* history: the snapshots taken, one after the other
    start           \* history: start[c] is the length of the feed when c registered

worldVars == <<world, pending>>
clientVars == <<clients, thread, running, queue, sent, start>>
vars == <<worldVars, log, updateQueue, updater, todo, feed, clientVars>>

Updates == 1 .. MaxChanges

TypeOK ==
    /\ world \subseteq Entity
    /\ pending \in [Writer -> Entity \cup {Nothing}]
    /\ log \in Seq(Entity) /\ Len(log) <= MaxChanges
    /\ updateQueue \in Seq(Updates)
    /\ updater \in {"waiting", "copying", "flushed"}
    /\ todo \subseteq clients
    /\ clients \subseteq Client
    /\ thread \in [Client -> {"none", "starting", "sleeping", "locking", "calling", "ended"}]
    /\ running \in [Client -> BOOLEAN]
    /\ queue \in [Client -> Seq(Updates)]
    /\ sent \in [Client -> Seq(Updates)]
    /\ feed \in Seq(Updates)
    /\ start \in [Client -> 0 .. MaxChanges]

\* QueueLock and CallbackRegistryLock are both held from the snapshot to the last client;
\* the queue of a client is locked while the client is called.
QueueLocked == updater = "copying"
RegistryLocked == updater = "copying"
ClientLocked(c) == thread[c] = "calling"

-----------------------------------------------------------------------------
(* Threads that change the World *)

InFlight == {t \in Writer : pending[t] # Nothing}

\* Attribute.Set stores a new value and raises ChangedAttribute, also for an entity that
\* has been removed from the World: nobody cancels the subscription.
SetAttribute(t, e) ==
    /\ pending[t] = Nothing
    /\ Len(log) + Cardinality(InFlight) < MaxChanges
    /\ pending' = [pending EXCEPT ![t] = e]
    /\ UNCHANGED <<world, log, updateQueue, updater, todo, feed, clientVars>>

AddEntityUpdateToQueue(t) ==
    /\ pending[t] # Nothing
    /\ ~QueueLocked
    /\ log' = Append(log, pending[t])
    /\ updateQueue' = Append(updateQueue, Len(log'))
    /\ pending' = [pending EXCEPT ![t] = Nothing]
    /\ UNCHANGED <<world, updater, todo, feed, clientVars>>

\* World.Remove and RemoveEntityFromQueue.  It compares the guid of an update, a string,
\* with a Guid: they are never equal, and no update leaves the queue.
RemoveEntityFromQueue(e) ==
    /\ e \in world
    /\ ~QueueLocked
    /\ world' = world \ {e}
    /\ UNCHANGED <<pending, log, updateQueue, updater, todo, feed, clientVars>>

-----------------------------------------------------------------------------
(* The update thread: FlushUpdateQueue *)

\* FlushQueueToClients takes both locks and the snapshot.
FlushQueueToClients ==
    /\ updater = "waiting"
    /\ updateQueue # <<>>
    /\ updater' = "copying"
    /\ todo' = clients
    /\ feed' = feed \o updateQueue
    /\ UNCHANGED <<worldVars, log, updateQueue, clientVars>>

\* Mutant: the client queue is replaced.
AddUpdatesReplaces(c) ==
    /\ updater = "copying"
    /\ c \in todo
    /\ ~ClientLocked(c)
    /\ queue' = [queue EXCEPT ![c] = updateQueue]
    /\ todo' = todo \ {c}
    /\ UNCHANGED <<worldVars, log, updateQueue, updater, feed,
                   clients, thread, running, sent, start>>

\* Mutant: the update thread waits until the client has taken what it had.
AddUpdatesWaits(c) ==
    /\ updater = "copying"
    /\ c \in todo
    /\ ~ClientLocked(c) /\ queue[c] = <<>>
    /\ queue' = [queue EXCEPT ![c] = updateQueue]
    /\ todo' = todo \ {c}
    /\ UNCHANGED <<worldVars, log, updateQueue, updater, feed,
                   clients, thread, running, sent, start>>

\* AddUpdates of the snapshot for the next client.
AddUpdates(c) ==
    /\ updater = "copying"
    /\ c \in todo
    /\ ~ClientLocked(c)
    /\ queue' = [queue EXCEPT ![c] = @ \o updateQueue]
    /\ todo' = todo \ {c}
    /\ UNCHANGED <<worldVars, log, updateQueue, updater, feed,
                   clients, thread, running, sent, start>>

\* All clients have the snapshot: both locks are released.
ReleaseLocks ==
    /\ updater = "copying"
    /\ todo = {}
    /\ updater' = "flushed"
    /\ UNCHANGED <<worldVars, log, updateQueue, todo, feed, clientVars>>

\* Mutant: the queue is not cleared.
ClearForgotten ==
    /\ updater = "flushed"
    /\ updater' = "waiting"
    /\ UNCHANGED <<worldVars, log, updateQueue, todo, feed, clientVars>>

\* ClearQueue takes QueueLock again, and clears whatever is in the queue by then.
ClearQueue ==
    /\ updater = "flushed"
    /\ updateQueue' = <<>>
    /\ updater' = "waiting"
    /\ UNCHANGED <<worldVars, log, todo, feed, clientVars>>

UpdateThread ==
    \/ FlushQueueToClients
    \/ \E c \in Client : AddUpdates(c)
    \/ ReleaseLocks
    \/ ClearQueue

-----------------------------------------------------------------------------
(* Clients come and go *)

RegisterToClientUpdates(c) ==
    /\ thread[c] = "none"
    /\ ~RegistryLocked
    /\ clients' = clients \cup {c}
    /\ thread' = [thread EXCEPT ![c] = "starting"]
    /\ running' = [running EXCEPT ![c] = TRUE]
    /\ start' = [start EXCEPT ![c] = Len(feed)]
    /\ UNCHANGED <<worldVars, log, updateQueue, updater, todo, feed, queue, sent>>

\* Mutant: the queue is taken out of the dictionary and its thread left running.
StopWithoutAbort(c) ==
    /\ c \in clients
    /\ ~RegistryLocked
    /\ clients' = clients \ {c}
    /\ UNCHANGED <<worldVars, log, updateQueue, updater, todo, feed,
                   running, thread, queue, sent, start>>

\* Abort does not take the lock of the client queue.
StopClientUpdates(c) ==
    /\ c \in clients
    /\ ~RegistryLocked
    /\ clients' = clients \ {c}
    /\ running' = [running EXCEPT ![c] = FALSE]
    /\ UNCHANGED <<worldVars, log, updateQueue, updater, todo, feed,
                   thread, queue, sent, start>>

-----------------------------------------------------------------------------
(* The thread of a client queue: FlushClientQueue *)

\* The thread of c moves on, and nothing but its place changes.
ThreadStep(c, from, to) ==
    /\ thread[c] = from
    /\ thread' = [thread EXCEPT ![c] = to]
    /\ UNCHANGED <<worldVars, log, updateQueue, updater, todo, feed,
                   clients, running, queue, sent, start>>

\* A task that was cancelled before it started does not run.
StartTask(c) == ThreadStep(c, "starting", IF running[c] THEN "sleeping" ELSE "ended")

\* The condition of the loop.
CheckRunning(c) == ThreadStep(c, "sleeping", IF running[c] THEN "locking" ELSE "ended")

\* Mutant: the thread ends when it finds nothing to send.
LockQueueOrEnd(c) == ThreadStep(c, "locking", IF queue[c] = <<>> THEN "ended" ELSE "calling")

LockQueue(c) == ThreadStep(c, "locking", IF queue[c] = <<>> THEN "sleeping" ELSE "calling")

CallReturns(c) ==
    /\ thread[c] = "calling"
    /\ sent' = [sent EXCEPT ![c] = @ \o queue[c]]
    /\ queue' = [queue EXCEPT ![c] = <<>>]
    /\ thread' = [thread EXCEPT ![c] = "sleeping"]
    /\ UNCHANGED <<worldVars, log, updateQueue, updater, todo, feed,
                   clients, running, start>>

\* The exception is caught outside the lock: the queue keeps its updates for the next turn.
CallThrows(c) == c \in Failing /\ ThreadStep(c, "calling", "sleeping")

ClientThread(c) ==
    \/ StartTask(c)
    \/ CheckRunning(c)
    \/ LockQueue(c)
    \/ CallReturns(c)
    \/ CallThrows(c)

-----------------------------------------------------------------------------

Init ==
    /\ world = Entity
    /\ pending = [t \in Writer |-> Nothing]
    /\ log = <<>>
    /\ updateQueue = <<>>
    /\ updater = "waiting"
    /\ todo = {}
    /\ clients = {}
    /\ thread = [c \in Client |-> "none"]
    /\ running = [c \in Client |-> FALSE]
    /\ queue = [c \in Client |-> <<>>]
    /\ sent = [c \in Client |-> <<>>]
    /\ feed = <<>>
    /\ start = [c \in Client |-> 0]

Next ==
    \/ \E t \in Writer, e \in Entity : SetAttribute(t, e)
    \/ \E t \in Writer : AddEntityUpdateToQueue(t)
    \/ \E e \in Entity : RemoveEntityFromQueue(e)
    \/ UpdateThread
    \/ \E c \in Client : RegisterToClientUpdates(c) \/ StopClientUpdates(c)
    \/ \E c \in Client : ClientThread(c)

Spec == Init /\ [][Next]_vars

\* Every thread runs, and gets a lock that is free again and again; a client that is
\* called answers or fails.
Fairness ==
    /\ WF_vars(UpdateThread)
    /\ \A c \in Client : SF_vars(AddUpdates(c)) /\ WF_vars(ClientThread(c))
    /\ \A t \in Writer : SF_vars(AddEntityUpdateToQueue(t))

FairSpec == Spec /\ Fairness

-----------------------------------------------------------------------------
(* Properties *)

\* A registered client has been sent, or will find in its queue, exactly what was
\* flushed since it registered, in that order: neither the two threads that work on its
\* queue nor a callback that fails and is repeated loses, repeats or reorders an update.
ClientsComplete ==
    \A c \in clients :
        sent[c] \o queue[c] \o (IF c \in todo THEN updateQueue ELSE <<>>)
            = SubSeq(feed, start[c] + 1, Len(feed))

\* All clients follow one feed, with the oldest update first and none twice.
Stream == INSTANCE UpdateStream
FollowStream == Stream!StreamSpec

\* "Sends those to clients to synchronize with the server state"
\* (ClientUpdateQueue.cs:24-26): every update that was queued is in the queue or flushed.
NoUpdateLost == \A k \in 1 .. Len(log) : k \in ToSet(updateQueue) \cup ToSet(feed)

\* "Removes all unsent update information of a removed entity from the update queue"
\* (ClientUpdateQueue.cs:211-213).
RemovedEntityUnqueued ==
    [][\A e \in world \ world' : \A k \in ToSet(updateQueue') : log'[k] # e]_vars

\* An update that the update thread finds in the queue reaches every client that is
\* registered then and does not fail or leave, whatever the other clients do.
UpdatesArrive ==
    \A c \in Client \ Failing, k \in Updates :
        (updater = "waiting" /\ k \in ToSet(updateQueue) /\ c \in clients)
            ~> (k \in ToSet(sent[c]) \/ c \notin clients)

\* A thread that changed an attribute gets out of the event handler: no failing client
\* holds up the World.
WritersProgress == \A t \in Writer : pending[t] # Nothing ~> pending[t] = Nothing

\* The thread of a client that has left ends, also when all its calls fail.
StoppedThreadsEnd ==
    \A c \in Client : (thread[c] # "none" /\ c \notin clients) ~> thread[c] = "ended"

-----------------------------------------------------------------------------
(* What every step keeps, and the proofs rest on *)

\* No more changes are on their way than MaxChanges lets through, and no more updates in
\* the feed, or waiting to be flushed, than have been queued.
WithinBound ==
    /\ IsFiniteSet(InFlight)
    /\ Len(log) + Cardinality(InFlight) <= MaxChanges
    /\ Len(feed) + (IF updater = "waiting" THEN Len(updateQueue) ELSE 0) <= Len(log)

\* The feed and the queue hold updates in their order, and an update that waits while
\* nothing is flushed is newer than all of the feed.
InOrder ==
    /\ Stream!Increasing(feed)
    /\ Stream!Increasing(updateQueue)
    /\ \A i \in DOMAIN feed : feed[i] <= Len(log)
    /\ \A i \in DOMAIN updateQueue : updateQueue[i] <= Len(log)
    /\ updater = "waiting" =>
          \A i \in DOMAIN feed, j \in DOMAIN updateQueue : feed[i] < updateQueue[j]

\* While clients get the snapshot it is the queue, and the end of the feed.
SnapshotFlushed ==
    IF updater = "copying"
    THEN /\ Len(updateQueue) <= Len(feed)
         /\ \A i \in DOMAIN updateQueue : feed[Len(feed) - Len(updateQueue) + i] = updateQueue[i]
    ELSE todo = {}

\* A client has been sent a part of the feed, and the next part of it is in its queue,
\* also when it has left: its thread may send the rest.
FollowsFeed(c) ==
    /\ start[c] + Len(sent[c]) + Len(queue[c]) <= Len(feed)
    /\ \A i \in DOMAIN sent[c] : sent[c][i] = feed[start[c] + i]
    /\ \A i \in DOMAIN queue[c] : queue[c][i] = feed[start[c] + Len(sent[c]) + i]

\* A registered client lacks nothing but the snapshot it has still to get.
UpToDate(c) ==
    start[c] + Len(sent[c]) + Len(queue[c]) + (IF c \in todo THEN Len(updateQueue) ELSE 0) = Len(feed)

Untouched(c) == c \notin clients /\ queue[c] = <<>> /\ sent[c] = <<>>

Inductive ==
    /\ TypeOK
    /\ WithinBound
    /\ InOrder
    /\ SnapshotFlushed
    /\ \A c \in Client : FollowsFeed(c) /\ (thread[c] = "none" => Untouched(c))
    /\ \A c \in clients : UpToDate(c)

=============================================================================
