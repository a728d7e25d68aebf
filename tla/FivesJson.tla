----------------------------- MODULE FivesJson -----------------------------
(***************************************************************************)
(* The remote procedure calls of the web client: the JSONWebSocket of      *)
(* scripts/lib/websocket-json.js and the CallResponse of                   *)
(* scripts/lib/kiara.js. The browser runs one task at a time, so every     *)
(* event of a WebSocket and every call of a script is one action.          *)
(*                                                                         *)
(* Both onerror and onclose of a WebSocket are bound to                    *)
(* __handleDisconnect. The browser fires "error" and then "close" in one   *)
(* task when a connection cannot be opened or breaks, and only "close"     *)
(* when it is closed cleanly: a broken connection is handled twice. Each   *)
(* handling opens a new socket, which becomes __ws; the handlers of the    *)
(* older ones stay in place. __reconnectAttempts is never reset.           *)
(*                                                                         *)
(* External: the browser's WebSocket, and the server, which may answer the *)
(* requests that it has received in any order, or not at all.              *)
(***************************************************************************)
EXTENDS Naturals, Sequences, FiniteSets, Functions

CONSTANTS NumCalls,             \* the calls made by scripts, in this order (a bound)
          OneWay,               \* the calls that are not tracked
          Throwing,             \* the calls whose listener throws when handed the answer
          Funcs,                \* the functions that scripts register for the server
          OneWayFuncs,          \* those that are registered as one-way
          MaxReconnectAttempts

Calls == 1 .. NumCalls

ASSUME CallsAssumption ==
    /\ NumCalls \in Nat
    /\ OneWay \subseteq Calls
    /\ Throwing \subseteq Calls
ASSUME FuncsAssumption == OneWayFuncs \subseteq Funcs
ASSUME AttemptsAssumption == MaxReconnectAttempts \in Nat

VARIABLES sockets,      \* the state of every WebSocket that was created, oldest first
          attempts,     \* __reconnectAttempts
          nextCallID,   \* __nextCallID
          activeCalls,  \* __activeCalls: the call that waits under each call ID
          cachedCalls,  \* __cachedCalls
          funcs,        \* the names in __funcs
          status,       \* what the script has learnt of each call
          requests,     \* the requests sent, by socket, that the server has not answered
          sent,         \* history: the calls in the order in which they were sent
          served        \* history: the calls of the server, with the sockets of call and reply

vars == <<sockets, attempts, nextCallID, activeCalls, cachedCalls, funcs, status,
          requests, sent, served>>

Statuses == {"unmade", "made", "result", "exception", "error"}
Requests == [socket : Nat \ {0}, id : Nat, call : Calls]

\* self.__ws is the socket that was created last.
ws == Len(sockets)
IsOpen == sockets[ws] = "open"

CallsIn(f) == {f[x] : x \in DOMAIN f}

\* Calls of which the script will hear: they wait for an answer or for a connection.
Tracked == CallsIn(activeCalls) \cup CallsIn(cachedCalls)

TypeOK ==
    /\ sockets \in Seq({"connecting", "open", "closed"}) /\ sockets # <<>>
    /\ attempts \in Nat
    /\ nextCallID \in Nat
    /\ DOMAIN activeCalls \subseteq Nat /\ activeCalls \in [DOMAIN activeCalls -> Calls]
    /\ cachedCalls \in Seq(Calls)
    /\ funcs \subseteq Funcs
    /\ status \in [Calls -> Statuses]
    /\ requests \subseteq Requests
    /\ sent \in Seq(Calls)
    /\ served \subseteq [func : Funcs, from : Nat, reply : Nat]

\* Mutant: the constructor connects twice.
InitConnectsTwice ==
    /\ sockets = <<"connecting", "connecting">>
    /\ attempts = 0
    /\ nextCallID = 0
    /\ activeCalls = <<>>
    /\ cachedCalls = <<>>
    /\ funcs = {}
    /\ status = [c \in Calls |-> "unmade"]
    /\ requests = {}
    /\ sent = <<>>
    /\ served = {}

\* JSONWebSocket(config) ends with __connect().
Init ==
    /\ sockets = <<"connecting">>
    /\ attempts = 0
    /\ nextCallID = 0
    /\ activeCalls = <<>>
    /\ cachedCalls = <<>>
    /\ funcs = {}
    /\ status = [c \in Calls |-> "unmade"]
    /\ requests = {}
    /\ sent = <<>>
    /\ served = {}

(***************************************************************************)
(* Calls of the scripts.                                                   *)
(***************************************************************************)

\* callMethod for each of q, over a socket that is open.
SendAll(q) ==
    LET ids == nextCallID .. nextCallID + Len(q) - 1
        callOf == [id \in ids |-> q[id - nextCallID + 1]]
        tracked == {id \in ids : callOf[id] \notin OneWay}
    IN  /\ nextCallID' = nextCallID + Len(q)
        /\ activeCalls' = [id \in DOMAIN activeCalls \cup tracked |->
                             IF id \in tracked THEN callOf[id] ELSE activeCalls[id]]
        /\ requests' = requests \cup {[socket |-> ws, id |-> id, call |-> callOf[id]] : id \in ids}
        /\ sent' = sent \o q

CallMethod(c) ==
    /\ status[c] = "unmade"
    /\ \A d \in Calls : status[d] = "unmade" => c <= d
    /\ status' = [status EXCEPT ![c] = "made"]
    /\ \/ IsOpen /\ SendAll(<<c>>) /\ UNCHANGED cachedCalls
       \/ /\ ~IsOpen
          /\ cachedCalls' = Append(cachedCalls, c)
          /\ UNCHANGED <<nextCallID, activeCalls, requests, sent>>
    /\ UNCHANGED <<sockets, attempts, funcs, served>>

RegisterFunc(f) ==
    /\ f \notin funcs
    /\ funcs' = funcs \cup {f}
    /\ UNCHANGED <<sockets, attempts, nextCallID, activeCalls, cachedCalls, status,
                   requests, sent, served>>

(***************************************************************************)
(* Events of the sockets.                                                  *)
(***************************************************************************)

\* Mutant: the calls are sent, and stay in the cache.
HandleConnectKeepsCache(s) ==
    /\ sockets[s] = "connecting"
    /\ sockets' = [sockets EXCEPT ![s] = "open"]
    /\ \/ sockets'[ws] = "open" /\ SendAll(cachedCalls)
       \/ sockets'[ws] # "open" /\ UNCHANGED <<nextCallID, activeCalls, requests, sent>>
    /\ UNCHANGED <<cachedCalls, attempts, funcs, status, served>>

\* Mutant: every connection numbers its calls from 0.
HandleConnectRestartsIDs(s) ==
    /\ sockets[s] = "connecting"
    /\ sockets' = [sockets EXCEPT ![s] = "open"]
    /\ nextCallID' = 0
    /\ UNCHANGED <<activeCalls, requests, sent, cachedCalls, attempts, funcs, status, served>>

\* Mutant: the cache is not looked at when the connection is there.
HandleConnectIdle(s) ==
    /\ sockets[s] = "connecting"
    /\ sockets' = [sockets EXCEPT ![s] = "open"]
    /\ UNCHANGED <<nextCallID, activeCalls, requests, sent, cachedCalls, attempts, funcs,
                   status, served>>

\* onopen of socket s. The cached calls go through callMethod, which looks at
\* __ws: when that is another socket and still connecting, they are pushed on
\* the array that is being enumerated, and the array is then replaced.
HandleConnect(s) ==
    /\ sockets[s] = "connecting"
    /\ sockets' = [sockets EXCEPT ![s] = "open"]
    /\ \/ sockets'[ws] = "open" /\ SendAll(cachedCalls)
       \/ sockets'[ws] # "open" /\ UNCHANGED <<nextCallID, activeCalls, requests, sent>>
    /\ cachedCalls' = <<>>
    /\ UNCHANGED <<attempts, funcs, status, served>>

\* How many of the next events lead to a new socket.
Reconnects(events) ==
    IF attempts + events <= MaxReconnectAttempts THEN events
    ELSE IF attempts < MaxReconnectAttempts THEN MaxReconnectAttempts - attempts ELSE 0

\* Mutant: the calls in progress are dropped with every connection.
DisconnectDropsActive(s, events) ==
    /\ attempts' = attempts + events
    /\ sockets' = [i \in 1 .. ws + Reconnects(events) |->
                     IF i > ws THEN "connecting" ELSE IF i = s THEN "closed" ELSE sockets[i]]
    /\ requests' = {r \in requests : r.socket # s}
    /\ activeCalls' = <<>>
    /\ UNCHANGED <<status, cachedCalls, nextCallID, funcs, sent, served>>

\* Mutant: the calls that fail when the reconnection is given up stay active.
GiveUpKeepsActive(s, events) ==
    /\ attempts' = attempts + events
    /\ sockets' = [i \in 1 .. ws + Reconnects(events) |->
                     IF i > ws THEN "connecting" ELSE IF i = s THEN "closed" ELSE sockets[i]]
    /\ requests' = {r \in requests : r.socket # s}
    /\ \/ /\ attempts' > MaxReconnectAttempts
          /\ status' = [c \in Calls |-> IF c \in Tracked THEN "error" ELSE status[c]]
          /\ cachedCalls' = <<>>
       \/ attempts' <= MaxReconnectAttempts /\ UNCHANGED <<status, cachedCalls>>
    /\ UNCHANGED <<activeCalls, nextCallID, funcs, sent, served>>

\* __handleDisconnect, run for the given number of events of socket s.
HandleDisconnect(s, events) ==
    /\ attempts' = attempts + events
    /\ sockets' = [i \in 1 .. ws + Reconnects(events) |->
                     IF i > ws THEN "connecting" ELSE IF i = s THEN "closed" ELSE sockets[i]]
    /\ requests' = {r \in requests : r.socket # s}
    /\ \/ /\ attempts' > MaxReconnectAttempts
          /\ status' = [c \in Calls |-> IF c \in Tracked THEN "error" ELSE status[c]]
          /\ activeCalls' = <<>>
          /\ cachedCalls' = <<>>
       \/ attempts' <= MaxReconnectAttempts /\ UNCHANGED <<status, activeCalls, cachedCalls>>
    /\ UNCHANGED <<nextCallID, funcs, sent, served>>

SocketCloses(s) == sockets[s] = "open" /\ HandleDisconnect(s, 1)
SocketBreaks(s) == sockets[s] \in {"connecting", "open"} /\ HandleDisconnect(s, 2)

\* The answer to request r arrives. The entry is deleted after setResult has
\* run the listeners, so it stays if one of them throws.
HandleCallReply(r) ==
    /\ sockets[r.socket] = "open"
    /\ requests' = requests \ {r}
    /\ \/ /\ r.id \in DOMAIN activeCalls
          /\ \E a \in {"result", "exception"} :
                status' = [status EXCEPT ![activeCalls[r.id]] = a]
          /\ activeCalls' = IF activeCalls[r.id] \in Throwing THEN activeCalls
                            ELSE Restrict(activeCalls, DOMAIN activeCalls \ {r.id})
       \/ r.id \notin DOMAIN activeCalls /\ UNCHANGED <<status, activeCalls>>
    /\ UNCHANGED <<sockets, attempts, nextCallID, cachedCalls, funcs, sent, served>>

\* The server refuses request r with a call-error; the entry is not deleted.
HandleCallError(r) ==
    /\ sockets[r.socket] = "open"
    /\ requests' = requests \ {r}
    /\ status' = IF r.id \in DOMAIN activeCalls
                 THEN [status EXCEPT ![activeCalls[r.id]] = "error"] ELSE status
    /\ UNCHANGED <<sockets, attempts, nextCallID, activeCalls, cachedCalls, funcs, sent, served>>

\* The server calls f over socket s. The reply, or the call-error for a function
\* that is not registered, goes out over __ws, if that is open.
HandleCall(f, s) ==
    /\ sockets[s] = "open"
    /\ served' = IF IsOpen /\ f \notin OneWayFuncs \cap funcs
                 THEN served \cup {[func |-> f, from |-> s, reply |-> ws]} ELSE served
    /\ UNCHANGED <<sockets, attempts, nextCallID, activeCalls, cachedCalls, funcs, status,
                   requests, sent>>

Next ==
    \/ \E c \in Calls : CallMethod(c)
    \/ \E f \in Funcs : RegisterFunc(f)
    \/ \E s \in DOMAIN sockets :
          \/ HandleConnect(s) \/ SocketCloses(s) \/ SocketBreaks(s)
          \/ \E f \in Funcs : HandleCall(f, s)
    \/ \E r \in requests : HandleCallReply(r) \/ HandleCallError(r)

\* The browser gives up on a socket that does not connect: it opens or it breaks.
Fairness ==
    \A s \in 1 .. MaxReconnectAttempts + 1 :
        WF_vars(s \in DOMAIN sockets /\ sockets[s] = "connecting"
                /\ (HandleConnect(s) \/ SocketBreaks(s)))

Spec == Init /\ [][Next]_vars /\ Fairness

(***************************************************************************)
(* Properties.                                                             *)
(***************************************************************************)

\* A call is sent at most once and after every call that was made before it,
\* whether it was cached or not: the calls that wait for a connection come after
\* those already sent. The cache is replayed by __handleConnect, emptied by two
\* other handlers, and by-passed by callMethod.
SentOnceInOrder ==
    LET all == sent \o cachedCalls
    IN  /\ \A i, j \in DOMAIN all : i < j => all[i] < all[j]
        /\ \A i \in DOMAIN all : status[all[i]] # "unmade"

\* No socket has broken so far: each closed socket was closed cleanly.
NoneBroke == attempts = Cardinality({s \in DOMAIN sockets : sockets[s] = "closed"})

\* As long as connections are only closed cleanly, no call is forgotten: the
\* script has its answer or its failure, or will get one of them when the call
\* is answered or the reconnection is given up. (When a socket breaks, two
\* sockets take its place, and this is no longer true: NoCallForgotten.)
NoneForgottenIfClosedCleanly ==
    NoneBroke => \A c \in Calls \ OneWay :
                    status[c] = "made" => c \in Tracked

\* As long as connections are only closed cleanly, the reply to a call of the
\* server goes out over the connection on which the call came in, although
\* __handleCall uses whatever socket was created last.
RepliesGoBack ==
    [][NoneBroke' => \A r \in served' \ served : r.reply = r.from]_vars

\* The generated wrappers promise: "error is invoked when call failed". A call
\* whose connection is gone and that nobody tracks any more has failed.
NoCallForgotten ==
    \A c \in Calls \ OneWay : status[c] = "made" => c \in Tracked

\* The script is handed the answer to its own call and to no other, across
\* reconnections and with answers from several sockets at once.
AnswersBelong ==
    [][\A c \in Calls : status'[c] \in {"result", "exception"} /\ status[c] # status'[c]
          => \E r \in requests \ requests' : r.call = c /\ sockets[r.socket] = "open"]_vars

\* Calls are made in the order of their numbers.
MadeInOrder ==
    \A c, d \in Calls : status[c] # "unmade" /\ status[d] = "unmade" => c < d

\* The calls sent come before the calls cached, both in the order they were made in.
Ordered ==
    /\ \A i, j \in DOMAIN sent : i < j => sent[i] < sent[j]
    /\ \A i, j \in DOMAIN cachedCalls : i < j => cachedCalls[i] < cachedCalls[j]
    /\ \A i \in DOMAIN sent, j \in DOMAIN cachedCalls : sent[i] < cachedCalls[j]

\* A call ID is the position at which its call was sent: IDs are never used twice.
IDsArePositions ==
    /\ nextCallID = Len(sent)
    /\ \A id \in DOMAIN activeCalls : id < nextCallID /\ activeCalls[id] = sent[id + 1]
    /\ \A r \in requests : r.id < nextCallID /\ r.call = sent[r.id + 1]
    /\ \A r, q \in requests : r.id = q.id => r = q

\* Calls are cached only while there is no connection to send them over.
CachedOffline == IsOpen => cachedCalls = <<>>

\* What the script knows of a call that has been sent, that waits in the cache,
\* that the server may still answer, and that is active.
StatusFits ==
    /\ \A i \in DOMAIN sent : status[sent[i]] # "unmade"
    /\ \A i \in DOMAIN cachedCalls : status[cachedCalls[i]] = "made"
    /\ \A r \in requests : r.id \in DOMAIN activeCalls => status[activeCalls[r.id]] = "made"
    /\ \A id \in DOMAIN activeCalls :
          \/ status[activeCalls[id]] \in {"made", "error"}
          \/ activeCalls[id] \in Throwing /\ status[activeCalls[id]] \in {"result", "exception"}

\* The inductive invariant of FivesJsonProofs.
Inductive ==
    TypeOK /\ MadeInOrder /\ Ordered /\ IDsArePositions /\ CachedOffline /\ StatusFits

\* Each event of a socket counts as an attempt and leads to one new socket, up to the limit. As
\* long as none has broken, all sockets but the newest are closed, and the newest is when the
\* reconnection has been given up.
ClosedSockets == {s \in DOMAIN sockets : sockets[s] = "closed"}
SocketsFit ==
    /\ ws = IF attempts <= MaxReconnectAttempts THEN attempts + 1 ELSE MaxReconnectAttempts + 1
    /\ Cardinality(ClosedSockets) <= attempts
    /\ NoneBroke => \A s \in DOMAIN sockets : s # ws => sockets[s] = "closed"
    /\ NoneBroke => (sockets[ws] = "closed" <=> attempts > MaxReconnectAttempts)

\* The calls keep the promise of the abstract module.
Abstract == INSTANCE RemoteCalls
KeepsPromise == Abstract!Spec

\* A call does not wait in the cache for ever, unless the reconnection has been
\* given up: each socket opens or breaks, and the last one to be created sends
\* the calls, fails them, or makes place for another.
CacheDrains ==
    \A c \in Calls : (c \in CallsIn(cachedCalls) /\ attempts <= MaxReconnectAttempts)
                        ~> c \notin CallsIn(cachedCalls)

\* Why it does not: as long as calls wait in the cache the newest socket is connecting, and
\* when it has opened or broken the cache is empty or another socket is the newest, of which
\* there are finitely many.
NewestDrains ==
    [][cachedCalls # <<>> /\ attempts <= MaxReconnectAttempts =>
          /\ sockets[ws] = "connecting"
          /\ sockets'[ws] # "connecting" =>
                \/ cachedCalls' = <<>>
                \/ ws < ws' /\ ws' <= MaxReconnectAttempts + 1]_vars
=============================================================================
