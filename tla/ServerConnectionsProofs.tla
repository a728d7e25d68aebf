---------------------- MODULE ServerConnectionsProofs ----------------------
(***************************************************************************)
(* Proofs about the connections of servers.                                *)
(***************************************************************************)
EXTENDS ServerConnections, TLAPS

(***************************************************************************)
(* Bags of messages.                                                       *)
(***************************************************************************)

\* t is the bag s after one of each message of T was taken, or all of them, and then one of
\* each message of Q was added.
Moved(s, t, T, Q) ==
    /\ DOMAIN t \subseteq DOMAIN s \cup Q
    /\ DOMAIN s \ T \subseteq DOMAIN t
    /\ Q \subseteq DOMAIN t
    /\ \A m \in DOMAIN t \ Q : t[m] <= s[m]
    /\ \A m \in Q \ DOMAIN s : t[m] = 1
    /\ \A m \in (T \cap DOMAIN s) \ Q : s[m] = 1 => m \notin DOMAIN t

\* No message of Q is part of a handshake, or about a domain.
Quiet(Q) == \A m \in Q : m.type \in {"addEntity", "define"}

\* Bags of messages are functions to positive numbers.
LEMMA BagFacts ==
    ASSUME NEW B
    PROVE  /\ IsABag(B) <=> B \in [DOMAIN B -> {n \in Nat : n > 0}]
           /\ MessageBag(B) <=> IsABag(B) /\ DOMAIN B \subseteq Messages
           /\ BagToSet(B) = DOMAIN B
           /\ \A type, part : Has(B, type, part) <=> \E m \in DOMAIN B : m.type = type /\ m.part = part
BY DEF IsABag, MessageBag, BagToSet, Has

\* The empty bag.
LEMMA EmptyBagFacts == MessageBag(EmptyBag) /\ DOMAIN EmptyBag = {}
BY DEF MessageBag, IsABag, BagToSet, EmptyBag, SetToBag

\* Adding one of each message of Q.
LEMMA AddedTo ==
    ASSUME NEW r, MessageBag(r), NEW Q \in SUBSET Messages
    PROVE  /\ MessageBag(r (+) SetToBag(Q)) /\ DOMAIN (r (+) SetToBag(Q)) = DOMAIN r \cup Q
           /\ \A m \in DOMAIN r \cup Q :
                 (r (+) SetToBag(Q))[m] =
                     (IF m \in DOMAIN r THEN r[m] ELSE 0) + (IF m \in Q THEN 1 ELSE 0)
<1> DEFINE t == r (+) SetToBag(Q)
<1>1. DOMAIN SetToBag(Q) = Q /\ \A m \in Q : SetToBag(Q)[m] = 1
    BY DEF SetToBag
<1>2. t = [m \in DOMAIN r \cup Q |->
               (IF m \in DOMAIN r THEN r[m] ELSE 0) + (IF m \in Q THEN SetToBag(Q)[m] ELSE 0)]
    BY <1>1 DEF (+)
<1>3. \A m \in DOMAIN r : r[m] \in Nat /\ r[m] > 0
    BY DEF MessageBag, IsABag
<1>4. DOMAIN r \subseteq Messages
    BY DEF MessageBag, BagToSet
<1>5. DOMAIN t = DOMAIN r \cup Q
    BY <1>2
<1>6. \A m \in DOMAIN r \cup Q :
          t[m] = (IF m \in DOMAIN r THEN r[m] ELSE 0) + (IF m \in Q THEN 1 ELSE 0)
    BY <1>1, <1>2
<1>7. t = [m \in DOMAIN t |-> t[m]]
    BY <1>2, <1>5
<1> HIDE DEF t
<1>8. \A m \in DOMAIN t : t[m] \in {n \in Nat : n > 0}
    BY <1>3, <1>5, <1>6
<1>9. MessageBag(t)
    BY <1>4, <1>5, <1>7, <1>8 DEF MessageBag, IsABag, BagToSet
<1> QED BY <1>5, <1>6, <1>9 DEF t

\* Taking one message.
LEMMA TakenFrom ==
    ASSUME NEW s, MessageBag(s), NEW m \in DOMAIN s
    PROVE  MessageBag(s (-) SetToBag({m})) /\ Moved(s, s (-) SetToBag({m}), {m}, {})
<1> DEFINE less == [x \in DOMAIN s |-> IF x = m THEN s[x] - 1 ELSE s[x]]
           t == [x \in {y \in DOMAIN s : less[y] > 0} |-> less[x]]
<1>1. DOMAIN SetToBag({m}) = {m} /\ SetToBag({m})[m] = 1
    BY DEF SetToBag
<1>2. s (-) SetToBag({m}) = t
    <2>1. less = [x \in DOMAIN s |-> IF x \in DOMAIN SetToBag({m}) THEN s[x] - SetToBag({m})[x] ELSE s[x]]
        BY <1>1
    <2> QED BY <2>1 DEF (-)
<1>3. \A x \in DOMAIN s : s[x] \in Nat /\ s[x] > 0
    BY DEF MessageBag, IsABag
<1>4. DOMAIN s \subseteq Messages
    BY DEF MessageBag, BagToSet
<1>5. \A x \in DOMAIN s : less[x] = IF x = m THEN s[x] - 1 ELSE s[x]
    OBVIOUS
<1>6. DOMAIN t = {y \in DOMAIN s : less[y] > 0} /\ t = [x \in DOMAIN t |-> less[x]]
    OBVIOUS
<1> HIDE DEF less, t
<1>7. \A x \in DOMAIN t : t[x] \in {n \in Nat : n > 0}
    BY <1>3, <1>5, <1>6
<1>8. MessageBag(t)
    <2>1. t = [x \in DOMAIN t |-> t[x]]
        BY <1>6
    <2> QED BY <1>4, <1>6, <1>7, <2>1 DEF MessageBag, IsABag, BagToSet
<1>9. Moved(s, t, {m}, {})
    <2>1. \A x \in DOMAIN t : x \in DOMAIN s /\ t[x] <= s[x]
        BY <1>3, <1>5, <1>6
    <2>2. \A x \in DOMAIN s : x # m => x \in DOMAIN t
        BY <1>3, <1>5, <1>6
    <2>3. s[m] = 1 => m \notin DOMAIN t
        BY <1>5, <1>6
    <2> QED BY <2>1, <2>2, <2>3 DEF Moved
<1> QED BY <1>2, <1>8, <1>9

\* Nothing moves, and all is lost.
LEMMA MovedNothing ==
    ASSUME NEW s, MessageBag(s)
    PROVE  Moved(s, s, {}, {}) /\ Moved(s, EmptyBag, DOMAIN s, {})
<1>1. \A m \in DOMAIN s : s[m] \in Nat
    BY DEF MessageBag, IsABag
<1>2. Moved(s, s, {}, {})
    BY <1>1 DEF Moved
<1>3. Moved(s, EmptyBag, DOMAIN s, {})
    BY EmptyBagFacts DEF Moved
<1> QED BY <1>2, <1>3

\* Sending after taking.
LEMMA MovedSent ==
    ASSUME NEW s, NEW r, NEW T, MessageBag(s), MessageBag(r), Moved(s, r, T, {}), NEW Q \in SUBSET Messages
    PROVE  Moved(s, r (+) SetToBag(Q), T, Q)
<1> DEFINE t == r (+) SetToBag(Q)
<1>1. /\ DOMAIN t = DOMAIN r \cup Q
      /\ \A m \in DOMAIN r \cup Q : t[m] = (IF m \in DOMAIN r THEN r[m] ELSE 0) + (IF m \in Q THEN 1 ELSE 0)
    BY AddedTo
<1>2. \A m \in DOMAIN r : r[m] \in Nat
    BY DEF MessageBag, IsABag
<1> HIDE DEF t
<1>3. DOMAIN r \subseteq DOMAIN s /\ DOMAIN s \ T \subseteq DOMAIN r /\ \A m \in DOMAIN r : r[m] <= s[m]
    BY DEF Moved
<1>4. \A m \in T \cap DOMAIN s : s[m] = 1 => m \notin DOMAIN r
    BY DEF Moved
<1>5. \A m \in DOMAIN t \ Q : t[m] <= s[m]
    BY <1>1, <1>2, <1>3
<1>6. \A m \in Q \ DOMAIN s : t[m] = 1
    BY <1>1, <1>3
<1>7. Moved(s, t, T, Q)
    BY <1>1, <1>3, <1>4, <1>5, <1>6 DEF Moved
<1> QED BY <1>7 DEF t

\* A message is there because it was there before, or because it was sent.
LEMMA HasMoved ==
    ASSUME NEW s, NEW t, NEW T, NEW Q, Moved(s, t, T, Q), NEW type, NEW part, Has(t, type, part),
           \A m \in Q : ~(m.type = type /\ m.part = part)
    PROVE  Has(s, type, part)
BY DEF Moved, Has, BagToSet

\* What was there and is not taken stays, and what is sent arrives.
LEMMA HasStays ==
    ASSUME NEW s, NEW t, NEW T, NEW Q, Moved(s, t, T, Q), NEW type, NEW part
    PROVE  /\ (\E m \in Q : m.type = type /\ m.part = part) => Has(t, type, part)
           /\ Has(s, type, part) /\ (\A m \in T : ~(m.type = type /\ m.part = part)) => Has(t, type, part)
BY DEF Moved, Has, BagToSet

\* A message that is there once and is not sent again is not there twice.
LEMMA OnceMoved ==
    ASSUME NEW s, NEW t, MessageBag(s), MessageBag(t), NEW T, NEW Q, Moved(s, t, T, Q), NEW type, NEW part,
           \A m \in Q : ~(m.type = type /\ m.part = part), Once(s, type, part)
    PROVE  Once(t, type, part)
<1> SUFFICES ASSUME NEW m \in DOMAIN t, NEW n \in DOMAIN t,
                    m.type = type, n.type = type, m.part = part, n.part = part
             PROVE  m = n /\ t[m] = 1
    BY DEF Once, BagToSet
<1>1. m \in DOMAIN s /\ n \in DOMAIN s /\ t[m] <= s[m]
    BY DEF Moved
<1>2. m = n /\ s[m] = 1
    BY <1>1 DEF Once, BagToSet
<1>3. t[m] \in Nat /\ t[m] > 0
    BY DEF MessageBag, IsABag
<1> QED BY <1>1, <1>2, <1>3

\* A message that was not there is there once when it is sent once.
LEMMA OnceSent ==
    ASSUME NEW s, NEW t, NEW T, NEW Q, Moved(s, t, T, Q), NEW type, NEW part, ~Has(s, type, part),
           \A m, n \in Q : m.type = type /\ n.type = type /\ m.part = part /\ n.part = part => m = n
    PROVE  Once(t, type, part)
<1> SUFFICES ASSUME NEW m \in DOMAIN t, NEW n \in DOMAIN t,
                    m.type = type, n.type = type, m.part = part, n.part = part
             PROVE  m = n /\ t[m] = 1
    BY DEF Once, BagToSet
<1>1. m \notin DOMAIN s /\ n \notin DOMAIN s
    BY DEF Has, BagToSet
<1> QED BY <1>1 DEF Moved

\* When the one message is taken, none is left.
LEMMA OnceTaken ==
    ASSUME NEW s, NEW t, NEW m \in DOMAIN s, NEW Q, Moved(s, t, {m}, Q),
           Once(s, m.type, m.part), \A n \in Q : ~(n.type = m.type /\ n.part = m.part)
    PROVE  ~Has(t, m.type, m.part)
<1> SUFFICES ASSUME NEW n \in DOMAIN t, n.type = m.type, n.part = m.part PROVE FALSE
    BY DEF Has, BagToSet
<1>1. n \in DOMAIN s /\ n \notin Q
    BY DEF Moved
<1>2. n = m /\ s[m] = 1
    BY <1>1 DEF Once, BagToSet
<1> QED BY <1>1, <1>2 DEF Moved

\* What messages tell of a domain.
LEMMA TellMoved ==
    ASSUME NEW s, NEW t, NEW T, NEW Q, Moved(s, t, T, Q), NEW type, NEW d, NEW v, Tell(s, type, d, v),
           \A m \in Q : m.type = type /\ m.part = d => m.value = v
    PROVE  Tell(t, type, d, v)
BY DEF Moved, Tell, BagToSet

(***************************************************************************)
(* Ends and messages.                                                      *)
(***************************************************************************)

\* The two ends of a link belong together.
LEMMA EndFacts ==
    ASSUME NEW e \in Ends
    PROVE  /\ Other(e) \in Ends /\ Other(Other(e)) = e /\ Other(e) # e
           /\ Other(e).link = e.link /\ Local(Other(e)) = Remote(e)
           /\ Local(e) \in Servers /\ Remote(e) \in Servers
           /\ e.link \in Links /\ {Local(e), Remote(e)} = {e.link.dials, e.link.listens}
<1>1. PICK k \in Links, d \in {"dials", "listens"} : e = [link |-> k, side |-> d]
    BY DEF Ends
<1>2. Other(e) = [link |-> k, side |-> IF d = "dials" THEN "listens" ELSE "dials"]
    BY <1>1 DEF Other
<1>3. k \in [dials : Servers, listens : Servers]
    BY LinksAssumption
<1>4. Other(e) \in Ends /\ Other(Other(e)) = e /\ Other(e) # e /\ Other(e).link = e.link
    <2>1. Other(e) \in Ends /\ Other(e).link = e.link
        BY <1>1, <1>2 DEF Ends
    <2>2. \A c \in {"dials", "listens"} :
              Other([link |-> k, side |-> c])
                  = [link |-> k, side |-> IF c = "dials" THEN "listens" ELSE "dials"]
        BY DEF Other
    <2>3. CASE d = "dials"
        <3>1. e = [link |-> k, side |-> "dials"] /\ Other(e) = [link |-> k, side |-> "listens"]
            BY <1>1, <1>2, <2>3
        <3>2. Other(Other(e)) = [link |-> k, side |-> "dials"]
            BY <2>2, <3>1
        <3> QED BY <2>1, <3>1, <3>2
    <2>4. CASE d = "listens"
        <3>1. e = [link |-> k, side |-> "listens"] /\ Other(e) = [link |-> k, side |-> "dials"]
            BY <1>1, <1>2, <2>4
        <3>2. Other(Other(e)) = [link |-> k, side |-> "listens"]
            BY <2>2, <3>1
        <3> QED BY <2>1, <3>1, <3>2
    <2> QED BY <2>3, <2>4
<1>5. CASE d = "dials"
    <2>1. Local(e) = k.dials /\ Remote(e) = k.listens
        BY <1>1, <1>2, <1>5 DEF Local, Remote
    <2> QED BY <1>1, <1>3, <1>4, <2>1 DEF Remote
<1>6. CASE d = "listens"
    <2>1. Local(e) = k.listens /\ Remote(e) = k.dials
        BY <1>1, <1>2, <1>6 DEF Local, Remote
    <2> QED BY <1>1, <1>3, <1>4, <2>1 DEF Remote
<1> QED BY <1>5, <1>6
\* The parts that are asked for are the domains and the SyncID.
LEMMA PartsFacts == Domains \subseteq Parts /\ "SyncID" \in Parts /\ "SyncID" \notin Domains
BY DomainsAssumption DEF Parts

\* The fields of a message, by its type.
LEMMA MessageFacts ==
    ASSUME NEW m \in Messages
    PROVE  /\ m.type \in {"get", "answer", "update", "addEntity", "define"}
           /\ m.type = "get" => m.part \in Parts
           /\ m.type = "answer" => m.part \in Parts /\ m.value \in Nat
           /\ m.type = "update" => m.part \in Domains /\ m.value \in Nat
           /\ m.type \in {"addEntity", "define"} => m.name \in Components
           /\ m.type = "define" => m = Definition(m.name)
BY DEF Messages, Updates, Definition

\* SendTo adds to the inboxes of those it is sent to.
LEMMA SendMoves ==
    ASSUME TypeOK, NEW E, NEW Q \in SUBSET Messages, inbox' = SendTo(inbox, E, Q)
    PROVE  /\ DOMAIN inbox' = Ends /\ \A x \in Ends : MessageBag(inbox'[x])
           /\ \A x \in Ends :
                 Moved(inbox[x], inbox'[x], {},
                       IF Other(x) \in E /\ up[Other(x)] # "down" /\ up[x] # "down" THEN Q ELSE {})
<1>1. inbox' = [x \in Ends |-> IF Other(x) \in E /\ up[Other(x)] # "down" /\ up[x] # "down"
                               THEN inbox[x] (+) SetToBag(Q) ELSE inbox[x]]
    BY DEF SendTo
<1>2. ASSUME NEW x \in Ends
      PROVE  /\ MessageBag(inbox[x]) /\ MessageBag(inbox[x] (+) SetToBag(Q))
             /\ Moved(inbox[x], inbox[x], {}, {}) /\ Moved(inbox[x], inbox[x] (+) SetToBag(Q), {}, Q)
    <2>1. MessageBag(inbox[x])
        BY DEF TypeOK
    <2>2. Moved(inbox[x], inbox[x], {}, {})
        BY <2>1, MovedNothing
    <2>3. MessageBag(inbox[x] (+) SetToBag(Q))
        BY <2>1, AddedTo
    <2> QED BY <2>1, <2>2, <2>3, MovedSent
<1> QED BY <1>1, <1>2

\* A message is taken and nothing is sent.
LEMMA RestMoves ==
    ASSUME TypeOK, NEW e \in Ends, NEW m \in BagToSet(inbox[e])
    PROVE  /\ DOMAIN Rest(e, m) = Ends /\ m \in Messages /\ m \in DOMAIN inbox[e]
           /\ \A x \in Ends :
                 /\ MessageBag(Rest(e, m)[x])
                 /\ Moved(inbox[x], Rest(e, m)[x], IF x = e THEN {m} ELSE {}, {})
<1>1. Rest(e, m) = [inbox EXCEPT ![e] = inbox[e] (-) SetToBag({m})] /\ DOMAIN inbox = Ends
    BY DEF Rest, TypeOK
<1>2. m \in DOMAIN inbox[e] /\ DOMAIN inbox[e] \subseteq Messages
    BY DEF BagToSet, TypeOK, MessageBag
<1>3. \A x \in Ends : MessageBag(inbox[x]) /\ Moved(inbox[x], inbox[x], {}, {})
    BY MovedNothing DEF TypeOK
<1>4. MessageBag(inbox[e] (-) SetToBag({m})) /\ Moved(inbox[e], inbox[e] (-) SetToBag({m}), {m}, {})
    BY <1>2, <1>3, TakenFrom
<1>5. ASSUME NEW x \in Ends
      PROVE  /\ MessageBag(Rest(e, m)[x])
             /\ Moved(inbox[x], Rest(e, m)[x], IF x = e THEN {m} ELSE {}, {})
    <2>1. CASE x = e
        BY <1>1, <1>4, <2>1
    <2>2. CASE x # e
        BY <1>1, <1>3, <2>2
    <2> QED BY <2>1, <2>2
<1> QED BY <1>1, <1>2, <1>5

\* SendTo after a message was taken.
LEMMA TakeMoves ==
    ASSUME TypeOK, NEW e \in Ends, NEW m \in BagToSet(inbox[e]), NEW E, NEW Q \in SUBSET Messages,
           inbox' = SendTo(Rest(e, m), E, Q)
    PROVE  /\ DOMAIN inbox' = Ends /\ \A x \in Ends : MessageBag(inbox'[x])
           /\ \A x \in Ends :
                 Moved(inbox[x], inbox'[x], IF x = e THEN {m} ELSE {},
                       IF Other(x) \in E /\ up[Other(x)] # "down" /\ up[x] # "down" THEN Q ELSE {})
<1> DEFINE r == Rest(e, m)
<1>1. inbox' = [x \in Ends |-> IF Other(x) \in E /\ up[Other(x)] # "down" /\ up[x] # "down"
                               THEN r[x] (+) SetToBag(Q) ELSE r[x]]
    BY DEF SendTo
<1>2. \A x \in Ends : MessageBag(r[x]) /\ Moved(inbox[x], r[x], IF x = e THEN {m} ELSE {}, {})
    BY RestMoves
<1> HIDE DEF r
<1>3. ASSUME NEW x \in Ends
      PROVE  /\ MessageBag(r[x] (+) SetToBag(Q))
             /\ Moved(inbox[x], r[x] (+) SetToBag(Q), IF x = e THEN {m} ELSE {}, Q)
    <2>1. MessageBag(inbox[x])
        BY DEF TypeOK
    <2>2. MessageBag(r[x] (+) SetToBag(Q))
        BY <1>2, AddedTo
    <2> QED BY <1>2, <2>1, <2>2, MovedSent
<1> QED BY <1>1, <1>2, <1>3

(***************************************************************************)
(* What keeps the parts of the invariant.                                  *)
(***************************************************************************)

\* AskedOnce is kept when no question and no answer for the part is sent.
LEMMA AskedKept ==
    ASSUME TypeOK, \A x \in Ends : MessageBag(inbox'[x]), NEW e \in Ends, NEW p \in Parts, AskedOnce(e, p),
           NEW T1, NEW Q1, Moved(inbox[Other(e)], inbox'[Other(e)], T1, Q1),
           \A m \in Q1 : ~(m.type = "get" /\ m.part = p),
           NEW T2, NEW Q2, Moved(inbox[e], inbox'[e], T2, Q2),
           \A m \in Q2 : ~(m.type = "answer" /\ m.part = p),
           answers'[e][p] = answers[e][p],
           delegate'[e][p] = delegate[e][p] \/ delegate[e][p] # "idle",
           up'[e] = "new" => up[e] = "new"
    PROVE  AskedOnce(e, p)'
<1>1. /\ MessageBag(inbox[e]) /\ MessageBag(inbox'[e])
      /\ MessageBag(inbox[Other(e)]) /\ MessageBag(inbox'[Other(e)])
    BY EndFacts DEF TypeOK
<1>2. Has(inbox'[Other(e)], "get", p) => Has(inbox[Other(e)], "get", p)
    BY HasMoved
<1>3. Has(inbox'[e], "answer", p) => Has(inbox[e], "answer", p)
    BY HasMoved
<1>4. Once(inbox'[Other(e)], "get", p)
    BY <1>1, OnceMoved DEF AskedOnce
<1>5. Once(inbox'[e], "answer", p)
    BY <1>1, OnceMoved DEF AskedOnce
<1> QED BY <1>2, <1>3, <1>4, <1>5 DEF AskedOnce

\* The answer for d that is stored is one that was received.
Learns(e, d) ==
    \E m \in BagToSet(inbox[e]) : m.type = "answer" /\ m.part = d /\ answers'[e][d] = m.value

\* Follows is kept when the domains are left alone and no update is sent or taken, when
\* answers sent tell the state of the domain and answers stored are such as were received.
LEMMA FollowsKept ==
    ASSUME NEW e \in Ends, NEW d \in Domains, Follows(e, d),
           NEW T, NEW Q, Moved(inbox[e], inbox'[e], T, Q),
           \A m \in T \cup Q : m.type # "update",
           \A m \in Q : m.type = "answer" /\ m.part = d => m.value = domains[Remote(e)][d],
           up[e] = "down" => up'[e] = "down", up[Other(e)] = "down" => up'[Other(e)] = "down",
           UNCHANGED domainVars,
           e \in registered' <=> e \in registered,
           Other(e) \in registered => Other(e) \in registered',
           view'[e][d] = view[e][d],
           answers'[e][d] = answers[e][d] \/ Learns(e, d)
    PROVE  Follows(e, d)'
<1> DEFINE v == domains[Remote(e)][d]
           B == telling[Remote(e)]
<1> SUFFICES ASSUME up'[e] # "down", up'[Other(e)] # "down", <<e, d>> \notin raced'
             PROVE  /\ Tell(inbox'[e], "update", d, v) /\ Tell(B, "update", d, v)
                    /\ Tell(inbox'[e], "answer", d, v)
                    /\ e \notin registered' => answers'[e][d] \in {Unknown, v}
                    /\ e \in registered' =>
                           view'[e][d] = v \/ (Other(e) \in registered' /\ UnderWay(e, d)')
    BY DEF Follows, domainVars
<1>1. /\ Tell(inbox[e], "update", d, v) /\ Tell(B, "update", d, v)
      /\ Tell(inbox[e], "answer", d, v)
      /\ e \notin registered => answers[e][d] \in {Unknown, v}
      /\ e \in registered => view[e][d] = v \/ (Other(e) \in registered /\ UnderWay(e, d))
    BY DEF Follows, domainVars
<1>2. \A m \in Q : m.type = "answer" /\ m.part = d => m.value = v
    OBVIOUS
<1> HIDE DEF v, B
<1>3. Tell(inbox'[e], "update", d, v)
    BY <1>1, TellMoved
<1>4. Tell(inbox'[e], "answer", d, v)
    BY <1>1, <1>2, TellMoved
<1>5. e \notin registered' => answers'[e][d] \in {Unknown, v}
    BY <1>1 DEF Tell, Learns
<1>6. UnderWay(e, d) => UnderWay(e, d)'
    <2>1. Has(inbox[e], "update", d) => Has(inbox'[e], "update", d)
        BY HasStays
    <2> QED BY <2>1 DEF UnderWay, domainVars
<1> QED BY <1>1, <1>3, <1>4, <1>5, <1>6

\* One part of one end, or of one server, changes.
LEMMA ChangedAt ==
    ASSUME NEW E, NEW P, NEW V, NEW f \in [E -> [P -> V]], NEW e \in E, NEW p \in P, NEW v \in V
    PROVE  /\ [f EXCEPT ![e][p] = v] \in [E -> [P -> V]]
           /\ \A x \in E, r \in P :
                 [f EXCEPT ![e][p] = v][x][r] = IF x = e /\ r = p THEN v ELSE f[x][r]
<1>1. [f[e] EXCEPT ![p] = v] \in [P -> V]
    OBVIOUS
<1>2. [f EXCEPT ![e][p] = v] = [f EXCEPT ![e] = [f[e] EXCEPT ![p] = v]]
    OBVIOUS
<1> QED BY <1>1, <1>2

\* Announcing is kept when the delegates, and what they work on, do not change.
LEMMA AnnouncingKept ==
    ASSUME NEW e \in Ends, Announcing(e), UNCHANGED <<registered, subscribed, added, removed>>,
           delegate'[e] = delegate[e], up'[e] = "down" <=> up[e] = "down",
           \A p \in Parts : answers[e][p] # Unknown => answers'[e][p] # Unknown
    PROVE  Announcing(e)'
BY DEF Announcing, OneDelegate, AllAnswered
\* A step that sends and takes only entities and definitions, and leaves the handshake and
\* the domains alone, keeps all parts but the types.
LEMMA QuietStep ==
    ASSUME Inductive, \A x \in Ends : MessageBag(inbox'[x]),
           \A x \in Ends : \E T, Q : Moved(inbox[x], inbox'[x], T, Q) /\ Quiet(T \cup Q),
           UNCHANGED <<up, handshakeVars, domainVars, serverVars>>
    PROVE  /\ \A e \in Ends : Announcing(e)'
           /\ \A e \in Ends, p \in Parts : AskedOnce(e, p)'
           /\ \A e \in Ends, d \in Domains : Follows(e, d)'
<1>1. /\ TypeOK /\ \A e \in Ends : Announcing(e)
      /\ \A e \in Ends, p \in Parts : AskedOnce(e, p)
      /\ \A e \in Ends, d \in Domains : Follows(e, d)
    BY DEF Inductive
<1>2. UNCHANGED <<up, answers, delegate, domainVars, registered, view, subscribed, added, removed>>
    BY DEF handshakeVars, serverVars
<1>3. ASSUME NEW e \in Ends PROVE Announcing(e)'
    BY <1>1, <1>2, AnnouncingKept
<1>4. ASSUME NEW e \in Ends, NEW p \in Parts PROVE AskedOnce(e, p)'
    <2>1. PICK T1, Q1 : Moved(inbox[Other(e)], inbox'[Other(e)], T1, Q1) /\ Quiet(T1 \cup Q1)
        BY EndFacts
    <2>2. PICK T2, Q2 : Moved(inbox[e], inbox'[e], T2, Q2) /\ Quiet(T2 \cup Q2)
        OBVIOUS
    <2>3. /\ \A m \in Q1 : ~(m.type = "get" /\ m.part = p)
          /\ \A m \in Q2 : ~(m.type = "answer" /\ m.part = p)
        BY <2>1, <2>2 DEF Quiet
    <2> QED BY <1>1, <1>2, <2>1, <2>2, <2>3, AskedKept
<1>5. ASSUME NEW e \in Ends, NEW d \in Domains PROVE Follows(e, d)'
    <2>1. PICK T, Q : Moved(inbox[e], inbox'[e], T, Q) /\ Quiet(T \cup Q)
        OBVIOUS
    <2>2. /\ \A m \in T \cup Q : m.type # "update"
          /\ \A m \in Q : m.type = "answer" /\ m.part = d => m.value = domains[Remote(e)][d]
        BY <2>1 DEF Quiet
    <2> QED BY <1>1, <1>2, <2>1, <2>2, FollowsKept
<1> QED BY <1>3, <1>4, <1>5

\* A step that moves no message at all, and leaves the handshake and the domains alone.
LEMMA StillStep ==
    ASSUME Inductive, UNCHANGED <<up, inbox, handshakeVars, domainVars, serverVars>>
    PROVE  /\ \A e \in Ends : Announcing(e)'
           /\ \A e \in Ends, p \in Parts : AskedOnce(e, p)'
           /\ \A e \in Ends, d \in Domains : Follows(e, d)'
<1>1. \A x \in Ends : MessageBag(inbox[x])
    BY DEF Inductive, TypeOK
<1>2. \A x \in Ends : Moved(inbox[x], inbox'[x], {}, {}) /\ Quiet({} \cup {})
    BY <1>1, MovedNothing DEF Quiet
<1> QED BY <1>1, <1>2, QuietStep

(***************************************************************************)
(* Component definitions and entities.                                     *)
(***************************************************************************)

\* The definitions of a server change.
LEMMA RegisterComponentInductive ==
    ASSUME Inductive, NEW s \in Servers, NEW c \in Components,
           RegisterComponent(s, c) \/ RegisterRemoteDefinition(s, c)
    PROVE  Inductive'
<1>1. TypeOK'
    <2>1. TypeOK
        BY DEF Inductive
    <2>2. CASE RegisterComponent(s, c)
        <3>1. registry' = [registry EXCEPT ![s] = @ \cup {c}] /\ raising' = [raising EXCEPT ![s] = @ \cup {c}]
            BY <2>2 DEF RegisterComponent
        <3>2. registry' \in [Servers -> SUBSET Components] /\ raising' \in [Servers -> SUBSET Components]
            BY <2>1, <3>1 DEF TypeOK
        <3> QED BY <2>1, <2>2, <3>2 DEF TypeOK, RegisterComponent, handshakeVars, serverVars, domainVars
    <2>3. CASE RegisterRemoteDefinition(s, c)
        <3>1. registry' = [registry EXCEPT ![s] = @ \cup {c}] /\ relayed' = [relayed EXCEPT ![s] = @ \ {c}]
            BY <2>3 DEF RegisterRemoteDefinition
        <3>2. registry' \in [Servers -> SUBSET Components] /\ relayed' \in [Servers -> SUBSET Components]
            BY <2>1, <3>1 DEF TypeOK
        <3> QED BY <2>1, <2>3, <3>2 DEF TypeOK, RegisterRemoteDefinition, handshakeVars, serverVars, domainVars
    <2> QED BY <2>2, <2>3
<1>2. UNCHANGED <<up, inbox, handshakeVars, domainVars, serverVars>>
    BY DEF RegisterComponent, RegisterRemoteDefinition
<1> QED BY <1>1, <1>2, StillStep DEF Inductive

\* One that was registered locally is sent.
LEMMA LocalComponentInductive ==
    ASSUME Inductive, NEW s \in Servers, NEW c \in Components, HandleLocalRegisteredComponent(s, c)
    PROVE  Inductive'
<1>1. /\ inbox' = SendTo(inbox, Peers(s), {Definition(c)}) /\ TypeOK
      /\ UNCHANGED <<up, handshakeVars, domainVars, serverVars, registry, relayed, entities>>
      /\ raising' = [raising EXCEPT ![s] = @ \ {c}]
    BY DEF Inductive, HandleLocalRegisteredComponent
<1>2. {Definition(c)} \in SUBSET Messages /\ Quiet({} \cup {Definition(c)}) /\ Quiet({} \cup {})
    BY DEF Messages, Updates, Definition, Quiet
<1>3. /\ DOMAIN inbox' = Ends /\ \A x \in Ends : MessageBag(inbox'[x])
      /\ \A x \in Ends : \E Q \in {{Definition(c)}, {}} : Moved(inbox[x], inbox'[x], {}, Q)
    BY <1>1, <1>2, SendMoves
<1>4. \A x \in Ends : \E T, Q : Moved(inbox[x], inbox'[x], T, Q) /\ Quiet(T \cup Q)
    <2> TAKE x \in Ends
    <2>1. PICK Q \in {{Definition(c)}, {}} : Moved(inbox[x], inbox'[x], {}, Q)
        BY <1>3
    <2>2. Quiet({} \cup Q)
        BY <1>2, <2>1
    <2> QED BY <2>1, <2>2
<1>5. TypeOK'
    <2>1. raising' \in [Servers -> SUBSET Components]
        BY <1>1 DEF TypeOK
    <2> QED BY <1>1, <1>3, <2>1 DEF TypeOK, handshakeVars, serverVars, domainVars
<1> QED BY <1>1, <1>3, <1>4, <1>5, QuietStep DEF Inductive

\* A message about an entity or a definition is taken, and may be sent on.
LEMMA RelayedStep ==
    ASSUME Inductive, NEW e \in Ends, NEW E, NEW m \in BagToSet(inbox[e]), m.type \in {"addEntity", "define"},
           inbox' = Rest(e, m) \/ inbox' = SendTo(Rest(e, m), E, {m}),
           UNCHANGED <<up, handshakeVars, domainVars, serverVars>>
    PROVE  /\ DOMAIN inbox' = Ends /\ \A x \in Ends : MessageBag(inbox'[x])
           /\ \A f \in Ends : Announcing(f)'
           /\ \A f \in Ends, p \in Parts : AskedOnce(f, p)'
           /\ \A f \in Ends, d \in Domains : Follows(f, d)'
<1>1. TypeOK /\ m \in Messages
    BY RestMoves DEF Inductive
<1>2. /\ DOMAIN inbox' = Ends /\ \A x \in Ends : MessageBag(inbox'[x])
      /\ \A x \in Ends : \E T, Q \in {{}, {m}} : Moved(inbox[x], inbox'[x], T, Q)
    <2>1. CASE inbox' = Rest(e, m)
        BY <1>1, <2>1, RestMoves
    <2>2. CASE inbox' = SendTo(Rest(e, m), E, {m})
        <3>1. {m} \in SUBSET Messages
            BY <1>1
        <3>2. /\ DOMAIN inbox' = Ends /\ \A x \in Ends : MessageBag(inbox'[x])
              /\ \A x \in Ends :
                    Moved(inbox[x], inbox'[x], IF x = e THEN {m} ELSE {},
                          IF Other(x) \in E /\ up[Other(x)] # "down" /\ up[x] # "down" THEN {m} ELSE {})
            BY <1>1, <2>2, <3>1, TakeMoves
        <3> QED BY <3>2
    <2> QED BY <2>1, <2>2
<1>3. \A x \in Ends : \E T, Q : Moved(inbox[x], inbox'[x], T, Q) /\ Quiet(T \cup Q)
    <2> TAKE x \in Ends
    <2>1. PICK T \in {{}, {m}}, Q \in {{}, {m}} : Moved(inbox[x], inbox'[x], T, Q)
        BY <1>2
    <2>2. Quiet(T \cup Q)
        BY <2>1 DEF Quiet
    <2> QED BY <2>1, <2>2
<1> QED BY <1>2, <1>3, QuietStep

\* A definition is relayed.
LEMMA RelayDefinitionInductive ==
    ASSUME Inductive, NEW e \in Ends, RelayDefinition(e)
    PROVE  Inductive'
<1>1. PICK m \in Received(e, "define") :
          /\ inbox' = SendTo(Rest(e, m), Peers(Local(e)) \ {e}, {m})
          /\ relayed' = [relayed EXCEPT ![Local(e)] = @ \cup {m.name}]
    BY DEF RelayDefinition
<1>2. UNCHANGED <<up, handshakeVars, domainVars, serverVars, registry, raising, entities>> /\ TypeOK
    BY DEF RelayDefinition, Inductive
<1>3. m \in BagToSet(inbox[e]) /\ m.type = "define" /\ m.name \in Components
    BY <1>1, <1>2, RestMoves, MessageFacts DEF Received
<1>4. /\ DOMAIN inbox' = Ends /\ \A x \in Ends : MessageBag(inbox'[x])
      /\ \A f \in Ends : Announcing(f)'
      /\ \A f \in Ends, p \in Parts : AskedOnce(f, p)'
      /\ \A f \in Ends, d \in Domains : Follows(f, d)'
    BY <1>1, <1>2, <1>3, RelayedStep
<1>5. relayed' \in [Servers -> SUBSET Components]
    BY <1>1, <1>2, <1>3, EndFacts DEF TypeOK
<1>6. TypeOK'
    BY <1>2, <1>4, <1>5 DEF TypeOK, handshakeVars, serverVars, domainVars
<1> QED BY <1>4, <1>6 DEF Inductive

\* An entity of another server is added, and told to the others.
LEMMA RemoteEntityInductive ==
    ASSUME Inductive, NEW e \in Ends, HandleRemoteAddedEntity(e)
    PROVE  Inductive'
<1> DEFINE s == Local(e)
           E == {f \in Peers(s) \ {e} : Interested(f)}
<1>1. PICK m \in Received(e, "addEntity") :
          \/ inbox' = Rest(e, m) /\ entities' = entities
          \/ /\ inbox' = SendTo(Rest(e, m), E, {m})
             /\ entities' = [entities EXCEPT ![s][m.name] = IF m.name \in registry[s] THEN "whole" ELSE "bare"]
    BY DEF HandleRemoteAddedEntity
<1>2. UNCHANGED <<up, handshakeVars, domainVars, serverVars, registry, raising, relayed>> /\ TypeOK
    BY DEF HandleRemoteAddedEntity, Inductive, componentVars
<1>3. /\ m \in BagToSet(inbox[e]) /\ m.type = "addEntity" /\ m.name \in Components
      /\ s \in Servers
    BY <1>1, <1>2, RestMoves, MessageFacts, EndFacts DEF Received
<1> HIDE DEF E, s
<1>4. /\ DOMAIN inbox' = Ends /\ \A x \in Ends : MessageBag(inbox'[x])
      /\ \A f \in Ends : Announcing(f)'
      /\ \A f \in Ends, p \in Parts : AskedOnce(f, p)'
      /\ \A f \in Ends, d \in Domains : Follows(f, d)'
    BY <1>1, <1>2, <1>3, RelayedStep
<1>5. entities' \in [Servers -> [Components -> {"none", "bare", "whole"}]]
    <2> DEFINE c == m.name
    <2> HIDE DEF c
    <2>1. PICK v \in {"bare", "whole"} : v = IF c \in registry[s] THEN "whole" ELSE "bare"
        OBVIOUS
    <2>2. entities' = entities \/ entities' = [entities EXCEPT ![s][c] = v]
        BY <1>1, <2>1 DEF c
    <2>3. entities \in [Servers -> [Components -> {"none", "bare", "whole"}]]
        BY <1>2 DEF TypeOK
    <2>4. [entities[s] EXCEPT ![c] = v] \in [Components -> {"none", "bare", "whole"}]
        BY <1>3, <2>1, <2>3 DEF c
    <2>5. [entities EXCEPT ![s][c] = v] = [entities EXCEPT ![s] = [entities[s] EXCEPT ![c] = v]]
        BY <1>3, <2>3
    <2> QED BY <1>3, <2>2, <2>3, <2>4, <2>5
<1>6. TypeOK'
    BY <1>2, <1>4, <1>5 DEF TypeOK, handshakeVars, serverVars, domainVars
<1> QED BY <1>4, <1>6 DEF Inductive

(***************************************************************************)
(* The handshake.                                                          *)
(***************************************************************************)

\* A connection begins: each part is asked for, once.
LEMMA NewServerInductive ==
    ASSUME Inductive, NEW e \in Ends, HandleNewServerConnected(e)
    PROVE  Inductive'
<1> DEFINE Q == {Request(p) : p \in Parts}
<1>1. /\ TypeOK /\ \A f \in Ends : Announcing(f)
      /\ \A f \in Ends, p \in Parts : AskedOnce(f, p)
      /\ \A f \in Ends, d \in Domains : Follows(f, d)
    BY DEF Inductive
<1>2. /\ up[e] = "new" /\ up' = [up EXCEPT ![e] = "up"]
      /\ inbox' = SendTo(inbox, {e}, Q)
      /\ UNCHANGED <<answers, delegate, domainVars, registered, view, subscribed, added, removed,
                     registry, raising, relayed, entities>>
    BY DEF HandleNewServerConnected, handshakeVars, serverVars, componentVars
<1>3. /\ Q \in SUBSET Messages /\ \A m \in Q : m.type = "get"
      /\ \A m, n \in Q : m.part = n.part => m = n
    BY DEF Messages, Updates, Request
<1> HIDE DEF Q
<1>4. /\ DOMAIN inbox' = Ends /\ \A x \in Ends : MessageBag(inbox'[x])
      /\ \A x \in Ends : \E R \in {Q, {}} : Moved(inbox[x], inbox'[x], {}, R)
      /\ \A x \in Ends : x # Other(e) => Moved(inbox[x], inbox'[x], {}, {})
    <2>1. /\ DOMAIN inbox' = Ends /\ \A x \in Ends : MessageBag(inbox'[x])
          /\ \A x \in Ends :
                Moved(inbox[x], inbox'[x], {},
                      IF Other(x) \in {e} /\ up[Other(x)] # "down" /\ up[x] # "down" THEN Q ELSE {})
        BY <1>1, <1>2, <1>3, SendMoves
    <2>2. \A x \in Ends : x # Other(e) => Other(x) # e
        BY EndFacts
    <2> QED BY <2>1, <2>2
<1>5. /\ \A f \in Ends : f # e => up'[f] = up[f]
      /\ up'[e] = "up" /\ up[e] = "new"
    BY <1>1, <1>2 DEF TypeOK
<1>6. TypeOK'
    <2>1. up' \in [Ends -> {"new", "up", "down"}]
        BY <1>1, <1>2 DEF TypeOK
    <2> QED BY <1>1, <1>2, <1>4, <2>1 DEF TypeOK, domainVars
<1>7. ASSUME NEW f \in Ends PROVE Announcing(f)'
    <2>1. up'[f] = "down" <=> up[f] = "down"
        BY <1>5
    <2> QED BY <1>1, <1>2, <2>1, AnnouncingKept
<1>8. ASSUME NEW f \in Ends, NEW p \in Parts PROVE AskedOnce(f, p)'
    <2>1. PICK R \in {Q, {}} : Moved(inbox[f], inbox'[f], {}, R)
        BY <1>4
    <2>2. \A m \in R : ~(m.type = "answer" /\ m.part = p)
        BY <1>3, <2>1
    <2>3. Other(f) \in Ends
        BY EndFacts
    <2>4. CASE f # e
        <3>1. Moved(inbox[Other(f)], inbox'[Other(f)], {}, {})
            BY <1>4, <2>3, <2>4, EndFacts
        <3> QED BY <1>1, <1>2, <1>4, <1>5, <2>1, <2>2, <2>4, <3>1, AskedKept
    <2>5. CASE f = e
        <3>1. ~Has(inbox[Other(e)], "get", p) /\ ~Has(inbox[e], "answer", p) /\ answers[e][p] = Unknown
            BY <1>1, <1>5 DEF AskedOnce
        <3>2. PICK S \in {Q, {}} : Moved(inbox[Other(e)], inbox'[Other(e)], {}, S)
            BY <1>4, <2>3, <2>5
        <3>3. \A m, n \in S : m.type = "get" /\ n.type = "get" /\ m.part = p /\ n.part = p => m = n
            BY <1>3, <3>2
        <3>4. Once(inbox'[Other(e)], "get", p)
            BY <3>1, <3>2, <3>3, OnceSent
        <3>5. ~Has(inbox'[e], "answer", p)
            BY <2>1, <2>2, <2>5, <3>1, HasMoved
        <3>6. Once(inbox'[e], "answer", p)
            BY <3>5 DEF Has, Once
        <3>7. delegate[e][p] = "idle"
            BY <1>1, <3>1 DEF AskedOnce
        <3> QED BY <1>2, <1>5, <2>5, <3>1, <3>4, <3>5, <3>6, <3>7 DEF AskedOnce
    <2> QED BY <2>4, <2>5
<1>9. ASSUME NEW f \in Ends, NEW d \in Domains PROVE Follows(f, d)'
    <2>1. PICK R \in {Q, {}} : Moved(inbox[f], inbox'[f], {}, R)
        BY <1>4
    <2>2. /\ \A m \in {} \cup R : m.type # "update"
          /\ \A m \in R : m.type = "answer" /\ m.part = d => m.value = domains[Remote(f)][d]
        BY <1>3, <2>1
    <2>3. /\ up[f] = "down" => up'[f] = "down"
          /\ up[Other(f)] = "down" => up'[Other(f)] = "down"
        BY <1>5, EndFacts
    <2> QED BY <1>1, <1>2, <2>1, <2>2, <2>3, FollowsKept
<1> QED BY <1>6, <1>7, <1>8, <1>9 DEF Inductive

\* A question is answered: it is gone, and there is one answer, with the state of the domain.
LEMMA AnswerInductive ==
    ASSUME Inductive, NEW e \in Ends, AnswerRequest(e)
    PROVE  Inductive'
<1>1. /\ TypeOK /\ \A f \in Ends : Announcing(f)
      /\ \A f \in Ends, r \in Parts : AskedOnce(f, r)
      /\ \A f \in Ends, d \in Domains : Follows(f, d)
    BY DEF Inductive
<1>2. UNCHANGED <<up, answers, delegate, domainVars, registered, view, subscribed, added, removed,
                  registry, raising, relayed, entities>>
    BY DEF AnswerRequest, handshakeVars, serverVars, componentVars
<1>3. PICK m \in Received(e, "get") :
          inbox' = SendTo(Rest(e, m), {e},
                          {[type |-> "answer", part |-> m.part,
                            value |-> IF m.part \in Domains THEN domains[Local(e)][m.part] ELSE 0]})
    BY DEF AnswerRequest
<1>4. m \in BagToSet(inbox[e]) /\ m \in DOMAIN inbox[e] /\ m.type = "get" /\ m.part \in Parts
    BY <1>1, <1>3, RestMoves, MessageFacts DEF Received
<1> DEFINE g == Other(e)
           p == m.part
           v == IF p \in Domains THEN domains[Local(e)][p] ELSE 0
           a == [type |-> "answer", part |-> p, value |-> v]
<1>5. v \in Nat
    <2>1. domains \in [Servers -> [Domains -> Nat]] /\ Local(e) \in Servers
        BY <1>1, EndFacts DEF TypeOK
    <2> QED BY <2>1
<1>6. p \in Parts /\ m.part = p /\ m.type = "get" /\ inbox' = SendTo(Rest(e, m), {e}, {a})
    BY <1>3, <1>4
<1>7. {a} \in SUBSET Messages /\ a.type = "answer" /\ a.part = p /\ a.value = v
    BY <1>4, <1>5 DEF Messages, Updates
<1>8. p \in Domains => v = domains[Local(e)][p]
    OBVIOUS
<1>9. g \in Ends /\ g # e /\ Other(g) = e /\ g = Other(e)
    BY EndFacts
<1> HIDE DEF a, v, p, g
<1>10. /\ DOMAIN inbox' = Ends /\ \A x \in Ends : MessageBag(inbox'[x])
       /\ Moved(inbox[e], inbox'[e], {m}, {})
       /\ \A x \in Ends : \E T \in {{}, {m}}, Q \in {{}, {a}} :
             Moved(inbox[x], inbox'[x], T, Q) /\ (x # g => Q = {}) /\ (x # e => T = {})
    <2>1. /\ DOMAIN inbox' = Ends /\ \A x \in Ends : MessageBag(inbox'[x])
          /\ \A x \in Ends :
                Moved(inbox[x], inbox'[x], IF x = e THEN {m} ELSE {},
                      IF Other(x) \in {e} /\ up[Other(x)] # "down" /\ up[x] # "down" THEN {a} ELSE {})
        BY <1>1, <1>4, <1>6, <1>7, TakeMoves
    <2>2. \A x \in Ends : x # g => Other(x) # e
        BY <1>9, EndFacts
    <2> QED BY <1>9, <2>1, <2>2
<1>11. PICK Q \in {{}, {a}} : Moved(inbox[g], inbox'[g], {}, Q)
    BY <1>9, <1>10
<1>12. TypeOK'
    BY <1>1, <1>2, <1>10 DEF TypeOK, domainVars
<1>13. \A f \in Ends : Announcing(f)'
    BY <1>1, <1>2, AnnouncingKept
<1>14. ASSUME NEW f \in Ends, NEW r \in Parts PROVE AskedOnce(f, r)'
    <2>1. PICK T1 \in {{}, {m}}, Q1 \in {{}, {a}} : Moved(inbox[Other(f)], inbox'[Other(f)], T1, Q1)
        BY <1>10, EndFacts
    <2>2. PICK T2 \in {{}, {m}}, Q2 \in {{}, {a}} : Moved(inbox[f], inbox'[f], T2, Q2) /\ (f # g => Q2 = {})
        BY <1>10
    <2>3. \A n \in Q1 : ~(n.type = "get" /\ n.part = r)
        BY <1>7, <2>1
    <2>4. CASE f # g \/ r # p
        <3>1. \A n \in Q2 : ~(n.type = "answer" /\ n.part = r)
            BY <1>7, <2>2, <2>4
        <3> QED BY <1>1, <1>2, <1>10, <2>1, <2>2, <2>3, <3>1, AskedKept
    <2>5. CASE f = g /\ r = p
        <3>1. Has(inbox[e], "get", p)
            BY <1>4, <1>6 DEF Has
        <3>2. /\ Once(inbox[e], "get", p) /\ ~Has(inbox[g], "answer", p)
              /\ answers[g][p] = Unknown /\ up[g] # "new" /\ delegate[g][p] = "idle"
            BY <1>1, <1>6, <1>9, <3>1 DEF AskedOnce
        <3>3. ~Has(inbox'[e], "get", p)
            <4>1. Once(inbox[e], m.type, m.part)
                BY <1>6, <3>2
            <4>2. ~Has(inbox'[e], m.type, m.part)
                BY <1>4, <1>10, <4>1, OnceTaken
            <4> QED BY <1>6, <4>2
        <3>4. Once(inbox'[g], "answer", p)
            <4>1. \A n, o \in Q : n.type = "answer" /\ o.type = "answer" /\ n.part = p /\ o.part = p => n = o
                BY <1>11
            <4> QED BY <1>11, <3>2, <4>1, OnceSent
        <3>5. Once(inbox'[e], "get", p)
            BY <3>3 DEF Has, Once
        <3> QED BY <1>2, <1>9, <2>5, <3>2, <3>3, <3>4, <3>5 DEF AskedOnce
    <2> QED BY <2>4, <2>5
<1>15. ASSUME NEW f \in Ends, NEW d \in Domains PROVE Follows(f, d)'
    <2>1. PICK T \in {{}, {m}}, R \in {{}, {a}} : Moved(inbox[f], inbox'[f], T, R) /\ (f # g => R = {})
        BY <1>10
    <2>2. \A n \in T \cup R : n.type # "update"
        BY <1>6, <1>7, <2>1
    <2>3. \A n \in R : n.type = "answer" /\ n.part = d => n.value = domains[Remote(f)][d]
        <3>1. f = g => Remote(f) = Local(e)
            BY <1>9 DEF Remote
        <3> QED BY <1>7, <1>8, <2>1, <3>1
    <2> QED BY <1>1, <1>2, <2>1, <2>2, <2>3, FollowsKept
<1> QED BY <1>12, <1>13, <1>14, <1>15 DEF Inductive

\* An answer is stored: none is left, and its delegate is the one that has to look for the others.
LEMMA StoreAnswerInductive ==
    ASSUME Inductive, NEW e \in Ends, StoreAnswer(e)
    PROVE  Inductive'
<1>1. /\ TypeOK /\ \A f \in Ends : Announcing(f)
      /\ \A f \in Ends, r \in Parts : AskedOnce(f, r)
      /\ \A f \in Ends, d \in Domains : Follows(f, d)
    BY DEF Inductive
<1>2. UNCHANGED <<up, domainVars, registered, view, subscribed, added, removed,
                  registry, raising, relayed, entities>>
    BY DEF StoreAnswer, serverVars, componentVars
<1>3. PICK m \in Received(e, "answer") :
          /\ answers' = [answers EXCEPT ![e][m.part] = m.value]
          /\ delegate' = [delegate EXCEPT ![e][m.part] = "stored"]
          /\ inbox' = Rest(e, m)
    BY DEF StoreAnswer
<1>4. /\ m \in BagToSet(inbox[e]) /\ m \in DOMAIN inbox[e] /\ m.type = "answer"
      /\ m.part \in Parts /\ m.value \in Nat /\ m.value # Unknown
    BY <1>1, <1>3, RestMoves, MessageFacts, UnknownAssumption DEF Received
<1> DEFINE p == m.part
<1>5. p \in Parts /\ p = m.part
    BY <1>4
<1> HIDE DEF p
<1>6. /\ DOMAIN inbox' = Ends /\ \A x \in Ends : MessageBag(inbox'[x])
      /\ Moved(inbox[e], inbox'[e], {m}, {})
      /\ \A x \in Ends : \E T \in {{}, {m}} : Moved(inbox[x], inbox'[x], T, {})
    BY <1>1, <1>3, <1>4, RestMoves
<1>7. /\ answers' \in [Ends -> [Parts -> Nat \cup {Unknown}]]
      /\ delegate' \in [Ends -> [Parts -> {"idle", "stored", "added", "announced"}]]
      /\ \A f \in Ends, r \in Parts :
            /\ answers'[f][r] = IF f = e /\ r = p THEN m.value ELSE answers[f][r]
            /\ delegate'[f][r] = IF f = e /\ r = p THEN "stored" ELSE delegate[f][r]
    <2>1. m.value \in Nat \cup {Unknown} /\ "stored" \in {"idle", "stored", "added", "announced"}
        BY <1>4
    <2> QED BY <1>1, <1>3, <1>5, <2>1, ChangedAt DEF TypeOK
<1>8. /\ Once(inbox[e], "answer", p) /\ ~Has(inbox[Other(e)], "get", p)
      /\ answers[e][p] = Unknown /\ up[e] # "new" /\ delegate[e][p] = "idle"
    <2>1. Has(inbox[e], "answer", p)
        BY <1>4, <1>5 DEF Has
    <2> QED BY <1>1, <1>5, <2>1 DEF AskedOnce
<1>9. TypeOK'
    BY <1>1, <1>2, <1>6, <1>7 DEF TypeOK, domainVars
<1>10. e \notin registered
    BY <1>1, <1>5, <1>8 DEF Announcing, AllAnswered
<1>11. ASSUME NEW f \in Ends PROVE Announcing(f)'
    <2>1. CASE f = e
        <3>1. \A r \in Parts : /\ delegate'[e][r] \in {"added", "announced"} <=> delegate[e][r] \in {"added", "announced"}
                              /\ delegate'[e][r] # "added" <=> delegate[e][r] # "added"
            BY <1>7, <1>8
        <3>2. ASSUME up[e] # "down" PROVE OneDelegate(e)'
            <4>1. /\ added[e] = 0 /\ e \notin subscribed
                  /\ \A r \in Parts : delegate[e][r] \notin {"added", "announced"}
                BY <1>1, <1>10, <3>2 DEF Announcing, OneDelegate
            <4> QED BY <1>2, <1>10, <3>1, <4>1 DEF OneDelegate
        <3> QED BY <1>1, <1>2, <1>10, <2>1, <3>2 DEF Announcing
    <2>2. CASE f # e
        <3>1. \A r \in Parts : delegate'[f][r] = delegate[f][r] /\ answers'[f][r] = answers[f][r]
            BY <1>7, <2>2
        <3>2. delegate'[f] = delegate[f]
            BY <1>1, <1>3, <2>2 DEF TypeOK
        <3> QED BY <1>1, <1>2, <3>1, <3>2, AnnouncingKept
    <2> QED BY <2>1, <2>2
<1>12. ASSUME NEW f \in Ends, NEW r \in Parts PROVE AskedOnce(f, r)'
    <2>1. PICK T1, Q1 : Moved(inbox[Other(f)], inbox'[Other(f)], T1, Q1) /\ Q1 = {}
        BY <1>6, EndFacts
    <2>2. PICK T2, Q2 : Moved(inbox[f], inbox'[f], T2, Q2) /\ Q2 = {}
        BY <1>6
    <2>3. CASE ~(f = e /\ r = p)
        <3>1. answers'[f][r] = answers[f][r] /\ delegate'[f][r] = delegate[f][r]
            BY <1>7, <2>3
        <3>2. /\ TypeOK /\ AskedOnce(f, r) /\ \A x \in Ends : MessageBag(inbox'[x])
              /\ up'[f] = "new" => up[f] = "new"
            BY <1>1, <1>2, <1>6
        <3>3. /\ \A n \in Q1 : ~(n.type = "get" /\ n.part = r)
              /\ \A n \in Q2 : ~(n.type = "answer" /\ n.part = r)
            BY <2>1, <2>2
        <3> QED BY <2>1, <2>2, <3>1, <3>2, <3>3, AskedKept
    <2>4. CASE f = e /\ r = p
        <3>1. ~Has(inbox'[e], "answer", p)
            <4>1. Once(inbox[e], m.type, m.part)
                BY <1>4, <1>5, <1>8
            <4>2. ~Has(inbox'[e], m.type, m.part)
                BY <1>4, <1>6, <4>1, OnceTaken
            <4> QED BY <1>4, <1>5, <4>2
        <3>2. ~Has(inbox'[Other(e)], "get", p)
            BY <1>8, <2>1, <2>4, HasMoved
        <3>3. answers'[e][p] # Unknown /\ up'[e] # "new"
            BY <1>2, <1>4, <1>5, <1>7, <1>8
        <3>4. Once(inbox'[Other(e)], "get", p) /\ Once(inbox'[e], "answer", p)
            BY <3>1, <3>2 DEF Has, Once
        <3> QED BY <2>4, <3>1, <3>2, <3>3, <3>4 DEF AskedOnce
    <2> QED BY <2>3, <2>4
<1>13. ASSUME NEW f \in Ends, NEW d \in Domains PROVE Follows(f, d)'
    <2>1. PICK T, Q : Moved(inbox[f], inbox'[f], T, Q) /\ T \in {{}, {m}} /\ Q = {}
        BY <1>6
    <2>2. /\ \A n \in T \cup Q : n.type # "update"
          /\ \A n \in Q : n.type = "answer" /\ n.part = d => n.value = domains[Remote(f)][d]
        BY <1>4, <2>1
    <2>3. answers'[f][d] = answers[f][d] \/ Learns(f, d)
        <3>1. d \in Parts
            BY PartsFacts
        <3>2. CASE f = e /\ d = p
            BY <1>4, <1>5, <1>7, <3>1, <3>2 DEF Learns
        <3>3. CASE ~(f = e /\ d = p)
            BY <1>7, <3>1, <3>3
        <3> QED BY <3>2, <3>3
    <2>4. /\ UNCHANGED domainVars /\ view'[f][d] = view[f][d]
          /\ up[f] = "down" => up'[f] = "down"
          /\ up[Other(f)] = "down" => up'[Other(f)] = "down"
          /\ f \in registered' <=> f \in registered
          /\ Other(f) \in registered => Other(f) \in registered'
        BY <1>2
    <2>5. Follows(f, d) /\ Moved(inbox[f], inbox'[f], T, Q)
        BY <1>1, <2>1
    <2> QED BY <2>2, <2>3, <2>4, <2>5, FollowsKept, ZenonT(60)
<1> QED BY <1>9, <1>11, <1>12, <1>13 DEF Inductive

\* A step of a delegate that has an answer moves no message that the invariant speaks of.
LEMMA DelegateAsked ==
    ASSUME Inductive, NEW e \in Ends, NEW p \in Parts, delegate[e][p] # "idle",
           NEW w \in {"idle", "stored", "added", "announced"}, delegate' = [delegate EXCEPT ![e][p] = w],
           \A x \in Ends : MessageBag(inbox'[x]),
           \A x \in Ends : \E T, Q : Moved(inbox[x], inbox'[x], T, Q) /\ Quiet(T \cup Q),
           UNCHANGED <<up, answers>>
    PROVE  /\ delegate' \in [Ends -> [Parts -> {"idle", "stored", "added", "announced"}]]
           /\ \A f \in Ends, r \in Parts : delegate'[f][r] = IF f = e /\ r = p THEN w ELSE delegate[f][r]
           /\ \A f \in Ends : f # e => delegate'[f] = delegate[f]
           /\ \A f \in Ends, r \in Parts : AskedOnce(f, r)'
<1>1. /\ TypeOK
      /\ \A f \in Ends, r \in Parts : AskedOnce(f, r)
    BY DEF Inductive
<1>2. /\ delegate' \in [Ends -> [Parts -> {"idle", "stored", "added", "announced"}]]
      /\ \A f \in Ends, r \in Parts : delegate'[f][r] = IF f = e /\ r = p THEN w ELSE delegate[f][r]
    BY <1>1, ChangedAt DEF TypeOK
<1>3. \A f \in Ends : f # e => delegate'[f] = delegate[f]
    BY <1>1 DEF TypeOK
<1>4. ASSUME NEW f \in Ends, NEW r \in Parts PROVE AskedOnce(f, r)'
    <2>1. PICK T1, Q1 : Moved(inbox[Other(f)], inbox'[Other(f)], T1, Q1) /\ Quiet(T1 \cup Q1)
        BY EndFacts
    <2>2. PICK T2, Q2 : Moved(inbox[f], inbox'[f], T2, Q2) /\ Quiet(T2 \cup Q2)
        OBVIOUS
    <2>3. /\ \A m \in Q1 : ~(m.type = "get" /\ m.part = r)
          /\ \A m \in Q2 : ~(m.type = "answer" /\ m.part = r)
        BY <2>1, <2>2 DEF Quiet
    <2>4. delegate'[f][r] = delegate[f][r] \/ delegate[f][r] # "idle"
        BY <1>2
    <2> QED BY <1>1, <2>1, <2>2, <2>3, <2>4, AskedKept
<1> QED BY <1>2, <1>3, <1>4

\* Follows is kept where nothing but other messages is sent and the domains are left alone.
LEMMA FollowsSent ==
    ASSUME NEW f \in Ends, NEW d \in Domains, Follows(f, d),
           \E T, Q : Moved(inbox[f], inbox'[f], T, Q) /\ Quiet(T \cup Q),
           UNCHANGED <<up, answers, domainVars>>, registered \subseteq registered',
           f \in registered' <=> f \in registered, view'[f] = view[f]
    PROVE  Follows(f, d)'
<1>1. PICK T, Q : Moved(inbox[f], inbox'[f], T, Q) /\ Quiet(T \cup Q)
    OBVIOUS
<1>2. /\ \A m \in T \cup Q : m.type # "update"
      /\ \A m \in Q : m.type = "answer" /\ m.part = d => m.value = domains[Remote(f)][d]
    BY <1>1 DEF Quiet
<1> QED BY <1>1, <1>2, FollowsKept

\* Where no message moves none is sent.
LEMMA NoneMoved ==
    ASSUME TypeOK, inbox' = inbox
    PROVE  /\ \A x \in Ends : MessageBag(inbox'[x])
           /\ \A x \in Ends : \E T, Q : Moved(inbox[x], inbox'[x], T, Q) /\ Quiet(T \cup Q)
<1>1. \A x \in Ends : MessageBag(inbox[x])
    BY DEF TypeOK
<1>2. \A x \in Ends : Moved(inbox[x], inbox'[x], {}, {}) /\ Quiet({} \cup {})
    BY <1>1, MovedNothing DEF Quiet
<1> QED BY <1>1, <1>2

\* A delegate that finds all answers adds the server, if no other has done so before.
LEMMA AddRemoteServerInductive ==
    ASSUME Inductive, NEW e \in Ends, NEW p \in Parts, AddRemoteServer(e, p)
    PROVE  Inductive'
<1>1. /\ TypeOK /\ \A f \in Ends : Announcing(f)
      /\ \A f \in Ends, d \in Domains : Follows(f, d)
    BY DEF Inductive
<1>2. /\ delegate[e][p] = "stored"
      /\ UNCHANGED <<up, inbox, answers, domainVars, subscribed, added, removed,
                     registry, raising, relayed, entities>>
    BY DEF AddRemoteServer, componentVars
<1>3. /\ \A x \in Ends : MessageBag(inbox'[x])
      /\ \A x \in Ends : \E T, Q : Moved(inbox[x], inbox'[x], T, Q) /\ Quiet(T \cup Q)
    BY <1>1, <1>2, NoneMoved
<1>4. CASE ~AllAnswered(e) \/ Remote(e) = Local(e) \/ e \in registered
    <2>1. delegate' = [delegate EXCEPT ![e][p] = "idle"] /\ UNCHANGED <<registered, view>>
        BY <1>4 DEF AddRemoteServer
    <2>2. /\ delegate' \in [Ends -> [Parts -> {"idle", "stored", "added", "announced"}]]
          /\ \A f \in Ends, r \in Parts : delegate'[f][r] = IF f = e /\ r = p THEN "idle" ELSE delegate[f][r]
          /\ \A f \in Ends : f # e => delegate'[f] = delegate[f]
          /\ \A f \in Ends, r \in Parts : AskedOnce(f, r)'
        <3>1. delegate[e][p] # "idle" /\ "idle" \in {"idle", "stored", "added", "announced"}
            BY <1>2
        <3>2. delegate' = [delegate EXCEPT ![e][p] = "idle"] /\ UNCHANGED <<up, answers>>
            BY <1>2, <2>1
        <3> QED BY <1>3, <3>1, <3>2, DelegateAsked
    <2>3. TypeOK'
        BY <1>1, <1>2, <2>1, <2>2 DEF TypeOK, domainVars
    <2>4. ASSUME NEW f \in Ends PROVE Announcing(f)'
        <3>1. \A r \in Parts :
                 /\ delegate'[f][r] \in {"added", "announced"} <=> delegate[f][r] \in {"added", "announced"}
                 /\ delegate'[f][r] # "added" <=> delegate[f][r] # "added"
            BY <1>2, <2>2
        <3>2. OneDelegate(f) => OneDelegate(f)'
            BY <1>2, <2>1, <3>1 DEF OneDelegate
        <3> QED BY <1>1, <1>2, <2>1, <3>2 DEF Announcing, AllAnswered
    <2>5. \A f \in Ends, d \in Domains : Follows(f, d)'
        BY <1>1, <1>2, <1>3, <2>1, FollowsSent
    <2> QED BY <2>2, <2>3, <2>4, <2>5 DEF Inductive
<1>5. CASE AllAnswered(e) /\ Remote(e) # Local(e) /\ e \notin registered
    <2>1. /\ delegate' = [delegate EXCEPT ![e][p] = "added"] /\ registered' = registered \cup {e}
          /\ view' = [view EXCEPT ![e] = [d \in Domains |-> answers[e][d]]]
        BY <1>5 DEF AddRemoteServer
    <2>2. /\ delegate' \in [Ends -> [Parts -> {"idle", "stored", "added", "announced"}]]
          /\ \A f \in Ends, r \in Parts : delegate'[f][r] = IF f = e /\ r = p THEN "added" ELSE delegate[f][r]
          /\ \A f \in Ends : f # e => delegate'[f] = delegate[f]
          /\ \A f \in Ends, r \in Parts : AskedOnce(f, r)'
        BY <1>2, <1>3, <2>1, DelegateAsked
    <2>3. /\ view' \in [Ends -> [Domains -> Nat]]
          /\ \A d \in Domains : view'[e][d] = answers[e][d]
          /\ \A f \in Ends : f # e => view'[f] = view[f]
        <3>1. view \in [Ends -> [Domains -> Nat]]
            BY <1>1 DEF TypeOK
        <3>2. [d \in Domains |-> answers[e][d]] \in [Domains -> Nat]
            BY <1>1, <1>5, PartsFacts DEF TypeOK, AllAnswered
        <3> QED BY <2>1, <3>1, <3>2
    <2>4. TypeOK'
        BY <1>1, <1>2, <2>1, <2>2, <2>3 DEF TypeOK, domainVars
    <2>5. ASSUME NEW f \in Ends PROVE Announcing(f)'
        <3>1. CASE f = e
            <4>1. ASSUME up[e] # "down" PROVE OneDelegate(e)'
                <5>1. /\ added[e] = 0 /\ e \notin subscribed
                      /\ \A r \in Parts : delegate[e][r] \notin {"added", "announced"}
                    BY <1>1, <1>5, <4>1 DEF Announcing, OneDelegate
                <5>2. \A r \in Parts : delegate'[e][r] \in {"added", "announced"} <=> r = p
                    BY <2>2, <5>1
                <5>3. delegate'[e][p] = "added"
                    BY <2>2
                <5> QED BY <1>2, <2>1, <5>1, <5>2, <5>3 DEF OneDelegate
            <4> QED BY <1>1, <1>2, <1>5, <3>1, <4>1 DEF Announcing, AllAnswered
        <3>2. CASE f # e
            BY <1>1, <1>2, <2>1, <2>2, <3>2 DEF Announcing, OneDelegate, AllAnswered
        <3> QED BY <3>1, <3>2
    <2>6. ASSUME NEW f \in Ends, NEW d \in Domains PROVE Follows(f, d)'
        <3>1. CASE f = e
            <4>1. answers[e][d] # Unknown /\ view'[e][d] = answers[e][d]
                BY <1>5, <2>3, PartsFacts DEF AllAnswered
            <4>2. Follows(e, d)
                BY <1>1
            <4> QED BY <1>2, <1>5, <2>1, <3>1, <4>1, <4>2 DEF Follows, UnderWay, domainVars
        <3>2. CASE f # e
            <4>1. /\ registered \subseteq registered' /\ (f \in registered' <=> f \in registered)
                  /\ view'[f] = view[f]
                BY <2>1, <2>3, <3>2
            <4> QED BY <1>1, <1>2, <1>3, <4>1, FollowsSent
        <3> QED BY <3>1, <3>2
    <2> QED BY <2>2, <2>4, <2>5, <2>6 DEF Inductive
<1> QED BY <1>4, <1>5

\* The one delegate that has added the server raises AddedServer.
LEMMA AnnounceServerInductive ==
    ASSUME Inductive, NEW e \in Ends, NEW p \in Parts, AnnounceServer(e, p)
    PROVE  Inductive'
<1> DEFINE world == {c \in Components : Interested(e) /\ entities[Local(e)][c] # "none"}
           Q == {Entity(c) : c \in world} \cup {Definition(c) : c \in registry[Local(e)]}
<1>1. /\ TypeOK /\ \A f \in Ends : Announcing(f)
      /\ \A f \in Ends, d \in Domains : Follows(f, d)
    BY DEF Inductive
<1>2. /\ delegate[e][p] = "added" /\ delegate' = [delegate EXCEPT ![e][p] = "announced"]
      /\ added' = [added EXCEPT ![e] = @ + 1] /\ inbox' = SendTo(inbox, {e}, Q)
      /\ UNCHANGED <<up, answers, domainVars, registered, view, subscribed, removed,
                     registry, raising, relayed, entities>>
    BY DEF AnnounceServer, componentVars
<1>3. world \in SUBSET Components /\ registry[Local(e)] \in SUBSET Components
    BY <1>1, EndFacts DEF TypeOK
<1> HIDE DEF world
<1>4. Q \in SUBSET Messages /\ Quiet({} \cup Q) /\ Quiet({} \cup {})
    BY <1>3 DEF Messages, Updates, Entity, Definition, Quiet
<1> HIDE DEF Q
<1>5. /\ DOMAIN inbox' = Ends /\ \A x \in Ends : MessageBag(inbox'[x])
      /\ \A x \in Ends : \E R \in {Q, {}} : Moved(inbox[x], inbox'[x], {}, R)
    BY <1>1, <1>2, <1>4, SendMoves
<1>6. \A x \in Ends : \E T, R : Moved(inbox[x], inbox'[x], T, R) /\ Quiet(T \cup R)
    <2> TAKE x \in Ends
    <2>1. PICK R \in {Q, {}} : Moved(inbox[x], inbox'[x], {}, R)
        BY <1>5
    <2>2. Quiet({} \cup R)
        BY <1>4, <2>1
    <2> QED BY <2>1, <2>2
<1>7. /\ delegate' \in [Ends -> [Parts -> {"idle", "stored", "added", "announced"}]]
      /\ \A f \in Ends, r \in Parts : delegate'[f][r] = IF f = e /\ r = p THEN "announced" ELSE delegate[f][r]
      /\ \A f \in Ends : f # e => delegate'[f] = delegate[f]
      /\ \A f \in Ends, r \in Parts : AskedOnce(f, r)'
    <2>1. delegate[e][p] # "idle" /\ "announced" \in {"idle", "stored", "added", "announced"}
        BY <1>2
    <2> QED BY <1>2, <1>5, <1>6, <2>1, DelegateAsked
<1>8. /\ added' \in [Ends -> Nat] /\ added[e] \in Nat /\ added'[e] = added[e] + 1
      /\ \A f \in Ends : f # e => added'[f] = added[f]
    BY <1>1, <1>2 DEF TypeOK
<1>9. TypeOK'
    BY <1>1, <1>2, <1>5, <1>7, <1>8 DEF TypeOK, domainVars
<1>10. ASSUME NEW f \in Ends PROVE Announcing(f)'
    <2>1. CASE f = e
        <3>1. ASSUME up[e] # "down" PROVE OneDelegate(e)'
            <4>1. /\ e \in registered /\ added[e] = 0
                  /\ \A r \in Parts : delegate[e][r] \in {"added", "announced"} <=> r = p
                  /\ e \notin subscribed
                BY <1>1, <1>2, <3>1 DEF Announcing, OneDelegate
            <4>2. added'[e] = 1
                BY <1>8, <4>1
            <4>3. \A r \in Parts : delegate'[e][r] \in {"added", "announced"} <=> r = p
                BY <1>7, <4>1
            <4>4. \A r \in Parts : delegate'[e][r] # "added"
                BY <1>7, <4>1
            <4> QED BY <1>2, <4>1, <4>2, <4>3, <4>4 DEF OneDelegate
        <3>2. added[e] > 0 => added'[e] > 0
            BY <1>8
        <3> QED BY <1>1, <1>2, <2>1, <3>1, <3>2 DEF Announcing, AllAnswered
    <2>2. CASE f # e
        BY <1>1, <1>2, <1>7, <1>8, <2>2 DEF Announcing, OneDelegate, AllAnswered
    <2> QED BY <2>1, <2>2
<1>11. \A f \in Ends, d \in Domains : Follows(f, d)'
    <2>1. UNCHANGED <<up, answers, domainVars>> /\ UNCHANGED <<registered, view>>
        BY <1>2
    <2> QED BY <1>1, <1>5, <1>6, <2>1, FollowsSent
<1> QED BY <1>7, <1>9, <1>10, <1>11 DEF Inductive

\* When the server has been announced its Closed event is subscribed to.
LEMMA SubscribeInductive ==
    ASSUME Inductive, NEW e \in Ends, NEW p \in Parts, SubscribeToClosed(e, p)
    PROVE  Inductive'
<1>1. /\ TypeOK /\ \A f \in Ends : Announcing(f)
      /\ \A f \in Ends, d \in Domains : Follows(f, d)
    BY DEF Inductive
<1>2. /\ delegate[e][p] = "announced" /\ delegate' = [delegate EXCEPT ![e][p] = "idle"]
      /\ subscribed' = subscribed \cup {e}
      /\ UNCHANGED <<up, inbox, answers, domainVars, registered, view, added, removed,
                     registry, raising, relayed, entities>>
    BY DEF SubscribeToClosed, componentVars
<1>3. /\ \A x \in Ends : MessageBag(inbox'[x])
      /\ \A x \in Ends : \E T, Q : Moved(inbox[x], inbox'[x], T, Q) /\ Quiet(T \cup Q)
    BY <1>1, <1>2, NoneMoved
<1>4. /\ delegate' \in [Ends -> [Parts -> {"idle", "stored", "added", "announced"}]]
      /\ \A f \in Ends, r \in Parts : delegate'[f][r] = IF f = e /\ r = p THEN "idle" ELSE delegate[f][r]
      /\ \A f \in Ends : f # e => delegate'[f] = delegate[f]
      /\ \A f \in Ends, r \in Parts : AskedOnce(f, r)'
    <2>1. delegate[e][p] # "idle" /\ "idle" \in {"idle", "stored", "added", "announced"}
        BY <1>2
    <2> QED BY <1>2, <1>3, <2>1, DelegateAsked
<1>5. TypeOK'
    BY <1>1, <1>2, <1>4 DEF TypeOK, domainVars
<1>6. ASSUME NEW f \in Ends PROVE Announcing(f)'
    <2>1. CASE f = e
        <3>1. ASSUME up[e] # "down" PROVE OneDelegate(e)'
            <4>1. /\ e \in registered
                  /\ \A r \in Parts : delegate[e][r] \in {"added", "announced"} <=> r = p
                  /\ added[e] = 1
                BY <1>1, <1>2, <3>1 DEF Announcing, OneDelegate
            <4>2. \A r \in Parts : delegate'[e][r] \notin {"added", "announced"}
                BY <1>4, <4>1
            <4> QED BY <1>2, <4>1, <4>2 DEF OneDelegate
        <3> QED BY <1>1, <1>2, <2>1, <3>1 DEF Announcing, AllAnswered
    <2>2. CASE f # e
        BY <1>1, <1>2, <1>4, <2>2 DEF Announcing, OneDelegate, AllAnswered
    <2> QED BY <2>1, <2>2
<1>7. \A f \in Ends, d \in Domains : Follows(f, d)'
    <2>1. UNCHANGED <<up, answers, domainVars>> /\ UNCHANGED <<registered, view>>
        BY <1>2
    <2> QED BY <1>1, <1>3, <2>1, FollowsSent
<1> QED BY <1>4, <1>5, <1>6, <1>7 DEF Inductive

\* A connection is closed.
LEMMA ClosedInductive ==
    ASSUME Inductive, NEW e \in Ends, ConnectionClosed(e)
    PROVE  Inductive'
<1>1. /\ TypeOK /\ \A f \in Ends : Announcing(f)
      /\ \A f \in Ends, r \in Parts : AskedOnce(f, r)
      /\ \A f \in Ends, d \in Domains : Follows(f, d)
    BY DEF Inductive
<1>2. /\ up[e] = "up" /\ up' = [up EXCEPT ![e] = "down"] /\ inbox' = [inbox EXCEPT ![e] = EmptyBag]
      /\ registered' = IF e \in subscribed THEN registered \ {e} ELSE registered
      /\ removed' = IF e \in subscribed THEN [removed EXCEPT ![e] = @ + 1] ELSE removed
      /\ UNCHANGED <<answers, delegate, domainVars, view, subscribed, added,
                     registry, raising, relayed, entities>>
    BY DEF ConnectionClosed, handshakeVars, componentVars
<1>3. /\ up' \in [Ends -> {"new", "up", "down"}] /\ up'[e] = "down"
      /\ \A f \in Ends : f # e => up'[f] = up[f]
    BY <1>1, <1>2 DEF TypeOK
<1>4. /\ removed' \in [Ends -> Nat] /\ removed[e] \in Nat
      /\ removed'[e] = IF e \in subscribed THEN removed[e] + 1 ELSE removed[e]
      /\ \A f \in Ends : f # e => removed'[f] = removed[f]
    BY <1>1, <1>2 DEF TypeOK
<1>5. /\ DOMAIN inbox' = Ends /\ \A x \in Ends : MessageBag(inbox'[x])
      /\ \A x \in Ends : \E T : Moved(inbox[x], inbox'[x], T, {})
      /\ \A x \in Ends : x # e => inbox'[x] = inbox[x]
    <2>1. DOMAIN inbox = Ends /\ \A x \in Ends : MessageBag(inbox[x])
        BY <1>1 DEF TypeOK
    <2>2. DOMAIN inbox' = Ends /\ inbox'[e] = EmptyBag /\ \A x \in Ends : x # e => inbox'[x] = inbox[x]
        BY <1>2, <2>1
    <2>3. ASSUME NEW x \in Ends PROVE \E T : Moved(inbox[x], inbox'[x], T, {})
        <3>1. Moved(inbox[x], inbox[x], {}, {}) /\ Moved(inbox[x], EmptyBag, DOMAIN inbox[x], {})
            BY <2>1, MovedNothing
        <3>2. inbox'[x] = inbox[x] \/ inbox'[x] = EmptyBag
            BY <2>2
        <3> QED BY <3>1, <3>2
    <2> QED BY <2>1, <2>2, <2>3, EmptyBagFacts
<1>6. TypeOK'
    BY <1>1, <1>2, <1>3, <1>4, <1>5 DEF TypeOK, domainVars
<1>7. ASSUME NEW f \in Ends PROVE Announcing(f)'
    <2>1. CASE f = e
        <3>1. removed[e] = 0 /\ OneDelegate(e) /\ added[e] \in Nat
            BY <1>1, <1>2 DEF Announcing, TypeOK
        <3>2. e \in subscribed => removed'[e] = 1 /\ added[e] > 0
            BY <1>4, <3>1 DEF OneDelegate
        <3> QED BY <1>1, <1>2, <1>3, <1>4, <2>1, <3>1, <3>2 DEF Announcing, AllAnswered
    <2>2. CASE f # e
        <3>1. f \in registered' <=> f \in registered
            BY <1>2, <2>2
        <3> QED BY <1>1, <1>2, <1>3, <1>4, <2>2, <3>1 DEF Announcing, OneDelegate, AllAnswered
    <2> QED BY <2>1, <2>2
<1>8. ASSUME NEW f \in Ends, NEW r \in Parts PROVE AskedOnce(f, r)'
    <2>1. PICK T1, Q1 : Moved(inbox[Other(f)], inbox'[Other(f)], T1, Q1) /\ Q1 = {}
        BY <1>5, EndFacts
    <2>2. PICK T2, Q2 : Moved(inbox[f], inbox'[f], T2, Q2) /\ Q2 = {}
        BY <1>5
    <2>3. up'[f] = "new" => up[f] = "new"
        BY <1>3
    <2>4. answers'[f][r] = answers[f][r] /\ delegate'[f][r] = delegate[f][r]
        BY <1>2
    <2>5. /\ \A m \in Q1 : ~(m.type = "get" /\ m.part = r)
          /\ \A m \in Q2 : ~(m.type = "answer" /\ m.part = r)
        BY <2>1, <2>2
    <2>6. TypeOK /\ AskedOnce(f, r) /\ \A x \in Ends : MessageBag(inbox'[x])
        BY <1>1, <1>5
    <2> QED BY <2>1, <2>2, <2>3, <2>4, <2>5, <2>6, AskedKept
<1>9. ASSUME NEW f \in Ends, NEW d \in Domains PROVE Follows(f, d)'
    <2>1. CASE f = e \/ Other(f) = e
        BY <1>3, <2>1 DEF Follows, UnderWay, domainVars
    <2>2. CASE f # e /\ Other(f) # e
        <3>1. inbox'[f] = inbox[f] /\ up'[f] = up[f] /\ up'[Other(f)] = up[Other(f)]
              /\ (f \in registered' <=> f \in registered)
              /\ (Other(f) \in registered' <=> Other(f) \in registered)
            BY <1>2, <1>3, <1>5, <2>2, EndFacts
        <3>2. UnderWay(f, d)' <=> UnderWay(f, d)
            BY <1>2, <3>1 DEF UnderWay, domainVars
        <3> QED BY <1>1, <1>2, <3>1, <3>2 DEF Follows, domainVars
    <2> QED BY <2>1, <2>2
<1> QED BY <1>6, <1>7, <1>8, <1>9 DEF Inductive

(***************************************************************************)
(* Domains.                                                                *)
(***************************************************************************)

\* A domain changes: the event is under way, unless the change raced with others.
LEMMA ChangeDomainInductive ==
    ASSUME Inductive, NEW s \in Servers, NEW d \in Domains, ChangeDomain(s, d)
    PROVE  Inductive'
<1>1. /\ TypeOK /\ \A f \in Ends : Announcing(f)
      /\ \A f \in Ends, r \in Parts : AskedOnce(f, r)
      /\ \A f \in Ends, r \in Domains : Follows(f, r)
    BY DEF Inductive
<1>2. /\ domains' = [domains EXCEPT ![s][d] = domains[s][d] + 1]
      /\ changing' = [changing EXCEPT ![s][d] = changing[s][d] + 1]
      /\ UNCHANGED <<up, inbox, answers, delegate, telling, registered, view, subscribed, added, removed,
                     registry, raising, relayed, entities>>
    BY DEF ChangeDomain, handshakeVars, serverVars, componentVars
<1>3. /\ domains' \in [Servers -> [Domains -> Nat]] /\ changing' \in [Servers -> [Domains -> Nat]]
      /\ \A x \in Servers, r \in Domains :
            x # s \/ r # d => domains'[x][r] = domains[x][r] /\ changing'[x][r] = changing[x][r]
      /\ changing'[s][d] > 0
    <2>1. /\ domains \in [Servers -> [Domains -> Nat]] /\ changing \in [Servers -> [Domains -> Nat]]
          /\ domains[s][d] + 1 \in Nat /\ changing[s][d] + 1 \in Nat /\ changing[s][d] + 1 > 0
        BY <1>1 DEF TypeOK
    <2>2. /\ domains' \in [Servers -> [Domains -> Nat]]
          /\ \A x \in Servers, r \in Domains : x # s \/ r # d => domains'[x][r] = domains[x][r]
        BY <1>2, <2>1, ChangedAt
    <2>3. /\ changing' \in [Servers -> [Domains -> Nat]]
          /\ \A x \in Servers, r \in Domains :
                changing'[x][r] = IF x = s /\ r = d THEN changing[s][d] + 1 ELSE changing[x][r]
        BY <1>2, <2>1, ChangedAt
    <2> QED BY <2>1, <2>2, <2>3
<1>4. /\ raced' \subseteq Ends \X Domains
      /\ \A f \in Ends, r \in Domains :
            <<f, r>> \in raced' <=>
                IF Remote(f) = s /\ r = d
                THEN (~Settled(f.link) /\ ~Untouched(f.link)) \/ UnderWay(f, d)
                ELSE <<f, r>> \in raced
    BY DEF ChangeDomain
<1>5. TypeOK'
    BY <1>1, <1>2, <1>3, <1>4 DEF TypeOK
<1>6. \A f \in Ends : Announcing(f)'
    BY <1>1, <1>2, AnnouncingKept
<1>7. \A f \in Ends, r \in Parts : AskedOnce(f, r)'
    BY <1>1, <1>2 DEF AskedOnce
<1>8. ASSUME NEW f \in Ends, NEW r \in Domains PROVE Follows(f, r)'
    <2>1. Remote(f) \in Servers /\ Other(f) \in Ends /\ Other(f).link = f.link
        BY EndFacts
    <2>2. CASE Remote(f) # s \/ r # d
        <3>1. /\ domains'[Remote(f)][r] = domains[Remote(f)][r] /\ (<<f, r>> \in raced' <=> <<f, r>> \in raced)
              /\ UnderWay(f, r)' <=> UnderWay(f, r)
            BY <1>2, <1>3, <1>4, <2>1, <2>2 DEF UnderWay
        <3> QED BY <1>1, <1>2, <3>1 DEF Follows
    <2>3. CASE Remote(f) = s /\ r = d
        <3> DEFINE now == domains'[s][d]
        <3> HIDE DEF now
        <3> SUFFICES ASSUME up[f] # "down", up[Other(f)] # "down", <<f, d>> \notin raced'
                     PROVE  /\ Tell(inbox[f], "update", d, now) /\ Tell(telling[s], "update", d, now)
                            /\ Tell(inbox[f], "answer", d, now)
                            /\ f \notin registered => answers[f][d] \in {Unknown, now}
                            /\ f \in registered => Other(f) \in registered /\ UnderWay(f, d)'
            BY <1>2, <2>3 DEF Follows, now
        <3>1. ~UnderWay(f, d) /\ (Settled(f.link) \/ Untouched(f.link)) /\ d \in Parts
            BY <1>4, <2>3, PartsFacts
        <3>2. Tell(inbox[f], "update", d, now) /\ Tell(telling[s], "update", d, now)
            BY <2>3, <3>1 DEF UnderWay, Has, Tell
        <3>3. UnderWay(f, d)'
            BY <1>3, <2>3 DEF UnderWay
        <3>4. CASE Settled(f.link)
            <4>1. f \in registered /\ Other(f) \in registered
                BY <2>1, <3>4 DEF Settled
            <4>2. ~Has(inbox[f], "answer", d)
                BY <1>1, <3>1, <4>1 DEF AskedOnce, Announcing, AllAnswered
            <4>3. Tell(inbox[f], "answer", d, now)
                BY <4>2 DEF Has, Tell
            <4> QED BY <3>2, <3>3, <4>1, <4>3
        <3>5. CASE Untouched(f.link)
            <4>1. up[f] = "new"
                BY <3>5 DEF Untouched
            <4>2. answers[f][d] = Unknown /\ ~Has(inbox[f], "answer", d)
                BY <1>1, <3>1, <4>1 DEF AskedOnce
            <4>3. f \notin registered
                BY <1>1, <3>1, <4>2 DEF Announcing, AllAnswered
            <4>4. Tell(inbox[f], "answer", d, now)
                BY <4>2 DEF Has, Tell
            <4> QED BY <3>2, <4>2, <4>3, <4>4
        <3> QED BY <3>1, <3>4, <3>5
    <2> QED BY <2>2, <2>3
<1> QED BY <1>5, <1>6, <1>7, <1>8 DEF Inductive

\* The event of a change is handled: what is going to be sent is the state that the domain has.
LEMMA SerializeDomainInductive ==
    ASSUME Inductive, NEW s \in Servers, NEW d \in Domains, SerializeDomain(s, d)
    PROVE  Inductive'
<1> DEFINE u == Update(s, d)
<1>1. /\ TypeOK /\ \A f \in Ends : Announcing(f)
      /\ \A f \in Ends, r \in Parts : AskedOnce(f, r)
      /\ \A f \in Ends, r \in Domains : Follows(f, r)
    BY DEF Inductive
<1>2. /\ changing[s][d] > 0 /\ changing' = [changing EXCEPT ![s][d] = changing[s][d] - 1]
      /\ telling' = [telling EXCEPT ![s] = telling[s] (+) SetToBag({u})]
      /\ UNCHANGED <<up, inbox, answers, delegate, domains, raced, registered, view, subscribed, added,
                     removed, registry, raising, relayed, entities>>
    BY DEF SerializeDomain, handshakeVars, serverVars, componentVars
<1>3. /\ changing' \in [Servers -> [Domains -> Nat]]
      /\ \A x \in Servers, r \in Domains : x # s \/ r # d => changing'[x][r] = changing[x][r]
    <2>1. changing \in [Servers -> [Domains -> Nat]] /\ changing[s][d] - 1 \in Nat
        BY <1>1, <1>2 DEF TypeOK
    <2> QED BY <1>2, <2>1, ChangedAt
<1>4. u \in Updates /\ u.type = "update" /\ u.part = d /\ u.value = domains[s][d]
    <2>1. domains[s][d] \in Nat
        BY <1>1 DEF TypeOK
    <2> QED BY <2>1 DEF Update, Updates
<1> HIDE DEF u
<1>5. /\ DOMAIN telling' = Servers /\ \A x \in Servers : x # s => telling'[x] = telling[x]
      /\ MessageBag(telling'[s]) /\ BagToSet(telling'[s]) \subseteq Updates
      /\ Moved(telling[s], telling'[s], {}, {u})
    <2>1. DOMAIN telling = Servers /\ MessageBag(telling[s]) /\ BagToSet(telling[s]) \subseteq Updates
        BY <1>1 DEF TypeOK
    <2>2. {u} \in SUBSET Messages
        BY <1>4 DEF Messages
    <2>3. Moved(telling[s], telling[s], {}, {})
        BY <2>1, MovedNothing
    <2>4. /\ MessageBag(telling[s] (+) SetToBag({u})) /\ Moved(telling[s], telling[s] (+) SetToBag({u}), {}, {u})
          /\ DOMAIN (telling[s] (+) SetToBag({u})) = DOMAIN telling[s] \cup {u}
        BY <2>1, <2>2, <2>3, AddedTo, MovedSent
    <2> QED BY <1>2, <1>4, <2>1, <2>4 DEF BagToSet
<1>6. TypeOK'
    <2>1. \A x \in Servers : MessageBag(telling'[x]) /\ BagToSet(telling'[x]) \subseteq Updates
        BY <1>1, <1>5 DEF TypeOK
    <2> QED BY <1>1, <1>2, <1>3, <1>5, <2>1 DEF TypeOK
<1>7. \A f \in Ends : Announcing(f)'
    BY <1>1, <1>2, AnnouncingKept
<1>8. \A f \in Ends, r \in Parts : AskedOnce(f, r)'
    BY <1>1, <1>2 DEF AskedOnce
<1>9. ASSUME NEW f \in Ends, NEW r \in Domains PROVE Follows(f, r)'
    <2>1. Remote(f) \in Servers
        BY EndFacts
    <2>2. CASE Remote(f) # s
        <3>1. telling'[Remote(f)] = telling[Remote(f)] /\ (UnderWay(f, r)' <=> UnderWay(f, r))
            BY <1>2, <1>3, <1>5, <2>1, <2>2 DEF UnderWay
        <3> QED BY <1>1, <1>2, <3>1 DEF Follows
    <2>3. CASE Remote(f) = s
        <3> DEFINE now == domains[s][r]
        <3>1. Tell(telling[s], "update", r, now) => Tell(telling'[s], "update", r, now)
            <4>1. \A m \in {u} : m.type = "update" /\ m.part = r => m.value = now
                BY <1>4
            <4> HIDE DEF now
            <4> QED BY <1>5, <4>1, TellMoved
        <3>2. UnderWay(f, r) => UnderWay(f, r)'
            <4>1. CASE r = d
                <5>1. Has(telling'[s], "update", d)
                    BY <1>4, <1>5, HasStays
                <5> QED BY <2>3, <4>1, <5>1 DEF UnderWay
            <4>2. CASE r # d
                <5>1. Has(telling[s], "update", r) => Has(telling'[s], "update", r)
                    BY <1>5, HasStays
                <5> QED BY <1>2, <1>3, <2>1, <2>3, <4>2, <5>1 DEF UnderWay
            <4> QED BY <4>1, <4>2
        <3> QED BY <1>1, <1>2, <2>3, <3>1, <3>2 DEF Follows
    <2> QED BY <2>2, <2>3
<1> QED BY <1>6, <1>7, <1>8, <1>9 DEF Inductive

\* An update is sent to whoever is registered.
LEMMA UpdateRemoteServersInductive ==
    ASSUME Inductive, NEW s \in Servers, UpdateRemoteServers(s)
    PROVE  Inductive'
<1>1. /\ TypeOK /\ \A f \in Ends : Announcing(f)
      /\ \A f \in Ends, r \in Parts : AskedOnce(f, r)
      /\ \A f \in Ends, r \in Domains : Follows(f, r)
    BY DEF Inductive
<1>2. PICK m \in BagToSet(telling[s]) :
          /\ telling' = [telling EXCEPT ![s] = telling[s] (-) SetToBag({m})]
          /\ inbox' = SendTo(inbox, Peers(s), {m})
    BY DEF UpdateRemoteServers
<1>3. UNCHANGED <<up, answers, delegate, domains, changing, raced, registered, view, subscribed, added,
                  removed, registry, raising, relayed, entities>>
    BY DEF UpdateRemoteServers, handshakeVars, serverVars, componentVars
<1>4. m \in DOMAIN telling[s] /\ m.type = "update" /\ {m} \in SUBSET Messages
    BY <1>1 DEF TypeOK, BagToSet, Updates, Messages
<1>5. /\ DOMAIN telling' = Servers /\ \A x \in Servers : x # s => telling'[x] = telling[x]
      /\ MessageBag(telling'[s]) /\ BagToSet(telling'[s]) \subseteq Updates
      /\ Moved(telling[s], telling'[s], {m}, {})
    <2>1. DOMAIN telling = Servers /\ MessageBag(telling[s]) /\ DOMAIN telling[s] \subseteq Updates
        BY <1>1 DEF TypeOK, BagToSet
    <2>2. MessageBag(telling[s] (-) SetToBag({m})) /\ Moved(telling[s], telling[s] (-) SetToBag({m}), {m}, {})
        BY <1>4, <2>1, TakenFrom
    <2>3. telling'[s] = telling[s] (-) SetToBag({m})
        BY <1>2, <2>1
    <2>4. MessageBag(telling'[s]) /\ Moved(telling[s], telling'[s], {m}, {})
        BY <2>2, <2>3
    <2>5. BagToSet(telling'[s]) \subseteq Updates
        BY <2>1, <2>4 DEF Moved, BagToSet
    <2> QED BY <1>2, <2>1, <2>4, <2>5
<1>6. /\ DOMAIN inbox' = Ends /\ \A x \in Ends : MessageBag(inbox'[x])
      /\ \A x \in Ends :
            Moved(inbox[x], inbox'[x], {},
                  IF Other(x) \in Peers(s) /\ up[Other(x)] # "down" /\ up[x] # "down" THEN {m} ELSE {})
    BY <1>1, <1>2, <1>4, SendMoves
<1>7. TypeOK'
    <2>1. \A x \in Servers : MessageBag(telling'[x]) /\ BagToSet(telling'[x]) \subseteq Updates
        BY <1>1, <1>5 DEF TypeOK
    <2> QED BY <1>1, <1>3, <1>5, <1>6, <2>1 DEF TypeOK
<1>8. \A f \in Ends : Announcing(f)'
    BY <1>1, <1>3, AnnouncingKept
<1>9. ASSUME NEW f \in Ends, NEW r \in Parts PROVE AskedOnce(f, r)'
    <2>1. PICK Q1 : Moved(inbox[Other(f)], inbox'[Other(f)], {}, Q1) /\ (Q1 = {} \/ Q1 = {m})
        BY <1>6, EndFacts
    <2>2. PICK Q2 : Moved(inbox[f], inbox'[f], {}, Q2) /\ (Q2 = {} \/ Q2 = {m})
        BY <1>6
    <2>3. /\ \A n \in Q1 : ~(n.type = "get" /\ n.part = r)
          /\ \A n \in Q2 : ~(n.type = "answer" /\ n.part = r)
        BY <1>4, <2>1, <2>2
    <2>4. /\ TypeOK /\ AskedOnce(f, r) /\ \A x \in Ends : MessageBag(inbox'[x])
          /\ answers'[f][r] = answers[f][r] /\ delegate'[f][r] = delegate[f][r]
          /\ up'[f] = "new" => up[f] = "new"
        BY <1>1, <1>3, <1>6
    <2> QED BY <2>1, <2>2, <2>3, <2>4, AskedKept
<1>10. ASSUME NEW f \in Ends, NEW r \in Domains PROVE Follows(f, r)'
    <2>1. Remote(f) \in Servers /\ Other(f) \in Ends /\ Local(Other(f)) = Remote(f)
        BY EndFacts
    <2>2. CASE Remote(f) # s
        <3>1. Other(f) \notin Peers(s)
            BY <2>1, <2>2 DEF Peers, EndsOf
        <3>2. Moved(inbox[f], inbox'[f], {}, {})
            BY <1>6, <3>1
        <3>3. telling'[Remote(f)] = telling[Remote(f)]
            BY <1>5, <2>1, <2>2
        <3>4. /\ \A type, v : Tell(inbox[f], type, r, v) => Tell(inbox'[f], type, r, v)
              /\ Has(inbox[f], "update", r) => Has(inbox'[f], "update", r)
            BY <3>2, TellMoved, HasStays
        <3>5. UnderWay(f, r) => UnderWay(f, r)'
            BY <1>3, <3>3, <3>4 DEF UnderWay
        <3> QED BY <1>1, <1>3, <3>3, <3>4, <3>5 DEF Follows
    <2>3. CASE Remote(f) = s
        <3> DEFINE now == domains[s][r]
        <3> SUFFICES ASSUME up[f] # "down", up[Other(f)] # "down", <<f, r>> \notin raced
                     PROVE  /\ Tell(inbox'[f], "update", r, now) /\ Tell(telling'[s], "update", r, now)
                            /\ Tell(inbox'[f], "answer", r, now)
                            /\ f \notin registered => answers[f][r] \in {Unknown, now}
                            /\ f \in registered =>
                                   view[f][r] = now \/ (Other(f) \in registered /\ UnderWay(f, r)')
            BY <1>3, <2>3 DEF Follows
        <3>1. /\ Tell(inbox[f], "update", r, now) /\ Tell(telling[s], "update", r, now)
              /\ Tell(inbox[f], "answer", r, now)
              /\ f \notin registered => answers[f][r] \in {Unknown, now}
              /\ f \in registered => view[f][r] = now \/ (Other(f) \in registered /\ UnderWay(f, r))
            BY <1>1, <2>3 DEF Follows
        <3> HIDE DEF now
        <3>2. PICK Q : Moved(inbox[f], inbox'[f], {}, Q) /\ (Q = {} \/ Q = {m})
            BY <1>6
        <3>3. m.part = r => m.value = now
            BY <1>4, <3>1 DEF Tell
        <3>4. /\ \A n \in Q : n.type = "update" /\ n.part = r => n.value = now
              /\ \A n \in Q : n.type = "answer" /\ n.part = r => n.value = now
            BY <1>4, <3>2, <3>3
        <3>5. Tell(inbox'[f], "update", r, now) /\ Tell(inbox'[f], "answer", r, now)
            BY <3>1, <3>2, <3>4, TellMoved
        <3>6. Tell(telling'[s], "update", r, now)
            BY <1>5, <3>1, TellMoved
        <3>7. ASSUME Other(f) \in registered, UnderWay(f, r) PROVE UnderWay(f, r)'
            <4>1. Has(inbox[f], "update", r) => Has(inbox'[f], "update", r)
                BY <3>2, HasStays
            <4>2. Has(telling[s], "update", r) =>
                      Has(telling'[s], "update", r) \/ Has(inbox'[f], "update", r)
                <5>1. CASE m.part = r
                    <6>1. Other(f) \in Peers(s)
                        BY <2>1, <2>3, <3>7 DEF Peers, EndsOf
                    <6>2. Moved(inbox[f], inbox'[f], {}, {m})
                        BY <1>6, <6>1
                    <6> QED BY <1>4, <5>1, <6>2, HasStays
                <5>2. CASE m.part # r
                    BY <1>5, <5>2, HasStays
                <5> QED BY <5>1, <5>2
            <4> QED BY <1>3, <2>3, <3>7, <4>1, <4>2 DEF UnderWay
        <3> QED BY <3>1, <3>5, <3>6, <3>7
    <2> QED BY <2>2, <2>3
<1> QED BY <1>7, <1>8, <1>9, <1>10 DEF Inductive

\* An update is handled: it tells the state that the domain has.
LEMMA RemoteDomainInductive ==
    ASSUME Inductive, NEW e \in Ends, HandleRemoteDomainChanged(e)
    PROVE  Inductive'
<1>1. /\ TypeOK /\ \A f \in Ends : Announcing(f)
      /\ \A f \in Ends, r \in Parts : AskedOnce(f, r)
      /\ \A f \in Ends, d \in Domains : Follows(f, d)
    BY DEF Inductive
<1>2. UNCHANGED <<up, answers, delegate, domains, changing, telling, raced, registered, subscribed, added,
                  removed, registry, raising, relayed, entities>>
    BY DEF HandleRemoteDomainChanged, handshakeVars, domainVars, componentVars
<1>3. PICK m \in Received(e, "update") :
          /\ view' = IF e \in registered THEN [view EXCEPT ![e][m.part] = m.value] ELSE view
          /\ inbox' = Rest(e, m)
    BY DEF HandleRemoteDomainChanged
<1>4. /\ m \in BagToSet(inbox[e]) /\ m \in DOMAIN inbox[e] /\ m.type = "update"
      /\ m.part \in Domains /\ m.value \in Nat
    BY <1>1, <1>3, RestMoves, MessageFacts DEF Received
<1>5. /\ DOMAIN inbox' = Ends /\ \A x \in Ends : MessageBag(inbox'[x])
      /\ Moved(inbox[e], inbox'[e], {m}, {})
      /\ \A x \in Ends : x # e => Moved(inbox[x], inbox'[x], {}, {})
    BY <1>1, <1>3, <1>4, RestMoves
<1>6. /\ view' \in [Ends -> [Domains -> Nat]]
      /\ \A f \in Ends, d \in Domains : f # e \/ d # m.part => view'[f][d] = view[f][d]
      /\ e \in registered => view'[e][m.part] = m.value
    <2>1. view \in [Ends -> [Domains -> Nat]]
        BY <1>1 DEF TypeOK
    <2>2. CASE e \in registered
        <3>1. view' = [view EXCEPT ![e][m.part] = m.value]
            BY <1>3, <2>2
        <3> QED BY <1>4, <2>1, <3>1, ChangedAt
    <2>3. CASE e \notin registered
        BY <1>3, <2>1, <2>3
    <2> QED BY <2>2, <2>3
<1>7. TypeOK'
    BY <1>1, <1>2, <1>5, <1>6 DEF TypeOK
<1>8. \A f \in Ends : Announcing(f)'
    BY <1>1, <1>2, AnnouncingKept
<1>9. ASSUME NEW f \in Ends, NEW r \in Parts PROVE AskedOnce(f, r)'
    <2>1. PICK T1, Q1 : Moved(inbox[Other(f)], inbox'[Other(f)], T1, Q1) /\ Q1 = {}
        BY <1>5, EndFacts
    <2>2. PICK T2, Q2 : Moved(inbox[f], inbox'[f], T2, Q2) /\ Q2 = {}
        BY <1>5
    <2>3. /\ \A n \in Q1 : ~(n.type = "get" /\ n.part = r)
          /\ \A n \in Q2 : ~(n.type = "answer" /\ n.part = r)
        BY <2>1, <2>2
    <2>4. /\ TypeOK /\ AskedOnce(f, r) /\ \A x \in Ends : MessageBag(inbox'[x])
          /\ answers'[f][r] = answers[f][r] /\ delegate'[f][r] = delegate[f][r]
          /\ up'[f] = "new" => up[f] = "new"
        BY <1>1, <1>2, <1>5
    <2> QED BY <2>1, <2>2, <2>3, <2>4, AskedKept
<1>10. ASSUME NEW f \in Ends, NEW d \in Domains PROVE Follows(f, d)'
    <2> DEFINE now == domains[Remote(f)][d]
    <2> SUFFICES ASSUME up[f] # "down", up[Other(f)] # "down", <<f, d>> \notin raced
                 PROVE  /\ Tell(inbox'[f], "update", d, now) /\ Tell(telling[Remote(f)], "update", d, now)
                        /\ Tell(inbox'[f], "answer", d, now)
                        /\ f \notin registered => answers[f][d] \in {Unknown, now}
                        /\ f \in registered =>
                               view'[f][d] = now \/ (Other(f) \in registered /\ UnderWay(f, d)')
        BY <1>2 DEF Follows
    <2>1. /\ Tell(inbox[f], "update", d, now) /\ Tell(telling[Remote(f)], "update", d, now)
          /\ Tell(inbox[f], "answer", d, now)
          /\ f \notin registered => answers[f][d] \in {Unknown, now}
          /\ f \in registered => view[f][d] = now \/ (Other(f) \in registered /\ UnderWay(f, d))
        BY <1>1 DEF Follows
    <2> HIDE DEF now
    <2>2. PICK T, Q : Moved(inbox[f], inbox'[f], T, Q) /\ Q = {} /\ (T = {} \/ (T = {m} /\ f = e))
        BY <1>5
    <2>3. /\ \A n \in Q : n.type = "update" /\ n.part = d => n.value = now
          /\ \A n \in Q : n.type = "answer" /\ n.part = d => n.value = now
        BY <2>2
    <2>4. Tell(inbox'[f], "update", d, now) /\ Tell(inbox'[f], "answer", d, now)
        BY <2>1, <2>2, <2>3, TellMoved
    <2>5. CASE f = e /\ d = m.part
        <3>1. m.value = now
            BY <1>4, <2>1, <2>5 DEF Tell
        <3>2. f \in registered => view'[f][d] = now
            BY <1>6, <2>5, <3>1
        <3> QED BY <2>1, <2>4, <3>2
    <2>6. CASE f # e \/ d # m.part
        <3>1. view'[f][d] = view[f][d]
            BY <1>6, <2>6
        <3>2. \A n \in T : ~(n.type = "update" /\ n.part = d)
            BY <2>2, <2>6
        <3>3. Has(inbox[f], "update", d) => Has(inbox'[f], "update", d)
            BY <2>2, <3>2, HasStays
        <3>4. UnderWay(f, d) => UnderWay(f, d)'
            BY <1>2, <3>3 DEF UnderWay
        <3> QED BY <2>1, <2>4, <3>1, <3>4
    <2> QED BY <2>5, <2>6
<1> QED BY <1>7, <1>8, <1>9, <1>10 DEF Inductive

(***************************************************************************)
(* The invariant, and what follows from it.                                *)
(***************************************************************************)

\* It holds at first: of the links that are complete all is known, of the others nothing.
LEMMA InitInductive == Init => Inductive
<1> SUFFICES ASSUME Init PROVE Inductive
    OBVIOUS
<1>1. ASSUME NEW e \in Ends
      PROVE  /\ up[e] = IF e.link \in Linked THEN "up" ELSE "new"
             /\ inbox[e] = EmptyBag /\ (e \in registered <=> e.link \in Linked)
             /\ (e \in subscribed <=> e.link \in Linked)
             /\ added[e] = (IF e.link \in Linked THEN 1 ELSE 0) /\ removed[e] = 0
             /\ \A p \in Parts : /\ answers[e][p] = IF e.link \in Linked THEN 0 ELSE Unknown
                                 /\ delegate[e][p] = "idle"
             /\ \A d \in Domains : view[e][d] = 0 /\ domains[Remote(e)][d] = 0
             /\ telling[Remote(e)] = EmptyBag
    <2>1. Remote(e) \in Servers
        BY EndFacts
    <2> QED BY <2>1 DEF Init
<1>2. 0 # Unknown
    BY UnknownAssumption
<1>3. MessageBag(EmptyBag) /\ DOMAIN EmptyBag = {} /\ BagToSet(EmptyBag) = {}
    BY EmptyBagFacts DEF BagToSet
<1>4. TypeOK
    <2>1. \A c : c \in {"new", "up", "down"} <=> c = "new" \/ c = "up" \/ c = "down"
        OBVIOUS
    <2>2. /\ up \in [Ends -> {"new", "up", "down"}]
          /\ DOMAIN inbox = Ends /\ \A e \in Ends : MessageBag(inbox[e])
          /\ registered \subseteq Ends /\ subscribed \subseteq Ends /\ raced \subseteq Ends \X Domains
        BY <1>3 DEF Init
    <2>3. /\ answers \in [Ends -> [Parts -> Nat \cup {Unknown}]]
          /\ delegate \in [Ends -> [Parts -> {"idle", "stored", "added", "announced"}]]
        BY DEF Init
    <2>4. /\ domains \in [Servers -> [Domains -> Nat]] /\ view \in [Ends -> [Domains -> Nat]]
          /\ changing \in [Servers -> [Domains -> Nat]]
          /\ added \in [Ends -> Nat] /\ removed \in [Ends -> Nat]
        BY DEF Init
    <2>5. DOMAIN telling = Servers /\ \A s \in Servers : MessageBag(telling[s]) /\ BagToSet(telling[s]) \subseteq Updates
        BY <1>3 DEF Init
    <2>6. /\ registry \in [Servers -> SUBSET Components] /\ raising \in [Servers -> SUBSET Components]
          /\ relayed \in [Servers -> SUBSET Components]
          /\ entities \in [Servers -> [Components -> {"none", "bare", "whole"}]]
        BY DefinitionsAssumption DEF Init
    <2> QED BY <2>2, <2>3, <2>4, <2>5, <2>6 DEF TypeOK
<1>5. ASSUME NEW e \in Ends PROVE Announcing(e)
    BY <1>1, <1>2 DEF Announcing, OneDelegate, AllAnswered
<1>6. ASSUME NEW e \in Ends, NEW p \in Parts PROVE AskedOnce(e, p)
    <2>1. inbox[e] = EmptyBag /\ inbox[Other(e)] = EmptyBag
        BY <1>1, EndFacts
    <2>2. /\ Once(EmptyBag, "get", p) /\ Once(EmptyBag, "answer", p)
          /\ ~Has(EmptyBag, "get", p) /\ ~Has(EmptyBag, "answer", p)
        BY <1>3 DEF Once, Has
    <2>3. IF answers[e][p] = Unknown THEN delegate[e][p] = "idle" ELSE up[e] # "new"
        BY <1>1
    <2> QED BY <2>1, <2>2, <2>3 DEF AskedOnce
<1>7. ASSUME NEW e \in Ends, NEW d \in Domains PROVE Follows(e, d)
    <2>1. inbox[e] = EmptyBag /\ telling[Remote(e)] = EmptyBag /\ d \in Parts
        BY <1>1, PartsFacts
    <2>2. Tell(EmptyBag, "update", d, 0) /\ Tell(EmptyBag, "answer", d, 0)
        BY <1>3 DEF Tell
    <2>3. domains[Remote(e)][d] = 0 /\ view[e][d] = 0 /\ (e \notin registered => answers[e][d] = Unknown)
        BY <1>1, <2>1
    <2> QED BY <2>1, <2>2, <2>3 DEF Follows
<1> QED BY <1>4, <1>5, <1>6, <1>7 DEF Inductive

\* Every step keeps it.
LEMMA NextInductive == Inductive /\ [Next]_vars => Inductive'
<1> SUFFICES ASSUME Inductive, [Next]_vars PROVE Inductive'
    OBVIOUS
<1>1. ASSUME NEW e \in Ends, HandleNewServerConnected(e) PROVE Inductive'
    BY <1>1, NewServerInductive
<1>2. ASSUME NEW e \in Ends, HandleMessage(e) PROVE Inductive'
    BY <1>2, AnswerInductive, StoreAnswerInductive, RemoteDomainInductive,
       RelayDefinitionInductive, RemoteEntityInductive DEF HandleMessage
<1>3. ASSUME NEW e \in Ends, ConnectionClosed(e) PROVE Inductive'
    BY <1>3, ClosedInductive
<1>4. ASSUME NEW e \in Ends, NEW p \in Parts, DelegateStep(e, p) PROVE Inductive'
    BY <1>4, AddRemoteServerInductive, AnnounceServerInductive, SubscribeInductive DEF DelegateStep
<1>5. ASSUME NEW s \in Servers, NEW d \in Domains, ChangeDomain(s, d) \/ SerializeDomain(s, d)
      PROVE  Inductive'
    BY <1>5, ChangeDomainInductive, SerializeDomainInductive
<1>6. ASSUME NEW s \in Servers, UpdateRemoteServers(s) PROVE Inductive'
    BY <1>6, UpdateRemoteServersInductive
<1>7. ASSUME NEW s \in Servers, NEW c \in Components, RegisterComponent(s, c) \/ ComponentStep(s, c)
      PROVE  Inductive'
    BY <1>7, RegisterComponentInductive, LocalComponentInductive DEF ComponentStep
<1>8. CASE UNCHANGED vars
    <2>1. TypeOK'
        BY <1>8 DEF Inductive, TypeOK, vars
    <2>2. UNCHANGED <<up, inbox, handshakeVars, domainVars, serverVars>>
        BY <1>8 DEF vars, handshakeVars, domainVars, serverVars
    <2> QED BY <2>1, <2>2, StillStep DEF Inductive
<1> QED BY <1>1, <1>2, <1>3, <1>4, <1>5, <1>6, <1>7, <1>8 DEF Next

\* However the answers interleave, a server is announced once.
LEMMA InductiveAnnounced == Inductive => AnnouncedOnce
<1> SUFFICES ASSUME Inductive, NEW e \in Ends
             PROVE  /\ up[e] # "down" => added[e] <= 1 /\ (e \in registered /\ AtRest(e) => added[e] = 1)
                    /\ removed[e] <= 1 /\ removed[e] <= added[e]
    BY DEF AnnouncedOnce
<1>1. Announcing(e) /\ added[e] \in Nat
    BY DEF Inductive, TypeOK
<1>2. up[e] # "down" => added[e] <= 1 /\ (e \in registered /\ AtRest(e) => added[e] = 1)
    BY <1>1 DEF Announcing, OneDelegate, AtRest
<1>3. removed[e] <= 1 /\ removed[e] <= added[e]
    BY <1>1 DEF Announcing
<1> QED BY <1>2, <1>3

\* When nothing is under way, what an end knows of a domain is what it is, unless the last
\* change of the domain raced.
LEMMA InductiveFollows == Inductive => DomainsFollow
<1> SUFFICES ASSUME Inductive, NEW e \in registered, NEW d \in Domains, Calm, Holds(e.link),
                    <<e, d>> \notin raced
             PROVE  view[e][d] = domains[Remote(e)][d]
    BY DEF DomainsFollow
<1>1. e \in Ends /\ Other(e) \in Ends /\ Other(e).link = e.link /\ Remote(e) \in Servers
    BY EndFacts DEF Inductive, TypeOK
<1>2. /\ up[e] = "up" /\ up[Other(e)] = "up" /\ inbox[e] = EmptyBag
      /\ telling[Remote(e)] = EmptyBag /\ changing[Remote(e)][d] = 0
    BY <1>1 DEF Holds, Calm
<1>3. ~UnderWay(e, d)
    BY <1>2, EmptyBagFacts DEF UnderWay, Has, BagToSet
<1>4. Follows(e, d)
    BY <1>1 DEF Inductive
<1> QED BY <1>2, <1>3, <1>4 DEF Follows


(***************************************************************************)
(* Definitions on their way.                                               *)
(***************************************************************************)

Tells(B, c) == Definition(c) \in DOMAIN B
Adding(e) == \E p \in Parts : delegate[e][p] = "added"

\* As far as its own side knows, the link of e holds at both ends.
Live(e) == up[e] # "down" /\ up[Other(e)] # "down"

\* No definition is taken from the inbox of x, and none is sent to it that nobody has heard of.
NothingNew(x) ==
    \E T, Q :
        /\ Moved(inbox[x], inbox'[x], T, Q)
        /\ \A m \in T : m.type # "define"
        /\ \A c \in Components : Definition(c) \in Q => ~Unheard(c)

\* A definition is there because it was before, or because it was sent; one that was there
\* and is not taken stays, and one that is sent arrives.
LEMMA TellsMoved ==
    ASSUME NEW s, NEW t, NEW T, NEW Q, Moved(s, t, T, Q), NEW c
    PROVE  /\ Tells(t, c) => Tells(s, c) \/ Definition(c) \in Q
           /\ Definition(c) \in Q => Tells(t, c)
           /\ Tells(s, c) /\ Definition(c) \notin T => Tells(t, c)
BY DEF Moved, Tells

\* The definition of c is a message of its own.
LEMMA DefinitionFacts ==
    ASSUME NEW c \in Components
    PROVE  /\ Definition(c) \in Messages /\ Definition(c).type = "define"
           /\ \A d : Definition(c) = Definition(d) <=> c = d
BY DEF Messages, Updates, Definition

\* Unheard and Delivered, in these terms.
LEMMA TellsFacts ==
    /\ \A B, c : BagIn(Definition(c), B) <=> Tells(B, c)
    /\ \A e, c : Delivered(e, c) <=>
          \/ c \in registry[Remote(e)] \cup relayed[Remote(e)] \cup raising[Local(e)]
          \/ Tells(inbox[Other(e)], c)
          \/ Adding(e)
    /\ \A c : Unheard(c) <=>
          /\ \A s \in Servers : c \notin registry[s] \cup relayed[s] \cup raising[s]
          /\ \A e \in Ends : ~Tells(inbox[e], c)
BY DEF BagIn, BagToSet, Tells, Adding, Delivered, Unheard

\* What a server defines itself is a component.
LEMMA OwnFacts ==
    ASSUME NEW s \in Servers, NEW c \in Own(s)
    PROVE  /\ c \in Components /\ (c \in Defined[s] \/ c \in Registering[s])
           /\ c \in Defined[s] \/ \A t \in Servers \ {s} : c \notin Registering[t]
BY DefinitionsAssumption DEF Own

\* What a step has to do so that definitions stay on their way.
LEMMA DefinitionsKept ==
    ASSUME TypeOK, TypeOK', DefinitionsInductive,
           \A s \in Servers : registry[s] \subseteq registry'[s] /\ relayed[s] \subseteq relayed'[s] \cup registry'[s],
           \A e \in Ends : up[e] = "down" => up'[e] = "down",
           \A c \in Components : Unheard(c) => Unheard(c)',
           \A e \in Ends : up'[e] # "down" =>
               \A c \in Components : Tells(inbox[e], c) => Tells(inbox'[e], c) \/ c \in relayed'[Local(e)],
           \A e \in registered' \ registered : Adding(e)',
           \A e \in registered : Adding(e) /\ Live(e)' =>
               Adding(e)' \/ \A c \in registry'[Local(e)] : Tells(inbox'[Other(e)], c),
           \A e \in registered : Live(e)' =>
               \A c \in raising[Local(e)] : c \in raising'[Local(e)] \/ Tells(inbox'[Other(e)], c)
    PROVE  DefinitionsInductive'
<1>1. \A s \in Servers : Defined[s] \subseteq registry'[s]
    BY DEF DefinitionsInductive
<1>2. \A s \in Servers : \A c \in Own(s) \ registry'[s] : Unheard(c)'
    BY OwnFacts DEF DefinitionsInductive
<1>3. ASSUME NEW e \in registered', Live(e)', NEW c \in Own(Local(e)) \cap registry'[Local(e)]
      PROVE  Delivered(e, c)'
    <2>1. /\ e \in Ends /\ Other(e) \in Ends /\ Local(e) \in Servers /\ Remote(e) \in Servers
          /\ Local(Other(e)) = Remote(e) /\ c \in Components
          /\ up[e] # "down" /\ up[Other(e)] # "down" /\ up'[Other(e)] # "down"
        BY <1>3, EndFacts, OwnFacts DEF TypeOK, Live
    <2>2. \/ c \in registry'[Remote(e)] \cup relayed'[Remote(e)] \cup raising'[Local(e)]
          \/ Tells(inbox'[Other(e)], c)
          \/ Adding(e)'
        <3>1. CASE e \notin registered
            BY <3>1
        <3>2. CASE e \in registered
            <4>1. c \in registry[Local(e)]
                <5>1. ASSUME c \notin registry[Local(e)] PROVE FALSE
                    <6>1. Unheard(c)'
                        BY <2>1, <5>1 DEF DefinitionsInductive
                    <6> QED BY <1>3, <2>1, <6>1 DEF Unheard
                <5> QED BY <5>1
            <4>2. Delivered(e, c)
                BY <2>1, <3>2, <4>1 DEF DefinitionsInductive, DefinitionsUnderWay
            <4>3. CASE c \in registry[Remote(e)] \cup relayed[Remote(e)]
                BY <2>1, <4>3
            <4>4. CASE c \in raising[Local(e)]
                BY <1>3, <3>2, <4>4
            <4>5. CASE Tells(inbox[Other(e)], c)
                BY <2>1, <4>5
            <4>6. CASE Adding(e)
                BY <1>3, <3>2, <4>6
            <4> QED BY <4>2, <4>3, <4>4, <4>5, <4>6, TellsFacts
        <3> QED BY <3>1, <3>2
    <2> QED BY <2>2 DEF Delivered, Tells, Adding, BagIn, BagToSet
<1>4. DefinitionsUnderWay'
    BY <1>3 DEF DefinitionsUnderWay, Live
<1> QED BY <1>1, <1>2, <1>4 DEF DefinitionsInductive

\* Nobody hears of a definition when only others are sent.
LEMMA UnheardKept ==
    ASSUME NEW c, Unheard(c),
           \A s \in Servers : c \notin registry'[s] \cup relayed'[s] \cup raising'[s],
           \A x \in Ends : \E T, Q : Moved(inbox[x], inbox'[x], T, Q) /\ Definition(c) \notin Q
    PROVE  Unheard(c)'
<1>1. ASSUME NEW x \in Ends PROVE ~Tells(inbox'[x], c)
    <2>1. PICK T, Q : Moved(inbox[x], inbox'[x], T, Q) /\ Definition(c) \notin Q
        OBVIOUS
    <2>2. ~Tells(inbox[x], c)
        BY TellsFacts
    <2> QED BY <2>1, <2>2, TellsMoved
<1> QED BY <1>1 DEF Unheard, Tells, BagIn, BagToSet

\* A step that changes no definitions, takes none from an inbox and tells of none that
\* nobody has heard of.
LEMMA DefinitionsStill ==
    ASSUME TypeOK, TypeOK', DefinitionsInductive, UNCHANGED <<registry, raising, relayed>>,
           \A e \in Ends : up[e] = "down" => up'[e] = "down",
           \A x \in Ends : NothingNew(x),
           \A e \in registered' \ registered : Adding(e)',
           \A e \in registered : Adding(e) /\ Live(e)' =>
               Adding(e)' \/ \A c \in registry[Local(e)] : Tells(inbox'[Other(e)], c)
    PROVE  DefinitionsInductive'
<1>1. ASSUME NEW c \in Components, Unheard(c) PROVE Unheard(c)'
    <2>1. \A s \in Servers : c \notin registry'[s] \cup relayed'[s] \cup raising'[s]
        BY <1>1 DEF Unheard
    <2>2. \A x \in Ends : \E T, Q : Moved(inbox[x], inbox'[x], T, Q) /\ Definition(c) \notin Q
        BY <1>1 DEF NothingNew
    <2> QED BY <1>1, <2>1, <2>2, UnheardKept
<1>2. ASSUME NEW x \in Ends, NEW c \in Components, Tells(inbox[x], c) PROVE Tells(inbox'[x], c)
    <2>1. PICK T, Q : Moved(inbox[x], inbox'[x], T, Q) /\ \A m \in T : m.type # "define"
        BY DEF NothingNew
    <2>2. Definition(c) \notin T
        BY <2>1, DefinitionFacts
    <2> QED BY <1>2, <2>1, <2>2, TellsMoved
<1>3. \A e \in registered : e \in Ends /\ Other(e) \in Ends /\ Local(e) \in Servers
    BY EndFacts DEF TypeOK
<1> QED BY <1>1, <1>2, <1>3, DefinitionsKept

\* Messages that are no definitions are new to nobody.
LEMMA OthersKnown ==
    ASSUME NEW Q, \A m \in Q : m.type # "define", NEW c \in Components
    PROVE  Definition(c) \notin Q
BY DefinitionFacts

\* A message of another type is taken, and none of a definition nobody has heard of is sent.
LEMMA TakenStill ==
    ASSUME TypeOK, NEW e \in Ends, NEW m \in BagToSet(inbox[e]), m.type # "define",
           NEW E, NEW Q \in SUBSET Messages, \A c \in Components : Definition(c) \in Q => ~Unheard(c),
           inbox' = Rest(e, m) \/ inbox' = SendTo(Rest(e, m), E, Q)
    PROVE  \A x \in Ends : NothingNew(x)
<1> TAKE x \in Ends
<1>1. \E T \in {{}, {m}}, R \in {{}, Q} : Moved(inbox[x], inbox'[x], T, R)
    <2>1. CASE inbox' = Rest(e, m)
        BY <2>1, RestMoves
    <2>2. CASE inbox' = SendTo(Rest(e, m), E, Q)
        <3>1. Moved(inbox[x], inbox'[x], IF x = e THEN {m} ELSE {},
                    IF Other(x) \in E /\ up[Other(x)] # "down" /\ up[x] # "down" THEN Q ELSE {})
            BY <2>2, TakeMoves
        <3> QED BY <3>1
    <2> QED BY <2>1, <2>2
<1>2. PICK T \in {{}, {m}}, R \in {{}, Q} : Moved(inbox[x], inbox'[x], T, R)
    BY <1>1
<1>3. (\A n \in T : n.type # "define") /\ \A c \in Components : Definition(c) \in R => ~Unheard(c)
    BY <1>2
<1> QED BY <1>2, <1>3 DEF NothingNew

\* The same when no message is taken.
LEMMA SentStill ==
    ASSUME TypeOK, NEW E, NEW Q \in SUBSET Messages, \A c \in Components : Definition(c) \in Q => ~Unheard(c),
           inbox' = inbox \/ inbox' = SendTo(inbox, E, Q)
    PROVE  \A x \in Ends : NothingNew(x)
<1> TAKE x \in Ends
<1>1. \E R \in {{}, Q} : Moved(inbox[x], inbox'[x], {}, R)
    <2>1. CASE inbox' = inbox
        <3>1. MessageBag(inbox[x])
            BY DEF TypeOK
        <3> QED BY <2>1, <3>1, MovedNothing
    <2>2. CASE inbox' = SendTo(inbox, E, Q)
        <3>1. Moved(inbox[x], inbox'[x], {},
                    IF Other(x) \in E /\ up[Other(x)] # "down" /\ up[x] # "down" THEN Q ELSE {})
            BY <2>2, SendMoves
        <3> QED BY <3>1
    <2> QED BY <2>1, <2>2
<1>2. PICK R \in {{}, Q} : Moved(inbox[x], inbox'[x], {}, R)
    BY <1>1
<1>3. \A c \in Components : Definition(c) \in R => ~Unheard(c)
    BY <1>2
<1> QED BY <1>2, <1>3 DEF NothingNew

\* A connection begins.
LEMMA NewServerDefinitions ==
    ASSUME TypeOK, TypeOK', DefinitionsInductive, NEW e \in Ends, HandleNewServerConnected(e)
    PROVE  DefinitionsInductive'
<1> DEFINE Q == {Request(p) : p \in Parts}
<1>1. /\ inbox' = SendTo(inbox, {e}, Q) /\ up[e] = "new" /\ up' = [up EXCEPT ![e] = "up"]
      /\ UNCHANGED <<registry, raising, relayed, registered, delegate>>
    BY DEF HandleNewServerConnected, componentVars, serverVars, handshakeVars
<1>2. Q \in SUBSET Messages /\ \A m \in Q : m.type # "define"
    BY DEF Messages, Request
<1>3. \A f \in Ends : up[f] = "down" => up'[f] = "down"
    BY <1>1 DEF TypeOK
<1> HIDE DEF Q
<1>4. \A c \in Components : Definition(c) \in Q => ~Unheard(c)
    BY <1>2, OthersKnown
<1>5. \A x \in Ends : NothingNew(x)
    BY <1>1, <1>2, <1>4, SentStill
<1> QED BY <1>1, <1>3, <1>5, DefinitionsStill DEF Adding

\* A question is answered.
LEMMA AnswerDefinitions ==
    ASSUME TypeOK, TypeOK', DefinitionsInductive, NEW e \in Ends, AnswerRequest(e)
    PROVE  DefinitionsInductive'
<1>1. UNCHANGED <<up, registry, raising, relayed, registered, delegate>>
    BY DEF AnswerRequest, componentVars, serverVars, handshakeVars
<1>2. PICK m \in Received(e, "get") :
          inbox' = SendTo(Rest(e, m), {e},
                          {[type |-> "answer", part |-> m.part,
                            value |-> IF m.part \in Domains THEN domains[Local(e)][m.part] ELSE 0]})
    BY DEF AnswerRequest
<1> DEFINE v == IF m.part \in Domains THEN domains[Local(e)][m.part] ELSE 0
           n == [type |-> "answer", part |-> m.part, value |-> v]
<1>3. m \in BagToSet(inbox[e]) /\ m.type = "get" /\ m.part \in Parts
    BY <1>2, RestMoves, MessageFacts DEF Received
<1>4. {n} \in SUBSET Messages /\ n.type = "answer"
    <2>1. Local(e) \in Servers /\ domains \in [Servers -> [Domains -> Nat]]
        BY EndFacts DEF TypeOK
    <2>2. v \in Nat
        BY <2>1
    <2> QED BY <1>3, <2>2 DEF Messages
<1>5. inbox' = SendTo(Rest(e, m), {e}, {n})
    BY <1>2
<1> HIDE DEF n, v
<1>6. \A c \in Components : Definition(c) \in {n} => ~Unheard(c)
    BY <1>4, OthersKnown
<1>7. \A x \in Ends : NothingNew(x)
    BY <1>3, <1>4, <1>5, <1>6, TakenStill
<1> QED BY <1>1, <1>7, DefinitionsStill DEF Adding

\* A message that is no definition is taken.
LEMMA TakenOnly ==
    ASSUME TypeOK, NEW e \in Ends, NEW m \in BagToSet(inbox[e]), m.type # "define", inbox' = Rest(e, m)
    PROVE  \A x \in Ends : NothingNew(x)
<1>1. {} \in SUBSET Messages /\ \A c \in Components : Definition(c) \in {} => ~Unheard(c)
    OBVIOUS
<1> QED BY <1>1, TakenStill

\* No message is taken, and none is sent.
LEMMA NothingSent == TypeOK /\ inbox' = inbox => \A x \in Ends : NothingNew(x)
<1> SUFFICES ASSUME TypeOK, inbox' = inbox PROVE \A x \in Ends : NothingNew(x)
    OBVIOUS
<1>1. {} \in SUBSET Messages /\ \A c \in Components : Definition(c) \in {} => ~Unheard(c)
    OBVIOUS
<1> QED BY <1>1, SentStill

\* An answer is stored: its delegate has not added the server, for it has not run.
LEMMA StoreAnswerDefinitions ==
    ASSUME Inductive, TypeOK', DefinitionsInductive, NEW e \in Ends, StoreAnswer(e)
    PROVE  DefinitionsInductive'
<1>1. TypeOK /\ UNCHANGED <<up, registry, raising, relayed, registered>>
    BY DEF Inductive, StoreAnswer, componentVars, serverVars
<1>2. PICK m \in Received(e, "answer") :
          delegate' = [delegate EXCEPT ![e][m.part] = "stored"] /\ inbox' = Rest(e, m)
    BY DEF StoreAnswer
<1>3. m \in BagToSet(inbox[e]) /\ m.type = "answer" /\ m.part \in Parts
    BY <1>1, <1>2, RestMoves, MessageFacts DEF Received
<1>4. delegate[e][m.part] = "idle"
    <2>1. Has(inbox[e], "answer", m.part)
        BY <1>3 DEF Has
    <2> QED BY <1>3, <2>1 DEF Inductive, AskedOnce
<1>5. ASSUME NEW f \in Ends, Adding(f) PROVE Adding(f)'
    <2>1. PICK r \in Parts : delegate[f][r] = "added"
        BY <1>5 DEF Adding
    <2>2. ~(f = e /\ r = m.part)
        BY <1>4, <2>1
    <2>3. delegate'[f][r] = "added"
        BY <1>1, <1>2, <2>1, <2>2 DEF TypeOK
    <2> QED BY <2>3 DEF Adding
<1>6. \A x \in Ends : NothingNew(x)
    BY <1>1, <1>2, <1>3, TakenOnly
<1>7. registered \subseteq Ends
    BY <1>1 DEF TypeOK
<1> QED BY <1>1, <1>5, <1>6, <1>7, DefinitionsStill

\* An update of a domain arrives.
LEMMA RemoteDomainDefinitions ==
    ASSUME TypeOK, TypeOK', DefinitionsInductive, NEW e \in Ends, HandleRemoteDomainChanged(e)
    PROVE  DefinitionsInductive'
<1>1. UNCHANGED <<up, registry, raising, relayed, registered, delegate>>
    BY DEF HandleRemoteDomainChanged, componentVars, handshakeVars
<1>2. PICK m \in Received(e, "update") : inbox' = Rest(e, m)
    BY DEF HandleRemoteDomainChanged
<1>3. m \in BagToSet(inbox[e]) /\ m.type # "define"
    BY <1>2 DEF Received
<1>4. \A x \in Ends : NothingNew(x)
    BY <1>2, <1>3, TakenOnly
<1> QED BY <1>1, <1>4, DefinitionsStill DEF Adding

\* An entity of another server arrives.
LEMMA RemoteEntityDefinitions ==
    ASSUME TypeOK, TypeOK', DefinitionsInductive, NEW e \in Ends, HandleRemoteAddedEntity(e)
    PROVE  DefinitionsInductive'
<1> DEFINE E == {f \in Peers(Local(e)) \ {e} : Interested(f)}
<1>1. UNCHANGED <<up, registry, raising, relayed, registered, delegate>>
    BY DEF HandleRemoteAddedEntity, componentVars, serverVars, handshakeVars
<1>2. PICK m \in Received(e, "addEntity") : inbox' = Rest(e, m) \/ inbox' = SendTo(Rest(e, m), E, {m})
    BY DEF HandleRemoteAddedEntity
<1> HIDE DEF E
<1>3. m \in BagToSet(inbox[e]) /\ m.type # "define" /\ {m} \in SUBSET Messages
    BY <1>2, RestMoves DEF Received
<1>4. \A c \in Components : Definition(c) \in {m} => ~Unheard(c)
    BY <1>3, OthersKnown
<1>5. \A x \in Ends : NothingNew(x)
    BY <1>2, <1>3, <1>4, TakenStill
<1> QED BY <1>1, <1>5, DefinitionsStill DEF Adding

\* A domain changes, or is serialised.
LEMMA ChangeDomainDefinitions ==
    ASSUME TypeOK, TypeOK', DefinitionsInductive, NEW s \in Servers, NEW d \in Domains,
           ChangeDomain(s, d) \/ SerializeDomain(s, d)
    PROVE  DefinitionsInductive'
<1>1. UNCHANGED <<up, inbox, registry, raising, relayed, registered, delegate>>
    BY DEF ChangeDomain, SerializeDomain, componentVars, serverVars, handshakeVars
<1>2. \A x \in Ends : NothingNew(x)
    BY <1>1, NothingSent
<1> QED BY <1>1, <1>2, DefinitionsStill DEF Adding

\* The other servers are told of a domain.
LEMMA UpdateRemoteServersDefinitions ==
    ASSUME TypeOK, TypeOK', DefinitionsInductive, NEW s \in Servers, UpdateRemoteServers(s)
    PROVE  DefinitionsInductive'
<1>1. UNCHANGED <<up, registry, raising, relayed, registered, delegate>>
    BY DEF UpdateRemoteServers, componentVars, serverVars, handshakeVars
<1>2. PICK m \in BagToSet(telling[s]) : inbox' = SendTo(inbox, Peers(s), {m})
    BY DEF UpdateRemoteServers
<1>3. m \in Updates /\ {m} \in SUBSET Messages /\ m.type # "define"
    BY <1>2 DEF TypeOK, Messages, Updates
<1>4. \A c \in Components : Definition(c) \in {m} => ~Unheard(c)
    BY <1>3, OthersKnown
<1>5. \A x \in Ends : NothingNew(x)
    BY <1>2, <1>3, <1>4, SentStill
<1> QED BY <1>1, <1>5, DefinitionsStill DEF Adding

\* A delegate adds the server, or finds that there is nothing to add.
LEMMA AddRemoteServerDefinitions ==
    ASSUME TypeOK, TypeOK', DefinitionsInductive, NEW e \in Ends, NEW p \in Parts, AddRemoteServer(e, p)
    PROVE  DefinitionsInductive'
<1>1. /\ delegate[e][p] = "stored" /\ UNCHANGED <<up, inbox, registry, raising, relayed>>
      /\ \/ registered' = registered \cup {e} /\ delegate' = [delegate EXCEPT ![e][p] = "added"]
         \/ registered' = registered /\ delegate' = [delegate EXCEPT ![e][p] = "idle"]
    BY DEF AddRemoteServer, componentVars
<1>2. ASSUME NEW f \in Ends, Adding(f) PROVE Adding(f)'
    <2>1. PICK r \in Parts : delegate[f][r] = "added"
        BY <1>2 DEF Adding
    <2>2. ~(f = e /\ r = p)
        BY <1>1, <2>1
    <2>3. delegate'[f][r] = "added"
        BY <1>1, <2>1, <2>2 DEF TypeOK
    <2> QED BY <2>3 DEF Adding
<1>3. \A f \in registered' \ registered : Adding(f)'
    BY <1>1 DEF Adding, TypeOK
<1>4. \A x \in Ends : NothingNew(x)
    BY <1>1, NothingSent
<1>5. registered \subseteq Ends
    BY DEF TypeOK
<1> QED BY <1>1, <1>2, <1>3, <1>4, <1>5, DefinitionsStill

\* The server is announced, and is sent all definitions.
LEMMA AnnounceDefinitions ==
    ASSUME TypeOK, TypeOK', DefinitionsInductive, NEW e \in Ends, NEW p \in Parts, AnnounceServer(e, p)
    PROVE  DefinitionsInductive'
<1> DEFINE world == {c \in Components : Interested(e) /\ entities[Local(e)][c] # "none"}
           Q == {Entity(c) : c \in world} \cup {Definition(c) : c \in registry[Local(e)]}
<1>1. /\ delegate' = [delegate EXCEPT ![e][p] = "announced"] /\ inbox' = SendTo(inbox, {e}, Q)
      /\ UNCHANGED <<up, registered, registry, raising, relayed>>
    BY DEF AnnounceServer, componentVars
<1>2. /\ registry[Local(e)] \in SUBSET Components
      /\ Other(e) \in Ends /\ Other(Other(e)) = e /\ Local(e) \in Servers
    BY EndFacts DEF TypeOK
<1>3. Q \in SUBSET Messages
    BY <1>2 DEF Messages, Updates, Entity, Definition
<1>4. \A c \in registry[Local(e)] : Definition(c) \in Q
    OBVIOUS
<1>5. \A c \in Components : Definition(c) \in Q => c \in registry[Local(e)]
    BY <1>2 DEF Entity, Definition
<1> HIDE DEF Q
<1>6. \A c \in Components : Definition(c) \in Q => ~Unheard(c)
    BY <1>2, <1>5 DEF Unheard
<1>7. \A x \in Ends : NothingNew(x)
    BY <1>1, <1>3, <1>6, SentStill
<1>8. ASSUME NEW f \in registered, Adding(f), Live(f)'
      PROVE  Adding(f)' \/ \A c \in registry[Local(f)] : Tells(inbox'[Other(f)], c)
    <2>1. CASE f # e
        <3>1. f \in Ends
            BY DEF TypeOK
        <3> QED BY <1>1, <1>8, <2>1, <3>1 DEF Adding, TypeOK
    <2>2. CASE f = e
        <3>1. Moved(inbox[Other(e)], inbox'[Other(e)], {},
                    IF Other(Other(e)) \in {e} /\ up[Other(Other(e))] # "down" /\ up[Other(e)] # "down"
                    THEN Q ELSE {})
            BY <1>1, <1>2, <1>3, SendMoves
        <3>2. up[e] # "down" /\ up[Other(e)] # "down"
            BY <1>1, <1>8, <2>2 DEF Live
        <3>3. Moved(inbox[Other(e)], inbox'[Other(e)], {}, Q)
            BY <1>2, <3>1, <3>2
        <3>4. \A c \in registry[Local(e)] : Tells(inbox'[Other(e)], c)
            BY <1>4, <3>3, TellsMoved
        <3> QED BY <2>2, <3>4
    <2> QED BY <2>1, <2>2
<1>9. \A f \in Ends : up[f] = "down" => up'[f] = "down"
    BY <1>1
<1> QED BY <1>1, <1>7, <1>8, <1>9, DefinitionsStill

\* The Closed event is subscribed to.
LEMMA SubscribeDefinitions ==
    ASSUME TypeOK, TypeOK', DefinitionsInductive, NEW e \in Ends, NEW p \in Parts, SubscribeToClosed(e, p)
    PROVE  DefinitionsInductive'
<1>1. /\ delegate[e][p] = "announced" /\ delegate' = [delegate EXCEPT ![e][p] = "idle"]
      /\ UNCHANGED <<up, inbox, registered, registry, raising, relayed>>
    BY DEF SubscribeToClosed, componentVars
<1>2. \A f \in Ends : Adding(f) => Adding(f)'
    BY <1>1 DEF Adding, TypeOK
<1>3. \A x \in Ends : NothingNew(x)
    BY <1>1, NothingSent
<1>4. registered \subseteq Ends
    BY DEF TypeOK
<1> QED BY <1>1, <1>2, <1>3, <1>4, DefinitionsStill

\* The connection is closed: what was on its way to this end is not needed any more.
LEMMA ClosedDefinitions ==
    ASSUME TypeOK, TypeOK', DefinitionsInductive, NEW e \in Ends, ConnectionClosed(e)
    PROVE  DefinitionsInductive'
<1>1. /\ up' = [up EXCEPT ![e] = "down"] /\ inbox' = [inbox EXCEPT ![e] = EmptyBag]
      /\ registered' = IF e \in subscribed THEN registered \ {e} ELSE registered
      /\ UNCHANGED <<delegate, registry, raising, relayed>>
    BY DEF ConnectionClosed, handshakeVars, componentVars
<1>2. /\ up'[e] = "down" /\ \A f \in Ends : f # e => up'[f] = up[f] /\ inbox'[f] = inbox[f]
      /\ inbox'[e] = EmptyBag
    BY <1>1 DEF TypeOK
<1>3. \A f \in Ends : up[f] = "down" => up'[f] = "down"
    BY <1>2
<1>4. ASSUME NEW c \in Components, Unheard(c) PROVE Unheard(c)'
    <2>1. \A f \in Ends : ~Tells(inbox[f], c)
        BY <1>4, TellsFacts
    <2>2. \A f \in Ends : ~Tells(inbox'[f], c)
        BY <1>2, <2>1, EmptyBagFacts DEF Tells
    <2> QED BY <1>1, <1>4, <2>2 DEF Unheard, Tells, BagIn, BagToSet
<1>5. \A f \in Ends : up'[f] # "down" => \A c \in Components : Tells(inbox[f], c) => Tells(inbox'[f], c)
    BY <1>2
<1>6. registered' \subseteq registered /\ \A f \in registered : Adding(f) => Adding(f)'
    BY <1>1 DEF Adding
<1> QED BY <1>1, <1>3, <1>4, <1>5, <1>6, DefinitionsKept

\* A definition registered locally is sent to all servers that have been added.
LEMMA LocalComponentDefinitions ==
    ASSUME TypeOK, TypeOK', DefinitionsInductive, NEW s \in Servers, NEW c \in Components,
           HandleLocalRegisteredComponent(s, c)
    PROVE  DefinitionsInductive'
<1> DEFINE Q == {Definition(c)}
<1>1. /\ c \in raising[s] /\ raising' = [raising EXCEPT ![s] = @ \ {c}]
      /\ inbox' = SendTo(inbox, Peers(s), Q)
      /\ UNCHANGED <<up, delegate, registered, registry, relayed>>
    BY DEF HandleLocalRegisteredComponent, handshakeVars, serverVars
<1>2. Q \in SUBSET Messages /\ \A d : Definition(d) \in Q <=> d = c
    BY DefinitionFacts
<1> HIDE DEF Q
<1>3. \A x \in Ends :
          Moved(inbox[x], inbox'[x], {},
                IF Other(x) \in Peers(s) /\ up[Other(x)] # "down" /\ up[x] # "down" THEN Q ELSE {})
    BY <1>1, <1>2, SendMoves
<1>4. ASSUME NEW x \in Ends
      PROVE  /\ \A d \in Components : Tells(inbox[x], d) => Tells(inbox'[x], d)
             /\ \A d : Tells(inbox'[x], d) => Tells(inbox[x], d) \/ d = c
             /\ Other(x) \in Peers(s) /\ up[Other(x)] # "down" /\ up[x] # "down" => Tells(inbox'[x], c)
    <2>1. CASE Other(x) \in Peers(s) /\ up[Other(x)] # "down" /\ up[x] # "down"
        <3>1. Moved(inbox[x], inbox'[x], {}, Q)
            BY <1>3, <2>1
        <3> QED BY <1>2, <3>1, TellsMoved
    <2>2. CASE ~(Other(x) \in Peers(s) /\ up[Other(x)] # "down" /\ up[x] # "down")
        <3>1. Moved(inbox[x], inbox'[x], {}, {})
            BY <1>3, <2>2
        <3> QED BY <2>2, <3>1, TellsMoved
    <2> QED BY <2>1, <2>2
<1>5. ASSUME NEW d \in Components, Unheard(d) PROVE Unheard(d)'
    <2>1. d # c
        BY <1>1, <1>5 DEF Unheard
    <2>2. \A x \in Ends : ~Tells(inbox'[x], d)
        BY <1>4, <1>5, <2>1, TellsFacts
    <2>3. \A t \in Servers : raising'[t] \subseteq raising[t]
        BY <1>1 DEF TypeOK
    <2> QED BY <1>1, <1>5, <2>2, <2>3 DEF Unheard, Tells, BagIn, BagToSet
<1>6. ASSUME NEW f \in registered, Live(f)', NEW d \in raising[Local(f)]
      PROVE  d \in raising'[Local(f)] \/ Tells(inbox'[Other(f)], d)
    <2>1. f \in Ends /\ Other(f) \in Ends /\ Other(Other(f)) = f /\ Local(f) \in Servers
        BY EndFacts DEF TypeOK
    <2>2. CASE Local(f) = s /\ d = c
        <3>1. f \in Peers(s)
            BY <2>1, <2>2 DEF Peers, EndsOf
        <3>2. up[f] # "down" /\ up[Other(f)] # "down"
            BY <1>1, <1>6 DEF Live
        <3> QED BY <1>4, <2>1, <2>2, <3>1, <3>2
    <2>3. CASE ~(Local(f) = s /\ d = c)
        BY <1>1, <2>1, <2>3 DEF TypeOK
    <2> QED BY <2>2, <2>3
<1>7. \A f \in registered : Adding(f) => Adding(f)'
    BY <1>1 DEF Adding
<1> QED BY <1>1, <1>4, <1>5, <1>6, <1>7, DefinitionsKept

\* A definition is taken from the inbox, relayed, and about to be registered.
LEMMA RelayDefinitions ==
    ASSUME TypeOK, TypeOK', DefinitionsInductive, NEW e \in Ends, RelayDefinition(e)
    PROVE  DefinitionsInductive'
<1> DEFINE s == Local(e)
           E == Peers(s) \ {e}
<1>1. PICK m \in Received(e, "define") :
          inbox' = SendTo(Rest(e, m), E, {m}) /\ relayed' = [relayed EXCEPT ![s] = @ \cup {m.name}]
    BY DEF RelayDefinition
<1>2. UNCHANGED <<up, delegate, registered, registry, raising>>
    BY DEF RelayDefinition, handshakeVars, serverVars
<1> DEFINE c == m.name
<1>3. /\ m \in BagToSet(inbox[e]) /\ m \in Messages /\ m.type = "define"
      /\ c \in Components /\ s \in Servers /\ m = Definition(c)
    BY <1>1, RestMoves, MessageFacts, EndFacts DEF Received
<1>4. relayed' = [relayed EXCEPT ![s] = @ \cup {c}]
    BY <1>1
<1>5. s = Local(e)
    OBVIOUS
<1> HIDE DEF c, E, s
<1>6. {m} \in SUBSET Messages /\ \A d : Definition(d) \in {m} <=> d = c
    BY <1>3, DefinitionFacts
<1>7. Tells(inbox[e], c)
    BY <1>3 DEF Tells, BagToSet
<1>8. \A x \in Ends : \E Q \in {{}, {m}} : Moved(inbox[x], inbox'[x], IF x = e THEN {m} ELSE {}, Q)
    <2>1. \A x \in Ends :
              Moved(inbox[x], inbox'[x], IF x = e THEN {m} ELSE {},
                    IF Other(x) \in E /\ up[Other(x)] # "down" /\ up[x] # "down" THEN {m} ELSE {})
        BY <1>1, <1>3, <1>6, TakeMoves
    <2> QED BY <2>1
<1>9. ASSUME NEW x \in Ends, NEW d \in Components, Tells(inbox[x], d)
      PROVE  Tells(inbox'[x], d) \/ d \in relayed'[Local(x)]
    <2>1. CASE x = e /\ d = c
        BY <1>3, <1>4, <1>5, <2>1 DEF TypeOK
    <2>2. CASE ~(x = e /\ d = c)
        <3>1. PICK Q \in {{}, {m}} : Moved(inbox[x], inbox'[x], IF x = e THEN {m} ELSE {}, Q)
            BY <1>8
        <3>2. Definition(d) \notin (IF x = e THEN {m} ELSE {})
            BY <1>6, <2>2
        <3> QED BY <1>9, <3>1, <3>2, TellsMoved
    <2> QED BY <2>1, <2>2
<1>10. ASSUME NEW d \in Components, Unheard(d) PROVE Unheard(d)'
    <2>1. d # c
        BY <1>7, <1>10, TellsFacts
    <2>2. \A x \in Ends : ~Tells(inbox'[x], d)
        <3> TAKE x \in Ends
        <3>1. PICK Q \in {{}, {m}} : Moved(inbox[x], inbox'[x], IF x = e THEN {m} ELSE {}, Q)
            BY <1>8
        <3>2. Definition(d) \notin Q /\ ~Tells(inbox[x], d)
            BY <1>6, <1>10, <2>1, TellsFacts
        <3> QED BY <3>1, <3>2, TellsMoved
    <2>3. \A t \in Servers : relayed'[t] \subseteq relayed[t] \cup {c}
        BY <1>4 DEF TypeOK
    <2> QED BY <1>2, <1>10, <2>1, <2>2, <2>3 DEF Unheard, Tells, BagIn, BagToSet
<1>11. \A t \in Servers : relayed[t] \subseteq relayed'[t]
    BY <1>4 DEF TypeOK
<1>12. \A f \in registered : Adding(f) => Adding(f)'
    BY <1>2 DEF Adding
<1> QED BY <1>2, <1>9, <1>10, <1>11, <1>12, DefinitionsKept

\* A relayed definition is registered.
LEMMA RegisterRemoteDefinitions ==
    ASSUME TypeOK, TypeOK', DefinitionsInductive, NEW s \in Servers, NEW c \in Components,
           RegisterRemoteDefinition(s, c)
    PROVE  DefinitionsInductive'
<1>1. /\ c \in relayed[s] /\ relayed' = [relayed EXCEPT ![s] = @ \ {c}]
      /\ registry' = [registry EXCEPT ![s] = @ \cup {c}]
      /\ UNCHANGED <<up, inbox, delegate, registered, raising>>
    BY DEF RegisterRemoteDefinition, handshakeVars, serverVars
<1>2. \A t \in Servers :
          /\ registry[t] \subseteq registry'[t] /\ relayed[t] \subseteq relayed'[t] \cup registry'[t]
          /\ registry'[t] \subseteq registry[t] \cup {c} /\ relayed'[t] \subseteq relayed[t]
    BY <1>1 DEF TypeOK
<1>3. ASSUME NEW d \in Components, Unheard(d) PROVE Unheard(d)'
    <2>1. d # c
        BY <1>1, <1>3 DEF Unheard
    <2> QED BY <1>1, <1>2, <1>3, <2>1 DEF Unheard
<1>4. \A f \in registered : Adding(f) => Adding(f)'
    BY <1>1 DEF Adding
<1> QED BY <1>1, <1>2, <1>3, <1>4, DefinitionsKept

\* A server registers a definition: if it is its own nobody has heard of it, and from now
\* on its event is to come.
LEMMA RegisterComponentDefinitions ==
    ASSUME TypeOK, TypeOK', DefinitionsInductive, NEW s \in Servers, NEW c \in Components,
           RegisterComponent(s, c)
    PROVE  DefinitionsInductive'
<1>1. /\ c \in Registering[s] /\ raising' = [raising EXCEPT ![s] = @ \cup {c}]
      /\ registry' = [registry EXCEPT ![s] = @ \cup {c}]
      /\ UNCHANGED <<up, inbox, delegate, registered, relayed>>
    BY DEF RegisterComponent, handshakeVars, serverVars
<1>2. \A t \in Servers :
          /\ registry[t] \subseteq registry'[t] /\ registry'[t] \subseteq registry[t] \cup {c}
          /\ raising[t] \subseteq raising'[t] /\ raising'[t] \subseteq raising[t] \cup {c}
    BY <1>1 DEF TypeOK
<1>3. c \in registry'[s] /\ c \in raising'[s] /\ \A t \in Servers \ {s} : registry'[t] = registry[t]
    BY <1>1 DEF TypeOK
<1>4. \A t \in Servers : Defined[t] \subseteq registry'[t]
    BY <1>2 DEF DefinitionsInductive
<1>5. ASSUME NEW t \in Servers, NEW d \in Own(t) \ registry'[t] PROVE Unheard(d)'
    <2>1. Unheard(d)
        BY <1>2, <1>5 DEF DefinitionsInductive
    <2>2. d # c
        <3>1. d \notin Defined[t]
            BY <1>4, <1>5
        <3>2. \A u \in Servers \ {t} : d \notin Registering[u]
            BY <1>5, <3>1, OwnFacts
        <3> QED BY <1>1, <1>3, <1>5, <3>2
    <2> QED BY <1>1, <1>2, <2>1, <2>2 DEF Unheard
<1>6. ASSUME NEW f \in registered', Live(f)', NEW d \in Own(Local(f)) \cap registry'[Local(f)]
      PROVE  Delivered(f, d)'
    <2>1. f \in Ends /\ Other(f) \in Ends /\ Local(f) \in Servers /\ Remote(f) \in Servers
        BY EndFacts DEF TypeOK
    <2>2. CASE d \in registry[Local(f)]
        <3>1. up[f] # "down" /\ up[Other(f)] # "down"
            BY <1>1, <1>6 DEF Live
        <3>2. Delivered(f, d)
            BY <1>1, <1>6, <2>2, <3>1 DEF DefinitionsInductive, DefinitionsUnderWay
        <3> QED BY <1>1, <1>2, <2>1, <3>2 DEF Delivered
    <2>3. CASE d \notin registry[Local(f)]
        <3>1. d = c /\ Local(f) = s
            BY <1>2, <1>3, <1>6, <2>1, <2>3
        <3> QED BY <1>3, <3>1 DEF Delivered
    <2> QED BY <2>2, <2>3
<1>7. DefinitionsUnderWay'
    BY <1>6 DEF DefinitionsUnderWay, Live
<1> QED BY <1>4, <1>5, <1>7 DEF DefinitionsInductive

\* At first linked servers have the same definitions.
LEMMA InitDefinitions == Init => DefinitionsInductive
<1> SUFFICES ASSUME Init PROVE DefinitionsInductive
    OBVIOUS
<1>1. registry = Defined /\ \A s \in Servers : raising[s] = {} /\ relayed[s] = {}
    BY DEF Init
<1>2. \A e \in Ends : inbox[e] = EmptyBag /\ (e \in registered => e.link \in Linked) /\ registered \subseteq Ends
    BY DEF Init
<1>3. ASSUME NEW s \in Servers, NEW c \in Own(s) \ registry[s] PROVE Unheard(c)
    <2>1. \A t \in Servers : c \notin Defined[t]
        BY <1>1, <1>3 DEF Own
    <2>2. \A e \in Ends : ~BagIn(Definition(c), inbox[e])
        BY <1>2, EmptyBagFacts DEF BagIn, BagToSet
    <2> QED BY <1>1, <2>1, <2>2 DEF Unheard
<1>4. ASSUME NEW e \in registered, NEW c \in registry[Local(e)] PROVE Delivered(e, c)
    <2>1. e \in Ends /\ e.link \in Linked
        BY <1>2 DEF Init
    <2>2. Defined[e.link.dials] = Defined[e.link.listens]
        BY <2>1, DefinitionsAssumption
    <2>3. {Local(e), Remote(e)} = {e.link.dials, e.link.listens}
        BY <2>1, EndFacts
    <2>4. Defined[Local(e)] = Defined[Remote(e)]
        BY <2>2, <2>3
    <2> QED BY <1>1, <2>4 DEF Delivered
<1>5. DefinitionsUnderWay
    BY <1>4 DEF DefinitionsUnderWay
<1> QED BY <1>1, <1>3, <1>5 DEF DefinitionsInductive

\* Every step keeps definitions on their way.
LEMMA NextDefinitions == Inductive /\ DefinitionsInductive /\ [Next]_vars => DefinitionsInductive'
<1> SUFFICES ASSUME Inductive, DefinitionsInductive, [Next]_vars PROVE DefinitionsInductive'
    OBVIOUS
<1>1. TypeOK /\ TypeOK'
    BY NextInductive DEF Inductive
<1>2. ASSUME NEW e \in Ends, HandleNewServerConnected(e) \/ HandleMessage(e) \/ ConnectionClosed(e)
      PROVE  DefinitionsInductive'
    BY <1>1, <1>2, NewServerDefinitions, AnswerDefinitions, StoreAnswerDefinitions, RemoteDomainDefinitions,
       RelayDefinitions, RemoteEntityDefinitions, ClosedDefinitions DEF HandleMessage
<1>3. ASSUME NEW e \in Ends, NEW p \in Parts, DelegateStep(e, p) PROVE DefinitionsInductive'
    BY <1>1, <1>3, AddRemoteServerDefinitions, AnnounceDefinitions, SubscribeDefinitions DEF DelegateStep
<1>4. ASSUME NEW s \in Servers, NEW d \in Domains, ChangeDomain(s, d) \/ SerializeDomain(s, d)
      PROVE  DefinitionsInductive'
    BY <1>1, <1>4, ChangeDomainDefinitions
<1>5. ASSUME NEW s \in Servers, UpdateRemoteServers(s) PROVE DefinitionsInductive'
    BY <1>1, <1>5, UpdateRemoteServersDefinitions
<1>6. ASSUME NEW s \in Servers, NEW c \in Components, RegisterComponent(s, c) \/ ComponentStep(s, c)
      PROVE  DefinitionsInductive'
    BY <1>1, <1>6, RegisterComponentDefinitions, LocalComponentDefinitions, RegisterRemoteDefinitions
       DEF ComponentStep
<1>7. CASE UNCHANGED vars
    BY <1>7 DEF vars, DefinitionsInductive, DefinitionsUnderWay, Delivered, Unheard
<1> QED BY <1>2, <1>3, <1>4, <1>5, <1>6, <1>7 DEF Next

\* The variables keep their types.
THEOREM TypeCorrect == Spec => []TypeOK
<1>1. Inductive => TypeOK
    BY DEF Inductive
<1> QED BY <1>1, InitInductive, NextInductive, PTL DEF Spec

\* The inductive invariant holds in every state that the servers can reach, whatever the
\* order in which the handlers of messages begin.
THEOREM InductiveInvariant == Spec => []Inductive
BY InitInductive, NextInductive, PTL DEF Spec

\* However the three answers of a handshake and their delegates interleave
\* (ServerSyncImpl.HandleNewServerConnected, where they share variables without a lock),
\* AddedServer is raised once for a server, and RemovedServer at most once and after it.
THEOREM ServersAnnouncedOnce == Spec => []AnnouncedOnce
BY InitInductive, NextInductive, InductiveAnnounced, PTL DEF Spec

\* Whatever the number of servers, of links and of changes: when nothing is under way, a
\* server knows the domain of one it is connected to as it was changed last, unless that
\* change raced with the handshake, or with the update for an earlier one (DomainSync).
THEOREM DomainsAreFollowed == Spec => []DomainsFollow
BY InitInductive, NextInductive, InductiveFollows, PTL DEF Spec

\* Whatever the servers and links, and however registrations, announcements and relaying
\* interleave: what a server defines itself is registered at every server it has added, or
\* on its way there, unless one side of the link has been closed (ComponentSync.cs:54-115).
\* Of the liveness property DefinitionsArrive this is the part that is safety: as long as
\* something is missing, there is a message, a handler or a delegate that brings it.
THEOREM DefinitionsAreUnderWay == Spec => []DefinitionsUnderWay
<1>1. DefinitionsInductive => DefinitionsUnderWay
    BY DEF DefinitionsInductive
<1> QED BY <1>1, InitInductive, NextInductive, InitDefinitions, NextDefinitions, PTL DEF Spec

\* So when nothing is under way, the servers that have been added have the definitions of
\* the one that added them: DefinitionsAgree, for definitions that come from there.
THEOREM OwnDefinitionsArrived ==
    Spec => [](Calm => \A e \in registered :
                  Holds(e.link) => Own(Local(e)) \cap registry[Local(e)] \subseteq registry[Remote(e)])
<1>1. ASSUME TypeOK, DefinitionsUnderWay, Calm, NEW e \in registered, Holds(e.link),
             NEW c \in Own(Local(e)) \cap registry[Local(e)]
      PROVE  c \in registry[Remote(e)]
    <2>1. e \in Ends /\ Other(e) \in Ends /\ Other(e).link = e.link /\ Local(e) \in Servers /\ Remote(e) \in Servers
        BY <1>1, EndFacts DEF TypeOK
    <2>2. /\ up[e] # "down" /\ up[Other(e)] # "down"
          /\ inbox[Other(e)] = EmptyBag /\ \A p \in Parts : delegate[e][p] = "idle"
        BY <1>1, <2>1 DEF Holds, Calm, AtRest
    <2>3. Delivered(e, c)
        BY <1>1, <2>2 DEF DefinitionsUnderWay
    <2>4. relayed[Remote(e)] = {} /\ raising[Local(e)] = {}
        BY <1>1, <2>1 DEF Calm
    <2>5. ~BagIn(Definition(c), inbox[Other(e)])
        BY <2>2, EmptyBagFacts DEF BagIn, BagToSet
    <2> QED BY <2>2, <2>3, <2>4, <2>5 DEF Delivered
<1>2. TypeOK /\ DefinitionsUnderWay =>
          (Calm => \A e \in registered :
               Holds(e.link) => Own(Local(e)) \cap registry[Local(e)] \subseteq registry[Remote(e)])
    BY <1>1
<1> QED BY <1>2, TypeCorrect, DefinitionsAreUnderWay, PTL
=============================================================================
