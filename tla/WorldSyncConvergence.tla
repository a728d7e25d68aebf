------------------------ MODULE WorldSyncConvergence ------------------------
(***************************************************************************)
(* Why the servers of WorldSync agree in the end: the invariants of values *)
(* and of messages on their way that the proofs rest on.                   *)
(***************************************************************************)
EXTENDS WorldSync

\* What the invariant is stated with: in a tree the number of links between two servers.
CONSTANT Distance

\* The value an attribute has by its sync info.
StampedValue(st) == IF st = NoStamp THEN Default ELSE st.value

\* If nobody writes the default value, attributes have the values of their sync infos, and
\* the ignore set keeps only entries for the default value: Suggest, the change event and the
\* ignore set never leave a value and its stamp apart (WorldSync.cs:377-414).
ValuesFollow ==
    /\ \A s \in Server, e \in Entity : \A a \in Registered[s] :
          value[s][e][a] = StampedValue(info[s][e][a])
    /\ \A s \in Server : \A w \in ignored[s] : w[3] = Default

\* The sync graph is a tree and D[o] ranks the servers by their distance from o: of the
\* neighbours of any other server exactly one is nearer to o, the others are farther away.
TreeDistance(D) ==
    /\ D \in [Server -> [Server -> Nat]]
    /\ \A o \in Server : \A q \in Neighbours(o) : D[o][q] > D[o][o]
    /\ \A o \in Server : \A s \in Server \ {o} :
          \E p \in Neighbours(s) :
              /\ D[o][p] < D[o][s]
              /\ \A q \in Neighbours(s) \ {p} : D[o][q] > D[o][s]

\* Servers that are not linked do not talk.
OnlyLinks == \A s \in Server : \A r \in Server \ Neighbours(s) : chan[<<s, r>>] = <<>>

Silent(q, e) == \A n \in DOMAIN q : q[n].ent # e
Carries(q, type, e) == \E n \in DOMAIN q : q[n].ent = e /\ q[n].type = type

\* The first message of q about e adds it, and no other does.
AddsFirst(q, e) ==
    \E n \in DOMAIN q :
        /\ q[n].ent = e /\ q[n].type = "addEntity"
        /\ \A k \in DOMAIN q \ {n} : q[k].ent = e => k > n /\ q[k].type # "addEntity"

\* Entity e spreads from o to the servers in H, along the tree; those that have it no more
\* are the reason why it counts as removed.
SpreadFrom(D, e, o, H) ==
    /\ o \in H
    /\ \A s \in H : \A p \in Neighbours(s) : D[o][p] < D[o][s] => p \in H
    /\ \A s \in Server : e \in world[s] => s \in H
    /\ e \in removed <=> \E s \in H : e \notin world[s]

Gone(e, H, s) == s \in H /\ e \notin world[s]

\* Where the servers at the two ends of a link differ about e, a message is on its way.
EntityOnLink(e, H, s, r) ==
    LET q == chan[<<s, r>>] IN
    /\ s \notin H => Silent(q, e)
    /\ r \in H => ~Carries(q, "addEntity", e)
    /\ s \in H /\ r \notin H => AddsFirst(q, e)
    /\ Carries(q, "removeEntity", e) => Gone(e, H, s)
    /\ Gone(e, H, s) => Gone(e, H, r) \/ Carries(q, "removeEntity", e)

Covers(new, old) == new # NoStamp /\ ~Newer(old, new)

Behind(q, e, a, st) ==
    \A n \in DOMAIN q : q[n].ent = e /\ q[n].info[a] # NoStamp => Covers(st, q[n].info[a])

Brings(q, e, a, st) == \E n \in DOMAIN q : q[n].ent = e /\ Covers(q[n].info[a], st)

\* A server is never behind what it sends, and what it holds its neighbour holds or is sent.
StampOnLink(e, H, s, r, a) ==
    LET q == chan[<<s, r>>]
        st == info[s][e][a]
    IN
    e \in world[s] =>
        /\ Behind(q, e, a, st)
        /\ st # NoStamp =>
              \/ Gone(e, H, r)
              \/ e \in world[r] /\ Covers(info[r][e][a], st)
              \/ Brings(q, e, a, st)

\* The server that issued a stamp is not behind it.
IssuerCovers(e, H, a) ==
    \A w \in written :
        w[1] = e /\ w[2] = a =>
            /\ w[3].id \in H
            /\ e \in world[w[3].id] => Covers(info[w[3].id][e][a], w[3])

\* The servers in H have heard of e, from o, and whatever the others lack is on its way.
Spreading(D, e, o, H) ==
    /\ SpreadFrom(D, e, o, H)
    /\ \A s \in Server : \A r \in Neighbours(s) : EntityOnLink(e, H, s, r)
    /\ ClockPrecise /\ ClockSynced =>
          \A a \in SharedAttrs :
              /\ \A s \in Server : \A r \in Neighbours(s) : StampOnLink(e, H, s, r, a)
              /\ IssuerCovers(e, H, a)

Converges(D) ==
    /\ OnlyLinks
    /\ removed \subseteq created /\ \A w \in written : w[1] \in created
    /\ \A e \in SharedEntities \cap created :
          \E o \in Server, H \in SUBSET Server : Spreading(D, e, o, H)

\* Whatever one server knows of an entity and another does not is on its way, along the
\* tree, and so is the newest stamp of every attribute (WorldSync.cs:78-163, 277-365: who
\* forwards what, and to whom).
ServersConverge == Converges(Distance)

=============================================================================
