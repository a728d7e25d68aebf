--------------------------- MODULE LastWriterWins ---------------------------
(***************************************************************************)
(* What the sync infos of all servers promise together: each attribute is  *)
(* a last-writer-wins register.  A server may issue a stamp for it, learn  *)
(* stamps that some server has issued, or forget the entity; it never goes *)
(* back to an older stamp, and no two stamps with the same tick and SyncID *)
(* carry different values.                                                 *)
(***************************************************************************)
EXTENDS AttributeSyncInfo

CONSTANT Entity

VARIABLES
    issued,     \* <<e, a, stamp>> for every stamp issued
    held        \* held[s][e]: the sync info of e at server s

lwwVars == <<issued, held>>

LwwInit ==
    /\ issued = {}
    /\ held = [s \in Server |-> [e \in Entity |-> NoInfo]]

\* Every attribute keeps its stamp or gets a newer one.
Advances(old, new) ==
    \A a \in Attr : new[a] = old[a] \/ Accepts(old[a], new[a])

\* Server s issues new stamps for some attributes of e, none of them used before.
Issue(s, e) ==
    \E new \in Info :
        LET fresh == {<<e, a, new[a]>> : a \in {b \in Attr : new[b] # held[s][e][b]}} IN
        /\ Advances(held[s][e], new)
        /\ \A w \in fresh :
              /\ w[3].id = s
              /\ \A x \in issued : x[1] = e /\ x[2] = w[2] /\ x[3].id = s => x[3].ts # w[3].ts
        /\ held' = [held EXCEPT ![s][e] = new]
        /\ issued' = issued \cup fresh

\* Server s learns stamps for e that have been issued.
Learn(s, e) ==
    \E new \in Info :
        /\ Advances(held[s][e], new)
        /\ \A a \in Attr : new[a] # held[s][e][a] => <<e, a, new[a]>> \in issued
        /\ held' = [held EXCEPT ![s][e] = new]
        /\ UNCHANGED issued

\* Entity e is gone from server s.
Forget(s, e) ==
    /\ held' = [held EXCEPT ![s][e] = NoInfo]
    /\ UNCHANGED issued

LwwNext == \E s \in Server, e \in Entity : Issue(s, e) \/ Learn(s, e) \/ Forget(s, e)

LwwSpec == LwwInit /\ [][LwwNext]_lwwVars

=============================================================================
