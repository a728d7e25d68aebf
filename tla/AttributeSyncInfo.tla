------------------------- MODULE AttributeSyncInfo -------------------------
(***************************************************************************)
(* The stamp that the ServerSync plugin keeps with every synchronised      *)
(* attribute, and the rule that decides which of two stamps wins           *)
(* (Plugins/ServerSync/SyncObjects/AttributeSyncInfo.cs).                  *)
(*                                                                         *)
(* A server is identified by the rank of its SyncID in the order of the    *)
(* GUID strings (string.CompareTo), which is all that Sync uses of it.     *)
(***************************************************************************)
EXTENDS Integers

CONSTANTS
    Server,     \* the sync nodes, as ranks of their SyncIDs
    Attr,       \* attributes, each standing for a pair of component and attribute name
    Value,      \* attribute values
    MaxTime,    \* bound: the last tick any clock shows
    NoStamp     \* "no sync info for this attribute yet"

Time == 0 .. MaxTime

\* The fields LastTimestamp, LastSyncID and LastValue.
Stamp == [ts : Time, id : Server, value : Value]

ASSUME StampAssumption ==
    /\ Server \subseteq Nat
    /\ MaxTime \in Nat
    /\ NoStamp \notin Stamp

\* A ComponentSyncInfo / EntitySyncInfo dictionary: the attributes it has no entry for are NoStamp.
Info == [Attr -> Stamp \cup {NoStamp}]

NoInfo == [a \in Attr |-> NoStamp]

\* Sync takes the remote stamp over the local one: the later tick wins, the larger SyncID breaks a tie.
Newer(remote, local) ==
    \/ remote.ts > local.ts
    \/ remote.ts = local.ts /\ remote.id > local.id

\* An attribute seen for the first time is taken as it comes, any other goes through Sync.
Accepts(local, remote) ==
    remote # NoStamp /\ (local = NoStamp \/ Newer(remote, local))

\* Mutant: whatever arrives last is taken.
MergedLastArrived(local, remote) ==
    [a \in Attr |-> IF remote[a] # NoStamp THEN remote[a] ELSE local[a]]

\* The sync info of an entity after a set of remote stamps has been processed.
Merged(local, remote) ==
    [a \in Attr |-> IF Accepts(local[a], remote[a]) THEN remote[a] ELSE local[a]]

=============================================================================
