---------------------------- MODULE MCWorldSync ----------------------------
(* Instances of WorldSync for TLC: three servers in a line, 2 in the middle. *)
EXTENDS WorldSyncConvergence

MCLine == {{1, 2}, {2, 3}}
MCPair == {{1, 2}}

MCOneEntity == {"e"}

\* Every server has every component, and is interested in everything.
MCAllAttrs == [s \in Server |-> Attr]
MCAllEntities == [s \in Server |-> Entity]

\* The server in the middle lacks the component of "y", and server 3 does not want
\* to hear of changes of "x".
MCMiddleLacksY == [s \in Server |-> IF s = 2 THEN Attr \ {"y"} ELSE Attr]
MCNoXAtThree == [s \in Server |-> IF s = 3 THEN Attr \ {"x"} ELSE Attr]

\* The number of links between two servers of the line.
MCDistance == [o \in Server |-> [s \in Server |-> IF o < s THEN s - o ELSE o - s]]

ASSUME MCLineIsTree == TreeDistance(Distance)

=============================================================================
