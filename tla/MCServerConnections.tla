------------------------ MODULE MCServerConnections ------------------------
(***************************************************************************)
(* Instances of ServerConnections: a server that dials another one and, to *)
(* look at relaying, a line of three of which the first two are linked.    *)
(***************************************************************************)
EXTENDS ServerConnections

CONSTANTS A, B, C,  \* servers
          c1, c2    \* components

Link(s, t) == [dials |-> s, listens |-> t]

PairLinks == {Link(A, B)}
PairDefined == (A :> {} @@ B :> {c1})
PairRegistering == (A :> {c2} @@ B :> {})
NoRegistering == [s \in {A, B} |-> {}]
NoChanges == [s \in {A, B} |-> 0]
OneChange == (A :> 1 @@ B :> 0)
TwoChanges == (A :> 2 @@ B :> 0)

LineLinks == {Link(A, B), Link(B, C)}
LineLinked == {Link(A, B)}
LineDefined == [s \in {A, B, C} |-> {}]
LineChanges == [s \in {A, B, C} |-> 0]
LineRegistering == (A :> {c1} @@ B :> {} @@ C :> {})
=============================================================================
