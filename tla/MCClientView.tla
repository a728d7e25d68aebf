--------------------------- MODULE MCClientView ---------------------------
(***************************************************************************)
(* An instance of ClientView: two entities that share a mesh, one of which *)
(* is also a light, and one that has no mesh component.                    *)
(***************************************************************************)
EXTENDS ClientView, TLC

CONSTANTS g1, g2, g3, uri

MCGuids == {g1, g2, g3}
MCMesh == g1 :> uri @@ g2 :> uri @@ g3 :> NoMesh
=============================================================================
