------------------------ MODULE MCKeyframeAnimations ------------------------
(***************************************************************************)
(* Two entities, one of which has two animations; animations that start at *)
(* frame 0, one of them endless and one that stands still, and, for the    *)
(* range of frames, one that starts later.                                 *)
(***************************************************************************)
EXTENDS KeyframeAnimations

Playback(start, end, cycles, speed) ==
    [start |-> start, end |-> end, cycles |-> cycles, speed |-> speed]

FromZero == {Playback(0, 2, 2, 1), Playback(0, 3, -1, 2), Playback(0, 2, 1, 0)}
FromLater == {Playback(4, 6, 6, 1)}
=============================================================================
