------------------------- MODULE KeyframeAnimations -------------------------
(***************************************************************************)
(* Server-side keyframe animations (Plugins/KeyframeAnimation, driven by   *)
(* Plugins/EventLoop). The thread of the event loop advances all running   *)
(* animations under the lock of the manager, and stops the finished ones   *)
(* afterwards, by name, each under the lock again. Clients and scripts     *)
(* start and stop animations, and entities are removed, on other threads.  *)
(* A tick that throws ends the thread of the event loop.                   *)
(*                                                                         *)
(* Frames, speeds and the durations of ticks (Steps) are whole numbers. A  *)
(* speed may be zero or negative, as any caller may choose. Ranges are not *)
(* empty: dividing by an empty one gives values that are no frames.        *)
(***************************************************************************)
EXTENDS Integers, FiniteSets, Functions

CONSTANTS Entities, Names,
          Animations,  \* [start, end, cycles, speed]: what may be started; cycles -1 never end
          Steps,       \* how long a tick may take: the frames it advances at speed 1
          MaxStarts    \* how many animations are started (a bound)

ASSUME AnimationsAssumption ==
    /\ Animations \subseteq [start : Nat, end : Nat, cycles : Nat \cup {-1}, speed : Int]
    /\ \A k \in Animations : k.start < k.end
    /\ Steps \subseteq Nat \ {0} /\ Steps # {}
    /\ MaxStarts \in Nat

VARIABLES world,     \* the entities of the World
          running,   \* RunningAnimationsForEntities, keyed by entity and name
          finished,  \* FinishedAnimations
          stopping,  \* what the foreach over FinishedAnimations has yet to stop
          loop,      \* the thread of the event loop: "waiting", "finalizing" or "dead"
          starts,    \* how many animations have been started
          restarted  \* history: animations that were started since the last tick

vars == <<world, running, finished, stopping, loop, starts, restarted>>

Keys == Entities \X Names
Playbacks == [def : Animations, frame : Int, cycle : Nat, played : Int]

TypeOK ==
    /\ world \subseteq Entities
    /\ DOMAIN running \subseteq Keys
    /\ \A k \in DOMAIN running : running[k] \in Playbacks
    /\ finished \subseteq Keys /\ stopping \subseteq Keys
    /\ loop \in {"waiting", "finalizing", "dead"}
    /\ starts \in 0 .. MaxStarts
    /\ restarted \subseteq Keys

Init ==
    /\ world = Entities
    /\ running = <<>>
    /\ finished = {}
    /\ stopping = {}
    /\ loop = "waiting"
    /\ starts = 0
    /\ restarted = {}

RangeOf(a) == a.def.end - a.def.start
Finite(a) == a.def.cycles # -1

(***************************************************************************)
(* KeyframeAnimation.Tick. played counts the frames since the start, of a  *)
(* finite animation.                                                       *)
(***************************************************************************)

\* Mutant: an animation begins each cycle at its first frame.
AdvanceFromStart(a, n) ==
    LET f == a.frame + a.def.speed * n
        c == IF f > a.def.end /\ Finite(a) THEN a.cycle + f \div RangeOf(a) ELSE a.cycle
    IN  [a EXCEPT !.frame = IF f <= a.def.end THEN f
                            ELSE IF Finite(a) /\ c > a.def.cycles THEN a.def.end
                            ELSE a.def.start,
                  !.cycle = c,
                  !.played = IF Finite(a) THEN @ + a.def.speed * n ELSE 0]

\* Mutant: the new frame is computed for the clients, and not kept in CurrentFrame.
AdvanceForgets(a, n) == a

Advance(a, n) ==
    LET f == a.frame + a.def.speed * n
        c == IF f > a.def.end /\ Finite(a) THEN a.cycle + f \div RangeOf(a) ELSE a.cycle
    IN  [a EXCEPT !.frame = IF f <= a.def.end THEN f
                            ELSE IF Finite(a) /\ c > a.def.cycles THEN a.def.end
                            ELSE (a.def.start + (f - a.def.end)) % RangeOf(a),
                  !.cycle = c,
                  !.played = IF Finite(a) THEN @ + a.def.speed * n ELSE 0]

\* All cycles have been played.
Over(a) == Finite(a) /\ a.cycle > a.def.cycles

\* Tick returns false.
Finishes(a, n) == a.frame + a.def.speed * n > a.def.end /\ Over(Advance(a, n))

(***************************************************************************)
(* The threads.                                                            *)
(***************************************************************************)

StartAnimation(k, def) ==
    /\ starts < MaxStarts
    /\ starts' = starts + 1
    /\ running' = [x \in DOMAIN running \cup {k} |->
                     IF x = k THEN [def |-> def, frame |-> def.start, cycle |-> 1, played |-> 0]
                     ELSE running[x]]
    /\ restarted' = restarted \cup {k}
    /\ UNCHANGED <<world, finished, stopping, loop>>

StopAnimation(k) ==
    /\ k \in DOMAIN running
    /\ running' = Restrict(running, DOMAIN running \ {k})
    /\ UNCHANGED <<world, finished, stopping, loop, starts, restarted>>

\* The manager is not told.
RemoveEntity(e) ==
    /\ e \in world
    /\ world' = world \ {e}
    /\ UNCHANGED <<running, finished, stopping, loop, starts, restarted>>

\* HandleEventTick, for the animations of the entities E.
TickFor(E, n) ==
    /\ running' = [k \in DOMAIN running |->
                     IF k[1] \in E THEN Advance(running[k], n) ELSE running[k]]
    /\ finished' = finished \cup {k \in DOMAIN running : k[1] \in E /\ Finishes(running[k], n)}
    /\ restarted' = {}

Animated == {k[1] : k \in DOMAIN running}

Tick(n) ==
    /\ loop = "waiting"
    /\ Animated \subseteq world
    /\ TickFor(Animated, n)
    /\ stopping' = finished'
    /\ loop' = "finalizing"
    /\ UNCHANGED <<world, starts>>

\* FindEntity throws for an entity that was removed while it is animated.
TickThrows(n) ==
    /\ loop = "waiting"
    /\ \E e \in Animated \ world, E \in SUBSET (Animated \cap world) : TickFor(E \cup {e}, n)
    /\ loop' = "dead"
    /\ UNCHANGED <<world, stopping, starts>>

\* FinalizeFinishedAnimations, one call of StopAnimation.
Finalize(k) ==
    /\ loop = "finalizing" /\ k \in stopping
    /\ stopping' = stopping \ {k}
    /\ running' = Restrict(running, DOMAIN running \ {k})
    /\ UNCHANGED <<world, finished, loop, starts, restarted>>

\* Mutant: FinishedAnimations is never cleared.
EndTickKeepsList ==
    /\ loop = "finalizing" /\ stopping = {}
    /\ loop' = "waiting"
    /\ UNCHANGED <<world, running, finished, stopping, starts, restarted>>

\* FinishedAnimations.Clear
EndTick ==
    /\ loop = "finalizing" /\ stopping = {}
    /\ finished' = {}
    /\ loop' = "waiting"
    /\ UNCHANGED <<world, running, stopping, starts, restarted>>

EventLoopThread ==
    \/ \E n \in Steps : Tick(n) \/ TickThrows(n)
    \/ \E k \in Keys : Finalize(k)
    \/ EndTick

Next ==
    \/ \E k \in Keys : StopAnimation(k) \/ \E def \in Animations : StartAnimation(k, def)
    \/ \E e \in Entities : RemoveEntity(e)
    \/ EventLoopThread

\* The event loop is a while (true).
Spec == Init /\ [][Next]_vars /\ WF_vars(EventLoopThread)

(***************************************************************************)
(* Properties.                                                             *)
(***************************************************************************)

\* The frame and the cycle of an animation that starts at frame 0 are where the
\* time since its start has brought it, whatever the durations of the ticks: no
\* frame is lost when a cycle ends, or when a tick is longer than a cycle.
FramesFollowTime ==
    \A k \in DOMAIN running :
        LET a == running[k]
        IN  a.def.start = 0 /\ Finite(a) /\ ~Over(a)
              => a.played = (a.cycle - 1) * RangeOf(a) + a.frame

\* The start and end of a playback are the "Keyframe at which animation playback
\* should start" and "should end": the frames in between are shown, and no other.
FramesInRange ==
    \A k \in DOMAIN running :
        running[k].frame \in running[k].def.start .. running[k].def.end

\* What FinalizeFinishedAnimations stops has been played to its end, in all its
\* cycles, if it starts at frame 0. Excepted is an animation that was started
\* again after the tick: it is stopped too, because it has the same name.
FinishedArePlayed ==
    [][\A k \in stopping \ stopping' :
          k \in DOMAIN running \ restarted /\ running[k].def.start = 0
            => running[k].played >= running[k].def.cycles * RangeOf(running[k])]_vars

\* An animation that starts at frame 0 has been played as far as its frame and its
\* cycle say, and in all its cycles when it is over and runs forward.
PlayedFits(a) ==
    /\ a.frame <= a.def.end
    /\ Finite(a) /\ a.def.start = 0 =>
          /\ ~Over(a) => a.played = (a.cycle - 1) * RangeOf(a) + a.frame
          /\ Over(a) /\ a.def.speed > 0 => a.played >= a.def.cycles * RangeOf(a)

\* The inductive invariant of KeyframeAnimationsProofs. What is on the list of finished
\* animations is over, unless it was started again; the list is empty between two ticks.
Inductive ==
    /\ TypeOK
    /\ \A k \in DOMAIN running : PlayedFits(running[k])
    /\ \A k \in (finished \cap DOMAIN running) \ restarted :
          Over(running[k]) /\ running[k].def.speed > 0
    /\ stopping \subseteq finished /\ (loop = "waiting" => finished = {})

Plays(k) == k \in DOMAIN running /\ Finite(running[k])

\* An animation with a last cycle that runs forward does not play for ever, unless an
\* entity is removed while it is animated and the event loop has died of it.
AnimationsEnd ==
    \A k \in Keys :
        (Plays(k) /\ running[k].def.speed > 0)
            ~> (loop = "dead" \/ ~(Plays(k) /\ running[k].def.speed > 0))

\* An animation with a last cycle ends, whatever its speed: it does not when the speed is
\* zero or negative, which StartServersideAnimation accepts.
EndAtAnySpeed == \A k \in Keys : Plays(k) ~> (loop = "dead" \/ ~Plays(k))

\* The event loop goes on: it does not after the removal of an entity that is animated.
LoopSurvives == loop # "dead"
=============================================================================
