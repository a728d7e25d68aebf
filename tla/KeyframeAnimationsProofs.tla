---------------------- MODULE KeyframeAnimationsProofs ----------------------
(* Proofs about KeyframeAnimations, for any animations, any speeds and any     *)
(* durations of the ticks, and any number of entities and of starts.           *)
EXTENDS KeyframeAnimations, TLAPS

(***************************************************************************)
(* Whole and broken cycles.                                                *)
(***************************************************************************)

\* A number of frames consists of whole cycles of r frames and a rest.
LEMMA WholeCycles ==
    ASSUME NEW f \in Nat, NEW r \in Nat \ {0}
    PROVE  /\ f \div r \in Nat
           /\ f % r \in 0 .. r - 1
           /\ f = (f \div r) * r + (f % r)
BY SMT

\* Products grow with their factors.
LEMMA ProductsGrow ==
    ASSUME NEW a \in Int, NEW b \in Int, NEW r \in Nat, a <= b
    PROVE  a * r <= b * r
BY SMT

\* What a cycle, or some cycles, more amount to.
LEMMA CyclesMore ==
    ASSUME NEW a \in Int, NEW b \in Int, NEW r \in Int
    PROVE  a * r \in Int /\ b * r \in Int /\ (a + b) * r = a * r + b * r
BY SMT

\* A cycle less leaves the same rest.
LEMMA CycleLess ==
    ASSUME NEW f \in Nat, NEW r \in Nat \ {0}, f >= r
    PROVE  (f - r) % r = f % r
<1> DEFINE p == f \div r
           q == (f - r) \div r
           d == f % r
           e == (f - r) % r
           x == p * r
           y == q * r
<1>1. p \in Nat /\ d \in 0 .. r - 1 /\ f = x + d
    BY WholeCycles
<1>2. q \in Nat /\ e \in 0 .. r - 1 /\ f - r = y + e
    <2>1. f - r \in Nat
        OBVIOUS
    <2> QED BY <2>1, WholeCycles
<1> HIDE DEF p, q, d, e
<1>3. x \in Int /\ y \in Int
    BY <1>1, <1>2, CyclesMore
<1>4. (q + 1) * r = y + r
    <2>1. 1 * r = r
        BY SMT
    <2> QED BY <2>1, <1>2, CyclesMore
<1>5. (q + 2) * r = y + r + r
    <2>1. 2 * r = r + r
        BY SMT
    <2> QED BY <2>1, <1>2, CyclesMore
<1>6. p <= q => x <= y
    BY <1>1, <1>2, ProductsGrow
<1>7. q + 2 <= p => (q + 2) * r <= x
    <2>1. q + 2 \in Int
        BY <1>2
    <2> QED BY <2>1, <1>1, ProductsGrow
<1>8. p = q + 1 => x = y + r
    BY <1>4
<1> HIDE DEF x, y
<1>9. ~(p <= q)
    BY <1>1, <1>2, <1>3, <1>6
<1>10. ~(q + 2 <= p)
    BY <1>1, <1>2, <1>3, <1>5, <1>7
<1>11. x = y + r
    BY <1>1, <1>2, <1>8, <1>9, <1>10
<1> QED BY <1>1, <1>2, <1>3, <1>11 DEF d, e

\* Frames that are counted as cycles and f more: they are as many when the whole cycles in
\* f are counted too, and at least those of the cycles that have ended.
LEMMA FramesCounted ==
    ASSUME NEW r \in Nat \ {0}, NEW cycle \in Nat, NEW f \in Nat,
           NEW played \in Int, played = (cycle - 1) * r + f
    PROVE  LET q == f \div r
           IN  /\ played = (cycle + q - 1) * r + (f % r)
               /\ \A c \in Int : c <= cycle + q - 1 => c * r <= played
<1> DEFINE q == f \div r
           d == f % r
           x == (cycle - 1) * r
           y == q * r
           z == (cycle + q - 1) * r
<1>1. q \in Nat /\ d \in 0 .. r - 1 /\ f = y + d
    BY WholeCycles
<1> HIDE DEF q, d
<1>2. x \in Int /\ y \in Int /\ z = x + y
    <2>1. cycle - 1 \in Int /\ cycle + q - 1 = (cycle - 1) + q
        BY <1>1
    <2> QED BY <2>1, <1>1, CyclesMore
<1>3. played = x + f
    OBVIOUS
<1>4. \A c \in Int : c <= cycle + q - 1 => c * r \in Int /\ c * r <= z
    <2>1. cycle + q - 1 \in Int
        BY <1>1
    <2> QED BY <2>1, ProductsGrow, CyclesMore
<1> HIDE DEF x, y, z
<1>5. played = z + d
    BY <1>1, <1>2, <1>3
<1>6. z <= played
    BY <1>1, <1>2, <1>5
<1>7. ASSUME NEW c \in Int, c <= cycle + q - 1
      PROVE  c * r <= played
    <2>1. c * r \in Int /\ c * r <= z
        BY <1>4, <1>7
    <2>2. z \in Int
        BY <1>2
    <2> HIDE DEF z
    <2> QED BY <2>1, <2>2, <1>6
<1> QED BY <1>5, <1>7 DEF q, d, z

(***************************************************************************)
(* One tick of one animation.                                              *)
(***************************************************************************)

\* The fields of a playback, and the range of its frames.
LEMMA PlaybackFields ==
    ASSUME NEW a \in Playbacks
    PROVE  /\ a.def \in Animations
           /\ a.def.start \in Nat /\ a.def.end \in Nat /\ a.def.cycles \in Int
           /\ a.frame \in Int /\ a.cycle \in Nat /\ a.played \in Int
           /\ a.def.speed \in Int /\ a.def.start < a.def.end
           /\ RangeOf(a) \in Nat \ {0} /\ RangeOf(a) <= a.def.end
BY AnimationsAssumption DEF Playbacks, RangeOf

\* How far a tick brings an animation.
LEMMA StepFacts ==
    ASSUME NEW a \in Playbacks, NEW n \in Nat \ {0}
    PROVE  /\ a.def.speed * n \in Int
           /\ a.def.speed > 0 => a.def.speed * n > 0
           /\ a.def.speed <= 0 => a.def.speed * n <= 0
<1>1. a.def.speed \in Int
    BY PlaybackFields
<1>2. a.def.speed * n \in Int /\ 0 * n = 0 /\ 1 * n = n
    BY <1>1, CyclesMore, Z3
<1>3. a.def.speed <= 0 => a.def.speed * n <= 0 * n
    BY <1>1, ProductsGrow
<1>4. a.def.speed > 0 => 1 * n <= a.def.speed * n
    BY <1>1, ProductsGrow
<1> QED BY <1>1, <1>2, <1>3, <1>4

\* What a tick of the duration n makes of a playback: it stays in the same cycle, or
\* comes to a later one.
LEMMA AdvanceAdvances ==
    ASSUME NEW a \in Playbacks, NEW n \in Nat \ {0}
    PROVE  LET b == Advance(a, n)
               f == a.frame + a.def.speed * n
           IN  /\ b \in Playbacks
               /\ b.def = a.def
               /\ b.frame <= a.def.end
               /\ Finite(a) => b.played = a.played + a.def.speed * n
               /\ f <= a.def.end => b.frame = f /\ b.cycle = a.cycle
               /\ f > a.def.end /\ Finite(a) => b.cycle = a.cycle + f \div RangeOf(a)
               /\ f > a.def.end /\ ~Over(b)
                    => b.frame = (a.def.start + (f - a.def.end)) % RangeOf(a)
<1> DEFINE b == Advance(a, n)
           v == a.def.speed * n
           f == a.frame + v
           r == RangeOf(a)
           c == IF f > a.def.end /\ Finite(a) THEN a.cycle + f \div r ELSE a.cycle
           g == IF f <= a.def.end THEN f
                ELSE IF Finite(a) /\ c > a.def.cycles THEN a.def.end
                ELSE (a.def.start + (f - a.def.end)) % r
           p == IF Finite(a) THEN a.played + v ELSE 0
<1>1. /\ a.def \in Animations
      /\ a.def.start \in Nat /\ a.def.end \in Nat /\ a.def.cycles \in Int
      /\ a.frame \in Int /\ a.cycle \in Nat /\ a.played \in Int
      /\ r \in Nat \ {0} /\ r <= a.def.end
    BY PlaybackFields
<1>2. b = [a EXCEPT !.frame = g, !.cycle = c, !.played = p]
    BY DEF Advance
<1>3. b = [def |-> a.def, frame |-> g, cycle |-> c, played |-> p]
    BY <1>2 DEF Playbacks
<1>11. v \in Int
    BY StepFacts
<1> HIDE DEF v
<1>12. f \in Int /\ (f > a.def.end => f \in Nat)
    BY <1>1, <1>11
<1>4. c \in Nat /\ p \in Int
    <2>1. f > a.def.end => f \div r \in Nat
        BY <1>1, <1>12, WholeCycles
    <2> QED BY <2>1, <1>1, <1>11
<1>5. g \in Int /\ g <= a.def.end
    <2>1. f > a.def.end => (a.def.start + (f - a.def.end)) \in Nat
        BY <1>1, <1>12
    <2>2. f > a.def.end => (a.def.start + (f - a.def.end)) % r \in 0 .. r - 1
        BY <2>1, <1>1, WholeCycles
    <2> QED BY <2>2, <1>1, <1>12
<1>6. b \in Playbacks
    BY <1>1, <1>3, <1>4, <1>5 DEF Playbacks
<1>7. b.def = a.def /\ b.frame = g /\ b.cycle = c /\ b.played = p
    BY <1>3
<1>8. Finite(b) = Finite(a) /\ (Over(b) <=> Finite(a) /\ c > a.def.cycles)
    BY <1>7 DEF Finite, Over
<1>9. f <= a.def.end \/ f > a.def.end
    BY <1>1, <1>12
<1>10. ~(f <= a.def.end /\ f > a.def.end)
    BY <1>1, <1>12
<1> QED BY <1>5, <1>6, <1>7, <1>8, <1>9, <1>10 DEF v

\* A tick leaves an animation played as far as its frame and its cycle say.
LEMMA AdvancePlays ==
    ASSUME NEW a \in Playbacks, NEW n \in Nat \ {0}, PlayedFits(a)
    PROVE  PlayedFits(Advance(a, n))
<1> DEFINE b == Advance(a, n)
           v == a.def.speed * n
           f == a.frame + v
           r == RangeOf(a)
           q == f \div r
           m == a.def.cycles * r
<1>13. b.frame <= b.def.end
    BY AdvanceAdvances
<1> SUFFICES ASSUME Finite(b), b.def.start = 0
             PROVE  /\ ~Over(b) => b.played = (b.cycle - 1) * RangeOf(b) + b.frame
                    /\ Over(b) /\ b.def.speed > 0 => b.played >= b.def.cycles * RangeOf(b)
    BY <1>13 DEF PlayedFits
<1>1. /\ a.def.start \in Nat /\ a.def.end \in Nat /\ a.def.cycles \in Int
      /\ a.frame \in Int /\ a.cycle \in Nat /\ a.played \in Int
      /\ r \in Nat \ {0} /\ v \in Int /\ f \in Int
      /\ f > a.def.end => f \in Nat
      /\ a.def.speed > 0 => v > 0
    <2>1. v \in Int /\ (a.def.speed > 0 => v > 0)
        BY StepFacts
    <2> HIDE DEF v
    <2> QED BY <2>1, PlaybackFields
<1>2. /\ b.def = a.def /\ RangeOf(b) = r /\ Finite(a) /\ a.def.start = 0
      /\ b.played = a.played + v
      /\ f <= a.def.end => b.frame = f /\ b.cycle = a.cycle
      /\ f > a.def.end => b.cycle = a.cycle + q
      /\ f > a.def.end /\ ~Over(b) => b.frame = (a.def.start + (f - a.def.end)) % r
    BY AdvanceAdvances DEF RangeOf, Finite
<1>3. /\ Over(a) <=> a.cycle > a.def.cycles
      /\ Over(b) <=> b.cycle > a.def.cycles
    BY <1>2 DEF Over, Finite
<1>4. /\ ~Over(a) => a.played = (a.cycle - 1) * r + a.frame
      /\ Over(a) /\ a.def.speed > 0 => a.played >= m
    BY <1>2 DEF PlayedFits
<1>5. a.def.end = r
    BY <1>1, <1>2 DEF RangeOf
<1>6. f > a.def.end => q \in Nat
    BY <1>1, WholeCycles
<1>7. m \in Int /\ (a.cycle - 1) * r \in Int
    <2>1. a.cycle - 1 \in Int
        BY <1>1
    <2> QED BY <2>1, <1>1, CyclesMore
<1>8. ~Over(a) => a.played + v = (a.cycle - 1) * r + f
    <2> DEFINE x == (a.cycle - 1) * r
    <2>1. x \in Int
        BY <1>7
    <2> HIDE DEF x, v
    <2>2. ~Over(a) => a.played + v = x + f
        BY <2>1, <1>1, <1>4 DEF x
    <2> QED BY <2>2 DEF x, v
<1>14. ~Over(a) /\ f > a.def.end =>
          /\ a.played + v = (a.cycle + q - 1) * r + (f % r)
          /\ a.def.cycles <= a.cycle + q - 1 => m <= a.played + v
    <2> SUFFICES ASSUME ~Over(a), f > a.def.end
                 PROVE  /\ a.played + v = (a.cycle + q - 1) * r + (f % r)
                        /\ a.def.cycles <= a.cycle + q - 1 => m <= a.played + v
        OBVIOUS
    <2>1. a.played + v = (a.cycle - 1) * r + f /\ a.played + v \in Int /\ f \in Nat
        BY <1>1, <1>8
    <2> HIDE DEF r, v, f
    <2>2. /\ a.played + v = (a.cycle + q - 1) * r + (f % r)
          /\ \A c \in Int : c <= a.cycle + q - 1 => c * r <= a.played + v
        BY <2>1, <1>1, FramesCounted
    <2> QED BY <2>2, <1>1
<1> HIDE DEF b, r, q, m, v
<1>9. Over(a) => Over(b) /\ (a.def.speed > 0 => b.played >= m)
    <2>1. Over(a) /\ a.def.speed > 0 => b.played >= m
        BY <1>1, <1>2, <1>4, <1>7
    <2>2. b.cycle = a.cycle \/ (q \in Nat /\ b.cycle = a.cycle + q)
        BY <1>1, <1>2, <1>6
    <2> QED BY <2>1, <2>2, <1>1, <1>3
<1>10. ASSUME ~Over(b) PROVE b.played = (b.cycle - 1) * r + b.frame
    <2>1. ~Over(a)
        BY <1>9, <1>10
    <2>2. CASE f <= a.def.end
        BY <2>1, <2>2, <1>2, <1>8
    <2>3. CASE f > a.def.end
        <3>1. b.frame = (f - r) % r
            BY <1>1, <1>2, <1>5, <1>10, <2>3
        <3>2. b.frame = f % r
            BY <3>1, <1>1, <1>5, <2>3, CycleLess
        <3>3. b.cycle = a.cycle + q
            BY <1>2, <2>3
        <3>4. b.cycle - 1 = a.cycle + q - 1
            BY <3>3, <1>1, <1>6, <2>3
        <3>5. a.played + v = (b.cycle - 1) * r + (f % r)
            BY <3>4, <2>1, <2>3, <1>14
        <3> QED BY <3>2, <3>5, <1>2
    <2> QED BY <2>2, <2>3, <1>1
<1>11. ASSUME Over(b), b.def.speed > 0 PROVE b.played >= m
    <2>1. CASE Over(a)
        BY <2>1, <1>2, <1>9, <1>11
    <2>2. CASE ~Over(a)
        <3>1. b.cycle = a.cycle + q /\ f > a.def.end
            BY <2>2, <1>1, <1>2, <1>3, <1>11
        <3>2. a.def.cycles <= a.cycle + q - 1
            BY <3>1, <1>1, <1>3, <1>6, <1>11
        <3> QED BY <3>1, <3>2, <2>2, <1>1, <1>2, <1>7, <1>14
    <2> QED BY <2>1, <2>2
<1> QED BY <1>2, <1>10, <1>11 DEF m

\* Only an animation that runs forward is finished by a tick.
LEMMA FinishesForward ==
    ASSUME NEW a \in Playbacks, NEW n \in Nat \ {0}, PlayedFits(a), Finishes(a, n)
    PROVE  Over(Advance(a, n)) /\ Advance(a, n).def.speed > 0
<1> DEFINE v == a.def.speed * n
<1>1. v \in Int /\ (a.def.speed <= 0 => v <= 0)
    BY StepFacts
<1>2. a.frame + v > a.def.end /\ a.frame <= a.def.end
    BY DEF Finishes, PlayedFits
<1>3. a.frame \in Int /\ a.def.end \in Nat /\ a.def.speed \in Int
    BY PlaybackFields
<1> HIDE DEF v
<1>4. a.def.speed > 0
    BY <1>1, <1>2, <1>3
<1> QED BY <1>4, AdvanceAdvances DEF Finishes

(***************************************************************************)
(* The steps of the threads.                                               *)
(***************************************************************************)

LEMMA InitInductive == Init => Inductive
BY AnimationsAssumption DEF Init, Inductive, TypeOK

\* A new animation has not been played, and is over only if it has no cycles.
LEMMA StartAnimationInductive ==
    ASSUME Inductive, NEW k \in Keys, NEW def \in Animations, StartAnimation(k, def)
    PROVE  Inductive'
<1> DEFINE new == [def |-> def, frame |-> def.start, cycle |-> 1, played |-> 0]
<1>1. def.start \in Nat /\ def.end \in Nat /\ def.cycles \in Int /\ def.start < def.end
    BY AnimationsAssumption
<1>2. /\ DOMAIN running' = DOMAIN running \cup {k}
      /\ running'[k] = new
      /\ \A x \in DOMAIN running \ {k} : running'[x] = running[x]
      /\ restarted' = restarted \cup {k} /\ UNCHANGED <<world, finished, stopping, loop>>
      /\ starts' = starts + 1 /\ starts < MaxStarts
    BY DEF StartAnimation
<1>3. new \in Playbacks
    BY <1>1 DEF Playbacks
<1>4. PlayedFits(new)
    <2>1. new.def = def /\ new.frame = def.start /\ new.cycle = 1 /\ new.played = 0
        OBVIOUS
    <2>2. RangeOf(new) \in Nat
        BY <1>3, PlaybackFields
    <2>3. (1 - 1) * RangeOf(new) = 0
        BY <2>2, Z3
    <2>4. Over(new) => def.cycles <= 0
        BY <1>1, <2>1 DEF Over
    <2>5. Over(new) => def.cycles * RangeOf(new) <= 0 * RangeOf(new)
        BY <2>2, <2>4, <1>1, ProductsGrow
    <2>6. 0 * RangeOf(new) = 0
        BY <2>2, Z3
    <2>7. Over(new) => 0 >= def.cycles * RangeOf(new)
        BY <2>5, <2>6
    <2>8. def.start <= def.end
        BY <1>1
    <2>9. def.start = 0 => 0 = (1 - 1) * RangeOf(new) + def.start
        BY <2>3
    <2> HIDE DEF new
    <2> QED BY <2>1, <2>7, <2>8, <2>9 DEF PlayedFits
<1>5. TypeOK'
    BY <1>2, <1>3, AnimationsAssumption DEF Inductive, TypeOK
<1>6. \A x \in DOMAIN running' : PlayedFits(running'[x])
    BY <1>2, <1>4 DEF Inductive
<1>7. \A x \in (finished' \cap DOMAIN running') \ restarted'  :
          Over(running'[x]) /\ running'[x].def.speed > 0
    BY <1>2 DEF Inductive
<1> QED BY <1>2, <1>5, <1>6, <1>7 DEF Inductive, PlayedFits, Over, Finite, RangeOf

\* Restricting the running animations leaves those that remain as they are.
LEMMA RemainingUnchanged ==
    ASSUME Inductive, NEW S, running' = Restrict(running, DOMAIN running \ S)
    PROVE  /\ DOMAIN running' = DOMAIN running \ S /\ DOMAIN running' \subseteq Keys
           /\ \A x \in DOMAIN running' : running'[x] = running[x] /\ running'[x] \in Playbacks
                                          /\ PlayedFits(running'[x])
BY DEF Restrict, Inductive, TypeOK

LEMMA StopAnimationInductive ==
    ASSUME Inductive, NEW k \in Keys, StopAnimation(k)
    PROVE  Inductive'
<1>1. /\ DOMAIN running' = DOMAIN running \ {k} /\ DOMAIN running' \subseteq Keys
      /\ \A x \in DOMAIN running' : running'[x] = running[x] /\ running'[x] \in Playbacks
                                     /\ PlayedFits(running'[x])
    BY RemainingUnchanged DEF StopAnimation
<1>2. UNCHANGED <<world, finished, stopping, loop, starts, restarted>>
    BY DEF StopAnimation
<1>3. TypeOK'
    BY <1>1, <1>2 DEF Inductive, TypeOK
<1>4. \A x \in (finished' \cap DOMAIN running') \ restarted'  :
          Over(running'[x]) /\ running'[x].def.speed > 0
    BY <1>1, <1>2 DEF Inductive
<1> QED BY <1>1, <1>2, <1>3, <1>4 DEF Inductive, PlayedFits, Over, Finite, RangeOf

LEMMA RemoveEntityInductive ==
    ASSUME Inductive, NEW e \in Entities, RemoveEntity(e)
    PROVE  Inductive'
<1>1. world' \subseteq world /\ UNCHANGED <<running, finished, stopping, loop, starts, restarted>>
    BY DEF RemoveEntity
<1>2. TypeOK'
    BY <1>1 DEF Inductive, TypeOK
<1> QED BY <1>1, <1>2 DEF Inductive, PlayedFits, Over, Finite, RangeOf

\* A tick, complete or not, puts nothing on the list but what is over.
LEMMA TickInductive ==
    ASSUME Inductive, loop = "waiting", NEW E, NEW n \in Steps, TickFor(E, n),
           loop' \in {"finalizing", "dead"}, stopping' \in {stopping, finished'},
           UNCHANGED <<world, starts>>
    PROVE  Inductive'
<1>1. n \in Nat \ {0}
    BY AnimationsAssumption
<1>2. /\ DOMAIN running' = DOMAIN running
      /\ \A k \in DOMAIN running :
            running'[k] = IF k[1] \in E THEN Advance(running[k], n) ELSE running[k]
      /\ finished' = finished \cup {k \in DOMAIN running : k[1] \in E /\ Finishes(running[k], n)}
      /\ restarted' = {}
    BY DEF TickFor
<1>3. finished = {} /\ stopping = {}
    BY DEF Inductive
<1>4. \A k \in DOMAIN running' : running'[k] \in Playbacks /\ PlayedFits(running'[k])
    <2> SUFFICES ASSUME NEW k \in DOMAIN running
                 PROVE  running'[k] \in Playbacks /\ PlayedFits(running'[k])
        BY <1>2
    <2>1. running[k] \in Playbacks /\ PlayedFits(running[k])
        BY DEF Inductive, TypeOK
    <2>2. Advance(running[k], n) \in Playbacks /\ PlayedFits(Advance(running[k], n))
        BY <1>1, <2>1, AdvanceAdvances, AdvancePlays
    <2> QED BY <1>2, <2>1, <2>2
<1>5. TypeOK'
    BY <1>2, <1>3, <1>4 DEF Inductive, TypeOK
<1>6. \A k \in (finished' \cap DOMAIN running') \ restarted'  :
          Over(running'[k]) /\ running'[k].def.speed > 0
    <2> SUFFICES ASSUME NEW k \in finished', k \in DOMAIN running
                 PROVE  Over(running'[k]) /\ running'[k].def.speed > 0
        BY <1>2
    <2>1. k[1] \in E /\ Finishes(running[k], n) /\ running'[k] = Advance(running[k], n)
        BY <1>2, <1>3
    <2>2. running[k] \in Playbacks /\ PlayedFits(running[k])
        BY DEF Inductive, TypeOK
    <2> QED BY <1>1, <2>1, <2>2, FinishesForward
<1> QED BY <1>4, <1>5, <1>6 DEF Inductive, PlayedFits, Over, Finite, RangeOf

LEMMA FinalizeInductive ==
    ASSUME Inductive, NEW k \in Keys, Finalize(k)
    PROVE  Inductive'
<1>1. /\ DOMAIN running' = DOMAIN running \ {k} /\ DOMAIN running' \subseteq Keys
      /\ \A x \in DOMAIN running' : running'[x] = running[x] /\ running'[x] \in Playbacks
                                     /\ PlayedFits(running'[x])
    BY RemainingUnchanged DEF Finalize
<1>2. /\ stopping' = stopping \ {k} /\ loop = "finalizing"
      /\ UNCHANGED <<world, finished, loop, starts, restarted>>
    BY DEF Finalize
<1>3. TypeOK'
    BY <1>1, <1>2 DEF Inductive, TypeOK
<1>4. \A x \in (finished' \cap DOMAIN running') \ restarted'  :
          Over(running'[x]) /\ running'[x].def.speed > 0
    BY <1>1, <1>2 DEF Inductive
<1> QED BY <1>1, <1>2, <1>3, <1>4 DEF Inductive, PlayedFits, Over, Finite, RangeOf

LEMMA EndTickInductive ==
    ASSUME Inductive, EndTick
    PROVE  Inductive'
<1>1. TypeOK'
    BY DEF EndTick, Inductive, TypeOK
<1> QED BY <1>1 DEF EndTick, Inductive, PlayedFits, Over, Finite, RangeOf

LEMMA NextInductive ==
    ASSUME Inductive, [Next]_vars
    PROVE  Inductive'
<1>1. ASSUME NEW k \in Keys, StopAnimation(k) PROVE Inductive'
    BY <1>1, StopAnimationInductive
<1>2. ASSUME NEW k \in Keys, NEW def \in Animations, StartAnimation(k, def) PROVE Inductive'
    BY <1>2, StartAnimationInductive
<1>3. ASSUME NEW e \in Entities, RemoveEntity(e) PROVE Inductive'
    BY <1>3, RemoveEntityInductive
<1>4. ASSUME NEW n \in Steps, Tick(n) PROVE Inductive'
    BY <1>4, TickInductive DEF Tick
<1>5. ASSUME NEW n \in Steps, TickThrows(n) PROVE Inductive'
    <2>1. PICK e \in Animated \ world, E \in SUBSET (Animated \cap world) : TickFor(E \cup {e}, n)
        BY <1>5 DEF TickThrows
    <2>2. loop = "waiting" /\ loop' = "dead" /\ UNCHANGED <<world, stopping, starts>>
        BY <1>5 DEF TickThrows
    <2> QED BY <2>1, <2>2, TickInductive
<1>6. ASSUME NEW k \in Keys, Finalize(k) PROVE Inductive'
    BY <1>6, FinalizeInductive
<1>7. CASE EndTick
    BY <1>7, EndTickInductive
<1>8. CASE UNCHANGED vars
    <2>1. UNCHANGED <<world, running, finished, stopping, loop, starts, restarted>>
        BY <1>8 DEF vars
    <2>2. TypeOK'
        BY <2>1 DEF Inductive, TypeOK
    <2> QED BY <2>1, <2>2 DEF Inductive, PlayedFits, Over, Finite, RangeOf
<1> QED BY <1>1, <1>2, <1>3, <1>4, <1>5, <1>6, <1>7, <1>8 DEF Next, EventLoopThread

(***************************************************************************)
(* The theorems.                                                           *)
(***************************************************************************)

\* The strengthening of the safety properties is an invariant.
THEOREM InductiveInvariant == Spec => []Inductive
<1>1. Init => Inductive
    BY InitInductive
<1>2. Inductive /\ [Next]_vars => Inductive'
    BY NextInductive
<1> QED BY <1>1, <1>2, PTL DEF Spec

\* All variables have their types; frames and cycles stay whole numbers.
THEOREM TypeCorrect == Spec => []TypeOK
<1>1. Inductive => TypeOK
    BY DEF Inductive
<1> QED BY <1>1, InductiveInvariant, PTL

\* The frame and the cycle of an animation that starts at frame 0 are where the time
\* since its start has brought it, for any range and any durations of the ticks.
THEOREM FramesCorrect == Spec => []FramesFollowTime
<1>1. Inductive => FramesFollowTime
    BY DEF Inductive, PlayedFits, FramesFollowTime
<1> QED BY <1>1, InductiveInvariant, PTL

\* FinalizeFinishedAnimations stops nothing that has not been played to its end, except
\* what was started again under the same name since the tick.
THEOREM FinishedPlayed == Spec => FinishedArePlayed
<1> DEFINE Played ==
        \A k \in stopping \ stopping' :
           k \in DOMAIN running \ restarted /\ running[k].def.start = 0
             => running[k].played >= running[k].def.cycles * RangeOf(running[k])
<1>1. ASSUME Inductive PROVE Played
    <2> SUFFICES ASSUME NEW k \in stopping, k \in DOMAIN running \ restarted,
                        running[k].def.start = 0
                 PROVE  running[k].played >= running[k].def.cycles * RangeOf(running[k])
        OBVIOUS
    <2>1. Over(running[k]) /\ running[k].def.speed > 0 /\ PlayedFits(running[k])
        BY <1>1 DEF Inductive
    <2> QED BY <2>1 DEF PlayedFits, Over
<1>2. Inductive => [Played]_vars
    BY <1>1
<1> QED BY <1>2, InductiveInvariant, PTL DEF FinishedArePlayed
=============================================================================
