------------------------ MODULE ClientSessionsProofs ------------------------
(***************************************************************************)
(* Proofs about the session of a web client.                               *)
(***************************************************************************)
EXTENDS ClientSessions, SequenceTheorems, FiniteSetTheorems, WellFoundedInduction, TLAPS

(***************************************************************************)
(* Sequences.                                                              *)
(***************************************************************************)

\* A set of indices that is not empty has a last one.
LEMMA LastOne ==
    ASSUME NEW n \in Nat, NEW S \in SUBSET (0 .. n), S # {}
    PROVE  \E k \in S : \A l \in S : l <= k
<1> DEFINE Above(k) == {l \in S : l > k}
           F == {Above(k) : k \in S}
           R == StrictSubsetOrdering(0 .. n)
<1>1. IsFiniteSet(0 .. n)
    BY FS_Interval
<1>2. IsWellFoundedOn(R, SUBSET (0 .. n))
    BY <1>1, FS_StrictSubsetOrderingWellFounded, FS_FiniteSubsetsOfFinite
<1>3. F \subseteq SUBSET (0 .. n) /\ F # {}
    OBVIOUS
<1>4. \E X \in F : \A Y \in F : ~(<<Y, X>> \in R)
    <2> HIDE DEF F, R
    <2> QED BY <1>2, <1>3, WFMin
<1>5. PICK k \in S : \A Y \in F : ~(<<Y, Above(k)>> \in R)
    BY <1>4
<1>6. ASSUME NEW l \in S, l > k PROVE FALSE
    <2>1. Above(l) \subseteq Above(k) /\ l \in Above(k) /\ l \notin Above(l)
        <3>1. k \in Nat /\ l \in Nat /\ \A x \in S : x \in Nat
            OBVIOUS
        <3>2. \A x \in S : x > l => x > k
            BY <1>6, <3>1
        <3>3. ~(l > l)
            BY <3>1
        <3> QED BY <1>6, <3>2, <3>3
    <2>2. <<Above(l), Above(k)>> \in R
        BY <2>1 DEF StrictSubsetOrdering
    <2> QED BY <1>5, <2>2
<1>7. \A l \in S : l <= k
    BY <1>6
<1> QED BY <1>7

\* What is appended comes last.
LEMMA Appended ==
    ASSUME NEW M, NEW s \in Seq(M), NEW m \in M
    PROVE  LET t == Append(s, m) IN
           \E n \in Nat \ {0} :
               /\ t \in Seq(M) /\ n \in DOMAIN t /\ t[n] = m
               /\ \A i \in DOMAIN s : i \in DOMAIN t /\ t[i] = s[i] /\ i \in Nat /\ i < n
               /\ \A i \in DOMAIN t : i \in DOMAIN s \/ i = n
<1> DEFINE t == Append(s, m)
           a == Len(s)
<1>1. /\ t \in Seq(M) /\ Len(t) = a + 1 /\ t[a + 1] = m
      /\ \A i \in 1 .. a : t[i] = s[i]
    BY AppendProperties
<1>2. a \in Nat /\ DOMAIN s = 1 .. a /\ DOMAIN t = 1 .. a + 1
    BY <1>1, LenProperties
<1> HIDE DEF t, a
<1>3. /\ a + 1 \in Nat \ {0} /\ a + 1 \in 1 .. a + 1
      /\ \A i \in 1 .. a : i \in 1 .. a + 1 /\ i \in Nat /\ i < a + 1
      /\ \A i \in 1 .. a + 1 : i \in 1 .. a \/ i = a + 1
    BY <1>2
<1> QED BY <1>1, <1>2, <1>3 DEF t

\* When the first one is taken the others move up.
LEMMA Taken ==
    ASSUME NEW M, NEW s \in Seq(M), s # <<>>
    PROVE  LET t == Tail(s) IN
           /\ t \in Seq(M) /\ 1 \in DOMAIN s /\ Head(s) = s[1] /\ s[1] \in M
           /\ \A i \in DOMAIN t : i \in Nat \ {0} /\ i + 1 \in DOMAIN s /\ t[i] = s[i + 1]
           /\ \A i \in DOMAIN s : i \in Nat \ {0} /\ (i # 1 => i - 1 \in DOMAIN t /\ t[i - 1] = s[i])
<1> DEFINE t == Tail(s)
           a == Len(s)
<1>1. a \in Nat \ {0} /\ DOMAIN s = 1 .. a
    BY EmptySeq, LenProperties
<1>2. t \in Seq(M) /\ Len(t) = a - 1 /\ Head(s) = s[1]
    BY HeadTailProperties
<1>3. \A i \in 1 .. a - 1 : t[i] = s[i + 1]
    BY <1>2, HeadTailProperties
<1>4. DOMAIN t = 1 .. a - 1
    BY <1>2, LenProperties
<1>5. s[1] \in M
    BY <1>1
<1> HIDE DEF t, a
<1>6. 1 \in 1 .. a
    BY <1>1
<1>7. \A i \in 1 .. a - 1 : i \in Nat \ {0} /\ i + 1 \in 1 .. a
    BY <1>1
<1>8. \A i \in 1 .. a : i \in Nat \ {0} /\ (i # 1 => i - 1 \in 1 .. a - 1 /\ (i - 1) + 1 = i)
    BY <1>1
<1> QED BY <1>1, <1>2, <1>3, <1>4, <1>5, <1>6, <1>7, <1>8 DEF t

(***************************************************************************)
(* Maps and messages.                                                      *)
(***************************************************************************)

\* Maps are the functions of some entities to values.
LEMMA MapFacts ==
    ASSUME NEW f
    PROVE  f \in Maps <=> DOMAIN f \subseteq Entities /\ f \in [DOMAIN f -> Values]
BY DEF Maps

\* The empty map.
LEMMA EmptyMap ==
    Empty \in Maps /\ DOMAIN Empty = {}
<1>1. PICK f \in Seq(Values) : f = Empty
    <2>1. <<>> \in Seq(Values)
        BY EmptySeq
    <2> QED BY <2>1 DEF Empty
<1>2. DOMAIN f = {} /\ f \in [{} -> Values]
    <2>1. Len(f) = 0 /\ f \in [1 .. Len(f) -> Values] /\ DOMAIN f = 1 .. Len(f)
        BY <1>1, EmptySeq, LenProperties DEF Empty
    <2>2. 1 .. 0 = {}
        OBVIOUS
    <2> QED BY <2>1, <2>2
<1>3. f \in Maps
    BY <1>2, MapFacts
<1> QED BY <1>1, <1>2, <1>3

\* An entity is put into a map.
LEMMA PutIn ==
    ASSUME NEW f \in Maps, NEW e \in Entities, NEW v \in Values
    PROVE  /\ With(f, e, v) \in Maps /\ DOMAIN With(f, e, v) = DOMAIN f \cup {e}
           /\ With(f, e, v)[e] = v
           /\ \A x \in DOMAIN f : x # e => With(f, e, v)[x] = f[x]
<1>1. DOMAIN f \subseteq Entities /\ f \in [DOMAIN f -> Values]
    BY MapFacts
<1>2. /\ DOMAIN With(f, e, v) = DOMAIN f \cup {e} /\ With(f, e, v)[e] = v
      /\ \A x \in DOMAIN f : x # e => With(f, e, v)[x] = f[x]
      /\ With(f, e, v) \in [DOMAIN f \cup {e} -> Values]
    BY <1>1 DEF With
<1> QED BY <1>1, <1>2, MapFacts

\* An entity is taken out of a map.
LEMMA TakenOut ==
    ASSUME NEW f \in Maps, NEW e \in Entities
    PROVE  /\ Without(f, e) \in Maps /\ DOMAIN Without(f, e) = DOMAIN f \ {e}
           /\ \A x \in DOMAIN f : x # e => Without(f, e)[x] = f[x]
<1>1. DOMAIN f \subseteq Entities /\ f \in [DOMAIN f -> Values]
    BY MapFacts
<1>2. /\ DOMAIN Without(f, e) = DOMAIN f \ {e}
      /\ \A x \in DOMAIN f : x # e => Without(f, e)[x] = f[x]
      /\ Without(f, e) \in [DOMAIN f \ {e} -> Values]
    BY <1>1 DEF Without, Restrict
<1> QED BY <1>1, <1>2, MapFacts

\* The fields of a message, by its type.
LEMMA MessageFacts ==
    ASSUME NEW m \in Messages
    PROVE  /\ m.type \in {"granted", "refused", "loggedIn", "exception", "removed", "new", "updates", "objects"}
           /\ m.type = "removed" => m.entity \in Entities
           /\ m.type = "new" => m.entity \in Entities /\ m.value \in Values
           /\ m.type = "updates" => m.updates \in Seq(Updates)
           /\ m.type = "objects" => m.infos \in Maps
<1> USE DEF Messages
<1>1. CASE m \in [type : {"granted", "refused", "loggedIn", "exception"}]
    BY <1>1
<1>2. CASE m \in [type : {"removed"}, entity : Entities]
    BY <1>2
<1>3. CASE m \in [type : {"new"}, entity : Entities, value : Values]
    BY <1>3
<1>4. CASE m \in [type : {"updates"}, updates : Seq(Updates)]
    BY <1>4
<1>5. CASE m \in [type : {"objects"}, infos : Maps]
    BY <1>5
<1> QED BY <1>1, <1>2, <1>3, <1>4, <1>5

\* The answers on their way, when a message is sent.
LEMMA AnswersSent ==
    ASSUME NEW s \in Seq(Messages), NEW m \in Messages, NEW types
    PROVE  LET t == Append(s, m) IN
           /\ ~IsAnswer(m) /\ NoAnswer(s) => NoAnswer(t)
           /\ ~IsAnswer(m) /\ OneAnswer(s, types) => OneAnswer(t, types)
           /\ m.type \in types /\ NoAnswer(s) => OneAnswer(t, types)
<1>1. PICK t : t = Append(s, m)
    OBVIOUS
<1>2. PICK n \in Nat \ {0} :
          /\ t \in Seq(Messages) /\ n \in DOMAIN t /\ t[n] = m
          /\ \A i \in DOMAIN s : i \in DOMAIN t /\ t[i] = s[i] /\ i \in Nat /\ i < n
          /\ \A i \in DOMAIN t : i \in DOMAIN s \/ i = n
    BY <1>1, Appended
<1>3. ~IsAnswer(m) /\ NoAnswer(s) => NoAnswer(t)
    BY <1>2 DEF NoAnswer
<1>4. ASSUME ~IsAnswer(m), OneAnswer(s, types) PROVE OneAnswer(t, types)
    <2>1. PICK i \in DOMAIN s : s[i].type \in types /\ \A j \in DOMAIN s : IsAnswer(s[j]) => j = i
        BY <1>4 DEF OneAnswer
    <2>2. i \in DOMAIN t /\ t[i].type \in types /\ \A j \in DOMAIN t : IsAnswer(t[j]) => j = i
        BY <1>2, <1>4, <2>1
    <2> QED BY <2>2 DEF OneAnswer
<1>5. ASSUME m.type \in types, NoAnswer(s) PROVE OneAnswer(t, types)
    <2>1. n \in DOMAIN t /\ t[n].type \in types /\ \A j \in DOMAIN t : IsAnswer(t[j]) => j = n
        BY <1>2, <1>5 DEF NoAnswer
    <2> QED BY <2>1 DEF OneAnswer
<1> QED BY <1>1, <1>3, <1>4, <1>5

\* The answers on their way, when the first message is taken.
LEMMA AnswersTaken ==
    ASSUME NEW s \in Seq(Messages), s # <<>>,
           NEW types \in SUBSET {"granted", "refused", "loggedIn", "exception", "objects"}
    PROVE  LET t == Tail(s) IN
           /\ NoAnswer(s) => NoAnswer(t) /\ ~IsAnswer(s[1])
           /\ OneAnswer(s, types) /\ ~IsAnswer(s[1]) => OneAnswer(t, types)
           /\ OneAnswer(s, types) /\ IsAnswer(s[1]) => NoAnswer(t) /\ s[1].type \in types
<1>1. PICK t : t = Tail(s)
    OBVIOUS
<1>2. /\ t \in Seq(Messages) /\ 1 \in DOMAIN s
      /\ \A i \in DOMAIN t : i \in Nat \ {0} /\ i + 1 \in DOMAIN s /\ t[i] = s[i + 1]
      /\ \A i \in DOMAIN s : i \in Nat \ {0} /\ (i # 1 => i - 1 \in DOMAIN t /\ t[i - 1] = s[i])
    BY <1>1, Taken
<1>3. NoAnswer(s) => NoAnswer(t) /\ ~IsAnswer(s[1])
    BY <1>2 DEF NoAnswer
<1>4. ASSUME OneAnswer(s, types)
      PROVE  /\ ~IsAnswer(s[1]) => OneAnswer(t, types)
             /\ IsAnswer(s[1]) => NoAnswer(t) /\ s[1].type \in types
    <2>1. PICK i \in DOMAIN s : s[i].type \in types /\ \A j \in DOMAIN s : IsAnswer(s[j]) => j = i
        BY <1>4 DEF OneAnswer
    <2>2. ASSUME i # 1 PROVE OneAnswer(t, types)
        <3>1. i - 1 \in DOMAIN t /\ t[i - 1] = s[i] /\ i \in Nat
            BY <1>2, <2>2
        <3>2. ASSUME NEW j \in DOMAIN t, IsAnswer(t[j]) PROVE j = i - 1
            <4>1. j + 1 = i /\ j \in Nat
                BY <1>2, <2>1, <3>2
            <4> QED BY <3>1, <4>1
        <3> QED BY <2>1, <3>1, <3>2 DEF OneAnswer
    <2>3. ASSUME IsAnswer(s[1]) PROVE NoAnswer(t) /\ s[1].type \in types
        <3>1. i = 1
            BY <1>2, <2>1, <2>3
        <3>2. \A j \in DOMAIN t : ~IsAnswer(t[j])
            <4> SUFFICES ASSUME NEW j \in DOMAIN t, IsAnswer(t[j]) PROVE FALSE
                OBVIOUS
            <4>1. j + 1 = 1 /\ j \in Nat \ {0}
                BY <1>2, <2>1, <3>1
            <4> QED BY <4>1
        <3> QED BY <2>1, <3>1, <3>2 DEF NoAnswer
    <2>4. IsAnswer(s[i])
        BY <2>1 DEF IsAnswer
    <2> QED BY <2>2, <2>3, <2>4
<1> QED BY <1>1, <1>3, <1>4

\* The last message that tells of an entity, when one is sent.
LEMMA SaysSent ==
    ASSUME NEW s \in Seq(Messages), NEW m \in Messages, NEW e, NEW v,
           Tells(m, e) => Says(m, e, v), LastSays(s, e, v) \/ Tells(m, e)
    PROVE  LastSays(Append(s, m), e, v)
<1>1. PICK t : t = Append(s, m)
    OBVIOUS
<1>2. PICK n \in Nat \ {0} :
          /\ t \in Seq(Messages) /\ n \in DOMAIN t /\ t[n] = m
          /\ \A i \in DOMAIN s : i \in DOMAIN t /\ t[i] = s[i] /\ i \in Nat /\ i < n
          /\ \A i \in DOMAIN t : i \in DOMAIN s \/ i = n
    BY <1>1, Appended
<1> SUFFICES ASSUME NEW i \in DOMAIN t, Tells(t[i], e), \A j \in DOMAIN t : j > i => ~Tells(t[j], e)
             PROVE  Says(t[i], e, v)
    BY <1>1 DEF LastSays
<1>3. CASE i = n
    BY <1>2, <1>3
<1>4. CASE i # n
    <2>1. i \in DOMAIN s /\ t[i] = s[i] /\ n > i
        BY <1>2, <1>4
    <2>2. LastSays(s, e, v)
        BY <1>2, <2>1
    <2>3. \A j \in DOMAIN s : j > i => ~Tells(s[j], e)
        BY <1>2
    <2> QED BY <2>1, <2>2, <2>3 DEF LastSays
<1> QED BY <1>3, <1>4

\* The last message that tells of an entity, when the first one is taken.
LEMMA SaysTaken ==
    ASSUME NEW s \in Seq(Messages), s # <<>>, NEW e, NEW v, LastSays(s, e, v)
    PROVE  /\ LastSays(Tail(s), e, v)
           /\ Tells(s[1], e) /\ (\A i \in DOMAIN Tail(s) : ~Tells(Tail(s)[i], e)) => Says(s[1], e, v)
<1>1. PICK t : t = Tail(s)
    OBVIOUS
<1>2. /\ t \in Seq(Messages) /\ 1 \in DOMAIN s
      /\ \A i \in DOMAIN t : i \in Nat \ {0} /\ i + 1 \in DOMAIN s /\ t[i] = s[i + 1]
      /\ \A i \in DOMAIN s : i \in Nat \ {0} /\ (i # 1 => i - 1 \in DOMAIN t /\ t[i - 1] = s[i])
    BY <1>1, Taken
<1>3. ASSUME NEW i \in DOMAIN t, Tells(t[i], e), \A j \in DOMAIN t : j > i => ~Tells(t[j], e)
      PROVE  Says(t[i], e, v)
    <2>1. i + 1 \in DOMAIN s /\ t[i] = s[i + 1] /\ i \in Nat \ {0}
        BY <1>2
    <2>2. ASSUME NEW j \in DOMAIN s, j > i + 1 PROVE ~Tells(s[j], e)
        <3>1. j \in Nat /\ j # 1 /\ j - 1 > i
            BY <1>2, <2>1, <2>2
        <3> QED BY <1>2, <1>3, <3>1
    <2> QED BY <1>3, <2>1, <2>2 DEF LastSays
<1>4. ASSUME Tells(s[1], e), \A i \in DOMAIN t : ~Tells(t[i], e) PROVE Says(s[1], e, v)
    <2>1. ASSUME NEW j \in DOMAIN s, j > 1 PROVE ~Tells(s[j], e)
        <3>1. j - 1 \in DOMAIN t /\ t[j - 1] = s[j]
            BY <1>2, <2>1
        <3> QED BY <1>4, <3>1
    <2> QED BY <1>2, <1>4, <2>1 DEF LastSays
<1> QED BY <1>1, <1>3, <1>4 DEF LastSays

(***************************************************************************)
(* What keeps the parts of the invariant that are about one entity.        *)
(***************************************************************************)

\* Before the services have been granted there is nothing to forget or to learn.
LEMMA EarlyKept ==
    ASSUME phase \notin {"listing", "ready"}, phase = "services" => NoAnswer(inbox), DOMAIN known = {},
           NEW e
    PROVE  Forgets(e) /\ Learns(e)
<1>1. ~Listens /\ ~Listed
    BY DEF Listens, Listed
<1>2. \A i : ~Heard(i)
    BY <1>1 DEF Heard, NoAnswer, IsAnswer
<1> QED BY <1>1, <1>2 DEF Forgets, Learns

\* An entity is forgotten when other messages are sent, or it is taken away.
LEMMA ForgetsSent ==
    ASSUME inbox \in Seq(Messages), NEW m \in Messages, inbox' = Append(inbox, m),
           phase' = phase, known' = known, NEW e,
           e \notin DOMAIN world' \cup removing' =>
               Removes(m, e) \/ (Forgets(e) /\ e \notin DOMAIN world \cup removing /\ ~Shows(m, e))
    PROVE  Forgets(e)'
<1>1. PICK n \in Nat \ {0} :
          /\ inbox' \in Seq(Messages) /\ n \in DOMAIN inbox' /\ inbox'[n] = m
          /\ \A i \in DOMAIN inbox : i \in DOMAIN inbox' /\ inbox'[i] = inbox[i] /\ i \in Nat /\ i < n
          /\ \A i \in DOMAIN inbox' : i \in DOMAIN inbox \/ i = n
    <2>1. PICK t : t = inbox'
        OBVIOUS
    <2>2. t = Append(inbox, m)
        BY <2>1
    <2> QED BY <2>1, <2>2, Appended
<1> SUFFICES ASSUME e \notin DOMAIN world' \cup removing'
             PROVE  /\ \A i \in DOMAIN inbox' : Heard(i)' /\ Shows(inbox'[i], e) =>
                           \E j \in DOMAIN inbox' : j > i /\ Removes(inbox'[j], e)
                    /\ e \in DOMAIN known => \E j \in DOMAIN inbox' : Removes(inbox'[j], e)
    BY DEF Forgets
<1>2. CASE Removes(m, e)
    <2>1. ~Shows(m, e)
        BY <1>2 DEF Removes, Shows
    <2>2. \A i \in DOMAIN inbox' : Shows(inbox'[i], e) => n > i
        BY <1>1, <2>1
    <2> QED BY <1>1, <1>2, <2>2
<1>3. CASE Forgets(e) /\ e \notin DOMAIN world \cup removing /\ ~Shows(m, e)
    <2>1. ASSUME NEW i \in DOMAIN inbox', Heard(i)', Shows(inbox'[i], e)
          PROVE  \E j \in DOMAIN inbox' : j > i /\ Removes(inbox'[j], e)
        <3>1. i \in DOMAIN inbox /\ inbox'[i] = inbox[i] /\ i \in Nat /\ i < n
            BY <1>1, <1>3, <2>1
        <3>2. Heard(i)
            <4>1. CASE Listens
                BY <4>1 DEF Heard
            <4>2. CASE ~Listens
                <5>1. phase = "services" /\ \E j \in DOMAIN inbox' : j < i /\ inbox'[j].type = "granted"
                    BY <2>1, <4>2 DEF Heard, Listens
                <5>2. \A j \in DOMAIN inbox' : j < i => j \in DOMAIN inbox /\ inbox'[j] = inbox[j]
                    BY <1>1, <3>1
                <5> QED BY <5>1, <5>2 DEF Heard
            <4> QED BY <4>1, <4>2
        <3>3. PICK j \in DOMAIN inbox : j > i /\ Removes(inbox[j], e)
            BY <1>3, <2>1, <3>1, <3>2 DEF Forgets
        <3> QED BY <1>1, <3>3
    <2>2. e \in DOMAIN known => \E j \in DOMAIN inbox' : Removes(inbox'[j], e)
        BY <1>1, <1>3 DEF Forgets
    <2> QED BY <2>1, <2>2
<1> QED BY <1>2, <1>3

\* A client learns of an entity as before, when a message is sent that tells its value or nothing
\* of it; the queue may be emptied into a message that does tell.
LEMMA LearnsSent ==
    ASSUME inbox \in Seq(Messages), NEW m \in Messages, inbox' = Append(inbox, m), known' = known,
           NEW e, Learns(e), Listed' => Listed, crossed => crossed', aborted => aborted',
           e \in DOMAIN world' \ adding' => e \in DOMAIN world \ adding /\ world'[e] = world[e],
           Updated(queued, e) /\ ~Updated(queued', e) => Tells(m, e),
           Tells(m, e) => Says(m, e, world[e])
    PROVE  Learns(e)'
<1>1. PICK n \in Nat \ {0} :
          /\ inbox' \in Seq(Messages) /\ n \in DOMAIN inbox' /\ inbox'[n] = m
          /\ \A i \in DOMAIN inbox : i \in DOMAIN inbox' /\ inbox'[i] = inbox[i]
    <2>1. PICK t : t = inbox'
        OBVIOUS
    <2>2. t = Append(inbox, m)
        BY <2>1
    <2> QED BY <2>1, <2>2, Appended
<1> SUFFICES ASSUME Listed', ~crossed', ~aborted', e \in DOMAIN world' \ adding'
             PROVE  /\ e \in DOMAIN known \/ \E i \in DOMAIN inbox' : Shows(inbox'[i], e)
                    /\ ~Updated(queued', e) =>
                           /\ LastSays(inbox', e, world[e])
                           /\ (\A i \in DOMAIN inbox' : ~Tells(inbox'[i], e)) => known[e] = world[e]
    BY DEF Learns
<1>2. /\ e \in DOMAIN known \/ \E i \in DOMAIN inbox : Shows(inbox[i], e)
      /\ ~Updated(queued, e) =>
             /\ LastSays(inbox, e, world[e])
             /\ (\A i \in DOMAIN inbox : ~Tells(inbox[i], e)) => known[e] = world[e]
    BY DEF Learns
<1>3. e \in DOMAIN known \/ \E i \in DOMAIN inbox' : Shows(inbox'[i], e)
    BY <1>1, <1>2
<1>4. ASSUME ~Updated(queued', e)
      PROVE  /\ LastSays(inbox', e, world[e])
             /\ (\A i \in DOMAIN inbox' : ~Tells(inbox'[i], e)) => known[e] = world[e]
    <2>1. LastSays(inbox, e, world[e]) \/ Tells(m, e)
        BY <1>2, <1>4
    <2>2. LastSays(inbox', e, world[e])
        <3>1. LastSays(Append(inbox, m), e, world[e])
            BY <2>1, SaysSent
        <3> QED BY <3>1
    <2>3. ASSUME \A i \in DOMAIN inbox' : ~Tells(inbox'[i], e) PROVE known[e] = world[e]
        BY <1>1, <1>2, <1>4, <2>3
    <2> QED BY <2>2, <2>3
<1> QED BY <1>3, <1>4

\* An entity is forgotten when a message is taken that the client listens to.
LEMMA ForgetsTaken ==
    ASSUME inbox \in Seq(Messages), inbox # <<>>, inbox' = Tail(inbox), Listens,
           UNCHANGED <<world, removing>>, NEW e, Forgets(e),
           Removes(inbox[1], e) => e \notin DOMAIN known',
           e \in DOMAIN known' => e \in DOMAIN known \/ Shows(inbox[1], e)
    PROVE  Forgets(e)'
<1>1. /\ inbox' \in Seq(Messages) /\ 1 \in DOMAIN inbox
      /\ \A i \in DOMAIN inbox' : i \in Nat \ {0} /\ i + 1 \in DOMAIN inbox /\ inbox'[i] = inbox[i + 1]
      /\ \A i \in DOMAIN inbox : i \in Nat \ {0} /\ (i # 1 => i - 1 \in DOMAIN inbox' /\ inbox'[i - 1] = inbox[i])
    <2>1. PICK t : t = inbox'
        OBVIOUS
    <2>2. t = Tail(inbox)
        BY <2>1
    <2> QED BY <2>1, <2>2, Taken
<1>2. \A i : Heard(i)
    BY DEF Heard
<1> SUFFICES ASSUME e \notin DOMAIN world \cup removing
             PROVE  /\ \A i \in DOMAIN inbox' : Shows(inbox'[i], e) =>
                           \E j \in DOMAIN inbox' : j > i /\ Removes(inbox'[j], e)
                    /\ e \in DOMAIN known' => \E j \in DOMAIN inbox' : Removes(inbox'[j], e)
    BY DEF Forgets
<1>3. /\ \A i \in DOMAIN inbox : Shows(inbox[i], e) => \E j \in DOMAIN inbox : j > i /\ Removes(inbox[j], e)
      /\ e \in DOMAIN known => \E j \in DOMAIN inbox : Removes(inbox[j], e)
    BY <1>2 DEF Forgets
<1>4. ASSUME NEW i \in DOMAIN inbox', Shows(inbox'[i], e)
      PROVE  \E j \in DOMAIN inbox' : j > i /\ Removes(inbox'[j], e)
    <2>1. i \in Nat \ {0} /\ i + 1 \in DOMAIN inbox /\ Shows(inbox[i + 1], e)
        BY <1>1, <1>4
    <2>2. PICK j \in DOMAIN inbox : j > i + 1 /\ Removes(inbox[j], e)
        BY <1>3, <2>1
    <2>3. j \in Nat /\ j # 1 /\ j - 1 > i
        BY <1>1, <2>1, <2>2
    <2> QED BY <1>1, <2>2, <2>3
<1>5. ASSUME e \in DOMAIN known' PROVE \E j \in DOMAIN inbox' : Removes(inbox'[j], e)
    <2>1. PICK j \in DOMAIN inbox : Removes(inbox[j], e)
        BY <1>1, <1>3, <1>5
    <2>2. j # 1
        BY <1>5, <2>1
    <2> QED BY <1>1, <2>1, <2>2
<1> QED BY <1>4, <1>5

\* A client learns of an entity as before, when it takes a message and does what that says.
LEMMA LearnsTaken ==
    ASSUME inbox \in Seq(Messages), inbox # <<>>, inbox' = Tail(inbox),
           UNCHANGED <<world, adding, queued>>, crossed => crossed', aborted => aborted',
           NEW e, Learns(e), Listed' => Listed,
           ASSUME ~crossed', ~aborted', e \in DOMAIN world
           PROVE  /\ e \in DOMAIN known \/ Shows(inbox[1], e) => e \in DOMAIN known'
                  /\ Tells(inbox[1], e) /\ Says(inbox[1], e, world[e]) => known'[e] = world[e]
                  /\ ~Tells(inbox[1], e) /\ e \in DOMAIN known => known'[e] = known[e]
    PROVE  Learns(e)'
<1>1. /\ inbox' \in Seq(Messages) /\ 1 \in DOMAIN inbox
      /\ \A i \in DOMAIN inbox : i # 1 => i - 1 \in DOMAIN inbox' /\ inbox'[i - 1] = inbox[i]
    <2>1. PICK t : t = inbox'
        OBVIOUS
    <2>2. t = Tail(inbox)
        BY <2>1
    <2> QED BY <2>1, <2>2, Taken
<1> SUFFICES ASSUME Listed', ~crossed', ~aborted', e \in DOMAIN world \ adding
             PROVE  /\ e \in DOMAIN known' \/ \E i \in DOMAIN inbox' : Shows(inbox'[i], e)
                    /\ ~Updated(queued, e) =>
                           /\ LastSays(inbox', e, world[e])
                           /\ (\A i \in DOMAIN inbox' : ~Tells(inbox'[i], e)) => known'[e] = world[e]
    BY DEF Learns
<1>2. /\ e \in DOMAIN known \/ \E i \in DOMAIN inbox : Shows(inbox[i], e)
      /\ ~Updated(queued, e) =>
             /\ LastSays(inbox, e, world[e])
             /\ (\A i \in DOMAIN inbox : ~Tells(inbox[i], e)) => known[e] = world[e]
    BY DEF Learns
<1>3. /\ e \in DOMAIN known \/ Shows(inbox[1], e) => e \in DOMAIN known'
      /\ Tells(inbox[1], e) /\ Says(inbox[1], e, world[e]) => known'[e] = world[e]
      /\ ~Tells(inbox[1], e) /\ e \in DOMAIN known => known'[e] = known[e]
    OBVIOUS
<1>4. e \in DOMAIN known' \/ \E i \in DOMAIN inbox' : Shows(inbox'[i], e)
    <2>1. CASE e \in DOMAIN known
        BY <1>3, <2>1
    <2>2. CASE \E i \in DOMAIN inbox : Shows(inbox[i], e)
        BY <1>1, <1>3, <2>2
    <2> QED BY <1>2, <2>1, <2>2
<1>5. ASSUME ~Updated(queued, e)
      PROVE  /\ LastSays(inbox', e, world[e])
             /\ (\A i \in DOMAIN inbox' : ~Tells(inbox'[i], e)) => known'[e] = world[e]
    <2>1. LastSays(inbox, e, world[e])
        BY <1>2, <1>5
    <2>2. /\ LastSays(Tail(inbox), e, world[e])
          /\ Tells(inbox[1], e) /\ (\A i \in DOMAIN Tail(inbox) : ~Tells(Tail(inbox)[i], e)) => Says(inbox[1], e, world[e])
        BY <2>1, SaysTaken
    <2>3. /\ LastSays(inbox', e, world[e])
          /\ Tells(inbox[1], e) /\ (\A i \in DOMAIN inbox' : ~Tells(inbox'[i], e)) => Says(inbox[1], e, world[e])
        BY <2>2
    <2>4. ASSUME \A i \in DOMAIN inbox' : ~Tells(inbox'[i], e) PROVE known'[e] = world[e]
        <3>1. CASE Tells(inbox[1], e)
            BY <1>3, <2>3, <2>4, <3>1
        <3>2. CASE ~Tells(inbox[1], e)
            <4>1. \A i \in DOMAIN inbox : ~Tells(inbox[i], e)
                BY <1>1, <2>4, <3>2
            <4>2. e \in DOMAIN known
                BY <1>2, <4>1 DEF Tells
            <4> QED BY <1>2, <1>3, <1>5, <3>2, <4>1, <4>2
        <3> QED BY <3>1, <3>2
    <2> QED BY <2>3, <2>4
<1> QED BY <1>4, <1>5

\* Answers and requests fit when what is sent is not an answer.
LEMMA AnswersPushed ==
    ASSUME inbox \in Seq(Messages), AnswersFit, UNCHANGED <<phase, work>>, crossed => crossed',
           inbox' = inbox \/ \E m \in Messages : ~IsAnswer(m) /\ inbox' = Sent(m)
    PROVE  AnswersFit'
<1>1. CASE inbox' = inbox
    <2>1. OneAnswer(inbox, {"objects"}) => OneAnswer(inbox, {"objects", "exception"})
        BY DEF OneAnswer
    <2> QED BY <1>1, <2>1 DEF AnswersFit, WaitsFor
<1>2. ASSUME NEW m \in Messages, ~IsAnswer(m), inbox' = Sent(m), inbox' # inbox PROVE AnswersFit'
    <2>1. inbox' = Append(inbox, m) /\ phase # "gone"
        BY <1>2 DEF Sent
    <2>2. \A types : /\ NoAnswer(inbox) => NoAnswer(inbox')
                     /\ OneAnswer(inbox, types) => OneAnswer(inbox', types)
        BY <1>2, <2>1, AnswersSent
    <2>3. OneAnswer(inbox, {"objects"}) => OneAnswer(inbox, {"objects", "exception"})
        BY DEF OneAnswer
    <2> QED BY <2>1, <2>2, <2>3 DEF AnswersFit, WaitsFor
<1> QED BY <1>1, <1>2

\* What messages say of entities fits the World, when one is sent that does.
LEMMA InboxSent ==
    ASSUME inbox \in Seq(Messages), WorldFits, NEW m \in Messages, inbox' = inbox \/ inbox' = Append(inbox, m),
           NEW e \in Entities, past \subseteq past',
           e \in past \ (DOMAIN world \cup removing) => e \notin DOMAIN world' \cup removing',
           Shows(m, e) => e \in past',
           Removes(m, e) => e \in past' \ (DOMAIN world' \cup removing')
    PROVE  \A i \in DOMAIN inbox' :
              /\ Shows(inbox'[i], e) => e \in past'
              /\ Removes(inbox'[i], e) => e \in past' \ (DOMAIN world' \cup removing')
<1>1. \A i \in DOMAIN inbox :
          /\ Shows(inbox[i], e) => e \in past'
          /\ Removes(inbox[i], e) => e \in past' \ (DOMAIN world' \cup removing')
    BY DEF WorldFits
<1>2. CASE inbox' = inbox
    BY <1>1, <1>2
<1>3. CASE inbox' = Append(inbox, m)
    <2>1. PICK t : t = inbox'
        OBVIOUS
    <2>2. PICK n \in Nat \ {0} :
              /\ n \in DOMAIN t /\ t[n] = m
              /\ \A i \in DOMAIN inbox : t[i] = inbox[i]
              /\ \A i \in DOMAIN t : i \in DOMAIN inbox \/ i = n
        <3>1. t = Append(inbox, m)
            BY <1>3, <2>1
        <3> QED BY <3>1, Appended
    <2>3. \A i \in DOMAIN t :
              /\ Shows(t[i], e) => e \in past'
              /\ Removes(t[i], e) => e \in past' \ (DOMAIN world' \cup removing')
        BY <1>1, <2>2
    <2> QED BY <2>1, <2>3
<1> QED BY <1>2, <1>3

(***************************************************************************)
(* The World.                                                              *)
(***************************************************************************)

\* An entity is added: no message knows of it yet.
LEMMA AddEntityInductive ==
    ASSUME Inductive, NEW e \in Entities, AddEntity(e)
    PROVE  Inductive'
<1>1. /\ TypeOK /\ AnswersFit /\ HandlersFit /\ WorldFits /\ QueueFits /\ ListingFits
      /\ phase # "gone" => \A x \in Entities : Forgets(x) /\ Learns(x)
    BY DEF Inductive
<1>2. /\ e \notin past /\ world' = With(world, e, 0) /\ past' = past \cup {e} /\ adding' = adding \cup {e}
      /\ UNCHANGED <<removing, queued, handlers, work, listing, inbox, phase, known, crossed, aborted>>
    BY DEF AddEntity, serverVars, clientVars
<1>3. /\ world' \in Maps /\ DOMAIN world' = DOMAIN world \cup {e} /\ world'[e] = 0
      /\ \A x \in DOMAIN world : x # e => world'[x] = world[x]
    <2>1. world \in Maps
        BY <1>1 DEF TypeOK
    <2>2. PICK v \in Values : v = 0
        BY SessionAssumption DEF Values
    <2>3. /\ With(world, e, v) \in Maps /\ DOMAIN With(world, e, v) = DOMAIN world \cup {e}
          /\ With(world, e, v)[e] = v
          /\ \A x \in DOMAIN world : x # e => With(world, e, v)[x] = world[x]
        BY <2>1, PutIn
    <2> QED BY <1>2, <2>2, <2>3
<1>4. TypeOK'
    BY <1>1, <1>2, <1>3 DEF TypeOK
<1>5. AnswersFit'
    BY <1>1, <1>2, AnswersPushed DEF TypeOK
<1>6. HandlersFit'
    BY <1>1, <1>2 DEF HandlersFit
<1>7. WorldFits'
    BY <1>1, <1>2, <1>3 DEF TypeOK, WorldFits, Listens
<1>8. QueueFits'
    <2>1. LastUpdateIs(queued, e, 0)
        BY <1>1, <1>2 DEF LastUpdateIs, WorldFits
    <2>2. \A x \in DOMAIN world : LastUpdateIs(queued, x, world[x])
        BY <1>1 DEF QueueFits
    <2>3. \A x \in DOMAIN world' : LastUpdateIs(queued, x, world'[x])
        BY <1>3, <2>1, <2>2
    <2> QED BY <1>2, <2>3 DEF QueueFits
<1>9. ListingFits'
    <2>1. e \notin DOMAIN listing
        BY <1>1, <1>2 DEF WorldFits
    <2> QED BY <1>1, <1>2, <1>3, <2>1 DEF ListingFits
<1>10. ASSUME phase # "gone", NEW x \in Entities PROVE Forgets(x)' /\ Learns(x)'
    <2>1. Forgets(x) /\ Learns(x)
        BY <1>1, <1>10
    <2>2. \A i : Heard(i)' <=> Heard(i)
        BY <1>2 DEF Heard, Listens
    <2>3. Forgets(x)'
        BY <1>2, <1>3, <2>1, <2>2 DEF Forgets
    <2>4. Listed' <=> Listed
        BY <1>2 DEF Listed
    <2>5. x \in DOMAIN world' \ adding' => x \in DOMAIN world \ adding /\ world'[x] = world[x]
        BY <1>2, <1>3
    <2>6. Learns(x)'
        BY <1>2, <2>1, <2>4, <2>5 DEF Learns
    <2> QED BY <2>3, <2>6
<1> QED BY <1>2, <1>4, <1>5, <1>6, <1>7, <1>8, <1>9, <1>10 DEF Inductive

\* The client is told of an entity: that is the last it has been told.
LEMMA EntityAddedInductive ==
    ASSUME Inductive, NEW e \in Entities, HandleEntityAdded(e)
    PROVE  Inductive'
<1>1. /\ TypeOK /\ AnswersFit /\ HandlersFit /\ WorldFits /\ QueueFits /\ ListingFits
      /\ phase # "gone" => \A x \in Entities : Forgets(x) /\ Learns(x)
    BY DEF Inductive
<1>2. PICK m : m = [type |-> "new", entity |-> e, value |-> world[e]]
    OBVIOUS
<1>3. /\ e \in adding /\ adding' = adding \ {e}
      /\ inbox' = IF "new" \in handlers THEN Sent(m) ELSE inbox
      /\ UNCHANGED <<world, past, removing, queued, handlers, work, listing, phase, known, crossed, aborted>>
    BY <1>2 DEF HandleEntityAdded, serverVars, clientVars
<1>4. /\ m \in Messages /\ ~IsAnswer(m) /\ m.type = "new" /\ m.entity = e /\ m.value = world[e]
      /\ e \in DOMAIN world /\ e \in past
    <2>1. e \in DOMAIN world /\ e \in past
        BY <1>1, <1>3 DEF WorldFits
    <2>2. world \in [DOMAIN world -> Values]
        BY <1>1, MapFacts DEF TypeOK
    <2> QED BY <1>2, <2>1, <2>2 DEF Messages, IsAnswer
<1>5. /\ \A x : Shows(m, x) <=> x = e
      /\ \A x : Tells(m, x) <=> x = e
      /\ \A x, v : Says(m, x, v) <=> v = world[e]
      /\ \A x : ~Removes(m, x)
    BY <1>4 DEF Shows, Tells, Says, Removes
<1>6. inbox \in Seq(Messages)
    BY <1>1 DEF TypeOK
<1>7. inbox' = inbox \/ (inbox' = Append(inbox, m) /\ phase # "gone")
    BY <1>3 DEF Sent
<1>8. TypeOK'
    <2>1. inbox' \in Seq(Messages)
        BY <1>4, <1>6, <1>7, AppendProperties
    <2> QED BY <1>1, <1>3, <2>1 DEF TypeOK
<1>9. AnswersFit'
    <2>1. inbox' = inbox \/ \E x \in Messages : ~IsAnswer(x) /\ inbox' = Sent(x)
        BY <1>3, <1>4
    <2> QED BY <1>1, <1>3, <1>6, <2>1, AnswersPushed
<1>10. HandlersFit'
    BY <1>1, <1>3 DEF HandlersFit
<1>11. WorldFits'
    <2>1. \A x \in Entities, i \in DOMAIN inbox' :
              /\ Shows(inbox'[i], x) => x \in past'
              /\ Removes(inbox'[i], x) => x \in past' \ (DOMAIN world' \cup removing')
        BY <1>1, <1>3, <1>4, <1>5, <1>6, <1>7, InboxSent
    <2> QED BY <1>1, <1>3, <2>1 DEF WorldFits, Listens
<1>12. QueueFits' /\ ListingFits'
    BY <1>1, <1>3 DEF QueueFits, ListingFits
<1>13. ASSUME phase # "gone", NEW x \in Entities PROVE Forgets(x)' /\ Learns(x)'
    <2>1. Forgets(x) /\ Learns(x)
        BY <1>1, <1>13
    <2>2. CASE inbox' = inbox
        <3>1. phase \notin {"services", "listing", "ready"}
            <4>1. ASSUME phase \in {"services", "listing", "ready"} PROVE FALSE
                <5>1. "new" \in handlers
                    BY <1>1, <4>1 DEF HandlersFit, Registered
                <5>2. inbox' = Append(inbox, m)
                    BY <1>3, <1>13, <5>1 DEF Sent
                <5>3. Append(inbox, m) # inbox
                    <6>1. Len(Append(inbox, m)) = Len(inbox) + 1 /\ Len(inbox) \in Nat
                        BY <1>4, <1>6, AppendProperties, LenProperties
                    <6> QED BY <6>1
                <5> QED BY <2>2, <5>2, <5>3
            <4> QED BY <4>1
        <3>2. (phase \notin {"listing", "ready"})' /\ (phase = "services" => NoAnswer(inbox))'
              /\ (DOMAIN known = {})'
            BY <1>1, <1>3, <1>13, <3>1 DEF WorldFits, Listens
        <3>3. ~Listens' /\ ~Listed' /\ \A i : ~Heard(i)'
            BY <1>3, <3>1 DEF Listens, Listed, Heard
        <3> QED BY <3>2, <3>3 DEF Forgets, Learns
    <2>3. CASE inbox' = Append(inbox, m)
        <3>1. Forgets(x)'
            BY <1>3, <1>4, <1>5, <1>6, <2>1, <2>3, ForgetsSent
        <3>2. CASE x # e
            <4>1. Listed' <=> Listed
                BY <1>3 DEF Listed
            <4>2. ~Tells(m, x)
                BY <1>5, <3>2
            <4>3. Learns(x)'
                BY <1>3, <1>4, <1>6, <2>1, <2>3, <3>2, <4>1, <4>2, LearnsSent
            <4> QED BY <3>1, <4>3
        <3>3. CASE x = e
            <4>1. \E i \in DOMAIN inbox' : Shows(inbox'[i], e) /\ Tells(inbox'[i], e)
                <5>1. PICK t : t = inbox'
                    OBVIOUS
                <5>2. \E i \in DOMAIN t : t[i] = m
                    <6>1. t = Append(inbox, m)
                        BY <2>3, <5>1
                    <6> QED BY <1>4, <1>6, <6>1, Appended
                <5> QED BY <1>5, <5>1, <5>2
            <4>2. LastSays(inbox', e, world[e])
                <5>1. Tells(m, e) /\ Says(m, e, world[e])
                    BY <1>5
                <5>2. LastSays(Append(inbox, m), e, world[e])
                    BY <1>4, <1>6, <5>1, SaysSent
                <5> QED BY <2>3, <5>2
            <4>3. world' = world
                BY <1>3
            <4>4. Learns(e)'
                BY <4>1, <4>2, <4>3 DEF Learns
            <4> QED BY <3>1, <3>3, <4>4
        <3> QED BY <3>2, <3>3
    <2> QED BY <1>7, <2>2, <2>3
<1> QED BY <1>3, <1>8, <1>9, <1>10, <1>11, <1>12, <1>13 DEF Inductive

\* An entity is removed: the client is going to be told.
LEMMA RemoveEntityInductive ==
    ASSUME Inductive, NEW e \in Entities, RemoveEntity(e)
    PROVE  Inductive'
<1>1. /\ TypeOK /\ AnswersFit /\ HandlersFit /\ WorldFits /\ QueueFits /\ ListingFits
      /\ phase # "gone" => \A x \in Entities : Forgets(x) /\ Learns(x)
    BY DEF Inductive
<1>2. /\ e \in DOMAIN world \ adding /\ world' = Without(world, e) /\ removing' = removing \cup {e}
      /\ UNCHANGED <<past, adding, queued, handlers, work, listing, inbox, phase, known, crossed, aborted>>
    BY DEF RemoveEntity, serverVars, clientVars
<1>3. /\ world' \in Maps /\ DOMAIN world' = DOMAIN world \ {e}
      /\ \A x \in DOMAIN world : x # e => world'[x] = world[x]
    <2>1. world \in Maps
        BY <1>1 DEF TypeOK
    <2>2. /\ Without(world, e) \in Maps /\ DOMAIN Without(world, e) = DOMAIN world \ {e}
          /\ \A x \in DOMAIN world : x # e => Without(world, e)[x] = world[x]
        BY <2>1, TakenOut
    <2> QED BY <1>2, <2>2
<1>4. TypeOK'
    BY <1>1, <1>2, <1>3 DEF TypeOK, WorldFits
<1>5. AnswersFit'
    BY <1>1, <1>2, AnswersPushed DEF TypeOK
<1>6. HandlersFit'
    BY <1>1, <1>2 DEF HandlersFit
<1>7. WorldFits'
    BY <1>1, <1>2, <1>3 DEF TypeOK, WorldFits, Listens
<1>8. QueueFits' /\ ListingFits'
    BY <1>1, <1>2, <1>3 DEF QueueFits, ListingFits
<1>9. ASSUME phase # "gone", NEW x \in Entities PROVE Forgets(x)' /\ Learns(x)'
    <2>1. Forgets(x) /\ Learns(x)
        BY <1>1, <1>9
    <2>2. \A i : Heard(i)' <=> Heard(i)
        BY <1>2 DEF Heard, Listens
    <2>3. x \notin DOMAIN world' \cup removing' => x \notin DOMAIN world \cup removing
        BY <1>2, <1>3
    <2>4. Forgets(x)'
        BY <1>2, <2>1, <2>2, <2>3 DEF Forgets
    <2>5. Listed' <=> Listed
        BY <1>2 DEF Listed
    <2>6. x \in DOMAIN world' \ adding' => x \in DOMAIN world \ adding /\ world'[x] = world[x]
        BY <1>2, <1>3
    <2>7. Learns(x)'
        BY <1>2, <2>1, <2>5, <2>6 DEF Learns
    <2> QED BY <2>4, <2>7
<1> QED BY <1>2, <1>4, <1>5, <1>6, <1>7, <1>8, <1>9 DEF Inductive

\* The client is told that an entity is gone.
LEMMA EntityRemovedInductive ==
    ASSUME Inductive, NEW e \in Entities, HandleEntityRemoved(e)
    PROVE  Inductive'
<1>1. /\ TypeOK /\ AnswersFit /\ HandlersFit /\ WorldFits /\ QueueFits /\ ListingFits
      /\ phase # "gone" => \A x \in Entities : Forgets(x) /\ Learns(x)
    BY DEF Inductive
<1>2. PICK m : m = [type |-> "removed", entity |-> e]
    OBVIOUS
<1>3. /\ e \in removing /\ removing' = removing \ {e}
      /\ inbox' = IF "removed" \in handlers THEN Sent(m) ELSE inbox
      /\ UNCHANGED <<world, past, adding, queued, handlers, work, listing, phase, known, crossed, aborted>>
    BY <1>2 DEF HandleEntityRemoved, serverVars, clientVars
<1>4. /\ m \in Messages /\ ~IsAnswer(m) /\ m.type = "removed" /\ m.entity = e
      /\ e \in past \ (DOMAIN world \cup removing')
    <2>1. e \in past \ (DOMAIN world \cup removing')
        BY <1>1, <1>3 DEF WorldFits, TypeOK
    <2> QED BY <1>2, <2>1 DEF Messages, IsAnswer
<1>5. /\ \A x : ~Shows(m, x) /\ ~Tells(m, x)
      /\ \A x : Removes(m, x) <=> x = e
    BY <1>4 DEF Shows, Tells, Removes
<1>6. inbox \in Seq(Messages)
    BY <1>1 DEF TypeOK
<1>7. inbox' = inbox \/ (inbox' = Append(inbox, m) /\ phase # "gone")
    BY <1>3 DEF Sent
<1>8. TypeOK'
    <2>1. inbox' \in Seq(Messages)
        BY <1>4, <1>6, <1>7, AppendProperties
    <2> QED BY <1>1, <1>3, <2>1 DEF TypeOK
<1>9. AnswersFit'
    <2>1. inbox' = inbox \/ \E x \in Messages : ~IsAnswer(x) /\ inbox' = Sent(x)
        BY <1>3, <1>4
    <2> QED BY <1>1, <1>3, <1>6, <2>1, AnswersPushed
<1>10. HandlersFit'
    BY <1>1, <1>3 DEF HandlersFit
<1>11. WorldFits'
    <2>1. \A x \in Entities, i \in DOMAIN inbox' :
              /\ Shows(inbox'[i], x) => x \in past'
              /\ Removes(inbox'[i], x) => x \in past' \ (DOMAIN world' \cup removing')
        BY <1>1, <1>3, <1>4, <1>5, <1>6, <1>7, InboxSent
    <2> QED BY <1>1, <1>3, <2>1 DEF WorldFits, Listens
<1>12. QueueFits' /\ ListingFits'
    BY <1>1, <1>3 DEF QueueFits, ListingFits
<1>13. ASSUME phase # "gone", NEW x \in Entities PROVE Forgets(x)' /\ Learns(x)'
    <2>1. Forgets(x) /\ Learns(x)
        BY <1>1, <1>13
    <2>2. CASE phase \in {"services", "listing", "ready"}
        <3>1. "removed" \in handlers
            BY <1>1, <2>2 DEF HandlersFit, Registered
        <3>2. inbox' = Append(inbox, m)
            BY <1>3, <1>13, <3>1 DEF Sent
        <3>3. Forgets(x)'
            <4>1. x \notin DOMAIN world' \cup removing' => x = e \/ x \notin DOMAIN world \cup removing
                BY <1>3
            <4>2. x \notin DOMAIN world' \cup removing' =>
                      Removes(m, x) \/ (Forgets(x) /\ x \notin DOMAIN world \cup removing /\ ~Shows(m, x))
                BY <1>5, <2>1, <4>1
            <4>3. phase' = phase /\ known' = known
                BY <1>3
            <4> QED BY <1>4, <1>6, <3>2, <4>2, <4>3, ForgetsSent
        <3>4. Learns(x)'
            <4>1. Listed' <=> Listed
                BY <1>3 DEF Listed
            <4>2. ~Tells(m, x)
                BY <1>5
            <4> QED BY <1>3, <1>4, <1>6, <2>1, <3>2, <4>1, <4>2, LearnsSent
        <3> QED BY <3>3, <3>4
    <2>3. CASE phase \notin {"services", "listing", "ready"}
        <3>1. DOMAIN known' = {}
            BY <1>1, <1>3, <1>13, <2>3 DEF WorldFits, Listens
        <3>2. ~Listens' /\ ~Listed' /\ \A i : ~Heard(i)'
            BY <1>3, <2>3 DEF Listens, Listed, Heard
        <3> QED BY <3>1, <3>2 DEF Forgets, Learns
    <2> QED BY <2>2, <2>3
<1> QED BY <1>3, <1>8, <1>9, <1>10, <1>11, <1>12, <1>13 DEF Inductive

\* An update that is queued tells the value of its entity, and is the last one that does.
LEMMA UpdateQueued ==
    ASSUME NEW u \in Seq(Updates), NEW m \in Updates
    PROVE  /\ Append(u, m) \in Seq(Updates)
           /\ LastUpdateIs(Append(u, m), m.entity, m.value) /\ Updated(Append(u, m), m.entity)
           /\ \A x : Updated(u, x) => Updated(Append(u, m), x)
           /\ \A x, v : x # m.entity /\ LastUpdateIs(u, x, v) => LastUpdateIs(Append(u, m), x, v)
           /\ \A i \in DOMAIN Append(u, m) :
                 Append(u, m)[i].entity = m.entity \/ \E j \in DOMAIN u : Append(u, m)[i] = u[j]
<1>1. PICK t : t = Append(u, m)
    OBVIOUS
<1>2. PICK n \in Nat \ {0} :
          /\ t \in Seq(Updates) /\ n \in DOMAIN t /\ t[n] = m
          /\ \A i \in DOMAIN u : i \in DOMAIN t /\ t[i] = u[i] /\ i \in Nat /\ i < n
          /\ \A i \in DOMAIN t : i \in DOMAIN u \/ i = n
    BY <1>1, Appended
<1>3. LastUpdateIs(t, m.entity, m.value) /\ Updated(t, m.entity)
    <2>1. \A i \in DOMAIN t : i # n => n > i
        BY <1>2
    <2> QED BY <1>2, <2>1 DEF LastUpdateIs, Updated
<1>4. \A x : Updated(u, x) => Updated(t, x)
    BY <1>2 DEF Updated
<1>5. ASSUME NEW x, NEW v, x # m.entity, LastUpdateIs(u, x, v) PROVE LastUpdateIs(t, x, v)
    BY <1>2, <1>5 DEF LastUpdateIs
<1>6. \A i \in DOMAIN t : t[i].entity = m.entity \/ \E j \in DOMAIN u : t[i] = u[j]
    BY <1>2
<1> QED BY <1>1, <1>2, <1>3, <1>4, <1>5, <1>6

\* A value changes: the update that tells it is queued.
LEMMA ChangeAttributeInductive ==
    ASSUME Inductive, NEW e \in Entities, ChangeAttribute(e)
    PROVE  Inductive'
<1>1. /\ TypeOK /\ AnswersFit /\ HandlersFit /\ WorldFits /\ QueueFits /\ ListingFits
      /\ phase # "gone" => \A x \in Entities : Forgets(x) /\ Learns(x)
    BY DEF Inductive
<1>2. /\ e \in DOMAIN world /\ world[e] < MaxChanges
      /\ world' = [world EXCEPT ![e] = @ + 1]
      /\ queued' = Append(queued, [entity |-> e, value |-> world'[e]])
      /\ UNCHANGED <<past, adding, removing, handlers, work, listing, inbox, phase, known, crossed, aborted>>
    BY DEF ChangeAttribute, serverVars, clientVars
<1>3. /\ world' \in Maps /\ DOMAIN world' = DOMAIN world /\ world'[e] \in Values
      /\ \A x \in DOMAIN world : x # e => world'[x] = world[x]
    <2>1. DOMAIN world \subseteq Entities /\ world \in [DOMAIN world -> Values]
        BY <1>1, MapFacts DEF TypeOK
    <2>2. world[e] + 1 \in Values
        BY <1>2, <2>1, SessionAssumption DEF Values
    <2>3. world' \in [DOMAIN world -> Values] /\ world'[e] = world[e] + 1
        BY <1>2, <2>1, <2>2
    <2>4. DOMAIN world' = DOMAIN world
        BY <2>3
    <2>5. world' \in Maps
        BY <2>1, <2>3, <2>4, MapFacts
    <2> QED BY <1>2, <2>1, <2>2, <2>3, <2>4, <2>5
<1>4. PICK m : m = [entity |-> e, value |-> world'[e]]
    OBVIOUS
<1>5. m \in Updates /\ m.entity = e /\ m.value = world'[e] /\ queued \in Seq(Updates)
    BY <1>1, <1>3, <1>4 DEF Updates, TypeOK
<1>6. /\ queued' \in Seq(Updates) /\ LastUpdateIs(queued', e, world'[e]) /\ Updated(queued', e)
      /\ \A x : Updated(queued, x) => Updated(queued', x)
      /\ \A x, v : x # e /\ LastUpdateIs(queued, x, v) => LastUpdateIs(queued', x, v)
      /\ \A i \in DOMAIN queued' : queued'[i].entity = e \/ \E j \in DOMAIN queued : queued'[i] = queued[j]
    <2>1. PICK t : t = queued'
        OBVIOUS
    <2>2. t = Append(queued, m)
        BY <1>2, <1>4, <2>1
    <2>3. /\ t \in Seq(Updates) /\ LastUpdateIs(t, e, world'[e]) /\ Updated(t, e)
          /\ \A x : Updated(queued, x) => Updated(t, x)
          /\ \A x, v : x # e /\ LastUpdateIs(queued, x, v) => LastUpdateIs(t, x, v)
          /\ \A i \in DOMAIN t : t[i].entity = e \/ \E j \in DOMAIN queued : t[i] = queued[j]
        BY <1>5, <2>2, UpdateQueued
    <2> QED BY <2>1, <2>3
<1>7. TypeOK'
    BY <1>1, <1>2, <1>3, <1>6 DEF TypeOK
<1>8. AnswersFit'
    BY <1>1, <1>2, AnswersPushed DEF TypeOK
<1>9. HandlersFit'
    BY <1>1, <1>2 DEF HandlersFit
<1>10. WorldFits'
    <2>1. \A i \in DOMAIN queued' : queued'[i].entity \in past
        BY <1>1, <1>2, <1>6 DEF WorldFits
    <2> QED BY <1>1, <1>2, <1>3, <2>1 DEF WorldFits, Listens
<1>11. QueueFits'
    BY <1>1, <1>3, <1>6 DEF QueueFits
<1>12. ListingFits'
    BY <1>1, <1>2, <1>3, <1>6 DEF ListingFits
<1>13. ASSUME phase # "gone", NEW x \in Entities PROVE Forgets(x)' /\ Learns(x)'
    <2>1. Forgets(x) /\ Learns(x)
        BY <1>1, <1>13
    <2>2. \A i : Heard(i)' <=> Heard(i)
        BY <1>2 DEF Heard, Listens
    <2>3. Forgets(x)'
        BY <1>2, <1>3, <2>1, <2>2 DEF Forgets
    <2>4. Listed' <=> Listed
        BY <1>2 DEF Listed
    <2>5. Learns(x)'
        BY <1>2, <1>3, <1>6, <2>1, <2>4 DEF Learns
    <2> QED BY <2>3, <2>5
<1> QED BY <1>2, <1>7, <1>8, <1>9, <1>10, <1>11, <1>12, <1>13 DEF Inductive

\* The updates that are queued are sent, and tell all the values that they told in the queue.
LEMMA FlushInductive ==
    ASSUME Inductive, FlushUpdates
    PROVE  Inductive'
<1>1. /\ TypeOK /\ AnswersFit /\ HandlersFit /\ WorldFits /\ QueueFits /\ ListingFits
      /\ phase # "gone" => \A x \in Entities : Forgets(x) /\ Learns(x)
    BY DEF Inductive
<1>2. PICK m : m = [type |-> "updates", updates |-> queued]
    OBVIOUS
<1>3. /\ queued' = <<>>
      /\ \/ "updates" \in handlers /\ inbox' = Sent(m) /\ crossed' = (crossed \/ work = "listed")
         \/ "updates" \notin handlers /\ inbox' = inbox /\ crossed' = crossed
      /\ UNCHANGED <<world, past, adding, removing, handlers, work, listing, phase, known, aborted>>
    BY <1>2 DEF FlushUpdates, serverVars, clientVars
<1>4. /\ m \in Messages /\ ~IsAnswer(m) /\ m.type = "updates" /\ m.updates = queued
      /\ inbox \in Seq(Messages)
    BY <1>1, <1>2 DEF Messages, IsAnswer, TypeOK
<1>5. /\ \A x : ~Shows(m, x) /\ ~Removes(m, x)
      /\ \A x : Tells(m, x) <=> Updated(queued, x)
      /\ \A x, v : Says(m, x, v) <=> LastUpdateIs(queued, x, v)
    BY <1>4 DEF Shows, Tells, Removes, Says
<1>6. inbox' = inbox \/ (inbox' = Append(inbox, m) /\ phase # "gone")
    BY <1>3 DEF Sent
<1>7. /\ \A x : ~Updated(<<>>, x)
      /\ \A x, v : LastUpdateIs(<<>>, x, v)
    BY DEF Updated, LastUpdateIs
<1>8. TypeOK'
    <2>1. inbox' \in Seq(Messages)
        BY <1>4, <1>6, AppendProperties
    <2>2. <<>> \in Seq(Updates)
        OBVIOUS
    <2>3. crossed' \in BOOLEAN
        <3>1. crossed \in BOOLEAN
            BY <1>1 DEF TypeOK
        <3> QED BY <1>3, <3>1, Zenon
    <2> QED BY <1>1, <1>3, <2>1, <2>2, <2>3 DEF TypeOK
<1>9. AnswersFit'
    <2>1. inbox' = inbox \/ inbox' = Sent(m)
        BY <1>3, Zenon
    <2>2. inbox' = inbox \/ \E x \in Messages : ~IsAnswer(x) /\ inbox' = Sent(x)
        BY <1>4, <2>1
    <2>3. crossed => crossed'
        BY <1>3, Zenon
    <2> QED BY <1>1, <1>3, <1>4, <2>2, <2>3, AnswersPushed
<1>10. HandlersFit'
    BY <1>1, <1>3 DEF HandlersFit
<1>11. WorldFits'
    <2>1. \A x \in Entities, i \in DOMAIN inbox' :
              /\ Shows(inbox'[i], x) => x \in past'
              /\ Removes(inbox'[i], x) => x \in past' \ (DOMAIN world' \cup removing')
        BY <1>1, <1>3, <1>4, <1>5, <1>6, InboxSent
    <2>2. \A i \in DOMAIN queued' : queued'[i].entity \in past
        BY <1>3
    <2> QED BY <1>1, <1>3, <2>1, <2>2 DEF WorldFits, Listens
<1>12. QueueFits'
    BY <1>3, <1>7 DEF QueueFits
<1>13. ListingFits'
    <2>1. ASSUME work = "listed", phase = "listing" PROVE crossed'
        BY <1>1, <1>3, <2>1 DEF HandlersFit, Registered
    <2> QED BY <1>3, <2>1 DEF ListingFits
<1>14. ASSUME phase # "gone", NEW x \in Entities PROVE Forgets(x)' /\ Learns(x)'
    <2>1. Forgets(x) /\ Learns(x)
        BY <1>1, <1>14
    <2>2. CASE phase \in {"services", "listing", "ready"}
        <3>1. "updates" \in handlers
            BY <1>1, <2>2 DEF HandlersFit, Registered
        <3>2. inbox' = Append(inbox, m) /\ (crossed => crossed')
            BY <1>3, <1>14, <3>1 DEF Sent
        <3>3. Forgets(x)'
            <4>1. x \notin DOMAIN world' \cup removing' =>
                      Removes(m, x) \/ (Forgets(x) /\ x \notin DOMAIN world \cup removing /\ ~Shows(m, x))
                BY <1>3, <1>5, <2>1
            <4>2. phase' = phase /\ known' = known
                BY <1>3
            <4> QED BY <1>4, <3>2, <4>1, <4>2, ForgetsSent
        <3>4. Learns(x)'
            <4>1. Listed' <=> Listed
                BY <1>3 DEF Listed
            <4>2. CASE x \in DOMAIN world
                <5>1. Tells(m, x) => Says(m, x, world[x])
                    BY <1>1, <1>5, <4>2 DEF QueueFits
                <5>2. Updated(queued, x) /\ ~Updated(queued', x) => Tells(m, x)
                    BY <1>5
                <5>3. known' = known /\ aborted' = aborted /\ world' = world /\ adding' = adding
                    BY <1>3
                <5> QED BY <1>4, <2>1, <3>2, <4>1, <5>1, <5>2, <5>3, LearnsSent
            <4>3. CASE x \notin DOMAIN world
                BY <1>3, <4>3 DEF Learns
            <4> QED BY <4>2, <4>3
        <3> QED BY <3>3, <3>4
    <2>3. CASE phase \notin {"services", "listing", "ready"}
        <3>1. DOMAIN known' = {}
            BY <1>1, <1>3, <1>14, <2>3 DEF WorldFits, Listens
        <3>2. ~Listens' /\ ~Listed' /\ \A i : ~Heard(i)'
            BY <1>3, <2>3 DEF Listens, Listed, Heard
        <3> QED BY <3>1, <3>2 DEF Forgets, Learns
    <2> QED BY <2>2, <2>3
<1> QED BY <1>3, <1>8, <1>9, <1>10, <1>11, <1>12, <1>13, <1>14 DEF Inductive

\* What the server is doing for the client tells how far the client has got.
LEMMA WorkTellsPhase ==
    ASSUME TypeOK, AnswersFit
    PROVE  /\ work = "basicServices" => phase \in {"basicServices", "gone"}
           /\ work \in {"login", "new", "removed", "updates", "answer"} => phase \in {"login", "gone"}
           /\ work = "services" => phase \in {"services", "gone"}
           /\ work \in {"listObjects", "listed"} => phase \in {"listing", "gone"}
           /\ work # "nothing" /\ phase # "gone" => NoAnswer(inbox)
BY DEF TypeOK, AnswersFit, WaitsFor, Phases

\* A request has been served, and the answer is sent; it is not a list of objects.
LEMMA Answered ==
    ASSUME Inductive, NEW m \in Messages, m.type \in {"granted", "refused", "loggedIn", "exception"},
           inbox' = Sent(m), work # "nothing", work' = "nothing", listing' \in {listing, Empty},
           UNCHANGED <<world, past, adding, removing, queued, handlers, phase, known, aborted>>,
           crossed' \in BOOLEAN, crossed => crossed', phase = "listing" => crossed',
           phase = "login" => work = "answer",
           phase = "basicServices" => m.type = "granted", phase = "login" => m.type = "loggedIn",
           phase = "services" => m.type = "granted", phase = "listing" => m.type = "exception"
    PROVE  Inductive'
<1>1. /\ TypeOK /\ AnswersFit /\ HandlersFit /\ WorldFits /\ QueueFits /\ ListingFits
      /\ phase # "gone" => \A x \in Entities : Forgets(x) /\ Learns(x)
      /\ inbox \in Seq(Messages)
    BY DEF Inductive, TypeOK
<1>2. /\ world' = world /\ past' = past /\ adding' = adding /\ removing' = removing /\ queued' = queued
      /\ handlers' = handlers /\ phase' = phase /\ known' = known /\ aborted' = aborted
    OBVIOUS
<1>3. inbox' = inbox \/ (inbox' = Append(inbox, m) /\ phase # "gone")
    BY DEF Sent
<1>4. /\ \A x : ~Shows(m, x) /\ ~Removes(m, x) /\ ~Tells(m, x)
    BY DEF Shows, Removes, Tells
<1>5. listing' \in Maps /\ DOMAIN listing' \subseteq past
    BY <1>1, EmptyMap DEF TypeOK, WorldFits
<1>6. TypeOK'
    <2>1. inbox' \in Seq(Messages)
        BY <1>1, <1>3, AppendProperties
    <2> QED BY <1>1, <1>2, <1>5, <2>1 DEF TypeOK
<1>7. AnswersFit'
    <2>1. CASE phase = "gone"
        BY <1>1, <1>2, <2>1 DEF AnswersFit, Sent
    <2>2. CASE phase # "gone"
        <3>1. inbox' = Append(inbox, m) /\ NoAnswer(inbox)
            BY <1>1, <2>2, WorkTellsPhase DEF Sent
        <3>2. \A types : m.type \in types => OneAnswer(inbox', types)
            BY <1>1, <3>1, AnswersSent
        <3>3. OneAnswer(inbox', {m.type})
            BY <3>2
        <3>4. phase = "listing" => OneAnswer(inbox', {"objects", "exception"}) /\ crossed'
            BY <3>2
        <3>5. phase \notin {"start", "ready", "failed"}
            BY <1>1 DEF AnswersFit
        <3> QED BY <1>2, <2>2, <3>2, <3>4, <3>5 DEF AnswersFit, WaitsFor
    <2> QED BY <2>1, <2>2
<1>8. HandlersFit'
    BY <1>1, <1>2 DEF HandlersFit
<1>9. WorldFits'
    <2>1. \A x \in Entities, i \in DOMAIN inbox' :
              /\ Shows(inbox'[i], x) => x \in past'
              /\ Removes(inbox'[i], x) => x \in past' \ (DOMAIN world' \cup removing')
        BY <1>1, <1>2, <1>3, <1>4, InboxSent
    <2> QED BY <1>1, <1>2, <1>5, <2>1 DEF WorldFits, Listens
<1>10. QueueFits' /\ ListingFits'
    BY <1>1, <1>2 DEF QueueFits, ListingFits
<1>11. ASSUME phase # "gone", NEW x \in Entities PROVE Forgets(x)' /\ Learns(x)'
    <2>1. Forgets(x) /\ Learns(x) /\ inbox' = Append(inbox, m)
        BY <1>1, <1>11 DEF Sent
    <2>2. Forgets(x)'
        <3>1. x \notin DOMAIN world' \cup removing' =>
                  Removes(m, x) \/ (Forgets(x) /\ x \notin DOMAIN world \cup removing /\ ~Shows(m, x))
            BY <1>2, <1>4, <2>1
        <3>2. phase' = phase /\ known' = known
            BY <1>2
        <3> QED BY <1>1, <2>1, <3>1, <3>2, ForgetsSent
    <2>3. Learns(x)'
        <3>1. CASE phase = "listing"
            BY <3>1 DEF Learns
        <3>2. CASE phase # "listing"
            <4>1. phase # "ready"
                BY <1>1 DEF AnswersFit
            <4> QED BY <1>2, <3>2, <4>1 DEF Learns, Listed
        <3> QED BY <3>1, <3>2
    <2> QED BY <2>2, <2>3
<1> QED BY <1>2, <1>6, <1>7, <1>8, <1>9, <1>10, <1>11 DEF Inductive

\* The first "implements" is answered.
LEMMA ImplementsInductive ==
    ASSUME Inductive, Implements
    PROVE  Inductive'
<1>1. TypeOK /\ AnswersFit
    BY DEF Inductive
<1>2. PICK m : m = [type |-> "granted"]
    OBVIOUS
<1>3. m \in Messages /\ m.type = "granted"
    BY <1>2 DEF Messages
<1>4. /\ work = "basicServices" /\ work' = "nothing" /\ inbox' = Sent(m)
      /\ UNCHANGED <<world, past, adding, removing, queued, handlers, phase, known, aborted>>
      /\ listing' = listing /\ crossed' = crossed
    BY <1>2 DEF Implements, Answer, worldVars, clientVars
<1>5. phase \in {"basicServices", "gone"}
    BY <1>1, <1>4, WorkTellsPhase
<1>6. crossed' \in BOOLEAN
    BY <1>1, <1>4 DEF TypeOK
<1> QED BY <1>3, <1>4, <1>5, <1>6, Answered

\* A function is registered for a client that signs in, or the client is answered.
LEMMA ReceiveInductive ==
    ASSUME Inductive, ReceiveAuthenticatedClient
    PROVE  Inductive'
<1>1. /\ TypeOK /\ AnswersFit /\ HandlersFit /\ WorldFits /\ QueueFits /\ ListingFits
      /\ phase # "gone" => \A x \in Entities : Forgets(x) /\ Learns(x)
      /\ inbox \in Seq(Messages)
    BY DEF Inductive, TypeOK
<1>2. /\ UNCHANGED <<world, past, adding, removing, queued, phase, known, aborted>>
      /\ listing' = listing /\ crossed' = crossed
    BY DEF ReceiveAuthenticatedClient, worldVars, clientVars
<1>3. CASE work = "answer" /\ work' = "nothing" /\ Answer("loggedIn") /\ handlers' = handlers
    <2>1. PICK m : m = [type |-> "loggedIn"]
        OBVIOUS
    <2>2. m \in Messages /\ m.type = "loggedIn"
        BY <2>1 DEF Messages
    <2>3. inbox' = Sent(m)
        BY <1>3, <2>1 DEF Answer
    <2>4. phase \in {"login", "gone"}
        BY <1>1, <1>3, WorkTellsPhase
    <2>5. crossed' \in BOOLEAN
        BY <1>1, <1>2 DEF TypeOK
    <2> QED BY <1>2, <1>3, <2>2, <2>3, <2>4, <2>5, Answered
<1>4. CASE /\ work \in DOMAIN Registers /\ handlers' = handlers \cup {Registers[work]}
           /\ work' = AndThen[work] /\ inbox' = inbox
    <2>1. work \in {"login", "new", "removed", "updates"}
        BY <1>4 DEF Registers
    <2>2. /\ work = "login" => Registers[work] = "functions" /\ AndThen[work] = "new"
          /\ work = "new" => Registers[work] = "new" /\ AndThen[work] = "removed"
          /\ work = "removed" => Registers[work] = "removed" /\ AndThen[work] = "updates"
          /\ work = "updates" => Registers[work] = "updates" /\ AndThen[work] = "answer"
        BY DEF Registers, AndThen
    <2>3. phase \in {"login", "gone"}
        BY <1>1, <2>1, WorkTellsPhase
    <2>4. handlers \subseteq handlers' /\ handlers' \subseteq Registered
        BY <1>1, <1>4, <2>1, <2>2 DEF TypeOK, Registered
    <2>5. work' \in {"new", "removed", "updates", "answer"}
        BY <1>4, <2>1, <2>2
    <2>6. TypeOK'
        BY <1>1, <1>2, <1>4, <2>4, <2>5 DEF TypeOK, Registers
    <2>7. AnswersFit'
        <3>1. phase = "login" => NoAnswer(inbox)
            BY <1>1, <2>1, WorkTellsPhase
        <3>2. phase = "gone" => inbox = <<>>
            BY <1>1 DEF AnswersFit
        <3> QED BY <1>2, <1>4, <2>3, <2>5, <3>1, <3>2 DEF AnswersFit, WaitsFor
    <2>8. HandlersFit'
        <3>1. ASSUME phase = "login"
              PROVE  /\ work' \in {"new", "removed", "updates"} => "functions" \in handlers'
                     /\ work' \in {"removed", "updates"} => "new" \in handlers'
                     /\ work' = "updates" => "removed" \in handlers'
                     /\ work' = "answer" => handlers' = Registered
            <4>1. CASE work = "login"
                BY <1>4, <2>2, <4>1
            <4>2. CASE work = "new"
                BY <1>1, <1>4, <2>2, <3>1, <4>2 DEF HandlersFit
            <4>3. CASE work = "removed"
                BY <1>1, <1>4, <2>2, <3>1, <4>3 DEF HandlersFit
            <4>4. CASE work = "updates"
                BY <1>1, <1>4, <2>2, <2>4, <3>1, <4>4 DEF HandlersFit, Registered
            <4> QED BY <2>1, <4>1, <4>2, <4>3, <4>4
        <3> QED BY <1>2, <2>3, <2>5, <3>1 DEF HandlersFit
    <2>9. WorldFits'
        BY <1>1, <1>2, <1>4 DEF WorldFits, Listens
    <2>10. QueueFits' /\ ListingFits'
        BY <1>1, <1>2, <2>5 DEF QueueFits, ListingFits
    <2>11. ASSUME phase # "gone", NEW x \in Entities PROVE Forgets(x)' /\ Learns(x)'
        <3>1. DOMAIN known' = {}
            BY <1>1, <1>2, <2>3, <2>11 DEF WorldFits, Listens
        <3>2. ~Listens' /\ ~Listed' /\ \A i : ~Heard(i)'
            BY <1>2, <2>3 DEF Listens, Listed, Heard
        <3> QED BY <3>1, <3>2 DEF Forgets, Learns
    <2> QED BY <1>2, <2>6, <2>7, <2>8, <2>9, <2>10, <2>11 DEF Inductive
<1> QED BY <1>3, <1>4 DEF ReceiveAuthenticatedClient

\* The second "implements" is answered: the functions have been registered.
LEMMA AuthenticatedImplementsInductive ==
    ASSUME Inductive, AuthenticatedImplements
    PROVE  Inductive'
<1>1. TypeOK /\ AnswersFit /\ HandlersFit
    BY DEF Inductive
<1>2. PICK m : m = [type |-> IF "functions" \in handlers THEN "granted" ELSE "refused"]
    OBVIOUS
<1>3. /\ m \in Messages /\ m.type \in {"granted", "refused"}
      /\ "functions" \in handlers => m.type = "granted"
    BY <1>2 DEF Messages
<1>4. /\ work = "services" /\ work' = "nothing" /\ inbox' = Sent(m)
      /\ UNCHANGED <<world, past, adding, removing, queued, handlers, phase, known, aborted>>
      /\ listing' = listing /\ crossed' = crossed
    BY <1>2 DEF AuthenticatedImplements, Answer, worldVars, clientVars
<1>5. phase \in {"services", "gone"}
    BY <1>1, <1>4, WorkTellsPhase
<1>6. phase = "services" => m.type = "granted"
    BY <1>1, <1>3 DEF HandlersFit, Registered
<1>7. crossed' \in BOOLEAN
    BY <1>1, <1>4 DEF TypeOK
<1> QED BY <1>3, <1>4, <1>5, <1>6, <1>7, Answered

\* ListObjects begins: what it is going to read is the World as it is now, or newer.
LEMMA StartListingInductive ==
    ASSUME Inductive, StartListing
    PROVE  Inductive'
<1>1. /\ TypeOK /\ AnswersFit /\ HandlersFit /\ WorldFits /\ QueueFits /\ ListingFits
      /\ phase # "gone" => \A x \in Entities : Forgets(x) /\ Learns(x)
    BY DEF Inductive
<1>2. /\ work = "listObjects" /\ work' = "listed" /\ listing' = world
      /\ UNCHANGED <<world, past, adding, removing, queued, handlers, inbox, phase, known, crossed, aborted>>
    BY DEF StartListing, worldVars, clientVars
<1>3. phase \in {"listing", "gone"} /\ (phase = "listing" => NoAnswer(inbox))
    BY <1>1, <1>2, WorkTellsPhase
<1>4. TypeOK'
    BY <1>1, <1>2 DEF TypeOK
<1>5. AnswersFit'
    <2>1. phase = "gone" => inbox = <<>>
        BY <1>1 DEF AnswersFit
    <2> QED BY <1>2, <1>3, <2>1 DEF AnswersFit, WaitsFor
<1>6. HandlersFit'
    BY <1>1, <1>2, <1>3 DEF HandlersFit
<1>7. WorldFits'
    BY <1>1, <1>2 DEF WorldFits, Listens
<1>8. QueueFits' /\ ListingFits'
    BY <1>1, <1>2 DEF QueueFits, ListingFits
<1>9. ASSUME phase # "gone", NEW x \in Entities PROVE Forgets(x)' /\ Learns(x)'
    <2>1. Forgets(x)
        BY <1>1, <1>9
    <2>2. \A i : Heard(i)' <=> Heard(i)
        BY <1>2 DEF Heard, Listens
    <2>3. Forgets(x)'
        BY <1>2, <2>1, <2>2 DEF Forgets
    <2>4. ~Listed'
        BY <1>2, <1>3 DEF Listed
    <2> QED BY <2>3, <2>4 DEF Learns
<1> QED BY <1>2, <1>4, <1>5, <1>6, <1>7, <1>8, <1>9 DEF Inductive

\* The list of objects is sent: what changed while it was read is in the queue.
LEMMA FinishListingInductive ==
    ASSUME Inductive, FinishListing
    PROVE  Inductive'
<1>1. /\ TypeOK /\ AnswersFit /\ HandlersFit /\ WorldFits /\ QueueFits /\ ListingFits
      /\ phase # "gone" => \A x \in Entities : Forgets(x) /\ Learns(x)
      /\ inbox \in Seq(Messages) /\ world \in Maps
    BY DEF Inductive, TypeOK
<1>2. /\ work = "listed" /\ work' = "nothing" /\ listing' = Empty
      /\ UNCHANGED <<world, past, adding, removing, queued, handlers, phase, known, aborted>>
    BY DEF FinishListing, worldVars, clientVars
<1>3. phase \in {"listing", "gone"} /\ (phase = "listing" => NoAnswer(inbox))
    BY <1>1, <1>2, WorkTellsPhase
<1>4. CASE Answer("exception") /\ crossed' = TRUE
    <2>1. PICK m : m = [type |-> "exception"]
        OBVIOUS
    <2>2. m \in Messages /\ m.type = "exception" /\ inbox' = Sent(m)
        BY <1>4, <2>1 DEF Messages, Answer
    <2>3. crossed' \in BOOLEAN /\ (crossed => crossed') /\ (phase = "listing" => crossed')
        BY <1>4
    <2> QED BY <1>2, <1>3, <2>2, <2>3, Answered
<1>5. ASSUME DOMAIN world = DOMAIN listing, NEW f \in [DOMAIN world -> Values], crossed' = crossed,
             \A e \in DOMAIN f : f[e] \in listing[e] .. world[e],
             inbox' = Sent([type |-> "objects", infos |-> f])
      PROVE  Inductive'
    <2>1. PICK m : m = [type |-> "objects", infos |-> f]
        OBVIOUS
    <2>2. DOMAIN f = DOMAIN world /\ f \in Maps
        <3>1. DOMAIN world \subseteq Entities /\ DOMAIN f = DOMAIN world
            BY <1>1, MapFacts
        <3> QED BY <3>1, MapFacts
    <2>3. m \in Messages /\ m.type = "objects" /\ m.infos = f
        BY <2>1, <2>2 DEF Messages
    <2>4. /\ \A x : Shows(m, x) <=> x \in DOMAIN world
          /\ \A x : Tells(m, x) <=> x \in DOMAIN world
          /\ \A x : ~Removes(m, x)
          /\ \A x, v : Says(m, x, v) <=> f[x] = v
        BY <2>2, <2>3 DEF Shows, Tells, Removes, Says
    <2>5. inbox' = inbox \/ (inbox' = Append(inbox, m) /\ phase # "gone")
        BY <1>5, <2>1 DEF Sent
    <2>6. TypeOK'
        <3>1. inbox' \in Seq(Messages)
            BY <1>1, <2>3, <2>5, AppendProperties
        <3> QED BY <1>1, <1>2, <1>5, <3>1, EmptyMap DEF TypeOK
    <2>7. AnswersFit'
        <3>1. CASE phase = "gone"
            BY <1>1, <1>2, <1>5, <3>1 DEF AnswersFit, Sent
        <3>2. CASE phase = "listing"
            <4>1. inbox' = Append(inbox, m)
                BY <1>5, <2>1, <3>2 DEF Sent
            <4>2. \A types : m.type \in types => OneAnswer(inbox', types)
                BY <1>1, <1>3, <2>3, <3>2, <4>1, AnswersSent
            <4>3. OneAnswer(inbox', {"objects", "exception"}) /\ OneAnswer(inbox', {"objects"})
                BY <2>3, <4>2
            <4> QED BY <1>2, <3>2, <4>3 DEF AnswersFit, WaitsFor
        <3> QED BY <1>3, <3>1, <3>2
    <2>8. HandlersFit'
        BY <1>1, <1>2, <1>3 DEF HandlersFit
    <2>9. WorldFits'
        <3>1. \A x \in Entities, i \in DOMAIN inbox' :
                  /\ Shows(inbox'[i], x) => x \in past'
                  /\ Removes(inbox'[i], x) => x \in past' \ (DOMAIN world' \cup removing')
            <4>1. DOMAIN world \subseteq past
                BY <1>1 DEF WorldFits
            <4> QED BY <1>1, <1>2, <2>3, <2>4, <2>5, <4>1, InboxSent
        <3> QED BY <1>1, <1>2, <3>1, EmptyMap DEF WorldFits, Listens
    <2>10. QueueFits' /\ ListingFits'
        BY <1>1, <1>2 DEF QueueFits, ListingFits
    <2>11. ASSUME phase # "gone", NEW x \in Entities PROVE Forgets(x)' /\ Learns(x)'
        <3>1. Forgets(x) /\ inbox' = Append(inbox, m) /\ phase = "listing"
            BY <1>1, <1>3, <1>5, <2>1, <2>11 DEF Sent
        <3>2. Forgets(x)'
            <4>1. x \notin DOMAIN world' \cup removing' =>
                      Removes(m, x) \/ (Forgets(x) /\ x \notin DOMAIN world \cup removing /\ ~Shows(m, x))
                BY <1>2, <2>4, <3>1
            <4>2. phase' = phase /\ known' = known
                BY <1>2
            <4> QED BY <1>1, <2>3, <3>1, <4>1, <4>2, ForgetsSent
        <3>3. ASSUME x \in DOMAIN world, ~crossed, ~Updated(queued, x) PROVE Says(m, x, world[x])
            <4>1. listing[x] = world[x]
                BY <1>1, <1>2, <1>5, <3>1, <3>3 DEF ListingFits
            <4>2. world[x] \in Nat
                <5>1. world \in [DOMAIN world -> Values]
                    BY <1>1, MapFacts
                <5> QED BY <3>3, <5>1, SessionAssumption DEF Values
            <4>3. f[x] \in world[x] .. world[x]
                BY <1>5, <2>2, <3>3, <4>1
            <4>4. f[x] = world[x]
                BY <4>2, <4>3
            <4> QED BY <2>4, <4>4
        <3>4. Learns(x)'
            <4> SUFFICES ASSUME ~crossed, x \in DOMAIN world
                         PROVE  /\ \E i \in DOMAIN inbox' : Shows(inbox'[i], x) /\ Tells(inbox'[i], x)
                                /\ ~Updated(queued, x) => LastSays(inbox', x, world[x])
                BY <1>2, <1>5 DEF Learns
            <4>1. \E i \in DOMAIN inbox' : inbox'[i] = m
                <5>1. PICK t : t = inbox'
                    OBVIOUS
                <5>2. t = Append(inbox, m)
                    BY <3>1, <5>1
                <5> QED BY <1>1, <2>3, <5>1, <5>2, Appended
            <4>2. Shows(m, x) /\ Tells(m, x)
                BY <2>4
            <4>3. ASSUME ~Updated(queued, x) PROVE LastSays(inbox', x, world[x])
                <5>1. Says(m, x, world[x])
                    BY <3>3, <4>3
                <5>2. LastSays(Append(inbox, m), x, world[x])
                    BY <1>1, <2>3, <4>2, <5>1, SaysSent
                <5> QED BY <3>1, <5>2
            <4> QED BY <4>1, <4>2, <4>3
        <3> QED BY <3>2, <3>4
    <2> QED BY <1>2, <2>6, <2>7, <2>8, <2>9, <2>10, <2>11 DEF Inductive
<1> QED BY <1>4, <1>5 DEF FinishListing

\* The connection is closed.
LEMMA ConnectionClosedInductive ==
    ASSUME Inductive, ConnectionClosed
    PROVE  Inductive'
<1>1. /\ TypeOK /\ AnswersFit /\ HandlersFit /\ WorldFits /\ QueueFits /\ ListingFits
    BY DEF Inductive
<1>2. /\ phase' = "gone" /\ handlers' = {} /\ inbox' = <<>>
      /\ UNCHANGED <<world, past, adding, removing, queued, work, listing, known, crossed, aborted>>
    BY DEF ConnectionClosed, worldVars
<1>3. inbox' \in Seq(Messages) /\ DOMAIN inbox' = {}
    <2>1. PICK s \in Seq(Messages) : s = <<>>
        BY EmptySeq
    <2>2. Len(s) = 0 /\ DOMAIN s = 1 .. Len(s)
        BY <2>1, EmptySeq, LenProperties
    <2>3. DOMAIN s = {}
        BY <2>2
    <2> QED BY <1>2, <2>1, <2>3
<1>4. TypeOK'
    BY <1>1, <1>2, <1>3 DEF TypeOK, Phases
<1>5. AnswersFit' /\ HandlersFit'
    BY <1>2 DEF AnswersFit, HandlersFit
<1>6. WorldFits'
    BY <1>1, <1>2, <1>3 DEF WorldFits
<1>7. QueueFits' /\ ListingFits'
    BY <1>1, <1>2 DEF QueueFits, ListingFits
<1> QED BY <1>2, <1>4, <1>5, <1>6, <1>7 DEF Inductive

\* What messages say of entities fits the World, when the client takes one.
LEMMA InboxTaken ==
    ASSUME inbox \in Seq(Messages), inbox # <<>>, inbox' = Tail(inbox), WorldFits,
           UNCHANGED <<world, past, adding, removing, queued, listing>>, DOMAIN known' \subseteq past,
           ~Listens' /\ phase' # "gone" => DOMAIN known' = {}
    PROVE  WorldFits' /\ inbox' \in Seq(Messages) /\ \A i \in DOMAIN inbox' : i + 1 \in DOMAIN inbox /\ inbox'[i] = inbox[i + 1]
<1>1. /\ inbox' \in Seq(Messages)
      /\ \A i \in DOMAIN inbox' : i + 1 \in DOMAIN inbox /\ inbox'[i] = inbox[i + 1]
    <2>1. PICK t : t = inbox'
        OBVIOUS
    <2>2. t = Tail(inbox)
        BY <2>1
    <2> QED BY <2>1, <2>2, Taken
<1>2. \A i \in DOMAIN inbox', e \in Entities :
          /\ Shows(inbox'[i], e) => e \in past
          /\ Removes(inbox'[i], e) => e \in past \ (DOMAIN world \cup removing)
    BY <1>1 DEF WorldFits
<1> QED BY <1>1, <1>2 DEF WorldFits

\* Answers and requests fit when the client takes a message that is not an answer.
LEMMA CallTaken ==
    ASSUME inbox \in Seq(Messages), inbox # <<>>, inbox' = Tail(inbox), AnswersFit,
           UNCHANGED <<phase, work, crossed>>, ~IsAnswer(inbox[1])
    PROVE  AnswersFit'
<1>1. /\ NoAnswer(inbox) => NoAnswer(inbox')
      /\ \A types \in SUBSET {"granted", "refused", "loggedIn", "exception", "objects"} :
            OneAnswer(inbox, types) => OneAnswer(inbox', types)
    BY AnswersTaken
<1>2. /\ OneAnswer(inbox, {"granted"}) => OneAnswer(inbox', {"granted"})
      /\ OneAnswer(inbox, {"loggedIn"}) => OneAnswer(inbox', {"loggedIn"})
      /\ OneAnswer(inbox, {"objects"}) => OneAnswer(inbox', {"objects"})
      /\ OneAnswer(inbox, {"objects", "exception"}) => OneAnswer(inbox', {"objects", "exception"})
    BY <1>1
<1>3. phase # "gone"
    BY DEF AnswersFit
<1> QED BY <1>1, <1>2, <1>3 DEF AnswersFit, WaitsFor

\* The answer that the client takes is one that it waits for; no other is on its way.
LEMMA AnswerTaken ==
    ASSUME phase \in Phases, inbox \in Seq(Messages), inbox # <<>>, AnswersFit, IsAnswer(inbox[1])
    PROVE  /\ phase \notin {"start", "ready", "gone"} /\ work = "nothing" /\ NoAnswer(Tail(inbox))
           /\ inbox[1].type # "refused"
           /\ phase = "services" => inbox[1].type = "granted"
           /\ phase = "listing" => inbox[1].type \in {"objects", "exception"} /\ (~crossed => inbox[1].type = "objects")
<1>1. /\ ~NoAnswer(inbox)
      /\ \A types \in SUBSET {"granted", "refused", "loggedIn", "exception", "objects"} :
            OneAnswer(inbox, types) => NoAnswer(Tail(inbox)) /\ inbox[1].type \in types
    BY AnswersTaken
<1>2. /\ OneAnswer(inbox, {"granted"}) => NoAnswer(Tail(inbox)) /\ inbox[1].type = "granted"
      /\ OneAnswer(inbox, {"loggedIn"}) => NoAnswer(Tail(inbox)) /\ inbox[1].type = "loggedIn"
      /\ OneAnswer(inbox, {"objects"}) => NoAnswer(Tail(inbox)) /\ inbox[1].type = "objects"
      /\ OneAnswer(inbox, {"objects", "exception"}) => NoAnswer(Tail(inbox)) /\ inbox[1].type \in {"objects", "exception"}
    BY <1>1
<1>3. phase \notin {"start", "ready", "gone", "failed"}
    BY <1>1 DEF AnswersFit
<1>4. phase \in {"basicServices", "login", "services", "listing"} => work = "nothing" /\ NoAnswer(Tail(inbox))
    BY <1>1, <1>2 DEF AnswersFit, WaitsFor
<1>5. phase = "services" => inbox[1].type = "granted"
    BY <1>1, <1>2 DEF AnswersFit, WaitsFor
<1>6. phase = "listing" => inbox[1].type \in {"objects", "exception"} /\ (~crossed => inbox[1].type = "objects")
    <2> SUFFICES ASSUME phase = "listing"
                 PROVE  inbox[1].type \in {"objects", "exception"} /\ (~crossed => inbox[1].type = "objects")
        OBVIOUS
    <2>1. OneAnswer(inbox, IF crossed THEN {"objects", "exception"} ELSE {"objects"})
        BY <1>1 DEF AnswersFit, WaitsFor
    <2>2. CASE crossed
        BY <1>2, <2>1, <2>2
    <2>3. CASE ~crossed
        <3>1. OneAnswer(inbox, {"objects"})
            BY <2>1, <2>3
        <3> QED BY <1>2, <3>1
    <2> QED BY <2>2, <2>3
<1>7. phase \in {"basicServices", "login", "services", "listing"}
    BY <1>3 DEF Phases
<1>8. phase \in {"basicServices", "login"} => inbox[1].type # "refused"
    BY <1>1, <1>2 DEF AnswersFit, WaitsFor
<1> QED BY <1>3, <1>4, <1>5, <1>6, <1>7, <1>8

\* The user signs in.
LEMMA AuthInductive ==
    ASSUME Inductive, Auth
    PROVE  Inductive'
<1>1. /\ TypeOK /\ AnswersFit /\ HandlersFit /\ WorldFits /\ QueueFits /\ ListingFits
    BY DEF Inductive
<1>2. /\ phase = "start" /\ phase' = "basicServices" /\ work' = "basicServices"
      /\ UNCHANGED <<world, past, adding, removing, queued, handlers, listing, inbox, known, crossed, aborted>>
    BY DEF Auth, Request, worldVars
<1>3. TypeOK'
    BY <1>1, <1>2 DEF TypeOK, Phases, Requests
<1>4. AnswersFit' /\ HandlersFit'
    BY <1>1, <1>2 DEF AnswersFit, WaitsFor, HandlersFit
<1>5. DOMAIN known' = {} /\ ~Listens' /\ ~Listed' /\ \A i : ~Heard(i)'
    BY <1>1, <1>2 DEF WorldFits, Listens, Listed, Heard
<1>6. WorldFits'
    BY <1>1, <1>2, <1>5 DEF WorldFits
<1>7. QueueFits' /\ ListingFits'
    BY <1>1, <1>2 DEF QueueFits, ListingFits
<1>8. \A x \in Entities : Forgets(x)' /\ Learns(x)'
    BY <1>5 DEF Forgets, Learns
<1> QED BY <1>3, <1>4, <1>6, <1>7, <1>8 DEF Inductive

\* The first "implements" has been answered: the client logs in.
LEMMA LoginInductive ==
    ASSUME Inductive, Login
    PROVE  Inductive'
<1>1. /\ TypeOK /\ AnswersFit /\ HandlersFit /\ WorldFits /\ QueueFits /\ ListingFits
      /\ inbox \in Seq(Messages) /\ phase \in Phases
    BY DEF Inductive, TypeOK
<1>2. /\ phase = "basicServices" /\ phase' = "login" /\ work' = "login"
      /\ inbox # <<>> /\ Head(inbox).type = "granted" /\ inbox' = Tail(inbox)
      /\ UNCHANGED <<world, past, adding, removing, queued, handlers, listing, known, crossed, aborted>>
    BY DEF Login, Receives, TakeNext, Request, worldVars
<1>3. IsAnswer(inbox[1])
    BY <1>1, <1>2, Taken DEF IsAnswer
<1>4. NoAnswer(inbox')
    BY <1>1, <1>2, <1>3, AnswerTaken
<1>5. DOMAIN known' = {} /\ ~Listens' /\ ~Listed' /\ \A i : ~Heard(i)'
    BY <1>1, <1>2 DEF WorldFits, Listens, Listed, Heard
<1>6. WorldFits' /\ inbox' \in Seq(Messages)
    BY <1>1, <1>2, <1>5, InboxTaken
<1>7. TypeOK'
    BY <1>1, <1>2, <1>6 DEF TypeOK, Phases, Requests
<1>8. AnswersFit' /\ HandlersFit'
    BY <1>2, <1>4 DEF AnswersFit, WaitsFor, HandlersFit
<1>9. QueueFits' /\ ListingFits'
    BY <1>1, <1>2 DEF QueueFits, ListingFits
<1>10. \A x \in Entities : Forgets(x)' /\ Learns(x)'
    BY <1>5 DEF Forgets, Learns
<1> QED BY <1>6, <1>7, <1>8, <1>9, <1>10 DEF Inductive

\* The login has been answered: everything is registered, and the client asks for the services.
LEMMA ConnectInductive ==
    ASSUME Inductive, Connect
    PROVE  Inductive'
<1>1. /\ TypeOK /\ AnswersFit /\ HandlersFit /\ WorldFits /\ QueueFits /\ ListingFits
      /\ inbox \in Seq(Messages) /\ phase \in Phases
    BY DEF Inductive, TypeOK
<1>2. /\ phase = "login" /\ phase' = "services" /\ work' = "services"
      /\ inbox # <<>> /\ Head(inbox).type = "loggedIn" /\ inbox' = Tail(inbox)
      /\ UNCHANGED <<world, past, adding, removing, queued, handlers, listing, known, crossed, aborted>>
    BY DEF Connect, Receives, TakeNext, Request, worldVars
<1>3. IsAnswer(inbox[1])
    BY <1>1, <1>2, Taken DEF IsAnswer
<1>4. work = "nothing" /\ NoAnswer(inbox')
    BY <1>1, <1>2, <1>3, AnswerTaken
<1>5. DOMAIN known' = {} /\ ~Listens' /\ ~Listed'
    BY <1>1, <1>2 DEF WorldFits, Listens, Listed
<1>6. WorldFits' /\ inbox' \in Seq(Messages)
    BY <1>1, <1>2, <1>5, InboxTaken
<1>7. TypeOK'
    BY <1>1, <1>2, <1>6 DEF TypeOK, Phases, Requests
<1>8. AnswersFit' /\ HandlersFit'
    BY <1>1, <1>2, <1>4 DEF AnswersFit, WaitsFor, HandlersFit
<1>9. QueueFits' /\ ListingFits'
    BY <1>1, <1>2 DEF QueueFits, ListingFits
<1>10. \A i : ~Heard(i)'
    BY <1>4, <1>5 DEF Heard, NoAnswer, IsAnswer
<1>11. \A x \in Entities : Forgets(x)' /\ Learns(x)'
    BY <1>5, <1>10 DEF Forgets, Learns
<1> QED BY <1>6, <1>7, <1>8, <1>9, <1>11 DEF Inductive

\* What is going to be shown to a client that does not listen yet is going to be taken away behind it.
LEMMA ForgetsTakenEarly ==
    ASSUME inbox \in Seq(Messages), inbox # <<>>, inbox' = Tail(inbox),
           UNCHANGED <<world, removing>>, DOMAIN known' = {}, NEW e, Forgets(e),
           \A i \in DOMAIN inbox' : Heard(i)' => Heard(i + 1)
    PROVE  Forgets(e)'
<1>1. /\ \A i \in DOMAIN inbox' : i \in Nat \ {0} /\ i + 1 \in DOMAIN inbox /\ inbox'[i] = inbox[i + 1]
      /\ \A i \in DOMAIN inbox : i \in Nat \ {0} /\ (i # 1 => i - 1 \in DOMAIN inbox' /\ inbox'[i - 1] = inbox[i])
    <2>1. PICK t : t = inbox'
        OBVIOUS
    <2>2. t = Tail(inbox)
        BY <2>1
    <2> QED BY <2>1, <2>2, Taken
<1> SUFFICES ASSUME e \notin DOMAIN world \cup removing, NEW i \in DOMAIN inbox', Heard(i)', Shows(inbox'[i], e)
             PROVE  \E j \in DOMAIN inbox' : j > i /\ Removes(inbox'[j], e)
    BY DEF Forgets
<1>2. i \in Nat \ {0} /\ i + 1 \in DOMAIN inbox /\ Shows(inbox[i + 1], e) /\ Heard(i + 1)
    BY <1>1
<1>3. PICK j \in DOMAIN inbox : j > i + 1 /\ Removes(inbox[j], e)
    BY <1>2 DEF Forgets
<1>4. j \in Nat /\ j # 1 /\ j - 1 > i
    BY <1>1, <1>2, <1>3
<1> QED BY <1>1, <1>3, <1>4

\* The services have been granted: from now on the client listens.
LEMMA ConnectionEstablishedInductive ==
    ASSUME Inductive, ConnectionEstablished
    PROVE  Inductive'
<1>1. /\ TypeOK /\ AnswersFit /\ HandlersFit /\ WorldFits /\ QueueFits /\ ListingFits
      /\ inbox \in Seq(Messages) /\ phase \in Phases /\ \A x \in Entities : phase # "gone" => Forgets(x)
    BY DEF Inductive, TypeOK
<1>2. /\ phase = "services" /\ inbox # <<>> /\ Head(inbox).type \in {"granted", "refused"}
      /\ inbox' = Tail(inbox) /\ (Head(inbox).type = "granted" => phase' = "listing" /\ work' = "listObjects")
      /\ UNCHANGED <<world, past, adding, removing, queued, handlers, listing, known, crossed, aborted>>
    BY DEF ConnectionEstablished, Receives, TakeNext, Request, worldVars
<1>3. IsAnswer(inbox[1]) /\ 1 \in DOMAIN inbox /\ Head(inbox) = inbox[1]
    BY <1>1, <1>2, Taken DEF IsAnswer
<1>4. NoAnswer(inbox') /\ inbox[1].type = "granted" /\ phase' = "listing" /\ work' = "listObjects"
    BY <1>1, <1>2, <1>3, AnswerTaken
<1>5. DOMAIN known = {} /\ ~Listed' /\ Listens'
    BY <1>1, <1>2, <1>4 DEF WorldFits, Listens, Listed
<1>6. WorldFits' /\ inbox' \in Seq(Messages)
    BY <1>1, <1>2, <1>5, InboxTaken
<1>7. TypeOK'
    BY <1>1, <1>2, <1>4, <1>6 DEF TypeOK, Phases, Requests
<1>8. AnswersFit' /\ HandlersFit'
    BY <1>1, <1>2, <1>4 DEF AnswersFit, WaitsFor, HandlersFit
<1>9. QueueFits' /\ ListingFits'
    BY <1>1, <1>2, <1>4 DEF QueueFits, ListingFits
<1>10. \A i \in DOMAIN inbox' : Heard(i + 1)
    <2> SUFFICES ASSUME NEW i \in DOMAIN inbox' PROVE 1 < i + 1
        BY <1>2, <1>3, <1>4 DEF Heard
    <2>1. PICK t : t = inbox'
        OBVIOUS
    <2>2. t = Tail(inbox)
        BY <1>2, <2>1
    <2>3. \A k \in DOMAIN t : k \in Nat \ {0}
        BY <1>1, <1>2, <2>2, Taken
    <2> QED BY <2>1, <2>3
<1>11. ASSUME NEW x \in Entities PROVE Forgets(x)' /\ Learns(x)'
    <2>1. Forgets(x)'
        BY <1>1, <1>2, <1>5, <1>10, ForgetsTakenEarly
    <2> QED BY <1>5, <2>1 DEF Learns
<1> QED BY <1>6, <1>7, <1>8, <1>9, <1>11 DEF Inductive

\* A call of a function that the client has not registered is ignored.
LEMMA IgnoreCallInductive ==
    ASSUME Inductive, IgnoreCall
    PROVE  Inductive'
<1>1. /\ TypeOK /\ AnswersFit /\ HandlersFit /\ WorldFits /\ QueueFits /\ ListingFits
      /\ inbox \in Seq(Messages) /\ phase \in Phases /\ \A x \in Entities : phase # "gone" => Forgets(x)
    BY DEF Inductive, TypeOK
<1>2. /\ ~Listens /\ inbox # <<>> /\ Head(inbox).type \in {"new", "removed", "updates"} /\ inbox' = Tail(inbox)
      /\ UNCHANGED <<world, past, adding, removing, queued, handlers, work, listing, phase, known, crossed, aborted>>
    BY DEF IgnoreCall, Receives, TakeNext, worldVars, serverVars, clientVars
<1>3. 1 \in DOMAIN inbox /\ Head(inbox) = inbox[1] /\ ~IsAnswer(inbox[1]) /\ inbox[1].type # "granted"
    BY <1>1, <1>2, Taken DEF IsAnswer
<1>4. AnswersFit'
    BY <1>1, <1>2, <1>3, CallTaken
<1>5. phase # "gone" /\ ~Listens' /\ ~Listed'
    BY <1>1, <1>2 DEF AnswersFit, Listens, Listed
<1>6. DOMAIN known' = {}
    BY <1>1, <1>2, <1>5 DEF WorldFits
<1>7. WorldFits' /\ inbox' \in Seq(Messages)
    BY <1>1, <1>2, <1>6, InboxTaken
<1>8. TypeOK'
    BY <1>1, <1>2, <1>7 DEF TypeOK
<1>9. HandlersFit' /\ QueueFits' /\ ListingFits'
    BY <1>1, <1>2 DEF HandlersFit, QueueFits, ListingFits
<1>10. ASSUME NEW i \in DOMAIN inbox', Heard(i)' PROVE Heard(i + 1)
    <2>1. PICK t : t = inbox'
        OBVIOUS
    <2>2. t = Tail(inbox)
        BY <1>2, <2>1
    <2>3. \A k \in DOMAIN t : k \in Nat \ {0} /\ k + 1 \in DOMAIN inbox /\ t[k] = inbox[k + 1]
        BY <1>1, <1>2, <2>2, Taken
    <2>4. PICK j \in DOMAIN inbox' : j < i /\ inbox'[j].type = "granted"
        BY <1>5, <1>10 DEF Heard
    <2>5. phase = "services"
        BY <1>2, <1>5, <1>10 DEF Heard
    <2>6. j + 1 \in DOMAIN inbox /\ inbox[j + 1].type = "granted" /\ j + 1 < i + 1
        BY <2>1, <2>3, <2>4
    <2> QED BY <2>5, <2>6 DEF Heard
<1>11. ASSUME NEW x \in Entities PROVE Forgets(x)' /\ Learns(x)'
    <2>1. Forgets(x)'
        BY <1>1, <1>2, <1>5, <1>6, <1>10, ForgetsTakenEarly
    <2> QED BY <1>5, <2>1 DEF Learns
<1> QED BY <1>4, <1>7, <1>8, <1>9, <1>11 DEF Inductive

\* What a message shows, takes away or tells of, by its type.
LEMMA MessageTells ==
    ASSUME NEW m \in Messages
    PROVE  /\ m.type = "new" => \A e, v : /\ (Shows(m, e) <=> e = m.entity) /\ (Tells(m, e) <=> e = m.entity)
                                          /\ ~Removes(m, e) /\ (Says(m, e, v) <=> m.value = v)
           /\ m.type = "removed" => \A e : ~Shows(m, e) /\ ~Tells(m, e) /\ (Removes(m, e) <=> e = m.entity)
           /\ m.type = "updates" => \A e, v : /\ ~Shows(m, e) /\ (Tells(m, e) <=> Updated(m.updates, e))
                                              /\ ~Removes(m, e) /\ (Says(m, e, v) <=> LastUpdateIs(m.updates, e, v))
           /\ m.type = "objects" => \A e, v : /\ (Shows(m, e) <=> e \in DOMAIN m.infos) /\ (Tells(m, e) <=> e \in DOMAIN m.infos)
                                              /\ ~Removes(m, e) /\ (Says(m, e, v) <=> m.infos[e] = v)
           /\ m.type = "exception" => \A e : ~Shows(m, e) /\ ~Tells(m, e) /\ ~Removes(m, e)
<1>1. CASE m.type = "new"
    BY <1>1 DEF Shows, Tells, Removes, Says
<1>2. CASE m.type = "removed"
    BY <1>2 DEF Shows, Tells, Removes
<1>3. CASE m.type = "updates"
    BY <1>3 DEF Shows, Tells, Removes, Says
<1>4. CASE m.type = "objects"
    BY <1>4 DEF Shows, Tells, Removes, Says
<1>5. CASE m.type = "exception"
    BY <1>5 DEF Shows, Tells, Removes
<1> QED BY <1>1, <1>2, <1>3, <1>4, <1>5

\* The list of objects arrives, or its failure.
LEMMA ListObjectsCallbackInductive ==
    ASSUME Inductive, ListObjectsCallback
    PROVE  Inductive'
<1>1. /\ TypeOK /\ AnswersFit /\ HandlersFit /\ WorldFits /\ QueueFits /\ ListingFits
      /\ inbox \in Seq(Messages) /\ phase \in Phases /\ known \in Maps
      /\ \A x \in Entities : phase # "gone" => Forgets(x) /\ Learns(x)
    BY DEF Inductive, TypeOK
<1>2. /\ phase = "listing" /\ phase' = "ready" /\ inbox # <<>> /\ inbox' = Tail(inbox)
      /\ Head(inbox).type \in {"objects", "exception"}
      /\ UNCHANGED <<world, past, adding, removing, queued, handlers, work, listing, crossed, aborted>>
    BY DEF ListObjectsCallback, Receives, TakeNext, worldVars, serverVars
<1>3. PICK m \in Messages : m = inbox[1] /\ m = Head(inbox) /\ 1 \in DOMAIN inbox
    BY <1>1, <1>2, Taken
<1>4. work = "nothing" /\ NoAnswer(inbox') /\ (~crossed => m.type = "objects")
    <2>1. IsAnswer(inbox[1])
        BY <1>2, <1>3 DEF IsAnswer
    <2> QED BY <1>1, <1>2, <1>3, <2>1, AnswerTaken
<1>5. /\ m.type = "exception" => known' = known
      /\ m.type = "objects" => known' = [e \in DOMAIN known \cup DOMAIN m.infos |->
                                             IF e \in DOMAIN m.infos THEN m.infos[e] ELSE known[e]]
    BY <1>3 DEF ListObjectsCallback, Receives
<1>6. /\ known' \in Maps
      /\ m.type = "exception" => DOMAIN known' = DOMAIN known
      /\ m.type = "objects" => /\ DOMAIN known' = DOMAIN known \cup DOMAIN m.infos
                               /\ \A x \in DOMAIN m.infos : known'[x] = m.infos[x]
                               /\ \A x \in DOMAIN known \ DOMAIN m.infos : known'[x] = known[x]
    <2>1. CASE m.type = "exception"
        BY <1>1, <1>5, <2>1
    <2>2. CASE m.type = "objects"
        <3>1. PICK f \in Maps : f = m.infos
            BY <2>2, MessageFacts
        <3>2. PICK k \in Maps : k = known
            BY <1>1
        <3>3. PICK g : g = [e \in DOMAIN k \cup DOMAIN f |-> IF e \in DOMAIN f THEN f[e] ELSE k[e]]
            OBVIOUS
        <3>4. /\ DOMAIN f \subseteq Entities /\ f \in [DOMAIN f -> Values]
              /\ DOMAIN k \subseteq Entities /\ k \in [DOMAIN k -> Values]
            BY MapFacts
        <3>5. /\ g \in [DOMAIN k \cup DOMAIN f -> Values] /\ DOMAIN g = DOMAIN k \cup DOMAIN f
              /\ \A x \in DOMAIN f : g[x] = f[x]
              /\ \A x \in DOMAIN k \ DOMAIN f : g[x] = k[x]
            BY <3>3, <3>4
        <3>6. g \in Maps
            BY <3>4, <3>5, MapFacts
        <3>7. known' = g
            BY <1>5, <2>2, <3>1, <3>2, <3>3
        <3> QED BY <2>2, <3>1, <3>2, <3>5, <3>6, <3>7
    <2> QED BY <1>2, <1>3, <2>1, <2>2
<1>7. DOMAIN known' \subseteq past
    <2>1. \A x \in Entities : m.type = "objects" /\ x \in DOMAIN m.infos => x \in past
        BY <1>1, <1>3, MessageTells DEF WorldFits
    <2>2. m.type = "objects" => DOMAIN m.infos \subseteq Entities
        BY MessageFacts, MapFacts
    <2>3. DOMAIN known \subseteq past
        BY <1>1 DEF WorldFits
    <2> QED BY <1>2, <1>3, <1>6, <2>1, <2>2, <2>3
<1>8. Listens /\ Listens' /\ Listed
    BY <1>2, <1>4 DEF Listens, Listed
<1>9. WorldFits' /\ inbox' \in Seq(Messages)
    BY <1>1, <1>2, <1>7, <1>8, InboxTaken
<1>10. TypeOK'
    BY <1>1, <1>2, <1>6, <1>9 DEF TypeOK, Phases
<1>11. AnswersFit' /\ HandlersFit'
    BY <1>1, <1>2, <1>4 DEF AnswersFit, HandlersFit
<1>12. QueueFits' /\ ListingFits'
    BY <1>1, <1>2 DEF QueueFits, ListingFits
<1>13. ASSUME NEW x \in Entities PROVE Forgets(x)' /\ Learns(x)'
    <2>1. Forgets(x) /\ Learns(x)
        BY <1>1, <1>2
    <2>2. /\ ~Removes(inbox[1], x)
          /\ x \in DOMAIN known' => x \in DOMAIN known \/ Shows(inbox[1], x)
        BY <1>2, <1>3, <1>6, MessageTells
    <2>3. Forgets(x)'
        BY <1>1, <1>2, <1>8, <2>1, <2>2, ForgetsTaken
    <2>4. ASSUME ~crossed', ~aborted', x \in DOMAIN world
          PROVE  /\ x \in DOMAIN known \/ Shows(inbox[1], x) => x \in DOMAIN known'
                 /\ Tells(inbox[1], x) /\ Says(inbox[1], x, world[x]) => known'[x] = world[x]
                 /\ ~Tells(inbox[1], x) /\ x \in DOMAIN known => known'[x] = known[x]
        <3>1. m.type = "objects"
            BY <1>2, <1>4, <2>4
        <3> QED BY <1>3, <1>6, <3>1, MessageTells
    <2>5. Learns(x)'
        BY <1>1, <1>2, <1>8, <2>1, <2>4, LearnsTaken
    <2> QED BY <2>3, <2>5
<1> QED BY <1>9, <1>10, <1>11, <1>12, <1>13 DEF Inductive

\* The client takes a call: what is left to show of the invariant is what it makes of it.
LEMMA CallInductive ==
    ASSUME Inductive, Listens, inbox # <<>>, inbox' = Tail(inbox), NEW m \in Messages, m = inbox[1],
           ~IsAnswer(m), known' \in Maps, DOMAIN known' \subseteq past, aborted' \in BOOLEAN, aborted => aborted',
           UNCHANGED <<world, past, adding, removing, queued, handlers, work, listing, phase, crossed>>,
           \A x : Removes(m, x) => x \notin DOMAIN known',
           \A x \in DOMAIN known' : x \in DOMAIN known \/ Shows(m, x),
           ASSUME ~aborted', NEW x \in DOMAIN world
           PROVE  /\ x \in DOMAIN known \/ Shows(m, x) => x \in DOMAIN known'
                  /\ Tells(m, x) /\ Says(m, x, world[x]) => known'[x] = world[x]
                  /\ ~Tells(m, x) /\ x \in DOMAIN known => known'[x] = known[x]
    PROVE  Inductive'
<1>1. /\ TypeOK /\ AnswersFit /\ HandlersFit /\ WorldFits /\ QueueFits /\ ListingFits
      /\ inbox \in Seq(Messages) /\ phase \in {"listing", "ready"}
      /\ \A x \in Entities : phase # "gone" => Forgets(x) /\ Learns(x)
    BY DEF Inductive, TypeOK, Listens
<1>2. AnswersFit'
    BY <1>1, CallTaken
<1>3. Listens' /\ (Listed' <=> Listed)
    BY DEF Listens, Listed
<1>4. WorldFits' /\ inbox' \in Seq(Messages)
    BY <1>1, <1>3, InboxTaken
<1>5. TypeOK'
    BY <1>1, <1>4 DEF TypeOK
<1>6. HandlersFit' /\ QueueFits' /\ ListingFits'
    BY <1>1 DEF HandlersFit, QueueFits, ListingFits
<1>7. ASSUME NEW x \in Entities PROVE Forgets(x)' /\ Learns(x)'
    <2>1. Forgets(x) /\ Learns(x)
        BY <1>1
    <2>2. /\ Removes(inbox[1], x) => x \notin DOMAIN known'
          /\ x \in DOMAIN known' => x \in DOMAIN known \/ Shows(inbox[1], x)
        OBVIOUS
    <2>3. Forgets(x)'
        BY <1>1, <2>1, <2>2, ForgetsTaken
    <2>4. ASSUME ~crossed', ~aborted', x \in DOMAIN world
          PROVE  /\ x \in DOMAIN known \/ Shows(inbox[1], x) => x \in DOMAIN known'
                 /\ Tells(inbox[1], x) /\ Says(inbox[1], x, world[x]) => known'[x] = world[x]
                 /\ ~Tells(inbox[1], x) /\ x \in DOMAIN known => known'[x] = known[x]
        BY <2>4
    <2>5. Learns(x)'
        BY <1>1, <1>3, <2>1, <2>4, LearnsTaken
    <2> QED BY <2>3, <2>5
<1> QED BY <1>2, <1>4, <1>5, <1>6, <1>7 DEF Inductive

\* An entity is added on the client.
LEMMA AddEntityFromServerInductive ==
    ASSUME Inductive, AddEntityFromServer
    PROVE  Inductive'
<1>1. /\ TypeOK /\ WorldFits /\ inbox \in Seq(Messages) /\ known \in Maps
    BY DEF Inductive, TypeOK
<1>2. /\ Listens /\ inbox # <<>> /\ Head(inbox).type = "new" /\ inbox' = Tail(inbox)
      /\ known' = With(known, Head(inbox).entity, Head(inbox).value)
      /\ UNCHANGED <<world, past, adding, removing, queued, handlers, work, listing, phase, crossed, aborted>>
    BY DEF AddEntityFromServer, Receives, TakeNext, worldVars, serverVars
<1>3. PICK m \in Messages : m = inbox[1] /\ m = Head(inbox) /\ 1 \in DOMAIN inbox
    BY <1>1, <1>2, Taken
<1>4. m.type = "new" /\ ~IsAnswer(m)
    BY <1>2, <1>3 DEF IsAnswer
<1>5. PICK e \in Entities : e = m.entity
    BY <1>4, MessageFacts
<1>6. PICK v \in Values : v = m.value
    BY <1>4, MessageFacts
<1>7. /\ known' \in Maps /\ DOMAIN known' = DOMAIN known \cup {e} /\ known'[e] = v
      /\ \A x \in DOMAIN known : x # e => known'[x] = known[x]
    <2>1. known' = With(known, e, v)
        BY <1>2, <1>3, <1>5, <1>6
    <2>2. /\ With(known, e, v) \in Maps /\ DOMAIN With(known, e, v) = DOMAIN known \cup {e}
          /\ With(known, e, v)[e] = v
          /\ \A x \in DOMAIN known : x # e => With(known, e, v)[x] = known[x]
        BY <1>1, PutIn
    <2> QED BY <2>1, <2>2
<1>8. \A x, w : /\ (Shows(m, x) <=> x = e) /\ (Tells(m, x) <=> x = e) /\ ~Removes(m, x)
                /\ (Says(m, x, w) <=> v = w)
    BY <1>4, <1>5, <1>6, MessageTells
<1>9. DOMAIN known' \subseteq past
    <2>1. e \in past
        BY <1>1, <1>3, <1>8 DEF WorldFits
    <2> QED BY <1>1, <1>7, <2>1 DEF WorldFits
<1>10. aborted' \in BOOLEAN /\ (aborted => aborted')
    BY <1>1, <1>2 DEF TypeOK
<1>11. \A x \in DOMAIN world :
           /\ x \in DOMAIN known \/ Shows(m, x) => x \in DOMAIN known'
           /\ Tells(m, x) /\ Says(m, x, world[x]) => known'[x] = world[x]
           /\ ~Tells(m, x) /\ x \in DOMAIN known => known'[x] = known[x]
    BY <1>7, <1>8
<1>12. /\ \A x : Removes(m, x) => x \notin DOMAIN known'
       /\ \A x \in DOMAIN known' : x \in DOMAIN known \/ Shows(m, x)
    BY <1>7, <1>8
<1> QED BY <1>2, <1>3, <1>4, <1>7, <1>9, <1>10, <1>11, <1>12, CallInductive

\* An entity is removed on the client: the World has not held it for longer.
LEMMA RemoveEntityFromServerInductive ==
    ASSUME Inductive, RemoveEntityFromServer
    PROVE  Inductive'
<1>1. /\ TypeOK /\ WorldFits /\ inbox \in Seq(Messages) /\ known \in Maps
    BY DEF Inductive, TypeOK
<1>2. /\ Listens /\ inbox # <<>> /\ Head(inbox).type = "removed" /\ inbox' = Tail(inbox)
      /\ known' = Without(known, Head(inbox).entity)
      /\ UNCHANGED <<world, past, adding, removing, queued, handlers, work, listing, phase, crossed, aborted>>
    BY DEF RemoveEntityFromServer, Receives, TakeNext, worldVars, serverVars
<1>3. PICK m \in Messages : m = inbox[1] /\ m = Head(inbox) /\ 1 \in DOMAIN inbox
    BY <1>1, <1>2, Taken
<1>4. m.type = "removed" /\ ~IsAnswer(m)
    BY <1>2, <1>3 DEF IsAnswer
<1>5. PICK e \in Entities : e = m.entity
    BY <1>4, MessageFacts
<1>6. /\ known' \in Maps /\ DOMAIN known' = DOMAIN known \ {e}
      /\ \A x \in DOMAIN known : x # e => known'[x] = known[x]
    <2>1. known' = Without(known, e)
        BY <1>2, <1>3, <1>5
    <2>2. /\ Without(known, e) \in Maps /\ DOMAIN Without(known, e) = DOMAIN known \ {e}
          /\ \A x \in DOMAIN known : x # e => Without(known, e)[x] = known[x]
        BY <1>1, TakenOut
    <2> QED BY <2>1, <2>2
<1>7. \A x : (Removes(m, x) <=> x = e) /\ ~Shows(m, x) /\ ~Tells(m, x)
    BY <1>4, <1>5, MessageTells
<1>8. e \notin DOMAIN world
    BY <1>1, <1>3, <1>7 DEF WorldFits
<1>9. DOMAIN known' \subseteq past
    BY <1>1, <1>6 DEF WorldFits
<1>10. aborted' \in BOOLEAN /\ (aborted => aborted')
    BY <1>1, <1>2 DEF TypeOK
<1>11. \A x \in DOMAIN world :
           /\ x \in DOMAIN known \/ Shows(m, x) => x \in DOMAIN known'
           /\ Tells(m, x) /\ Says(m, x, world[x]) => known'[x] = world[x]
           /\ ~Tells(m, x) /\ x \in DOMAIN known => known'[x] = known[x]
    BY <1>6, <1>7, <1>8
<1>12. /\ \A x : Removes(m, x) => x \notin DOMAIN known'
       /\ \A x \in DOMAIN known' : x \in DOMAIN known \/ Shows(m, x)
    BY <1>6, <1>7
<1> QED BY <1>2, <1>3, <1>4, <1>6, <1>9, <1>10, <1>11, <1>12, CallInductive

\* Updates are applied up to the first that does not fit; the last one of an entity counts.
LEMMA UpdatesApplied ==
    ASSUME NEW u \in Seq(Updates), NEW k \in Maps
    PROVE  LET fits(n) == \A i \in 1 .. n : u[i].entity \in DOMAIN k
               n == CHOOSE x \in 0 .. Len(u) : fits(x) /\ (x < Len(u) => ~fits(x + 1))
               last(e) == CHOOSE i \in 1 .. n :
                             u[i].entity = e /\ \A j \in i + 1 .. n : u[j].entity # e
               updated == {u[i].entity : i \in 1 .. n}
               g == [e \in DOMAIN k |-> IF e \in updated THEN u[last(e)].value ELSE k[e]]
           IN  /\ g \in Maps /\ DOMAIN g = DOMAIN k
               /\ ~(n < Len(u)) => \A e : /\ Updated(u, e) => e \in DOMAIN k
                                          /\ \A v : Updated(u, e) /\ LastUpdateIs(u, e, v) => g[e] = v
                                          /\ ~Updated(u, e) /\ e \in DOMAIN k => g[e] = k[e]
<1> DEFINE a == Len(u)
           fits(n) == \A i \in 1 .. n : u[i].entity \in DOMAIN k
           P(x) == fits(x) /\ (x < a => ~fits(x + 1))
<1>1. a \in Nat /\ DOMAIN u = 1 .. a /\ \A i \in 1 .. a : u[i] \in Updates
    BY LenProperties
<1>2. \E x \in 0 .. a : P(x)
    <2> HIDE DEF a
    <2>1. PICK S \in SUBSET (0 .. a) : S = {x \in 0 .. a : fits(x)}
        OBVIOUS
    <2>2. 0 \in S
        <3>1. fits(0)
            OBVIOUS
        <3> QED BY <1>1, <2>1, <3>1
    <2>3. PICK x \in S : \A l \in S : l <= x
        BY <1>1, <2>2, LastOne
    <2>4. ASSUME x < a, fits(x + 1) PROVE FALSE
        <3>1. x \in Nat /\ x + 1 \in 0 .. a
            BY <1>1, <2>1, <2>4
        <3>2. x + 1 <= x
            BY <2>1, <2>3, <2>4, <3>1
        <3> QED BY <3>1, <3>2
    <2> QED BY <2>1, <2>3, <2>4
<1> DEFINE n == CHOOSE x \in 0 .. a : P(x)
<1>3. n \in 0 .. a /\ P(n)
    <2> HIDE DEF P, a
    <2> QED BY <1>2
<1> HIDE DEF n
<1>4. n \in Nat /\ n <= a /\ n \in 0 .. a /\ P(n)
    <2> HIDE DEF P, a
    <2> QED BY <1>1, <1>3
<1> DEFINE Q(e, i) == u[i].entity = e /\ \A j \in i + 1 .. n : u[j].entity # e
           last(e) == CHOOSE i \in 1 .. n : Q(e, i)
           updated == {u[i].entity : i \in 1 .. n}
           g == [e \in DOMAIN k |-> IF e \in updated THEN u[last(e)].value ELSE k[e]]
<1> HIDE DEF a
<1>5. ASSUME NEW e \in updated PROVE last(e) \in 1 .. n /\ Q(e, last(e))
    <2>1. PICK S \in SUBSET (0 .. n) : S = {i \in 1 .. n : u[i].entity = e}
        <3>1. {i \in 1 .. n : u[i].entity = e} \subseteq 0 .. n
            BY <1>4
        <3> QED BY <3>1
    <2>2. S # {} /\ n \in Nat
        BY <1>1, <1>4, <2>1
    <2>3. PICK i \in S : \A l \in S : l <= i
        BY <2>2, LastOne
    <2>4. ASSUME NEW j \in i + 1 .. n, u[j].entity = e PROVE FALSE
        <3>1. i \in Nat /\ j \in 1 .. n /\ j > i
            BY <1>1, <2>1, <2>2
        <3>2. j <= i
            BY <2>1, <2>3, <2>4, <3>1
        <3> QED BY <2>2, <3>1, <3>2
    <2>5. \E l \in 1 .. n : Q(e, l)
        BY <2>1, <2>3, <2>4
    <2> HIDE DEF Q
    <2> QED BY <2>5
<1>6. \A i \in 1 .. n : i \in 1 .. a
    BY <1>1, <1>4
<1>7. DOMAIN k \subseteq Entities /\ k \in [DOMAIN k -> Values]
    BY MapFacts
<1>8. g \in Maps /\ DOMAIN g = DOMAIN k
    <2>1. \A e \in updated : u[last(e)].value \in Values
        <3> HIDE DEF last, Q, updated
        <3> QED BY <1>1, <1>5, <1>6 DEF Updates
    <2> HIDE DEF last, updated
    <2>2. g \in [DOMAIN k -> Values] /\ DOMAIN g = DOMAIN k
        BY <1>7, <2>1
    <2> HIDE DEF g
    <2> QED BY <1>7, <2>2, MapFacts
<1>9. ASSUME ~(n < a), NEW e
      PROVE  /\ Updated(u, e) => e \in DOMAIN k
             /\ \A v : Updated(u, e) /\ LastUpdateIs(u, e, v) => g[e] = v
             /\ ~Updated(u, e) /\ e \in DOMAIN k => g[e] = k[e]
    <2>1. n = a
        BY <1>1, <1>4, <1>9
    <2>2. Updated(u, e) <=> e \in updated
        BY <1>1, <2>1 DEF Updated
    <2>3. Updated(u, e) => e \in DOMAIN k
        BY <1>1, <1>4, <2>1 DEF Updated
    <2>4. ASSUME NEW v, Updated(u, e), LastUpdateIs(u, e, v) PROVE g[e] = v
        <3>1. last(e) \in 1 .. n /\ Q(e, last(e))
            BY <1>5, <2>2, <2>4
        <3>2. PICK i \in 1 .. n : i = last(e) /\ Q(e, i)
            BY <3>1
        <3>3. \A j \in DOMAIN u : j > i => u[j].entity # e
            <4> SUFFICES ASSUME NEW j \in 1 .. n, j > i PROVE j \in i + 1 .. n
                BY <1>1, <2>1, <3>2
            <4> QED BY <1>1, <2>1
        <3>4. u[i].value = v
            BY <1>1, <2>1, <2>4, <3>2, <3>3 DEF LastUpdateIs
        <3> HIDE DEF last, updated
        <3> QED BY <2>2, <2>3, <2>4, <3>2, <3>4
    <2>5. ~Updated(u, e) /\ e \in DOMAIN k => g[e] = k[e]
        <3> HIDE DEF last, updated
        <3> QED BY <2>2
    <2> QED BY <2>3, <2>4, <2>5
<1>10. /\ g \in Maps /\ DOMAIN g = DOMAIN k
       /\ ~(n < a) => \A e : /\ Updated(u, e) => e \in DOMAIN k
                             /\ \A v : Updated(u, e) /\ LastUpdateIs(u, e, v) => g[e] = v
                             /\ ~Updated(u, e) /\ e \in DOMAIN k => g[e] = k[e]
    <2> HIDE DEF g
    <2> QED BY <1>8, <1>9
<1> QED BY <1>10 DEF n, a

\* Updates are applied on the client.
LEMMA ApplyObjectUpdatesInductive ==
    ASSUME Inductive, ApplyObjectUpdates
    PROVE  Inductive'
<1>1. /\ TypeOK /\ WorldFits /\ inbox \in Seq(Messages) /\ known \in Maps /\ aborted \in BOOLEAN
    BY DEF Inductive, TypeOK
<1>2. /\ Listens /\ inbox # <<>> /\ Head(inbox).type = "updates" /\ inbox' = Tail(inbox)
      /\ UNCHANGED <<world, past, adding, removing, queued, handlers, work, listing, phase, crossed>>
    BY DEF ApplyObjectUpdates, Receives, TakeNext, worldVars, serverVars
<1>3. PICK m \in Messages : m = inbox[1] /\ m = Head(inbox) /\ 1 \in DOMAIN inbox
    BY <1>1, <1>2, Taken
<1>4. m.type = "updates" /\ ~IsAnswer(m)
    BY <1>2, <1>3 DEF IsAnswer
<1> DEFINE u == Head(inbox).updates
<1>5. u \in Seq(Updates) /\ u = m.updates
    BY <1>3, <1>4, MessageFacts
<1> DEFINE fits(n) == \A i \in 1 .. n : u[i].entity \in DOMAIN known
           n == CHOOSE x \in 0 .. Len(u) : fits(x) /\ (x < Len(u) => ~fits(x + 1))
           last(e) == CHOOSE i \in 1 .. n :
                         u[i].entity = e /\ \A j \in i + 1 .. n : u[j].entity # e
           updated == {u[i].entity : i \in 1 .. n}
           g == [e \in DOMAIN known |-> IF e \in updated THEN u[last(e)].value ELSE known[e]]
<1>7. known' = g /\ aborted' = (aborted \/ n < Len(u))
    BY Zenon DEF ApplyObjectUpdates
<1>8. /\ g \in Maps /\ DOMAIN g = DOMAIN known
      /\ ~(n < Len(u)) => \A e : /\ Updated(u, e) => e \in DOMAIN known
                                 /\ \A v : Updated(u, e) /\ LastUpdateIs(u, e, v) => g[e] = v
                                 /\ ~Updated(u, e) /\ e \in DOMAIN known => g[e] = known[e]
    BY <1>1, <1>5, UpdatesApplied, Zenon
<1>9. aborted' \in BOOLEAN /\ (aborted => aborted') /\ (~aborted' => ~(n < Len(u)))
    <2> HIDE DEF n
    <2> QED BY <1>1, <1>7, Zenon
<1> HIDE DEF n, g, u
<1>10. known' \in Maps /\ DOMAIN known' = DOMAIN known /\ DOMAIN known' \subseteq past
    BY <1>1, <1>7, <1>8 DEF WorldFits
<1>11. \A x, v : /\ ~Shows(m, x) /\ (Tells(m, x) <=> Updated(u, x)) /\ ~Removes(m, x)
                 /\ (Says(m, x, v) <=> LastUpdateIs(u, x, v))
    BY <1>4, <1>5, MessageTells
<1>12. ~aborted' => \A x \in DOMAIN world :
           /\ x \in DOMAIN known \/ Shows(m, x) => x \in DOMAIN known'
           /\ Tells(m, x) /\ Says(m, x, world[x]) => known'[x] = world[x]
           /\ ~Tells(m, x) /\ x \in DOMAIN known => known'[x] = known[x]
    BY <1>7, <1>8, <1>9, <1>10, <1>11
<1>13. /\ \A x : Removes(m, x) => x \notin DOMAIN known'
       /\ \A x \in DOMAIN known' : x \in DOMAIN known \/ Shows(m, x)
    BY <1>10, <1>11
<1> QED BY <1>2, <1>3, <1>4, <1>9, <1>10, <1>12, <1>13, CallInductive

(***************************************************************************)
(* The invariant and what follows from it.                                 *)
(***************************************************************************)

\* The invariant holds when nobody has signed in, and the World is what it was filled with.
LEMMA InitInductive ==
    Init => Inductive
<1> SUFFICES ASSUME Init PROVE Inductive
    OBVIOUS
<1>1. /\ world = [e \in Initial |-> 0] /\ past = Initial /\ adding = {} /\ removing = {} /\ queued = <<>>
      /\ handlers = {} /\ work = "nothing" /\ listing = Empty /\ phase = "start" /\ inbox = <<>>
      /\ known = Empty /\ crossed = FALSE /\ aborted = FALSE
    BY DEF Init
<1>2. Empty \in Maps /\ DOMAIN Empty = {}
    BY EmptyMap
<1>3. world \in Maps /\ DOMAIN world = Initial
    <2>1. 0 \in Values
        BY SessionAssumption DEF Values
    <2>2. PICK f : f = [e \in Initial |-> 0]
        OBVIOUS
    <2>3. f \in [Initial -> Values] /\ DOMAIN f = Initial
        BY <2>1, <2>2
    <2> QED BY <1>1, <2>2, <2>3, MapFacts, SessionAssumption
<1>4. /\ inbox \in Seq(Messages) /\ queued \in Seq(Updates)
      /\ DOMAIN inbox = {} /\ DOMAIN queued = {}
    BY <1>1, <1>2, EmptySeq DEF Empty
<1>5. TypeOK
    BY <1>1, <1>2, <1>3, <1>4, SessionAssumption DEF TypeOK, Phases
<1>6. AnswersFit /\ HandlersFit
    BY <1>1, <1>4 DEF AnswersFit, HandlersFit, NoAnswer
<1>7. WorldFits
    BY <1>1, <1>2, <1>3, <1>4 DEF WorldFits
<1>8. QueueFits /\ ListingFits
    BY <1>1, <1>4 DEF QueueFits, ListingFits, LastUpdateIs
<1>9. ASSUME NEW e \in Entities PROVE Forgets(e) /\ Learns(e)
    BY <1>1, <1>2, EarlyKept
<1> QED BY <1>5, <1>6, <1>7, <1>8, <1>9 DEF Inductive

\* The invariant is kept when nothing happens.
LEMMA StutterInductive ==
    ASSUME Inductive, UNCHANGED vars
    PROVE  Inductive'
<1>1. UNCHANGED <<world, past, adding, removing, queued, handlers, work, listing, phase, inbox, known, crossed, aborted>>
    BY DEF vars, worldVars, serverVars, clientVars
<1>2. /\ TypeOK' /\ HandlersFit' /\ QueueFits' /\ ListingFits'
    BY <1>1 DEF Inductive, TypeOK, HandlersFit, QueueFits, ListingFits
<1>3. AnswersFit'
    BY <1>1, AnswersPushed DEF Inductive, TypeOK
<1>4. WorldFits'
    BY <1>1 DEF Inductive, WorldFits, Listens
<1>5. /\ \A i : Heard(i)' <=> Heard(i)
      /\ Listed' <=> Listed
    BY <1>1 DEF Heard, Listens, Listed
<1>6. phase' # "gone" => \A e \in Entities : Forgets(e)' /\ Learns(e)'
    BY <1>1, <1>5 DEF Inductive, Forgets, Learns
<1> QED BY <1>2, <1>3, <1>4, <1>6 DEF Inductive

\* The invariant is kept by every step.
LEMMA NextInductive ==
    Inductive /\ [Next]_vars => Inductive'
<1> SUFFICES ASSUME Inductive, [Next]_vars PROVE Inductive'
    OBVIOUS
<1>1. ASSUME NEW e \in Entities,
             AddEntity(e) \/ HandleEntityAdded(e) \/ RemoveEntity(e) \/ HandleEntityRemoved(e) \/ ChangeAttribute(e)
      PROVE  Inductive'
    BY <1>1, AddEntityInductive, EntityAddedInductive, RemoveEntityInductive, EntityRemovedInductive,
       ChangeAttributeInductive
<1>2. ASSUME FlushUpdates PROVE Inductive'
    BY <1>2, FlushInductive
<1>3. ASSUME ServerStep PROVE Inductive'
    BY <1>3, ImplementsInductive, ReceiveInductive, AuthenticatedImplementsInductive,
       StartListingInductive, FinishListingInductive DEF ServerStep
<1>4. ASSUME ClientStep PROVE Inductive'
    BY <1>4, AuthInductive, LoginInductive, ConnectInductive, ConnectionEstablishedInductive,
       ListObjectsCallbackInductive, IgnoreCallInductive, AddEntityFromServerInductive,
       RemoveEntityFromServerInductive, ApplyObjectUpdatesInductive DEF ClientStep
<1>5. ASSUME ConnectionClosed PROVE Inductive'
    BY <1>5, ConnectionClosedInductive
<1>6. ASSUME UNCHANGED vars PROVE Inductive'
    BY <1>6, StutterInductive
<1> QED BY <1>1, <1>2, <1>3, <1>4, <1>5, <1>6 DEF Next

\* ClientManager.cs, fives_communicator.js and clientsync.js keep the invariant: of an entity, the
\* queue of updates, the messages on their way and the client's registry together hold the value,
\* and the removal, that the client is going to end with.
THEOREM InductiveInvariant == Spec => []Inductive
BY InitInductive, NextInductive, PTL DEF Spec

\* The variables have their types in every reachable state.
THEOREM TypeCorrect == Spec => []TypeOK
<1>1. Inductive => TypeOK
    BY DEF Inductive
<1> QED BY <1>1, InductiveInvariant, PTL

\* A client that has signed in is granted the services: ReceiveAuthenticatedClient has registered
\* the functions before Authenticate answers.
THEOREM SignInIsGranted == Spec => []NeverRefused
<1>1. ASSUME Inductive PROVE NeverRefused
    <2>1. AnswersFit /\ inbox \in Seq(Messages) /\ phase \in Phases
        BY <1>1 DEF Inductive, TypeOK
    <2>2. phase # "failed"
        BY <2>1 DEF AnswersFit
    <2>3. ASSUME inbox # <<>>, Head(inbox).type = "refused" PROVE FALSE
        <3>1. Head(inbox) = inbox[1]
            BY <2>1, <2>3, Taken
        <3>2. IsAnswer(inbox[1]) /\ inbox[1].type = "refused"
            BY <2>3, <3>1 DEF IsAnswer
        <3> QED BY <2>1, <2>3, <3>2, AnswerTaken
    <2> QED BY <2>2, <2>3 DEF NeverRefused, Receives
<1> QED BY <1>1, InductiveInvariant, PTL

\* The client ends with the World: when nothing is under way it has the entities that the World
\* has, with their values, unless the list of objects failed or was overtaken by updates, or the
\* client gave updates up.
THEOREM ClientEndsWithWorld == Spec => []ClientFollows
<1>1. ASSUME Inductive PROVE ClientFollows
    <2> SUFFICES ASSUME Quiet, ~crossed, ~aborted PROVE known = world
        BY DEF ClientFollows
    <2>1. /\ phase = "ready" /\ inbox = <<>> /\ queued = <<>> /\ adding = {} /\ removing = {}
          /\ known \in Maps /\ world \in Maps
          /\ \A e \in Entities : Forgets(e) /\ Learns(e)
        BY <1>1 DEF Inductive, Quiet, TypeOK
    <2>2. DOMAIN inbox = {} /\ \A e : ~Updated(queued, e)
        BY <2>1, EmptyMap DEF Empty, Updated
    <2>3. /\ DOMAIN known \subseteq Entities /\ known \in [DOMAIN known -> Values]
          /\ DOMAIN world \subseteq Entities /\ world \in [DOMAIN world -> Values]
        BY <2>1, MapFacts
    <2>4. ASSUME NEW e \in Entities, e \notin DOMAIN world PROVE e \notin DOMAIN known
        BY <2>1, <2>2, <2>4 DEF Forgets
    <2>5. ASSUME NEW e \in DOMAIN world PROVE e \in DOMAIN known /\ known[e] = world[e]
        BY <2>1, <2>2, <2>3, <2>5 DEF Learns, Listed
    <2>6. DOMAIN known = DOMAIN world
        BY <2>3, <2>4, <2>5
    <2> QED BY <2>3, <2>5, <2>6
<1> QED BY <1>1, InductiveInvariant, PTL
=============================================================================
