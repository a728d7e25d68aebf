------------------------- MODULE PluginManagerProofs -------------------------
(* Proofs about PluginManager, for any set of plugins and components, any       *)
(* dependencies between them, any handlers, and any choice of those that fail.  *)
EXTENDS PluginManager, SequenceTheorems, TLAPS

(***************************************************************************)
(* The frames of open calls.                                               *)
(***************************************************************************)

\* The fields a frame has, by the call it stands for.
LEMMA FrameTypes ==
    ASSUME NEW f \in Frame
    PROVE  /\ f.call \in {"Initialize", "LoadDeferred", "Notify"}
           /\ f.call = "Initialize" =>
                f.plugin \in Plugin /\ f.direct \in BOOLEAN
                /\ f.registers \subseteq Component /\ f.awaits \subseteq Plugin
           /\ f.call = "LoadDeferred" => f.ready \subseteq Plugin
           /\ f.call = "Notify" => f.plugin \in Plugin /\ f.owners \subseteq Plugin
           /\ Claims(f) \subseteq Plugin
BY DEF Frame, Claims

\* Append to a sequence of one element.
LEMMA Pair ==
    ASSUME NEW S, NEW f \in S, NEW g \in S
    PROVE  Append(<<g>>, f) = <<g, f>>
<1> DEFINE s == <<g>>
           t == <<g, f>>
           r == Append(s, f)
<1>1. s \in Seq(S) /\ Len(s) = 1 /\ s[1] = g
    OBVIOUS
<1>2. t \in Seq(S) /\ Len(t) = 2 /\ t[1] = g /\ t[2] = f
    OBVIOUS
<1> HIDE DEF s, t
<1>3. r \in Seq(S) /\ Len(r) = Len(s) + 1 /\ r[Len(s) + 1] = f /\ \A i \in 1 .. Len(s) : r[i] = s[i]
    <2>1. s \in Seq(S)
        BY <1>1
    <2> QED BY <2>1, AppendProperties
<1>4. Len(s) + 1 = 2 /\ 1 \in 1 .. Len(s)
    BY <1>1
<1> HIDE DEF r
<1>5. Len(r) = 2 /\ r[1] = g /\ r[2] = f
    BY <1>1, <1>3, <1>4
<1>6. \A i \in 1 .. Len(r) : r[i] = t[i]
    <2>1. \A i \in 1 .. 2 : i = 1 \/ i = 2
        OBVIOUS
    <2> QED BY <1>2, <1>5, <2>1
<1>7. r = t
    BY <1>2, <1>3, <1>5, <1>6, SeqEqual
<1> QED BY <1>7 DEF s, t, r

\* Two calls that begin one inside the other begin one after the other.
LEMMA TwoPushed ==
    ASSUME NEW f \in Frame, NEW g \in Frame, NEW s \in Seq(Frame)
    PROVE  <<g, f>> \o s = <<g>> \o (<<f>> \o s)
<1>1. <<f>> \in Seq(Frame) /\ <<g>> \in Seq(Frame)
    OBVIOUS
<1>2. <<g>> \o <<f>> = <<g, f>>
    <2>1. <<g>> \o <<f>> = Append(<<g>>, f)
        BY <1>1, AppendIsConcat
    <2> QED BY <2>1, Pair
<1>3. (<<g>> \o <<f>>) \o s = <<g>> \o (<<f>> \o s)
    BY <1>1, ConcatAssociative
<1> QED BY <1>2, <1>3

\* What remains of a call when it has registered a component.
LEMMA RegistersLess ==
    ASSUME NEW f \in Frame, f.call = "Initialize", NEW c
    PROVE  LET g == [f EXCEPT !.registers = @ \ {c}] IN
           /\ g \in Frame /\ g.call = "Initialize" /\ g.plugin = f.plugin
           /\ g.direct = f.direct /\ g.awaits = f.awaits
<1> DEFINE g == [f EXCEPT !.registers = @ \ {c}]
<1>1. f \in [call : {"Initialize"}, plugin : Plugin, direct : BOOLEAN,
             registers : SUBSET Component, awaits : SUBSET Plugin]
    BY DEF Frame
<1>2. g \in [call : {"Initialize"}, plugin : Plugin, direct : BOOLEAN,
             registers : SUBSET Component, awaits : SUBSET Plugin]
    BY <1>1
<1> QED BY <1>1, <1>2 DEF Frame

\* What remains of a call when it has added a handler.
LEMMA AwaitsLess ==
    ASSUME NEW f \in Frame, f.call = "Initialize", NEW q
    PROVE  LET g == [f EXCEPT !.awaits = @ \ {q}] IN
           /\ g \in Frame /\ g.call = "Initialize" /\ g.plugin = f.plugin
           /\ g.direct = f.direct /\ g.awaits = f.awaits \ {q}
<1> DEFINE g == [f EXCEPT !.awaits = @ \ {q}]
<1>1. f \in [call : {"Initialize"}, plugin : Plugin, direct : BOOLEAN,
             registers : SUBSET Component, awaits : SUBSET Plugin]
    BY DEF Frame
<1>2. g \in [call : {"Initialize"}, plugin : Plugin, direct : BOOLEAN,
             registers : SUBSET Component, awaits : SUBSET Plugin]
    BY <1>1
<1> QED BY <1>1, <1>2 DEF Frame

\* What remains of a call when it goes on to its next plugin.
LEMMA ReadyLess ==
    ASSUME NEW f \in Frame, f.call = "LoadDeferred", NEW p
    PROVE  LET g == [f EXCEPT !.ready = @ \ {p}] IN
           g \in Frame /\ g.call = "LoadDeferred" /\ g.ready = f.ready \ {p}
<1> DEFINE g == [f EXCEPT !.ready = @ \ {p}]
<1>1. f \in [call : {"LoadDeferred"}, ready : SUBSET Plugin]
    BY DEF Frame
<1>2. g \in [call : {"LoadDeferred"}, ready : SUBSET Plugin]
    BY <1>1
<1> QED BY <1>1, <1>2 DEF Frame

\* What remains of a call when it goes on to its next handler.
LEMMA OwnersLess ==
    ASSUME NEW f \in Frame, f.call = "Notify", NEW o
    PROVE  LET g == [f EXCEPT !.owners = @ \ {o}] IN
           g \in Frame /\ g.call = "Notify" /\ g.plugin = f.plugin /\ g.owners = f.owners \ {o}
<1> DEFINE g == [f EXCEPT !.owners = @ \ {o}]
<1>1. f \in [call : {"Notify"}, plugin : Plugin, owners : SUBSET Plugin]
    BY DEF Frame
<1>2. g \in [call : {"Notify"}, plugin : Plugin, owners : SUBSET Plugin]
    BY <1>1
<1> QED BY <1>1, <1>2 DEF Frame

\* The calls that begin.
LEMMA NewFrames ==
    /\ \A p \in Plugin, d \in BOOLEAN :
          LET f == Initialize(p, d) IN
          /\ f \in Frame /\ f.call = "Initialize" /\ f.plugin = p /\ f.direct = d
          /\ Claims(f) = {p}
    /\ \A P \in SUBSET Plugin :
          LET f == [call |-> "LoadDeferred", ready |-> P] IN
          f \in Frame /\ f.call = "LoadDeferred" /\ f.ready = P /\ Claims(f) = P
    /\ \A p \in Plugin, P \in SUBSET Plugin :
          LET f == [call |-> "Notify", plugin |-> p, owners |-> P] IN
          /\ f \in Frame /\ f.call = "Notify" /\ f.plugin = p /\ f.owners = P
          /\ Claims(f) = {p}
<1>1. ASSUME NEW p \in Plugin, NEW d \in BOOLEAN
      PROVE  LET f == Initialize(p, d) IN
             /\ f \in Frame /\ f.call = "Initialize" /\ f.plugin = p /\ f.direct = d
             /\ Claims(f) = {p}
    <2>1. Registers[p] \subseteq Component /\ Awaits[p] \subseteq Plugin
        BY PluginAssumption
    <2> QED BY <2>1 DEF Initialize, Frame, Claims
<1>2. ASSUME NEW P \in SUBSET Plugin
      PROVE  LET f == [call |-> "LoadDeferred", ready |-> P] IN
             f \in Frame /\ f.call = "LoadDeferred" /\ f.ready = P /\ Claims(f) = P
    BY DEF Frame, Claims
<1>3. ASSUME NEW p \in Plugin, NEW P \in SUBSET Plugin
      PROVE  LET f == [call |-> "Notify", plugin |-> p, owners |-> P] IN
             /\ f \in Frame /\ f.call = "Notify" /\ f.plugin = p /\ f.owners = P
             /\ Claims(f) = {p}
    BY DEF Frame, Claims
<1> QED BY <1>1, <1>2, <1>3

(***************************************************************************)
(* The stack of open calls.                                                *)
(***************************************************************************)

\* The innermost call is the first frame.
LEMMA Top ==
    ASSUME NEW s \in Seq(Frame), s # <<>>
    PROVE  /\ Len(s) \in Nat \ {0} /\ DOMAIN s = 1 .. Len(s) /\ 1 \in DOMAIN s
           /\ Head(s) = s[1] /\ Head(s) \in Frame
           /\ Tail(s) \in Seq(Frame) /\ Len(Tail(s)) = Len(s) - 1
           /\ DOMAIN Tail(s) = 1 .. Len(s) - 1
           /\ \A i \in 1 .. Len(s) - 1 : Tail(s)[i] = s[i + 1]
<1>1. Len(s) \in Nat \ {0} /\ DOMAIN s = 1 .. Len(s) /\ 1 \in DOMAIN s
    BY EmptySeq, LenProperties
<1>2. Head(s) = s[1] /\ Head(s) \in Frame
    BY <1>1
<1>3. /\ Tail(s) \in Seq(Frame) /\ Len(Tail(s)) = Len(s) - 1
      /\ \A i \in 1 .. Len(s) - 1 : Tail(s)[i] = s[i + 1]
    BY HeadTailProperties
<1> QED BY <1>1, <1>2, <1>3, LenProperties

\* A call on top of others.
LEMMA Pushed ==
    ASSUME NEW f \in Frame, NEW s \in Seq(Frame)
    PROVE  /\ <<f>> \o s \in Seq(Frame) /\ Len(<<f>> \o s) = Len(s) + 1 /\ Len(s) \in Nat
           /\ DOMAIN (<<f>> \o s) = 1 .. Len(s) + 1
           /\ (<<f>> \o s)[1] = f
           /\ \A i \in 1 .. Len(s) : (<<f>> \o s)[i + 1] = s[i]
<1>1. <<f>> \in Seq(Frame) /\ Len(<<f>>) = 1 /\ <<f>>[1] = f /\ Len(s) \in Nat
    BY LenProperties
<1>2. /\ <<f>> \o s \in Seq(Frame) /\ Len(<<f>> \o s) = 1 + Len(s)
      /\ \A i \in 1 .. 1 + Len(s) : (<<f>> \o s)[i] = IF i <= 1 THEN <<f>>[i] ELSE s[i - 1]
    BY <1>1, ConcatProperties
<1>3. (<<f>> \o s)[1] = f
    BY <1>1, <1>2
<1>4. ASSUME NEW i \in 1 .. Len(s) PROVE (<<f>> \o s)[i + 1] = s[i]
    <2>1. i + 1 \in 1 .. 1 + Len(s) /\ ~(i + 1 <= 1) /\ (i + 1) - 1 = i
        BY <1>1
    <2> QED BY <1>2, <2>1
<1>5. 1 + Len(s) = Len(s) + 1
    BY <1>1
<1> QED BY <1>1, <1>2, <1>3, <1>4, <1>5, LenProperties

\* The innermost call goes on: its frame changes, the others stay.
LEMMA Replaced ==
    ASSUME NEW s \in Seq(Frame), s # <<>>, NEW f \in Frame
    PROVE  /\ <<f>> \o Tail(s) \in Seq(Frame) /\ DOMAIN (<<f>> \o Tail(s)) = DOMAIN s
           /\ <<f>> \o Tail(s) # <<>>
           /\ Len(<<f>> \o Tail(s)) = Len(s)
           /\ (<<f>> \o Tail(s))[1] = f
           /\ \A i \in DOMAIN s : i # 1 => (<<f>> \o Tail(s))[i] = s[i]
<1>1. /\ <<f>> \o Tail(s) \in Seq(Frame) /\ Len(<<f>> \o Tail(s)) = Len(Tail(s)) + 1
      /\ DOMAIN (<<f>> \o Tail(s)) = 1 .. Len(Tail(s)) + 1
      /\ (<<f>> \o Tail(s))[1] = f
      /\ \A i \in 1 .. Len(Tail(s)) : (<<f>> \o Tail(s))[i + 1] = Tail(s)[i]
    BY Top, Pushed
<1>2. Len(s) \in Nat \ {0} /\ DOMAIN s = 1 .. Len(s) /\ Len(Tail(s)) = Len(s) - 1
    BY Top
<1>3. Len(Tail(s)) + 1 = Len(s)
    BY <1>2
<1>4. ASSUME NEW i \in DOMAIN s, i # 1 PROVE (<<f>> \o Tail(s))[i] = s[i]
    <2>1. i - 1 \in 1 .. Len(s) - 1 /\ (i - 1) + 1 = i
        BY <1>2, <1>4
    <2>2. Tail(s)[i - 1] = s[(i - 1) + 1]
        BY <2>1, Top
    <2>3. (<<f>> \o Tail(s))[(i - 1) + 1] = Tail(s)[i - 1]
        BY <1>1, <1>2, <2>1
    <2> QED BY <2>1, <2>2, <2>3
<1>5. <<f>> \o Tail(s) # <<>>
    BY <1>1, <1>2, <1>3, EmptySeq
<1> QED BY <1>1, <1>2, <1>3, <1>4, <1>5

\* t is s with f as its first frame, and g before it.
CallsOn(t, g, f, s) ==
    /\ t \in Seq(Frame) /\ t # <<>>
    /\ DOMAIN t = 1 .. Len(s) + 1 /\ Len(s) \in Nat /\ DOMAIN s = 1 .. Len(s)
    /\ 1 \in DOMAIN t /\ 2 \in DOMAIN t
    /\ t[1] = g /\ t[2] = f
    /\ \A i \in DOMAIN s : i # 1 => i + 1 \in DOMAIN t /\ t[i + 1] = s[i]
    /\ \A i \in DOMAIN t : i = 1 \/ i = 2 \/ (i - 1 \in DOMAIN s /\ i - 1 # 1 /\ t[i] = s[i - 1])

\* The innermost call goes on and makes another one.
LEMMA ReplacedPushed ==
    ASSUME NEW s \in Seq(Frame), s # <<>>, NEW f \in Frame, NEW g \in Frame
    PROVE  CallsOn(<<g>> \o (<<f>> \o Tail(s)), g, f, s)
<1> DEFINE r == <<f>> \o Tail(s)
           t == <<g>> \o r
<1>1. /\ r \in Seq(Frame) /\ DOMAIN r = DOMAIN s /\ Len(r) = Len(s) /\ r[1] = f
      /\ \A i \in DOMAIN s : i # 1 => r[i] = s[i]
    BY Replaced
<1>2. Len(s) \in Nat \ {0} /\ DOMAIN s = 1 .. Len(s) /\ 1 \in DOMAIN s
    BY Top
<1> HIDE DEF r
<1>3. /\ <<g>> \o r \in Seq(Frame) /\ Len(<<g>> \o r) = Len(s) + 1
      /\ DOMAIN (<<g>> \o r) = 1 .. Len(s) + 1
      /\ (<<g>> \o r)[1] = g
      /\ \A i \in 1 .. Len(s) : (<<g>> \o r)[i + 1] = r[i]
    BY <1>1, Pushed
<1>4. t = <<g>> \o r
    OBVIOUS
<1> HIDE DEF t
<1>5. \A i \in DOMAIN s : i + 1 \in 1 .. Len(s) + 1
    BY <1>2
<1>6. ASSUME NEW i \in DOMAIN t, i # 1, i # 2
      PROVE  i - 1 \in DOMAIN s /\ i - 1 # 1 /\ t[i] = s[i - 1]
    <2>1. i - 1 \in 1 .. Len(s) /\ i - 1 # 1 /\ (i - 1) + 1 = i
        BY <1>2, <1>3, <1>4, <1>6
    <2> QED BY <1>1, <1>2, <1>3, <1>4, <2>1
<1>7. 1 \in 1 .. Len(s) + 1 /\ 2 \in 1 .. Len(s) + 1 /\ 1 + 1 = 2
    BY <1>2
<1>8. t # <<>>
    BY <1>2, <1>3, <1>4, EmptySeq
<1>9. t[2] = f
    BY <1>1, <1>2, <1>3, <1>4, <1>7
<1>10. \A i \in DOMAIN s : i # 1 => i + 1 \in DOMAIN t /\ t[i + 1] = s[i]
    BY <1>1, <1>2, <1>3, <1>4, <1>5
<1>11. t \in Seq(Frame) /\ DOMAIN t = 1 .. Len(s) + 1 /\ t[1] = g
    BY <1>3, <1>4
<1> QED BY <1>2, <1>6, <1>7, <1>8, <1>9, <1>10, <1>11 DEF CallsOn, t, r

\* A plugin gets loaded.
LEMMA AppendLoaded ==
    ASSUME NEW s \in Seq(Plugin), NEW p \in Plugin
    PROVE  /\ Append(s, p) \in Seq(Plugin)
           /\ ToSet(Append(s, p)) = ToSet(s) \cup {p}
           /\ IsInjective(s) /\ p \notin ToSet(s) => IsInjective(Append(s, p))
<1>1. /\ Append(s, p) \in Seq(Plugin) /\ Len(Append(s, p)) = Len(s) + 1
      /\ \A i \in 1 .. Len(s) : Append(s, p)[i] = s[i]
      /\ Append(s, p)[Len(s) + 1] = p
    BY AppendProperties
<1>2. Len(s) \in Nat /\ DOMAIN s = 1 .. Len(s) /\ DOMAIN Append(s, p) = 1 .. Len(s) + 1
    BY <1>1, LenProperties
<1>3. \A i \in 1 .. Len(s) + 1 : i \in 1 .. Len(s) \/ i = Len(s) + 1
    BY <1>2
<1>4. Len(s) + 1 \in 1 .. Len(s) + 1 /\ \A i \in 1 .. Len(s) : i \in 1 .. Len(s) + 1
    BY <1>2
<1>5. ToSet(Append(s, p)) = ToSet(s) \cup {p}
    BY <1>1, <1>2, <1>3, <1>4 DEF ToSet
<1>6. IsInjective(s) /\ p \notin ToSet(s) => IsInjective(Append(s, p))
    BY <1>1, <1>2, <1>3, <1>4 DEF ToSet, IsInjective
<1> QED BY <1>1, <1>5, <1>6

(***************************************************************************)
(* The invariant.                                                          *)
(***************************************************************************)

\* The initial states satisfy the invariant.
LEMMA InitInductive == Init => Inductive
<1> SUFFICES ASSUME Init PROVE Inductive
    OBVIOUS
<1> USE DEF Init
<1>1. TypeOK
    BY DEF TypeOK
<1>2. Loaded = {} /\ DOMAIN loaded = {} /\ DOMAIN stack = {}
    BY DEF Loaded, ToSet
<1> QED BY <1>1, <1>2
        DEF Inductive, DeferredWait, LoadedOnce, IsInjective, ClaimsDiffer, Accounted, HandlersFit,
            ShutdownInOrder

\* What a plugin needs is not lost when more gets loaded or registered.
LEMMA NeedsStay ==
    ASSUME NEW p, HasAllItNeeds(p), Loaded \subseteq Loaded', registered \subseteq registered'
    PROVE  HasAllItNeeds(p)'
BY DEF HasAllItNeeds

\* LoadPlugin initializes a plugin that has all it needs, and defers another.
LEMMA LoadPluginInductive ==
    ASSUME Inductive, NEW p \in Plugin, LoadPlugin(p)
    PROVE  Inductive'
<1> DEFINE ps == PluginDependencies[p] \ Loaded
           cs == ComponentDependencies[p] \ registered
           f == Initialize(p, TRUE)
<1>1. /\ TypeOK /\ DeferredWait /\ LoadedOnce /\ Accounted /\ HandlersFit /\ ShutdownInOrder
      /\ p \in Files \ attempted /\ attempted' = attempted \cup {p}
      /\ loaded' = loaded /\ registered' = registered /\ failed' = failed
      /\ awaiting' = awaiting /\ handled' = handled /\ phase' = phase /\ stopping' = stopping
      /\ stack = <<>> /\ DOMAIN stack = {} /\ Loaded' = Loaded
    BY DEF Inductive, LoadPlugin, Idle, handlerVars, stopVars, Loaded
<1>2. p \notin Loaded /\ p \notin deferred
    BY <1>1 DEF DeferredWait, LoadedOnce
<1>3. LoadedOnce' /\ ShutdownInOrder'
    BY <1>1 DEF LoadedOnce, ShutdownInOrder, HasAllItNeeds
<1>4. CASE ps = {} /\ cs = {}
    <2>1. /\ stack' = <<f>> /\ deferred' = deferred
          /\ pluginDeps' = pluginDeps /\ componentDeps' = componentDeps
        BY <1>4 DEF LoadPlugin, depVars
    <2>2. f \in Frame /\ f.call = "Initialize" /\ f.plugin = p /\ f.direct = TRUE /\ Claims(f) = {p}
        BY NewFrames
    <2> HIDE DEF f
    <2>3. stack' \in Seq(Frame) /\ DOMAIN stack' = {1} /\ stack'[1] = f
        BY <2>1, <2>2
    <2>4. TypeOK'
        BY <1>1, <2>1, <2>3 DEF TypeOK
    <2>5. DeferredWait'
        BY <1>1, <2>1 DEF DeferredWait, HasAllItNeeds
    <2>6. HasAllItNeeds(p)'
        BY <1>1, <1>4 DEF HasAllItNeeds
    <2>7. \A i \in DOMAIN stack' : FrameFits(i)' /\ CalledFrom(i)'
        BY <1>1, <1>2, <2>1, <2>2, <2>3, <2>6 DEF FrameFits, CalledFrom
    <2>8. ClaimsDiffer'
        BY <2>3 DEF ClaimsDiffer
    <2>9. Accounted'
        BY <1>1, <2>1, <2>2, <2>3 DEF Accounted
    <2>10. HandlersFit'
        BY <1>1, <2>1, <2>2, <2>3 DEF HandlersFit
    <2> QED BY <1>3, <2>4, <2>5, <2>7, <2>8, <2>9, <2>10 DEF Inductive
<1>5. CASE ~(ps = {} /\ cs = {})
    <2>1. /\ stack' = stack /\ deferred' = deferred \cup {p}
          /\ pluginDeps' = [pluginDeps EXCEPT ![p] = ps]
          /\ componentDeps' = [componentDeps EXCEPT ![p] = cs]
        BY <1>5 DEF LoadPlugin
    <2>2. ps \subseteq Plugin /\ cs \subseteq Component
        BY PluginAssumption
    <2>3. TypeOK'
        BY <1>1, <2>1, <2>2 DEF TypeOK
    <2>4. ~HasAllItNeeds(p)
        BY <1>5 DEF HasAllItNeeds
    <2>5. DeferredWait'
        BY <1>1, <1>2, <2>1, <2>4 DEF DeferredWait, HasAllItNeeds, TypeOK
    <2>6. Accounted' /\ HandlersFit' /\ ClaimsDiffer'
        BY <1>1, <2>1 DEF Accounted, HandlersFit, ClaimsDiffer
    <2> QED BY <1>1, <1>3, <2>1, <2>3, <2>5, <2>6 DEF Inductive
<1> QED BY <1>4, <1>5

\* LoadDeferredPluginsWithNoDeps takes the plugins that have all they need, and no others,
\* out of the deferred list.
LEMMA LoadDeferredTakes ==
    ASSUME DeferredWait, NEW frames, LoadDeferred(frames), attempted' = attempted,
           deferred \cap Loaded' = {},
           \A q \in deferred : /\ pluginDeps'[q] = PluginDependencies[q] \ Loaded'
                              /\ componentDeps'[q] = ComponentDependencies[q] \ registered'
    PROVE  /\ DeferredWait'
           /\ \E ready \in SUBSET deferred :
                 /\ stack' = <<[call |-> "LoadDeferred", ready |-> ready]>> \o frames
                 /\ deferred' = deferred \ ready
                 /\ \A q \in ready : HasAllItNeeds(q)'
<1> DEFINE ready == {p \in deferred : pluginDeps'[p] = {} /\ componentDeps'[p] = {}}
<1>1. /\ stack' = <<[call |-> "LoadDeferred", ready |-> ready]>> \o frames
      /\ deferred' = deferred \ ready
    BY DEF LoadDeferred
<1>2. \A q \in deferred : q \in ready <=> HasAllItNeeds(q)'
    BY DEF HasAllItNeeds
<1>3. ready \in SUBSET deferred
    OBVIOUS
<1> HIDE DEF ready
<1>4. DeferredWait'
    BY <1>1, <1>2 DEF DeferredWait
<1> QED BY <1>1, <1>2, <1>3, <1>4

\* A call of Initialize that leads to LoadDeferredPluginsWithNoDeps keeps the plugins of
\* all open calls apart, and accounts for those that were taken.
LEMMA LoadDeferredFits ==
    ASSUME Inductive, stack # <<>>, NEW f \in Frame, NEW ready \in SUBSET deferred,
           Head(stack).call = "Initialize", Claims(f) = {Head(stack).plugin},
           stack' = <<[call |-> "LoadDeferred", ready |-> ready]>> \o (<<f>> \o Tail(stack)),
           deferred' = deferred \ ready, attempted' = attempted, failed' = failed,
           Loaded \subseteq Loaded', Loaded' \subseteq Loaded \cup {Head(stack).plugin},
           registered \subseteq registered', \A q \in ready : HasAllItNeeds(q)',
           \/ f.call = "Notify" /\ f.plugin \in Loaded'
           \/ f.call = "Initialize" /\ f.direct = Head(stack).direct /\ Loaded' = Loaded
    PROVE  /\ stack' \in Seq(Frame)
           /\ \A i \in DOMAIN stack' : FrameFits(i)' /\ CalledFrom(i)'
           /\ ClaimsDiffer' /\ Accounted'
<1> DEFINE g == [call |-> "LoadDeferred", ready |-> ready]
<1>0. PICK p : p = Head(stack).plugin
    OBVIOUS
<1>1. /\ TypeOK /\ DeferredWait /\ LoadedOnce /\ ClaimsDiffer /\ Accounted
      /\ \A i \in DOMAIN stack : FrameFits(i) /\ CalledFrom(i)
      /\ stack \in Seq(Frame) /\ deferred \subseteq Plugin
    BY DEF Inductive, TypeOK
<1>2. g \in Frame /\ g.call = "LoadDeferred" /\ g.ready = ready /\ Claims(g) = ready
    BY <1>1, NewFrames
<1> HIDE DEF g
<1>3. stack' = <<g>> \o (<<f>> \o Tail(stack))
    BY DEF g
<1>4. /\ stack' \in Seq(Frame)
      /\ DOMAIN stack' = 1 .. Len(stack) + 1 /\ Len(stack) \in Nat /\ DOMAIN stack = 1 .. Len(stack)
      /\ 1 \in DOMAIN stack' /\ 2 \in DOMAIN stack'
      /\ stack'[1] = g /\ stack'[2] = f
      /\ \A i \in DOMAIN stack : i # 1 => i + 1 \in DOMAIN stack' /\ stack'[i + 1] = stack[i]
      /\ \A i \in DOMAIN stack' : i = 1 \/ i = 2 \/ (i - 1 \in DOMAIN stack /\ i - 1 # 1 /\ stack'[i] = stack[i - 1])
    <2>1. CallsOn(stack', g, f, stack)
        BY <1>1, <1>2, <1>3, ReplacedPushed
    <2> QED BY <2>1 DEF CallsOn
<1>5. stack[1] = Head(stack) /\ 1 \in DOMAIN stack /\ Claims(stack[1]) = {p}
    BY <1>0, <1>1, Top DEF Claims
<1>6. FrameFits(1) /\ p \notin Loaded /\ p \notin deferred /\ p \in attempted /\ HasAllItNeeds(p)
    BY <1>1, <1>5 DEF FrameFits
<1>7. \A i \in DOMAIN stack : i # 1 => p \notin Claims(stack[i])
    BY <1>1, <1>5 DEF ClaimsDiffer
<1>8. \A i \in DOMAIN stack : Claims(stack[i]) \cap ready = {}
    BY <1>1 DEF FrameFits
<1>9. \A q : HasAllItNeeds(q) => HasAllItNeeds(q)'
    BY NeedsStay
<1>10. ASSUME NEW i \in DOMAIN stack' PROVE FrameFits(i)'
    <2>1. CASE i = 1
        <3>1. stack'[i].call = "LoadDeferred" /\ Claims(stack'[i]) = ready
            BY <1>2, <1>4, <2>1
        <3>2. ready \subseteq attempted' \ deferred'
            BY <1>1 DEF DeferredWait
        <3>3. \A q \in ready : q \notin Loaded' /\ HasAllItNeeds(q)'
            BY <1>0, <1>1, <1>6 DEF DeferredWait
        <3> QED BY <3>1, <3>2, <3>3 DEF FrameFits
    <2>2. CASE i = 2
        <3>1. Claims(f) = {p}
            BY <1>0
        <3>2. p \in attempted' \ deferred' /\ HasAllItNeeds(p)'
            BY <1>6, <1>9
        <3>3. CASE f.call = "Notify" /\ f.plugin \in Loaded'
            BY <1>4, <2>2, <3>1, <3>2, <3>3 DEF FrameFits
        <3>4. CASE f.call = "Initialize" /\ Loaded' = Loaded
            BY <1>4, <1>6, <2>2, <3>1, <3>2, <3>4 DEF FrameFits
        <3> QED BY <3>3, <3>4
    <2>3. CASE i - 1 \in DOMAIN stack /\ i - 1 # 1 /\ stack'[i] = stack[i - 1]
        <3>1. FrameFits(i - 1) /\ p \notin Claims(stack[i - 1])
            BY <1>1, <1>7, <2>3
        <3>2. Loaded' \subseteq Loaded \cup {p}
            BY <1>0
        <3> QED BY <1>9, <2>3, <3>1, <3>2 DEF FrameFits
    <2> QED BY <1>4, <2>1, <2>2, <2>3
<1>11. ASSUME NEW i \in DOMAIN stack' PROVE CalledFrom(i)'
    <2>1. CASE i = 1
        BY <1>2, <1>4, <2>1 DEF CalledFrom
    <2>2. CASE i = 2
        <3>1. CASE f.call = "Notify"
            BY <1>4, <2>2, <3>1 DEF CalledFrom
        <3>2. CASE f.call = "Initialize" /\ f.direct = Head(stack).direct
            <4>1. CalledFrom(1)
                BY <1>1, <1>5
            <4>2. ~f.direct => 2 \in DOMAIN stack /\ stack[2].call = "LoadDeferred"
                BY <1>5, <3>2, <4>1 DEF CalledFrom
            <4>3. ~f.direct => 3 \in DOMAIN stack' /\ stack'[3].call = "LoadDeferred"
                BY <1>4, <4>2
            <4> QED BY <1>4, <2>2, <4>3 DEF CalledFrom
        <3> QED BY <3>1, <3>2
    <2>3. CASE i - 1 \in DOMAIN stack /\ i - 1 # 1 /\ stack'[i] = stack[i - 1]
        <3>1. i \in Nat
            BY <1>4
        <3>2. CalledFrom(i - 1) /\ (i - 1) + 1 = i /\ i # 1
            BY <1>1, <2>3, <3>1
        <3>3. i \in DOMAIN stack => i + 1 \in DOMAIN stack' /\ stack'[i + 1] = stack[i]
            BY <1>4, <3>2
        <3> QED BY <2>3, <3>2, <3>3 DEF CalledFrom
    <2> QED BY <1>4, <2>1, <2>2, <2>3
<1>12. ClaimsDiffer'
    <2> DEFINE old(i) == i - 1 \in DOMAIN stack /\ i - 1 # 1 /\ stack'[i] = stack[i - 1]
    <2> SUFFICES ASSUME NEW i \in DOMAIN stack', NEW j \in DOMAIN stack', i # j
                 PROVE  Claims(stack'[i]) \cap Claims(stack'[j]) = {}
        BY DEF ClaimsDiffer
    <2>1. (i = 1 \/ i = 2 \/ old(i)) /\ (j = 1 \/ j = 2 \/ old(j))
        BY <1>4
    <2>2. /\ Claims(stack'[1]) = ready /\ Claims(stack'[2]) = {p} /\ p \notin ready
        BY <1>0, <1>2, <1>4, <1>6
    <2>3. \A k \in DOMAIN stack' : old(k) => Claims(stack'[k]) \cap ready = {} /\ p \notin Claims(stack'[k])
        BY <1>7, <1>8
    <2>4. old(i) /\ old(j) => Claims(stack'[i]) \cap Claims(stack'[j]) = {}
        <3> SUFFICES ASSUME old(i), old(j) PROVE Claims(stack[i - 1]) \cap Claims(stack[j - 1]) = {}
            OBVIOUS
        <3>1. i - 1 # j - 1
            BY <1>4
        <3> QED BY <1>1, <3>1 DEF ClaimsDiffer
    <2>5. CASE old(i) /\ j \in {1, 2}
        BY <2>2, <2>3, <2>5
    <2>6. CASE i \in {1, 2} /\ old(j)
        BY <2>2, <2>3, <2>6
    <2>7. CASE i \in {1, 2} /\ j \in {1, 2}
        <3>1. (i = 1 /\ j = 2) \/ (i = 2 /\ j = 1)
            BY <2>7
        <3>2. Claims(stack'[1]) \cap Claims(stack'[2]) = {}
            BY <2>2
        <3> QED BY <3>1, <3>2
    <2> QED BY <2>1, <2>4, <2>5, <2>6, <2>7
<1>13. Accounted'
    <2> SUFFICES ASSUME failed' = {}, NEW q \in attempted' \ (Loaded' \cup deferred')
                 PROVE  \E i \in DOMAIN stack' : q \in Claims(stack'[i])
        BY DEF Accounted
    <2>1. CASE q \in ready
        BY <1>2, <1>4, <2>1
    <2>2. CASE q \notin ready
        <3>1. q \in attempted \ (Loaded \cup deferred)
            BY <2>2
        <3>2. PICK i \in DOMAIN stack : q \in Claims(stack[i])
            BY <1>1, <3>1 DEF Accounted
        <3>3. CASE i = 1
            BY <1>0, <1>4, <1>5, <3>2, <3>3
        <3>4. CASE i # 1
            BY <1>4, <3>2, <3>4
        <3> QED BY <3>3, <3>4
    <2> QED BY <2>1, <2>2
<1> QED BY <1>4, <1>10, <1>11, <1>12, <1>13

\* Initialize registers a component.
LEMMA RegisterComponentInductive ==
    ASSUME Inductive, NEW c \in Component, RegisterComponent(c)
    PROVE  Inductive'
<1> DEFINE h == Head(stack)
           f == [h EXCEPT !.registers = @ \ {c}]
<1>1. /\ TypeOK /\ DeferredWait /\ LoadedOnce /\ HandlersFit /\ ShutdownInOrder
      /\ stack # <<>> /\ h.call = "Initialize" /\ stack \in Seq(Frame)
      /\ registered' = registered \cup {c} /\ pluginDeps' = pluginDeps
      /\ componentDeps' = [p \in Plugin |-> IF p \in deferred THEN componentDeps[p] \ {c} ELSE componentDeps[p]]
      /\ attempted' = attempted /\ loaded' = loaded /\ failed' = failed /\ Loaded' = Loaded
      /\ awaiting' = awaiting /\ handled' = handled /\ phase' = phase /\ stopping' = stopping
    BY DEF Inductive, TypeOK, RegisterComponent, Running, handlerVars, stopVars, Loaded
<1>2. h \in Frame /\ h = stack[1] /\ 1 \in DOMAIN stack
    BY <1>1, Top
<1>3. /\ f \in Frame /\ f.call = "Initialize" /\ f.plugin = h.plugin
      /\ f.direct = h.direct /\ f.awaits = h.awaits
    <2>1. h \in Frame /\ h.call = "Initialize"
        BY <1>1, <1>2
    <2> HIDE DEF h
    <2> QED BY <2>1, RegistersLess
<1>4. LoadDeferred(<<f>> \o Tail(stack))
    BY DEF RegisterComponent
<1> HIDE DEF f, h
<1>5. /\ DeferredWait'
      /\ \E ready \in SUBSET deferred :
            /\ stack' = <<[call |-> "LoadDeferred", ready |-> ready]>> \o (<<f>> \o Tail(stack))
            /\ deferred' = deferred \ ready
            /\ \A q \in ready : HasAllItNeeds(q)'
    <2>1. \A q \in deferred : /\ pluginDeps'[q] = PluginDependencies[q] \ Loaded'
                             /\ componentDeps'[q] = ComponentDependencies[q] \ registered'
        BY <1>1 DEF DeferredWait, TypeOK
    <2>2. deferred \cap Loaded' = {}
        BY <1>1 DEF DeferredWait
    <2> QED BY <1>1, <1>4, <2>1, <2>2, LoadDeferredTakes
<1>6. PICK ready \in SUBSET deferred :
            /\ stack' = <<[call |-> "LoadDeferred", ready |-> ready]>> \o (<<f>> \o Tail(stack))
            /\ deferred' = deferred \ ready
            /\ \A q \in ready : HasAllItNeeds(q)'
    BY <1>5
<1>7. /\ stack' \in Seq(Frame)
      /\ \A i \in DOMAIN stack' : FrameFits(i)' /\ CalledFrom(i)'
      /\ ClaimsDiffer' /\ Accounted'
    <2>1. Claims(f) = {Head(stack).plugin} /\ Head(stack).call = "Initialize" /\ f.direct = Head(stack).direct
        BY <1>1, <1>3 DEF Claims, h
    <2>2. registered \subseteq registered' /\ Loaded \subseteq Loaded'
          /\ Loaded' \subseteq Loaded \cup {Head(stack).plugin}
        BY <1>1
    <2> QED BY <1>1, <1>3, <1>6, <2>1, <2>2, LoadDeferredFits
<1>8. TypeOK'
    <2>1. deferred' \subseteq Plugin /\ registered' \subseteq Component
          /\ componentDeps' \in [Plugin -> SUBSET Component]
        BY <1>1, <1>6 DEF TypeOK
    <2> QED BY <1>1, <1>7, <2>1 DEF TypeOK
<1>9. LoadedOnce' /\ ShutdownInOrder'
    BY <1>1 DEF LoadedOnce, ShutdownInOrder, HasAllItNeeds
<1>10. HandlersFit'
    <2> DEFINE g == [call |-> "LoadDeferred", ready |-> ready]
    <2>1. g \in Frame /\ g.call = "LoadDeferred" /\ g.ready = ready
        BY <1>1, NewFrames DEF TypeOK
    <2> HIDE DEF g
    <2>2. stack' = <<g>> \o (<<f>> \o Tail(stack))
        BY <1>6 DEF g
    <2>3. /\ stack'[1] = g /\ stack'[2] = f
          /\ \A i \in DOMAIN stack : i # 1 => i + 1 \in DOMAIN stack' /\ stack'[i + 1] = stack[i]
          /\ \A i \in DOMAIN stack' : i = 1 \/ i = 2 \/ (i - 1 \in DOMAIN stack /\ i - 1 # 1 /\ stack'[i] = stack[i - 1])
        <3>1. CallsOn(stack', g, f, stack)
            BY <1>1, <1>3, <2>1, <2>2, ReplacedPushed
        <3> QED BY <3>1 DEF CallsOn
    <2>4. \A k \in awaiting : k[2] \in Loaded =>
             \E i \in DOMAIN stack' :
                 stack'[i].call = "Notify" /\ stack'[i].plugin = k[2] /\ k[1] \in stack'[i].owners
        <3> SUFFICES ASSUME NEW k \in awaiting, k[2] \in Loaded
                     PROVE  \E i \in DOMAIN stack' :
                 stack'[i].call = "Notify" /\ stack'[i].plugin = k[2] /\ k[1] \in stack'[i].owners
            OBVIOUS
        <3>1. PICK i \in DOMAIN stack :
                 stack[i].call = "Notify" /\ stack[i].plugin = k[2] /\ k[1] \in stack[i].owners
            BY <1>1 DEF HandlersFit
        <3>2. i # 1
            BY <1>1, <1>2, <3>1
        <3> QED BY <2>3, <3>1, <3>2
    <2>5. \A k \in awaiting \cup handled :
          /\ k[1] \in attempted \ deferred'
          /\ \A i \in DOMAIN stack' :
                /\ stack'[i].call = "LoadDeferred" => k[1] \notin stack'[i].ready
                /\ stack'[i].call = "Initialize" /\ stack'[i].plugin = k[1] => k[2] \notin stack'[i].awaits
        <3> SUFFICES ASSUME NEW k \in awaiting \cup handled, NEW i \in DOMAIN stack'
                     PROVE  /\ k[1] \in attempted \ deferred'
                            /\ stack'[i].call = "LoadDeferred" => k[1] \notin stack'[i].ready
                            /\ stack'[i].call = "Initialize" /\ stack'[i].plugin = k[1] => k[2] \notin stack'[i].awaits
            BY <1>1, <1>6 DEF HandlersFit
        <3>1. k[1] \in attempted \ deferred /\ k[1] \notin ready
            BY <1>1 DEF HandlersFit
        <3>2. \A j \in DOMAIN stack :
                /\ stack[j].call = "LoadDeferred" => k[1] \notin stack[j].ready
                /\ stack[j].call = "Initialize" /\ stack[j].plugin = k[1] => k[2] \notin stack[j].awaits
            BY <1>1 DEF HandlersFit
        <3>3. f.call = "Initialize" /\ f.plugin = k[1] => k[2] \notin f.awaits
            BY <1>1, <1>2, <1>3, <3>2
        <3>4. CASE i = 1
            BY <1>6, <2>1, <2>3, <3>1, <3>4
        <3>5. CASE i = 2
            BY <1>3, <1>6, <2>3, <3>1, <3>3, <3>5
        <3>6. CASE i - 1 \in DOMAIN stack /\ stack'[i] = stack[i - 1]
            BY <1>6, <3>1, <3>2, <3>6
        <3> QED BY <2>3, <3>4, <3>5, <3>6
    <2>6. \A i \in DOMAIN stack' :
             stack'[i].call = "Notify" => \A o \in stack'[i].owners : <<o, stack'[i].plugin>> \in awaiting
        BY <1>1, <1>3, <2>1, <2>3 DEF HandlersFit
    <2> QED BY <1>1, <2>4, <2>5, <2>6 DEF HandlersFit
<1> QED BY <1>5, <1>7, <1>8, <1>9, <1>10 DEF Inductive

\* A call that goes on without taking a plugin or finishing with one changes nothing in
\* who answers for what.
LEMMA SameClaims ==
    ASSUME Inductive, DOMAIN stack' = DOMAIN stack,
           UNCHANGED <<attempted, loaded, deferred, registered, failed>>,
           \A i \in DOMAIN stack : Claims(stack'[i]) = Claims(stack[i]),
           \A i \in DOMAIN stack : stack'[i].call = stack[i].call,
           \A i \in DOMAIN stack : stack[i].call = "Notify" => stack'[i].plugin = stack[i].plugin,
           \A i \in DOMAIN stack : stack[i].call = "Initialize" => stack'[i].direct = stack[i].direct
    PROVE  /\ \A i \in DOMAIN stack' : FrameFits(i)' /\ CalledFrom(i)'
           /\ ClaimsDiffer' /\ Accounted' /\ LoadedOnce' /\ Loaded' = Loaded
<1>1. /\ LoadedOnce /\ ClaimsDiffer /\ Accounted /\ \A i \in DOMAIN stack : FrameFits(i) /\ CalledFrom(i)
    BY DEF Inductive
<1>2. Loaded' = Loaded
    BY DEF Loaded
<1>3. \A p : HasAllItNeeds(p) => HasAllItNeeds(p)'
    BY <1>2, NeedsStay
<1>4. ASSUME NEW i \in DOMAIN stack PROVE FrameFits(i)'
    <2>1. FrameFits(i)
        BY <1>1
    <2>2. Claims(stack'[i]) \subseteq attempted' \ deferred'
        BY <2>1 DEF FrameFits
    <2>3. CASE stack[i].call = "Notify"
        BY <1>2, <2>1, <2>2, <2>3 DEF FrameFits
    <2>4. CASE stack[i].call # "Notify"
        <3>1. \A p \in Claims(stack'[i]) : p \notin Loaded' /\ HasAllItNeeds(p)'
            BY <1>2, <1>3, <2>1, <2>4 DEF FrameFits
        <3>2. stack'[i].call # "Notify"
            BY <2>4
        <3> QED BY <2>2, <3>1, <3>2 DEF FrameFits
    <2> QED BY <2>3, <2>4
<1>5. ASSUME NEW i \in DOMAIN stack PROVE CalledFrom(i)'
    <2>1. CalledFrom(i)
        BY <1>1
    <2> QED BY <2>1 DEF CalledFrom
<1>6. ClaimsDiffer'
    BY <1>1 DEF ClaimsDiffer
<1>7. Accounted'
    <2> SUFFICES ASSUME failed' = {}, NEW p \in attempted' \ (Loaded' \cup deferred')
                 PROVE  \E i \in DOMAIN stack' : p \in Claims(stack'[i])
        BY DEF Accounted
    <2>1. PICK i \in DOMAIN stack : p \in Claims(stack[i])
        BY <1>1, <1>2 DEF Accounted
    <2> QED BY <2>1
<1>8. LoadedOnce'
    BY <1>1, <1>2, <1>3 DEF LoadedOnce
<1> QED BY <1>2, <1>4, <1>5, <1>6, <1>7, <1>8

\* Initialize adds a handler: it is called at once, or stays subscribed.
LEMMA AddHandlerInductive ==
    ASSUME Inductive, NEW q \in Plugin, AddPluginLoadedHandler(q)
    PROVE  Inductive'
<1>0. PICK h : h = Head(stack)
    OBVIOUS
<1> DEFINE f == [h EXCEPT !.awaits = @ \ {q}]
           k == <<h.plugin, q>>
<1>1. /\ TypeOK /\ DeferredWait /\ LoadedOnce /\ ClaimsDiffer /\ Accounted /\ HandlersFit /\ ShutdownInOrder
      /\ \A i \in DOMAIN stack : FrameFits(i) /\ CalledFrom(i)
      /\ stack # <<>> /\ h.call = "Initialize" /\ q \in h.awaits /\ stack \in Seq(Frame)
      /\ stack' = <<f>> \o Tail(stack)
      /\ UNCHANGED <<attempted, loaded, deferred, pluginDeps, componentDeps, registered, failed, phase, stopping>>
      /\ Loaded' = Loaded
    BY <1>0 DEF Inductive, TypeOK, AddPluginLoadedHandler, Running, depVars, stopVars, Loaded
<1>2. IF q \in Loaded THEN handled' = handled \cup {k} /\ awaiting' = awaiting
      ELSE awaiting' = awaiting \cup {k} /\ handled' = handled
    BY <1>0 DEF AddPluginLoadedHandler
<1>3. h \in Frame /\ h = stack[1] /\ 1 \in DOMAIN stack /\ DOMAIN stack = 1 .. Len(stack) /\ Len(stack) \in Nat
    BY <1>0, <1>1, Top
<1>4. f \in Frame /\ f.call = "Initialize" /\ f.plugin = h.plugin /\ f.direct = h.direct /\ f.awaits = h.awaits \ {q}
    <2>1. h \in Frame /\ h.call = "Initialize"
        BY <1>1, <1>3
    <2> QED BY <2>1, AwaitsLess
<1>5. h.plugin \in Plugin /\ k \in Plugin \X Plugin
    BY <1>1, <1>3, FrameTypes
<1> HIDE DEF f
<1>6. /\ stack' \in Seq(Frame) /\ DOMAIN stack' = DOMAIN stack /\ stack'[1] = f
      /\ \A i \in DOMAIN stack : i # 1 => stack'[i] = stack[i]
    BY <1>1, <1>4, Replaced
<1>7. Claims(f) = Claims(h)
    BY <1>1, <1>4 DEF Claims
<1>8. \A i \in DOMAIN stack : i = 1 \/ stack'[i] = stack[i]
    BY <1>6
<1>9. TypeOK'
    BY <1>1, <1>2, <1>5, <1>6 DEF TypeOK
<1>10. DeferredWait' /\ ShutdownInOrder'
    BY <1>1 DEF DeferredWait, ShutdownInOrder, HasAllItNeeds
<1>11. /\ \A i \in DOMAIN stack' : FrameFits(i)' /\ CalledFrom(i)'
       /\ ClaimsDiffer' /\ Accounted' /\ LoadedOnce'
    <2>1. \A i \in DOMAIN stack : Claims(stack'[i]) = Claims(stack[i])
        BY <1>3, <1>6, <1>7, <1>8
    <2>2. \A i \in DOMAIN stack : stack'[i].call = stack[i].call
        BY <1>1, <1>3, <1>4, <1>6, <1>8
    <2>3. \A i \in DOMAIN stack : stack[i].call = "Notify" => stack'[i].plugin = stack[i].plugin
        BY <1>1, <1>3, <1>8
    <2>4. \A i \in DOMAIN stack : stack[i].call = "Initialize" => stack'[i].direct = stack[i].direct
        BY <1>3, <1>4, <1>6, <1>8
    <2> QED BY <1>1, <1>6, <2>1, <2>2, <2>3, <2>4, SameClaims
<1>12. HandlersFit'
    <2>1. FrameFits(1) /\ Claims(h) = {h.plugin}
        BY <1>1, <1>3 DEF Claims
    <2>2. k \notin awaiting \cup handled
        BY <1>1, <1>3 DEF HandlersFit
    <2>3. h.plugin \in attempted \ deferred
        BY <1>3, <2>1 DEF FrameFits
    <2>4. \A i \in DOMAIN stack : stack[i].call = "LoadDeferred" => h.plugin \notin stack[i].ready
        <3> SUFFICES ASSUME NEW i \in DOMAIN stack, stack[i].call = "LoadDeferred"
                     PROVE  h.plugin \notin stack[i].ready
            OBVIOUS
        <3>1. i # 1 /\ Claims(stack[i]) = stack[i].ready
            BY <1>1, <1>3 DEF Claims
        <3> QED BY <1>1, <1>3, <2>1, <3>1 DEF ClaimsDiffer
    <2>5. \A i \in DOMAIN stack : stack[i].call = "Initialize" /\ stack[i].plugin = h.plugin => i = 1
        <3> SUFFICES ASSUME NEW i \in DOMAIN stack, stack[i].call = "Initialize", stack[i].plugin = h.plugin, i # 1
                     PROVE  FALSE
            OBVIOUS
        <3>1. Claims(stack[i]) = {h.plugin}
            BY DEF Claims
        <3> QED BY <1>1, <1>3, <2>1, <3>1 DEF ClaimsDiffer
    <2>6. awaiting' \cap handled' = {}
        BY <1>1, <1>2, <2>2 DEF HandlersFit
    <2>7. \A g \in handled' : g[2] \in Loaded
        BY <1>1, <1>2 DEF HandlersFit
    <2>8. ASSUME NEW g \in awaiting', g[2] \in Loaded
          PROVE  \E i \in DOMAIN stack' :
                     stack'[i].call = "Notify" /\ stack'[i].plugin = g[2] /\ g[1] \in stack'[i].owners
        <3>1. g \in awaiting
            BY <1>2, <2>8
        <3>2. PICK i \in DOMAIN stack :
                     stack[i].call = "Notify" /\ stack[i].plugin = g[2] /\ g[1] \in stack[i].owners
            BY <1>1, <2>8, <3>1 DEF HandlersFit
        <3>3. i # 1
            BY <1>1, <1>3, <3>2
        <3> QED BY <1>6, <3>2, <3>3
    <2>9. ASSUME NEW g \in awaiting' \cup handled', NEW i \in DOMAIN stack'
          PROVE  /\ g[1] \in attempted \ deferred
                 /\ stack'[i].call = "LoadDeferred" => g[1] \notin stack'[i].ready
                 /\ stack'[i].call = "Initialize" /\ stack'[i].plugin = g[1] => g[2] \notin stack'[i].awaits
        <3>1. g \in awaiting \cup handled \/ (g[1] = h.plugin /\ g[2] = q)
            BY <1>2
        <3>2. CASE g \in awaiting \cup handled
            <4>1. /\ g[1] \in attempted \ deferred
                  /\ \A j \in DOMAIN stack :
                        /\ stack[j].call = "LoadDeferred" => g[1] \notin stack[j].ready
                        /\ stack[j].call = "Initialize" /\ stack[j].plugin = g[1] => g[2] \notin stack[j].awaits
                BY <1>1, <3>2 DEF HandlersFit
            <4>2. CASE i = 1
                BY <1>1, <1>3, <1>4, <1>6, <4>1, <4>2
            <4>3. CASE i # 1
                BY <1>6, <4>1, <4>3
            <4> QED BY <4>2, <4>3
        <3>3. CASE g[1] = h.plugin /\ g[2] = q
            <4>1. CASE i = 1
                BY <1>4, <1>6, <2>3, <3>3, <4>1
            <4>2. CASE i # 1
                BY <1>6, <2>3, <2>4, <2>5, <3>3, <4>2
            <4> QED BY <4>1, <4>2
        <3> QED BY <3>1, <3>2, <3>3
    <2>10. ASSUME NEW i \in DOMAIN stack', stack'[i].call = "Notify"
           PROVE  \A o \in stack'[i].owners : <<o, stack'[i].plugin>> \in awaiting'
        <3>1. i # 1 /\ i \in DOMAIN stack /\ stack'[i] = stack[i]
            BY <1>4, <1>6, <2>10
        <3>2. \A o \in stack[i].owners : <<o, stack[i].plugin>> \in awaiting
            BY <1>1, <2>10, <3>1 DEF HandlersFit
        <3> QED BY <1>2, <3>1, <3>2
    <2>11. DOMAIN stack' # {}
        BY <1>3, <1>6
    <2> QED BY <1>1, <2>6, <2>7, <2>8, <2>9, <2>10, <2>11 DEF HandlersFit
<1> QED BY <1>9, <1>10, <1>11, <1>12 DEF Inductive

\* One of the handlers for a plugin runs.
LEMMA NotifyInductive ==
    ASSUME Inductive, NEW o \in Plugin, Notify(o)
    PROVE  Inductive'
<1>0. PICK h : h = Head(stack)
    OBVIOUS
<1> DEFINE f == [h EXCEPT !.owners = @ \ {o}]
           k == <<o, h.plugin>>
<1>1. /\ TypeOK /\ DeferredWait /\ LoadedOnce /\ ClaimsDiffer /\ HandlersFit /\ ShutdownInOrder
      /\ \A i \in DOMAIN stack : FrameFits(i)
      /\ stack # <<>> /\ h.call = "Notify" /\ o \in h.owners /\ stack \in Seq(Frame)
      /\ stack' = <<f>> \o Tail(stack)
      /\ awaiting' = awaiting \ {k} /\ handled' = handled \cup {k}
      /\ UNCHANGED <<attempted, loaded, deferred, pluginDeps, componentDeps, registered, failed, phase, stopping>>
      /\ Loaded' = Loaded
    BY <1>0 DEF Inductive, TypeOK, Notify, Running, depVars, stopVars, Loaded
<1>2. h \in Frame /\ h = stack[1] /\ 1 \in DOMAIN stack
    BY <1>0, <1>1, Top
<1>3. f \in Frame /\ f.call = "Notify" /\ f.plugin = h.plugin /\ f.owners = h.owners \ {o}
    <2>1. h \in Frame /\ h.call = "Notify"
        BY <1>1, <1>2
    <2> QED BY <2>1, OwnersLess
<1>4. h.plugin \in Plugin /\ k \in Plugin \X Plugin
    BY <1>1, <1>2, FrameTypes
<1> HIDE DEF f
<1>5. /\ stack' \in Seq(Frame) /\ DOMAIN stack' = DOMAIN stack /\ stack'[1] = f
      /\ \A i \in DOMAIN stack : i # 1 => stack'[i] = stack[i]
    BY <1>1, <1>3, Replaced
<1>6. \A i \in DOMAIN stack : i = 1 \/ stack'[i] = stack[i]
    BY <1>5
<1>7. Claims(f) = Claims(h) /\ Claims(h) = {h.plugin}
    BY <1>1, <1>3 DEF Claims
<1>8. TypeOK'
    BY <1>1, <1>4, <1>5 DEF TypeOK
<1>9. DeferredWait' /\ ShutdownInOrder'
    BY <1>1 DEF DeferredWait, ShutdownInOrder, HasAllItNeeds
<1>10. /\ \A i \in DOMAIN stack' : FrameFits(i)' /\ CalledFrom(i)'
       /\ ClaimsDiffer' /\ Accounted' /\ LoadedOnce'
    <2>1. \A i \in DOMAIN stack : Claims(stack'[i]) = Claims(stack[i])
        BY <1>2, <1>5, <1>6, <1>7
    <2>2. \A i \in DOMAIN stack : stack'[i].call = stack[i].call
        BY <1>1, <1>2, <1>3, <1>5, <1>6
    <2>3. \A i \in DOMAIN stack : stack[i].call = "Notify" => stack'[i].plugin = stack[i].plugin
        BY <1>2, <1>3, <1>5, <1>6
    <2>4. \A i \in DOMAIN stack : stack[i].call = "Initialize" => stack'[i].direct = stack[i].direct
        BY <1>1, <1>2, <1>6
    <2> QED BY <1>1, <1>5, <2>1, <2>2, <2>3, <2>4, SameClaims
<1>11. HandlersFit'
    <2>1. h.plugin \in Loaded
        BY <1>1, <1>2 DEF FrameFits
    <2>2. k \in awaiting
        BY <1>1, <1>2 DEF HandlersFit
    <2>3. \A g \in awaiting : g = <<g[1], g[2]>>
        BY <1>1 DEF TypeOK
    <2>4. awaiting' \cap handled' = {} /\ \A g \in handled' : g[2] \in Loaded
        BY <1>1, <2>1 DEF HandlersFit
    <2>5. ASSUME NEW g \in awaiting', g[2] \in Loaded
          PROVE  \E i \in DOMAIN stack' :
                     stack'[i].call = "Notify" /\ stack'[i].plugin = g[2] /\ g[1] \in stack'[i].owners
        <3>1. g \in awaiting /\ g # k
            BY <1>1
        <3>2. PICK i \in DOMAIN stack :
                     stack[i].call = "Notify" /\ stack[i].plugin = g[2] /\ g[1] \in stack[i].owners
            BY <1>1, <2>5, <3>1 DEF HandlersFit
        <3>3. CASE i = 1
            <4>1. g[2] = h.plugin /\ g[1] \in h.owners
                BY <1>2, <3>2, <3>3
            <4>2. g[1] # o
                BY <2>3, <3>1, <4>1
            <4> QED BY <1>2, <1>3, <1>5, <4>1, <4>2
        <3>4. CASE i # 1
            BY <1>5, <3>2, <3>4
        <3> QED BY <3>3, <3>4
    <2>6. ASSUME NEW g \in awaiting' \cup handled', NEW i \in DOMAIN stack'
          PROVE  /\ g[1] \in attempted \ deferred
                 /\ stack'[i].call = "LoadDeferred" => g[1] \notin stack'[i].ready
                 /\ stack'[i].call = "Initialize" /\ stack'[i].plugin = g[1] => g[2] \notin stack'[i].awaits
        <3>1. g \in awaiting \cup handled
            BY <1>1, <2>2
        <3>2. /\ g[1] \in attempted \ deferred
              /\ \A j \in DOMAIN stack :
                    /\ stack[j].call = "LoadDeferred" => g[1] \notin stack[j].ready
                    /\ stack[j].call = "Initialize" /\ stack[j].plugin = g[1] => g[2] \notin stack[j].awaits
            BY <1>1, <3>1 DEF HandlersFit
        <3>3. CASE i = 1
            BY <1>3, <1>5, <3>2, <3>3
        <3>4. CASE i # 1
            BY <1>5, <3>2, <3>4
        <3> QED BY <3>3, <3>4
    <2>7. ASSUME NEW i \in DOMAIN stack', stack'[i].call = "Notify", NEW p \in stack'[i].owners
          PROVE  <<p, stack'[i].plugin>> \in awaiting'
        <3>1. CASE i = 1
            <4>1. p \in h.owners /\ p # o /\ stack'[i].plugin = h.plugin
                BY <1>3, <1>5, <2>7, <3>1
            <4>2. <<p, h.plugin>> \in awaiting
                BY <1>1, <1>2, <4>1 DEF HandlersFit
            <4> QED BY <1>1, <4>1, <4>2
        <3>2. CASE i # 1
            <4>1. i \in DOMAIN stack /\ stack'[i] = stack[i]
                BY <1>5, <3>2
            <4>2. <<p, stack[i].plugin>> \in awaiting
                BY <1>1, <2>7, <4>1 DEF HandlersFit
            <4>3. Claims(stack[i]) = {stack[i].plugin}
                BY <2>7, <4>1 DEF Claims
            <4>4. stack[i].plugin # h.plugin
                BY <1>1, <1>2, <1>7, <3>2, <4>1, <4>3 DEF ClaimsDiffer
            <4> QED BY <1>1, <4>1, <4>2, <4>4
        <3> QED BY <3>1, <3>2
    <2>8. DOMAIN stack' # {}
        BY <1>2, <1>5
    <2>9. \A g \in awaiting' \cup handled' :
              /\ g[1] \in attempted' \ deferred'
              /\ \A i \in DOMAIN stack' :
                    /\ stack'[i].call = "LoadDeferred" => g[1] \notin stack'[i].ready
                    /\ stack'[i].call = "Initialize" /\ stack'[i].plugin = g[1] => g[2] \notin stack'[i].awaits
        <3>1. attempted' = attempted /\ deferred' = deferred
            BY <1>1
        <3> QED BY <2>6, <2>8, <3>1
    <2>10. Loaded' = Loaded
        BY <1>1
    <2> QED BY <2>4, <2>5, <2>7, <2>9, <2>10 DEF HandlersFit
<1> QED BY <1>8, <1>9, <1>10, <1>11 DEF Inductive

\* Initialize returns: the plugin is loaded, its handlers are about to be called, and the
\* plugins that waited for it alone are taken out of the deferred list.
LEMMA InitializeReturnsInductive ==
    ASSUME Inductive, InitializeReturns
    PROVE  Inductive'
<1>0. PICK p : p = Head(stack).plugin
    OBVIOUS
<1>1. PICK owners : owners = {h[1] : h \in {g \in awaiting : g[2] = p}}
    OBVIOUS
<1> DEFINE f == [call |-> "Notify", plugin |-> p, owners |-> owners]
<1>2. /\ TypeOK /\ DeferredWait /\ LoadedOnce /\ HandlersFit /\ ShutdownInOrder
      /\ \A i \in DOMAIN stack : FrameFits(i)
      /\ stack # <<>> /\ Head(stack).call = "Initialize" /\ stack \in Seq(Frame)
      /\ loaded' = Append(loaded, p)
      /\ pluginDeps' = [d \in Plugin |-> IF d \in deferred THEN pluginDeps[d] \ {p} ELSE pluginDeps[d]]
      /\ componentDeps' = componentDeps
      /\ UNCHANGED <<attempted, registered, awaiting, handled, failed, phase, stopping>>
    BY <1>0 DEF Inductive, TypeOK, InitializeReturns, Running, handlerVars, stopVars
<1>3. LoadDeferred(<<f>> \o Tail(stack))
    BY <1>0, <1>1 DEF InitializeReturns
<1>4. Head(stack) \in Frame /\ Head(stack) = stack[1] /\ 1 \in DOMAIN stack /\ Claims(stack[1]) = {p}
    BY <1>0, <1>2, Top DEF Claims
<1>5. p \in Plugin /\ p \in attempted \ deferred /\ p \notin Loaded /\ HasAllItNeeds(p)
    BY <1>2, <1>4, FrameTypes DEF FrameFits
<1>6. owners \subseteq Plugin
    BY <1>1, <1>2 DEF TypeOK
<1>7. f \in Frame /\ f.call = "Notify" /\ f.plugin = p /\ f.owners = owners /\ Claims(f) = {p}
    BY <1>5, <1>6, NewFrames
<1> HIDE DEF f
<1>8. loaded' \in Seq(Plugin) /\ Loaded' = Loaded \cup {p} /\ IsInjective(loaded')
    BY <1>2, <1>5, AppendLoaded DEF TypeOK, LoadedOnce, Loaded
<1>9. /\ DeferredWait'
      /\ \E ready \in SUBSET deferred :
            /\ stack' = <<[call |-> "LoadDeferred", ready |-> ready]>> \o (<<f>> \o Tail(stack))
            /\ deferred' = deferred \ ready
            /\ \A q \in ready : HasAllItNeeds(q)'
    <2>1. \A q \in deferred : /\ pluginDeps'[q] = PluginDependencies[q] \ Loaded'
                             /\ componentDeps'[q] = ComponentDependencies[q] \ registered'
        BY <1>2, <1>8 DEF DeferredWait, TypeOK
    <2>2. deferred \cap Loaded' = {}
        BY <1>2, <1>5, <1>8 DEF DeferredWait
    <2> QED BY <1>2, <1>3, <2>1, <2>2, LoadDeferredTakes
<1>10. PICK ready \in SUBSET deferred :
            /\ stack' = <<[call |-> "LoadDeferred", ready |-> ready]>> \o (<<f>> \o Tail(stack))
            /\ deferred' = deferred \ ready
            /\ \A q \in ready : HasAllItNeeds(q)'
    BY <1>9
<1>11. /\ stack' \in Seq(Frame)
       /\ \A i \in DOMAIN stack' : FrameFits(i)' /\ CalledFrom(i)'
       /\ ClaimsDiffer' /\ Accounted'
    <2>1. Claims(f) = {Head(stack).plugin} /\ f.plugin \in Loaded'
        BY <1>0, <1>7, <1>8
    <2>2. registered \subseteq registered' /\ Loaded \subseteq Loaded'
          /\ Loaded' \subseteq Loaded \cup {Head(stack).plugin}
        BY <1>0, <1>2, <1>8
    <2> QED BY <1>2, <1>7, <1>10, <2>1, <2>2, LoadDeferredFits
<1>12. TypeOK'
    <2>1. deferred' \subseteq Plugin /\ pluginDeps' \in [Plugin -> SUBSET Plugin]
        BY <1>2, <1>10 DEF TypeOK
    <2> QED BY <1>2, <1>8, <1>11, <2>1 DEF TypeOK
<1>13. LoadedOnce'
    <2>1. \A q : HasAllItNeeds(q) => HasAllItNeeds(q)'
        BY <1>2, <1>8, NeedsStay
    <2> QED BY <1>2, <1>5, <1>8, <2>1 DEF LoadedOnce
<1>14. ShutdownInOrder'
    BY <1>2 DEF ShutdownInOrder
<1>15. HandlersFit'
    <2> DEFINE g == [call |-> "LoadDeferred", ready |-> ready]
    <2>1. g \in Frame /\ g.call = "LoadDeferred" /\ g.ready = ready
        BY <1>2, NewFrames DEF TypeOK
    <2> HIDE DEF g
    <2>2. stack' = <<g>> \o (<<f>> \o Tail(stack))
        BY <1>10 DEF g
    <2>3. /\ stack'[1] = g /\ stack'[2] = f /\ 2 \in DOMAIN stack'
          /\ \A i \in DOMAIN stack : i # 1 => i + 1 \in DOMAIN stack' /\ stack'[i + 1] = stack[i]
          /\ \A i \in DOMAIN stack' : i = 1 \/ i = 2 \/ (i - 1 \in DOMAIN stack /\ i - 1 # 1 /\ stack'[i] = stack[i - 1])
        <3>1. CallsOn(stack', g, f, stack)
            BY <1>2, <1>7, <2>1, <2>2, ReplacedPushed
        <3> QED BY <3>1 DEF CallsOn
    <2>5. ASSUME NEW k \in awaiting, k[2] \in Loaded'
          PROVE  \E i \in DOMAIN stack' :
                     stack'[i].call = "Notify" /\ stack'[i].plugin = k[2] /\ k[1] \in stack'[i].owners
        <3>1. CASE k[2] = p
            <4>1. k[1] \in owners
                BY <1>1, <3>1
            <4> QED BY <1>7, <2>3, <3>1, <4>1
        <3>2. CASE k[2] \in Loaded
            <4>1. PICK i \in DOMAIN stack :
                     stack[i].call = "Notify" /\ stack[i].plugin = k[2] /\ k[1] \in stack[i].owners
                BY <1>2, <3>2 DEF HandlersFit
            <4>2. i # 1
                BY <1>2, <1>4, <4>1
            <4> QED BY <2>3, <4>1, <4>2
        <3> QED BY <1>8, <2>5, <3>1, <3>2
    <2>6. ASSUME NEW k \in awaiting \cup handled, NEW i \in DOMAIN stack'
          PROVE  /\ k[1] \in attempted \ deferred'
                 /\ stack'[i].call = "LoadDeferred" => k[1] \notin stack'[i].ready
                 /\ stack'[i].call = "Initialize" /\ stack'[i].plugin = k[1] => k[2] \notin stack'[i].awaits
        <3>1. k[1] \in attempted \ deferred /\ k[1] \notin ready
            BY <1>2 DEF HandlersFit
        <3>2. \A j \in DOMAIN stack :
                /\ stack[j].call = "LoadDeferred" => k[1] \notin stack[j].ready
                /\ stack[j].call = "Initialize" /\ stack[j].plugin = k[1] => k[2] \notin stack[j].awaits
            BY <1>2 DEF HandlersFit
        <3>3. CASE i = 1
            BY <1>10, <2>1, <2>3, <3>1, <3>3
        <3>4. CASE i = 2
            BY <1>7, <1>10, <2>3, <3>1, <3>4
        <3>5. CASE i - 1 \in DOMAIN stack /\ stack'[i] = stack[i - 1]
            BY <1>10, <3>1, <3>2, <3>5
        <3> QED BY <2>3, <3>3, <3>4, <3>5
    <2>7. ASSUME NEW i \in DOMAIN stack', stack'[i].call = "Notify", NEW o \in stack'[i].owners
          PROVE  <<o, stack'[i].plugin>> \in awaiting
        <3>1. CASE i = 1
            BY <2>1, <2>3, <2>7, <3>1
        <3>2. CASE i = 2
            <4>1. o \in owners /\ stack'[i].plugin = p
                BY <1>7, <2>3, <2>7, <3>2
            <4>2. PICK k \in awaiting : k[2] = p /\ k[1] = o
                BY <1>1, <4>1
            <4>3. k = <<o, p>>
                BY <1>2, <4>2 DEF TypeOK
            <4> QED BY <4>1, <4>3
        <3>3. CASE i - 1 \in DOMAIN stack /\ stack'[i] = stack[i - 1]
            BY <1>2, <2>7, <3>3 DEF HandlersFit
        <3> QED BY <2>3, <3>1, <3>2, <3>3
    <2>8. awaiting \cap handled = {} /\ \A k \in handled : k[2] \in Loaded'
        BY <1>2, <1>8 DEF HandlersFit
    <2> QED BY <1>2, <2>3, <2>5, <2>6, <2>7, <2>8 DEF HandlersFit
<1> QED BY <1>9, <1>11, <1>12, <1>13, <1>14, <1>15 DEF Inductive

\* LoadDeferredPluginsWithNoDeps goes on to the next plugin it has taken.
LEMMA InitializeDeferredInductive ==
    ASSUME Inductive, NEW p \in Plugin, InitializeDeferred(p)
    PROVE  Inductive'
<1>0. PICK h : h = Head(stack)
    OBVIOUS
<1> DEFINE f == [h EXCEPT !.ready = @ \ {p}]
           g == Initialize(p, FALSE)
           old(i) == i - 1 \in DOMAIN stack /\ i - 1 # 1 /\ stack'[i] = stack[i - 1]
<1>1. /\ TypeOK /\ DeferredWait /\ LoadedOnce /\ ClaimsDiffer /\ Accounted /\ HandlersFit /\ ShutdownInOrder
      /\ \A i \in DOMAIN stack : FrameFits(i) /\ CalledFrom(i)
      /\ stack # <<>> /\ h.call = "LoadDeferred" /\ p \in h.ready /\ stack \in Seq(Frame)
      /\ UNCHANGED <<attempted, loaded, deferred, pluginDeps, componentDeps, registered, awaiting, handled,
                     failed, phase, stopping>>
      /\ Loaded' = Loaded
    BY <1>0 DEF Inductive, TypeOK, InitializeDeferred, Running, depVars, handlerVars, stopVars, Loaded
<1>2. h \in Frame /\ h = stack[1] /\ 1 \in DOMAIN stack /\ Claims(h) = h.ready
    BY <1>0, <1>1, Top DEF Claims
<1>3. f \in Frame /\ f.call = "LoadDeferred" /\ f.ready = h.ready \ {p}
    <2>1. h \in Frame /\ h.call = "LoadDeferred"
        BY <1>1, <1>2
    <2> QED BY <2>1, ReadyLess
<1>4. g \in Frame /\ g.call = "Initialize" /\ g.plugin = p /\ g.direct = FALSE /\ Claims(g) = {p}
    BY NewFrames
<1>5. stack' = <<g>> \o (<<f>> \o Tail(stack))
    <2>0. stack' = <<g, f>> \o Tail(stack)
        BY <1>0 DEF InitializeDeferred
    <2> HIDE DEF f, g
    <2>1. stack' = <<g, f>> \o Tail(stack) /\ Tail(stack) \in Seq(Frame)
        BY <2>0, <1>1, Top
    <2>2. f \in Frame /\ g \in Frame
        BY <1>3, <1>4
    <2>3. <<g, f>> \o Tail(stack) = <<g>> \o (<<f>> \o Tail(stack))
        BY <2>1, <2>2, TwoPushed
    <2> QED BY <2>1, <2>3
<1> HIDE DEF f, g
<1>6. /\ stack' \in Seq(Frame) /\ DOMAIN stack' = 1 .. Len(stack) + 1 /\ Len(stack) \in Nat
      /\ 1 \in DOMAIN stack' /\ 2 \in DOMAIN stack' /\ stack'[1] = g /\ stack'[2] = f
      /\ \A i \in DOMAIN stack : i # 1 => i + 1 \in DOMAIN stack' /\ stack'[i + 1] = stack[i]
      /\ \A i \in DOMAIN stack' : i = 1 \/ i = 2 \/ old(i)
    <2>1. CallsOn(stack', g, f, stack)
        BY <1>1, <1>3, <1>4, <1>5, ReplacedPushed
    <2> QED BY <2>1 DEF CallsOn
<1>7. Claims(f) = h.ready \ {p}
    BY <1>3 DEF Claims
<1>8. \A q \in h.ready : q \in attempted \ deferred /\ q \notin Loaded /\ HasAllItNeeds(q)
    BY <1>1, <1>2 DEF FrameFits
<1>9. \A q : HasAllItNeeds(q) => HasAllItNeeds(q)'
    BY <1>1, NeedsStay
<1>10. TypeOK'
    BY <1>1, <1>6 DEF TypeOK
<1>11. DeferredWait' /\ LoadedOnce' /\ ShutdownInOrder'
    BY <1>1 DEF DeferredWait, LoadedOnce, ShutdownInOrder, HasAllItNeeds
<1>12. ASSUME NEW i \in DOMAIN stack' PROVE FrameFits(i)'
    <2>1. CASE i = 1
        <3>1. Claims(stack'[i]) = {p} /\ stack'[i].call # "Notify"
            BY <1>4, <1>6, <2>1
        <3>2. p \in attempted' \ deferred' /\ p \notin Loaded' /\ HasAllItNeeds(p)'
            BY <1>1, <1>8, <1>9
        <3> QED BY <3>1, <3>2 DEF FrameFits
    <2>2. CASE i = 2
        <3>1. Claims(stack'[i]) = h.ready \ {p} /\ stack'[i].call # "Notify"
            BY <1>3, <1>6, <1>7, <2>2
        <3>2. \A q \in h.ready : q \in attempted' \ deferred' /\ q \notin Loaded' /\ HasAllItNeeds(q)'
            BY <1>1, <1>8, <1>9
        <3> QED BY <3>1, <3>2 DEF FrameFits
    <2>3. CASE old(i)
        <3>1. FrameFits(i - 1) /\ stack'[i] = stack[i - 1]
            BY <1>1, <2>3
        <3> QED BY <1>1, <1>9, <3>1 DEF FrameFits
    <2> QED BY <1>6, <2>1, <2>2, <2>3
<1>13. ASSUME NEW i \in DOMAIN stack' PROVE CalledFrom(i)'
    <2>1. CASE i = 1
        <3>1. 1 + 1 = 2
            OBVIOUS
        <3> QED BY <1>3, <1>6, <2>1, <3>1 DEF CalledFrom
    <2>2. CASE i = 2
        BY <1>3, <1>6, <2>2 DEF CalledFrom
    <2>3. CASE old(i)
        <3>1. i \in Nat
            BY <1>6
        <3>2. CalledFrom(i - 1) /\ (i - 1) + 1 = i /\ i # 1
            BY <1>1, <2>3, <3>1
        <3>3. i \in DOMAIN stack => i + 1 \in DOMAIN stack' /\ stack'[i + 1] = stack[i]
            BY <1>6, <3>2
        <3> QED BY <2>3, <3>2, <3>3 DEF CalledFrom
    <2> QED BY <1>6, <2>1, <2>2, <2>3
<1>14. ClaimsDiffer'
    <2> SUFFICES ASSUME NEW i \in DOMAIN stack', NEW j \in DOMAIN stack', i # j
                 PROVE  Claims(stack'[i]) \cap Claims(stack'[j]) = {}
        BY DEF ClaimsDiffer
    <2>1. (i = 1 \/ i = 2 \/ old(i)) /\ (j = 1 \/ j = 2 \/ old(j))
        BY <1>6
    <2>2. Claims(stack'[1]) = {p} /\ Claims(stack'[2]) = h.ready \ {p}
        BY <1>4, <1>6, <1>7
    <2>3. \A k \in DOMAIN stack' : old(k) => Claims(stack'[k]) \cap h.ready = {}
        BY <1>1, <1>2 DEF ClaimsDiffer
    <2>4. old(i) /\ old(j) => Claims(stack'[i]) \cap Claims(stack'[j]) = {}
        <3> SUFFICES ASSUME old(i), old(j) PROVE Claims(stack[i - 1]) \cap Claims(stack[j - 1]) = {}
            OBVIOUS
        <3>1. i - 1 # j - 1
            BY <1>6
        <3> QED BY <1>1, <3>1 DEF ClaimsDiffer
    <2>5. CASE old(i) /\ j \in {1, 2}
        BY <1>1, <2>2, <2>3, <2>5
    <2>6. CASE i \in {1, 2} /\ old(j)
        BY <1>1, <2>2, <2>3, <2>6
    <2>7. CASE i \in {1, 2} /\ j \in {1, 2}
        <3>1. (i = 1 /\ j = 2) \/ (i = 2 /\ j = 1)
            BY <2>7
        <3>2. Claims(stack'[1]) \cap Claims(stack'[2]) = {}
            BY <2>2
        <3> QED BY <3>1, <3>2
    <2> QED BY <2>1, <2>4, <2>5, <2>6, <2>7
<1>15. Accounted'
    <2> SUFFICES ASSUME failed' = {}, NEW q \in attempted' \ (Loaded' \cup deferred')
                 PROVE  \E i \in DOMAIN stack' : q \in Claims(stack'[i])
        BY DEF Accounted
    <2>1. PICK i \in DOMAIN stack : q \in Claims(stack[i])
        BY <1>1 DEF Accounted
    <2>2. CASE i = 1
        <3>1. q \in Claims(g) \/ q \in Claims(f)
            BY <1>2, <1>4, <1>7, <2>1, <2>2
        <3> QED BY <1>6, <3>1
    <2>3. CASE i # 1
        BY <1>6, <2>1, <2>3
    <2> QED BY <2>2, <2>3
<1>16. HandlersFit'
    <2>1. ASSUME NEW k \in awaiting, k[2] \in Loaded
          PROVE  \E i \in DOMAIN stack' :
                     stack'[i].call = "Notify" /\ stack'[i].plugin = k[2] /\ k[1] \in stack'[i].owners
        <3>1. PICK i \in DOMAIN stack :
                 stack[i].call = "Notify" /\ stack[i].plugin = k[2] /\ k[1] \in stack[i].owners
            BY <1>1, <2>1 DEF HandlersFit
        <3>2. i # 1
            BY <1>1, <1>2, <3>1
        <3> QED BY <1>6, <3>1, <3>2
    <2>2. ASSUME NEW k \in awaiting \cup handled, NEW i \in DOMAIN stack'
          PROVE  /\ k[1] \in attempted \ deferred
                 /\ stack'[i].call = "LoadDeferred" => k[1] \notin stack'[i].ready
                 /\ stack'[i].call = "Initialize" /\ stack'[i].plugin = k[1] => k[2] \notin stack'[i].awaits
        <3>1. /\ k[1] \in attempted \ deferred
              /\ \A j \in DOMAIN stack :
                    /\ stack[j].call = "LoadDeferred" => k[1] \notin stack[j].ready
                    /\ stack[j].call = "Initialize" /\ stack[j].plugin = k[1] => k[2] \notin stack[j].awaits
            BY <1>1 DEF HandlersFit
        <3>2. k[1] \notin h.ready
            BY <1>1, <1>2, <3>1
        <3>3. CASE i = 1
            BY <1>1, <1>4, <1>6, <3>1, <3>2, <3>3
        <3>4. CASE i = 2
            BY <1>3, <1>6, <3>1, <3>2, <3>4
        <3>5. CASE i - 1 \in DOMAIN stack /\ stack'[i] = stack[i - 1]
            BY <3>1, <3>5
        <3> QED BY <1>6, <3>3, <3>4, <3>5
    <2>3. ASSUME NEW i \in DOMAIN stack', stack'[i].call = "Notify", NEW o \in stack'[i].owners
          PROVE  <<o, stack'[i].plugin>> \in awaiting
        <3>1. i # 1 /\ i # 2
            BY <1>3, <1>4, <1>6, <2>3
        <3>2. i - 1 \in DOMAIN stack /\ stack'[i] = stack[i - 1]
            BY <1>6, <3>1
        <3> QED BY <1>1, <2>3, <3>2 DEF HandlersFit
    <2>4. awaiting \cap handled = {} /\ \A k \in handled : k[2] \in Loaded
        BY <1>1 DEF HandlersFit
    <2> QED BY <1>1, <1>6, <2>1, <2>2, <2>3, <2>4 DEF HandlersFit
<1> QED BY <1>10, <1>11, <1>12, <1>13, <1>14, <1>15, <1>16 DEF Inductive

\* When n calls end, of which none has a handler left to call, the others go on as before.
LEMMA Ended ==
    ASSUME Inductive, NEW n \in {1, 2}, stack' \in Seq(Frame),
           DOMAIN stack = 1 .. Len(stack), Len(stack) \in Nat,
           DOMAIN stack' = 1 .. Len(stack) - n,
           \A i \in 1 .. Len(stack) - n : stack'[i] = stack[i + n],
           \A i \in 1 .. n : stack[i].call = "Notify" => stack[i].owners = {},
           UNCHANGED <<attempted, loaded, deferred, pluginDeps, componentDeps, registered, awaiting, handled,
                       phase, stopping>>,
           failed' \subseteq Plugin, Accounted'
    PROVE  Inductive'
<1>1. /\ TypeOK /\ DeferredWait /\ LoadedOnce /\ ClaimsDiffer /\ HandlersFit /\ ShutdownInOrder
      /\ \A i \in DOMAIN stack : FrameFits(i) /\ CalledFrom(i)
      /\ Loaded' = Loaded
    BY DEF Inductive, Loaded
<1>2. TypeOK'
    BY <1>1 DEF TypeOK
<1>3. DeferredWait' /\ LoadedOnce' /\ ShutdownInOrder'
    BY <1>1 DEF DeferredWait, LoadedOnce, ShutdownInOrder, HasAllItNeeds
<1>4. \A i \in DOMAIN stack' : i + n \in DOMAIN stack /\ stack'[i] = stack[i + n]
    OBVIOUS
<1>5. \A q : HasAllItNeeds(q) => HasAllItNeeds(q)'
    BY <1>1, NeedsStay
<1>6. ASSUME NEW i \in DOMAIN stack' PROVE FrameFits(i)'
    <2>1. FrameFits(i + n) /\ stack'[i] = stack[i + n]
        BY <1>1, <1>4
    <2> QED BY <1>1, <1>5, <2>1 DEF FrameFits
<1>7. ASSUME NEW i \in DOMAIN stack' PROVE CalledFrom(i)'
    <2>1. CalledFrom(i + n) /\ stack'[i] = stack[i + n]
        BY <1>1, <1>4
    <2>2. i + n + 1 = (i + 1) + n /\ (i + n + 1 \in DOMAIN stack => i + 1 \in DOMAIN stack')
        OBVIOUS
    <2> QED BY <1>4, <2>1, <2>2 DEF CalledFrom
<1>8. ClaimsDiffer'
    <2> SUFFICES ASSUME NEW i \in DOMAIN stack', NEW j \in DOMAIN stack', i # j
                 PROVE  Claims(stack'[i]) \cap Claims(stack'[j]) = {}
        BY DEF ClaimsDiffer
    <2>1. i + n # j + n
        OBVIOUS
    <2> QED BY <1>1, <1>4, <2>1 DEF ClaimsDiffer
<1>9. HandlersFit'
    <2>1. ASSUME NEW k \in awaiting, k[2] \in Loaded
          PROVE  \E i \in DOMAIN stack' :
                     stack'[i].call = "Notify" /\ stack'[i].plugin = k[2] /\ k[1] \in stack'[i].owners
        <3>1. PICK i \in DOMAIN stack :
                 stack[i].call = "Notify" /\ stack[i].plugin = k[2] /\ k[1] \in stack[i].owners
            BY <1>1, <2>1 DEF HandlersFit
        <3>2. ~(i \in 1 .. n)
            BY <3>1
        <3>3. i \in Nat /\ i > n /\ i - n \in 1 .. Len(stack) - n /\ (i - n) + n = i
            <4>1. i \in 1 .. Len(stack)
                OBVIOUS
            <4> QED BY <3>2, <4>1
        <3>4. i - n \in DOMAIN stack' /\ (i - n) + n = i
            BY <3>3
        <3> QED BY SMTT(30), <1>4, <3>1, <3>4
    <2>2. ASSUME NEW k \in awaiting \cup handled, NEW i \in DOMAIN stack'
          PROVE  /\ k[1] \in attempted \ deferred
                 /\ stack'[i].call = "LoadDeferred" => k[1] \notin stack'[i].ready
                 /\ stack'[i].call = "Initialize" /\ stack'[i].plugin = k[1] => k[2] \notin stack'[i].awaits
        BY <1>1, <1>4 DEF HandlersFit
    <2>3. ASSUME NEW i \in DOMAIN stack', stack'[i].call = "Notify", NEW o \in stack'[i].owners
          PROVE  <<o, stack'[i].plugin>> \in awaiting
        BY <1>1, <1>4, <2>3 DEF HandlersFit
    <2>4. /\ awaiting \cap handled = {} /\ \A k \in handled : k[2] \in Loaded
          /\ \A k \in awaiting \cup handled : k[1] \in attempted \ deferred
        BY <1>1 DEF HandlersFit
    <2> QED BY <1>1, <2>1, <2>2, <2>3, <2>4 DEF HandlersFit
<1> QED BY <1>2, <1>3, <1>6, <1>7, <1>8, <1>9 DEF Inductive

\* A call that has nothing left to do returns.
LEMMA ReturnInductive ==
    ASSUME Inductive, Return
    PROVE  Inductive'
<1>1. /\ TypeOK /\ Accounted /\ \A i \in DOMAIN stack : FrameFits(i)
      /\ stack # <<>> /\ stack \in Seq(Frame)
      /\ UNCHANGED <<attempted, loaded, deferred, pluginDeps, componentDeps, registered, awaiting, handled,
                     failed, phase, stopping>>
      /\ stack' = Tail(stack) /\ Loaded' = Loaded
      /\ \/ Head(stack).call = "LoadDeferred" /\ Head(stack).ready = {}
         \/ Head(stack).call = "Notify" /\ Head(stack).owners = {}
    BY DEF Inductive, TypeOK, Return, Running, depVars, handlerVars, stopVars, Loaded
<1>2. /\ Len(stack) \in Nat \ {0} /\ DOMAIN stack = 1 .. Len(stack) /\ Head(stack) = stack[1]
      /\ stack' \in Seq(Frame) /\ DOMAIN stack' = 1 .. Len(stack) - 1
      /\ \A i \in 1 .. Len(stack) - 1 : stack'[i] = stack[i + 1]
    BY <1>1, Top
<1>3. Accounted'
    <2> SUFFICES ASSUME failed' = {}, NEW q \in attempted' \ (Loaded' \cup deferred')
                 PROVE  \E i \in DOMAIN stack' : q \in Claims(stack'[i])
        BY DEF Accounted
    <2>1. PICK i \in DOMAIN stack : q \in Claims(stack[i])
        BY <1>1 DEF Accounted
    <2>2. i # 1
        <3> SUFFICES ASSUME i = 1 PROVE FALSE
            OBVIOUS
        <3>1. CASE Head(stack).call = "LoadDeferred" /\ Head(stack).ready = {}
            BY <1>2, <2>1, <3>1 DEF Claims
        <3>2. CASE Head(stack).call = "Notify"
            BY <1>1, <1>2, <2>1, <3>2 DEF Claims, FrameFits
        <3> QED BY <1>1, <3>1, <3>2
    <2>3. i - 1 \in 1 .. Len(stack) - 1 /\ (i - 1) + 1 = i
        BY <1>2, <2>2
    <2>4. stack'[i - 1] = stack[i]
        BY <1>2, <2>3
    <2> QED BY <1>2, <2>1, <2>3, <2>4
<1>4. \A i \in 1 .. 1 : stack[i].call = "Notify" => stack[i].owners = {}
    BY <1>1, <1>2
<1>5. failed' \subseteq Plugin
    BY <1>1 DEF TypeOK
<1> QED BY <1>1, <1>2, <1>3, <1>4, <1>5, Ended

\* Initialize throws: the call ends, and for a deferred plugin the call around it.
LEMMA InitializeThrowsInductive ==
    ASSUME Inductive, InitializeThrows
    PROVE  Inductive'
<1>1. /\ TypeOK /\ \A i \in DOMAIN stack : CalledFrom(i)
      /\ stack # <<>> /\ stack \in Seq(Frame) /\ Head(stack).call = "Initialize"
      /\ UNCHANGED <<attempted, loaded, deferred, pluginDeps, componentDeps, registered, awaiting, handled,
                     phase, stopping>>
      /\ failed' = failed \cup {Head(stack).plugin}
      /\ stack' = IF Head(stack).direct THEN Tail(stack) ELSE Tail(Tail(stack))
    BY DEF Inductive, TypeOK, InitializeThrows, Running, depVars, handlerVars, stopVars
<1>2. /\ Len(stack) \in Nat \ {0} /\ DOMAIN stack = 1 .. Len(stack) /\ Head(stack) = stack[1]
      /\ 1 \in DOMAIN stack /\ Head(stack) \in Frame
      /\ Tail(stack) \in Seq(Frame) /\ DOMAIN Tail(stack) = 1 .. Len(stack) - 1
      /\ Len(Tail(stack)) = Len(stack) - 1
      /\ \A i \in 1 .. Len(stack) - 1 : Tail(stack)[i] = stack[i + 1]
    BY <1>1, Top
<1>3. Accounted' /\ failed' \subseteq Plugin
    BY <1>1, <1>2, FrameTypes DEF Accounted, TypeOK
<1>4. CASE Head(stack).direct
    <2>1. /\ stack' \in Seq(Frame) /\ DOMAIN stack' = 1 .. Len(stack) - 1
          /\ \A i \in 1 .. Len(stack) - 1 : stack'[i] = stack[i + 1]
        BY <1>1, <1>2, <1>4
    <2>2. \A i \in 1 .. 1 : stack[i].call = "Notify" => stack[i].owners = {}
        BY <1>1, <1>2
    <2> QED BY <1>1, <1>2, <1>3, <2>1, <2>2, Ended
<1>5. CASE ~Head(stack).direct
    <2>1. CalledFrom(1)
        BY <1>1, <1>2
    <2>A. stack[1].call = "Initialize" /\ ~stack[1].direct
        BY <1>1, <1>2, <1>5
    <2>B. 1 + 1 \in DOMAIN stack /\ stack[1 + 1].call = "LoadDeferred"
        BY <2>1, <2>A DEF CalledFrom
    <2>C. 1 + 1 = 2
        OBVIOUS
    <2>2. 1 + 1 = 2 /\ 2 \in DOMAIN stack /\ stack[2].call = "LoadDeferred"
        BY <2>B, <2>C
    <2>3. Tail(stack) # <<>>
        <3>1. Len(Tail(stack)) # 0
            BY <1>2, <2>2
        <3> QED BY <3>1, EmptySeq
    <2>4. /\ stack' = Tail(Tail(stack)) /\ stack' \in Seq(Frame)
          /\ DOMAIN stack' = 1 .. Len(Tail(stack)) - 1
          /\ \A i \in 1 .. Len(Tail(stack)) - 1 : stack'[i] = Tail(stack)[i + 1]
        BY <1>1, <1>2, <1>5, <2>3, Top
    <2>5. Len(Tail(stack)) - 1 = Len(stack) - 2
        BY <1>2
    <2>6. ASSUME NEW i \in 1 .. Len(stack) - 2 PROVE stack'[i] = stack[i + 2]
        <3>1. i + 1 \in 1 .. Len(stack) - 1 /\ (i + 1) + 1 = i + 2
            BY <1>2
        <3> QED BY <1>2, <2>4, <2>5, <3>1
    <2>7. \A i \in 1 .. 2 : stack[i].call = "Notify" => stack[i].owners = {}
        <3>1. \A i \in 1 .. 2 : i = 1 \/ i = 2
            OBVIOUS
        <3> QED BY <1>1, <1>2, <2>2, <3>1
    <2> QED BY <1>1, <1>2, <1>3, <2>4, <2>5, <2>6, <2>7, Ended
<1> QED BY <1>4, <1>5

(***************************************************************************)
(* Shutting down.                                                          *)
(***************************************************************************)

\* RemoveAt takes out the place i and nothing else.
LEMMA RemovedAt ==
    ASSUME NEW S, NEW s \in Seq(S), NEW i \in DOMAIN s
    PROVE  /\ RemoveAt(s, i) \in Seq(S)
           /\ ToSet(RemoveAt(s, i)) \subseteq ToSet(s)
           /\ \A k \in DOMAIN s : k # i => s[k] \in ToSet(RemoveAt(s, i))
<1> DEFINE n == Len(s)
           a == SubSeq(s, 1, i - 1)
           b == SubSeq(s, i + 1, n)
           r == a \o b
<1>1. n \in Nat /\ DOMAIN s = 1 .. n /\ i \in 1 .. n
    BY LenProperties
<1>2. RemoveAt(s, i) = r
    BY DEF RemoveAt
<1> HIDE DEF n
<1>3. a \in Seq(S) /\ Len(a) = i - 1 /\ \A k \in 1 .. i - 1 : a[k] = s[k]
    <2>1. 1 \in Int /\ i - 1 \in Int /\ \A k \in 1 .. i - 1 : k \in 1 .. n
        BY <1>1
    <2>2. a \in Seq(S) /\ Len(a) = (IF 1 <= i - 1 THEN (i - 1) - 1 + 1 ELSE 0)
        BY <1>1, <2>1, SubSeqProperties DEF n
    <2>3. \A k \in 1 .. i - 1 : a[k] = s[k]
        BY <1>1, <2>1
    <2>4. Len(a) = i - 1
        BY <1>1, <2>2
    <2> QED BY <2>2, <2>3, <2>4
<1>4. b \in Seq(S) /\ Len(b) = n - i /\ \A k \in 1 .. n - i : b[k] = s[k + i]
    <2>1. i + 1 \in Int /\ n \in Int /\ \A k \in i + 1 .. n : k \in 1 .. n
        BY <1>1
    <2>2. b \in Seq(S) /\ Len(b) = (IF i + 1 <= n THEN n - (i + 1) + 1 ELSE 0)
        BY <1>1, <2>1, SubSeqProperties DEF n
    <2>3. \A k \in 1 .. n - i : b[k] = s[k + i]
        BY <1>1, <2>1
    <2>4. Len(b) = n - i
        BY <1>1, <2>2
    <2> QED BY <2>2, <2>3, <2>4
<1> HIDE DEF a, b
<1>5. /\ r \in Seq(S) /\ Len(r) = n - 1
      /\ \A k \in 1 .. n - 1 : r[k] = IF k <= i - 1 THEN s[k] ELSE s[k + 1]
    <2>1. r \in Seq(S) /\ Len(r) = Len(a) + Len(b)
          /\ \A k \in 1 .. Len(a) + Len(b) : r[k] = IF k <= Len(a) THEN a[k] ELSE b[k - Len(a)]
        BY <1>3, <1>4, ConcatProperties
    <2>2. (i - 1) + (n - i) = n - 1
        BY <1>1
    <2>3. ASSUME NEW k \in 1 .. n - 1 PROVE r[k] = IF k <= i - 1 THEN s[k] ELSE s[k + 1]
        <3>1. CASE k <= i - 1
            BY <1>1, <1>3, <1>4, <2>1, <2>2, <3>1
        <3>2. CASE ~(k <= i - 1)
            <4>1. k - (i - 1) \in 1 .. n - i /\ (k - (i - 1)) + i = k + 1
                BY <1>1, <3>2
            <4>2. r[k] = b[k - (i - 1)]
                BY <1>3, <1>4, <2>1, <2>2, <3>2
            <4> QED BY <1>4, <3>2, <4>1, <4>2
        <3> QED BY <3>1, <3>2
    <2> QED BY <1>3, <1>4, <2>1, <2>2, <2>3
<1> HIDE DEF r
<1>6. DOMAIN r = 1 .. n - 1
    BY <1>5, LenProperties
<1>7. ToSet(r) \subseteq ToSet(s)
    <2>1. \A k \in 1 .. n - 1 : k \in DOMAIN s /\ k + 1 \in DOMAIN s
        BY <1>1
    <2> QED BY <1>5, <1>6, <2>1 DEF ToSet
<1>8. ASSUME NEW k \in DOMAIN s, k # i PROVE s[k] \in ToSet(r)
    <2>1. CASE k <= i - 1
        <3>1. k \in 1 .. n - 1
            BY <1>1, <2>1
        <3> QED BY <1>5, <1>6, <2>1, <3>1 DEF ToSet
    <2>2. CASE ~(k <= i - 1)
        <3>1. k - 1 \in 1 .. n - 1 /\ ~(k - 1 <= i - 1) /\ (k - 1) + 1 = k
            BY <1>1, <1>8, <2>2
        <3> QED BY <1>5, <1>6, <3>1 DEF ToSet
    <2> QED BY <2>1, <2>2
<1> QED BY <1>2, <1>5, <1>7, <1>8

\* A step that changes nothing but how far the shutdown is keeps all but ShutdownInOrder.
LEMMA ShutdownKeeps ==
    ASSUME Inductive, stopping' \in Seq(Plugin), phase' \in {"loading", "stopping", "ended"},
           UNCHANGED <<attempted, loaded, depVars, registered, handlerVars, failed, stack>>,
           ShutdownInOrder'
    PROVE  Inductive'
<1>1. /\ UNCHANGED <<attempted, loaded, deferred, pluginDeps, componentDeps, registered, awaiting, handled,
                     failed, stack>>
      /\ Loaded' = Loaded
    BY DEF depVars, handlerVars, Loaded
<1>2. /\ TypeOK /\ DeferredWait /\ LoadedOnce /\ ClaimsDiffer /\ Accounted /\ HandlersFit
      /\ \A i \in DOMAIN stack : FrameFits(i) /\ CalledFrom(i)
    BY DEF Inductive
<1>3. TypeOK'
    BY <1>1, <1>2 DEF TypeOK
<1>4. \A p : HasAllItNeeds(p)' <=> HasAllItNeeds(p)
    BY <1>1 DEF HasAllItNeeds
<1>5. DeferredWait' /\ LoadedOnce'
    BY <1>1, <1>2, <1>4 DEF DeferredWait, LoadedOnce
<1>6. \A i \in DOMAIN stack : FrameFits(i)' /\ CalledFrom(i)'
    BY <1>1, <1>2, <1>4 DEF FrameFits, CalledFrom
<1>7. ClaimsDiffer' /\ Accounted' /\ HandlersFit'
    BY <1>1, <1>2 DEF ClaimsDiffer, Accounted, HandlersFit
<1> QED BY <1>1, <1>3, <1>5, <1>6, <1>7 DEF Inductive

\* What is to be shut down at first are the loaded plugins, and these have all they need.
LEMMA BeginShutdownInductive ==
    ASSUME Inductive, BeginShutdown
    PROVE  Inductive'
<1>1. /\ stopping' \in Seq(Plugin) /\ phase' = "stopping" /\ stopping' = loaded
      /\ UNCHANGED <<attempted, loaded, depVars, registered, handlerVars, failed, stack>>
    BY DEF Inductive, TypeOK, BeginShutdown
<1>2. ShutdownInOrder'
    BY <1>1 DEF Inductive, LoadedOnce, HasAllItNeeds, Loaded, ShutdownInOrder
<1> QED BY <1>1, <1>2, ShutdownKeeps

\* The plugin that is shut down is one that none of the others depends on.
LEMMA ShutdownPluginInductive ==
    ASSUME Inductive, NEW i \in DOMAIN stopping, ShutdownPlugin(i)
    PROVE  Inductive'
<1>1. /\ stopping \in Seq(Plugin) /\ phase = "stopping" /\ phase' = "stopping"
      /\ stopping' = RemoveAt(stopping, i)
      /\ UNCHANGED <<attempted, loaded, depVars, registered, handlerVars, failed, stack>>
      /\ \A q \in ToSet(stopping) : PluginDependencies[q] \subseteq ToSet(stopping)
      /\ \A q \in ToSet(stopping) : stopping[i] \notin PluginDependencies[q]
    BY DEF Inductive, TypeOK, ShutdownPlugin, CanStop, ShutdownInOrder
<1>2. /\ stopping' \in Seq(Plugin) /\ ToSet(stopping') \subseteq ToSet(stopping)
      /\ \A k \in DOMAIN stopping : k # i => stopping[k] \in ToSet(stopping')
    BY <1>1, RemovedAt
<1>3. ASSUME NEW p \in ToSet(stopping'), NEW d \in PluginDependencies[p]
      PROVE  d \in ToSet(stopping')
    <2>1. d \in ToSet(stopping) /\ d # stopping[i]
        BY <1>1, <1>2
    <2>2. PICK k \in DOMAIN stopping : stopping[k] = d
        BY <2>1 DEF ToSet
    <2> QED BY <1>2, <2>1, <2>2
<1>4. ShutdownInOrder'
    BY <1>3 DEF ShutdownInOrder
<1> QED BY <1>1, <1>2, <1>4, ShutdownKeeps

\* A Shutdown that throws, or the last one, ends it.
LEMMA EndShutdownInductive ==
    ASSUME Inductive, EndShutdown
    PROVE  Inductive'
<1>1. /\ stopping' \in Seq(Plugin) /\ phase' = "ended"
      /\ UNCHANGED <<attempted, loaded, depVars, registered, handlerVars, failed, stack>>
    BY DEF Inductive, TypeOK, EndShutdown
<1>2. ShutdownInOrder'
    BY <1>1 DEF ShutdownInOrder
<1> QED BY <1>1, <1>2, ShutdownKeeps

(***************************************************************************)
(* Every step.                                                             *)
(***************************************************************************)

\* Every step keeps the invariant, those that change nothing included.
LEMMA NextInductive == Inductive /\ [Next]_vars => Inductive'
<1> SUFFICES ASSUME Inductive, [Next]_vars PROVE Inductive'
    OBVIOUS
<1>1. CASE UNCHANGED vars
    <2>1. /\ stopping' \in Seq(Plugin) /\ phase' \in {"loading", "stopping", "ended"}
          /\ UNCHANGED <<attempted, loaded, depVars, registered, handlerVars, failed, stack>>
        BY <1>1 DEF vars, stopVars, Inductive, TypeOK
    <2>2. ShutdownInOrder'
        BY <1>1 DEF vars, stopVars, Inductive, ShutdownInOrder
    <2> QED BY <2>1, <2>2, ShutdownKeeps
<1>2. ASSUME NEW p \in Plugin, LoadPlugin(p) PROVE Inductive'
    BY <1>2, LoadPluginInductive
<1>3. ASSUME NEW c \in Component, RegisterComponent(c) PROVE Inductive'
    BY <1>3, RegisterComponentInductive
<1>4. ASSUME NEW p \in Plugin, AddPluginLoadedHandler(p) PROVE Inductive'
    BY <1>4, AddHandlerInductive
<1>5. ASSUME NEW p \in Plugin, InitializeDeferred(p) PROVE Inductive'
    BY <1>5, InitializeDeferredInductive
<1>6. ASSUME NEW p \in Plugin, Notify(p) PROVE Inductive'
    BY <1>6, NotifyInductive
<1>7. CASE InitializeReturns
    BY <1>7, InitializeReturnsInductive
<1>8. CASE InitializeThrows
    BY <1>8, InitializeThrowsInductive
<1>9. CASE Return
    BY <1>9, ReturnInductive
<1>10. ASSUME NEW i \in DOMAIN stopping, ShutdownPlugin(i) PROVE Inductive'
    BY <1>10, ShutdownPluginInductive
<1>11. CASE EndShutdown
    BY <1>11, EndShutdownInductive
<1>12. CASE BeginShutdown
    BY <1>12, BeginShutdownInductive
<1>13. Continue => Inductive'
    BY <1>3, <1>4, <1>5, <1>6, <1>7, <1>8, <1>9, <1>10, <1>11 DEF Continue
<1> QED BY <1>1, <1>2, <1>12, <1>13 DEF Next

\* What is open and what is selected are claimed by calls that are not those of handlers.
LEMMA ClaimedBy ==
    /\ \A p \in Initializing : \E i \in DOMAIN stack :
          stack[i].call = "Initialize" /\ Claims(stack[i]) = {p} /\ p \in Claims(stack[i])
    /\ \A p \in Selected : \E i \in DOMAIN stack :
          stack[i].call = "LoadDeferred" /\ p \in Claims(stack[i])
BY DEF Initializing, Selected, ToSet, Claims

\* The invariant says that no plugin is initialized, or selected for it, before what it
\* depends on is there.
LEMMA InductiveOrder == Inductive => DependenciesFirst
<1> SUFFICES ASSUME Inductive, NEW p \in Initializing \cup Selected \cup Loaded PROVE HasAllItNeeds(p)
    BY DEF DependenciesFirst, HasAllItNeeds
<1>1. /\ \A i \in DOMAIN stack : FrameFits(i)
      /\ \A q \in Loaded : HasAllItNeeds(q)
    BY DEF Inductive, LoadedOnce
<1>2. CASE p \in Loaded
    BY <1>1, <1>2
<1>3. CASE p \in Initializing \cup Selected
    <2>1. PICK i \in DOMAIN stack : stack[i].call # "Notify" /\ p \in Claims(stack[i])
        BY <1>3, ClaimedBy
    <2> QED BY <1>1, <2>1 DEF FrameFits
<1> QED BY <1>2, <1>3

\* The invariant says that a plugin is in one place.
LEMMA InductiveOnce == Inductive => InitializedOnce
<1> SUFFICES ASSUME Inductive PROVE InitializedOnce
    OBVIOUS
<1>1. /\ \A i \in DOMAIN stack : FrameFits(i)
      /\ IsInjective(loaded) /\ deferred \cap Loaded = {} /\ ClaimsDiffer
      /\ stack \in Seq(Frame)
    BY DEF Inductive, LoadedOnce, DeferredWait, TypeOK
<1>2. Initializing \cap Loaded = {} /\ Initializing \cap deferred = {}
    BY <1>1, ClaimedBy DEF FrameFits
<1>3. Selected \cap Loaded = {} /\ Selected \cap deferred = {}
    BY <1>1, ClaimedBy DEF FrameFits
<1>4. Selected \cap Initializing = {}
    <2> SUFFICES ASSUME NEW p \in Selected, p \in Initializing PROVE FALSE
        OBVIOUS
    <2>1. PICK i \in DOMAIN stack : stack[i].call = "LoadDeferred" /\ p \in Claims(stack[i])
        BY ClaimedBy
    <2>2. PICK j \in DOMAIN stack : stack[j].call = "Initialize" /\ p \in Claims(stack[j])
        BY ClaimedBy
    <2>3. i # j
        BY <2>1, <2>2
    <2> QED BY <1>1, <2>1, <2>2, <2>3 DEF ClaimsDiffer
<1>5. ASSUME NEW i \in DOMAIN stack, NEW j \in DOMAIN stack, i # j, stack[i].call = stack[j].call
      PROVE  IF stack[i].call = "LoadDeferred" THEN stack[i].ready \cap stack[j].ready = {}
             ELSE stack[i].plugin # stack[j].plugin
    BY <1>1, <1>5 DEF ClaimsDiffer, Claims
<1> QED BY <1>1, <1>2, <1>3, <1>4, <1>5 DEF InitializedOnce

(***************************************************************************)
(* Why LoadPlugin returns.                                                 *)
(***************************************************************************)

\* The initial states satisfy FailedFits.
LEMMA InitFailed == Init => FailedFits
BY DEF Init, FailedFits

\* What a call has done once is enough for LoadingAdvances.
Advances ==
    /\ registered \subseteq registered'
    /\ Loaded \cup failed \subseteq Loaded' \cup failed'
    /\ Initializing \subseteq Loaded' \cup failed' \cup Initializing'
    /\ awaiting \cup handled \subseteq awaiting' \cup handled'
    /\ handled \subseteq handled'
    /\ \/ registered' # registered
       \/ Loaded' \cup failed' # Loaded \cup failed
       \/ Loaded' \cup failed' \cup Initializing' # Loaded \cup failed \cup Initializing
       \/ awaiting' \cup handled' # awaiting \cup handled
       \/ handled' # handled
       \/ Len(stack') < Len(stack)

LEMMA DoneAdvances ==
    ASSUME Advances
    PROVE  /\ \A k \in DOMAIN Done : Done[k] \subseteq Done'[k]
           /\ Done' # Done \/ Len(stack') < Len(stack)
<1>1. DOMAIN Done = {"registered", "ended", "begun", "subscribed", "handled"}
    BY DEF Done
<1>2. /\ Done.registered = registered /\ Done.ended = Loaded \cup failed
      /\ Done.begun = Loaded \cup failed \cup Initializing
      /\ Done.subscribed = awaiting \cup handled /\ Done.handled = handled
    BY DEF Done
<1>3. /\ Done'.registered = registered' /\ Done'.ended = Loaded' \cup failed'
      /\ Done'.begun = Loaded' \cup failed' \cup Initializing'
      /\ Done'.subscribed = awaiting' \cup handled' /\ Done'.handled = handled'
    BY DEF Done
<1>4. \A k \in DOMAIN Done : Done[k] \subseteq Done'[k]
    BY <1>1, <1>2, <1>3 DEF Advances
<1>5. Done' # Done \/ Len(stack') < Len(stack)
    <2> SUFFICES ASSUME Done' = Done PROVE Len(stack') < Len(stack)
        OBVIOUS
    <2>1. /\ Done'.registered = Done.registered /\ Done'.ended = Done.ended /\ Done'.begun = Done.begun
          /\ Done'.subscribed = Done.subscribed /\ Done'.handled = Done.handled
        OBVIOUS
    <2> QED BY <1>2, <1>3, <2>1 DEF Advances
<1> QED BY <1>4, <1>5

\* The plugins whose Initialize is open, by the frames.
LEMMA InitializingIs ==
    /\ \A i \in DOMAIN stack : stack[i].call = "Initialize" => stack[i].plugin \in Initializing
    /\ \A p \in Initializing : \E i \in DOMAIN stack : stack[i].call = "Initialize" /\ stack[i].plugin = p
BY DEF Initializing, ToSet

LEMMA InitializingStays ==
    ASSUME NEW E,
           \A i \in DOMAIN stack : stack[i].call = "Initialize" =>
              \/ stack[i].plugin \in E
              \/ \E j \in DOMAIN stack' : stack'[j].call = "Initialize" /\ stack'[j].plugin = stack[i].plugin
    PROVE  Initializing \subseteq E \cup Initializing'
<1> SUFFICES ASSUME NEW p \in Initializing, p \notin E PROVE p \in Initializing'
    OBVIOUS
<1>1. PICK i \in DOMAIN stack : stack[i].call = "Initialize" /\ stack[i].plugin = p
    BY InitializingIs
<1>2. PICK j \in DOMAIN stack' : stack'[j].call = "Initialize" /\ stack'[j].plugin = p
    BY <1>1
<1> QED BY <1>2 DEF Initializing, ToSet

\* A step in which nothing fails and calls take over the plugins of other calls, or deferred ones.
LEMMA FailedStays ==
    ASSUME Inductive, FailedFits, stack # <<>>,
           attempted' = attempted, failed' = failed, deferred' \subseteq deferred, phase' = phase,
           1 \in DOMAIN stack, Loaded' \subseteq Loaded \cup Claims(stack[1]),
           \A i \in DOMAIN stack' : \/ Claims(stack'[i]) \subseteq deferred
                                    \/ \E j \in DOMAIN stack : Claims(stack'[i]) \subseteq Claims(stack[j])
    PROVE  FailedFits'
<1>1. failed' \cap (Loaded' \cup deferred') = {}
    BY DEF FailedFits
<1>2. failed' \subseteq attempted' \ (Loaded' \cup deferred')
    BY <1>1 DEF FailedFits
<1>3. ASSUME NEW i \in DOMAIN stack' PROVE Claims(stack'[i]) \cap failed' = {}
    <2>1. CASE Claims(stack'[i]) \subseteq deferred
        BY <2>1 DEF FailedFits
    <2>2. CASE \E j \in DOMAIN stack : Claims(stack'[i]) \subseteq Claims(stack[j])
        BY <2>2 DEF FailedFits
    <2> QED BY <2>1, <2>2
<1>4. phase' = "loading"
    BY DEF FailedFits
<1> QED BY <1>2, <1>3, <1>4 DEF FailedFits

\* The innermost call goes on with the same plugins.
LEMMA GoesOn ==
    ASSUME Inductive, FailedFits, stack # <<>>, NEW f \in Frame, stack' = <<f>> \o Tail(stack),
           attempted' = attempted, failed' = failed, deferred' = deferred, phase' = phase, loaded' = loaded,
           Claims(f) = Claims(Head(stack)), f.call = Head(stack).call,
           f.call = "Initialize" => f.plugin = Head(stack).plugin
    PROVE  FailedFits' /\ Loaded' = Loaded /\ Initializing \subseteq Initializing'
<1>1. stack \in Seq(Frame) /\ Loaded' = Loaded
    BY DEF Inductive, TypeOK, Loaded
<1>2. /\ DOMAIN stack' = DOMAIN stack /\ stack'[1] = f
      /\ \A i \in DOMAIN stack : i # 1 => stack'[i] = stack[i]
    BY <1>1, Replaced
<1>3. 1 \in DOMAIN stack /\ Head(stack) = stack[1]
    BY <1>1, Top
<1>4. \A i \in DOMAIN stack' : Claims(stack'[i]) \subseteq Claims(stack[i])
    <2> SUFFICES ASSUME NEW i \in DOMAIN stack' PROVE Claims(stack'[i]) = Claims(stack[i])
        OBVIOUS
    <2>1. CASE i = 1
        BY <1>2, <1>3, <2>1
    <2>2. CASE i # 1
        BY <1>2, <2>2
    <2> QED BY <2>1, <2>2
<1>5. FailedFits'
    BY <1>1, <1>2, <1>3, <1>4, FailedStays
<1>6. ASSUME NEW i \in DOMAIN stack, stack[i].call = "Initialize"
      PROVE  stack'[i].call = "Initialize" /\ stack'[i].plugin = stack[i].plugin
    <2>1. CASE i = 1
        BY <1>2, <1>3, <1>6, <2>1
    <2>2. CASE i # 1
        BY <1>2, <1>6, <2>2
    <2> QED BY <2>1, <2>2
<1>7. Initializing \subseteq {} \cup Initializing'
    BY <1>2, <1>6, InitializingStays
<1> QED BY <1>1, <1>5, <1>7

\* A call goes on, now as the frame f, and makes another one, the frame g.
LEMMA GoesOnInside ==
    ASSUME Inductive, FailedFits, stack # <<>>, NEW f \in Frame, NEW g \in Frame,
           stack' = <<g>> \o (<<f>> \o Tail(stack)),
           attempted' = attempted, failed' = failed, deferred' \subseteq deferred, phase' = phase,
           Loaded' \subseteq Loaded \cup Claims(Head(stack)),
           Claims(f) \subseteq Claims(Head(stack)),
           Claims(g) \subseteq deferred \/ Claims(g) \subseteq Claims(Head(stack)),
           Head(stack).call = "Initialize" =>
               Head(stack).plugin \in Loaded' \/ (f.call = "Initialize" /\ f.plugin = Head(stack).plugin)
    PROVE  /\ FailedFits' /\ Initializing \subseteq Loaded' \cup Initializing'
           /\ g.call = "Initialize" => g.plugin \in Initializing'
<1>1. stack \in Seq(Frame)
    BY DEF Inductive, TypeOK
<1>2. CallsOn(stack', g, f, stack)
    BY <1>1, ReplacedPushed
<1>3. 1 \in DOMAIN stack /\ Head(stack) = stack[1]
    BY <1>1, Top
<1>4. ASSUME NEW i \in DOMAIN stack'
      PROVE  \/ Claims(stack'[i]) \subseteq deferred
             \/ \E j \in DOMAIN stack : Claims(stack'[i]) \subseteq Claims(stack[j])
    <2>1. CASE i = 1
        BY <1>2, <1>3, <2>1 DEF CallsOn
    <2>2. CASE i = 2
        BY <1>2, <1>3, <2>2 DEF CallsOn
    <2>3. CASE i # 1 /\ i # 2
        <3>1. i - 1 \in DOMAIN stack /\ stack'[i] = stack[i - 1]
            BY <1>2, <2>3 DEF CallsOn
        <3> QED BY <3>1
    <2> QED BY <2>1, <2>2, <2>3
<1>5. FailedFits'
    BY <1>3, <1>4, FailedStays
<1>6. ASSUME NEW i \in DOMAIN stack, stack[i].call = "Initialize"
      PROVE  \/ stack[i].plugin \in Loaded'
             \/ \E j \in DOMAIN stack' : stack'[j].call = "Initialize" /\ stack'[j].plugin = stack[i].plugin
    <2>1. CASE i = 1
        BY <1>2, <1>3, <1>6, <2>1 DEF CallsOn
    <2>2. CASE i # 1
        BY <1>2, <1>6, <2>2 DEF CallsOn
    <2> QED BY <2>1, <2>2
<1>7. Initializing \subseteq Loaded' \cup Initializing'
    BY <1>6, InitializingStays
<1>8. g.call = "Initialize" => g.plugin \in Initializing'
    BY <1>2 DEF CallsOn, Initializing, ToSet
<1> QED BY <1>5, <1>7, <1>8

\* A component is registered once.
LEMMA RegisterComponentAdvances ==
    ASSUME Inductive, FailedFits, NEW c \in Component, RegisterComponent(c)
    PROVE  FailedFits' /\ Advances
<1> DEFINE h == Head(stack)
           f == [h EXCEPT !.registers = @ \ {c}]
           ready == {p \in deferred : pluginDeps'[p] = {} /\ componentDeps'[p] = {}}
           g == [call |-> "LoadDeferred", ready |-> ready]
<1>1. /\ stack # <<>> /\ h.call = "Initialize" /\ stack \in Seq(Frame) /\ deferred \subseteq Plugin
      /\ registered' = registered \cup {c} /\ c \notin registered
      /\ UNCHANGED <<attempted, loaded, awaiting, handled, failed, phase>>
      /\ stack' = <<g>> \o (<<f>> \o Tail(stack))
      /\ deferred' = deferred \ ready /\ Loaded' = Loaded
    BY DEF Inductive, TypeOK, RegisterComponent, LoadDeferred, Running, handlerVars, stopVars, Loaded
<1>2. h \in Frame
    BY <1>1, Top
<1>3. ready \in SUBSET Plugin
    BY <1>1
<1> HIDE DEF ready, h
<1>4. f \in Frame /\ f.call = "Initialize" /\ f.plugin = h.plugin
    BY <1>1, <1>2, RegistersLess
<1>5. g \in Frame /\ g.call = "LoadDeferred" /\ Claims(g) = ready
    BY <1>3, NewFrames
<1> HIDE DEF f, g
<1>6. Claims(f) = Claims(h) /\ Claims(g) \subseteq deferred
    BY <1>1, <1>4, <1>5 DEF Claims, ready
<1>7. FailedFits' /\ Initializing \subseteq Loaded' \cup Initializing'
    BY <1>1, <1>4, <1>5, <1>6, GoesOnInside DEF h
<1> QED BY <1>1, <1>7 DEF Advances

\* A handler is subscribed once, or runs when it is added.
LEMMA AddHandlerAdvances ==
    ASSUME Inductive, FailedFits, NEW q \in Plugin, AddPluginLoadedHandler(q)
    PROVE  FailedFits' /\ Advances
<1> DEFINE h == Head(stack)
           f == [h EXCEPT !.awaits = @ \ {q}]
           k == <<h.plugin, q>>
<1>1. /\ stack # <<>> /\ h.call = "Initialize" /\ stack \in Seq(Frame) /\ q \in h.awaits
      /\ UNCHANGED <<attempted, loaded, deferred, registered, failed, phase>>
      /\ stack' = <<f>> \o Tail(stack)
      /\ \/ handled' = handled \cup {k} /\ awaiting' = awaiting
         \/ awaiting' = awaiting \cup {k} /\ handled' = handled
    BY DEF Inductive, TypeOK, AddPluginLoadedHandler, Running, depVars, stopVars
<1>2. h \in Frame /\ h = stack[1] /\ 1 \in DOMAIN stack
    BY <1>1, Top
<1>3. k \notin awaiting \cup handled
    BY <1>1, <1>2 DEF Inductive, HandlersFit
<1> HIDE DEF h
<1>4. f \in Frame /\ f.call = "Initialize" /\ f.plugin = h.plugin
    BY ZenonT(30), <1>1, <1>2, AwaitsLess
<1> HIDE DEF f, k
<1>5. Claims(f) = Claims(h)
    BY <1>1, <1>4 DEF Claims
<1>6. FailedFits' /\ Loaded' = Loaded /\ Initializing \subseteq Initializing'
    BY <1>1, <1>4, <1>5, GoesOn DEF h
<1> QED BY <1>1, <1>3, <1>6 DEF Advances

\* A handler runs once.
LEMMA NotifyAdvances ==
    ASSUME Inductive, FailedFits, NEW o \in Plugin, Notify(o)
    PROVE  FailedFits' /\ Advances
<1> DEFINE h == Head(stack)
           f == [h EXCEPT !.owners = @ \ {o}]
           k == <<o, h.plugin>>
<1>1. /\ stack # <<>> /\ h.call = "Notify" /\ stack \in Seq(Frame) /\ o \in h.owners
      /\ UNCHANGED <<attempted, loaded, deferred, registered, failed, phase>>
      /\ stack' = <<f>> \o Tail(stack)
      /\ handled' = handled \cup {k} /\ awaiting' = awaiting \ {k}
    BY DEF Inductive, TypeOK, Notify, Running, depVars, stopVars
<1>2. h \in Frame /\ h = stack[1] /\ 1 \in DOMAIN stack
    BY <1>1, Top
<1>3. k \notin handled
    BY <1>1, <1>2 DEF Inductive, HandlersFit
<1> HIDE DEF h
<1>4. f \in Frame /\ f.call = "Notify" /\ f.plugin = h.plugin
    BY <1>1, <1>2, OwnersLess
<1> HIDE DEF f, k
<1>5. Claims(f) = Claims(h)
    BY <1>1, <1>4 DEF Claims
<1>6. FailedFits' /\ Loaded' = Loaded /\ Initializing \subseteq Initializing'
    BY <1>1, <1>4, <1>5, GoesOn DEF h
<1> QED BY <1>1, <1>3, <1>6 DEF Advances

\* A plugin gets loaded once, and only if its Initialize has not thrown.
LEMMA InitializeReturnsAdvances ==
    ASSUME Inductive, FailedFits, InitializeReturns
    PROVE  FailedFits' /\ Advances
<1>0. PICK p : p = Head(stack).plugin
    OBVIOUS
<1>1. PICK owners : owners = {h[1] : h \in {g \in awaiting : g[2] = p}}
    OBVIOUS
<1> DEFINE f == [call |-> "Notify", plugin |-> p, owners |-> owners]
           ready == {d \in deferred : pluginDeps'[d] = {} /\ componentDeps'[d] = {}}
           g == [call |-> "LoadDeferred", ready |-> ready]
<1>2. /\ stack # <<>> /\ Head(stack).call = "Initialize" /\ stack \in Seq(Frame) /\ deferred \subseteq Plugin
      /\ loaded' = Append(loaded, p) /\ loaded \in Seq(Plugin)
      /\ UNCHANGED <<attempted, registered, awaiting, handled, failed, phase>>
      /\ stack' = <<g>> \o (<<f>> \o Tail(stack))
      /\ deferred' = deferred \ ready
    BY <1>0, <1>1 DEF Inductive, TypeOK, InitializeReturns, LoadDeferred, Running, handlerVars, stopVars
<1>3. Head(stack) \in Frame /\ Head(stack) = stack[1] /\ 1 \in DOMAIN stack /\ Claims(Head(stack)) = {p}
    BY <1>0, <1>2, Top DEF Claims
<1>4. p \in Plugin /\ p \notin Loaded /\ p \notin failed
    BY <1>0, <1>2, <1>3, FrameTypes DEF Inductive, FrameFits, FailedFits
<1>5. owners \subseteq Plugin
    BY <1>1 DEF Inductive, TypeOK
<1>6. ready \in SUBSET Plugin
    BY <1>2
<1>7. f \in Frame /\ Claims(f) = {p}
    BY <1>4, <1>5, NewFrames
<1>8. g \in Frame /\ Claims(g) = ready
    <2> HIDE DEF ready
    <2> QED BY <1>6, NewFrames
<1>9. ready \subseteq deferred
    OBVIOUS
<1>10. Loaded' = Loaded \cup {p}
    BY <1>2, <1>4, AppendLoaded DEF Loaded
<1> HIDE DEF f, g, ready
<1>11. FailedFits' /\ Initializing \subseteq Loaded' \cup Initializing'
    <2>1. /\ Loaded' \subseteq Loaded \cup Claims(Head(stack)) /\ Head(stack).plugin \in Loaded'
          /\ Claims(f) \subseteq Claims(Head(stack)) /\ Claims(g) \subseteq deferred
          /\ deferred' \subseteq deferred
        BY <1>0, <1>2, <1>3, <1>7, <1>8, <1>9, <1>10
    <2>2. f \in Frame /\ g \in Frame /\ stack # <<>> /\ stack' = <<g>> \o (<<f>> \o Tail(stack))
          /\ attempted' = attempted /\ failed' = failed /\ phase' = phase
        BY <1>2, <1>7, <1>8
    <2> QED BY <2>1, <2>2, GoesOnInside
<1> QED BY <1>2, <1>4, <1>10, <1>11 DEF Advances

\* Initialize begins once for a plugin.
LEMMA InitializeDeferredAdvances ==
    ASSUME Inductive, FailedFits, NEW p \in Plugin, InitializeDeferred(p)
    PROVE  FailedFits' /\ Advances
<1> DEFINE h == Head(stack)
           f == [h EXCEPT !.ready = @ \ {p}]
           g == Initialize(p, FALSE)
<1>1. /\ stack # <<>> /\ h.call = "LoadDeferred" /\ p \in h.ready /\ stack \in Seq(Frame)
      /\ UNCHANGED <<attempted, loaded, deferred, registered, awaiting, handled, failed, phase>>
      /\ Loaded' = Loaded
    BY DEF Inductive, TypeOK, InitializeDeferred, Running, depVars, handlerVars, stopVars, Loaded
<1>2. h \in Frame /\ h = stack[1] /\ 1 \in DOMAIN stack /\ Claims(h) = h.ready
    BY <1>1, Top DEF Claims
<1>3. stack' = <<g, f>> \o Tail(stack) /\ Tail(stack) \in Seq(Frame)
    BY <1>1, Top DEF InitializeDeferred
<1>4. p \notin Loaded \cup failed
    BY <1>1, <1>2 DEF Inductive, FrameFits, FailedFits
<1>5. p \notin Initializing
    <2> SUFFICES ASSUME p \in Initializing PROVE FALSE
        OBVIOUS
    <2>1. PICK i \in DOMAIN stack : stack[i].call = "Initialize" /\ p \in Claims(stack[i])
        BY ClaimedBy
    <2>2. i # 1
        BY <1>1, <1>2, <2>1
    <2> QED BY <1>1, <1>2, <2>1, <2>2 DEF Inductive, ClaimsDiffer
<1> HIDE DEF h
<1>6. f \in Frame /\ f.call = "LoadDeferred" /\ f.ready = h.ready \ {p}
    BY <1>1, <1>2, ReadyLess
<1>7. g \in Frame /\ g.call = "Initialize" /\ g.plugin = p /\ Claims(g) = {p}
    BY NewFrames
<1> HIDE DEF f, g
<1>8. Claims(f) = h.ready \ {p}
    BY <1>6 DEF Claims
<1>9. stack' = <<g>> \o (<<f>> \o Tail(stack))
    BY SMTT(30), <1>3, <1>6, <1>7, TwoPushed
<1>10. FailedFits' /\ Initializing \subseteq Loaded' \cup Initializing' /\ p \in Initializing'
    BY <1>1, <1>2, <1>6, <1>7, <1>8, <1>9, GoesOnInside DEF h
<1> QED BY <1>1, <1>4, <1>5, <1>10 DEF Advances

\* A call returns and leaves everything as it is.
LEMMA ReturnAdvances ==
    ASSUME Inductive, FailedFits, Return
    PROVE  FailedFits' /\ Advances
<1>1. /\ stack # <<>> /\ stack \in Seq(Frame)
      /\ UNCHANGED <<attempted, loaded, deferred, registered, awaiting, handled, failed, phase>>
      /\ stack' = Tail(stack) /\ Loaded' = Loaded
      /\ Head(stack).call \in {"LoadDeferred", "Notify"}
    BY DEF Inductive, TypeOK, Return, Running, depVars, handlerVars, stopVars, Loaded
<1>2. /\ Len(stack) \in Nat \ {0} /\ DOMAIN stack = 1 .. Len(stack) /\ Head(stack) = stack[1]
      /\ stack' \in Seq(Frame) /\ DOMAIN stack' = 1 .. Len(stack) - 1 /\ Len(stack') = Len(stack) - 1
      /\ \A i \in 1 .. Len(stack) - 1 : stack'[i] = stack[i + 1]
    BY <1>1, Top
<1>3. \A i \in DOMAIN stack' : i + 1 \in DOMAIN stack /\ stack'[i] = stack[i + 1]
    BY <1>2
<1>4. FailedFits'
    BY <1>1, <1>2, <1>3, FailedStays
<1>5. ASSUME NEW i \in DOMAIN stack, stack[i].call = "Initialize"
      PROVE  \E j \in DOMAIN stack' : stack'[j].call = "Initialize" /\ stack'[j].plugin = stack[i].plugin
    <2>1. i # 1
        BY <1>1, <1>2, <1>5
    <2>2. i - 1 \in DOMAIN stack' /\ (i - 1) + 1 = i
        BY <1>2, <2>1
    <2> QED BY <1>3, <1>5, <2>2
<1>6. Initializing \subseteq {} \cup Initializing'
    BY <1>5, InitializingStays
<1>7. Len(stack') < Len(stack)
    BY <1>2
<1> QED BY <1>1, <1>4, <1>6, <1>7 DEF Advances

\* Initialize throws once for a plugin, and ends no other Initialize.
LEMMA InitializeThrowsAdvances ==
    ASSUME Inductive, FailedFits, InitializeThrows
    PROVE  FailedFits' /\ Advances
<1>0. PICK p : p = Head(stack).plugin
    OBVIOUS
<1>1. /\ stack # <<>> /\ stack \in Seq(Frame) /\ Head(stack).call = "Initialize"
      /\ UNCHANGED <<attempted, loaded, deferred, registered, awaiting, handled, phase>>
      /\ failed' = failed \cup {p} /\ Loaded' = Loaded
      /\ stack' = IF Head(stack).direct THEN Tail(stack) ELSE Tail(Tail(stack))
    BY <1>0 DEF Inductive, TypeOK, InitializeThrows, Running, depVars, handlerVars, stopVars, Loaded
<1>2. /\ Len(stack) \in Nat \ {0} /\ DOMAIN stack = 1 .. Len(stack) /\ Head(stack) = stack[1]
      /\ 1 \in DOMAIN stack /\ Claims(stack[1]) = {p}
      /\ Tail(stack) \in Seq(Frame) /\ DOMAIN Tail(stack) = 1 .. Len(stack) - 1
      /\ Len(Tail(stack)) = Len(stack) - 1
      /\ \A i \in 1 .. Len(stack) - 1 : Tail(stack)[i] = stack[i + 1]
    BY <1>0, <1>1, Top DEF Claims
<1>3. p \in attempted \ (Loaded \cup deferred) /\ p \notin failed
    BY <1>1, <1>2 DEF Inductive, FrameFits, FailedFits
<1>4. PICK n \in {1, 2} :
         /\ \A i \in DOMAIN stack' : i + n \in DOMAIN stack /\ stack'[i] = stack[i + n] /\ i + n # 1
         /\ \A i \in DOMAIN stack : i > n => i - n \in DOMAIN stack' /\ stack'[i - n] = stack[i]
         /\ n = 2 => stack[2].call = "LoadDeferred"
    <2>1. CASE Head(stack).direct
        <3>1. stack' = Tail(stack)
            BY <1>1, <2>1
        <3>2. \A i \in DOMAIN stack' : i + 1 \in DOMAIN stack /\ stack'[i] = stack[i + 1] /\ i + 1 # 1
            BY <1>2, <3>1
        <3>3. ASSUME NEW i \in DOMAIN stack, i > 1
              PROVE  i - 1 \in DOMAIN stack' /\ stack'[i - 1] = stack[i]
            <4>1. i - 1 \in 1 .. Len(stack) - 1 /\ (i - 1) + 1 = i
                BY <1>2, <3>3
            <4> QED BY <1>2, <3>1, <4>1
        <3>4. 1 \in {1, 2} /\ (1 = 2 => stack[2].call = "LoadDeferred")
            OBVIOUS
        <3> QED BY <3>2, <3>3, <3>4
    <2>2. CASE ~Head(stack).direct
        <3>1. CalledFrom(1)
            BY <1>2 DEF Inductive
        <3>2. 1 + 1 \in DOMAIN stack /\ stack[1 + 1].call = "LoadDeferred"
            BY <1>1, <1>2, <2>2, <3>1 DEF CalledFrom
        <3>3. 2 \in DOMAIN stack /\ stack[2].call = "LoadDeferred"
            BY <3>2
        <3>4. Tail(stack) # <<>>
            <4>1. Len(Tail(stack)) # 0
                BY <1>2, <3>3
            <4> QED BY <4>1, EmptySeq
        <3>5. /\ stack' = Tail(Tail(stack)) /\ DOMAIN stack' = 1 .. Len(stack) - 2
              /\ \A i \in 1 .. Len(stack) - 2 : stack'[i] = Tail(stack)[i + 1]
            <4>1. /\ DOMAIN Tail(Tail(stack)) = 1 .. Len(Tail(stack)) - 1
                  /\ \A i \in 1 .. Len(Tail(stack)) - 1 : Tail(Tail(stack))[i] = Tail(stack)[i + 1]
                BY <1>2, <3>4, Top
            <4>2. Len(Tail(stack)) - 1 = Len(stack) - 2
                BY <1>2
            <4> QED BY <1>1, <2>2, <4>1, <4>2
        <3>6. ASSUME NEW i \in DOMAIN stack'
              PROVE  i + 2 \in DOMAIN stack /\ stack'[i] = stack[i + 2] /\ i + 2 # 1
            <4>1. i + 1 \in 1 .. Len(stack) - 1 /\ (i + 1) + 1 = i + 2 /\ i + 2 \in 1 .. Len(stack)
                BY <1>2, <3>5
            <4> QED BY <1>2, <3>5, <4>1
        <3>7. ASSUME NEW i \in DOMAIN stack, i > 2
              PROVE  i - 2 \in DOMAIN stack' /\ stack'[i - 2] = stack[i]
            <4>1. i - 2 \in 1 .. Len(stack) - 2 /\ (i - 2) + 2 = i
                BY <1>2, <3>7
            <4> QED BY <3>5, <3>6, <4>1
        <3>8. 2 \in {1, 2}
            OBVIOUS
        <3> QED BY <3>3, <3>6, <3>7, <3>8
    <2> QED BY <2>1, <2>2
<1>5. FailedFits'
    <2>1. failed' \subseteq attempted' \ (Loaded' \cup deferred') /\ phase' = "loading"
        BY <1>1, <1>3 DEF FailedFits
    <2>2. ASSUME NEW i \in DOMAIN stack' PROVE Claims(stack'[i]) \cap failed' = {}
        <3>1. i + n \in DOMAIN stack /\ stack'[i] = stack[i + n] /\ i + n # 1
            BY <1>4
        <3>2. Claims(stack[i + n]) \cap Claims(stack[1]) = {}
            BY <1>2, <3>1 DEF Inductive, ClaimsDiffer
        <3> QED BY <1>1, <1>2, <3>1, <3>2 DEF FailedFits
    <2> QED BY <2>1, <2>2 DEF FailedFits
<1>6. ASSUME NEW i \in DOMAIN stack, stack[i].call = "Initialize"
      PROVE  \/ stack[i].plugin \in failed'
             \/ \E j \in DOMAIN stack' : stack'[j].call = "Initialize" /\ stack'[j].plugin = stack[i].plugin
    <2>1. CASE i = 1
        BY <1>0, <1>1, <1>2, <2>1
    <2>2. CASE i # 1
        <3>1. i > n
            <4>1. i \in Nat /\ i # 0
                BY <1>2
            <4>2. n = 2 => i # 2
                BY <1>4, <1>6
            <4> QED BY <2>2, <4>1, <4>2
        <3> QED BY <1>4, <1>6, <3>1
    <2> QED BY <2>1, <2>2
<1>7. Initializing \subseteq failed' \cup Initializing'
    BY <1>6, InitializingStays
<1> QED BY <1>1, <1>3, <1>5, <1>7 DEF Advances

\* Nothing else happens while a call is open, and no call opens but in the loading phase.
LEMMA NextAdvances ==
    ASSUME Inductive, FailedFits, Next
    PROVE  FailedFits' /\ (stack # <<>> => Advances)
<1>1. ASSUME NEW p \in Plugin, LoadPlugin(p) PROVE FailedFits' /\ stack = <<>>
    <2> DEFINE f == Initialize(p, TRUE)
    <2>1. /\ stack = <<>> /\ phase' = "loading" /\ p \in Files \ attempted
          /\ attempted' = attempted \cup {p} /\ failed' = failed /\ Loaded' = Loaded
          /\ \/ stack' = stack /\ deferred' = deferred \cup {p}
             \/ stack' = <<f>> /\ deferred' = deferred
        BY <1>1 DEF LoadPlugin, Idle, depVars, stopVars, Loaded
    <2>2. p \notin failed /\ failed' \subseteq attempted' \ (Loaded' \cup deferred')
        BY <2>1 DEF FailedFits
    <2>3. Claims(f) = {p}
        BY NewFrames
    <2> HIDE DEF f
    <2>4. \A i \in DOMAIN stack' : Claims(stack'[i]) \cap failed' = {}
        <3>1. CASE stack' = <<f>>
            <4>1. \A i \in DOMAIN stack' : stack'[i] = f
                BY <3>1
            <4> QED BY <2>1, <2>2, <2>3, <4>1
        <3>2. CASE stack' = stack
            BY <2>1, <3>2
        <3> QED BY <2>1, <3>1, <3>2
    <2> QED BY <2>1, <2>2, <2>4 DEF FailedFits
<1>2. ASSUME NEW c \in Component, RegisterComponent(c) PROVE FailedFits' /\ Advances
    BY <1>2, RegisterComponentAdvances
<1>3. ASSUME NEW p \in Plugin, AddPluginLoadedHandler(p) PROVE FailedFits' /\ Advances
    BY <1>3, AddHandlerAdvances
<1>4. ASSUME NEW p \in Plugin, InitializeDeferred(p) PROVE FailedFits' /\ Advances
    BY <1>4, InitializeDeferredAdvances
<1>5. ASSUME NEW p \in Plugin, Notify(p) PROVE FailedFits' /\ Advances
    BY <1>5, NotifyAdvances
<1>6. InitializeReturns => FailedFits' /\ Advances
    BY InitializeReturnsAdvances
<1>7. InitializeThrows => FailedFits' /\ Advances
    BY InitializeThrowsAdvances
<1>8. Return => FailedFits' /\ Advances
    BY ReturnAdvances
<1>9. ASSUME \/ BeginShutdown \/ EndShutdown \/ \E i \in DOMAIN stopping : ShutdownPlugin(i)
      PROVE  FailedFits' /\ stack = <<>>
    <2>1. /\ UNCHANGED <<attempted, loaded, deferred, failed, stack>> /\ Loaded' = Loaded
          /\ stack = <<>>
        BY <1>9 DEF BeginShutdown, EndShutdown, ShutdownPlugin, Idle, depVars, FailedFits, Loaded
    <2> QED BY <2>1 DEF FailedFits
<1>10. Continue => FailedFits' /\ (stack # <<>> => Advances)
    BY <1>2, <1>3, <1>4, <1>5, <1>6, <1>7, <1>8, <1>9 DEF Continue
<1> QED BY <1>1, <1>9, <1>10 DEF Next

(***************************************************************************)
(* The theorems.                                                           *)
(***************************************************************************)

\* The types of the state.
THEOREM TypeCorrect == Spec => []TypeOK
<1>1. Inductive => TypeOK
    BY DEF Inductive
<1> QED BY <1>1, InitInductive, NextInductive, PTL DEF Spec

\* However deep Initialize, registrations and their events nest, every plugin is claimed
\* by one call at most, a deferred plugin lacks something, and as long as nothing has failed
\* some call answers for every plugin that is neither loaded nor deferred.
THEOREM InductiveInvariant == Spec => []Inductive
<1> QED BY InitInductive, NextInductive, PTL DEF Spec

\* PluginManager.LoadPlugin and LoadDeferredPluginsWithNoDeps call no Initialize before all
\* plugins and components it depends on are there.
THEOREM LoadsInOrder == Spec => []DependenciesFirst
<1> QED BY InitInductive, NextInductive, InductiveOrder, PTL DEF Spec

\* PluginManager calls Initialize of a plugin once, in nested calls too.
THEOREM InitializesOnce == Spec => []InitializedOnce
<1> QED BY InitInductive, NextInductive, InductiveOnce, PTL DEF Spec

\* When LoadPlugin has returned no plugin that has all it needs is left in deferredPlugins.
THEOREM NoneLeftReady == Spec => []NothingReadyDeferred
<1>1. Inductive => NothingReadyDeferred
    BY DEF Inductive, DeferredWait, HasAllItNeeds, NothingReadyDeferred
<1> QED BY <1>1, InitInductive, NextInductive, PTL DEF Spec

\* As long as no Initialize has thrown, every plugin is loaded or deferred when LoadPlugin
\* has returned.
THEOREM NoneForgotten == Spec => []NoneForgottenWithoutFailure
<1>1. Inductive => NoneForgottenWithoutFailure
    BY DEF Inductive, Accounted, NoneForgottenWithoutFailure, NoPluginForgotten, Idle
<1> QED BY <1>1, InitInductive, NextInductive, PTL DEF Spec

\* ShutdownAllPlugins shuts no plugin down while one that depends on it is left.
THEOREM StopsInOrder == Spec => []ShutdownInOrder
<1>1. Inductive => ShutdownInOrder
    BY DEF Inductive
<1> QED BY <1>1, InitInductive, NextInductive, PTL DEF Spec

\* A handler of AddPluginLoadedHandler runs once, and has run when LoadPlugin has returned
\* if its plugin is loaded.
THEOREM HandlersAreCalled == Spec => []HandlersRunOnce
<1>1. Inductive => HandlersRunOnce
    BY DEF Inductive, HandlersFit, HandlersRunOnce, Idle
<1> QED BY <1>1, InitInductive, NextInductive, PTL DEF Spec

\* Inside LoadPlugin every step does something that is done once, or closes a call: as plugins,
\* components and handlers are finitely many, the nested calls come to an end.
THEOREM LoadingComesToAnEnd == Spec => LoadingAdvances
<1> DEFINE Step == stack # <<>> => /\ \A k \in DOMAIN Done : Done[k] \subseteq Done'[k]
                                   /\ Done' # Done \/ Len(stack') < Len(stack)
<1>1. Init => FailedFits
    BY InitFailed
<1>2. Inductive /\ FailedFits /\ [Next]_vars => FailedFits' /\ [Step]_vars
    <2>1. Inductive /\ FailedFits /\ Next => FailedFits' /\ Step
        BY NextAdvances, DoneAdvances
    <2>2. FailedFits /\ UNCHANGED vars => FailedFits'
        BY DEF vars, depVars, stopVars, FailedFits, Loaded
    <2> HIDE DEF Step
    <2> QED BY <2>1, <2>2
<1>3. LoadingAdvances <=> [][Step]_vars
    BY DEF LoadingAdvances
<1> HIDE DEF Step
<1> QED BY <1>1, <1>2, <1>3, InitInductive, NextInductive, PTL DEF Spec

=============================================================================
