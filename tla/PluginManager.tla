--------------------------- MODULE PluginManager ---------------------------
(***************************************************************************)
(* Loading and shutting down plugins (Core/PluginManager/PluginManager.cs) *)
(*                                                                         *)
(* A plugin whose dependencies are missing is deferred.  Initialize of a   *)
(* plugin registers components, and both a registration and the end of     *)
(* Initialize raise an event in which the plugin manager initializes the   *)
(* deferred plugins that have become ready: all on one thread, so that one *)
(* Initialize runs inside another.  The calls that are open are kept on a  *)
(* stack, and an action is what the innermost call does next.              *)
(*                                                                         *)
(* A plugin stands for its name, its file and its initializer.  A file is  *)
(* in one directory and no two files hold plugins of one name; files that  *)
(* hold no plugin only get into attemptedFilenames and are left out.  An   *)
(* HttpListenerException counts as a success of Initialize (PluginManager  *)
(* .cs:158), and handlers of AddPluginLoadedHandler do not throw.          *)
(***************************************************************************)
EXTENDS Naturals, Sequences, SequencesExt

CONSTANTS
    Plugin,             \* plugin names
    Files,              \* plugins whose file is in the directory and admitted by the lists
    Component,          \* component names
    PluginDependencies,     \* PluginDependencies[p]: plugins
    ComponentDependencies,  \* ComponentDependencies[p]: components
    Registers,          \* Registers[p]: the components Initialize of p registers
    Awaits,             \* Awaits[p]: the plugins it passes to AddPluginLoadedHandler
    MayFail             \* plugins whose Initialize or Shutdown may throw

ASSUME PluginAssumption ==
    /\ Files \subseteq Plugin
    /\ PluginDependencies \in [Plugin -> SUBSET Plugin]
    /\ ComponentDependencies \in [Plugin -> SUBSET Component]
    /\ Registers \in [Plugin -> SUBSET Component]
    /\ Awaits \in [Plugin -> SUBSET Plugin]
    /\ MayFail \subseteq Plugin

VARIABLES
    attempted,      \* attemptedFilenames
    loaded,         \* the keys of loadedPlugins, in the order of their insertion
    deferred,       \* the keys of deferredPlugins
    pluginDeps,     \* pluginDeps[p]: RemainingPluginDeps of a deferred plugin
    componentDeps,  \* componentDeps[p]: RemainingComponentDeps of a deferred plugin
    registered,     \* components in the ComponentRegistry
    awaiting,       \* handlers subscribed to OnAnyPluginInitialized, <<owner, plugin>>
    handled,        \* history: handlers that have run
    failed,         \* history: plugins whose Initialize has thrown
    stack,          \* the open calls, the innermost first
    phase,          \* "loading", "stopping", "ended"
    stopping        \* pluginsToShutdown

depVars == <<deferred, pluginDeps, componentDeps>>
handlerVars == <<awaiting, handled>>
stopVars == <<phase, stopping>>
vars == <<attempted, loaded, depVars, registered, handlerVars, failed, stack, stopVars>>

Frame ==
    \* Initialize of plugin, called by LoadPlugin (direct) or for a deferred plugin.
    [call : {"Initialize"}, plugin : Plugin, direct : BOOLEAN,
     registers : SUBSET Component, awaits : SUBSET Plugin]
    \* LoadDeferredPluginsWithNoDeps with the plugins it has still to initialize.
    \cup [call : {"LoadDeferred"}, ready : SUBSET Plugin]
    \* OnAnyPluginInitialized, with the owners of the handlers to be called for plugin.
    \cup [call : {"Notify"}, plugin : Plugin, owners : SUBSET Plugin]

TypeOK ==
    /\ attempted \subseteq Files
    /\ loaded \in Seq(Plugin)
    /\ deferred \subseteq Plugin
    /\ pluginDeps \in [Plugin -> SUBSET Plugin]
    /\ componentDeps \in [Plugin -> SUBSET Component]
    /\ registered \subseteq Component
    /\ awaiting \subseteq Plugin \X Plugin
    /\ handled \subseteq Plugin \X Plugin
    /\ failed \subseteq Plugin
    /\ stack \in Seq(Frame)
    /\ phase \in {"loading", "stopping", "ended"}
    /\ stopping \in Seq(Plugin)

Loaded == ToSet(loaded)
Idle == stack = <<>>
Running(call) == stack # <<>> /\ Head(stack).call = call

Initialize(p, direct) ==
    [call |-> "Initialize", plugin |-> p, direct |-> direct,
     registers |-> Registers[p], awaits |-> Awaits[p]]

-----------------------------------------------------------------------------

\* LoadPlugin as far as Initialize: the plugin is initialized at once, or deferred.
LoadPlugin(p) ==
    LET ps == PluginDependencies[p] \ Loaded
        cs == ComponentDependencies[p] \ registered
    IN
    /\ Idle /\ phase = "loading"
    /\ p \in Files \ attempted
    /\ attempted' = attempted \cup {p}
    /\ IF ps = {} /\ cs = {}
       THEN /\ stack' = <<Initialize(p, TRUE)>>
            /\ UNCHANGED depVars
       ELSE /\ deferred' = deferred \cup {p}
            /\ pluginDeps' = [pluginDeps EXCEPT ![p] = ps]
            /\ componentDeps' = [componentDeps EXCEPT ![p] = cs]
            /\ UNCHANGED stack
    /\ UNCHANGED <<loaded, registered, handlerVars, failed, stopVars>>

\* Mutant: ready plugins stay in the deferred list until they are initialized.
LoadDeferredKeeps(frames) ==
    LET ready == {p \in deferred : pluginDeps'[p] = {} /\ componentDeps'[p] = {}} IN
    /\ stack' = <<[call |-> "LoadDeferred", ready |-> ready]>> \o frames
    /\ deferred' = deferred \ Loaded

\* Mutant: only the plugins a plugin depends on are looked at.
LoadDeferredIgnoresComponents(frames) ==
    LET ready == {p \in deferred : pluginDeps'[p] = {}} IN
    /\ stack' = <<[call |-> "LoadDeferred", ready |-> ready]>> \o frames
    /\ deferred' = deferred \ ready

\* LoadDeferredPluginsWithNoDeps takes the plugins that have no dependency left out of
\* the deferred list and goes on to initialize them; frames are the calls around it.
LoadDeferred(frames) ==
    LET ready == {p \in deferred : pluginDeps'[p] = {} /\ componentDeps'[p] = {}} IN
    /\ stack' = <<[call |-> "LoadDeferred", ready |-> ready]>> \o frames
    /\ deferred' = deferred \ ready

\* Initialize registers a component: ComponentRegistry.Register, HandleRegistredComponent.
RegisterComponent(c) ==
    /\ Running("Initialize")
    /\ c \in Head(stack).registers \ registered
    /\ registered' = registered \cup {c}
    /\ pluginDeps' = pluginDeps
    /\ componentDeps' = [p \in Plugin |-> IF p \in deferred THEN componentDeps[p] \ {c} ELSE componentDeps[p]]
    /\ LoadDeferred(<<[Head(stack) EXCEPT !.registers = @ \ {c}]>> \o Tail(stack))
    /\ UNCHANGED <<attempted, loaded, handlerVars, failed, stopVars>>

\* Mutant: a handler for a plugin that is loaded already is subscribed as well.
AddPluginLoadedHandlerLate(q) ==
    /\ Running("Initialize")
    /\ q \in Head(stack).awaits
    /\ awaiting' = awaiting \cup {<<Head(stack).plugin, q>>}
    /\ stack' = <<[Head(stack) EXCEPT !.awaits = @ \ {q}]>> \o Tail(stack)
    /\ UNCHANGED <<attempted, loaded, depVars, registered, handled, failed, stopVars>>

\* Initialize calls AddPluginLoadedHandler.
AddPluginLoadedHandler(q) ==
    LET h == <<Head(stack).plugin, q>> IN
    /\ Running("Initialize")
    /\ q \in Head(stack).awaits
    /\ IF q \in Loaded
       THEN handled' = handled \cup {h} /\ UNCHANGED awaiting
       ELSE awaiting' = awaiting \cup {h} /\ UNCHANGED handled
    /\ stack' = <<[Head(stack) EXCEPT !.awaits = @ \ {q}]>> \o Tail(stack)
    /\ UNCHANGED <<attempted, loaded, depVars, registered, failed, stopVars>>

\* Mutant: the loaded plugin is not crossed off the lists of the deferred ones.
InitializeReturnsSilently ==
    LET p == Head(stack).plugin
        owners == {h[1] : h \in {g \in awaiting : g[2] = p}}
    IN
    /\ Running("Initialize")
    /\ Head(stack).registers = {} /\ Head(stack).awaits = {}
    /\ loaded' = Append(loaded, p)
    /\ UNCHANGED <<pluginDeps, componentDeps>>
    /\ LoadDeferred(<<[call |-> "Notify", plugin |-> p, owners |-> owners]>> \o Tail(stack))
    /\ UNCHANGED <<attempted, registered, handlerVars, failed, stopVars>>

\* Initialize returns: the plugin is loaded and OnAnyPluginInitialized is raised.  Its
\* first handler is HandleInitializedPlugin, the others follow when that one returns.
InitializeReturns ==
    LET p == Head(stack).plugin
        owners == {h[1] : h \in {g \in awaiting : g[2] = p}}
    IN
    /\ Running("Initialize")
    /\ Head(stack).registers = {} /\ Head(stack).awaits = {}
    /\ loaded' = Append(loaded, p)
    /\ pluginDeps' = [d \in Plugin |-> IF d \in deferred THEN pluginDeps[d] \ {p} ELSE pluginDeps[d]]
    /\ componentDeps' = componentDeps
    /\ LoadDeferred(<<[call |-> "Notify", plugin |-> p, owners |-> owners]>> \o Tail(stack))
    /\ UNCHANGED <<attempted, registered, handlerVars, failed, stopVars>>

\* Initialize throws.  LoadPlugin gives the plugin up; LoadDeferredPluginsWithNoDeps
\* returns as well, with the plugins it has not yet come to.
InitializeThrows ==
    /\ Running("Initialize")
    /\ Head(stack).plugin \in MayFail \/ Head(stack).registers \cap registered # {}
    /\ failed' = failed \cup {Head(stack).plugin}
    /\ stack' = IF Head(stack).direct THEN Tail(stack) ELSE Tail(Tail(stack))
    /\ UNCHANGED <<attempted, loaded, depVars, registered, handlerVars, stopVars>>

\* LoadDeferredPluginsWithNoDeps goes on to its next plugin, in no particular order.
InitializeDeferred(p) ==
    /\ Running("LoadDeferred")
    /\ p \in Head(stack).ready
    /\ stack' = <<Initialize(p, FALSE), [Head(stack) EXCEPT !.ready = @ \ {p}]>> \o Tail(stack)
    /\ UNCHANGED <<attempted, loaded, depVars, registered, handlerVars, failed, stopVars>>

\* Mutant: the handlers are called from the first one again and again.
NotifyAgain(o) ==
    LET h == <<o, Head(stack).plugin>> IN
    /\ Running("Notify")
    /\ o \in Head(stack).owners
    /\ awaiting' = awaiting \ {h}
    /\ handled' = handled \cup {h}
    /\ UNCHANGED <<attempted, loaded, depVars, registered, failed, stack, stopVars>>

\* One of the other handlers runs, once.
Notify(o) ==
    LET h == <<o, Head(stack).plugin>> IN
    /\ Running("Notify")
    /\ o \in Head(stack).owners
    /\ awaiting' = awaiting \ {h}
    /\ handled' = handled \cup {h}
    /\ stack' = <<[Head(stack) EXCEPT !.owners = @ \ {o}]>> \o Tail(stack)
    /\ UNCHANGED <<attempted, loaded, depVars, registered, failed, stopVars>>

\* Mutant: LoadDeferredPluginsWithNoDeps may return before it has tried all it selected.
ReturnEarly ==
    /\ \/ Running("LoadDeferred")
       \/ Running("Notify") /\ Head(stack).owners = {}
    /\ stack' = Tail(stack)
    /\ UNCHANGED <<attempted, loaded, depVars, registered, handlerVars, failed, stopVars>>

\* A call that has nothing left to do returns.
Return ==
    /\ \/ Running("LoadDeferred") /\ Head(stack).ready = {}
       \/ Running("Notify") /\ Head(stack).owners = {}
    /\ stack' = Tail(stack)
    /\ UNCHANGED <<attempted, loaded, depVars, registered, handlerVars, failed, stopVars>>

-----------------------------------------------------------------------------

\* All files have been tried and the server is told to terminate.
BeginShutdown ==
    /\ Idle /\ phase = "loading"
    /\ attempted = Files
    /\ phase' = "stopping"
    /\ stopping' = loaded
    /\ UNCHANGED <<attempted, loaded, depVars, registered, handlerVars, failed, stack>>

\* Mutant: plugins are shut down in the order they were loaded.
CanStopFirst(i) == i = 1

\* The first plugin of the list on which none of the list depends.
CanStop(i) ==
    LET free(j) == \A q \in ToSet(stopping) : stopping[j] \notin PluginDependencies[q] IN
    free(i) /\ \A j \in 1 .. i - 1 : ~free(j)

ShutdownPlugin(i) ==
    /\ phase = "stopping"
    /\ CanStop(i)
    /\ stopping' = RemoveAt(stopping, i)
    /\ UNCHANGED <<attempted, loaded, depVars, registered, handlerVars, failed, stack, phase>>

\* Shutdown of a plugin throws, which nobody catches, or all plugins are shut down.
EndShutdown ==
    /\ phase = "stopping"
    /\ stopping = <<>> \/ \E i \in DOMAIN stopping : CanStop(i) /\ stopping[i] \in MayFail
    /\ phase' = "ended"
    /\ UNCHANGED <<attempted, loaded, depVars, registered, handlerVars, failed, stack, stopping>>

-----------------------------------------------------------------------------

Init ==
    /\ attempted = {}
    /\ loaded = <<>>
    /\ deferred = {}
    /\ pluginDeps = [p \in Plugin |-> {}]
    /\ componentDeps = [p \in Plugin |-> {}]
    /\ registered = {}
    /\ awaiting = {}
    /\ handled = {}
    /\ failed = {}
    /\ stack = <<>>
    /\ phase = "loading"
    /\ stopping = <<>>

\* What happens inside LoadPlugin and ShutdownAllPlugins.
Continue ==
    \/ \E c \in Component : RegisterComponent(c)
    \/ \E p \in Plugin : AddPluginLoadedHandler(p) \/ InitializeDeferred(p) \/ Notify(p)
    \/ InitializeReturns
    \/ InitializeThrows
    \/ Return
    \/ \E i \in DOMAIN stopping : ShutdownPlugin(i)
    \/ EndShutdown

Next ==
    \/ \E p \in Plugin : LoadPlugin(p)
    \/ Continue
    \/ BeginShutdown

Spec == Init /\ [][Next]_vars

\* A call that was made goes on: every Initialize and Shutdown returns or throws.
FairSpec == Spec /\ WF_vars(Continue)

-----------------------------------------------------------------------------
(* Properties *)

Initializing == {f.plugin : f \in {g \in ToSet(stack) : g.call = "Initialize"}}
Selected == UNION {f.ready : f \in {g \in ToSet(stack) : g.call = "LoadDeferred"}}

\* "Will only call initialize when all the plugins with names returned by
\* getDependencies have been loaded" (IPluginInitializer.cs:26-27), and the components too:
\* the plugins selected before a nested Initialize have not lost what they waited for.
DependenciesFirst ==
    \A p \in Initializing \cup Selected \cup Loaded :
        PluginDependencies[p] \subseteq Loaded /\ ComponentDependencies[p] \subseteq registered

\* Initialize is called once for every plugin, however the nested calls select them: at
\* any time a plugin is in one place, and in one frame.
InitializedOnce ==
    /\ IsInjective(loaded)
    /\ Initializing \cap Loaded = {}
    /\ deferred \cap (Initializing \cup Loaded \cup Selected) = {}
    /\ Selected \cap (Initializing \cup Loaded) = {}
    /\ \A i, j \in DOMAIN stack :
          i # j /\ stack[i].call = stack[j].call =>
              IF stack[i].call = "LoadDeferred" THEN stack[i].ready \cap stack[j].ready = {}
              ELSE stack[i].plugin # stack[j].plugin

\* When LoadPlugin has returned no plugin in the deferred list has all it needs.
NothingReadyDeferred ==
    Idle => \A p \in deferred :
        ~(PluginDependencies[p] \subseteq Loaded /\ ComponentDependencies[p] \subseteq registered)

\* "This method will be called by the plugin manager when all dependency plugins have
\* been satisfied" (IPluginInitializer.cs:54-55): when LoadPlugin has returned every plugin is
\* loaded, is waiting for something, or has itself failed.
NoPluginForgotten == Idle => attempted \subseteq Loaded \cup deferred \cup failed

\* As long as nothing has failed no plugin is forgotten, in whatever order the nested
\* calls take the plugins out of the deferred list and come to them.
NoneForgottenWithoutFailure == failed = {} => NoPluginForgotten

\* A handler for a plugin that is loaded has run, and runs no second time.
HandlersRunOnce ==
    /\ awaiting \cap handled = {}
    /\ Idle => \A h \in awaiting : h[2] \notin Loaded
    /\ \A h \in handled : h[2] \in Loaded

\* "Plugins may expect their dependencies to be still loaded when they are being shut
\* down" (PluginManager.cs:368-372).
ShutdownInOrder ==
    phase = "stopping" => \A p \in ToSet(stopping) : PluginDependencies[p] \subseteq ToSet(stopping)

\* However deep the calls nest, LoadPlugin returns.
LoadingReturns == stack # <<>> ~> stack = <<>>

\* What the nested calls have done so far.
Done ==
    [registered |-> registered,
     ended |-> Loaded \cup failed,
     begun |-> Loaded \cup failed \cup Initializing,
     subscribed |-> awaiting \cup handled,
     handled |-> handled]

\* Why LoadPlugin returns, however deep the calls nest: each step inside of it does something
\* that is done once for a component, a plugin or a handler, or else closes a call, and none
\* undoes anything.
LoadingAdvances ==
    [][stack # <<>> =>
          /\ \A k \in DOMAIN Done : Done[k] \subseteq Done'[k]
          /\ Done' # Done \/ Len(stack') < Len(stack)]_vars
-----------------------------------------------------------------------------
(* What every step keeps, and the proofs rest on *)

HasAllItNeeds(p) == PluginDependencies[p] \subseteq Loaded /\ ComponentDependencies[p] \subseteq registered

\* The plugins a call has taken out of the deferred list, or of the files, and answers for.
Claims(f) == IF f.call = "LoadDeferred" THEN f.ready ELSE {f.plugin}

\* A deferred plugin waits for something, and its lists say for what.
DeferredWait ==
    /\ deferred \subseteq attempted \ Loaded
    /\ \A p \in deferred :
          /\ pluginDeps[p] = PluginDependencies[p] \ Loaded
          /\ componentDeps[p] = ComponentDependencies[p] \ registered
          /\ ~HasAllItNeeds(p)

LoadedOnce ==
    /\ IsInjective(loaded)
    /\ Loaded \subseteq attempted
    /\ \A p \in Loaded : HasAllItNeeds(p)

\* An open call works on plugins that nobody else works on; only those for which the other
\* handlers are called are loaded already.
FrameFits(i) ==
    /\ Claims(stack[i]) \subseteq attempted \ deferred
    /\ IF stack[i].call = "Notify" THEN stack[i].plugin \in Loaded
       ELSE \A p \in Claims(stack[i]) : p \notin Loaded /\ HasAllItNeeds(p)

ClaimsDiffer == \A i, j \in DOMAIN stack : i # j => Claims(stack[i]) \cap Claims(stack[j]) = {}

\* Initialize of a deferred plugin is called by LoadDeferredPluginsWithNoDeps.
CalledFrom(i) ==
    stack[i].call = "Initialize" /\ ~stack[i].direct =>
        i + 1 \in DOMAIN stack /\ stack[i + 1].call = "LoadDeferred"

\* As long as nothing has failed some call answers for a plugin that is neither loaded
\* nor deferred.
Accounted ==
    failed = {} => \A p \in attempted \ (Loaded \cup deferred) :
                       \E i \in DOMAIN stack : p \in Claims(stack[i])

\* A handler is either still subscribed or has run, and of a plugin that is loaded one
\* that is subscribed is about to be called; Initialize has not added it before.
HandlersFit ==
    /\ awaiting \cap handled = {}
    /\ \A h \in handled : h[2] \in Loaded
    /\ \A h \in awaiting : h[2] \in Loaded =>
          \E i \in DOMAIN stack :
              stack[i].call = "Notify" /\ stack[i].plugin = h[2] /\ h[1] \in stack[i].owners
    /\ \A h \in awaiting \cup handled :
          /\ h[1] \in attempted \ deferred
          /\ \A i \in DOMAIN stack :
                /\ stack[i].call = "LoadDeferred" => h[1] \notin stack[i].ready
                /\ stack[i].call = "Initialize" /\ stack[i].plugin = h[1] => h[2] \notin stack[i].awaits
    /\ \A i \in DOMAIN stack :
          stack[i].call = "Notify" => \A o \in stack[i].owners : <<o, stack[i].plugin>> \in awaiting

\* A plugin that has failed is in no call and on no list, and no call is open when the
\* plugins are shut down.
FailedFits ==
    /\ failed \subseteq attempted \ (Loaded \cup deferred)
    /\ \A i \in DOMAIN stack : Claims(stack[i]) \cap failed = {}
    /\ stack # <<>> => phase = "loading"

Inductive ==
    /\ TypeOK
    /\ DeferredWait
    /\ LoadedOnce
    /\ \A i \in DOMAIN stack : FrameFits(i) /\ CalledFrom(i)
    /\ ClaimsDiffer
    /\ Accounted
    /\ HandlersFit
    /\ ShutdownInOrder

=============================================================================
