----------------------------- MODULE HotReload ------------------------------
(***************************************************************************)
(* Hot reload in the browser: the entry points that stand in for Blazor's  *)
(* (HotReloadSupport.ts), the exported functions behind them               *)
(* (WebAssemblyHotReload.cs) and the agent that applies a delta to the     *)
(* loaded assemblies and keeps it for those loaded later                   *)
(* (HotReloadAgent.cs).  A delta is known by its module and its number.    *)
(* The handlers' own work is left out; what matters of it is that code of  *)
(* the application runs, and may load assemblies, before the call returns. *)
(***************************************************************************)
EXTENDS Integers, Sequences, FiniteSets

CONSTANTS Modules,     \* module version ids
          Assemblies,  \* assemblies of the application
          ModuleOf,    \* the module of each assembly
          MaxDeltas,   \* deltas the tooling sends (a bound)
          MaxAgents    \* agents created (a bound)

ASSUME HotReloadAssumption ==
  /\ ModuleOf \in [Assemblies -> Modules]
  /\ MaxDeltas \in Nat /\ MaxAgents \in Nat

NoDelta == [number |-> 0]

VARIABLES
  linkerEnabled, \* UNO_BOOTSTRAP_LINKER_ENABLED
  hosted,        \* Blazor._internal is there for the tooling to call
  loaded,        \* AppDomain.GetAssemblies
  updateDelta,   \* the object in the static array _updateDeltas
  agents,        \* agents subscribed to AssemblyLoad, in the order of creation
  given,         \* per assembly: the deltas MetadataUpdater.ApplyUpdate got
  handling,      \* the update handlers of an applied delta are running
  sent,          \* deltas sent so far
  history,       \* per module: the deltas that were applied (history)
  failed,        \* modules a delta of which was rejected (history)
  early          \* assemblies loaded before the first delta (history)

vars == <<linkerEnabled, hosted, loaded, updateDelta, agents, given, handling, sent,
          history, failed, early>>

\* An agent: the module keys of the deltas in its stash.  Every entry of a
\* stash is a reference to the one object updateDelta.
NewAgent == [stash |-> <<>>]

Init ==
  /\ linkerEnabled \in BOOLEAN
  /\ hosted = FALSE
  /\ loaded \in SUBSET Assemblies
  /\ updateDelta = NoDelta
  /\ agents = <<>>
  /\ given = [a \in Assemblies |-> <<>>]
  /\ handling = FALSE
  /\ sent = 0
  /\ history = [m \in Modules |-> <<>>]
  /\ failed = {}
  /\ early = loaded

Rest == <<linkerEnabled, loaded, updateDelta, given, handling, sent, history, failed, early>>

(* initializeHotReload: the entry points are put in place and the first    *)
(* agent is made, unless the linker was enabled.  Then applyExisting lets  *)
(* a script of the tooling call applyHotReload, or fails with a log.       *)
InitializeHotReload ==
  /\ ~hosted
  /\ hosted' = TRUE
  /\ agents' = IF linkerEnabled THEN agents ELSE Append(agents, NewAgent)
  /\ UNCHANGED Rest

(* The tooling calls initialize, or getApplyUpdateCapabilities, which does *)
(* the same: a new agent, beside those already subscribed.                 *)
Initialize ==
  /\ hosted /\ ~linkerEnabled /\ ~handling
  /\ Len(agents) < MaxAgents
  /\ agents' = Append(agents, NewAgent)
  /\ UNCHANGED hosted /\ UNCHANGED Rest

LoadedOf(m) == {a \in loaded : ModuleOf[a] = m}

Give(who, d) ==
  given' = [a \in Assemblies |-> IF a \in who THEN Append(given[a], d) ELSE given[a]]

\* A plausible slip: only one assembly of a module is looked for.
ApplyToFirst(m, d) ==
  IF LoadedOf(m) = {} THEN UNCHANGED given ELSE Give({CHOOSE a \in LoadedOf(m) : TRUE}, d)

ApplyToLoaded(m, d) == Give(LoadedOf(m), d)

\* What the agent of this call keeps of the delta.
Stash(m) == [stash |-> <<m>>]

(* applyHotReload: initialize again, overwrite the static delta object,    *)
(* apply it to every loaded assembly of its module, stash the object and   *)
(* start the update handlers.                                              *)
ApplyHotReload(m) ==
  LET d == [module |-> m, number |-> sent + 1] IN
  /\ hosted /\ ~linkerEnabled /\ ~handling
  /\ sent < MaxDeltas /\ Len(agents) < MaxAgents
  /\ updateDelta' = d
  /\ ApplyToLoaded(m, d)
  /\ agents' = Append(agents, Stash(m))
  /\ handling' = TRUE
  /\ sent' = sent + 1
  /\ history' = [history EXCEPT ![m] = Append(@, d)]
  /\ UNCHANGED <<linkerEnabled, hosted, loaded, failed, early>>

(* The same, with an assembly that rejects the delta: the exception leaves *)
(* ApplyDeltas with the assemblies before it patched and nothing stashed.  *)
ApplyRejected(m, done) ==
  LET d == [module |-> m, number |-> sent + 1] IN
  /\ hosted /\ ~linkerEnabled /\ ~handling
  /\ sent < MaxDeltas /\ Len(agents) < MaxAgents
  /\ LoadedOf(m) # {} /\ done \in SUBSET LoadedOf(m) /\ done # LoadedOf(m)
  /\ updateDelta' = d
  /\ Give(done, d)
  /\ agents' = Append(agents, NewAgent)
  /\ sent' = sent + 1
  /\ failed' = failed \cup {m}
  /\ UNCHANGED <<linkerEnabled, hosted, loaded, handling, history, early>>

(* With the linker enabled a delta is skipped.                             *)
SkipDelta ==
  /\ hosted /\ linkerEnabled /\ sent < MaxDeltas
  /\ sent' = sent + 1
  /\ UNCHANGED <<linkerEnabled, hosted, loaded, updateDelta, agents, given, handling,
                 history, failed, early>>

HandlersDone ==
  /\ handling
  /\ handling' = FALSE
  /\ UNCHANGED <<linkerEnabled, hosted, loaded, updateDelta, agents, given, sent, history,
                 failed, early>>

\* The entries of all stashes together for module m.
Entries(m) ==
  {e \in (DOMAIN agents) \X (1..MaxDeltas) :
     e[2] \in DOMAIN agents[e[1]].stash /\ agents[e[1]].stash[e[2]] = m}

\* A plausible slip: an older agent is unsubscribed when a new one is made.
StashedByNewest(m) ==
  IF agents # <<>> /\ agents[Len(agents)].stash = <<m>> THEN 1 ELSE 0

\* How many they are.
Stashed(m) == Cardinality(Entries(m))

(* OnAssemblyLoad, of every agent: the entries stashed for the module are  *)
(* applied to the new assembly, each with the object's present content.    *)
(* Handlers of an update may load assemblies too.                          *)
Load(a) ==
  /\ a \notin loaded
  /\ loaded' = loaded \cup {a}
  /\ given' = [given EXCEPT ![a] = @ \o [i \in 1..Stashed(ModuleOf[a]) |-> updateDelta]]
  /\ early' = IF history[ModuleOf[a]] = <<>> THEN early \cup {a} ELSE early
  /\ UNCHANGED <<linkerEnabled, hosted, updateDelta, agents, handling, sent, history, failed>>

(* The same, and the assembly rejects some of what its agents apply: each  *)
(* agent logs the exception and leaves the rest of its stash.              *)
LoadRejected(a, applied) ==
  /\ a \notin loaded /\ applied < Stashed(ModuleOf[a])
  /\ loaded' = loaded \cup {a}
  /\ given' = [given EXCEPT ![a] = @ \o [i \in 1..applied |-> updateDelta]]
  /\ failed' = failed \cup {ModuleOf[a]}
  /\ UNCHANGED <<linkerEnabled, hosted, updateDelta, agents, handling, sent, history, early>>

Next ==
  \/ InitializeHotReload \/ Initialize \/ SkipDelta
  \/ \E m \in Modules : ApplyHotReload(m) \/ \E done \in SUBSET Assemblies : ApplyRejected(m, done)
  \/ HandlersDone
  \/ \E a \in Assemblies : Load(a) \/ \E applied \in 0..(MaxDeltas - 1) : LoadRejected(a, applied)

Spec == Init /\ [][Next]_vars
-----------------------------------------------------------------------------
(* An assembly loaded before the first delta of its module gets every      *)
(* delta of the module, once and in the order sent, however many agents    *)
(* were created meanwhile (HotReloadAgent.cs:193-204).                     *)
EarlyAssembliesFollow ==
  \A a \in loaded \cap early : ModuleOf[a] \notin failed => given[a] = history[ModuleOf[a]]

(* An assembly loaded later, by an update handler included, is patched as  *)
(* many times as its module was: the agents' stashes, each of which has    *)
(* seen one delta only, add up (HotReloadAgent.cs:45-49).                  *)
LateAssembliesPatchedAsOften ==
  \A a \in loaded : ModuleOf[a] \notin failed => Len(given[a]) = Len(history[ModuleOf[a]])

(* "Additionally stash the deltas away so it may be applied to assemblies  *)
(* loaded later." (HotReloadAgent.cs:206): a late assembly gets the deltas *)
(* of its module, as an early one does.                                    *)
LateAssembliesFollow ==
  \A a \in loaded : ModuleOf[a] \notin failed => given[a] = history[ModuleOf[a]]
=============================================================================
