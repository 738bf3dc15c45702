------------------------------ MODULE Startup -------------------------------
(***************************************************************************)
(* The start of an application in the browser (Bootstrapper.ts): the       *)
(* asynchronous bootstrap function, the DOMContentLoaded listener, the     *)
(* callbacks the .NET runtime makes while it starts, the dependencies      *)
(* loaded through RequireJS, mainInit and the loader with its progress bar.*)
(* One action is what runs without giving up the event loop.  Promise      *)
(* continuations run before timers and script events; the runtime takes    *)
(* nothing but continuations from onDotnetReady to the end of m.default.   *)
(* Progress values are levels; ProgressEstimate computes them.             *)
(***************************************************************************)
EXTENDS Integers, FiniteSets

CONSTANTS Plain,       \* possible uno_dependencies that are ordinary scripts
          Emscripten,  \* and that expose an emscripten module
          Levels       \* progress levels below 100 % (a bound)

Deps == Plain \cup Emscripten
Full == Levels + 1

ASSUME StartupAssumption ==
  /\ Plain \cap Emscripten = {}
  /\ IsFiniteSet(Deps)
  /\ Levels \in Nat

VARIABLES
  setting,      \* the conditions of this start
  boot,         \* where bootstrap is
  events,       \* DOMContentLoaded events to come
  domLoaded,    \* the local DOMContentLoaded of bootstrap
  preInits,     \* calls of preInit (history)
  deps,         \* per configured dependency: requested, hooked, done, ...
  pending,      \* the counter of initializeRequire
  timer,        \* mainInit is scheduled with setTimeout
  main,         \* where mainInit is
  mainCalls,    \* calls of mainInit (history)
  running,      \* runMain was called
  value,        \* what the progress element shows
  lastReported, \* _lastReportedValue
  observer,     \* the MutationObserver of the body is connected
  loader,       \* the loader element
  rendered      \* the application has added its content to the body

page == <<setting, events, domLoaded, preInits>>
start == <<deps, pending, timer>>
bar == <<value, lastReported>>
view == <<observer, loader, rendered>>
vars == <<setting, boot, events, domLoaded, preInits, deps, pending, timer, main, mainCalls,
          running, value, lastReported, observer, loader, rendered>>

(* The application is embedded in a page of its host (uno_shell_mode is    *)
(* BrowserEmbedded) or not; emscripten modules may be ready before         *)
(* RequireJS calls back, or not; imports, dependencies and the set-up may  *)
(* fail, or not.                                                           *)
Settings == [embedded : BOOLEAN, earlyInit : BOOLEAN, failures : BOOLEAN]

(* A page that hosts the application fires the event once; in a page that  *)
(* embeds it, embedded.js dispatches one of its own, and that of the page  *)
(* has passed or is still to come.                                         *)
Init ==
  /\ setting \in Settings
  /\ boot = "config"
  /\ events \in IF setting.embedded THEN {{"own"}, {"own", "parsed"}} ELSE {{"parsed"}}
  /\ domLoaded = FALSE
  /\ preInits = 0
  /\ deps \in UNION {[D -> {"none"}] : D \in SUBSET Deps}
  /\ pending = 0
  /\ timer = FALSE
  /\ main = "idle"
  /\ mainCalls = 0
  /\ running = FALSE
  /\ value = 0
  /\ lastReported = 0
  /\ observer = FALSE
  /\ loader = "shown"
  /\ rendered = FALSE

\* No promise continuation is waiting, so the event loop takes its next task.
NextTask == boot # "exiting" /\ main \notin {"called", "ready"}

Constructed == boot \notin {"config", "failed"}

\* preInit: find the loader; if it is there, empty the bar and watch the body.
PreInit ==
  /\ preInits' = preInits + 1
  /\ IF loader = "removed"
     THEN UNCHANGED <<value, observer>>
     ELSE value' = 0 /\ observer' = TRUE
NoPreInit == UNCHANGED <<preInits, value, observer>>

-----------------------------------------------------------------------------
(* The listener: remember the event, and initialise if there is someone to *)
(* initialise.                                                             *)
DOMContentLoaded(e) ==
  /\ NextTask /\ e \in events
  /\ events' = events \ {e}
  /\ domLoaded' = TRUE
  /\ IF Constructed THEN PreInit ELSE NoPreInit
  /\ UNCHANGED <<setting, boot, deps, pending, timer, main, mainCalls, running, lastReported,
                 loader, rendered>>

\* A plausible slip: the event that came before the construction is lost.
ConfigImportedForgetful ==
  /\ NextTask /\ boot = "config"
  /\ boot' = "dotnet"
  /\ NoPreInit
  /\ UNCHANGED <<setting, events, domLoaded, main, mainCalls, running, lastReported, loader,
                 rendered>>
  /\ UNCHANGED start

\* A plausible slip: initialise without looking whether the event has come.
ConfigImportedEager ==
  /\ NextTask /\ boot = "config"
  /\ boot' = "dotnet"
  /\ PreInit
  /\ UNCHANGED <<setting, events, domLoaded, main, mainCalls, running, lastReported, loader,
                 rendered>>
  /\ UNCHANGED start

(* uno-config.js arrives: construct the bootstrapper and catch up with the *)
(* event; then import dotnet.js.                                           *)
ConfigImported ==
  /\ NextTask /\ boot = "config"
  /\ boot' = "dotnet"
  /\ IF domLoaded THEN PreInit ELSE NoPreInit
  /\ UNCHANGED <<setting, events, domLoaded, main, mainCalls, running, lastReported, loader,
                 rendered>>
  /\ UNCHANGED start

DotnetImported ==
  /\ NextTask /\ boot = "dotnet"
  /\ boot' = "runtime"
  /\ UNCHANGED <<main, mainCalls, running>>
  /\ UNCHANGED page /\ UNCHANGED start /\ UNCHANGED bar /\ UNCHANGED view

(* An import or the runtime fails: bootstrap throws.                       *)
BootFails ==
  /\ setting.failures /\ NextTask /\ boot \in {"config", "dotnet", "runtime"}
  /\ boot' = "failed"
  /\ UNCHANGED <<main, mainCalls, running>>
  /\ UNCHANGED page /\ UNCHANGED start /\ UNCHANGED bar /\ UNCHANGED view

(* onDownloadResourceProgress: nothing happens (an exception is lost) as   *)
(* long as there is no progress element; then the bar shows the greater of *)
(* the last value reported and the new one.                                *)
Progress(level) ==
  /\ NextTask /\ boot = "runtime"
  /\ preInits > 0
  /\ level \in 1..Levels
  /\ value' = IF level > lastReported THEN level ELSE lastReported
  /\ lastReported' = value'
  /\ UNCHANGED <<boot, main, mainCalls, running>>
  /\ UNCHANGED page /\ UNCHANGED start /\ UNCHANGED view

\* A plausible slip: mainInit is called and not scheduled.
RuntimeReadyDirect ==
  /\ NextTask /\ boot = "runtime"
  /\ boot' = "exiting"
  /\ deps' = [d \in DOMAIN deps |-> "requested"]
  /\ pending' = Cardinality(DOMAIN deps)
  /\ timer' = FALSE
  /\ main' = IF DOMAIN deps = {} THEN "called" ELSE main
  /\ mainCalls' = IF DOMAIN deps = {} THEN mainCalls + 1 ELSE mainCalls
  /\ UNCHANGED running
  /\ UNCHANGED page /\ UNCHANGED bar /\ UNCHANGED view

(* onDotnetReady: request every dependency, or schedule mainInit if there  *)
(* is none.                                                                *)
RuntimeReady ==
  /\ NextTask /\ boot = "runtime"
  /\ boot' = "exiting"
  /\ deps' = [d \in DOMAIN deps |-> "requested"]
  /\ pending' = Cardinality(DOMAIN deps)
  /\ timer' = (DOMAIN deps = {})
  /\ UNCHANGED <<main, mainCalls, running>>
  /\ UNCHANGED page /\ UNCHANGED bar /\ UNCHANGED view

(* m.default returns: runMain is there.                                    *)
RuntimeReturned ==
  /\ boot = "exiting"
  /\ boot' = "done"
  /\ UNCHANGED <<main, mainCalls, running>>
  /\ UNCHANGED page /\ UNCHANGED start /\ UNCHANGED bar /\ UNCHANGED view

-----------------------------------------------------------------------------
\* A plausible slip: the counter is compared before it is decremented.
CheckDoneStale ==
  /\ pending' = pending - 1
  /\ IF pending = 0
     THEN main' = "called" /\ mainCalls' = mainCalls + 1
     ELSE UNCHANGED <<main, mainCalls>>

\* checkDone: count down, and start when nothing is pending.
CheckDone ==
  /\ pending' = pending - 1
  /\ IF pending' = 0
     THEN main' = "called" /\ mainCalls' = mainCalls + 1
     ELSE UNCHANGED <<main, mainCalls>>
NotDone == UNCHANGED <<pending, main, mainCalls>>

\* A plausible slip: an emscripten module counts as soon as it is loaded.
DependencyCounted(d) ==
  /\ NextTask /\ d \in DOMAIN deps /\ deps[d] = "requested"
  /\ deps' = [deps EXCEPT ![d] = IF d \in Plain THEN "done" ELSE "hooked"]
  /\ CheckDone
  /\ UNCHANGED <<boot, timer, running>>
  /\ UNCHANGED page /\ UNCHANGED bar /\ UNCHANGED view

(* RequireJS calls back: a plain script is done; an emscripten module gets *)
(* a hook on onRuntimeInitialized, to no avail if that was called before.  *)
DependencyLoaded(d) ==
  /\ NextTask /\ d \in DOMAIN deps /\ deps[d] = "requested"
  /\ \/ /\ d \in Plain
        /\ deps' = [deps EXCEPT ![d] = "done"]
        /\ CheckDone
     \/ /\ d \in Emscripten
        /\ deps' = [deps EXCEPT ![d] = "hooked"]
        /\ NotDone
     \/ /\ d \in Emscripten /\ setting.earlyInit
        /\ deps' = [deps EXCEPT ![d] = "missed"]
        /\ NotDone
  /\ UNCHANGED <<boot, timer, running>>
  /\ UNCHANGED page /\ UNCHANGED bar /\ UNCHANGED view

(* A script that does not load: RequireJS has no error callback to call.   *)
DependencyFails(d) ==
  /\ setting.failures /\ NextTask /\ d \in DOMAIN deps /\ deps[d] = "requested"
  /\ deps' = [deps EXCEPT ![d] = "failed"]
  /\ UNCHANGED <<boot, pending, timer, main, mainCalls, running>>
  /\ UNCHANGED page /\ UNCHANGED bar /\ UNCHANGED view

RuntimeInitialized(d) ==
  /\ NextTask /\ d \in DOMAIN deps /\ deps[d] = "hooked"
  /\ deps' = [deps EXCEPT ![d] = "done"]
  /\ CheckDone
  /\ UNCHANGED <<boot, timer, running>>
  /\ UNCHANGED page /\ UNCHANGED bar /\ UNCHANGED view

TimerFires ==
  /\ NextTask /\ timer
  /\ timer' = FALSE
  /\ main' = "called"
  /\ mainCalls' = mainCalls + 1
  /\ UNCHANGED <<boot, deps, pending, running>>
  /\ UNCHANGED page /\ UNCHANGED bar /\ UNCHANGED view

-----------------------------------------------------------------------------
\* A plausible slip: the loader is removed though the observer will handle it.
CleanupRemoving ==
  /\ value' = IF preInits > 0 THEN Full ELSE value
  /\ loader' = IF preInits > 0 THEN "removed" ELSE loader

\* cleanupInit: fill the bar; remove the loader nobody watches.
CleanupInit ==
  /\ value' = IF preInits > 0 THEN Full ELSE value
  /\ loader' = IF preInits > 0 /\ ~observer THEN "removed" ELSE loader

(* mainInit after setupHotReload: with debugging, the hot reload and log   *)
(* profiler set-up first, which may take its time or fail.                 *)
SetUp ==
  /\ main = "called"
  /\ main' \in {"ready", "waiting"}
  /\ UNCHANGED <<boot, mainCalls, running>>
  /\ UNCHANGED page /\ UNCHANGED start /\ UNCHANGED bar /\ UNCHANGED view

SetUpDone ==
  /\ NextTask /\ main = "waiting"
  /\ main' = "ready"
  /\ UNCHANGED <<boot, mainCalls, running>>
  /\ UNCHANGED page /\ UNCHANGED start /\ UNCHANGED bar /\ UNCHANGED view

SetUpFails ==
  /\ setting.failures /\ NextTask /\ main = "waiting"
  /\ main' = "over"
  /\ CleanupInit
  /\ UNCHANGED <<boot, mainCalls, running, lastReported, observer, rendered>>
  /\ UNCHANGED page /\ UNCHANGED start

(* The rest of mainInit in one go: call runMain, which is undefined until  *)
(* m.default has returned (the exception is logged), without waiting for   *)
(* it; clean up.                                                           *)
RunMain ==
  /\ main = "ready"
  /\ main' = "over"
  /\ running' = (boot = "done")
  /\ CleanupInit
  /\ UNCHANGED <<boot, mainCalls, lastReported, observer, rendered>>
  /\ UNCHANGED page /\ UNCHANGED start

(* The application adds its content; it may have asked to keep the loader. *)
(* An observer takes note once.                                            *)
Render ==
  /\ NextTask /\ running /\ ~rendered
  /\ rendered' = TRUE
  /\ observer' = FALSE
  /\ loader' \in IF observer THEN {"removed", "kept"} ELSE {loader}
  /\ UNCHANGED <<boot, main, mainCalls, running>>
  /\ UNCHANGED page /\ UNCHANGED start /\ UNCHANGED bar

-----------------------------------------------------------------------------
Boot == ConfigImported \/ DotnetImported \/ RuntimeReady \/ RuntimeReturned
Depend(d) == DependencyLoaded(d) \/ RuntimeInitialized(d)
Main == TimerFires \/ SetUp \/ SetUpDone \/ RunMain

Next ==
  \/ Boot \/ BootFails \/ Main \/ SetUpFails \/ Render
  \/ \E e \in events : DOMContentLoaded(e)
  \/ \E level \in 1..Levels : Progress(level)
  \/ \E d \in Deps : Depend(d) \/ DependencyFails(d)

Spec == Init /\ [][Next]_vars

(* The event loop runs what is ready; imports, scripts, the runtime and    *)
(* emscripten modules finish, and a page is parsed, some day.              *)
Fairness ==
  /\ WF_vars(Boot) /\ WF_vars(Main)
  /\ \A d \in Deps : WF_vars(Depend(d))
  /\ WF_vars(\E e \in events : DOMContentLoaded(e))
  /\ WF_vars(Render)

FairSpec == Spec /\ Fairness
-----------------------------------------------------------------------------
(* However the page's event and the import of the configuration race, the  *)
(* loader is initialised once both have happened: at once if one event has *)
(* come before the import, and by every event after it                     *)
(* (Bootstrapper.ts:102-120).                                              *)
PreInitMatchesEvent ==
  Constructed =>
    /\ preInits > 0 <=> domLoaded
    /\ ~setting.embedded => preInits <= 1

(* "the Bootstrapper will ensure that a dependency that exposes a module   *)
(* will have finished its initialization for starting the Main method"     *)
(* (doc/features-dependency-management.md:76): mainInit is called once, by *)
(* the last dependency, and finds runMain provided                         *)
(* (Bootstrapper.ts:886-939).                                              *)
MainAfterDependencies ==
  /\ mainCalls <= 1
  /\ mainCalls > 0 => \A d \in DOMAIN deps : deps[d] = "done"
  /\ main = "over" /\ ~setting.failures => running

(* When nothing fails and no module is ready before its script's callback, *)
(* Main is called in the end, in whatever order the page, the imports, the *)
(* scripts and the runtime come (Bootstrapper.ts:87-169, 886-939).         *)
MainRuns ==
  ~setting.failures /\ ~setting.earlyInit => <>running

(* The loader goes, or is left to the application that asked to keep it,   *)
(* with the first content the application adds and never without it: not   *)
(* when mainInit cleans up, nor when it fails (Bootstrapper.ts:623-631,    *)
(* 806-816).  A page event that comes after the content is too late.       *)
LoaderUntilRendered ==
  [][loader' # loader <=> rendered' # rendered /\ preInits > 0]_vars

(* FR-1 (specs/001-download-workaround/spec.md:98): "The progress bar      *)
(* value SHALL never decrease during the loading process".  The bar is     *)
(* emptied by preInit, and filled by reports that may have come before     *)
(* (Bootstrapper.ts:102-120, 781-790, 801-806).  In an embedding page a    *)
(* second event empties the bar again, and nothing else does.              *)
NeverDecreases ==
  [][value' < value => setting.embedded /\ preInits' = 2]_vars

(* FR-7 (specs/001-download-workaround/spec.md:110): the progress reaches  *)
(* 100 % "when the WebAssembly application initialization is fully         *)
(* complete": not while nothing has started Main, unless the set-up has    *)
(* failed (Bootstrapper.ts:598-631).                                       *)
FullMeansStarted ==
  value = Full => running \/ (setting.failures /\ main = "over")
=============================================================================
