--------------------------- MODULE StartupProofs ----------------------------
(***************************************************************************)
(* Theorems about Startup: for any dependencies and any number of levels,  *)
(* and every order of events, Main is called once and after all of them;   *)
(* the loader is initialised when its event has come, goes with the first  *)
(* content only, and its bar never goes back.                              *)
(*                                                                         *)
(* The invariant has one part for each actor of the start: the events of   *)
(* the page, the counter of dependencies, mainInit, the bar, the loader.   *)
(***************************************************************************)
EXTENDS Startup, FiniteSetTheorems, TLAPS

States == {"none", "requested", "hooked", "missed", "failed", "done"}
Waiting == {"config", "dotnet", "runtime", "failed"}   \* onDotnetReady is to come

Types ==
  /\ setting \in Settings
  /\ boot \in Waiting \cup {"exiting", "done"}
  /\ main \in {"idle", "called", "ready", "waiting", "over"}
  /\ events \in SUBSET {"own", "parsed"}
  /\ domLoaded \in BOOLEAN /\ timer \in BOOLEAN /\ running \in BOOLEAN
  /\ observer \in BOOLEAN /\ rendered \in BOOLEAN
  /\ loader \in {"shown", "removed", "kept"}
  /\ preInits \in 0..2 /\ mainCalls \in Nat /\ pending \in Int
  /\ value \in 0..Full /\ lastReported \in 0..Levels
  /\ DOMAIN deps \in SUBSET Deps
  /\ deps \in [DOMAIN deps -> States]

(* The loader is initialised no more often than events have come, and as   *)
(* soon as the bootstrapper is there.                                      *)
Events ==
  /\ ~setting.embedded => "own" \notin events
  /\ ~setting.embedded /\ domLoaded => events = {}
  /\ domLoaded => events # {"own", "parsed"}
  /\ boot = "config" => preInits = 0
  /\ preInits > 0 => domLoaded
  /\ Constructed /\ domLoaded => preInits > 0
  /\ preInits > 1 => events = {} /\ setting.embedded

Remaining == {d \in DOMAIN deps : deps[d] # "done"}

(* Until onDotnetReady nothing is requested; from then on the counter is   *)
(* the number of dependencies that are not done, and mainInit has been     *)
(* called if and only if none is and its timer has fired.                  *)
Counted ==
  /\ boot \in Waiting => mainCalls = 0 /\ ~timer /\ \A d \in DOMAIN deps : deps[d] = "none"
  /\ boot \notin Waiting =>
       /\ pending = Cardinality(Remaining)
       /\ mainCalls = IF Remaining = {} /\ ~timer THEN 1 ELSE 0
       /\ timer => DOMAIN deps = {}
  /\ boot = "exiting" => mainCalls = 0

Started ==
  /\ main = "idle" <=> mainCalls = 0
  /\ main = "over" => running \/ setting.failures
  /\ running => main = "over"

Shown ==
  /\ value > 0 => preInits > 0
  /\ value = Full => main = "over"
  /\ value # Full => value <= lastReported

Loader ==
  /\ rendered => running
  /\ ~rendered => loader = "shown"
  /\ ~rendered => (observer <=> preInits > 0)

Inv == Types /\ Events /\ Counted /\ Started /\ Shown /\ Loader
-----------------------------------------------------------------------------
\* What is left of the dependencies is finite, and its number is a natural.
LEMMA RemainingFinite ==
  ASSUME Types
  PROVE  IsFiniteSet(Remaining) /\ Cardinality(Remaining) \in Nat
         /\ (Cardinality(Remaining) = 0 <=> Remaining = {})
<1>1. Remaining \subseteq Deps
  BY DEF Remaining, Types
<1>2. IsFiniteSet(Remaining)
  BY <1>1, StartupAssumption, FS_Subset DEF StartupAssumption
<1> QED
  BY <1>2, FS_CardinalityType, FS_EmptySet

\* A dependency that is done is one less.
LEMMA OneDone ==
  ASSUME Types, NEW d \in DOMAIN deps, deps[d] # "done",
         deps' = [deps EXCEPT ![d] = "done"]
  PROVE  /\ Cardinality(Remaining') = Cardinality(Remaining) - 1
         /\ (Cardinality(Remaining') = 0 <=> Remaining' = {})
<1>1. Remaining' = Remaining \ {d} /\ d \in Remaining
  BY DEF Remaining, Types
<1>2. IsFiniteSet(Remaining)
  BY RemainingFinite
<1>3. IsFiniteSet(Remaining') /\ Cardinality(Remaining') = Cardinality(Remaining) - 1
  BY <1>1, <1>2, FS_RemoveElement
<1> QED
  BY <1>3, FS_EmptySet

\* In the beginning nothing is requested, called or shown.
LEMMA InitInv == Init => Inv
<1> SUFFICES ASSUME Init PROVE Inv  OBVIOUS
<1>1. PICK D \in SUBSET Deps : deps \in [D -> {"none"}]
  BY DEF Init
<1>2. Types
  <2>1. DOMAIN deps \in SUBSET Deps /\ deps \in [DOMAIN deps -> States]
    BY <1>1 DEF States
  <2>2. events \in SUBSET {"own", "parsed"}
    BY DEF Init
  <2>3. 0 \in 0..Full /\ 0 \in 0..Levels
    BY StartupAssumption DEF Full, StartupAssumption
  <2>4. /\ setting \in Settings /\ boot = "config" /\ main = "idle" /\ loader = "shown"
        /\ domLoaded = FALSE /\ timer = FALSE /\ running = FALSE
        /\ observer = FALSE /\ rendered = FALSE
        /\ preInits = 0 /\ mainCalls = 0 /\ pending = 0 /\ value = 0 /\ lastReported = 0
    BY DEF Init
  <2>5. /\ boot \in Waiting \cup {"exiting", "done"}
        /\ main \in {"idle", "called", "ready", "waiting", "over"}
        /\ domLoaded \in BOOLEAN /\ timer \in BOOLEAN /\ running \in BOOLEAN
        /\ observer \in BOOLEAN /\ rendered \in BOOLEAN
        /\ loader \in {"shown", "removed", "kept"}
    BY <2>4 DEF Waiting
  <2>6. /\ preInits \in 0..2 /\ mainCalls \in Nat /\ pending \in Int
        /\ value \in 0..Full /\ lastReported \in 0..Levels
    BY <2>3, <2>4
  <2> QED
    BY <2>1, <2>2, <2>4, <2>5, <2>6, Zenon DEF Types
<1>3. Events
  BY DEF Init, Events, Constructed, Settings
<1>4. Counted
  BY <1>1 DEF Init, Counted, Waiting
<1>5. Started /\ Shown /\ Loader
  BY StartupAssumption DEF Init, Started, Shown, Loader, Full, StartupAssumption
<1> QED
  BY <1>2, <1>3, <1>4, <1>5 DEF Inv
-----------------------------------------------------------------------------
\* The page's event initialises the loader if the bootstrapper is there.
LEMMA DOMContentLoadedInv ==
  ASSUME Inv, NEW e \in events, DOMContentLoaded(e)
  PROVE  Inv'
<1> USE DEF Inv
<1>1. Types'
  <2>1. value' \in 0..Full
    BY StartupAssumption DEF DOMContentLoaded, PreInit, NoPreInit, Types, Full, StartupAssumption
  <2>2. preInits' \in 0..2
    BY DEF DOMContentLoaded, PreInit, NoPreInit, Types, Events
  <2>3. events' \in SUBSET {"own", "parsed"} /\ domLoaded' \in BOOLEAN /\ observer' \in BOOLEAN
    BY DEF DOMContentLoaded, PreInit, NoPreInit, Types
  <2> QED
    BY <2>1, <2>2, <2>3 DEF DOMContentLoaded, Types
<1>2. Events'
  <2>1. /\ events' = events \ {e} /\ e \in events /\ events \subseteq {"own", "parsed"}
        /\ events # {"own", "parsed"} => events' = {}
        /\ domLoaded' /\ setting' = setting /\ boot' = boot
        /\ setting.embedded' = setting.embedded
    BY DEF DOMContentLoaded, Types
  <2>2. Constructed => preInits' > 0 /\ preInits' = preInits + 1
    BY DEF DOMContentLoaded, PreInit, Types
  <2>3. ~Constructed => preInits' = preInits
    BY DEF DOMContentLoaded, NoPreInit
  <2>4. preInits > 0 => events' = {} /\ setting.embedded
    BY <2>1, Zenon DEF Events
  <2> QED
    BY <2>1, <2>2, <2>3, <2>4 DEF Types, Events, Constructed
<1>3. Counted'
  BY DEF DOMContentLoaded, Counted, Remaining
<1>4. Started'
  BY DEF DOMContentLoaded, Started
<1>5. Shown'
  BY StartupAssumption
  DEF DOMContentLoaded, PreInit, NoPreInit, Types, Shown, Full, StartupAssumption
<1>6. Loader'
  BY DEF DOMContentLoaded, PreInit, NoPreInit, Types, Loader
<1> QED
  BY <1>1, <1>2, <1>3, <1>4, <1>5, <1>6

\* The imports and their failure.
LEMMA ImportsInv ==
  ASSUME Inv, ConfigImported \/ DotnetImported \/ BootFails
  PROVE  Inv'
<1> USE DEF Inv
<1>1. CASE ConfigImported
  <2>1. Types'
    <3>1. value' \in 0..Full /\ preInits' \in 0..2
      <4>1. value' \in {0, value} /\ preInits' \in {0, 1}
        BY <1>1 DEF ConfigImported, PreInit, NoPreInit, Types, Events
      <4>2. 0 \in 0..Full /\ value \in 0..Full
        BY StartupAssumption DEF Types, Full, StartupAssumption
      <4> QED
        BY <4>1, <4>2
    <3>2. observer' \in BOOLEAN
      BY <1>1 DEF ConfigImported, PreInit, NoPreInit, Types
    <3>3. boot' \in Waiting \cup {"exiting", "done"}
      BY <1>1 DEF ConfigImported, Waiting
    <3> QED
      BY <1>1, <3>1, <3>2, <3>3 DEF ConfigImported, start, Types
  <2>2. Events'
    BY <1>1 DEF ConfigImported, PreInit, NoPreInit, start, Types, Events, Constructed, Settings
  <2>3. Counted' /\ Started'
    BY <1>1 DEF ConfigImported, start, Counted, Started, Remaining, Waiting
  <2>4. Shown'
    BY <1>1, StartupAssumption
    DEF ConfigImported, PreInit, NoPreInit, start, Types, Shown, Full, StartupAssumption
  <2>5. Loader'
    BY <1>1 DEF ConfigImported, PreInit, NoPreInit, start, Types, Loader, Events
  <2> QED
    BY <2>1, <2>2, <2>3, <2>4, <2>5
<1>2. CASE DotnetImported
  BY <1>2 DEF DotnetImported, page, start, bar, view, Types, Events, Constructed, Counted,
              Started, Shown, Loader, Remaining, Waiting
<1>3. CASE BootFails
  BY <1>3 DEF BootFails, page, start, bar, view, Types, Events, Constructed, Counted,
              Started, Shown, Loader, Remaining, Waiting
<1> QED
  BY <1>1, <1>2, <1>3

\* A report raises the bar, below its end.
LEMMA ProgressInv ==
  ASSUME Inv, NEW level \in 1..Levels, Progress(level)
  PROVE  Inv'
<1> USE DEF Inv
<1>1. Types' /\ Shown'
  BY StartupAssumption
  DEF Progress, page, start, view, Types, Shown, Full, Waiting, StartupAssumption
<1>2. Events' /\ Counted' /\ Started' /\ Loader'
  BY DEF Progress, page, start, view, Events, Constructed, Counted, Started, Loader, Remaining
<1> QED
  BY <1>1, <1>2

(* onDotnetReady: every dependency is requested, and counted; without one  *)
(* the timer stands for mainInit.                                          *)
LEMMA RuntimeReadyInv ==
  ASSUME Inv, RuntimeReady
  PROVE  Inv'
<1> USE DEF Inv
<1>1. DOMAIN deps' = DOMAIN deps /\ Remaining' = DOMAIN deps
  BY DEF RuntimeReady, Remaining
<1>2. IsFiniteSet(DOMAIN deps) /\ Cardinality(DOMAIN deps) \in Nat
  BY StartupAssumption, FS_Subset, FS_CardinalityType DEF Types, StartupAssumption
<1>3. Types'
  <2>1. deps' \in [DOMAIN deps' -> States]
    BY <1>1 DEF RuntimeReady, States
  <2>2. pending' \in Int /\ timer' \in BOOLEAN /\ boot' \in Waiting \cup {"exiting", "done"}
    BY <1>2 DEF RuntimeReady
  <2> QED
    BY <1>1, <2>1, <2>2 DEF RuntimeReady, page, bar, view, Types
<1>4. Counted'
  <2>1. mainCalls' = 0 /\ boot' = "exiting" /\ pending' = Cardinality(DOMAIN deps)
        /\ timer' = (DOMAIN deps = {})
    BY DEF RuntimeReady, Counted, Waiting
  <2> QED
    BY <1>1, <2>1 DEF Counted, Waiting
<1>5. Events' /\ Started' /\ Shown' /\ Loader'
  BY DEF RuntimeReady, page, bar, view, Events, Constructed, Started, Shown, Loader
<1> QED
  BY <1>3, <1>4, <1>5

\* m.default has returned; dependencies and mainInit are as they were.
LEMMA RuntimeReturnedInv ==
  ASSUME Inv, RuntimeReturned
  PROVE  Inv'
BY DEF Inv, RuntimeReturned, page, start, bar, view, Types, Events, Constructed, Counted,
       Started, Shown, Loader, Remaining, Waiting

(* The last dependency calls mainInit: before it something remains, so no  *)
(* one has.                                                                *)
LEMMA DoneInv ==
  ASSUME Inv, NEW d \in DOMAIN deps, NextTask, deps[d] \in {"requested", "hooked"},
         deps' = [deps EXCEPT ![d] = "done"], CheckDone,
         UNCHANGED <<boot, timer, running>>, UNCHANGED page, UNCHANGED bar, UNCHANGED view
  PROVE  Inv'
<1> USE DEF Inv
<1>1. DOMAIN deps' = DOMAIN deps /\ deps' \in [DOMAIN deps' -> States]
  BY DEF Types, States
<1>2. boot \notin Waiting /\ boot # "exiting"
  BY DEF Counted, NextTask
<1>3. pending = Cardinality(Remaining) /\ d \in Remaining /\ ~timer
  BY <1>2 DEF Counted, Remaining
<1>4. mainCalls = 0 /\ main = "idle"
  BY <1>2, <1>3 DEF Counted, Started
<1>5. pending' = Cardinality(Remaining') /\ (pending' = 0 <=> Remaining' = {})
  BY <1>3, OneDone DEF CheckDone
<1>6. mainCalls' = (IF Remaining' = {} THEN 1 ELSE 0)
      /\ main' = (IF Remaining' = {} THEN "called" ELSE "idle")
  BY <1>4, <1>5 DEF CheckDone
<1>7. Types'
  <2>1. pending' \in Int /\ mainCalls' \in Nat
        /\ main' \in {"idle", "called", "ready", "waiting", "over"}
    BY <1>6 DEF CheckDone, Types
  <2> QED
    BY <1>1, <2>1 DEF page, bar, view, Types
<1>8. Counted'
  BY <1>1, <1>2, <1>3, <1>5, <1>6 DEF Counted
<1>9. Started'
  BY <1>4, <1>6 DEF Started
<1>10. Events' /\ Shown' /\ Loader'
  BY <1>4, <1>6 DEF page, bar, view, Events, Constructed, Shown, Loader
<1> QED
  BY <1>7, <1>8, <1>9, <1>10

\* A dependency goes on, or fails, and is not done.
LEMMA NotDoneInv ==
  ASSUME Inv, NEW d \in DOMAIN deps, NEW s \in {"hooked", "missed", "failed"},
         deps[d] = "requested", deps' = [deps EXCEPT ![d] = s], NotDone,
         UNCHANGED <<boot, timer, running>>, UNCHANGED page, UNCHANGED bar, UNCHANGED view
  PROVE  Inv'
<1> USE DEF Inv
<1>1. DOMAIN deps' = DOMAIN deps /\ deps' \in [DOMAIN deps' -> States]
  BY DEF Types, States
<1>2. Remaining' = Remaining
  BY <1>1 DEF Types, Remaining
<1>3. Types'
  BY <1>1 DEF NotDone, page, bar, view, Types
<1>4. Counted'
  BY <1>1, <1>2 DEF NotDone, Counted
<1>5. Events' /\ Started' /\ Shown' /\ Loader'
  BY DEF NotDone, page, bar, view, Events, Constructed, Started, Shown, Loader
<1> QED
  BY <1>3, <1>4, <1>5

LEMMA DependInv ==
  ASSUME Inv, NEW d \in Deps, Depend(d) \/ DependencyFails(d)
  PROVE  Inv'
<1>1. d \in DOMAIN deps /\ NextTask
  BY DEF Depend, DependencyLoaded, RuntimeInitialized, DependencyFails
<1>2. CASE DependencyLoaded(d)
  <2>1. CASE deps' = [deps EXCEPT ![d] = "done"] /\ CheckDone
    BY <1>1, <1>2, <2>1, DoneInv DEF DependencyLoaded
  <2>2. CASE deps' = [deps EXCEPT ![d] = "hooked"] /\ NotDone
    BY <1>1, <1>2, <2>2, NotDoneInv DEF DependencyLoaded
  <2>3. CASE deps' = [deps EXCEPT ![d] = "missed"] /\ NotDone
    BY <1>1, <1>2, <2>3, NotDoneInv DEF DependencyLoaded
  <2> QED
    BY <1>2, <2>1, <2>2, <2>3 DEF DependencyLoaded
<1>3. CASE RuntimeInitialized(d)
  BY <1>1, <1>3, DoneInv DEF RuntimeInitialized
<1>4. CASE DependencyFails(d)
  BY <1>1, <1>4, NotDoneInv DEF DependencyFails, NotDone
<1> QED
  BY <1>2, <1>3, <1>4 DEF Depend

-----------------------------------------------------------------------------
(* The timer calls mainInit, if there is no dependency, and only then.     *)
LEMMA TimerFiresInv ==
  ASSUME Inv, TimerFires
  PROVE  Inv'
<1> USE DEF Inv
<1>1. boot \notin Waiting /\ boot # "exiting" /\ DOMAIN deps = {}
  BY DEF TimerFires, Counted, NextTask
<1>2. mainCalls = 0 /\ main = "idle" /\ mainCalls' = 1
  BY <1>1 DEF TimerFires, Counted, Started
<1>3. Remaining' = Remaining /\ Remaining = {}
  BY <1>1 DEF TimerFires, Remaining
<1>4. Types'
  <2>1. mainCalls' \in Nat /\ main' = "called"
    BY <1>2 DEF TimerFires
  <2>2. timer' \in BOOLEAN
    BY Zenon DEF TimerFires
  <2>3. UNCHANGED <<boot, deps, pending, running>> /\ UNCHANGED page
        /\ UNCHANGED bar /\ UNCHANGED view
    BY DEF TimerFires
  <2> QED
    BY <2>1, <2>2, <2>3 DEF page, bar, view, Types
<1>5. Counted' /\ Started'
  BY <1>1, <1>2, <1>3 DEF TimerFires, Counted, Started
<1>6. Events' /\ Shown' /\ Loader'
  BY <1>2 DEF TimerFires, page, bar, view, Events, Constructed, Shown, Loader
<1> QED
  BY <1>4, <1>5, <1>6

\* The set-up goes on.
LEMMA SetUpInv ==
  ASSUME Inv, SetUp \/ SetUpDone
  PROVE  Inv'
<1> USE DEF Inv
<1>1. /\ main \in {"called", "waiting"} /\ main' \in {"ready", "waiting"}
      /\ UNCHANGED <<boot, mainCalls, running>>
      /\ UNCHANGED page /\ UNCHANGED start /\ UNCHANGED bar /\ UNCHANGED view
  BY DEF SetUp, SetUpDone
<1>2. Types'
  BY <1>1 DEF page, start, bar, view, Types
<1>3. Counted' /\ Started'
  BY <1>1 DEF page, start, Counted, Started, Remaining
<1>4. Events' /\ Shown' /\ Loader'
  BY <1>1 DEF page, bar, view, Events, Constructed, Started, Shown, Loader
<1> QED
  BY <1>2, <1>3, <1>4

(* mainInit fills the bar of a loader that is there.  As nothing is        *)
(* rendered yet, the observer is connected, and the loader stays.          *)
LEMMA CleanupKeepsLoader ==
  ASSUME Inv, main # "over", CleanupInit
  PROVE  ~rendered /\ loader' = loader
<1>1. ~rendered
  BY DEF Inv, Started, Loader
<1> QED
  BY <1>1 DEF Inv, Types, Loader, CleanupInit

\* mainInit ends: with Main, or with a failure.
LEMMA EndInv ==
  ASSUME Inv, RunMain \/ SetUpFails
  PROVE  Inv'
<1> USE DEF Inv
<1>1. /\ main \in {"ready", "waiting"} /\ main' = "over" /\ CleanupInit
      /\ UNCHANGED <<boot, mainCalls, lastReported, observer, rendered>>
      /\ UNCHANGED page /\ UNCHANGED start
  BY DEF RunMain, SetUpFails
<1>2. ~rendered /\ loader' = loader
  BY <1>1, CleanupKeepsLoader
<1>3. boot = "done" /\ mainCalls # 0
  BY <1>1 DEF Types, Started, Counted
<1>4. running' \/ setting.failures
  BY <1>3 DEF RunMain, SetUpFails
<1>5. running' \in BOOLEAN
  BY DEF RunMain, SetUpFails, Types
<1>6. value' = IF preInits > 0 THEN Full ELSE value
  BY <1>1 DEF CleanupInit
<1>7. Types'
  <2>1. value' \in 0..Full
    BY <1>6, StartupAssumption DEF Types, Full, StartupAssumption
  <2> QED
    BY <1>1, <1>2, <1>5, <2>1 DEF page, start, Types
<1>8. Events' /\ Counted'
  BY <1>1 DEF page, start, Events, Constructed, Counted, Remaining
<1>9. Started'
  BY <1>1, <1>3, <1>4 DEF page, Started
<1>10. Shown'
  BY <1>1, <1>6 DEF page, Types, Shown
<1>11. Loader'
  BY <1>1, <1>2 DEF page, Loader
<1> QED
  BY <1>7, <1>8, <1>9, <1>10, <1>11

\* The first content: only Main brings it.
LEMMA RenderInv ==
  ASSUME Inv, Render
  PROVE  Inv'
<1> USE DEF Inv
<1>1. Types'
  BY DEF Render, page, start, bar, Types
<1>2. Loader'
  BY DEF Render, page, start, bar, Loader
<1>3. Events' /\ Counted' /\ Started' /\ Shown'
  BY DEF Render, page, start, bar, Events, Constructed, Counted, Started, Shown, Remaining
<1> QED
  BY <1>1, <1>2, <1>3

\* Every step keeps the invariant.
LEMMA NextInv == Inv /\ [Next]_vars => Inv'
<1> SUFFICES ASSUME Inv, [Next]_vars PROVE Inv'  OBVIOUS
<1>1. CASE Boot \/ BootFails
  BY <1>1, ImportsInv, RuntimeReadyInv, RuntimeReturnedInv DEF Boot
<1>2. CASE Main \/ SetUpFails
  BY <1>2, TimerFiresInv, SetUpInv, EndInv DEF Main
<1>3. CASE Render
  BY <1>3, RenderInv
<1>4. ASSUME NEW e \in events, DOMContentLoaded(e) PROVE Inv'
  BY <1>4, DOMContentLoadedInv
<1>5. ASSUME NEW level \in 1..Levels, Progress(level) PROVE Inv'
  BY <1>5, ProgressInv
<1>6. ASSUME NEW d \in Deps, Depend(d) \/ DependencyFails(d) PROVE Inv'
  BY <1>6, DependInv
<1>7. CASE UNCHANGED vars
  BY <1>7 DEF vars, Inv, Types, Events, Constructed, Counted, Started, Shown, Loader, Remaining
<1> QED
  BY <1>1, <1>2, <1>3, <1>4, <1>5, <1>6, <1>7 DEF Next

(* The invariant of the start, for any dependencies, levels and conditions *)
(* (Bootstrapper.ts:87-168, 598-631, 779-957).                             *)
THEOREM StartupInductive == Spec => []Inv
BY InitInv, NextInv, PTL DEF Spec
-----------------------------------------------------------------------------
(* mainInit is called once at most, by the last dependency or the timer,   *)
(* and finds runMain (Bootstrapper.ts:886-939).                            *)
THEOREM MainCalledOnceDone == Spec => []MainAfterDependencies
<1>1. Inv => MainAfterDependencies
  <2> SUFFICES ASSUME Inv PROVE MainAfterDependencies  OBVIOUS
  <2>1. mainCalls <= 1 /\ (mainCalls > 0 => Remaining = {})
    BY DEF Inv, Types, Counted
  <2>2. main = "over" /\ ~setting.failures => running
    BY DEF Inv, Started
  <2> QED
    BY <2>1, <2>2 DEF MainAfterDependencies, Remaining
<1> QED
  BY <1>1, StartupInductive, PTL

(* A full bar means that Main was called, or that the set-up has failed    *)
(* (Bootstrapper.ts:598-631).                                              *)
THEOREM FullBarMeansStarted == Spec => []FullMeansStarted
<1>1. Inv => FullMeansStarted
  BY DEF Inv, Started, Shown, FullMeansStarted
<1> QED
  BY <1>1, StartupInductive, PTL

(* The loader is initialised once event and import have come, and once     *)
(* only in a page of its own (Bootstrapper.ts:102-120).                    *)
THEOREM PreInitFollowsEvents == Spec => []PreInitMatchesEvent
<1>1. Inv => PreInitMatchesEvent
  BY DEF Inv, Types, Events, PreInitMatchesEvent
<1> QED
  BY <1>1, StartupInductive, PTL

(* FR-1: the bar never goes back but when the event of a page that embeds  *)
(* the application initialises the loader once more                        *)
(* (Bootstrapper.ts:781-790, 801-806).                                     *)
THEOREM BarNeverDecreases == Spec => NeverDecreases
<1> DEFINE Step == value' < value => setting.embedded /\ preInits' = 2
<1>1. Inv /\ Inv' /\ [Next]_vars => [Step]_vars
  <2> SUFFICES ASSUME Inv, Inv', Next PROVE Step  OBVIOUS
  <2> USE StartupAssumption DEF StartupAssumption
  <2>1. ASSUME PreInit, setting' = setting PROVE Step
    <3> SUFFICES ASSUME value' < value PROVE setting.embedded /\ preInits' = 2  OBVIOUS
    <3>1. preInits > 0 /\ preInits' = preInits + 1
      BY <2>1 DEF Inv, Types, Shown, PreInit, Full
    <3>2. preInits' = 2
      BY <3>1 DEF Inv, Types
    <3> QED
      BY <2>1, <3>2 DEF Inv, Events
  <2>2. ASSUME CleanupInit PROVE Step
    BY <2>2 DEF Inv, Types, CleanupInit, Full
  <2>3. ASSUME value' = value PROVE Step
    BY <2>3 DEF Inv, Types, Full
  <2>4. ASSUME NEW level \in 1..Levels, Progress(level) PROVE Step
    <3>1. value # Full
      BY <2>4 DEF Inv, Progress, Shown, Started, Counted, Waiting
    <3> QED
      BY <2>4, <3>1 DEF Inv, Types, Shown, Progress, Full
  <2>5. ASSUME NEW e \in events, DOMContentLoaded(e) PROVE Step
    BY <2>1, <2>3, <2>5 DEF DOMContentLoaded, NoPreInit
  <2>6. CASE ConfigImported
    BY <2>1, <2>3, <2>6 DEF ConfigImported, NoPreInit
  <2>7. CASE RunMain \/ SetUpFails
    BY <2>2, <2>7 DEF RunMain, SetUpFails
  <2>8. ASSUME NEW d \in Deps, Depend(d) \/ DependencyFails(d) PROVE value' = value
    BY <2>8 DEF Depend, DependencyLoaded, RuntimeInitialized, DependencyFails, bar
  <2>9. CASE DotnetImported \/ RuntimeReady \/ RuntimeReturned \/ BootFails \/ TimerFires
             \/ SetUp \/ SetUpDone \/ Render
    BY <2>3, <2>9 DEF DotnetImported, RuntimeReady, RuntimeReturned, BootFails, TimerFires,
                      SetUp, SetUpDone, Render, bar
  <2> QED
    BY <2>3, <2>4, <2>5, <2>6, <2>7, <2>8, <2>9 DEF Next, Boot, Main
<1> QED
  BY <1>1, StartupInductive, PTL DEF Spec, NeverDecreases

(* The loader leaves with the first content and never without it           *)
(* (Bootstrapper.ts:623-631, 806-816).                                     *)
THEOREM LoaderLeavesWithContent == Spec => LoaderUntilRendered
<1> DEFINE Step == loader' # loader <=> rendered' # rendered /\ preInits > 0
<1>1. Inv /\ [Next]_vars => [Step]_vars
  <2> SUFFICES ASSUME Inv, Next PROVE Step  OBVIOUS
  <2>1. ASSUME loader' = loader, rendered' = rendered PROVE Step
    BY <2>1
  <2>2. CASE Render
    BY <2>2 DEF Inv, Types, Loader, Render
  <2>3. CASE RunMain \/ SetUpFails
    <3>1. main # "over" /\ CleanupInit /\ rendered' = rendered
      BY <2>3 DEF RunMain, SetUpFails
    <3> QED
      BY <2>1, <3>1, CleanupKeepsLoader
  <2>4. ASSUME NEW e \in events, DOMContentLoaded(e) PROVE Step
    BY <2>1, <2>4 DEF DOMContentLoaded
  <2>5. ASSUME NEW level \in 1..Levels, Progress(level) PROVE Step
    BY <2>1, <2>5 DEF Progress, view
  <2>6. ASSUME NEW d \in Deps, Depend(d) \/ DependencyFails(d) PROVE Step
    BY <2>1, <2>6 DEF Depend, DependencyLoaded, RuntimeInitialized, DependencyFails, view
  <2>7. CASE ConfigImported \/ DotnetImported \/ RuntimeReady \/ RuntimeReturned \/ BootFails
             \/ TimerFires \/ SetUp \/ SetUpDone
    BY <2>1, <2>7 DEF ConfigImported, DotnetImported, RuntimeReady, RuntimeReturned, BootFails,
                      TimerFires, SetUp, SetUpDone, view
  <2> QED
    BY <2>2, <2>3, <2>4, <2>5, <2>6, <2>7 DEF Next, Boot, Main
<1> QED
  BY <1>1, StartupInductive, PTL DEF Spec, LoaderUntilRendered
=============================================================================
