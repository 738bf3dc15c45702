# A verification project for Uno.Wasm.Bootstrap

TLA+ models of the parts of Uno.Wasm.Bootstrap that keep state and meet
concurrency, failure or reordering; TLC configurations that check them on
small instances; and TLAPS proofs of what holds for every instance. Paths below
are those of the repository, with `B/` for `src/Uno.Wasm.Bootstrap/` and
`Bootstrapper.ts` for `B/ts/Uno/WebAssembly/Bootstrapper.ts`.

How to run it:

    tlc -config CachePool.cfg CachePool        # any other .cfg likewise
    tlapm CachePoolProofs.tla                  # any other *Proofs.tla likewise

`PROJECT.json` lists the runs, maps every definition to the source lines it
models, and names the hazards each property is about.

## 1. The system

Uno.Wasm.Bootstrap packages a .NET application for the browser. A build task
collects the files of the package; in the browser a bootstrapper starts the .NET
runtime in a page or a web worker; a service worker keeps the application
available offline; and a few tools surround it. Inventory, with what is hard
about each part:

| Part | State it keeps | Operations | Hard because | What makes it correct |
|---|---|---|---|---|
| Download pool of the service worker (`B/Embedded/service-worker.js:13-63`) | next index, occupied slots, pending cache writes | start downloads, end of a fetch, end of a write, return | counters changed by callbacks; writes queued behind the pool; fetches that hang | slots bounded and refilled; nothing left running at the return |
| Install, activate and fetch handlers (`service-worker.js:65-235`) | named caches, one worker per build | install, activate, claim, fetch, retries | several builds at once, network coming and going, aborted installs | caches of older builds go, an installed worker holds its files, every request is answered |
| Hot reload (`src/Uno.Wasm.MetadataUpdater/*.cs`, `B/ts/.../HotReloadSupport.ts`) | agents and their stashes, the static delta object | initialise, apply a delta, assembly load | every call makes one more agent; handlers load assemblies; deltas rejected half way | every assembly gets each delta of its module once and in order |
| Start-up in a page (`Bootstrapper.ts:87-204, 286-293, 592-631, 801-957`) | stage of `bootstrap`, dependencies pending, loader and bar | page event, imports, runtime callbacks, dependency callbacks, `mainInit` | two racing sources of events, callbacks before a promise has resolved, failures without callbacks | Main starts once, after its dependencies, and does start; the loader stays until there is content |
| Progress estimation (`Bootstrapper.ts:46-55, 633-799`) | target, last value, history | initialise, report | three adjustments add up; totals grow and shrink | bar and target never go back, and stay below the reserve |
| Assemblies in the virtual file system (`Bootstrapper.ts:249-284, 366-590`) | sections of the boot configuration, files, streams | `configLoaded`, redirection, clean-up on `FS.close` | two loops over the same satellites, two shapes of configuration, files deleted while others are read | every entry stored once, critical ones bundled; no file deleted unread, which is not so (section 4) |
| Web worker start-up (`B/ts/.../WorkerBootstrapper.ts`, generated page in `B/ShellTask.cs:943-970`) | stage, command handler, saves going on | bootstrap, commands, answers | two queues, readiness posted before the handler is there, overlapping saves | commands sent after readiness are heard, each is answered once |
| Version checker (`src/Uno.Wasm.VersionChecker.Core/VersionCheckService.cs`, `src/Uno.Wasm.VersionChecker/VersionCheckerReplHost.cs`) | requests, slots of a gate, cancellation | the sequence of requests, parallel downloads, retries of 429 | exceptions, time-outs and cancellation that race in `Task.WhenAll` | the gate is kept, every download gets its turn, a cancellation ends it |
| URL targets and network policy of the checker | none | pure functions on URLs | | redirections and paths stay inside the site |
| Asset pipeline of the build (`B/ShellTask.cs`) | list of assets, intermediate folder, dependencies, the folder of the package | collect, extract, deduplicate, hash, link, generate | the folder's name is known half-way; files of one name meet; the folder of the build before is reused | every URL written out is served; one folder name means one content |
| AOT profile filter (`B/GenerateUnoNativeAssetsTask.AOTProfile.cs`, `B/Externals`) | identifiers given out while reading and writing | read, filter, write | records refer to each other; nested instances are written on the way | the kept methods mean what they meant, and the result can be read |
| Snapshot of native allocations (`B/ts/.../EmscriptenMemoryProfilerSupport.ts`) | sites, the shared table of frames | capture, sort, two documents | samples point into a table shared by all sites | the two documents agree with each other and with the table |
| Log and AOT profilers of a page (`B/ts/.../LogProfilerSupport.ts`, `AotProfilerSupport.ts`) | exports of the assemblies, the timer, the profile file | keys, saves, heap shots, flushes | exports are awaited by every call; data stays in queues until a flush | every call ends, a save is complete, the timer flushes |
| Native assets, bitcode selection, manifest (`B/GenerateUno*.cs`, `B/BitcodeFilesSelector.cs`) | none between calls | filter lists | | |
| Server middleware, WebGL patch, WebCIL | little or none | configuration, text, imported code | | |

Interactions: `ShellTask` stamps a fresh cache name into every service worker and
generates `uno-config.js`, `embedded.js` and `worker.js`. `Bootstrapper` reads the
configuration, registers the service worker of a page that has none, and is called back by the runtime
(`configLoaded`, progress, `onDotnetReady`); `mainInit` sets hot reload up, which
the tooling then calls through two JavaScript entry points. The page of a web
worker and the worker exchange messages. The version checker only sees what a
deployed site serves.

## 2. The modules

| Module | Models | In the code |
|---|---|---|
| `FilePool` | what the pool promises: a set of files, at most so many at a time, all dealt with before the return | abstract specification |
| `CachePool` | the pool; one action per turn of the event loop | `cacheFilesWithConcurrency` |
| `CachePoolProofs` | theorems about `CachePool` | |
| `ServiceWorker`, `ServiceWorkerProofs` | install, activate and fetch handlers of every build; life cycle, network, origin and users are external; theorems | `service-worker.js:65-235` |
| `HotReload` | entry points, initialisation, deltas, stash, late loads, rejections | `HotReloadSupport.ts`, `WebAssemblyHotReload`, `HotReloadAgent` |
| `HandlerOrder` | the topological sort of the update handlers, its recursion as a stack | `HotReloadAgent.TopologicalSort` |
| `MCHotReload`, `HotReloadProofs` | composes `HotReload` and `HandlerOrder`, the two halves of the agent, for one run; theorems about both | |
| `AotProfile` | reader, filter and writer of an AOT profile | `TransformAOTProfile`, `ProfileReader`, `ProfileWriter` |
| `AssetPipeline`, `AssetPipelineProofs` | the steps of the task and the iterations of their loops, one build after the other; theorems | `ShellTask.Execute` |
| `MCBuild` | composes `AssetPipeline` and `AotProfile`, both tasks of a build, for one run; the projects of the run | |
| `Startup`, `StartupProofs` | `bootstrap`, page event, runtime callbacks, dependencies, `mainInit`, loader; theorems | `Bootstrapper` |
| `ProgressEstimate` | the arithmetic of the progress bar | `initializeProgressEstimation`, `reportDownloadResourceProgress` |
| `VfsLoad` | `configLoaded`, the redirection, the clean-up | `Bootstrapper` |
| `MCConfigLoaded`, `ConfigLoadedProofs` | composes `VfsLoad` and `ProgressEstimate`, both set up by `configLoaded`, for one run; theorems about both | |
| `VersionCheck`, `VersionCheckProofs` | the requests of an inspection, gate, retries, cancellation, exit codes; theorems | `VersionCheckService`, `VersionCheckerReplHost` |
| `WebWorker` | worker, page and the two queues | `WorkerBootstrapper`, `ShellTask.GenerateWorkerJs` |
| `Profilers` | the log and AOT profilers of a page | `LogProfilerSupport.ts`, `AotProfilerSupport.ts`, `profiler_flush_wasm.c` |
| `MemorySnapshot` | from the table of allocations to the two documents | `EmscriptenMemoryProfilerSupport` |
| `MCProfilers`, `ProfilerProofs` | composes `WebWorker`, `Profilers` and `MemorySnapshot` for one run; theorems about all three | |

Conventions. An action is what runs without giving up the event loop (JavaScript)
or what one task does between two awaits (C#). Data is kept as far as a property
tells it apart: a file is an index or a name and the build whose content it has, a
delta is its module and its number, an answer of a server is what the code does
about it. A definition whose comment says "plausible slip" is not part of a
specification: it is a mutated form of the definition that follows it, with which
the property in `PROJECT.json` is refuted. Variables marked "history" record what
happened and guard no action of the code.

How state and actions correspond to the code, module by module:

* **CachePool.** `nextIndex` and `inFlight` are the variables of that name;
  `fetches[i]` follows the chain of promises of file i (`pending`: fetch called;
  `handled`: the then or catch callback has run; `settled`: the last callback has
  run); `puts[i]` is its cache write, which the first callback begins and
  nobody waits for until `AwaitPuts` collects the writes for `Promise.allSettled`.
  `Release` is the last callback: it gives the slot back and either fills it in
  the same turn or, when it was the last one, resolves the promise.
* **ServiceWorker.** Per build one copy of the handlers. `stage` and `todo` are
  the progress of `install` (open the cache, offline files, the boot
  configuration inside `dotnet.js`, framework files); the pool is used through
  its promise only, a set of files worked through in any order. `doomed` is the
  list of names `activate` filtered and has yet to delete. `request` is one fetch event
  at a time: network first, `caches.match` in order of creation, then retries.
  `lost` is a history of what an install failed to get. A worker is installed
  because an uncontrolled page registers it (`Register`, `initializePWA`) or because
  the browser looks for a newer script (`Update`); a build whose install was
  aborted may be installed again, into the cache it has already.
* **HotReload.** `hosted` says that the entry points are in place
  (`InitializeHotReload`, which makes the first agent). `agents` are the `HotReloadAgent` objects, each with its
  stash; an entry of a stash is a reference to the one object of `_updateDeltas`,
  so a load applies that object's present content (`updateDelta`).
  `ApplyRejected` and `LoadRejected` are `ApplyUpdate` throwing part of the way.
  While `handling`, application code runs and may load assemblies.
* **HandlerOrder.** `stack` holds the calls of `Visit` with the references each
  has still to look at; `Array.Find` returns the first assembly of a name.
* **Startup.** `boot` follows `bootstrap`; `NextTask` says that no promise
  continuation is ready, so that tasks (scripts, timers, events) run only then.
  Between `onDotnetReady` and the return of `m.default` (`boot = "exiting"`)
  `runMain` is not assigned yet: nothing but the continuation runs.
  `setting` chooses an embedding page, early initialised modules and failures.
* **ProgressEstimate.** A percentage is a whole number of units, rounded down
  where the code computes in floating point; time is in ticks of half a
  second. `Report` is the whole handler, and the counts of a report are arbitrary.
* **VfsLoad.** `content` is the boot configuration by section; `vfs` is
  `resources.vfs`. `RedirectAssembliesToVfs` and `FixSatellites` are the two parts
  of `configLoaded`, `Close` the wrapper of `FS.close`, which looks at the flags of the
  stream alone. How the runtime stores and opens files is external: it has the image as soon as it
  has opened the file, because it opens, reads and closes in one go; an application may read the
  same files.
* **VersionCheck.** `step` is the document the sequential part asks for;
  `state[a]` and `sends[a]` are the task of assembly a. `Interrupted` is the token
  cancelling it wherever it waits, and with the token cancelled no request is sent, no delay
  ends and no slot is taken, because `SendAsync`, `Task.Delay` and `WaitAsync` throw at once;
  `ExitCode` is what `await Task.WhenAll` and
  the catch clauses of the host make of all tasks.
* **MemorySnapshot.** An action is one iteration of a loop: a line of a stack
  parsed, a site pushed, a frame mapped, a sample added. `frameMap` and `frames`
  are `frameMap` and `shared.frames`; a line is its function and whether it is a frame.
* **AotProfile.** A record refers to others by identifier; an object read is its
  index in `heap`. `writer` is the state of `ProfileWriter`: what is written, the next
  identifier, the identifiers given to types and modules.
* **AssetPipeline.** An action is a step of `Execute` or one iteration of a loop of
  it, for the item `at`. `assets` is `StaticWebContent`: the items that are left, by the
  number `AddStaticAsset` made them with (`added`), which keeps the order of the list
  when items are removed from it. An asset is its file, its
  name in the site and the folder it is linked into; `dependencies` and `styles` are
  sets, because only what the generated files name is modelled, not its order. `disk` is the intermediate folder,
  which a second build finds as the first left it. `urls` are those the generated
  files name. The hash is the sequence of contents it is computed from, in the order of the
  paths, that is, SHA-1 is taken to be injective.
* **Profilers.** A call is the key press and what it does; `stage` follows it
  from the request for the exports to its end. A profile is the number of
  events in it: `recorded` by the runtime, `written` to the file by a flush. `drains`
  says whether the runtime is the patched one, whose flush empties the queues.
* **WebWorker.** `boot` and `loaded` follow `bootstrap`, `saving` the
  asynchronous handlers, `status` the text the page shows. Request 0 is a helper
  called from the console of the worker. A command posted
  before the handler is registered is lost when it is dispatched.

## 3. Runs

Twelve runs. Deadlock is not checked where the modelled call, start or session
ends (all runs but those of `ServiceWorker`, which has an environment that can
always go on).

| Run | Bounds | Shows |
|---|---|---|
| `cache_pool` | 5 files, 2 slots, one fetch that may hang | `NothingLeftBehind`, `Inductive`; `NeverBlocksOthers` (the others are fetched and written), `Returns` (if no begun fetch hangs), `ImplementsFilePool` |
| `service_worker` | 2 builds, a shared and a fingerprinted file, 2 retries | `NoOlderCacheOnceActive`, `InstalledHoldsFiles`, `OwnCacheFirst`, `EveryFetchAnswered` |
| `service_worker_deletes` | 2 builds, one file | refutes `DeletesPreviousOnly` (finding) |
| `hot_reload` | 3 deltas, 2 modules, 3 assemblies (two of one module), 5 agents; sort: 3 assemblies, 3 names, every assignment and graph | `EarlyAssembliesFollow`, `LateAssembliesPatchedAsOften`; `HandlersOrdered`, `SortEnds` |
| `hot_reload_late` | the same | refutes `LateAssembliesFollow` (finding) |
| `build` | assets: up to one content file, 2 resources and an embedded resource whose names meet, 4 shells, one or two builds; profile: every profile of up to 5 records over 2 modules, a type and 2 methods, every exclusion | `UrlsServed`, `LastAssemblyServed`, `FolderFixesContent`; `ProfileKept` |
| `startup` | up to 3 dependencies (1 script, 2 emscripten modules), 2 progress levels, every setting | `PreInitMatchesEvent`, `MainAfterDependencies`, `FullMeansStarted`, `MainRuns`, `LoaderUntilRendered`, `NeverDecreases` |
| `config_loaded` | files: one library and its symbols, one culture, every distribution over the sections; bar: 7 reports of counts up to 2, gaps of 0.5 s and 1.5 s, two estimates | `MovedOnce`, `SatellitesStored`; `ReservedForStart`, `NeverBackward` |
| `vfs_readers` | one library, one culture | refutes `UnreadFilesRemain` (finding) |
| `version_check` | 3 assemblies, a gate of 2 | `GateKept`, `TimeoutIsNoCancellation`, `CancelEnds`, `DownloadsEnd` (if no server keeps a download for ever) |
| `version_check_cancelled` | 2 assemblies, a gate of 2 | refutes `CancelledIsReported` (finding) |
| `profilers` | worker: 1 dependency, 2 commands and a call from the console; page: 2 key presses, 2 recorded events, either profiler, both or none; snapshot: every table of up to 2 entries with stacks of up to 3 lines over 2 functions | `OneAnswerEach`, `ReadyMeansHeard`; `SavedIsComplete`, `EveryCallEnds`, `FlushedByItself`; `DocumentsAgree`, `NothingLost` |

`hot_reload`, `build`, `config_loaded` and `profilers` each join models that share no state: an
initial state picks one of them, its `MC` module steps that one, and the
properties speak of each by itself. Type correctness is part of the invariants the
runs check where types can go wrong: of `Inductive` for the pool, of the invariants
proved in section 5, and of `TypeOK` for the service worker, whose number of
retries left is bounded by it.

Why the bounds are enough:

* *Pool.* Three more files than slots: slots are refilled while others are
  occupied, the list runs out with slots occupied, and writes outlive the pool. One
  hung fetch leaves one slot for the rest. What the pool does depends on files
  only through counters, and the safety part is proved for all bounds.
* *Service worker.* Two builds give every overlap of an old and a new worker
  (a third would only repeat old against new); one shared and one fingerprinted
  file are the two kinds of file the handlers tell apart; two retries give a
  first, a middle and a last attempt.
* *Hot reload.* Two modules are needed for a stash to hold a delta of the wrong
  module, three deltas and five agents for two stashes beside an unrelated one,
  the agent of the start and one more that never applied anything, two assemblies of a module for a
  delta rejected half way.
* *Handler order.* Three assemblies give cycles with a way in and a way out,
  duplicates, and names that are not loaded.
* *Start-up.* Two modules of one kind and a script give every order of the last
  two callbacks; two levels are enough for a bar to go back.
* *Progress.* Seven reports bring the target from 30 % to within one percent of
  the reserve; counts up to 2 contain growth, shrinking and zero.
* *Snapshot, profile.* Two entries share a frame, or do not, and tie in bytes; a
  stack has none, one or two frames, with a line that is no frame between. Five
  records hold a generic instance over a type that a method needs as well, and
  a type no method leads to.
* *Pipeline.* Two resources of one name; a resource that an embedded file has the
  name of; content that is a static web asset already. Two builds with any edit
  of the contents in between give every pair of packages that could share a folder.
* *VFS, checker.* One entry of each kind; one task more than the gate admits.
* *Worker, page.* A save may overlap a second command and the console; two calls
  of the page may wait for exports of which one's are refused.

### Fairness

Weak fairness, and only of steps something in the code or below it is
obliged to take: callbacks that are ready run (event loop, task scheduler); imports,
cache writes, timers and delays end. Never assumed: that a user, a server, a
deployment or a network does anything. In detail:

* `CachePool`: a fetch in `MayHang` need not end; the code has no time limit of its
  own. All others do.
* `ServiceWorker`: a fetch succeeds or fails, a deletion ends; the network may be
  away for ever.
* `Startup`: imports, scripts and modules finish, or fail where failures are
  admitted; then nothing is claimed but safety.
* `VersionCheck`: no fairness of answers, so `CancelEnds` holds although no server
  ever answers; an interrupted task ends, a delay ends, a free slot is taken. `DownloadsEnd`
  states as its premise that no download goes on for ever.
* `profilers`: the event loops of worker and page run, the interval of the
  page fires, and imports and exports resolve or reject; Main may run for ever,
  and nothing is assumed of keys, commands and the profiler of the runtime.
* `hot_reload`: the thread that sorts goes on.

## 4. Findings

Four runs show the program doing other than its own text says.

1. **An activation deletes the cache of a newer build** (`service_worker_deletes`,
   `service-worker.js:153`). "This removes any old caches that might have been
   created by previous versions of the service worker" (line 146); the filter
   drops every name but its own. A worker that activates while the next build
   installs deletes the cache under the installing worker, which ends its
   install and later activates with nothing cached.
2. **Assemblies loaded late get the wrong deltas** (`hot_reload_late`,
   `WebAssemblyHotReload.cs:83`). Deltas are stashed "so [they] may be applied to
   assemblies loaded later" (`HotReloadAgent.cs:206`), but all stashes hold the one static
   object the next call overwrites: after deltas d1 and d2, a late assembly gets
   d2 twice, whatever module d2 was for. What does hold is checked by `hot_reload`:
   early assemblies get all deltas in order, and late ones as many.
3. **A cancelled inspection may end as an error** (`version_check_cancelled`,
   `VersionCheckService.cs:225`). "Cancellation returns a cancelled Repl result rather
   than a partial success or generic exception" (`specs/003-wasm-version-checker/spec.md:200`);
   if one download failed before the cancellation interrupted another one,
   `Task.WhenAll` is faulted, and the exit code is 255 and not 130. (A failure after the
   cancellation is none: `HttpClient` reports it as the cancellation.)
4. **Reading a file deletes it before the runtime has loaded it** (`vfs_readers`,
   `Bootstrapper.ts:272`). "Files that have not yet been loaded ... remain in the VFS until
   the runtime reads them" (`doc/features-vfs-assembly-loading.md:42`); the wrapper of `FS.close`
   unlinks after every stream that only read, so an application that opens an assembly or its
   symbols below `/managed` itself takes it away from the runtime.

Further disagreements met while modelling. The models do what the code does, and
the properties of the passing runs are stated so as to hold of it:

* In an embedding page the second `DOMContentLoaded` event (`ShellTask.cs:855-857`)
  empties the bar again (`Bootstrapper.ts:807`), against FR-1 of
  `specs/001-download-workaround/spec.md:98`; `NeverDecreases` names that one exception.
* A set-up that fails before Main fills the bar (`Bootstrapper.ts:620`), against
  FR-7 (line 110); `FullMeansStarted` names it.
* A stall is seen only by the next report, and need not move the bar
  (`Bootstrapper.ts:760-790`), against FR-2 (line 100).
* An emscripten module that is initialised before RequireJS calls back is waited
  for for ever (`Bootstrapper.ts:911-922`; `doc/features-dependency-management.md:76`);
  `MainRuns` excludes it.
* A boot configuration of dictionaries with satellite resources makes the
  for-of loop of `configLoaded` throw (`Bootstrapper.ts:382`), though the comment
  at 438-440 leaves such shapes "untouched". `FixSatellites` models it.
* One assembly whose request fails or times out fails the inspection
  (`VersionCheckService.cs:517`); compare `specs/003-wasm-version-checker/spec.md:212`.
* An exception of Main in a worker is caught and posted as a message the page
  does not know (`WorkerBootstrapper.ts:104`); `specs/003-webworker-mode/spec.md:45`
  expects `worker.onerror`.
* A save of the log profiler when the file is empty downloads a `Blob` of `null`
  as `profile.mlpd` in a page (`LogProfilerSupport.ts:112-127`), where the worker
  answers with an error.
* The hints on the console name `this.saveLogProfile()`, `this.takeHeapShot()` and a
  static `saveAotProfile` (`LogProfilerSupport.ts:37, 56, 65`, `AotProfilerSupport.ts:32`);
  only `saveLogProfile` is exposed, and `saveAotProfile` is an instance method.
* `callSiteKey` and `outstandingCount` are computed (`EmscriptenMemoryProfilerSupport.ts:259-264,
  318-325`) and exported in neither document; `specs/002-memory-profiler-export/spec.md:76`
  matches sites by the key.
* The hash of the package covers contents in the order of their paths and not the
  names: renaming `a` (c1), `b` (c2) to `b` (c1), `c` (c2) keeps the folder while `b`
  serves other bytes; compare "never v2 worker bytes served at the same URL"
  (`B/build/Uno.Wasm.Bootstrap.targets:841`). `uno-config.js` and `uno-assets.txt` lie in the
  folder and are not hashed. `FolderFixesContent` is stated for two builds of the same names
  and leaves the configuration out.
* An embedded resource below `wwwroot` that is a static web asset already is removed as a
  duplicate although its name stays in the configuration. `ProjectsAssumption` excludes it.
* "Add the main assembly last so it can have a final say" (`ShellTask.cs:498`): its
  resources are skipped (352, 399), and its embedded file becomes a second asset with the
  link of the resource it should replace. `LastAssemblyServed` is about the others.
* `doc/features-webworker-mode.md:40-43` starts Main before it signals readiness and
  registers the handler; the code does it the other way round.

## 5. Proofs

Eight modules hold theorems; `tlapm` checks every leaf. They cover the safety properties of
all runs but `ProfileKept`. The assumptions are those
of the models, which TLC evaluates in their runs: `PoolAssumption` (a bound above
zero, files counted from 1), `ProgressAssumption` (the unit of the arithmetic is
positive, estimates and gaps are natural numbers), `VersionCheckAssumption` (at
least one assembly and one slot) and `VfsAssumption` (a culture is not named like
another section, nor the empty name), `TablesAssumption` (a table is a sequence of
entries), `StartupAssumption` (dependencies are finitely many and of one kind each, the
levels of progress are counted), `HotReloadAssumption` (every assembly has a module),
`WorkerAssumption` (at least one build, a number of retries, the two lists of files are
disjoint and fingerprints or not concern them only), `SortAssumption` (assemblies are
counted, there is a name), `HostsAssumption` (the bounds of the profilers are numbers),
`PathOrderAssumption` (the order of paths has every file of a project) and `ProjectsAssumption` (content and embedded files are the project's own, and none generated;
static web assets that exist already are files of `wwwroot`, embedded files lie
outside of it; a name has one extension, and no resource is named like a file the task generates).
The bounds of a run (`MaxDeltas`, `MaxAgents`) may be any natural numbers.

**The pool (`CachePoolProofs`).** `NothingLeftBehind` is not inductive: it speaks of
one state, and needs to know how the pool got there. `CachePool!Inductive` adds

* `SlotsAccounted`: `inFlight` is the number of occupied slots. It makes "the
  counter is zero" mean that no download is going on;
* `TakenInOrder`: what is idle is what lies behind `nextIndex`. With
  `nextIndex = NumFiles` no file is left out;
* `ResolvedLast`: past the resumption both of these hold, hence all files are
  settled (lemma `AllSettled`);
* `PutsFollowFetches`: a write is queued before its slot is given back, so none
  appears after the resumption, and from then on every write is in the awaited
  list; this is where the order of the two callbacks of a chain matters;
* `AwaitedEnded`: the awaited writes have ended at the return;
* `NoIdleSlot`, which needs `startNext` to fill *all* free slots.

Lemma `StartNextFills` says what the loop does to counter, index and fetches, and
carries the cardinality arguments; there is one lemma per action, and
`PoolInductive` joins them. `PoolSafe` follows without another look at the steps.
`PoolImplementsFilePool` maps running files to the occupied slots, settled files
to settled chains and the return to `pc = "returned"`: `Begin` and `Release` are
steps of the abstract pool (`LaunchIsAdvance`), all other actions stutter.

**The bar (`ConfigLoadedProofs`).** The invariant `BarInv` is small: target between
zero and the reserve, bar at or below the target. That suffices for
`BarReserved` and `BarNeverBackward`, because each of the three corrections of the
target (total, velocity, stall) stays between the target and the reserve
(`TargetAfterTotal`, `TargetAdjusted`), and what is shown stays between the last
value and the target (`ShownWithinTarget`). Neither the numbers reported nor
their order matter: `loaded` may fall and `total` may be zero.

**The gate (`VersionCheckProofs`).** `Inductive` joins `GateKept` with where the
inspection is: downloads exist only in step "assemblies", the sequential part has
no request out there, and an exit code and step "over" come together. From these
follow `GateAlwaysKept` and `OnlyUserCancels`. The
cardinality argument is in three lemmas, one slot taken, released or neither;
`DownloadMoves` says that a download then disturbs nothing else. `CountsLeft` is
needed for the types: a delayed request has a retry left, a requested script is
one of the candidates.

**The virtual file system (`ConfigLoadedProofs`).** After the redirection `vfs` is exactly
the set of moved entries and each section exactly what must stay bundled
(`Redirecting`), so the second loop finds no satellite. An entry is there once
because no entry is configured in two neutral sections (`Distinct`) and the
directory of a culture is its own (`MovedIsOnly`). `SatellitesStoredOnce` is about two loops that could both
store a satellite, or neither: `NamedOnce` says that a culture has no name twice, and
`NotRedirected` that without the redirection the loop of `configLoaded` alone has put exactly the
satellites there, below their culture, and what lies there already has another path.

**The service worker (`ServiceWorkerProofs`).** None of the properties is inductive, because each
depends on an order that no line of the code keeps: of which build may still create or delete
caches while an older one activates. `NewestInstalls` says that the build that
installs is newer than all that got past their installation (an update replaces what waits, and
an aborted build is installed again only as long as it is the deployed one); `NamesInOrder` that
caches are therefore created in the order of their builds. Hence a cache that appears after
`ListCaches` took its list is of a newer build, and `OlderDoomed` holds: what is older is on the
list until it is deleted. That gives `NoOlderCacheLeft`. `AnswersFromOwnCache` needs both: no
older cache is left while a worker answers, so among those that hold the request its own is
created first, and `caches.match` takes the first. `DealtWith` follows the two pools of an
install for `InstallIsComplete`, and `RequestTyped` counts the retries for `Typed`.

**The snapshot (`ProfilerProofs`).** `DocumentsAgree` speaks of the end; the
invariant says what the program has done so far in each of its loops: indices
point into the table of frames and the table has no name twice (each new name
gets the next index), all sites before the loop index are mapped, each sample
is the reversed list of indices of its site, each PerfView sample the site itself, and
from the sort on the sites are in falling order of bytes. The phases come one after
the other, so each part is established in one and preserved in the later ones.
`SnapshotInvariant` proves it for every table, every stack and every function.

`NothingLost` compares the documents with the table, so it needs the capture as well
(`LossInvariant`): what is parsed of a stack is what its first lines have
(`Parsing`), and there is a function that gives each site the entry it was taken from
(`Captured`): one to one, onto the entries outstanding among those gone over, with the frames and the
bytes of the entry. An entry that was freed adds nothing to either side, a site pushed adds one
to both, and the sort composes the function with a permutation (`SortCaptured`; that a
one-to-one map of a finite set is onto is a theorem of the library). At the end it restricts to a
bijection for each stack and number of bytes, which makes the two counts equal (`SameCount`).

The frames of a stack and the sum of the weights are recursive functions. That there are such
functions (`Recursion`), hence that each value follows from the one before (`FramesDefined`,
`SumsDefined`), and that two of them which begin alike are equal (`SameValues`) is proved by
`Induction` over a set of numbers: a least counterexample exists as `<` is well-founded, and
its predecessor is none. The induction theorems of the library take an operator; this lemma
takes a set and needs none.

**The start (`StartupProofs`).** One part of the invariant per actor. `Events`: the
loader is initialised no more often than page events have come, and as soon as both
an event and the bootstrapper are there, whichever is first. `Counted`: until
`onDotnetReady` nothing is requested; from then on `pending` is the number of
dependencies that are not done, and `mainInit` has been called if and only if none is left
and no timer of it is out. `Started`, `Shown` and `Loader` follow Main, the bar and the
observer. The delicate step is the end of a dependency (`DoneInv`): before it at
least that one remains, so nobody has called `mainInit`; `OneDone` says that one less
remains, so that the counter reaches zero with the last and not before. From
these follow `MainCalledOnceDone`, `FullBarMeansStarted`, `PreInitFollowsEvents`, and the two
action properties `BarNeverDecreases` and `LoaderLeavesWithContent`.

**Hot reload (`HotReloadProofs`).** What an assembly loaded late gets depends on all agents
ever made. `StashMatchesHistory` says that their stashes together hold as many entries
for a module as deltas of it were applied: an agent of an applied delta adds one
(`OneEntryMore`), any other none (`NewAgentStashesNothing`), and a rejected delta none. With
`Unpatched` (nothing is given to what is not loaded) `LatePatchedAsOften` follows; `EarlyFollow`
needs it for an assembly that is loaded before the first delta.

**The order of the handlers (`HotReloadProofs`).** `HandlersInOrder` holds for every graph, with cycles
and duplicate names. "Leads to" is defined as a least fixed point (every set of names that is
closed under references and holds the first holds the second), so that it needs no
induction. The invariant is that of a depth-first visit: a visited name is
sorted or on the stack, once (`VisitedOnce`); each call was made for a reference
of the one below it, so that lower calls lead to higher ones (`CallsChained`); a reference that
has been looked at is visited or not loaded (`ReferencesLookedAt`). When a call ends, each of its
references is thus sorted before it, or on the stack and leads back to it (`ReferencesBefore`).

**Worker and page (`ProfilerProofs`).** `CommandsOnTheirWay`: a command is in the queue, once,
or in a save, or answered, and never two of these; `ReadyListens` says that whoever has heard, or
will hear, that the worker is ready finds the handler registered, although readiness is
posted first. With it `NeverLost` holds, the safety half of `ReadyMeansHeard`: what is left to
fairness is that queues are emptied and saves end. `RequestStep` is the one argument about the
three ways on, for a command, a save and a call from the console alike. `SavesAreComplete`
needs that what is recorded only grows and that a save reads what it has just flushed.

**The pipeline (`AssetPipelineProofs`).** A generated file may name what is added after it, and two
removals of duplicates come between. For `UrlsAreServed` the invariant follows a name from the
loop that collects it: `NamesHeld` says that a script or style whose name was collected
has an asset of the package, of that name, that is no static web asset already. An embedded
file may replace the asset, since it replaces those of the same file, but then it
has the same name. `RemovedOnce` says that the second removal takes nothing: what is added
after the first is generated, and `FolderGenerated` moves every asset into the folder
that the URLs name. `UrlsKnown` then has one exception, the configuration, named by the
service worker two steps before it is written. For `LastAssemblyIsServed`, `NewestOnDisk` says
that of the resources extracted so far the last of a name is on disk, in a second build whatever
the first one left there: scripts and styles are extracted by two loops with another between, and it
matters that no resource of the name is left for the second one. `WorkerPassedOver` covers the
one resource that is not extracted: it is no asset, so a file of that name on disk is not served.
The lemmas on `AddStaticAsset` (`AddedTo`, `OneMore`, `TwoMore`, `Overridden`) say what a call makes
of the set of assets, and one lemma per step what the step makes of it.

`FolderNameFixesContent` relates two builds. That they have the same contents follows from the
hash only if they collect the same items, in an order that the contents do not
change. `After` says what one step of the loops makes of the step, the index and the items,
given the names of the project (`Names`) and nothing else, and `CollectsStep` that each action does
just that, whatever lies on disk. So the state is on a path of such steps (`OnPath`);
two paths agree as far as both go (`SamePath`, by the least difference), and a path ends
where the folder is named, so both builds name it after the same items (`CollectedOnce`).
From there `Filled` keeps what the folder was named after: the files generated later are
not among the items (`GeneratedApart`), so that the contents stay as hashed, and what is added lies
at the root or is the configuration (`DescribesStep`). The last part is that the hash determines
the contents: an item stands at the position of its rank in the order of the paths,
and different items have different ranks (`RanksDiffer`), since the items up to one are a proper subset
of those up to a later one. `PreviousNamed` carries all this over an edit, which changes no name.

Only model-checked: liveness and what depends on fairness (`NeverBlocksOthers`,
`Returns`, `CancelEnds`, `DownloadsEnd` and the others of section 3), and `ProfileKept`, which is recursive over
nested instances: `AotProfile` declares recursive operators, and no theorem can be about
such a module.

## 6. What is not modelled, and why

* The reflection that collects update handlers (`HotReloadAgent.cs:60-153`): it
  depends on the metadata of types only.
* Of `Bootstrapper`: environment detection, the fetching of resources, debugger
  hot keys. They keep no state the
  modelled parts read.
* Of `VersionCheckService`: what documents say (parsers, metadata readers).
* Of `WorkerBootstrapper`: the redirection of URLs and the environment checks.
* Of `ShellTask`: the text of the generated files but for the URLs in them, the shell
  Node, and projects with two content files of one name.
* Native asset tasks and `BitcodeFilesSelector`: filters of lists, which a model would
  restate. The target and network policy of the checker likewise.
* What the tooling does after a refresh (`blazor-hotreload.js` replays deltas): external.
* The test scripts. `test-satellite-vfs.js` mirrors the code `VfsLoad` models, and its checks
  are instances of `MovedOnce` and `SatellitesStored`. `hello.js`, the longest script of the repository
  (39,492 of 43,932 lines), is generated by Emscripten.
* The WebGL patch, path and string helpers, server middleware: text and I/O.
* WebCIL conversion: imported from the .NET runtime.

Known abstractions: one fetch event at a time (`ServiceWorker`): the handler
shares nothing between events but the caches. A fetch is either answered or fails
as a whole. Rounding down in `ProgressEstimate`. In `VfsLoad` a file is opened once
per kind of reader.

## 7. Plan

Order of work, most important behaviour first. Done: the download pool with its
abstract specification, service worker, hot reload, handler order, start-up,
progress, virtual file system, version checker, web worker, asset pipeline, AOT
profile filter, profilers; proofs of all safety properties but `ProfileKept`, and of the
refinement of the pool's abstract specification.

Next: `ProfileKept` stays with TLC (section 5). What is left to model, in this order: more
than one fetch event at a time in `ServiceWorker`; the fetching of resources by `Bootstrapper`, should it come to keep state.

Six hazards have no property, because the repository says nothing of what should hold
(`service-worker.js:176`, `HotReloadAgent.cs:202`), the code does not do what the documents ask for
(`Bootstrapper.ts:762`, `Bootstrapper.ts:913`, `WorkerBootstrapper.ts:104`), or it throws
(`Bootstrapper.ts:382`); section 4 and `PROJECT.json` name them.
