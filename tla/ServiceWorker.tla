--------------------------- MODULE ServiceWorker ----------------------------
(***************************************************************************)
(* The offline worker of an application (Embedded/service-worker.js): its  *)
(* install, activate and fetch handlers, one copy of them per build, since *)
(* every build stamps the script with a fresh cache name.  The worker life *)
(* cycle the browser drives the handlers through (one installing, one      *)
(* waiting and one active worker per registration), the network and the    *)
(* origin are external, modelled as far as the handlers depend on them.    *)
(*                                                                         *)
(* The download pool is that of CachePool, seen through FilePool: a set of *)
(* files worked through in any order.  The pool's bound is its own affair. *)
(***************************************************************************)
EXTENDS Integers, Sequences, FiniteSets

CONSTANTS NumVersions,    \* builds deployed one after the other (a bound)
          OfflineFiles,   \* unoConfig.offline_files
          FrameworkFiles, \* the files the boot configuration lists
          Shared,         \* files whose URL is the same in every build
          FetchRetries    \* UNO_BOOTSTRAP_FETCH_RETRIES

Versions == 1..NumVersions
Files == OfflineFiles \cup FrameworkFiles

ASSUME WorkerAssumption ==
  /\ NumVersions \in Nat \ {0}
  /\ FetchRetries \in Nat
  /\ Shared \subseteq Files
  /\ OfflineFiles \cap FrameworkFiles = {}

VARIABLES
  deployed,  \* the build the origin serves
  online,    \* whether the origin can be reached
  page,      \* the page of the application, and whether a worker controls it
  worker,    \* per build: the state of its worker
  stage,     \* per build: where its install handler is
  todo,      \* per build: files of the current pool not dealt with
  lost,      \* per build: files its install failed to cache (history)
  names,     \* the named caches, in the order of their creation
  stored,    \* per build: the build whose content its cache holds, per file
  doomed,    \* per build: the caches its activate handler has yet to delete
  request    \* the fetch event being answered

life == <<worker, stage, todo, lost, names, stored, doomed>>
vars == <<deployed, online, page, worker, stage, todo, lost, names, stored, doomed, request>>

Controlling(v) == worker[v] \in {"activating", "listed", "active"}

NoRequest == [state |-> "none"]
Nothing == [f \in Files |-> 0]

Init ==
  /\ deployed = 1
  /\ online = TRUE
  /\ page = "closed"
  /\ worker = [v \in Versions |-> "none"]
  /\ stage = [v \in Versions |-> "none"]
  /\ todo = [v \in Versions |-> {}]
  /\ lost = [v \in Versions |-> {}]
  /\ names = <<>>
  /\ stored = [v \in Versions |-> Nothing]
  /\ doomed = [v \in Versions |-> {}]
  /\ request = NoRequest

-----------------------------------------------------------------------------
(* The environment: a new build replaces the old one, the network comes    *)
(* and goes, the user opens and closes the application.                    *)
Deploy ==
  /\ deployed < NumVersions
  /\ deployed' = deployed + 1
  /\ UNCHANGED <<online, page, request>> /\ UNCHANGED life

SwitchNetwork ==
  /\ online' = ~online
  /\ UNCHANGED <<deployed, page, request>> /\ UNCHANGED life

OpenPage ==
  /\ page = "closed"
  /\ page' = IF \E v \in Versions : Controlling(v) THEN "controlled" ELSE "uncontrolled"
  /\ UNCHANGED <<deployed, online, request>> /\ UNCHANGED life

ClosePage ==
  /\ page # "closed"
  /\ page' = "closed"
  /\ request' = NoRequest
  /\ UNCHANGED <<deployed, online>> /\ UNCHANGED life

(* The browser finds the script of the deployed build and starts to        *)
(* install it: a build it does not know, or one whose install was aborted. *)
(* Workers of a registration install one at a time.                        *)
BeginInstall ==
  /\ online
  /\ worker[deployed] \in {"none", "redundant"}
  /\ \A v \in Versions : worker[v] # "installing"
  /\ worker' = [worker EXCEPT ![deployed] = "installing"]
  /\ stage' = [stage EXCEPT ![deployed] = "open"]
  /\ todo' = [todo EXCEPT ![deployed] = {}]
  /\ lost' = [lost EXCEPT ![deployed] = {}]
  /\ UNCHANGED <<deployed, online, page, names, stored, doomed, request>>

(* initializePWA: only a page that no worker controls registers one.       *)
Register == page = "uncontrolled" /\ BeginInstall

(* The browser looks for a newer script when a page of a registration is   *)
(* opened.                                                                 *)
Update ==
  /\ page # "closed"
  /\ \E v \in Versions : worker[v] \notin {"none", "redundant"}
  /\ BeginInstall

(* The browser gives up on a worker that installs for too long.            *)
InstallAborted(v) ==
  /\ worker[v] = "installing"
  /\ worker' = [worker EXCEPT ![v] = "redundant"]
  /\ UNCHANGED <<deployed, online, page, stage, todo, lost, names, stored, doomed, request>>

(* A waiting worker takes over once no page is controlled by another one   *)
(* and no other worker is still activating.                                *)
TryActivate(v) ==
  /\ worker[v] = "waiting"
  /\ \A w \in Versions : worker[w] \notin {"activating", "listed"}
  /\ (\E w \in Versions : worker[w] = "active") => page # "controlled"
  /\ worker' = [w \in Versions |-> IF w = v THEN "activating"
                                   ELSE IF worker[w] = "active" THEN "redundant"
                                   ELSE worker[w]]
  /\ UNCHANGED <<deployed, online, page, stage, todo, lost, names, stored, doomed, request>>

-----------------------------------------------------------------------------
(* The install handler.                                                    *)
Installing(v, s) == worker[v] = "installing" /\ stage[v] = s

OpenCache(v) ==
  /\ Installing(v, "open")
  /\ names' = IF \E i \in DOMAIN names : names[i] = v THEN names ELSE Append(names, v)
  /\ stage' = [stage EXCEPT ![v] = "offline"]
  /\ todo' = [todo EXCEPT ![v] = OfflineFiles]
  /\ UNCHANGED <<deployed, online, page, worker, lost, stored, doomed, request>>

Exists(v) == \E i \in DOMAIN names : names[i] = v

(* One file of the current pool is dealt with: downloaded and stored, or   *)
(* given up (no network, an error status, a failed write).  The origin     *)
(* serves the URLs of the deployed build only.  A write through the handle *)
(* of a cache that was deleted meanwhile is lost.                          *)
CacheFile(v, f) ==
  /\ worker[v] = "installing" /\ f \in todo[v]
  /\ todo' = [todo EXCEPT ![v] = @ \ {f}]
  /\ \/ /\ online /\ (f \in Shared \/ deployed = v)
        /\ stored' = IF Exists(v) THEN [stored EXCEPT ![v][f] = deployed] ELSE stored
        /\ UNCHANGED lost
     \/ /\ lost' = [lost EXCEPT ![v] = @ \cup {f}]
        /\ UNCHANGED stored
  /\ UNCHANGED <<deployed, online, page, worker, stage, names, doomed, request>>

(* The boot configuration inside dotnet.js names the framework files.  A   *)
(* failure here is logged and the install goes on without them.            *)
ReadBootConfig(v) ==
  /\ Installing(v, "offline") /\ todo[v] = {}
  /\ \/ /\ online
        /\ stage' = [stage EXCEPT ![v] = "framework"]
        /\ todo' = [todo EXCEPT ![v] = FrameworkFiles]
        /\ UNCHANGED lost
     \/ /\ stage' = [stage EXCEPT ![v] = "framework"]
        /\ lost' = [lost EXCEPT ![v] = @ \cup FrameworkFiles]
        /\ UNCHANGED todo
  /\ UNCHANGED <<deployed, online, page, worker, names, stored, doomed, request>>

\* A plausible slip: the pool is started and not awaited.
InstallEndsEarly(v) ==
  /\ Installing(v, "framework")
  /\ worker' = [w \in Versions |-> IF w = v THEN "waiting"
                                   ELSE IF worker[w] = "waiting" THEN "redundant"
                                   ELSE worker[w]]
  /\ stage' = [stage EXCEPT ![v] = "ended"]
  /\ UNCHANGED <<deployed, online, page, todo, lost, names, stored, doomed, request>>

(* The install event is over; a worker that was waiting is superseded.     *)
InstallEnds(v) ==
  /\ Installing(v, "framework") /\ todo[v] = {}
  /\ worker' = [w \in Versions |-> IF w = v THEN "waiting"
                                   ELSE IF worker[w] = "waiting" THEN "redundant"
                                   ELSE worker[w]]
  /\ stage' = [stage EXCEPT ![v] = "ended"]
  /\ UNCHANGED <<deployed, online, page, todo, lost, names, stored, doomed, request>>

-----------------------------------------------------------------------------
\* A plausible slip: the filter keeps the other caches and drops this one.
NamesOtherwise(v) == {names[i] : i \in DOMAIN names} \cap {v}

(* The activate handler: list the caches, delete all but this build's own, *)
(* then claim the open pages.                                              *)
NamesToDelete(v) == {names[i] : i \in DOMAIN names} \ {v}

ListCaches(v) ==
  /\ worker[v] = "activating"
  /\ doomed' = [doomed EXCEPT ![v] = NamesToDelete(v)]
  /\ worker' = [worker EXCEPT ![v] = "listed"]
  /\ UNCHANGED <<deployed, online, page, stage, todo, lost, names, stored, request>>

\* The cache named w goes, if it is there.
RemoveName(w) ==
  \/ ~Exists(w) /\ names' = names
  \/ \E i \in DOMAIN names :
       /\ names[i] = w
       /\ names' = SubSeq(names, 1, i - 1) \o SubSeq(names, i + 1, Len(names))

DeleteCache(v, w) ==
  /\ worker[v] = "listed" /\ w \in doomed[v]
  /\ doomed' = [doomed EXCEPT ![v] = @ \ {w}]
  /\ RemoveName(w)
  /\ stored' = [stored EXCEPT ![w] = Nothing]
  /\ UNCHANGED <<deployed, online, page, worker, stage, todo, lost, request>>

\* A plausible slip: the promise of the deletions is not returned, so the
\* pages are claimed while they go on.
ClaimNotWaiting(v) ==
  /\ worker[v] = "listed"
  /\ worker' = [worker EXCEPT ![v] = "active"]
  /\ page' = IF page = "uncontrolled" THEN "controlled" ELSE page
  /\ UNCHANGED <<deployed, online, stage, todo, lost, names, stored, doomed, request>>

Claim(v) ==
  /\ worker[v] = "listed" /\ doomed[v] = {}
  /\ worker' = [worker EXCEPT ![v] = "active"]
  /\ page' = IF page = "uncontrolled" THEN "controlled" ELSE page
  /\ UNCHANGED <<deployed, online, stage, todo, lost, names, stored, doomed, request>>

-----------------------------------------------------------------------------
(* The fetch handler of the active worker v.  A request names a file and,  *)
(* unless its URL is shared, the build whose page asks for it.             *)
Active(v) == worker[v] = "active"

FetchEvent(v, f, b) ==
  /\ Active(v) /\ page = "controlled"
  /\ request.state \in {"none", "answered"}
  /\ b \in 1..deployed /\ (f \in Shared => b = 1)
  /\ request' = [state |-> "network", by |-> v, file |-> f, build |-> b, attempts |-> 0]
  /\ UNCHANGED <<deployed, online, page>> /\ UNCHANGED life

Answer(source, cache) ==
  [state |-> "answered", by |-> request.by, file |-> request.file, build |-> request.build,
   attempts |-> request.attempts, source |-> source, cache |-> cache]

\* Caches that hold the request, as positions in the order of creation.
Matching == {i \in DOMAIN names :
               /\ stored[names[i]][request.file] # 0
               /\ request.file \in Shared \/ names[i] = request.build}

(* Network first: the answer of the origin, whatever it is, or, when there *)
(* is none, on to the caches.                                              *)
TryNetwork ==
  /\ request.state = "network"
  /\ request' = IF online THEN Answer("network", 0)
                ELSE [request EXCEPT !.state = "match", !.attempts = 1]
  /\ UNCHANGED <<deployed, online, page>> /\ UNCHANGED life

\* caches.match looks into the caches in the order of their creation.
FirstMatch(i) == \A j \in Matching : i <= j

(* caches.match found a response; or nothing, and retries are configured;  *)
(* or nothing, and they are not.                                           *)
TryCaches ==
  /\ request.state = "match"
  /\ \/ \E i \in Matching :
          FirstMatch(i) /\ request' = Answer("cache", names[i])
     \/ /\ Matching = {} /\ FetchRetries > 0
        /\ request' = [request EXCEPT !.state = "retry"]
     \/ /\ Matching = {} /\ FetchRetries = 0
        /\ request' = Answer("unavailable", 0)
  /\ UNCHANGED <<deployed, online, page>> /\ UNCHANGED life

\* A plausible slip: <= in place of < in the condition of the retry loop.
RetryOnceMore ==
  /\ request.state = "retry"
  /\ request' = IF online THEN Answer("network", 0)
                ELSE IF request.attempts = FetchRetries + 1
                THEN [Answer("unavailable", 0) EXCEPT !.attempts = @ + 1]
                ELSE [request EXCEPT !.attempts = @ + 1]
  /\ UNCHANGED <<deployed, online, page>> /\ UNCHANGED life

\* A plausible slip: retrying without ever giving up.
RetryForever ==
  /\ request.state = "retry"
  /\ request' = IF online THEN Answer("network", 0) ELSE request
  /\ UNCHANGED <<deployed, online, page>> /\ UNCHANGED life

(* After the back-off, one more attempt; the last one that fails is        *)
(* answered with a 503 response.                                           *)
Retry ==
  /\ request.state = "retry"
  /\ request' = IF online THEN Answer("network", 0)
                ELSE IF request.attempts = FetchRetries
                THEN [Answer("unavailable", 0) EXCEPT !.attempts = @ + 1]
                ELSE [request EXCEPT !.attempts = @ + 1]
  /\ UNCHANGED <<deployed, online, page>> /\ UNCHANGED life

-----------------------------------------------------------------------------
Install(v) ==
  \/ OpenCache(v)
  \/ \E f \in Files : CacheFile(v, f)
  \/ ReadBootConfig(v)
  \/ InstallEnds(v)

Activate(v) ==
  \/ ListCaches(v)
  \/ \E w \in Versions : DeleteCache(v, w)
  \/ Claim(v)

Fetch == TryNetwork \/ TryCaches \/ Retry

Next ==
  \/ Deploy \/ SwitchNetwork \/ OpenPage \/ ClosePage \/ Register \/ Update
  \/ \E v \in Versions : InstallAborted(v) \/ TryActivate(v) \/ Install(v) \/ Activate(v)
  \/ \E v \in Versions, f \in Files, b \in Versions : FetchEvent(v, f, b)
  \/ Fetch

Spec == Init /\ [][Next]_vars

(* The browser runs the handlers' callbacks; a fetch succeeds or fails     *)
(* some day.  Nothing is assumed of users, deployments and the network.    *)
Fairness ==
  /\ WF_vars(Fetch)
  /\ \A v \in Versions : WF_vars(Install(v)) /\ WF_vars(Activate(v))

FairSpec == Spec /\ Fairness
-----------------------------------------------------------------------------
TypeOK ==
  /\ deployed \in Versions /\ online \in BOOLEAN
  /\ page \in {"closed", "uncontrolled", "controlled"}
  /\ worker \in [Versions -> {"none", "installing", "waiting", "activating", "listed",
                              "active", "redundant"}]
  /\ stage \in [Versions -> {"none", "open", "offline", "framework", "ended"}]
  /\ todo \in [Versions -> SUBSET Files] /\ lost \in [Versions -> SUBSET Files]
  /\ names \in Seq(Versions)
  /\ stored \in [Versions -> [Files -> 0..NumVersions]]
  /\ doomed \in [Versions -> SUBSET Versions]
  /\ request.state \in {"none", "network", "match", "retry", "answered"}
  /\ request # NoRequest => request.attempts \in 0..(FetchRetries + 1)

(* Once a worker is active, every cache of an older build is gone, those   *)
(* of aborted and superseded installs included ("removes any old caches",  *)
(* service-worker.js:145-147), although the list of names was taken before *)
(* the deletions and other installs go on meanwhile.                       *)
NoOlderCacheOnceActive ==
  \A v \in Versions : worker[v] = "active" => \A i \in DOMAIN names : names[i] >= v

(* A worker that finished installing holds in its cache, if nobody deleted *)
(* it, every file it did not fail to get: the two pools are awaited before *)
(* the install event ends (service-worker.js:72-143).                      *)
InstalledHoldsFiles ==
  \A v \in Versions :
    worker[v] \in {"waiting", "activating", "listed", "active"} /\ Exists(v) =>
      \A f \in Files : stored[v][f] # 0 \/ f \in lost[v]

(* An answer taken from the caches comes from the answering worker's own   *)
(* cache whenever that one holds the request, although caches.match looks  *)
(* into every cache of the origin (service-worker.js:181).                 *)
HeldByOwnCache ==
  \E i \in Matching : names[i] = request.by

OwnCacheFirst ==
  [][request.state = "match" /\ request'.state = "answered" /\ HeldByOwnCache
     => request'.source = "cache" /\ request'.cache = request.by]_vars

(* Every fetch event gets a response, whatever the network does, unless    *)
(* the page goes away first.                                               *)
EveryFetchAnswered ==
  (request.state \in {"network", "match", "retry"}) ~> (request.state \in {"none", "answered"})

(* "This removes any old caches that might have been created by previous   *)
(* versions of the service worker" (service-worker.js:146-147): what an    *)
(* activation deletes belongs to a previous build.                         *)
DeletesPreviousOnly ==
  [][\A v \in Versions :
       (\E i \in DOMAIN names : names[i] = v) /\ ~(\E i \in DOMAIN names' : names'[i] = v)
         => \E w \in Versions : w > v /\ worker[w] = "listed"]_vars
=============================================================================
