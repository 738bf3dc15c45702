------------------------ MODULE ServiceWorkerProofs -------------------------
(***************************************************************************)
(* Theorems about ServiceWorker, for any number of builds and retries and  *)
(* any files: an active worker's build has no older cache beside it, an    *)
(* installed worker holds its files, and it answers from its own cache     *)
(* first.                                                                  *)
(*                                                                         *)
(* What carries them is an order nobody keeps: a build installs after all  *)
(* builds that got past their installation, so it is newer than they are,  *)
(* and the caches are created in the order of their builds, whatever is    *)
(* aborted, superseded or deleted in between.                              *)
(***************************************************************************)
EXTENDS ServiceWorker, SequenceTheorems, TLAPS

States == {"none", "installing", "waiting", "activating", "listed", "active", "redundant"}
Installed(v) == worker[v] \in {"waiting", "activating", "listed", "active"}

Types ==
  /\ deployed \in Versions /\ online \in BOOLEAN
  /\ page \in {"closed", "uncontrolled", "controlled"}
  /\ worker \in [Versions -> States]
  /\ stage \in [Versions -> {"none", "open", "offline", "framework", "ended"}]
  /\ todo \in [Versions -> SUBSET Files] /\ lost \in [Versions -> SUBSET Files]
  /\ names \in Seq(Versions)
  /\ stored \in [Versions -> [Files -> 0..NumVersions]]
  /\ doomed \in [Versions -> SUBSET Versions]

(* No build is ahead of the deployed one; at most one installs, and none   *)
(* that got past its install is newer.                                     *)
NewestInstalls ==
  /\ \A v \in Versions : worker[v] # "none" => v <= deployed
  /\ \A v, w \in Versions : Installed(v) /\ worker[w] = "installing" => v <= w
  /\ \A v, w \in Versions : worker[v] = "installing" /\ worker[w] = "installing" => v = w

(* Caches are created in the order of the builds, none by a build newer    *)
(* than the one that installs, and none twice.                             *)
NamesInOrder ==
  /\ \A i, j \in DOMAIN names : i < j => names[i] < names[j]
  /\ \A i \in DOMAIN names : names[i] <= deployed
  /\ \A w \in Versions : worker[w] = "installing" =>
       \A i \in DOMAIN names : names[i] <= w

\* What activation has left of the older caches is on its list.
OlderDoomed ==
  \A v \in Versions : worker[v] = "listed" =>
    \A i \in DOMAIN names : names[i] >= v \/ names[i] \in doomed[v]

Held(v, f) == stored[v][f] # 0 \/ f \in lost[v]

\* An install has dealt with what is no longer to do in the current pool.
DealtWith ==
  \A v \in Versions : worker[v] = "installing" /\ Exists(v) =>
    /\ stage[v] = "offline" => \A f \in OfflineFiles \ todo[v] : Held(v, f)
    /\ stage[v] = "framework" => \A f \in Files \ todo[v] : Held(v, f)

(* A request that is not answered is that of a controlled page, whose      *)
(* worker is the active one.                                               *)
Pending == request.state \in {"network", "match", "retry"}
RequestTyped ==
  /\ request.state \in {"none", "network", "match", "retry", "answered"}
  /\ request.state = "none" => request = NoRequest
  /\ Pending =>
       /\ request \in [state : {"network", "match", "retry"}, by : Versions, file : Files,
                       build : Versions, attempts : 0..FetchRetries + 1]
       /\ page = "controlled" /\ worker[request.by] = "active"
  /\ request.state = "match" => request.attempts = 1
  /\ request.state = "retry" => request.attempts \in 1..FetchRetries
  /\ request.state = "answered" => request.attempts \in 0..FetchRetries + 1

Inv ==
  /\ Types /\ NewestInstalls /\ NamesInOrder /\ OlderDoomed
  /\ DealtWith /\ RequestTyped
  /\ NoOlderCacheOnceActive /\ InstalledHoldsFiles
-----------------------------------------------------------------------------
LEMMA VersionsNumbered == Versions \subseteq Nat \ {0} /\ 1 \in Versions
BY WorkerAssumption DEF WorkerAssumption, Versions

LEMMA CachesNumbered ==
  ASSUME Types
  PROVE  /\ deployed \in Nat /\ Len(names) \in Nat /\ DOMAIN names = 1..Len(names)
         /\ \A i \in DOMAIN names : names[i] \in Versions /\ names[i] \in Nat
<1>1. names \in Seq(Versions) /\ deployed \in Versions
  BY DEF Types
<1>2. DOMAIN names = 1..Len(names) /\ Len(names) \in Nat
  BY <1>1
<1>3. \A i \in DOMAIN names : names[i] \in Versions
  BY <1>1, <1>2
<1> QED
  BY <1>1, <1>2, <1>3, VersionsNumbered

LEMMA InitInv == Init => Inv
<1> SUFFICES ASSUME Init PROVE Inv  OBVIOUS
<1> USE VersionsNumbered DEF Init
<1>1. Types
  <2>1. Nothing \in [Files -> 0..NumVersions]
    BY WorkerAssumption DEF WorkerAssumption, Nothing
  <2> QED
    BY <2>1 DEF Types, States
<1>2. NewestInstalls /\ OlderDoomed /\ DealtWith
  BY DEF NewestInstalls, OlderDoomed, DealtWith, Installed
<1>3. NamesInOrder
  BY DEF NamesInOrder
<1>4. RequestTyped
  BY DEF RequestTyped, Pending, NoRequest
<1>5. NoOlderCacheOnceActive /\ InstalledHoldsFiles
  BY DEF NoOlderCacheOnceActive, InstalledHoldsFiles
<1> QED
  BY <1>1, <1>2, <1>3, <1>4, <1>5 DEF Inv

\* A step of the environment or of a request leaves workers and caches alone.
LEMMA LifeKept ==
  ASSUME Inv, UNCHANGED life, deployed' \in Versions, deployed' >= deployed,
         online' \in BOOLEAN, page' \in {"closed", "uncontrolled", "controlled"},
         RequestTyped'
  PROVE  Inv'
<1>1. Types'
  BY DEF Inv, Types, life
<1>2. NewestInstalls'
  <2>1. /\ UNCHANGED worker /\ NewestInstalls
        /\ deployed \in Nat /\ deployed' \in Nat /\ \A v \in Versions : v \in Nat
    BY CachesNumbered, VersionsNumbered DEF life, Inv
  <2> QED
    BY <2>1 DEF NewestInstalls, Installed
<1>3. NamesInOrder'
  <2>1. /\ UNCHANGED <<names, worker>> /\ NamesInOrder
        /\ deployed \in Nat /\ deployed' \in Nat /\ \A i \in DOMAIN names : names[i] \in Nat
    BY CachesNumbered, VersionsNumbered DEF life, Inv
  <2> QED
    BY <2>1 DEF NamesInOrder
<1>4. OlderDoomed' /\ DealtWith'
  BY DEF Inv, OlderDoomed, DealtWith, Held, Exists, life
<1>5. NoOlderCacheOnceActive' /\ InstalledHoldsFiles'
  BY DEF Inv, NoOlderCacheOnceActive, InstalledHoldsFiles, Exists, life
<1> QED
  BY <1>1, <1>2, <1>3, <1>4, <1>5 DEF Inv

(* What leaves the build and the network alone too needs its own page and  *)
(* request only.                                                           *)
LEMMA RequestStep ==
  ASSUME Inv, UNCHANGED life, UNCHANGED <<deployed, online>>,
         page' \in {"closed", "uncontrolled", "controlled"}, RequestTyped'
  PROVE  Inv'
<1>1. deployed \in Versions /\ deployed \in Nat
  BY CachesNumbered DEF Inv, Types
<1>2. online' \in BOOLEAN
  BY Zenon DEF Inv, Types
<1> QED
  BY <1>1, <1>2, LifeKept

\* Deployments, the network, and pages that open.
LEMMA EnvironmentInv == Inv /\ (Deploy \/ SwitchNetwork \/ OpenPage) => Inv'
<1> USE VersionsNumbered
<1>1. CASE Inv /\ Deploy
  <2>1. deployed' \in Versions /\ deployed' >= deployed
    BY <1>1, WorkerAssumption DEF Deploy, Inv, Types, Versions, WorkerAssumption
  <2>2. RequestTyped'
    BY <1>1 DEF Deploy, life, Inv, RequestTyped, Pending
  <2> QED
    BY <1>1, <2>1, <2>2, LifeKept DEF Deploy, Inv, Types
<1>2. CASE Inv /\ SwitchNetwork
  <2>1. RequestTyped'
    BY <1>2 DEF SwitchNetwork, life, Inv, RequestTyped, Pending
  <2>2. online' \in BOOLEAN
    BY <1>2, Zenon DEF SwitchNetwork, Inv, Types
  <2> QED
    BY <1>2, <2>1, <2>2, LifeKept DEF SwitchNetwork, Inv, Types
<1>3. CASE Inv /\ OpenPage
  <2>1. RequestTyped'
    BY <1>3 DEF OpenPage, life, Inv, RequestTyped, Pending
  <2>2. page' \in {"closed", "uncontrolled", "controlled"}
    BY <1>3 DEF OpenPage
  <2> QED
    BY <1>3, <2>1, <2>2, LifeKept DEF OpenPage, Inv, Types
<1> QED
  BY <1>1, <1>2, <1>3

\* A page that is closed takes its request with it.
LEMMA ClosePageInv == Inv /\ ClosePage => Inv'
<1> SUFFICES ASSUME Inv, ClosePage PROVE Inv'  OBVIOUS
<1>1. RequestTyped'
  BY DEF ClosePage, RequestTyped, Pending, NoRequest
<1>2. UNCHANGED life /\ UNCHANGED <<deployed, online>> /\ page' = "closed"
  BY DEF ClosePage
<1> QED
  BY <1>1, <1>2, RequestStep

\* The fetch handler changes the request only.
LEMMA FetchEventInv ==
  ASSUME Inv, NEW v \in Versions, NEW f \in Files, NEW b \in Versions, FetchEvent(v, f, b)
  PROVE  Inv'
<1>1. UNCHANGED life /\ UNCHANGED <<deployed, online>> /\ page' = "controlled"
  BY DEF FetchEvent
<1>2. RequestTyped'
  <2>1. request' = [state |-> "network", by |-> v, file |-> f, build |-> b, attempts |-> 0]
    BY DEF FetchEvent
  <2>2. 0 \in 0..FetchRetries + 1
    BY WorkerAssumption DEF WorkerAssumption
  <2>3. page' = "controlled" /\ worker'[v] = "active"
    BY DEF FetchEvent, Active, life
  <2> QED
    BY <2>1, <2>2, <2>3 DEF RequestTyped, Pending
<1> QED
  BY <1>1, <1>2, RequestStep

\* An answer keeps the number of attempts.
LEMMA AnswerTyped ==
  ASSUME NEW source, NEW cache
  PROVE  /\ Answer(source, cache).state = "answered"
         /\ Answer(source, cache).attempts = request.attempts
         /\ Answer(source, cache).source = source
         /\ Answer(source, cache).cache = cache
BY DEF Answer

PendingRequests ==
  [state : {"network", "match", "retry"}, by : Versions, file : Files,
   build : Versions, attempts : 0..FetchRetries + 1]

LEMMA FetchInv == Inv /\ Fetch => Inv'
<1> SUFFICES ASSUME Inv, Fetch PROVE Inv'  OBVIOUS
<1>1. UNCHANGED <<deployed, online, page>> /\ UNCHANGED life
  BY DEF Fetch, TryNetwork, TryCaches, Retry
<1>2. /\ request \in PendingRequests
      /\ page' = "controlled" /\ worker'[request.by] = "active"
  <2>1. request.state \in {"network", "match", "retry"}
    BY DEF Fetch, TryNetwork, TryCaches, Retry
  <2> QED
    BY <1>1, <2>1 DEF Inv, RequestTyped, Pending, life, PendingRequests
<1>3. ASSUME NEW source, NEW cache, request' = Answer(source, cache) PROVE RequestTyped'
  <2>1. request.attempts \in 0..FetchRetries + 1
    BY <1>2 DEF PendingRequests
  <2> QED
    BY <2>1, <1>3, AnswerTyped DEF RequestTyped, Pending
<1>4. ASSUME request' \in PendingRequests, request'.by = request.by,
             request'.state = "match" => request'.attempts = 1,
             request'.state = "retry" => request'.attempts \in 1..FetchRetries
      PROVE  RequestTyped'
  BY <1>2, <1>4 DEF RequestTyped, Pending, PendingRequests
<1>5. RequestTyped'
  <2>1. CASE TryNetwork
    <3>1. CASE online
      BY <1>3, <2>1, <3>1 DEF TryNetwork
    <3>2. CASE ~online
      <4>1. request' = [request EXCEPT !.state = "match", !.attempts = 1]
        BY <2>1, <3>2 DEF TryNetwork
      <4>2. 1 \in 0..FetchRetries + 1
        BY WorkerAssumption DEF WorkerAssumption
      <4>3. /\ request' \in PendingRequests /\ request'.by = request.by
            /\ request'.state = "match" /\ request'.attempts = 1
        BY <1>2, <4>1, <4>2 DEF PendingRequests
      <4> QED
        BY <1>4, <4>3
    <3> QED
      BY <3>1, <3>2
  <2>2. CASE TryCaches
    <3>1. request.state = "match" /\ request.attempts = 1
      BY <2>2 DEF TryCaches, Inv, RequestTyped
    <3>2. CASE \E i \in Matching : request' = Answer("cache", names[i])
      BY <1>3, <3>2
    <3>3. CASE request' = Answer("unavailable", 0)
      BY <1>3, <3>3
    <3>4. CASE FetchRetries > 0 /\ request' = [request EXCEPT !.state = "retry"]
      <4>1. /\ request' \in PendingRequests /\ request'.by = request.by
            /\ request'.state = "retry" /\ request'.attempts = 1
        BY <1>2, <3>1, <3>4 DEF PendingRequests
      <4>2. 1 \in 1..FetchRetries
        BY <3>4, WorkerAssumption DEF WorkerAssumption
      <4> QED
        BY <1>4, <4>1, <4>2
    <3> QED
      BY <2>2, <3>2, <3>3, <3>4 DEF TryCaches
  <2>3. CASE Retry
    <3>1. /\ request.state = "retry" /\ request.attempts \in 1..FetchRetries
          /\ FetchRetries \in Nat
      BY <2>3, WorkerAssumption DEF Retry, Inv, RequestTyped, WorkerAssumption
    <3>2. CASE online
      BY <1>3, <2>3, <3>2 DEF Retry
    <3>3. CASE ~online /\ request.attempts = FetchRetries
      <4>1. request' = [Answer("unavailable", 0) EXCEPT !.attempts = @ + 1]
        BY <2>3, <3>3 DEF Retry
      <4>2. request'.state = "answered" /\ request'.attempts = FetchRetries + 1
        BY <3>3, <4>1 DEF Answer
      <4>3. FetchRetries + 1 \in 0..FetchRetries + 1
        BY <3>1
      <4> QED
        BY <4>2, <4>3 DEF RequestTyped, Pending
    <3>4. CASE ~online /\ request.attempts # FetchRetries
      <4>1. request' = [request EXCEPT !.attempts = @ + 1]
        BY <2>3, <3>4 DEF Retry
      <4>2. /\ request.attempts + 1 \in 1..FetchRetries
            /\ request.attempts + 1 \in 0..FetchRetries + 1
        BY <3>1, <3>4
      <4>3. /\ request' \in PendingRequests /\ request'.by = request.by
            /\ request'.state = "retry" /\ request'.attempts = request.attempts + 1
        BY <1>2, <3>1, <4>1, <4>2 DEF PendingRequests
      <4> QED
        BY <1>4, <4>2, <4>3
    <3> QED
      BY <3>2, <3>3, <3>4
  <2> QED
    BY <2>1, <2>2, <2>3 DEF Fetch
<1> QED
  BY <1>1, <1>2, <1>5, RequestStep
-----------------------------------------------------------------------------
(* The browser's part of a worker's life.                                  *)

\* The worker of a pending request stays the active one.
LEMMA RequestKept ==
  ASSUME Inv, UNCHANGED request, page = "controlled" => page' = "controlled",
         \A w \in Versions : page = "controlled" /\ worker[w] = "active" => worker'[w] = "active"
  PROVE  RequestTyped'
BY DEF Inv, RequestTyped, Pending

(* The deployed build installs: no other build installs, and all that ever *)
(* did are older.                                                          *)
LEMMA BeginInstallInv == Inv /\ BeginInstall => Inv'
<1> SUFFICES ASSUME Inv, BeginInstall PROVE Inv'  OBVIOUS
<1>1. /\ deployed \in Versions /\ worker[deployed] \in {"none", "redundant"}
      /\ \A v \in Versions : worker[v] # "installing"
      /\ worker' = [worker EXCEPT ![deployed] = "installing"]
      /\ stage' = [stage EXCEPT ![deployed] = "open"]
      /\ todo' = [todo EXCEPT ![deployed] = {}]
      /\ lost' = [lost EXCEPT ![deployed] = {}]
      /\ UNCHANGED <<deployed, online, page, names, stored, doomed, request>>
  BY DEF BeginInstall, Inv, Types
<1>2. /\ worker \in [Versions -> States]
      /\ stage \in [Versions -> {"none", "open", "offline", "framework", "ended"}]
      /\ todo \in [Versions -> SUBSET Files] /\ lost \in [Versions -> SUBSET Files]
  BY DEF Inv, Types
<1>3. \A v \in Versions : worker'[v] = IF v = deployed THEN "installing" ELSE worker[v]
  BY <1>1, <1>2
<1>4. Types'
  <2>1. /\ worker' \in [Versions -> States]
        /\ stage' \in [Versions -> {"none", "open", "offline", "framework", "ended"}]
        /\ todo' \in [Versions -> SUBSET Files] /\ lost' \in [Versions -> SUBSET Files]
    BY <1>1, <1>2 DEF States
  <2>2. online' \in BOOLEAN
    BY <1>1, Zenon DEF Inv, Types
  <2> QED
    BY <1>1, <2>1, <2>2 DEF Inv, Types
<1>5. NewestInstalls'
  <2>1. deployed \in Nat /\ deployed' = deployed
    BY <1>1, CachesNumbered DEF Inv
  <2> QED
    BY <1>1, <1>3, <2>1 DEF Inv, NewestInstalls, Installed
<1>6. NamesInOrder'
  <2>1. UNCHANGED <<names, deployed>>
    BY <1>1
  <2> QED
    BY <1>1, <1>3, <2>1 DEF Inv, NamesInOrder
<1>7. OlderDoomed' /\ DealtWith'
  BY <1>1, <1>2, <1>3 DEF Inv, OlderDoomed, DealtWith, Held, Exists
<1>8. RequestTyped'
  BY <1>1, <1>3, RequestKept
<1>9. NoOlderCacheOnceActive'
  BY <1>1, <1>3 DEF Inv, NoOlderCacheOnceActive
<1>10. InstalledHoldsFiles'
  BY <1>1, <1>2, <1>3 DEF Inv, InstalledHoldsFiles, Exists
<1> QED
  BY <1>4, <1>5, <1>6, <1>7, <1>8, <1>9, <1>10 DEF Inv

\* A worker that is given up installs no longer, and its cache stays.
LEMMA InstallAbortedInv ==
  ASSUME Inv, NEW v \in Versions, InstallAborted(v)
  PROVE  Inv'
<1>1. /\ worker[v] = "installing" /\ worker \in [Versions -> States]
      /\ worker' = [worker EXCEPT ![v] = "redundant"]
      /\ UNCHANGED <<deployed, online, page, stage, todo, lost, names, stored, doomed, request>>
  BY DEF InstallAborted, Inv, Types
<1>2. \A w \in Versions : worker'[w] = IF w = v THEN "redundant" ELSE worker[w]
  BY <1>1
<1>3. Types'
  <2>1. worker' \in [Versions -> States]
    BY <1>1 DEF States
  <2>2. online' \in BOOLEAN
    BY <1>1, Zenon DEF Inv, Types
  <2> QED
    BY <1>1, <2>1, <2>2 DEF Inv, Types
<1>4. NewestInstalls'
  BY <1>1, <1>2 DEF Inv, NewestInstalls, Installed
<1>5. NamesInOrder'
  BY <1>1, <1>2 DEF Inv, NamesInOrder
<1>6. OlderDoomed' /\ DealtWith'
  BY <1>1, <1>2 DEF Inv, OlderDoomed, DealtWith, Held, Exists
<1>7. RequestTyped'
  BY <1>1, <1>2, RequestKept
<1>8. NoOlderCacheOnceActive' /\ InstalledHoldsFiles'
  BY <1>1, <1>2 DEF Inv, NoOlderCacheOnceActive, InstalledHoldsFiles, Exists
<1> QED
  BY <1>3, <1>4, <1>5, <1>6, <1>7, <1>8 DEF Inv

(* A worker takes over when no page is controlled by the active one, so no *)
(* request is pending.                                                     *)
LEMMA TryActivateInv ==
  ASSUME Inv, NEW v \in Versions, TryActivate(v)
  PROVE  Inv'
<1>1. /\ worker[v] = "waiting" /\ worker \in [Versions -> States]
      /\ (\E w \in Versions : worker[w] = "active") => page # "controlled"
      /\ worker' = [w \in Versions |-> IF w = v THEN "activating"
                                       ELSE IF worker[w] = "active" THEN "redundant"
                                       ELSE worker[w]]
      /\ UNCHANGED <<deployed, online, page, stage, todo, lost, names, stored, doomed, request>>
  BY DEF TryActivate, Inv, Types
<1>2. \A w \in Versions : worker'[w] = IF w = v THEN "activating"
                                       ELSE IF worker[w] = "active" THEN "redundant"
                                       ELSE worker[w]
  BY <1>1
<1>3. Types'
  <2>1. worker' \in [Versions -> States]
    BY <1>1 DEF States
  <2>2. online' \in BOOLEAN
    BY <1>1, Zenon DEF Inv, Types
  <2> QED
    BY <1>1, <2>1, <2>2 DEF Inv, Types
<1>4. NewestInstalls'
  BY <1>1, <1>2 DEF Inv, NewestInstalls, Installed
<1>5. NamesInOrder'
  BY <1>1, <1>2 DEF Inv, NamesInOrder
<1>6. OlderDoomed' /\ DealtWith'
  BY <1>1, <1>2 DEF Inv, OlderDoomed, DealtWith, Held, Exists
<1>7. RequestTyped'
  BY <1>1, <1>2, RequestKept
<1>8. NoOlderCacheOnceActive'
  BY <1>1, <1>2 DEF Inv, NoOlderCacheOnceActive
<1>9. InstalledHoldsFiles'
  BY <1>1, <1>2 DEF Inv, InstalledHoldsFiles, Exists
<1> QED
  BY <1>3, <1>4, <1>5, <1>6, <1>7, <1>8, <1>9 DEF Inv
-----------------------------------------------------------------------------
(* The install handler.                                                    *)

\* The new cache is that of a build newer than all that have one.
LEMMA OpenCacheInv ==
  ASSUME Inv, NEW v \in Versions, OpenCache(v)
  PROVE  Inv'
<1>1. /\ worker[v] = "installing" /\ stage[v] = "open"
      /\ names' = IF Exists(v) THEN names ELSE Append(names, v)
      /\ stage' = [stage EXCEPT ![v] = "offline"]
      /\ todo' = [todo EXCEPT ![v] = OfflineFiles]
      /\ UNCHANGED <<deployed, online, page, worker, lost, stored, doomed, request>>
  BY DEF OpenCache, Installing, Exists
<1>2. /\ stage \in [Versions -> {"none", "open", "offline", "framework", "ended"}]
      /\ todo \in [Versions -> SUBSET Files] /\ names \in Seq(Versions)
  BY DEF Inv, Types
<1>3. /\ Len(names) \in Nat /\ DOMAIN names = 1..Len(names)
      /\ \A i \in DOMAIN names : names[i] \in Versions /\ names[i] \in Nat
  BY CachesNumbered DEF Inv
<1>4. /\ v \in Nat /\ v <= deployed /\ \A i \in DOMAIN names : names[i] <= v
  BY <1>1, VersionsNumbered DEF Inv, NewestInstalls, NamesInOrder
\* The caches after the step: those before it, and v's at the end.
<1>5. \/ Exists(v) /\ names' = names
      \/ /\ ~Exists(v) /\ DOMAIN names' = 1..Len(names) + 1
         /\ \A i \in DOMAIN names : names'[i] = names[i]
         /\ names'[Len(names) + 1] = v
  <2>1. CASE Exists(v)
    BY <1>1, <2>1
  <2>2. CASE ~Exists(v)
    <3>1. names' = Append(names, v)
      BY <1>1, <2>2
    <3>2. /\ DOMAIN names' = 1..Len(names) + 1 /\ names'[Len(names) + 1] = v
          /\ \A i \in 1..Len(names) : names'[i] = names[i]
      BY <1>2, <1>3, <3>1
    <3> QED
      BY <1>3, <2>2, <3>2
  <2> QED
    BY <2>1, <2>2
<1>6. \A i \in DOMAIN names' : (i \in DOMAIN names /\ names'[i] = names[i]) \/ names'[i] = v
  BY <1>3, <1>5
<1>7. Types'
  <2>1. /\ stage' \in [Versions -> {"none", "open", "offline", "framework", "ended"}]
        /\ todo' \in [Versions -> SUBSET Files] /\ names' \in Seq(Versions)
    BY <1>1, <1>2 DEF Files
  <2>2. online' \in BOOLEAN
    BY <1>1, Zenon DEF Inv, Types
  <2> QED
    BY <1>1, <2>1, <2>2 DEF Inv, Types
<1>8. NewestInstalls'
  BY <1>1 DEF Inv, NewestInstalls, Installed
<1>9. NamesInOrder'
  <2>1. \A i, j \in DOMAIN names' : i < j => names'[i] < names'[j]
    <3>1. CASE names' = names
      BY <3>1 DEF Inv, NamesInOrder
    <3>2. CASE ~Exists(v)
      <4>1. \A i \in DOMAIN names : names[i] < v
        BY <1>3, <1>4, <3>2 DEF Exists
      <4>2. \A i, j \in DOMAIN names : i < j => names[i] < names[j]
        BY DEF Inv, NamesInOrder
      <4> QED
        BY <1>3, <1>5, <3>2, <4>1, <4>2
    <3> QED
      BY <1>5, <3>1, <3>2
  <2>2. \A i \in DOMAIN names' : names'[i] <= deployed'
    BY <1>1, <1>4, <1>6 DEF Inv, NamesInOrder
  <2>3. \A w \in Versions : worker'[w] = "installing" =>
          \A i \in DOMAIN names' : names'[i] <= w
    <3>1. \A w \in Versions : worker'[w] = "installing" => w = v
      BY <1>1 DEF Inv, NewestInstalls
    <3> QED
      BY <1>4, <1>6, <3>1
  <2> QED
    BY <2>1, <2>2, <2>3 DEF NamesInOrder
<1>10. \A w \in Versions : Installed(w) => w <= v
  BY <1>1 DEF Inv, NewestInstalls
<1>11. OlderDoomed'
  BY <1>1, <1>6, <1>10 DEF Inv, OlderDoomed, Installed
<1>12. DealtWith'
  <2>1. \A w \in Versions : worker'[w] = "installing" => w = v
    BY <1>1 DEF Inv, NewestInstalls
  <2>2. stage'[v] = "offline" /\ todo'[v] = OfflineFiles
    BY <1>1, <1>2
  <2> QED
    BY <2>1, <2>2 DEF DealtWith
<1>13. RequestTyped'
  BY <1>1, RequestKept
<1>14. NoOlderCacheOnceActive'
  BY <1>1, <1>6, <1>10 DEF Inv, NoOlderCacheOnceActive, Installed
<1>15. InstalledHoldsFiles'
  BY <1>1, <1>6 DEF Inv, InstalledHoldsFiles, Exists
<1> QED
  BY <1>7, <1>8, <1>9, <1>11, <1>12, <1>13, <1>14, <1>15 DEF Inv

(* What an install does to its own stage, files and losses disturbs no     *)
(* other build: nothing but Types and DealtWith is left to show.           *)
LEMMA InstallStep ==
  ASSUME Inv, NEW v \in Versions, worker[v] = "installing",
         UNCHANGED <<deployed, online, page, worker, names, doomed, request>>,
         stage' \in [Versions -> {"none", "open", "offline", "framework", "ended"}],
         todo' \in [Versions -> SUBSET Files], lost' \in [Versions -> SUBSET Files],
         stored' \in [Versions -> [Files -> 0..NumVersions]],
         \A w \in Versions \ {v} : lost'[w] = lost[w] /\ stored'[w] = stored[w],
         Exists(v) => /\ stage'[v] = "offline" =>
                           \A f \in OfflineFiles \ todo'[v] : Held(v, f)'
                      /\ stage'[v] = "framework" =>
                           \A f \in Files \ todo'[v] : Held(v, f)'
  PROVE  Inv'
<1>1. Types'
  <2>1. online' \in BOOLEAN
    BY Zenon DEF Inv, Types
  <2> QED
    BY <2>1 DEF Inv, Types
<1>2. NewestInstalls' /\ NamesInOrder'
  BY DEF Inv, NewestInstalls, NamesInOrder, Installed
<1>3. OlderDoomed' /\ NoOlderCacheOnceActive'
  BY DEF Inv, OlderDoomed, NoOlderCacheOnceActive
<1>4. DealtWith'
  <2>1. \A w \in Versions : worker'[w] = "installing" => w = v
    BY DEF Inv, NewestInstalls
  <2> QED
    BY <2>1 DEF DealtWith, Exists, Held
<1>5. InstalledHoldsFiles'
  BY DEF Inv, InstalledHoldsFiles, Exists
<1>6. RequestTyped'
  BY RequestKept
<1> QED
  BY <1>1, <1>2, <1>3, <1>4, <1>5, <1>6 DEF Inv

\* A file is stored under the build that is served, or lost.
LEMMA CacheFileInv ==
  ASSUME Inv, NEW v \in Versions, NEW f \in Files, CacheFile(v, f)
  PROVE  Inv'
<1>1. /\ worker[v] = "installing" /\ todo' = [todo EXCEPT ![v] = @ \ {f}]
      /\ UNCHANGED <<deployed, online, page, worker, stage, names, doomed, request>>
  BY DEF CacheFile
<1>2. /\ todo \in [Versions -> SUBSET Files] /\ lost \in [Versions -> SUBSET Files]
      /\ stage \in [Versions -> {"none", "open", "offline", "framework", "ended"}]
      /\ stored \in [Versions -> [Files -> 0..NumVersions]]
  BY DEF Inv, Types
<1>3. deployed \in 1..NumVersions /\ deployed \in 0..NumVersions /\ deployed # 0
  BY VersionsNumbered DEF Inv, Types, Versions
<1>4. \/ /\ lost' = lost
         /\ stored' = IF Exists(v) THEN [stored EXCEPT ![v][f] = deployed] ELSE stored
      \/ lost' = [lost EXCEPT ![v] = @ \cup {f}] /\ stored' = stored
  BY DEF CacheFile
<1>5. /\ stored' \in [Versions -> [Files -> 0..NumVersions]]
      /\ lost' \in [Versions -> SUBSET Files] /\ todo' \in [Versions -> SUBSET Files]
  <2>1. [stored[v] EXCEPT ![f] = deployed] \in [Files -> 0..NumVersions]
    BY <1>2, <1>3
  <2>2. [stored EXCEPT ![v][f] = deployed] \in [Versions -> [Files -> 0..NumVersions]]
    BY <1>2, <2>1
  <2>3. lost[v] \cup {f} \in SUBSET Files /\ todo[v] \ {f} \in SUBSET Files
    BY <1>2
  <2>4. /\ [lost EXCEPT ![v] = @ \cup {f}] \in [Versions -> SUBSET Files]
        /\ [todo EXCEPT ![v] = @ \ {f}] \in [Versions -> SUBSET Files]
    BY <1>2, <2>3
  <2> QED
    BY <1>1, <1>2, <1>4, <2>2, <2>4
<1>6. \A w \in Versions \ {v} : lost'[w] = lost[w] /\ stored'[w] = stored[w]
  BY <1>2, <1>4
<1>7. \A g \in Files : Held(v, g) => Held(v, g)'
  BY <1>2, <1>3, <1>4 DEF Held
<1>8. Exists(v) => Held(v, f)'
  BY <1>2, <1>3, <1>4 DEF Held
<1>9. todo'[v] = todo[v] \ {f} /\ stage'[v] = stage[v]
  BY <1>1, <1>2
<1>10. Exists(v) => /\ stage'[v] = "offline" =>
                         \A g \in OfflineFiles \ todo'[v] : Held(v, g)'
                    /\ stage'[v] = "framework" =>
                         \A g \in Files \ todo'[v] : Held(v, g)'
  <2> SUFFICES ASSUME Exists(v)
               PROVE  /\ stage[v] = "offline" =>
                           \A g \in OfflineFiles \ todo'[v] : Held(v, g)'
                      /\ stage[v] = "framework" =>
                           \A g \in Files \ todo'[v] : Held(v, g)'
    BY <1>9
  <2>1. /\ stage[v] = "offline" => \A g \in OfflineFiles \ todo[v] : Held(v, g)
        /\ stage[v] = "framework" => \A g \in Files \ todo[v] : Held(v, g)
    BY <1>1 DEF Inv, DealtWith
  <2>2. \A g \in Files \ todo'[v] : g \in Files \ todo[v] \/ g = f
    BY <1>9
  <2>3. OfflineFiles \subseteq Files
    BY DEF Files
  <2> QED
    BY <1>7, <1>8, <2>1, <2>2, <2>3
<1> QED
  BY <1>1, <1>2, <1>5, <1>6, <1>10, InstallStep

\* The offline files are dealt with; the framework files are to do, or lost.
LEMMA ReadBootConfigInv ==
  ASSUME Inv, NEW v \in Versions, ReadBootConfig(v)
  PROVE  Inv'
<1>1. /\ worker[v] = "installing" /\ stage[v] = "offline" /\ todo[v] = {}
      /\ stage' = [stage EXCEPT ![v] = "framework"]
      /\ UNCHANGED <<deployed, online, page, worker, names, stored, doomed, request>>
  BY DEF ReadBootConfig, Installing
<1>2. /\ todo \in [Versions -> SUBSET Files] /\ lost \in [Versions -> SUBSET Files]
      /\ stage \in [Versions -> {"none", "open", "offline", "framework", "ended"}]
      /\ stored \in [Versions -> [Files -> 0..NumVersions]]
  BY DEF Inv, Types
<1>3. \/ todo' = [todo EXCEPT ![v] = FrameworkFiles] /\ lost' = lost
      \/ lost' = [lost EXCEPT ![v] = @ \cup FrameworkFiles] /\ todo' = todo
  BY DEF ReadBootConfig
<1>4. /\ stage' \in [Versions -> {"none", "open", "offline", "framework", "ended"}]
      /\ lost' \in [Versions -> SUBSET Files] /\ todo' \in [Versions -> SUBSET Files]
  BY <1>1, <1>2, <1>3 DEF Files
<1>5. \A w \in Versions \ {v} : lost'[w] = lost[w] /\ stored'[w] = stored[w]
  BY <1>1, <1>2, <1>3
<1>6. Exists(v) => \A g \in Files \ todo'[v] : Held(v, g)'
  <2>1. Exists(v) => \A g \in OfflineFiles : Held(v, g)
    BY <1>1 DEF Inv, DealtWith
  <2>2. \A g \in Files : Held(v, g) => Held(v, g)'
    BY <1>1, <1>2, <1>3 DEF Held
  <2>3. \A g \in FrameworkFiles \ todo'[v] : Held(v, g)'
    BY <1>1, <1>2, <1>3 DEF Held
  <2> QED
    BY <2>1, <2>2, <2>3 DEF Files
<1>7. stage'[v] = "framework"
  BY <1>1, <1>2
<1> QED
  BY <1>1, <1>2, <1>4, <1>5, <1>6, <1>7, InstallStep

(* Both pools are awaited: nothing is to do any more, so that every file   *)
(* is held or lost.                                                        *)
LEMMA InstallEndsInv ==
  ASSUME Inv, NEW v \in Versions, InstallEnds(v)
  PROVE  Inv'
<1>1. /\ worker[v] = "installing" /\ stage[v] = "framework" /\ todo[v] = {}
      /\ worker \in [Versions -> States]
      /\ worker' = [w \in Versions |-> IF w = v THEN "waiting"
                                       ELSE IF worker[w] = "waiting" THEN "redundant"
                                       ELSE worker[w]]
      /\ stage' = [stage EXCEPT ![v] = "ended"]
      /\ UNCHANGED <<deployed, online, page, todo, lost, names, stored, doomed, request>>
  BY DEF InstallEnds, Installing, Inv, Types
<1>2. \A w \in Versions : worker'[w] = IF w = v THEN "waiting"
                                       ELSE IF worker[w] = "waiting" THEN "redundant"
                                       ELSE worker[w]
  BY <1>1
<1>3. stage \in [Versions -> {"none", "open", "offline", "framework", "ended"}]
  BY DEF Inv, Types
<1>4. Types'
  <2>1. /\ worker' \in [Versions -> States]
        /\ stage' \in [Versions -> {"none", "open", "offline", "framework", "ended"}]
    BY <1>1, <1>3 DEF States
  <2>2. online' \in BOOLEAN
    BY <1>1, Zenon DEF Inv, Types
  <2> QED
    BY <1>1, <2>1, <2>2 DEF Inv, Types
<1>5. \A w \in Versions : worker'[w] # "installing"
  BY <1>1, <1>2 DEF Inv, NewestInstalls
<1>6. NewestInstalls'
  <2>1. \A w \in Versions : worker'[w] # "none" => worker[w] # "none"
    BY <1>1, <1>2
  <2>2. deployed' = deployed
    BY <1>1
  <2> QED
    BY <1>5, <2>1, <2>2 DEF Inv, NewestInstalls, Installed
<1>7. NamesInOrder'
  BY <1>1, <1>5 DEF Inv, NamesInOrder
<1>8. OlderDoomed' /\ DealtWith'
  BY <1>1, <1>2, <1>5 DEF Inv, OlderDoomed, DealtWith
<1>9. RequestTyped'
  BY <1>1, <1>2, RequestKept
<1>10. NoOlderCacheOnceActive'
  BY <1>1, <1>2 DEF Inv, NoOlderCacheOnceActive
<1>11. InstalledHoldsFiles'
  <2>1. Exists(v) => \A f \in Files : stored[v][f] # 0 \/ f \in lost[v]
    BY <1>1 DEF Inv, DealtWith, Held
  <2> QED
    BY <1>1, <1>2, <2>1 DEF Inv, InstalledHoldsFiles, Exists
<1> QED
  BY <1>4, <1>6, <1>7, <1>8, <1>9, <1>10, <1>11 DEF Inv
-----------------------------------------------------------------------------
(* The activate handler.                                                   *)

\* The listed caches cover the older ones.
LEMMA ListCachesInv ==
  ASSUME Inv, NEW v \in Versions, ListCaches(v)
  PROVE  Inv'
<1>1. /\ worker[v] = "activating" /\ worker \in [Versions -> States]
      /\ worker' = [worker EXCEPT ![v] = "listed"]
      /\ doomed' = [doomed EXCEPT ![v] = NamesToDelete(v)]
      /\ doomed \in [Versions -> SUBSET Versions]
      /\ UNCHANGED <<deployed, online, page, stage, todo, lost, names, stored, request>>
  BY DEF ListCaches, Inv, Types
<1>2. \A w \in Versions : worker'[w] = IF w = v THEN "listed" ELSE worker[w]
  BY <1>1
<1>3. \A i \in DOMAIN names : names[i] \in Versions
  BY CachesNumbered DEF Inv
<1>4. Types'
  <2>1. worker' \in [Versions -> States]
    BY <1>1 DEF States
  <2>2. NamesToDelete(v) \in SUBSET Versions
    BY <1>3 DEF NamesToDelete
  <2>3. doomed' \in [Versions -> SUBSET Versions]
    BY <1>1, <2>2
  <2>4. online' \in BOOLEAN
    BY <1>1, Zenon DEF Inv, Types
  <2> QED
    BY <1>1, <2>1, <2>3, <2>4 DEF Inv, Types
<1>5. NewestInstalls'
  BY <1>1, <1>2 DEF Inv, NewestInstalls, Installed
<1>6. NamesInOrder'
  BY <1>1, <1>2 DEF Inv, NamesInOrder
<1>7. OlderDoomed'
  <2>1. \A i \in DOMAIN names : names[i] = v \/ names[i] \in doomed'[v]
    BY <1>1 DEF NamesToDelete
  <2>2. v >= v
    BY VersionsNumbered
  <2> QED
    BY <1>1, <1>2, <2>1, <2>2 DEF Inv, OlderDoomed
<1>8. DealtWith'
  BY <1>1, <1>2 DEF Inv, DealtWith, Held, Exists
<1>9. RequestTyped'
  BY <1>1, <1>2, RequestKept
<1>10. NoOlderCacheOnceActive'
  BY <1>1, <1>2 DEF Inv, NoOlderCacheOnceActive
<1>11. InstalledHoldsFiles'
  BY <1>1, <1>2 DEF Inv, InstalledHoldsFiles, Exists
<1> QED
  BY <1>4, <1>5, <1>6, <1>7, <1>8, <1>9, <1>10, <1>11 DEF Inv

\* A deletion takes one name away and keeps the order of the others.
LEMMA RemoveNameKeepsOrder ==
  ASSUME Types, NEW w \in Versions, RemoveName(w),
         \A i, j \in DOMAIN names : i < j => names[i] < names[j]
  PROVE  /\ names' \in Seq(Versions)
         /\ \A i, j \in DOMAIN names' : i < j => names'[i] < names'[j]
         /\ \A i \in DOMAIN names' : names'[i] # w /\ \E k \in DOMAIN names : names'[i] = names[k]
<1>1. names \in Seq(Versions)
  BY DEF Types
<1>2. /\ Len(names) \in Nat /\ DOMAIN names = 1..Len(names)
      /\ \A i \in DOMAIN names : names[i] \in Versions /\ names[i] \in Nat
  BY CachesNumbered
<1>3. CASE ~Exists(w) /\ names' = names
  BY <1>1, <1>3 DEF Exists
<1>4. ASSUME NEW k \in DOMAIN names, names[k] = w,
             names' = SubSeq(names, 1, k - 1) \o SubSeq(names, k + 1, Len(names))
      PROVE  /\ names' \in Seq(Versions)
             /\ \A i, j \in DOMAIN names' : i < j => names'[i] < names'[j]
             /\ \A i \in DOMAIN names' :
                  names'[i] # w /\ \E n \in DOMAIN names : names'[i] = names[n]
  <2> DEFINE before == SubSeq(names, 1, k - 1)
             after == SubSeq(names, k + 1, Len(names))
  <2>1. k \in 1..Len(names)
    BY <1>2
  <2>2. /\ before \in Seq(Versions) /\ Len(before) = k - 1
        /\ \A i \in 1..k - 1 : before[i] = names[i]
    BY <1>1, <1>2, <2>1
  <2>3. /\ after \in Seq(Versions) /\ Len(after) = Len(names) - k
        /\ \A i \in 1..Len(names) - k : after[i] = names[k + i]
    BY <1>1, <1>2, <2>1
  <2> HIDE DEF before, after
  <2>4. names' = before \o after
    BY <1>4 DEF before, after
  <2>5. /\ names' \in Seq(Versions) /\ Len(names') = Len(names) - 1
        /\ DOMAIN names' = 1..Len(names) - 1
    <3>1. /\ before \o after \in Seq(Versions)
          /\ Len(before \o after) = Len(before) + Len(after)
      BY <2>2, <2>3, ConcatProperties
    <3>2. Len(names') = Len(names) - 1
      BY <1>2, <2>1, <2>2, <2>3, <2>4, <3>1
    <3> QED
      BY <2>4, <3>1, <3>2
  <2>6. \A i \in 1..Len(names) - 1 :
          names'[i] = IF i < k THEN names[i] ELSE names[i + 1]
    <3> SUFFICES ASSUME NEW i \in 1..Len(names) - 1
                 PROVE  names'[i] = IF i < k THEN names[i] ELSE names[i + 1]
      OBVIOUS
    <3>1. names'[i] = IF i <= Len(before) THEN before[i] ELSE after[i - Len(before)]
      <4>1. Len(before) + Len(after) = Len(names) - 1
        BY <1>2, <2>1, <2>2, <2>3
      <4>2. \A n \in 1..Len(before) + Len(after) :
              (before \o after)[n] = IF n <= Len(before) THEN before[n]
                                     ELSE after[n - Len(before)]
        BY <2>2, <2>3, ConcatProperties
      <4> QED
        BY <2>4, <4>1, <4>2
    <3>2. CASE i < k
      BY <1>2, <2>1, <2>2, <3>1, <3>2
    <3>3. CASE ~(i < k)
      <4>1. i - (k - 1) \in 1..Len(names) - k /\ ~(i <= k - 1) /\ k + (i - (k - 1)) = i + 1
        BY <1>2, <2>1, <3>3
      <4>2. after[i - (k - 1)] = names[i + 1]
        BY <2>3, <4>1
      <4> QED
        BY <2>2, <3>1, <3>3, <4>1, <4>2
    <3> QED
      BY <3>2, <3>3
  <2>7. \A i \in DOMAIN names' :
          names'[i] # w /\ \E n \in DOMAIN names : names'[i] = names[n]
    <3> SUFFICES ASSUME NEW i \in 1..Len(names) - 1
                 PROVE  names'[i] # w /\ \E n \in DOMAIN names : names'[i] = names[n]
      BY <2>5
    <3>1. CASE i < k
      <4>1. i \in DOMAIN names /\ names'[i] = names[i]
        BY <1>2, <2>6, <3>1
      <4>2. names[i] < names[k]
        BY <3>1, <4>1
      <4>3. names[i] \in Nat /\ names[k] \in Nat
        BY <1>2, <4>1
      <4>4. names[i] # w
        BY <1>4, <4>2, <4>3
      <4> QED
        BY <4>1, <4>4
    <3>2. CASE ~(i < k)
      <4>1. i + 1 \in DOMAIN names /\ k < i + 1 /\ names'[i] = names[i + 1]
        BY <1>2, <2>1, <2>6, <3>2
      <4>2. names[k] < names[i + 1]
        BY <4>1
      <4>3. names[i + 1] \in Nat /\ names[k] \in Nat
        BY <1>2, <4>1
      <4>4. names[i + 1] # w
        BY <1>4, <4>2, <4>3
      <4> QED
        BY <4>1, <4>4
    <3> QED
      BY <3>1, <3>2
  <2>8. \A i, j \in DOMAIN names' : i < j => names'[i] < names'[j]
    <3> SUFFICES ASSUME NEW i \in 1..Len(names) - 1, NEW j \in 1..Len(names) - 1, i < j
                 PROVE  names'[i] < names'[j]
      BY <2>5
    <3> DEFINE p == IF i < k THEN i ELSE i + 1
               q == IF j < k THEN j ELSE j + 1
    <3>1. p \in DOMAIN names /\ q \in DOMAIN names /\ p < q
      BY <1>2, <2>1
    <3>2. names'[i] = names[p] /\ names'[j] = names[q]
      BY <2>6
    <3> QED
      BY <3>1, <3>2
  <2> QED
    BY <2>5, <2>7, <2>8
<1> QED
  BY <1>3, <1>4 DEF RemoveName

\* What is deleted is on the list, and is no longer a cache.
LEMMA DeleteCacheInv ==
  ASSUME Inv, NEW v \in Versions, NEW w \in Versions, DeleteCache(v, w)
  PROVE  Inv'
<1>1. /\ doomed' = [doomed EXCEPT ![v] = @ \ {w}]
      /\ doomed \in [Versions -> SUBSET Versions]
      /\ stored' = [stored EXCEPT ![w] = Nothing]
      /\ stored \in [Versions -> [Files -> 0..NumVersions]]
      /\ UNCHANGED <<deployed, online, page, worker, stage, todo, lost, request>>
  BY DEF DeleteCache, Inv, Types
<1>2. /\ names' \in Seq(Versions)
      /\ \A i, j \in DOMAIN names' : i < j => names'[i] < names'[j]
      /\ \A i \in DOMAIN names' : names'[i] # w /\ \E k \in DOMAIN names : names'[i] = names[k]
  BY RemoveNameKeepsOrder DEF DeleteCache, Inv, NamesInOrder
<1>3. \A u \in Versions : Exists(u)' => Exists(u) /\ u # w
  BY <1>2 DEF Exists
<1>4. Types'
  <2>1. Nothing \in [Files -> 0..NumVersions]
    BY WorkerAssumption DEF WorkerAssumption, Nothing
  <2>2. /\ doomed' \in [Versions -> SUBSET Versions]
        /\ stored' \in [Versions -> [Files -> 0..NumVersions]]
    BY <1>1, <2>1
  <2>3. online' \in BOOLEAN
    BY <1>1, Zenon DEF Inv, Types
  <2> QED
    BY <1>1, <1>2, <2>2, <2>3 DEF Inv, Types
<1>5. NewestInstalls'
  BY <1>1 DEF Inv, NewestInstalls, Installed
<1>6. NamesInOrder'
  BY <1>1, <1>2 DEF Inv, NamesInOrder
<1>7. OlderDoomed'
  <2>1. \A u \in Versions : doomed[u] \ {w} \subseteq doomed'[u]
    BY <1>1
  <2>2. \A u \in Versions : worker'[u] = "listed" =>
          \A i \in DOMAIN names : names[i] >= u \/ names[i] \in doomed[u]
    BY <1>1 DEF Inv, OlderDoomed
  <2> QED
    BY <1>2, <2>1, <2>2 DEF OlderDoomed
<1>8. \A u \in Versions : u # w => stored'[u] = stored[u]
  BY <1>1
<1>9. DealtWith'
  BY <1>1, <1>3, <1>8 DEF Inv, DealtWith, Held
<1>10. InstalledHoldsFiles'
  BY <1>1, <1>3, <1>8 DEF Inv, InstalledHoldsFiles
<1>11. NoOlderCacheOnceActive'
  BY <1>1, <1>2 DEF Inv, NoOlderCacheOnceActive
<1>12. RequestTyped'
  BY <1>1, RequestKept
<1> QED
  BY <1>4, <1>5, <1>6, <1>7, <1>9, <1>10, <1>11, <1>12 DEF Inv

\* The pages are claimed when the list is done with: no older cache is left.
LEMMA ClaimInv ==
  ASSUME Inv, NEW v \in Versions, Claim(v)
  PROVE  Inv'
<1>1. /\ worker[v] = "listed" /\ doomed[v] = {} /\ worker \in [Versions -> States]
      /\ worker' = [worker EXCEPT ![v] = "active"]
      /\ page' = IF page = "uncontrolled" THEN "controlled" ELSE page
      /\ UNCHANGED <<deployed, online, stage, todo, lost, names, stored, doomed, request>>
  BY DEF Claim, Inv, Types
<1>2. \A w \in Versions : worker'[w] = IF w = v THEN "active" ELSE worker[w]
  BY <1>1
<1>3. Types'
  <2>1. worker' \in [Versions -> States]
    BY <1>1 DEF States
  <2>2. page' \in {"closed", "uncontrolled", "controlled"}
    BY <1>1 DEF Inv, Types
  <2>3. online' \in BOOLEAN
    BY <1>1, Zenon DEF Inv, Types
  <2> QED
    BY <1>1, <2>1, <2>2, <2>3 DEF Inv, Types
<1>4. NewestInstalls'
  BY <1>1, <1>2 DEF Inv, NewestInstalls, Installed
<1>5. NamesInOrder'
  BY <1>1, <1>2 DEF Inv, NamesInOrder
<1>6. OlderDoomed' /\ DealtWith'
  BY <1>1, <1>2 DEF Inv, OlderDoomed, DealtWith, Held, Exists
<1>7. RequestTyped'
  BY <1>1, <1>2, RequestKept
<1>8. NoOlderCacheOnceActive'
  BY <1>1, <1>2 DEF Inv, NoOlderCacheOnceActive, OlderDoomed
<1>9. InstalledHoldsFiles'
  BY <1>1, <1>2 DEF Inv, InstalledHoldsFiles, Exists
<1> QED
  BY <1>3, <1>4, <1>5, <1>6, <1>7, <1>8, <1>9 DEF Inv
-----------------------------------------------------------------------------
LEMMA StutterInv == Inv /\ UNCHANGED vars => Inv'
<1> SUFFICES ASSUME Inv, UNCHANGED vars PROVE Inv'  OBVIOUS
<1>1. UNCHANGED life /\ UNCHANGED <<deployed, online, page, request>>
  BY DEF vars, life
<1>2. RequestTyped'
  BY <1>1, RequestKept DEF life
<1>3. page' \in {"closed", "uncontrolled", "controlled"}
  BY <1>1 DEF Inv, Types
<1> QED
  BY <1>1, <1>2, <1>3, RequestStep

LEMMA NextInv == Inv /\ [Next]_vars => Inv'
<1>1. Inv /\ Deploy => Inv'
  BY EnvironmentInv
<1>2. Inv /\ SwitchNetwork => Inv'
  BY EnvironmentInv
<1>3. Inv /\ OpenPage => Inv'
  BY EnvironmentInv
<1>4. Inv /\ ClosePage => Inv'
  BY ClosePageInv
<1>5. Inv /\ (Register \/ Update) => Inv'
  BY BeginInstallInv DEF Register, Update
<1>6. ASSUME NEW v \in Versions PROVE Inv /\ Install(v) => Inv'
  BY OpenCacheInv, CacheFileInv, ReadBootConfigInv, InstallEndsInv DEF Install
<1>7. ASSUME NEW v \in Versions PROVE Inv /\ Activate(v) => Inv'
  BY ListCachesInv, DeleteCacheInv, ClaimInv DEF Activate
<1>8. ASSUME NEW v \in Versions PROVE Inv /\ (InstallAborted(v) \/ TryActivate(v)) => Inv'
  BY InstallAbortedInv, TryActivateInv
<1>9. ASSUME NEW v \in Versions, NEW f \in Files, NEW b \in Versions
      PROVE  Inv /\ FetchEvent(v, f, b) => Inv'
  BY FetchEventInv
<1>10. Inv /\ Fetch => Inv'
  BY FetchInv
<1>11. Inv /\ UNCHANGED vars => Inv'
  BY StutterInv
<1> QED
  BY <1>1, <1>2, <1>3, <1>4, <1>5, <1>6, <1>7, <1>8, <1>9, <1>10, <1>11 DEF Next

(* The invariant of any history of deployments, installs, aborts,          *)
(* activations and requests: see the module's head.                        *)
THEOREM InvHolds == Spec => []Inv
<1>1. Init => Inv
  BY InitInv
<1>2. Inv /\ [Next]_vars => Inv'
  BY NextInv
<1> QED
  BY <1>1, <1>2, PTL DEF Spec

(* Workers, caches and the request stay well typed; in particular no       *)
(* request is tried more than FetchRetries + 1 times.                      *)
THEOREM Typed == Spec => []TypeOK
<1>1. Inv => TypeOK
  <2> SUFFICES ASSUME Inv PROVE TypeOK  OBVIOUS
  <2>1. online \in BOOLEAN
    BY Zenon DEF Inv, Types
  <2>2. request # NoRequest => request.attempts \in 0..FetchRetries + 1
    <3>1. CASE request.state \in {"network", "match", "retry"}
      BY <3>1 DEF Inv, RequestTyped, Pending
    <3>2. CASE request.state \in {"none", "answered"}
      BY <3>2 DEF Inv, RequestTyped
    <3> QED
      BY <3>1, <3>2 DEF Inv, RequestTyped
  <2>3. request.state \in {"none", "network", "match", "retry", "answered"}
    BY DEF Inv, RequestTyped
  <2> QED
    BY <2>1, <2>2, <2>3 DEF TypeOK, Inv, Types, States
<1> QED
  BY <1>1, InvHolds, PTL

(* Once a worker is active no cache of an older build is left, whatever    *)
(* was installed, aborted or superseded while the old ones were deleted    *)
(* (service-worker.js:145-158).                                            *)
THEOREM NoOlderCacheLeft == Spec => []NoOlderCacheOnceActive
<1>1. Inv => NoOlderCacheOnceActive
  BY DEF Inv
<1> QED
  BY <1>1, InvHolds, PTL

(* A worker past its install holds, in its cache if nobody deleted it,     *)
(* every file it did not fail to get (service-worker.js:72-143).           *)
THEOREM InstallIsComplete == Spec => []InstalledHoldsFiles
<1>1. Inv => InstalledHoldsFiles
  BY DEF Inv
<1> QED
  BY <1>1, InvHolds, PTL

\* Only the look into the caches answers a request that is to be matched.
LEMMA AnsweredByCaches ==
  [Next]_vars /\ request.state = "match" /\ request'.state = "answered" => TryCaches
<1> SUFFICES ASSUME [Next]_vars, request.state = "match", request'.state = "answered"
             PROVE  TryCaches
  OBVIOUS
<1>1. request' # request
  OBVIOUS
<1>2. Fetch \/ ClosePage \/ \E v \in Versions, f \in Files, b \in Versions : FetchEvent(v, f, b)
  BY <1>1 DEF Next, vars, Deploy, SwitchNetwork, OpenPage, Register, Update, BeginInstall,
              InstallAborted, TryActivate, Install, OpenCache, CacheFile, ReadBootConfig,
              InstallEnds, Activate, ListCaches, DeleteCache, Claim
<1>3. ~ClosePage
  BY DEF ClosePage, NoRequest
<1>4. \A v \in Versions, f \in Files, b \in Versions : ~FetchEvent(v, f, b)
  BY DEF FetchEvent
<1> QED
  BY <1>2, <1>3, <1>4 DEF Fetch, TryNetwork, Retry

(* The worker that answers is active, so no cache before its own is left;  *)
(* its own comes first among those that hold the request.                  *)
LEMMA OwnCacheComesFirst ==
  ASSUME Inv, TryCaches, HeldByOwnCache
  PROVE  request'.source = "cache" /\ request'.cache = request.by
<1>1. request.state = "match"
  BY DEF TryCaches
<1>2. request.by \in Versions /\ worker[request.by] = "active"
  BY <1>1 DEF Inv, RequestTyped, Pending
<1>3. \A i \in DOMAIN names : names[i] >= request.by
  BY <1>2 DEF Inv, NoOlderCacheOnceActive
<1>4. PICK own \in Matching : names[own] = request.by
  BY DEF HeldByOwnCache
<1>5. PICK i \in Matching : FirstMatch(i) /\ request' = Answer("cache", names[i])
  BY <1>4 DEF TryCaches
<1>6. own \in DOMAIN names /\ i \in DOMAIN names /\ i <= own
  BY <1>4, <1>5 DEF Matching, FirstMatch
<1>7. /\ own \in Nat /\ i \in Nat /\ names[own] \in Nat /\ names[i] \in Nat
  BY <1>6, CachesNumbered DEF Inv
<1>8. i = own
  <2>1. i < own => names[i] < names[own]
    BY <1>6 DEF Inv, NamesInOrder
  <2>2. names[i] >= names[own]
    BY <1>3, <1>4, <1>6
  <2> QED
    BY <1>6, <1>7, <2>1, <2>2
<1> QED
  BY <1>4, <1>5, <1>8, AnswerTyped

(* An answer from the caches is that of the answering worker's own cache   *)
(* whenever that one holds the request, though caches.match looks into     *)
(* every cache of the origin (service-worker.js:181).                      *)
THEOREM AnswersFromOwnCache == Spec => OwnCacheFirst
<1>1. ASSUME Inv, [Next]_vars
      PROVE  [request.state = "match" /\ request'.state = "answered" /\ HeldByOwnCache
              => request'.source = "cache" /\ request'.cache = request.by]_vars
  BY <1>1, AnsweredByCaches, OwnCacheComesFirst
<1> QED
  BY <1>1, InvHolds, PTL DEF Spec, OwnCacheFirst
=============================================================================
