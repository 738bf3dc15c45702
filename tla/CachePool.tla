----------------------------- MODULE CachePool ------------------------------
(***************************************************************************)
(* cacheFilesWithConcurrency (Embedded/service-worker.js): the sliding     *)
(* download pool with which the install handler of the service worker      *)
(* fills its cache.  Files are known by their index.  One action is one    *)
(* turn of the event loop: the promise executor, one settled fetch, one    *)
(* completion callback, one settled cache write, one resumption after an   *)
(* await.                                                                  *)
(***************************************************************************)
EXTENDS Integers, FiniteSets

CONSTANTS NumFiles,        \* files.length
          MaxConcurrency,  \* maxConcurrency
          MayHang          \* indices whose fetch may never settle

ASSUME PoolAssumption ==
  /\ NumFiles \in Nat
  /\ MaxConcurrency \in Nat \ {0}
  /\ MayHang \subseteq 1..NumFiles

VARIABLES pc,         \* where the async function is
          nextIndex,  \* files taken from the list so far
          inFlight,   \* the pool's own count of occupied slots
          fetches,    \* per file: its chain of promises
          puts,       \* per file: its cache write
          awaited     \* the writes Promise.allSettled was called with

vars == <<pc, nextIndex, inFlight, fetches, puts, awaited>>

FileIds == 1..NumFiles

Least(a, b) == IF a <= b THEN a ELSE b

\* A plausible slip: <= in place of < in the loop condition.
TakenOneTooMany(n) == Least(MaxConcurrency - n + 1, NumFiles - nextIndex)

\* How many files the loop of startNext takes with n slots occupied.
Taken(n) == Least(MaxConcurrency - n, NumFiles - nextIndex)

Init ==
  /\ pc = "called"
  /\ nextIndex = 0
  /\ inFlight = 0
  /\ fetches = [i \in FileIds |-> "idle"]
  /\ puts = [i \in FileIds |-> "none"]
  /\ awaited = {}

(* startNext: fill the free slots, of which n are occupied on entry, with  *)
(* the next files of the list.  f is the fetch table on entry.             *)
StartNext(n, f) ==
  /\ nextIndex' = nextIndex + Taken(n)
  /\ inFlight' = n + Taken(n)
  /\ fetches' = [i \in FileIds |->
                   IF i \in (nextIndex + 1)..(nextIndex + Taken(n))
                   THEN "pending" ELSE f[i]]

(* The executor of the promise: nothing to do, or the first batch.         *)
Begin ==
  /\ pc = "called"
  /\ IF NumFiles = 0
     THEN pc' = "resolved" /\ UNCHANGED <<nextIndex, inFlight, fetches>>
     ELSE pc' = "pooling" /\ StartNext(0, fetches)
  /\ UNCHANGED <<puts, awaited>>

(* A response arrives.  An ok one starts a cache write that nobody waits   *)
(* for yet; any other is dropped.                                          *)
Respond(i, ok) ==
  /\ fetches[i] = "pending"
  /\ fetches' = [fetches EXCEPT ![i] = "handled"]
  /\ puts' = IF ok THEN [puts EXCEPT ![i] = "writing"] ELSE puts
  /\ UNCHANGED <<pc, nextIndex, inFlight, awaited>>

(* The fetch rejects and the error is swallowed.                           *)
Reject(i) ==
  /\ fetches[i] = "pending"
  /\ fetches' = [fetches EXCEPT ![i] = "handled"]
  /\ UNCHANGED <<pc, nextIndex, inFlight, puts, awaited>>

\* A plausible slip: the slot of a finished download is not given back.
ReleaseLeakingSlot(i) ==
  LET freed == [fetches EXCEPT ![i] = "settled"] IN
  /\ fetches[i] = "handled"
  /\ IF nextIndex < NumFiles
     THEN StartNext(inFlight, freed) /\ UNCHANGED pc
     ELSE /\ fetches' = freed
          /\ pc' = IF inFlight = 1 THEN "resolved" ELSE pc
          /\ UNCHANGED <<nextIndex, inFlight>>
  /\ UNCHANGED <<puts, awaited>>

\* A plausible slip: batches instead of a sliding pool.
ReleaseInBatches(i) ==
  LET freed == [fetches EXCEPT ![i] = "settled"] IN
  /\ fetches[i] = "handled"
  /\ IF nextIndex < NumFiles /\ inFlight = 1
     THEN StartNext(0, freed) /\ UNCHANGED pc
     ELSE /\ inFlight' = inFlight - 1
          /\ fetches' = freed
          /\ pc' = IF inFlight = 1 THEN "resolved" ELSE pc
          /\ UNCHANGED nextIndex
  /\ UNCHANGED <<puts, awaited>>

\* A plausible slip: resolve as soon as the list is exhausted.
ReleaseResolvingEarly(i) ==
  LET freed == [fetches EXCEPT ![i] = "settled"] IN
  /\ fetches[i] = "handled"
  /\ IF nextIndex < NumFiles
     THEN StartNext(inFlight - 1, freed) /\ UNCHANGED pc
     ELSE /\ inFlight' = inFlight - 1
          /\ fetches' = freed
          /\ pc' = IF pc = "pooling" THEN "resolved" ELSE pc
          /\ UNCHANGED nextIndex
  /\ UNCHANGED <<puts, awaited>>

(* The last callback of the chain: give the slot back, then start more     *)
(* files or, when this was the last one, resolve the promise.              *)
Release(i) ==
  LET freed == [fetches EXCEPT ![i] = "settled"] IN
  /\ fetches[i] = "handled"
  /\ IF nextIndex < NumFiles
     THEN StartNext(inFlight - 1, freed) /\ UNCHANGED pc
     ELSE /\ inFlight' = inFlight - 1
          /\ fetches' = freed
          /\ pc' = IF inFlight = 1 THEN "resolved" ELSE pc
          /\ UNCHANGED nextIndex
  /\ UNCHANGED <<puts, awaited>>

(* A cache write ends, stored or failed (a failure is swallowed too).      *)
PutEnds(i, outcome) ==
  /\ puts[i] = "writing"
  /\ puts' = [puts EXCEPT ![i] = outcome]
  /\ UNCHANGED <<pc, nextIndex, inFlight, fetches, awaited>>

\* A plausible slip: the cache writes are not waited for.
AwaitNoPuts ==
  /\ pc = "resolved"
  /\ awaited' = {}
  /\ pc' = "storing"
  /\ UNCHANGED <<nextIndex, inFlight, fetches, puts>>

(* The function resumes after the pool and awaits the writes queued by now. *)
AwaitPuts ==
  /\ pc = "resolved"
  /\ awaited' = {i \in FileIds : puts[i] # "none"}
  /\ pc' = "storing"
  /\ UNCHANGED <<nextIndex, inFlight, fetches, puts>>

Return ==
  /\ pc = "storing"
  /\ \A i \in awaited : puts[i] \in {"stored", "failed"}
  /\ pc' = "returned"
  /\ UNCHANGED <<nextIndex, inFlight, fetches, puts, awaited>>

Settle(i) == Reject(i) \/ \E ok \in BOOLEAN : Respond(i, ok)
Store(i) == \E outcome \in {"stored", "failed"} : PutEnds(i, outcome)

Next ==
  \/ Begin
  \/ \E i \in FileIds : Settle(i) \/ Release(i) \/ Store(i)
  \/ AwaitPuts
  \/ Return

Spec == Init /\ [][Next]_vars

(* The event loop runs every ready callback; every cache write ends some   *)
(* day, and so does every fetch that is not among those that may hang.     *)
Fairness ==
  /\ WF_vars(Begin) /\ WF_vars(AwaitPuts) /\ WF_vars(Return)
  /\ \A i \in FileIds : WF_vars(Release(i)) /\ WF_vars(Store(i))
  /\ \A i \in FileIds \ MayHang : WF_vars(Settle(i))

FairSpec == Spec /\ Fairness
-----------------------------------------------------------------------------
Occupying == {i \in FileIds : fetches[i] \in {"pending", "handled"}}

TypeOK ==
  /\ pc \in {"called", "pooling", "resolved", "storing", "returned"}
  /\ nextIndex \in 0..NumFiles
  /\ inFlight \in 0..MaxConcurrency
  /\ fetches \in [FileIds -> {"idle", "pending", "handled", "settled"}]
  /\ puts \in [FileIds -> {"none", "writing", "stored", "failed"}]
  /\ awaited \subseteq FileIds

(* The pool's counter is the number of files between fetch and completion  *)
(* callback, so the concurrency bound that is enforced on the counter      *)
(* (service-worker.js:26) bounds the downloads themselves.                 *)
SlotsAccounted == inFlight = Cardinality(Occupying)

(* No slot stays free while files are left, whatever failed before: a      *)
(* failed download gives its slot back and the pool fills it in the same   *)
(* callback (service-worker.js:48-51).                                     *)
NoIdleSlot == pc # "called" /\ nextIndex < NumFiles => inFlight = MaxConcurrency

(* Once the function has returned, no download and no cache write it began *)
(* is still going on: the writes awaited are all the writes there are,     *)
(* although they were queued behind the pool's back                        *)
(* (service-worker.js:37-43, 62).                                          *)
NothingLeftBehind ==
  pc = "returned" =>
    \A i \in FileIds : fetches[i] = "settled" /\ puts[i] # "writing"

\* The list is taken in order: what is idle is exactly what is left.
TakenInOrder == \A i \in FileIds : fetches[i] = "idle" <=> i > nextIndex

\* The promise resolves after the last completion callback.
ResolvedLast ==
  /\ pc = "called" => nextIndex = 0 /\ inFlight = 0
  /\ pc \in {"resolved", "storing", "returned"} => nextIndex = NumFiles /\ inFlight = 0

\* A write is queued by the first callback of its chain, before the slot is
\* given back, and awaited from the resumption on.
PutsFollowFetches ==
  \A i \in FileIds : puts[i] # "none" =>
    /\ fetches[i] \in {"handled", "settled"}
    /\ pc \in {"storing", "returned"} => i \in awaited

AwaitedEnded ==
  pc = "returned" => \A i \in awaited : puts[i] \in {"stored", "failed"}

(* The inductive invariant behind the safety properties: how far the list  *)
(* is taken, which slots are occupied and which writes are awaited, for    *)
(* every resumption point of the function (service-worker.js:13-63).       *)
Inductive ==
  /\ TypeOK
  /\ SlotsAccounted
  /\ NoIdleSlot
  /\ TakenInOrder
  /\ ResolvedLast
  /\ PutsFollowFetches
  /\ AwaitedEnded

(* "A slow or failed download only occupies one slot and never blocks      *)
(* others" (service-worker.js:7): as long as fewer fetches may hang than   *)
(* there are slots, every other file is fetched and its write ends.        *)
NeverBlocksOthers ==
  Cardinality(MayHang) < MaxConcurrency =>
    \A i \in FileIds \ MayHang :
      <>(fetches[i] = "settled" /\ puts[i] # "writing")

(* The call returns if no fetch that was begun hangs: it has no time limit *)
(* of its own (service-worker.js:32, 62).                                  *)
Returns ==
  (\A i \in MayHang : []<>(fetches[i] # "pending")) => <>(pc = "returned")

(* The pool implements its abstract description.                           *)
Abstract == INSTANCE FilePool
              WITH Files <- FileIds,
                   running <- Occupying,
                   settled <- {i \in FileIds : fetches[i] = "settled"},
                   returned <- (pc = "returned")
ImplementsFilePool == Abstract!Spec
=============================================================================
