-------------------------- MODULE CachePoolProofs ---------------------------
(***************************************************************************)
(* Proofs about the download pool of the service worker, for any number of *)
(* files, any bound and any set of hung fetches.                           *)
(***************************************************************************)
EXTENDS CachePool, FiniteSetTheorems, TLAPS

\* The files of a fetch table that occupy a slot.
OccupyingIn(f) == {i \in FileIds : f[i] \in {"pending", "handled"}}

\* A fetch table as startNext finds it, with n slots occupied.
Startable(n, f) ==
  /\ f \in [FileIds -> {"idle", "pending", "handled", "settled"}]
  /\ \A i \in FileIds : f[i] = "idle" <=> i > nextIndex
  /\ n \in 0..MaxConcurrency
  /\ n = Cardinality(OccupyingIn(f))

LEMMA OccupyingFinite ==
  ASSUME NEW f
  PROVE  IsFiniteSet(OccupyingIn(f))
<1>1. NumFiles \in Int /\ 1 \in Int  BY PoolAssumption
<1>2. IsFiniteSet(FileIds)  BY <1>1, FS_Interval DEF FileIds
<1>3. OccupyingIn(f) \in SUBSET FileIds  BY DEF OccupyingIn
<1>. QED  BY <1>2, <1>3, FS_Subset

(* startNext counts the slots it fills, never fills more than there are,   *)
(* and leaves none free while files are left (service-worker.js:25-57).    *)
LEMMA StartNextFills ==
  ASSUME NEW n, NEW f, Startable(n, f), nextIndex \in 0..NumFiles, StartNext(n, f)
  PROVE  /\ Startable(inFlight, fetches)'
         /\ nextIndex' \in 0..NumFiles
         /\ nextIndex' < NumFiles => inFlight' = MaxConcurrency
         /\ \A i \in FileIds : fetches'[i] # f[i] =>
           fetches'[i] = "pending" /\ f[i] = "idle"
<1> DEFINE k == Taken(n)
           new == (nextIndex + 1)..(nextIndex + k)
<1>1. /\ k \in Nat
      /\ n + k <= MaxConcurrency
      /\ nextIndex + k <= NumFiles
      /\ nextIndex + k < NumFiles => n + k = MaxConcurrency
  BY PoolAssumption DEF Startable, Taken, Least
<1>2. /\ nextIndex' = nextIndex + k
      /\ inFlight' = n + k
      /\ fetches' = [i \in FileIds |-> IF i \in new THEN "pending" ELSE f[i]]
  BY DEF StartNext
<1>3. /\ fetches' \in [FileIds -> {"idle", "pending", "handled", "settled"}]
      /\ \A i \in FileIds : fetches'[i] = "idle" <=> i > nextIndex'
      /\ \A i \in FileIds : fetches'[i] # f[i] =>
           fetches'[i] = "pending" /\ f[i] = "idle"
  BY <1>1, <1>2 DEF Startable, FileIds
<1>4. OccupyingIn(fetches') = OccupyingIn(f) \cup new
  BY <1>1, <1>2, PoolAssumption DEF OccupyingIn, FileIds
<1>5. OccupyingIn(f) \cap new = {}
  BY <1>1 DEF Startable, OccupyingIn, FileIds
<1>6. IsFiniteSet(new) /\ Cardinality(new) = k
  <2>1. nextIndex + 1 \in Int /\ nextIndex + k \in Int  BY <1>1, PoolAssumption
  <2>2. /\ IsFiniteSet(new)
        /\ Cardinality(new) = IF nextIndex + 1 > nextIndex + k THEN 0
                              ELSE (nextIndex + k) - (nextIndex + 1) + 1
    BY <2>1, FS_Interval
  <2>. QED  BY <1>1, <2>2, PoolAssumption
<1>7. Cardinality(OccupyingIn(fetches')) = n + k
  <2>1. Cardinality(OccupyingIn(fetches'))
          = Cardinality(OccupyingIn(f)) + Cardinality(new) - Cardinality({})
    BY <1>4, <1>5, <1>6, OccupyingFinite, FS_Union
  <2>. QED  BY <2>1, <1>1, <1>6, FS_EmptySet, PoolAssumption DEF Startable
<1>8. OccupyingIn(fetches)' = OccupyingIn(fetches')
  BY DEF OccupyingIn, FileIds
<1>. QED
  BY <1>1, <1>2, <1>3, <1>7, <1>8, PoolAssumption DEF Startable

-----------------------------------------------------------------------------
LEMMA InitInductive == Init => Inductive
<1> SUFFICES ASSUME Init PROVE Inductive  OBVIOUS
<1>1. TypeOK /\ TakenInOrder /\ ResolvedLast /\ NoIdleSlot /\ PutsFollowFetches /\ AwaitedEnded
  BY PoolAssumption
  DEF Init, TypeOK, TakenInOrder, ResolvedLast, NoIdleSlot, PutsFollowFetches,
      AwaitedEnded, FileIds
<1>2. Occupying = {}  BY DEF Init, Occupying
<1>3. SlotsAccounted  BY <1>2, FS_EmptySet DEF Init, SlotsAccounted
<1>. QED  BY <1>1, <1>3 DEF Inductive

LEMMA BeginInductive == Inductive /\ Begin => Inductive'
<1> SUFFICES ASSUME Inductive, Begin PROVE Inductive'  OBVIOUS
<1>1. CASE NumFiles = 0
  <2>1. Occupying' = Occupying  BY <1>1 DEF Begin, Occupying, FileIds
  <2>. QED
    BY <1>1, <2>1, PoolAssumption
    DEF Begin, Inductive, TypeOK, SlotsAccounted, NoIdleSlot, TakenInOrder,
        ResolvedLast, PutsFollowFetches, AwaitedEnded, FileIds
<1>2. CASE NumFiles # 0
  <2>1. StartNext(0, fetches) /\ pc = "called" /\ pc' = "pooling"
        /\ puts' = puts /\ awaited' = awaited
    BY <1>2 DEF Begin
  <2>2. Startable(0, fetches)
    BY <2>1, PoolAssumption
    DEF Inductive, TypeOK, SlotsAccounted, TakenInOrder, ResolvedLast, Startable,
        Occupying, OccupyingIn
  <2>3. /\ Startable(inFlight, fetches)'
        /\ nextIndex' \in 0..NumFiles
        /\ nextIndex' < NumFiles => inFlight' = MaxConcurrency
        /\ \A i \in FileIds : fetches'[i] # fetches[i] =>
           fetches'[i] = "pending" /\ fetches[i] = "idle"
    BY <2>1, <2>2, StartNextFills DEF Inductive, TypeOK
  <2>. QED
    BY <2>1, <2>3
    DEF Inductive, TypeOK, SlotsAccounted, NoIdleSlot, TakenInOrder, ResolvedLast,
        PutsFollowFetches, AwaitedEnded, Startable, Occupying, OccupyingIn, FileIds
<1>. QED  BY <1>1, <1>2

LEMMA SettleInductive ==
  ASSUME NEW i \in FileIds
  PROVE  Inductive /\ Settle(i) => Inductive'
<1> SUFFICES ASSUME Inductive, Settle(i) PROVE Inductive'  OBVIOUS
<1>1. /\ fetches[i] = "pending"
      /\ fetches' = [fetches EXCEPT ![i] = "handled"]
      /\ puts' = puts \/ puts' = [puts EXCEPT ![i] = "writing"]
      /\ UNCHANGED <<pc, nextIndex, inFlight, awaited>>
  BY DEF Settle, Respond, Reject
<1>2. Occupying' = Occupying  BY <1>1 DEF Occupying, Inductive, TypeOK, FileIds
<1>3. i <= nextIndex /\ pc = "pooling"
  <2>1. i \in Occupying  BY <1>1 DEF Occupying
  <2>2. inFlight # 0
    BY <2>1, OccupyingFinite, FS_EmptySet
    DEF Inductive, SlotsAccounted, Occupying, OccupyingIn
  <2>. QED
    BY <1>1, <2>2 DEF Inductive, TypeOK, ResolvedLast, TakenInOrder, FileIds
<1>. QED
  BY <1>1, <1>2, <1>3
  DEF Inductive, TypeOK, SlotsAccounted, NoIdleSlot, TakenInOrder, ResolvedLast,
      PutsFollowFetches, AwaitedEnded, FileIds

LEMMA ReleaseInductive ==
  ASSUME NEW i \in FileIds
  PROVE  Inductive /\ Release(i) => Inductive'
<1> SUFFICES ASSUME Inductive, Release(i) PROVE Inductive'  OBVIOUS
<1> DEFINE freed == [fetches EXCEPT ![i] = "settled"]
<1>1. /\ fetches[i] = "handled"
      /\ UNCHANGED <<puts, awaited>>
  BY DEF Release
<1>2. /\ OccupyingIn(freed) = Occupying \ {i}
      /\ i \in Occupying
  BY <1>1 DEF Occupying, OccupyingIn, Inductive, TypeOK
<1>3. Cardinality(OccupyingIn(freed)) = inFlight - 1
  BY <1>2, OccupyingFinite, FS_RemoveElement
  DEF Inductive, SlotsAccounted, Occupying, OccupyingIn
<1>4. inFlight \in Nat /\ inFlight > 0
  BY <1>2, OccupyingFinite, FS_EmptySet, PoolAssumption
  DEF Inductive, TypeOK, SlotsAccounted, Occupying, OccupyingIn
<1>5. Startable(inFlight - 1, freed)
  BY <1>1, <1>3, <1>4, PoolAssumption
  DEF Inductive, TypeOK, TakenInOrder, Startable, FileIds
<1>6. pc = "pooling"
  BY <1>4 DEF Inductive, TypeOK, ResolvedLast
<1>7. CASE nextIndex < NumFiles
  <2>1. StartNext(inFlight - 1, freed) /\ pc' = pc
    BY <1>7 DEF Release
  <2>2. /\ Startable(inFlight, fetches)'
        /\ nextIndex' \in 0..NumFiles
        /\ nextIndex' < NumFiles => inFlight' = MaxConcurrency
        /\ \A j \in FileIds : fetches'[j] # freed[j] =>
           fetches'[j] = "pending" /\ freed[j] = "idle"
    BY <2>1, <1>5, StartNextFills DEF Inductive, TypeOK
  <2>3. \A j \in FileIds : puts'[j] # "none" => fetches'[j] \in {"handled", "settled"}
    BY <1>1, <2>2 DEF Inductive, TypeOK, PutsFollowFetches
  <2>. QED
    BY <1>1, <1>6, <2>1, <2>2, <2>3
    DEF Inductive, TypeOK, SlotsAccounted, NoIdleSlot, TakenInOrder, ResolvedLast,
        PutsFollowFetches, AwaitedEnded, Startable, Occupying, OccupyingIn, FileIds
<1>8. CASE ~(nextIndex < NumFiles)
  <2>1. /\ inFlight' = inFlight - 1
        /\ fetches' = freed
        /\ pc' = IF inFlight = 1 THEN "resolved" ELSE pc
        /\ nextIndex' = nextIndex
    BY <1>8 DEF Release
  <2>2. Occupying' = OccupyingIn(freed)
    BY <2>1 DEF Occupying, OccupyingIn
  <2>. QED
    BY <1>1, <1>3, <1>4, <1>5, <1>6, <1>8, <2>1, <2>2, PoolAssumption
    DEF Inductive, TypeOK, SlotsAccounted, NoIdleSlot, TakenInOrder, ResolvedLast,
        PutsFollowFetches, AwaitedEnded, Startable, FileIds
<1>. QED  BY <1>7, <1>8

LEMMA StoreInductive ==
  ASSUME NEW i \in FileIds
  PROVE  Inductive /\ Store(i) => Inductive'
<1> SUFFICES ASSUME Inductive, Store(i) PROVE Inductive'  OBVIOUS
<1>1. PICK outcome \in {"stored", "failed"} :
        /\ puts[i] = "writing"
        /\ puts' = [puts EXCEPT ![i] = outcome]
        /\ UNCHANGED <<pc, nextIndex, inFlight, fetches, awaited>>
  BY DEF Store, PutEnds
<1>2. Occupying' = Occupying  BY <1>1 DEF Occupying
<1>. QED
  BY <1>1, <1>2
  DEF Inductive, TypeOK, SlotsAccounted, NoIdleSlot, TakenInOrder, ResolvedLast,
      PutsFollowFetches, AwaitedEnded

LEMMA ResumeInductive == Inductive /\ (AwaitPuts \/ Return \/ UNCHANGED vars) => Inductive'
<1> SUFFICES ASSUME Inductive, AwaitPuts \/ Return \/ UNCHANGED vars PROVE Inductive'
  OBVIOUS
<1>1. Occupying' = Occupying  BY DEF AwaitPuts, Return, vars, Occupying
<1>2. CASE AwaitPuts
  BY <1>1, <1>2
  DEF AwaitPuts, Inductive, TypeOK, SlotsAccounted, NoIdleSlot, TakenInOrder,
      ResolvedLast, PutsFollowFetches, AwaitedEnded
<1>3. CASE Return
  BY <1>1, <1>3
  DEF Return, Inductive, TypeOK, SlotsAccounted, NoIdleSlot, TakenInOrder,
      ResolvedLast, PutsFollowFetches, AwaitedEnded
<1>4. CASE UNCHANGED vars
  BY <1>1, <1>4
  DEF vars, Inductive, TypeOK, SlotsAccounted, NoIdleSlot, TakenInOrder,
      ResolvedLast, PutsFollowFetches, AwaitedEnded
<1>. QED  BY <1>2, <1>3, <1>4

(* The bookkeeping of the pool is right in every state of every call, for  *)
(* any list of files, any bound and any set of hung fetches.               *)
THEOREM PoolInductive == Spec => []Inductive
<1>1. Inductive /\ [Next]_vars => Inductive'
  <2> SUFFICES ASSUME Inductive, [Next]_vars PROVE Inductive'  OBVIOUS
  <2>1. CASE Begin  BY <2>1, BeginInductive
  <2>2. CASE \E i \in FileIds : Settle(i) \/ Release(i) \/ Store(i)
    BY <2>2, SettleInductive, ReleaseInductive, StoreInductive
  <2>3. CASE AwaitPuts \/ Return \/ UNCHANGED vars
    BY <2>3, ResumeInductive
  <2>. QED  BY <2>1, <2>2, <2>3 DEF Next
<1>. QED  BY <1>1, InitInductive, PTL DEF Spec

\* With every file taken and every slot free, every download is over.
LEMMA AllSettled ==
  ASSUME Inductive, nextIndex = NumFiles, inFlight = 0
  PROVE  \A i \in FileIds : fetches[i] = "settled"
<1>1. Occupying = {}
  BY OccupyingFinite, FS_EmptySet DEF Inductive, SlotsAccounted, Occupying, OccupyingIn
<1>2. \A i \in FileIds : fetches[i] # "idle"
  BY PoolAssumption DEF Inductive, TakenInOrder, FileIds
<1>. QED  BY <1>1, <1>2 DEF Occupying, Inductive, TypeOK

(* Type correctness and the three safety properties of the pool: the       *)
(* counter counts the downloads, no slot idles while files are left, and   *)
(* a call that returned leaves no download and no write behind.            *)
THEOREM PoolSafe ==
  Spec => [](TypeOK /\ SlotsAccounted /\ NoIdleSlot /\ NothingLeftBehind)
<1>1. Inductive => NothingLeftBehind
  BY AllSettled
  DEF Inductive, ResolvedLast, PutsFollowFetches, AwaitedEnded, NothingLeftBehind, TypeOK
<1>2. Inductive => TypeOK /\ SlotsAccounted /\ NoIdleSlot  BY DEF Inductive
<1>. QED  BY <1>1, <1>2, PoolInductive, PTL

-----------------------------------------------------------------------------
\* The abstract pool counts with the same operator.
LEMMA SameCardinality == \A S : Abstract!Cardinality(S) = Cardinality(S)
BY DEF Abstract!Cardinality, Cardinality

\* startNext launches files nobody has touched, within the bound.
LEMMA LaunchIsAdvance ==
  ASSUME Inductive, Inductive', pc # "returned", pc' # "returned",
         NEW D \in SUBSET FileIds, D \subseteq {i \in FileIds : fetches[i] = "handled"},
         \A i \in D : fetches'[i] = "settled",
         \A i \in FileIds \ D :
           fetches'[i] # fetches[i] => fetches'[i] = "pending" /\ fetches[i] = "idle"
  PROVE  \E S \in SUBSET FileIds : Abstract!Advance(D, S)
<1>0. PICK S \in SUBSET FileIds :
        S = {i \in FileIds : fetches[i] = "idle" /\ fetches'[i] = "pending"}
  OBVIOUS
<1>1. Occupying' = (Occupying \ D) \cup S
  BY <1>0 DEF Occupying, Inductive, TypeOK
<1>2. Cardinality((Occupying \ D) \cup S) <= MaxConcurrency
  <2>1. inFlight' = Cardinality(Occupying') /\ inFlight' \in 0..MaxConcurrency
    BY DEF Inductive, TypeOK, SlotsAccounted
  <2>. QED  BY <1>1, <2>1, PoolAssumption
<1>3. {i \in FileIds : fetches[i] = "settled"}' = {i \in FileIds : fetches[i] = "settled"} \cup D
  BY DEF Inductive, TypeOK, FileIds
<1>4. D \subseteq Occupying  BY DEF Occupying
<1>5. S \subseteq FileIds \ (Occupying \cup {i \in FileIds : fetches[i] = "settled"})
  BY <1>0 DEF Occupying
<1>6. (pc = "returned")' = (pc = "returned")
  OBVIOUS
<1>7. Abstract!Advance(D, S)
  <2>1. Abstract!Cardinality((Occupying \ D) \cup S) <= MaxConcurrency
    BY <1>2, SameCardinality
  <2>. QED  BY <1>1, <2>1, <1>3, <1>4, <1>5, <1>6 DEF Abstract!Advance
<1>. QED  BY <1>7

LEMMA StepImplements ==
  Inductive /\ Inductive' /\ [Next]_vars => [Abstract!Next]_(Abstract!vars)
<1> SUFFICES ASSUME Inductive, Inductive', [Next]_vars
             PROVE  [Abstract!Next]_(Abstract!vars)
  OBVIOUS
<1> DEFINE settled == {i \in FileIds : fetches[i] = "settled"}
<1>1. CASE Begin
  <2>1. CASE NumFiles = 0
    BY <1>1, <2>1 DEF Begin, Abstract!vars, Occupying, FileIds
  <2>2. CASE NumFiles # 0
    <3>1. /\ pc = "called" /\ pc' = "pooling"
          /\ fetches' = [i \in FileIds |->
               IF i \in (nextIndex + 1)..(nextIndex + Taken(0)) THEN "pending" ELSE fetches[i]]
      BY <1>1, <2>2 DEF Begin, StartNext
    <3>2. \A i \in FileIds : fetches[i] = "idle"
      BY <3>1 DEF Inductive, ResolvedLast, TakenInOrder, FileIds
    <3>3. \E S \in SUBSET FileIds : Abstract!Advance({}, S)
      BY <3>1, <3>2, LaunchIsAdvance
    <3>. QED  BY <3>3 DEF Abstract!Next
  <2>. QED  BY <2>1, <2>2
<1>2. ASSUME NEW i \in FileIds, Settle(i)
      PROVE  [Abstract!Next]_(Abstract!vars)
  BY <1>2 DEF Settle, Respond, Reject, Abstract!vars, Occupying, Inductive, TypeOK
<1>3. ASSUME NEW i \in FileIds, Release(i)
      PROVE  [Abstract!Next]_(Abstract!vars)
  <2>1. /\ fetches[i] = "handled"
        /\ fetches'[i] = "settled"
        /\ \A j \in FileIds \ {i} :
             fetches'[j] # fetches[j] => fetches'[j] = "pending" /\ fetches[j] = "idle"
    BY <1>3, PoolAssumption
    DEF Release, StartNext, Inductive, TypeOK, TakenInOrder, FileIds
  <2>2. inFlight # 0
    <3>1. i \in Occupying  BY <2>1 DEF Occupying
    <3>. QED
      BY <3>1, OccupyingFinite, FS_EmptySet
      DEF Inductive, SlotsAccounted, Occupying, OccupyingIn
  <2>3. pc = "pooling"
    BY <2>1, <2>2 DEF Inductive, TypeOK, ResolvedLast
  <2>4. pc' = "pooling" \/ pc' = "resolved"
    BY <1>3, <2>3 DEF Release
  <2>5. \E S \in SUBSET FileIds : Abstract!Advance({i}, S)
    BY <2>1, <2>3, <2>4, LaunchIsAdvance
  <2>6. {i} \in SUBSET Occupying  BY <2>1 DEF Occupying
  <2>. QED  BY <2>5, <2>6 DEF Abstract!Next
<1>4. ASSUME NEW i \in FileIds, Store(i)
      PROVE  [Abstract!Next]_(Abstract!vars)
  BY <1>4 DEF Store, PutEnds, Abstract!vars, Occupying
<1>5. CASE AwaitPuts
  BY <1>5 DEF AwaitPuts, Abstract!vars, Occupying
<1>6. CASE Return
  <2>1. settled = FileIds
    <3>1. nextIndex = NumFiles /\ inFlight = 0
      BY <1>6 DEF Return, Inductive, ResolvedLast
    <3>. QED  BY <3>1, AllSettled
  <2>2. Occupying' = Occupying /\ settled' = settled /\ (pc = "returned")' = TRUE
    BY <1>6 DEF Return, Occupying
  <2>3. Abstract!Return  BY <2>1, <2>2 DEF Abstract!Return
  <2>. QED  BY <2>3 DEF Abstract!Next
<1>7. CASE UNCHANGED vars
  BY <1>7 DEF vars, Abstract!vars, Occupying
<1>. QED  BY <1>1, <1>2, <1>3, <1>4, <1>5, <1>6, <1>7 DEF Next

(* Every call of the pool is a call of FilePool: files are worked through  *)
(* within the bound, and the call returns only after the last one.         *)
THEOREM PoolImplementsFilePool == Spec => ImplementsFilePool
<1>1. Init => Abstract!Init
  BY DEF Init, Abstract!Init, Occupying, FileIds
<1>. QED
  BY <1>1, StepImplements, PoolInductive, PTL
  DEF Spec, ImplementsFilePool, Abstract!Spec
=============================================================================
