-------------------------- MODULE HotReloadProofs ---------------------------
(***************************************************************************)
(* Theorems about the hot reload agent.  First about HotReload, for any    *)
(* modules, assemblies, numbers of deltas and of agents: assemblies loaded *)
(* before the first delta of their module get each delta once and in       *)
(* order; assemblies loaded later are patched as often.  Then about        *)
(* HandlerOrder, for any array and graph: the order of update handlers.    *)
(*                                                                         *)
(* The strengthening is StashMatchesHistory: the stashes of all agents     *)
(* together hold as many entries for a module as deltas of it were applied *)
(* to those loaded, whatever was rejected and however many agents there    *)
(* are that have seen none.                                                *)
(***************************************************************************)
EXTENDS MCHotReload, FiniteSetTheorems, SequenceTheorems, TLAPS

Deltas == [module : Modules, number : Nat] \cup {NoDelta}

Types ==
  /\ sent \in Nat
  /\ updateDelta \in Deltas
  /\ agents \in Seq([stash : Seq(Modules)])
  /\ given \in [Assemblies -> Seq(Deltas)]
  /\ history \in [Modules -> Seq(Deltas)]
  /\ loaded \in SUBSET Assemblies /\ early \subseteq loaded

Unpatched == \A a \in Assemblies \ loaded : given[a] = <<>>

StashMatchesHistory == \A m \in Modules : Stashed(m) = Len(history[m])

Inv ==
  /\ Types /\ Unpatched /\ StashMatchesHistory
  /\ EarlyAssembliesFollow /\ LateAssembliesPatchedAsOften
-----------------------------------------------------------------------------
LEMMA EntriesFinite ==
  ASSUME Types, NEW m
  PROVE  IsFiniteSet(Entries(m)) /\ Stashed(m) \in Nat
<1>1. 1 \in Int /\ Len(agents) \in Int /\ MaxDeltas \in Int /\ DOMAIN agents = 1..Len(agents)
  BY HotReloadAssumption DEF HotReloadAssumption, Types
<1>2. IsFiniteSet(DOMAIN agents) /\ IsFiniteSet(1..MaxDeltas)
  BY <1>1, FS_Interval
<1>. IsFiniteSet((DOMAIN agents) \X (1..MaxDeltas))
  BY <1>2, FS_Product
<1>3. IsFiniteSet(Entries(m))
  BY FS_Subset DEF Entries
<1> QED
  BY <1>3, FS_CardinalityType DEF Stashed

\* An agent with an empty stash adds no entry.
LEMMA NewAgentStashesNothing ==
  ASSUME Types, NEW m, agents' = Append(agents, NewAgent)
  PROVE  Stashed(m)' = Stashed(m)
<1>1. /\ DOMAIN agents' = DOMAIN agents \cup {Len(agents) + 1}
      /\ \A i \in DOMAIN agents : agents'[i] = agents[i]
      /\ agents'[Len(agents) + 1].stash = <<>>
  BY DEF Types, NewAgent
<1>2. Entries(m)' = Entries(m)
  BY <1>1 DEF Entries
<1> QED
  BY <1>2 DEF Stashed

\* The agent of an applied delta adds one, for the module of the delta.
LEMMA OneEntryMore ==
  ASSUME Types, NEW m \in Modules, NEW k \in Modules, sent < MaxDeltas,
         agents' = Append(agents, Stash(m))
  PROVE  Stashed(k)' = IF k = m THEN Stashed(k) + 1 ELSE Stashed(k)
<1> DEFINE n == Len(agents) + 1
<1>1. /\ DOMAIN agents' = DOMAIN agents \cup {n} /\ n \notin DOMAIN agents
      /\ \A i \in DOMAIN agents : agents'[i] = agents[i]
      /\ agents'[n].stash = <<m>>
  BY DEF Types, Stash
<1>2. 1 \in 1..MaxDeltas
  BY HotReloadAssumption DEF HotReloadAssumption, Types
<1>3. CASE k # m
  <2>1. Entries(k)' = Entries(k)
    BY <1>1, <1>3 DEF Entries
  <2> QED
    BY <1>3, <2>1 DEF Stashed
<1>4. CASE k = m
  <2>1. Entries(k)' = Entries(k) \cup {<<n, 1>>} /\ <<n, 1>> \notin Entries(k)
    BY <1>1, <1>2, <1>4 DEF Entries
  <2> QED
    BY <1>4, <2>1, EntriesFinite, FS_AddElement DEF Stashed
<1> QED
  BY <1>3, <1>4

\* In the beginning nothing is stashed, given or applied.
LEMMA InitInv == Init => Inv
<1> SUFFICES ASSUME Init PROVE Inv  OBVIOUS
<1>1. Types
  BY DEF Init, Types, Deltas
<1>2. \A m \in Modules : Entries(m) = {}
  BY DEF Init, Entries
<1>3. StashMatchesHistory
  BY <1>2, FS_EmptySet DEF Init, StashMatchesHistory, Stashed
<1>4. Unpatched /\ EarlyAssembliesFollow /\ LateAssembliesPatchedAsOften
  BY HotReloadAssumption
  DEF Init, Unpatched, EarlyAssembliesFollow, LateAssembliesPatchedAsOften, HotReloadAssumption
<1> QED
  BY <1>1, <1>3, <1>4 DEF Inv
-----------------------------------------------------------------------------
\* A step that creates agents, none of which stashes, and gives nothing.
LEMMA NothingGiven ==
  ASSUME Inv, agents' = Append(agents, NewAgent) \/ UNCHANGED agents,
         sent' \in Nat, UNCHANGED <<loaded, updateDelta, given, history, failed, early>>
  PROVE  Inv'
<1>1. Types'
  <2>1. Append(agents, NewAgent) \in Seq([stash : Seq(Modules)])
    BY DEF Inv, Types, NewAgent
  <2> QED
    BY <2>1 DEF Inv, Types
<1>2. ASSUME NEW m \in Modules PROVE Stashed(m)' = Stashed(m)
  <2>1. CASE UNCHANGED agents
    BY <2>1 DEF Stashed, Entries
  <2> QED
    BY <2>1, NewAgentStashesNothing DEF Inv
<1>3. StashMatchesHistory'
  BY <1>2 DEF Inv, StashMatchesHistory
<1> QED
  BY <1>1, <1>3
  DEF Inv, Unpatched, EarlyAssembliesFollow, LateAssembliesPatchedAsOften

\* An applied delta goes to the loaded assemblies of its module and to one stash.
LEMMA ApplyHotReloadInv ==
  ASSUME Inv, NEW m \in Modules, ApplyHotReload(m)
  PROVE  Inv'
<1> DEFINE d == [module |-> m, number |-> sent + 1]
<1>1. d \in Deltas
  BY DEF Inv, Types, Deltas
<1>2. \A a \in Assemblies :
        given'[a] = IF a \in LoadedOf(m) THEN Append(given[a], d) ELSE given[a]
  BY DEF ApplyHotReload, ApplyToLoaded, Give
<1>3. \A k \in Modules : history'[k] = IF k = m THEN Append(history[k], d) ELSE history[k]
  BY DEF ApplyHotReload, Inv, Types
<1>4. Types'
  <2>1. given' \in [Assemblies -> Seq(Deltas)]
    BY <1>1, AppendProperties DEF ApplyHotReload, ApplyToLoaded, Give, Inv, Types
  <2>2. history' \in [Modules -> Seq(Deltas)]
    BY <1>1, AppendProperties DEF ApplyHotReload, Inv, Types
  <2>3. agents' \in Seq([stash : Seq(Modules)])
    BY DEF ApplyHotReload, Stash, Inv, Types
  <2> QED
    BY <1>1, <2>1, <2>2, <2>3 DEF ApplyHotReload, Inv, Types
<1>5. \A s \in Seq(Deltas) : Len(Append(s, d)) = Len(s) + 1
  BY <1>1, AppendProperties
<1> HIDE DEF d
<1>6. StashMatchesHistory'
  <2> SUFFICES ASSUME NEW k \in Modules PROVE Stashed(k)' = Len(history'[k])
    BY DEF StashMatchesHistory
  <2>1. Stashed(k)' = IF k = m THEN Stashed(k) + 1 ELSE Stashed(k)
    BY OneEntryMore DEF ApplyHotReload, Inv
  <2>2. Stashed(k) = Len(history[k]) /\ history[k] \in Seq(Deltas)
    BY DEF Inv, Types, StashMatchesHistory
  <2> QED
    BY <1>3, <1>5, <2>1, <2>2
<1>7. Unpatched'
  BY <1>2 DEF ApplyHotReload, LoadedOf, Inv, Unpatched
<1>8. \A a \in loaded : ModuleOf[a] \in Modules
  BY HotReloadAssumption DEF HotReloadAssumption, Inv, Types
<1>9. EarlyAssembliesFollow'
  BY <1>2, <1>3, <1>8
  DEF ApplyHotReload, LoadedOf, Inv, Types, EarlyAssembliesFollow
<1>10. LateAssembliesPatchedAsOften'
  <2> SUFFICES ASSUME NEW a \in loaded, ModuleOf[a] \notin failed
               PROVE  Len(given'[a]) = Len(history'[ModuleOf[a]])
    BY DEF ApplyHotReload, LateAssembliesPatchedAsOften
  <2>1. Len(given[a]) = Len(history[ModuleOf[a]])
    BY DEF Inv, LateAssembliesPatchedAsOften
  <2>2. given[a] \in Seq(Deltas) /\ history[ModuleOf[a]] \in Seq(Deltas)
    BY <1>8 DEF Inv, Types
  <2>3. a \in LoadedOf(m) <=> ModuleOf[a] = m
    BY DEF LoadedOf
  <2> QED
    BY <1>2, <1>3, <1>8, <1>5, <2>1, <2>2, <2>3 DEF Inv, Types
<1> QED
  BY <1>4, <1>6, <1>7, <1>9, <1>10 DEF Inv

\* A rejected delta patches only assemblies of the module it fails for.
LEMMA ApplyRejectedInv ==
  ASSUME Inv, NEW m \in Modules, NEW done, ApplyRejected(m, done)
  PROVE  Inv'
<1> DEFINE d == [module |-> m, number |-> sent + 1]
<1>1. d \in Deltas
  BY DEF Inv, Types, Deltas
<1>2. \A a \in Assemblies : given'[a] = IF a \in done THEN Append(given[a], d) ELSE given[a]
  BY DEF ApplyRejected, Give
<1>3. \A a \in done : a \in loaded /\ ModuleOf[a] \in failed'
  BY DEF ApplyRejected, LoadedOf
<1>4. Types'
  <2>1. given' \in [Assemblies -> Seq(Deltas)]
    BY <1>1, AppendProperties DEF ApplyRejected, Give, Inv, Types
  <2>2. agents' \in Seq([stash : Seq(Modules)])
    BY DEF ApplyRejected, NewAgent, Inv, Types
  <2> QED
    BY <1>1, <2>1, <2>2 DEF ApplyRejected, Inv, Types
<1>5. StashMatchesHistory'
  BY NewAgentStashesNothing DEF ApplyRejected, Inv, StashMatchesHistory
<1>6. Unpatched'
  BY <1>2, <1>3 DEF ApplyRejected, Inv, Unpatched
<1>7. EarlyAssembliesFollow' /\ LateAssembliesPatchedAsOften'
  BY <1>2, <1>3
  DEF ApplyRejected, Inv, Types, EarlyAssembliesFollow, LateAssembliesPatchedAsOften
<1> QED
  BY <1>4, <1>5, <1>6, <1>7 DEF Inv
-----------------------------------------------------------------------------
\* What an agent applies n times is a sequence of n deltas.
LEMMA RepeatedDelta ==
  ASSUME NEW n \in Nat, NEW d \in Deltas
  PROVE  /\ [i \in 1..n |-> d] \in Seq(Deltas)
         /\ Len([i \in 1..n |-> d]) = n
         /\ n = 0 => [i \in 1..n |-> d] = <<>>
OBVIOUS

\* An assembly loaded late gets what is stashed for its module.
LEMMA LoadInv ==
  ASSUME Inv, NEW a \in Assemblies, Load(a)
  PROVE  Inv'
<1> DEFINE m == ModuleOf[a]
           s == [i \in 1..Stashed(m) |-> updateDelta]
<1>1. m \in Modules
  BY HotReloadAssumption DEF HotReloadAssumption
<1>2. Stashed(m) \in Nat /\ Stashed(m) = Len(history[m])
  BY <1>1, EntriesFinite DEF Inv, StashMatchesHistory
<1>3. s \in Seq(Deltas) /\ Len(s) = Stashed(m) /\ (Stashed(m) = 0 => s = <<>>)
  BY <1>2, RepeatedDelta DEF Inv, Types
<1> HIDE DEF s
<1>4. given' = [given EXCEPT ![a] = s]
  <2>1. given[a] = <<>>
    BY DEF Load, Inv, Unpatched
  <2>2. <<>> \o s = s
    BY <1>3, ConcatEmptySeq
  <2>3. given' = [given EXCEPT ![a] = given[a] \o s]
    BY DEF Load, s
  <2> QED
    BY <2>1, <2>2, <2>3
<1>5. Types'
  <2>1. given' \in [Assemblies -> Seq(Deltas)]
    BY <1>3, <1>4 DEF Inv, Types
  <2> QED
    BY <2>1 DEF Load, Inv, Types
<1>6. \A b \in Assemblies : given'[b] = IF b = a THEN s ELSE given[b]
  BY <1>4 DEF Inv, Types
<1>7. Unpatched'
  BY <1>6 DEF Load, Inv, Unpatched
<1>8. StashMatchesHistory'
  BY DEF Load, Inv, StashMatchesHistory, Stashed, Entries
<1>9. EarlyAssembliesFollow'
  <2>1. history[m] = <<>> => s = history[m]
    BY <1>2, <1>3, EmptySeq
  <2>2. a \in early' => history[m] = <<>>
    BY DEF Load, Inv, Types
  <2> QED
    BY <1>6, <2>1, <2>2 DEF Load, Inv, Types, EarlyAssembliesFollow
<1>10. LateAssembliesPatchedAsOften'
  BY <1>2, <1>3, <1>6 DEF Load, Inv, Types, LateAssembliesPatchedAsOften
<1> QED
  BY <1>5, <1>7, <1>8, <1>9, <1>10 DEF Inv

\* One that rejects what is stashed belongs to a failed module from then on.
LEMMA LoadRejectedInv ==
  ASSUME Inv, NEW a \in Assemblies, NEW n \in Nat, LoadRejected(a, n)
  PROVE  Inv'
<1> DEFINE s == [i \in 1..n |-> updateDelta]
<1>1. s \in Seq(Deltas)
  BY RepeatedDelta DEF Inv, Types
<1>2. given' = [given EXCEPT ![a] = given[a] \o s]
  BY DEF LoadRejected
<1> HIDE DEF s
<1>3. Types'
  <2>1. given[a] \o s \in Seq(Deltas)
    BY <1>1, ConcatProperties DEF Inv, Types
  <2>2. given' \in [Assemblies -> Seq(Deltas)]
    BY <1>2, <2>1 DEF Inv, Types
  <2> QED
    BY <2>2 DEF LoadRejected, Inv, Types
<1>4. \A b \in Assemblies : b # a => given'[b] = given[b]
  BY <1>2 DEF Inv, Types
<1>5. Unpatched'
  BY <1>4 DEF LoadRejected, Inv, Unpatched
<1>6. StashMatchesHistory'
  BY DEF LoadRejected, Inv, StashMatchesHistory, Stashed, Entries
<1>7. EarlyAssembliesFollow' /\ LateAssembliesPatchedAsOften'
  BY <1>4
  DEF LoadRejected, Inv, Types, EarlyAssembliesFollow, LateAssembliesPatchedAsOften
<1> QED
  BY <1>3, <1>5, <1>6, <1>7 DEF Inv

\* Every step keeps the invariant.
LEMMA NextInv == Inv /\ [Next]_vars => Inv'
<1> SUFFICES ASSUME Inv, [Next]_vars PROVE Inv'  OBVIOUS
<1>1. CASE InitializeHotReload
  BY <1>1, NothingGiven DEF InitializeHotReload, Rest, Inv, Types
<1>2. CASE Initialize
  BY <1>2, NothingGiven DEF Initialize, Rest, Inv, Types
<1>3. CASE SkipDelta
  BY <1>3, NothingGiven DEF SkipDelta, Inv, Types
<1>4. CASE HandlersDone
  BY <1>4, NothingGiven DEF HandlersDone, Inv, Types
<1>5. ASSUME NEW m \in Modules, ApplyHotReload(m) PROVE Inv'
  BY <1>5, ApplyHotReloadInv
<1>6. ASSUME NEW m \in Modules, NEW done, ApplyRejected(m, done) PROVE Inv'
  BY <1>6, ApplyRejectedInv
<1>7. ASSUME NEW a \in Assemblies, Load(a) PROVE Inv'
  BY <1>7, LoadInv
<1>8. ASSUME NEW a \in Assemblies, NEW n \in 0..(MaxDeltas - 1), LoadRejected(a, n) PROVE Inv'
  <2>1. n \in Nat
    BY HotReloadAssumption DEF HotReloadAssumption
  <2> QED
    BY <1>8, <2>1, LoadRejectedInv
<1>9. CASE UNCHANGED vars
  BY <1>9, NothingGiven DEF vars, Inv, Types
<1> QED
  BY <1>1, <1>2, <1>3, <1>4, <1>5, <1>6, <1>7, <1>8, <1>9 DEF Next
-----------------------------------------------------------------------------
(* Whatever is sent, rejected or loaded in between, the stashes of all     *)
(* agents together hold one entry per delta of a module that was applied   *)
(* (HotReloadAgent.cs:45-49).                                              *)
THEOREM HotReloadInductive == Spec => []Inv
BY InitInv, NextInv, PTL DEF Spec

(* An assembly loaded before the first delta of its module gets each delta *)
(* once and in order, however many agents were created meanwhile           *)
(* (HotReloadAgent.cs:193-204).                                            *)
THEOREM EarlyFollow == Spec => []EarlyAssembliesFollow
<1>1. Inv => EarlyAssembliesFollow
  BY DEF Inv
<1> QED
  BY <1>1, HotReloadInductive, PTL

(* An assembly loaded later is patched as often as its module was          *)
(* (HotReloadAgent.cs:45-49).                                              *)
THEOREM LatePatchedAsOften == Spec => []LateAssembliesPatchedAsOften
<1>1. Inv => LateAssembliesPatchedAsOften
  BY DEF Inv
<1> QED
  BY <1>1, HotReloadInductive, PTL
-----------------------------------------------------------------------------
(* The order of the update handlers, for every array of assemblies and     *)
(* every graph of references.  What is visited is sorted or on the stack,  *)
(* once; the calls on the stack lead from one to the next; hence what a    *)
(* call that ends references is sorted already or leads back to it.        *)

Calls == [assembly : 1..Count, left : SUBSET Names]

SortTypes ==
  /\ name \in [1..Count -> Names] /\ references \in [1..Count -> SUBSET Names]
  /\ next \in 1..Count + 1 /\ visited \in SUBSET Names
  /\ stack \in Seq(Calls) /\ sorted \in Seq(1..Count)

SortedName(i) == name[sorted[i]]
CallName(k) == name[stack[k].assembly]

VisitedOnce ==
  /\ \A i \in DOMAIN sorted : SortedName(i) \in visited
  /\ \A k \in DOMAIN stack : CallName(k) \in visited
  /\ \A n \in visited : \/ \E i \in DOMAIN sorted : SortedName(i) = n
                        \/ \E k \in DOMAIN stack : CallName(k) = n
  /\ \A i, j \in DOMAIN sorted : SortedName(i) = SortedName(j) => i = j
  /\ \A k, l \in DOMAIN stack : CallName(k) = CallName(l) => k = l
  /\ \A i \in DOMAIN sorted, k \in DOMAIN stack : SortedName(i) # CallName(k)

LoopVisited == \A a \in 1..Count : a < next => name[a] \in visited

CallsFound == \A k \in DOMAIN stack : Order!IsFound(stack[k].assembly, CallName(k))

IsLoaded(n) == \E a \in 1..Count : name[a] = n

LeftAreReferences ==
  \A k \in DOMAIN stack : stack[k].left \subseteq references[stack[k].assembly]

ReferencesLookedAt ==
  \A k \in DOMAIN stack : \A n \in references[stack[k].assembly] :
    n \in stack[k].left \/ n \in visited \/ ~IsLoaded(n)

CallsChained ==
  \A k, l \in DOMAIN stack : k < l => Order!LeadsTo(CallName(k), CallName(l))

ReferencesBefore ==
  \A i \in DOMAIN sorted : \A n \in references[sorted[i]] :
    \/ ~IsLoaded(n) \/ Order!LeadsTo(n, SortedName(i))
    \/ \E j \in DOMAIN sorted : j < i /\ SortedName(j) = n

SortInv ==
  /\ SortTypes /\ VisitedOnce /\ LoopVisited /\ CallsFound
  /\ LeftAreReferences /\ ReferencesLookedAt /\ CallsChained /\ ReferencesBefore

LEMMA SortNumbers ==
  ASSUME SortTypes
  PROVE  /\ Count \in Nat /\ next \in Nat
         /\ Len(stack) \in Nat /\ DOMAIN stack = 1..Len(stack)
         /\ Len(sorted) \in Nat /\ DOMAIN sorted = 1..Len(sorted)
         /\ \A k \in DOMAIN stack : /\ stack[k].assembly \in 1..Count
                                    /\ stack[k].left \in SUBSET Names
                                    /\ CallName(k) \in Names
         /\ \A i \in DOMAIN sorted : sorted[i] \in 1..Count /\ SortedName(i) \in Names
<1>1. Count \in Nat
  BY SortAssumption DEF SortAssumption
<1>2. next \in Nat
  BY <1>1 DEF SortTypes
<1>3. /\ Len(stack) \in Nat /\ DOMAIN stack = 1..Len(stack)
      /\ Len(sorted) \in Nat /\ DOMAIN sorted = 1..Len(sorted)
  BY DEF SortTypes
<1>4. \A k \in DOMAIN stack : stack[k] \in Calls
  BY <1>3, ElementOfSeq DEF SortTypes
<1>5. \A i \in DOMAIN sorted : sorted[i] \in 1..Count
  BY <1>3, ElementOfSeq DEF SortTypes
<1> QED
  BY <1>1, <1>2, <1>3, <1>4, <1>5 DEF SortTypes, Calls, CallName, SortedName

\* What a step of the sort does not change keeps its meaning.
LEMMA GraphKept ==
  ASSUME UNCHANGED <<name, references>>
  PROVE  /\ \A m \in Names, n \in Names : Order!LeadsTo(m, n) => Order!LeadsTo(m, n)'
         /\ \A n \in Names : IsLoaded(n)' = IsLoaded(n)
         /\ \A a \in 1..Count, n \in Names : Order!IsFound(a, n)' = Order!IsFound(a, n)
<1>1. \A a, n : Order!IsFound(a, n)' = Order!IsFound(a, n)
  BY DEF Order!IsFound
<1>2. \A S : Order!References(S)' = Order!References(S)
  BY <1>1 DEF Order!References
<1>3. \A m \in Names, n \in Names : Order!LeadsTo(m, n) => Order!LeadsTo(m, n)'
  BY <1>2 DEF Order!LeadsTo
<1>4. \A n \in Names : IsLoaded(n)' = IsLoaded(n)
  BY DEF IsLoaded
<1> QED
  BY <1>1, <1>3, <1>4

\* A reference of the assembly found for a name extends what leads there.
LEMMA OneStep ==
  ASSUME NEW a \in 1..Count, NEW m, Order!IsFound(a, m), NEW n \in references[a]
  PROVE  /\ Order!LeadsTo(m, n)
         /\ \A k : Order!LeadsTo(k, m) => Order!LeadsTo(k, n)
<1>1. \A S : m \in S => n \in Order!References(S)
  BY DEF Order!References, Order!Positions
<1> QED
  BY <1>1 DEF Order!LeadsTo

LEMMA SortInitInv == Order!Init => SortInv
<1> SUFFICES ASSUME Order!Init PROVE SortInv  OBVIOUS
<1> USE DEF Order!Init
<1>1. Count \in Nat
  BY SortAssumption DEF SortAssumption
<1>2. SortTypes
  BY <1>1 DEF SortTypes, Order!Positions
<1>3. VisitedOnce /\ LoopVisited
  BY <1>1 DEF VisitedOnce, LoopVisited
<1>4. CallsFound /\ LeftAreReferences /\ ReferencesLookedAt
  BY DEF CallsFound, LeftAreReferences, ReferencesLookedAt
<1>5. CallsChained /\ ReferencesBefore
  BY DEF CallsChained, ReferencesBefore
<1> QED
  BY <1>2, <1>3, <1>4, <1>5 DEF SortInv

\* The calls after a reference was looked at: the same, with less left.
LookedAt(calls) ==
  /\ calls \in Seq(Calls) /\ Len(calls) = Len(stack)
  /\ \A k \in DOMAIN stack :
       /\ calls[k].assembly = stack[k].assembly /\ calls[k].left \subseteq stack[k].left
       /\ \A n \in stack[k].left : n \in calls[k].left \/ n \in visited' \/ ~IsLoaded(n)

\* Nothing to visit: the reference is not loaded, or was visited before.
LEMMA NoCallInv ==
  ASSUME SortInv, LookedAt(stack'), UNCHANGED <<name, references, sorted, visited>>,
         next' \in 1..Count + 1, LoopVisited'
  PROVE  SortInv'
<1>1. SortTypes /\ SortTypes'
  BY DEF SortInv, SortTypes, LookedAt
<1>2. /\ DOMAIN stack' = DOMAIN stack
      /\ \A k \in DOMAIN stack : stack'[k].assembly = stack[k].assembly
  BY <1>1, SortNumbers DEF LookedAt, SortTypes
<1>3. \A k \in DOMAIN stack : CallName(k)' = CallName(k) /\ CallName(k) \in Names
  BY <1>1, <1>2, SortNumbers DEF CallName
<1>4. VisitedOnce'
  <2>1. \A i \in DOMAIN sorted : SortedName(i)' = SortedName(i)
    BY DEF SortedName
  <2> QED
    BY <1>2, <1>3, <2>1 DEF SortInv, VisitedOnce
<1>5. CallsFound'
  <2>1. \A k \in DOMAIN stack : stack[k].assembly \in 1..Count
    BY <1>1, SortNumbers
  <2> QED
    BY <1>2, <1>3, <2>1, GraphKept DEF SortInv, CallsFound
<1>6. ReferencesLookedAt'
  <2> SUFFICES ASSUME NEW k \in DOMAIN stack, NEW n \in references[stack[k].assembly]
               PROVE  n \in stack'[k].left \/ n \in visited \/ ~IsLoaded(n)'
    BY <1>2 DEF ReferencesLookedAt
  <2>1. IsLoaded(n)' = IsLoaded(n)
    BY DEF IsLoaded
  <2> QED
    BY <2>1 DEF SortInv, ReferencesLookedAt, LookedAt
<1>7. CallsChained'
  BY <1>2, <1>3, GraphKept DEF SortInv, CallsChained
<1>8. ReferencesBefore'
  <2> SUFFICES ASSUME NEW i \in DOMAIN sorted, NEW n \in references[sorted[i]]
               PROVE  \/ ~IsLoaded(n)' \/ Order!LeadsTo(n, SortedName(i))'
                      \/ \E j \in DOMAIN sorted : j < i /\ SortedName(j)' = n
    BY DEF ReferencesBefore
  <2>1. n \in Names /\ SortedName(i) \in Names
    BY <1>1, SortNumbers DEF SortTypes
  <2>2. SortedName(i)' = SortedName(i) /\ \A j : SortedName(j)' = SortedName(j)
    BY DEF SortedName
  <2> QED
    BY <2>1, <2>2, GraphKept DEF SortInv, ReferencesBefore
<1>9. LeftAreReferences'
  BY <1>2 DEF SortInv, LeftAreReferences, LookedAt
<1> QED
  BY <1>1, <1>4, <1>5, <1>6, <1>7, <1>8, <1>9 DEF SortInv

(* A call more: for the first assembly of a name not visited, to which the *)
(* calls on the stack lead.                                                *)
LEMMA CallInv ==
  ASSUME SortInv, NEW calls, LookedAt(calls), UNCHANGED <<name, references, sorted>>,
         NEW a \in 1..Count, NEW n \in Names, Order!IsFound(a, n), n \notin visited,
         visited' = visited \cup {n}, stack' = Append(calls, Order!Frame(a)),
         \A k \in DOMAIN stack : Order!LeadsTo(CallName(k), n),
         next' \in 1..Count + 1, LoopVisited'
  PROVE  SortInv'
<1>1. SortTypes /\ name[a] = n
  BY DEF SortInv, Order!IsFound
<1>2. /\ Len(stack) \in Nat /\ DOMAIN stack = 1..Len(stack)
      /\ \A k \in DOMAIN stack : stack[k].assembly \in 1..Count /\ CallName(k) \in Names
      /\ \A i \in DOMAIN sorted : sorted[i] \in 1..Count /\ SortedName(i) \in Names
  BY <1>1, SortNumbers
<1> PICK top : top = Len(stack) + 1
  OBVIOUS
<1>3. Order!Frame(a) \in Calls
  BY <1>1 DEF SortTypes, Calls, Order!Frame
<1>4. /\ stack' \in Seq(Calls) /\ DOMAIN stack' = 1..top
      /\ \A k \in DOMAIN stack : stack'[k] = calls[k]
      /\ stack'[top] = Order!Frame(a)
  <2>1. calls \in Seq(Calls) /\ Len(calls) = Len(stack)
    BY DEF LookedAt
  <2>2. /\ stack' \in Seq(Calls) /\ Len(stack') = Len(stack) + 1
        /\ \A k \in 1..Len(stack) : stack'[k] = calls[k]
        /\ stack'[Len(stack) + 1] = Order!Frame(a)
    BY <1>3, <2>1, AppendProperties
  <2> QED
    BY <1>2, <2>2
<1>5. SortTypes'
  BY <1>1, <1>4 DEF SortTypes
<1>6. /\ \A k \in DOMAIN stack' : k \in DOMAIN stack \/ k = top
      /\ top \in DOMAIN stack' /\ DOMAIN stack \subseteq DOMAIN stack'
      /\ \A k \in DOMAIN stack : k \in Nat /\ k < top
  BY <1>2, <1>4
<1>7. /\ stack'[top].assembly = a /\ stack'[top].left = references[a]
      /\ \A k \in DOMAIN stack : stack'[k].assembly = stack[k].assembly
  BY <1>4 DEF Order!Frame, LookedAt
<1>8. /\ CallName(top)' = n
      /\ \A k \in DOMAIN stack : CallName(k)' = CallName(k)
      /\ \A i : SortedName(i)' = SortedName(i)
  BY <1>1, <1>7 DEF CallName, SortedName
<1>9. VisitedOnce'
  <2>1. /\ \A i \in DOMAIN sorted : SortedName(i) # n
        /\ \A k \in DOMAIN stack : CallName(k) # n
    BY DEF SortInv, VisitedOnce
  <2>2. \A m \in visited' : \/ \E i \in DOMAIN sorted' : SortedName(i)' = m
                            \/ \E k \in DOMAIN stack' : CallName(k)' = m
    BY <1>6, <1>8 DEF SortInv, VisitedOnce
  <2>3. /\ \A i \in DOMAIN sorted' : SortedName(i)' \in visited'
        /\ \A k \in DOMAIN stack' : CallName(k)' \in visited'
        /\ \A i, j \in DOMAIN sorted' : SortedName(i)' = SortedName(j)' => i = j
    BY <1>6, <1>8 DEF SortInv, VisitedOnce
  <2>4. \A k, l \in DOMAIN stack' : CallName(k)' = CallName(l)' => k = l
    BY <1>6, <1>8, <2>1 DEF SortInv, VisitedOnce
  <2>5. \A i \in DOMAIN sorted', k \in DOMAIN stack' : SortedName(i)' # CallName(k)'
    BY <1>6, <1>8, <2>1 DEF SortInv, VisitedOnce
  <2> QED
    BY <2>2, <2>3, <2>4, <2>5 DEF VisitedOnce
<1>10. CallsFound'
  <2>1. Order!IsFound(a, n)'
    BY GraphKept
  <2> QED
    BY <1>2, <1>6, <1>7, <1>8, <2>1, GraphKept DEF SortInv, CallsFound
<1>11. ReferencesLookedAt'
  <2> SUFFICES ASSUME NEW k \in DOMAIN stack', NEW m \in references'[stack'[k].assembly]
               PROVE  m \in stack'[k].left \/ m \in visited' \/ ~IsLoaded(m)'
    BY DEF ReferencesLookedAt
  <2>1. IsLoaded(m)' = IsLoaded(m)
    BY DEF IsLoaded
  <2>2. CASE k = top
    BY <1>7, <2>2
  <2>3. CASE k \in DOMAIN stack
    BY <1>4, <1>7, <2>1, <2>3 DEF SortInv, ReferencesLookedAt, LookedAt
  <2> QED
    BY <1>6, <2>2, <2>3
<1>12. CallsChained'
  <2> SUFFICES ASSUME NEW k \in DOMAIN stack', NEW l \in DOMAIN stack', k < l
               PROVE  Order!LeadsTo(CallName(k), CallName(l))'
    BY DEF CallsChained
  <2>1. k \in DOMAIN stack
    BY <1>4, <1>6
  <2>2. CallName(k) \in Names /\ CallName(k)' = CallName(k)
    BY <1>2, <1>8, <2>1
  <2>3. CASE l = top
    BY <1>8, <2>1, <2>2, <2>3, GraphKept
  <2>4. CASE l \in DOMAIN stack
    BY <1>2, <1>8, <2>1, <2>2, <2>4, GraphKept DEF SortInv, CallsChained
  <2> QED
    BY <1>6, <2>3, <2>4
<1>13. ReferencesBefore'
  <2> SUFFICES ASSUME NEW i \in DOMAIN sorted, NEW m \in references[sorted[i]]
               PROVE  \/ ~IsLoaded(m)' \/ Order!LeadsTo(m, SortedName(i))'
                      \/ \E j \in DOMAIN sorted : j < i /\ SortedName(j)' = m
    BY DEF ReferencesBefore
  <2>1. m \in Names /\ SortedName(i) \in Names
    BY <1>1, <1>2 DEF SortTypes
  <2> QED
    BY <1>8, <2>1, GraphKept DEF SortInv, ReferencesBefore
<1>14. LeftAreReferences'
  BY <1>4, <1>6, <1>7 DEF SortInv, LeftAreReferences, LookedAt
<1> QED
  BY <1>5, <1>9, <1>10, <1>11, <1>12, <1>13, <1>14 DEF SortInv

\* The loop over the array begins a call for the first assembly of a name.
LEMMA VisitNextInv == SortInv /\ Order!VisitNext => SortInv'
<1> SUFFICES ASSUME SortInv, Order!VisitNext PROVE SortInv'  OBVIOUS
<1>1. /\ stack = <<>> /\ next <= Count /\ next' = next + 1
      /\ visited' = visited \cup {name[next]}
      /\ stack' = IF name[next] \in visited THEN <<>> ELSE <<Order!Frame(next)>>
      /\ UNCHANGED <<name, references, sorted>>
  BY DEF Order!VisitNext
<1>2. SortTypes
  BY DEF SortInv
<1>3. /\ Count \in Nat /\ next \in Nat /\ next \in 1..Count /\ next' \in 1..Count + 1
      /\ name[next] \in Names
  BY <1>1, <1>2, SortNumbers DEF SortTypes
<1>4. LoopVisited'
  <2>1. \A a \in 1..Count : a < next' => a < next \/ a = next
    BY <1>1, <1>3
  <2> QED
    BY <1>1, <2>1 DEF SortInv, LoopVisited
<1>5. LookedAt(stack)
  BY <1>2 DEF LookedAt, SortTypes
<1>6. CASE name[next] \in visited
  <2>1. stack' = stack /\ visited' = visited
    BY <1>1, <1>6
  <2> QED
    BY <1>1, <1>3, <1>4, <1>5, <2>1, NoCallInv
<1>7. CASE name[next] \notin visited
  <2>1. Order!IsFound(next, name[next])
    <3>1. \A b \in 1..Count : b < next => name[b] # name[next]
      BY <1>7 DEF SortInv, LoopVisited
    <3> QED
      BY <1>3, <3>1 DEF Order!IsFound, Order!Positions
  <2>2. stack' = Append(stack, Order!Frame(next))
    BY <1>1, <1>7
  <2>3. DOMAIN stack = {}
    BY <1>1
  <2> QED
    BY <1>1, <1>3, <1>4, <1>5, <1>7, <2>1, <2>2, <2>3, CallInv
<1> QED
  BY <1>6, <1>7

\* The top call loses one reference, the others nothing.
LEMMA WithoutLooksAt ==
  ASSUME SortTypes, stack # <<>>, NEW n \in Names,
         n \in visited' \/ ~IsLoaded(n)
  PROVE  LookedAt(Order!Without(n))
<1> DEFINE call == stack[Len(stack)]
           rest == [call EXCEPT !.left = @ \ {n}]
<1>1. Len(stack) \in 1..Len(stack) /\ stack \in Seq(Calls) /\ DOMAIN stack = 1..Len(stack)
  BY SortNumbers DEF SortTypes
<1>2. call \in Calls
  BY <1>1, ElementOfSeq
<1>3. rest \in Calls /\ rest.assembly = call.assembly /\ rest.left = call.left \ {n}
  BY <1>2 DEF Calls
<1>4. Order!Without(n) = [stack EXCEPT ![Len(stack)] = rest]
  BY DEF Order!Without
<1> HIDE DEF rest
<1>5. /\ Order!Without(n) \in Seq(Calls) /\ Len(Order!Without(n)) = Len(stack)
      /\ \A k \in 1..Len(stack) :
           Order!Without(n)[k] = IF k = Len(stack) THEN rest ELSE stack[k]
  BY <1>1, <1>3, <1>4, ExceptSeq
<1> QED
  BY <1>1, <1>3, <1>5 DEF LookedAt

\* The next reference of the top call.
LEMMA VisitReferenceInv ==
  ASSUME SortInv, NEW n \in Names, Order!VisitReference(n)
  PROVE  SortInv'
<1>1. /\ stack # <<>> /\ n \in stack[Len(stack)].left
      /\ UNCHANGED <<name, references, next, sorted>>
  BY DEF Order!VisitReference
<1>2. SortTypes
  BY DEF SortInv
<1>3. next' \in 1..Count + 1
  BY <1>1, <1>2 DEF SortTypes
<1>4. ASSUME visited \subseteq visited' PROVE LoopVisited'
  BY <1>1, <1>4 DEF SortInv, LoopVisited
<1>5. /\ Len(stack) \in DOMAIN stack /\ DOMAIN stack = 1..Len(stack) /\ Len(stack) \in Nat
      /\ \A k \in DOMAIN stack : stack[k].assembly \in 1..Count
  BY <1>1, <1>2, SortNumbers DEF SortTypes
<1>6. n \in references[stack[Len(stack)].assembly]
  BY <1>1, <1>5 DEF SortInv, LeftAreReferences
<1>7. ASSUME NEW a \in Order!Positions, Order!IsFound(a, n), n \notin visited,
             visited' = visited \cup {n}, stack' = Append(Order!Without(n), Order!Frame(a))
      PROVE  SortInv'
  <2>1. LookedAt(Order!Without(n))
    BY <1>1, <1>2, <1>7, WithoutLooksAt
  <2>2. Order!IsFound(stack[Len(stack)].assembly, CallName(Len(stack)))
    BY <1>5 DEF SortInv, CallsFound
  <2>3. Order!LeadsTo(CallName(Len(stack)), n)
    BY <1>5, <1>6, <2>2, OneStep
  <2>4. \A k \in DOMAIN stack : Order!LeadsTo(CallName(k), n)
    <3> SUFFICES ASSUME NEW k \in DOMAIN stack PROVE Order!LeadsTo(CallName(k), n)
      OBVIOUS
    <3>1. k = Len(stack) \/ k < Len(stack)
      BY <1>5
    <3>2. k < Len(stack) => Order!LeadsTo(CallName(k), CallName(Len(stack)))
      BY <1>5 DEF SortInv, CallsChained
    <3> QED
      BY <1>5, <1>6, <2>2, <2>3, <3>1, <3>2, OneStep
  <2>5. a \in 1..Count
    BY DEF Order!Positions
  <2>6. LoopVisited'
    BY <1>4, <1>7
  <2> QED
    BY <1>1, <1>3, <1>7, <2>1, <2>4, <2>5, <2>6, CallInv
<1>8. ASSUME n \in visited \/ ~ \E a \in Order!Positions : name[a] = n,
             stack' = Order!Without(n), visited' = visited
      PROVE  SortInv'
  <2>1. n \in visited' \/ ~IsLoaded(n)
    BY <1>8 DEF IsLoaded, Order!Positions
  <2>2. LookedAt(stack')
    BY <1>1, <1>2, <1>8, <2>1, WithoutLooksAt
  <2>3. LoopVisited'
    BY <1>4, <1>8
  <2> QED
    BY <1>1, <1>3, <1>8, <2>2, <2>3, NoCallInv
<1> QED
  BY <1>7, <1>8 DEF Order!VisitReference

(* A call that ends has looked at all references of its assembly: each is  *)
(* sorted already, or is being visited and so leads to the assembly.       *)
LEMMA LeaveInv == SortInv /\ Order!Leave => SortInv'
<1> SUFFICES ASSUME SortInv, Order!Leave PROVE SortInv'  OBVIOUS
<1> PICK top : top = Len(stack)
  OBVIOUS
<1> PICK end : end = Len(sorted) + 1
  OBVIOUS
<1> PICK a : a = stack[top].assembly
  OBVIOUS
<1>1. /\ stack # <<>> /\ stack[top].left = {} /\ sorted' = Append(sorted, a)
      /\ stack' = SubSeq(stack, 1, top - 1)
      /\ UNCHANGED <<name, references, next, visited>>
  BY DEF Order!Leave
<1>2. SortTypes
  BY DEF SortInv
<1>3. /\ top \in Nat \ {0} /\ DOMAIN stack = 1..top
      /\ end \in Nat \ {0} /\ DOMAIN sorted = 1..end - 1
      /\ \A k \in DOMAIN stack : stack[k].assembly \in 1..Count /\ CallName(k) \in Names
      /\ \A i \in DOMAIN sorted : sorted[i] \in 1..Count /\ SortedName(i) \in Names
  BY <1>1, <1>2, SortNumbers DEF SortTypes
<1>4. top \in DOMAIN stack /\ a \in 1..Count /\ name[a] = CallName(top)
  BY <1>3 DEF CallName
<1>5. /\ stack' \in Seq(Calls) /\ DOMAIN stack' = 1..top - 1
      /\ \A k \in DOMAIN stack' : k \in DOMAIN stack /\ k < top /\ stack'[k] = stack[k]
  <2>1. \A k \in 1..top - 1 : stack[k] \in Calls
    BY <1>2, <1>3, ElementOfSeq DEF SortTypes
  <2>2. /\ stack' \in Seq(Calls) /\ Len(stack') = top - 1
        /\ \A k \in 1..top - 1 : stack'[k] = stack[k]
    BY <1>1, <1>3, <2>1, SubSeqProperties
  <2> QED
    BY <1>3, <2>2
<1>6. /\ sorted' \in Seq(1..Count) /\ DOMAIN sorted' = 1..end
      /\ \A i \in DOMAIN sorted : sorted'[i] = sorted[i]
      /\ sorted'[end] = a
  <2>1. /\ sorted' \in Seq(1..Count) /\ Len(sorted') = Len(sorted) + 1
        /\ \A i \in 1..Len(sorted) : sorted'[i] = sorted[i]
        /\ sorted'[Len(sorted) + 1] = a
    BY <1>1, <1>2, <1>4, AppendProperties DEF SortTypes
  <2> QED
    BY <1>3, <2>1
<1>7. \A i \in DOMAIN sorted' : (i \in DOMAIN sorted /\ i < end) \/ i = end
  BY <1>3, <1>6
<1>8. /\ SortedName(end)' = CallName(top)
      /\ \A i \in DOMAIN sorted : SortedName(i)' = SortedName(i)
      /\ \A k \in DOMAIN stack' : CallName(k)' = CallName(k)
  BY <1>1, <1>4, <1>5, <1>6 DEF SortedName, CallName
<1>9. SortTypes'
  BY <1>1, <1>2, <1>5, <1>6 DEF SortTypes
<1>10. VisitedOnce'
  <2>1. end \in DOMAIN sorted' /\ DOMAIN sorted \subseteq DOMAIN sorted'
    BY <1>3, <1>6
  <2>2. \A k \in DOMAIN stack : k = top \/ k \in DOMAIN stack'
    BY <1>3, <1>5
  <2>3. \A m \in visited' : \/ \E i \in DOMAIN sorted' : SortedName(i)' = m
                            \/ \E k \in DOMAIN stack' : CallName(k)' = m
    BY <1>1, <1>8, <2>1, <2>2 DEF SortInv, VisitedOnce
  <2>4. /\ \A i \in DOMAIN sorted' : SortedName(i)' \in visited'
        /\ \A k \in DOMAIN stack' : CallName(k)' \in visited'
    BY <1>1, <1>4, <1>5, <1>7, <1>8 DEF SortInv, VisitedOnce
  <2>5. \A i, j \in DOMAIN sorted' : SortedName(i)' = SortedName(j)' => i = j
    <3>1. \A i \in DOMAIN sorted : SortedName(i) # CallName(top)
      BY <1>4 DEF SortInv, VisitedOnce
    <3>2. \A i, j \in DOMAIN sorted : SortedName(i) = SortedName(j) => i = j
      BY DEF SortInv, VisitedOnce
    <3> QED
      BY <1>7, <1>8, <3>1, <3>2
  <2>6. \A k, l \in DOMAIN stack' : CallName(k)' = CallName(l)' => k = l
    BY <1>5, <1>8 DEF SortInv, VisitedOnce
  <2>7. \A i \in DOMAIN sorted', k \in DOMAIN stack' : SortedName(i)' # CallName(k)'
    <3>1. \A k \in DOMAIN stack' : CallName(k) # CallName(top)
      BY <1>3, <1>4, <1>5 DEF SortInv, VisitedOnce
    <3>2. \A i \in DOMAIN sorted, k \in DOMAIN stack' : SortedName(i) # CallName(k)
      BY <1>5 DEF SortInv, VisitedOnce
    <3> QED
      BY <1>7, <1>8, <3>1, <3>2
  <2> QED
    BY <2>3, <2>4, <2>5, <2>6, <2>7 DEF VisitedOnce
<1>11. LoopVisited'
  BY <1>1 DEF SortInv, LoopVisited
<1>12. CallsFound'
  BY <1>1, <1>3, <1>5, <1>8, GraphKept DEF SortInv, CallsFound
<1>13. LeftAreReferences' /\ ReferencesLookedAt'
  BY <1>1, <1>5 DEF SortInv, LeftAreReferences, ReferencesLookedAt, IsLoaded
<1>14. CallsChained'
  BY <1>1, <1>3, <1>5, <1>8, GraphKept DEF SortInv, CallsChained
<1>15. ReferencesBefore'
  <2> SUFFICES ASSUME NEW i \in DOMAIN sorted', NEW m \in references[sorted'[i]]
               PROVE  \/ ~IsLoaded(m)' \/ Order!LeadsTo(m, SortedName(i))'
                      \/ \E j \in DOMAIN sorted' : j < i /\ SortedName(j)' = m
    BY <1>1 DEF ReferencesBefore
  <2>1. DOMAIN sorted \subseteq DOMAIN sorted' /\ sorted'[i] \in 1..Count
    BY <1>3, <1>4, <1>6, <1>7
  <2>2. m \in Names /\ IsLoaded(m)' = IsLoaded(m)
    BY <1>1, <1>2, <2>1 DEF SortTypes, IsLoaded
  <2>3. CASE i \in DOMAIN sorted
    <3>1. \/ ~IsLoaded(m) \/ Order!LeadsTo(m, SortedName(i))
          \/ \E j \in DOMAIN sorted : j < i /\ SortedName(j) = m
      BY <1>6, <2>3 DEF SortInv, ReferencesBefore
    <3>2. Order!LeadsTo(m, SortedName(i)) => Order!LeadsTo(m, SortedName(i))'
      BY <1>1, <1>3, <1>8, <2>2, <2>3, GraphKept
    <3> QED
      BY <1>8, <2>1, <2>2, <3>1, <3>2
  <2>4. CASE i = end
    <3>1. m \in references[a]
      BY <1>6, <2>4
    <3>2. m \in visited \/ ~IsLoaded(m)
      BY <1>1, <1>4, <3>1 DEF SortInv, ReferencesLookedAt
    <3>3. Order!LeadsTo(m, CallName(top)) => Order!LeadsTo(m, SortedName(i))'
      BY <1>1, <1>3, <1>4, <1>8, <2>2, <2>4, GraphKept
    <3>4. ASSUME NEW j \in DOMAIN sorted, SortedName(j) = m
          PROVE  j \in DOMAIN sorted' /\ j < i /\ SortedName(j)' = m
      BY <1>3, <1>8, <2>1, <2>4, <3>4
    <3>5. ASSUME NEW k \in DOMAIN stack, CallName(k) = m
          PROVE  Order!LeadsTo(m, CallName(top))
      <4>1. CASE k = top
        <5>1. Order!IsFound(a, m)
          BY <1>4, <3>5, <4>1 DEF SortInv, CallsFound
        <5> QED
          BY <1>4, <3>1, <3>5, <4>1, <5>1, OneStep
      <4>2. CASE k < top
        BY <1>4, <3>5, <4>2 DEF SortInv, CallsChained
      <4> QED
        BY <1>3, <4>1, <4>2
    <3> QED
      BY <2>2, <3>2, <3>3, <3>4, <3>5 DEF SortInv, VisitedOnce
  <2> QED
    BY <1>7, <2>3, <2>4
<1> QED
  BY <1>9, <1>10, <1>11, <1>12, <1>13, <1>14, <1>15 DEF SortInv

LEMMA SortNextInv == SortInv /\ [Order!Next]_order => SortInv'
<1> SUFFICES ASSUME SortInv, [Order!Next]_order PROVE SortInv'  OBVIOUS
<1>1. CASE UNCHANGED order
  <2>1. /\ UNCHANGED <<name, references, sorted, visited>>
        /\ next' = next /\ stack' = stack
    BY <1>1 DEF order
  <2>2. LookedAt(stack') /\ next' \in 1..Count + 1
    BY <2>1 DEF SortInv, SortTypes, LookedAt
  <2>3. LoopVisited'
    BY <2>1 DEF SortInv, LoopVisited
  <2> QED
    BY <2>1, <2>2, <2>3, NoCallInv
<1> QED
  BY <1>1, VisitNextInv, VisitReferenceInv, LeaveInv DEF Order!Next

(* For every array and every graph, cycles, names that are borne twice or  *)
(* not loaded included: what is sorted or being visited, and why what an   *)
(* assembly references precedes it.                                        *)
THEOREM SortInductive == Order!Spec => []SortInv
BY SortInitInv, SortNextInv, PTL DEF Order!Spec, Order!vars, order

(* Handlers of a dependency run before those of the dependent unless the   *)
(* dependency leads back to it, and no name is dropped or sorted twice     *)
(* (HotReloadAgent.cs:62-66, 156-190).                                     *)
THEOREM HandlersInOrder == Order!Spec => []HandlersOrdered
<1>1. SortInv => Order!DependenciesFirst
  <2> SUFFICES ASSUME SortInv, NEW i \in DOMAIN sorted, NEW j \in DOMAIN sorted,
                      SortedName(j) \in references[sorted[i]],
                      ~Order!LeadsTo(SortedName(j), SortedName(i))
               PROVE  j < i
    BY DEF Order!DependenciesFirst, SortedName
  <2>1. sorted[j] \in 1..Count
    BY SortNumbers DEF SortInv
  <2>2. IsLoaded(SortedName(j))
    BY <2>1 DEF IsLoaded, SortedName
  <2>3. PICK k \in DOMAIN sorted : k < i /\ SortedName(k) = SortedName(j)
    BY <2>2 DEF SortInv, ReferencesBefore
  <2> QED
    BY <2>3 DEF SortInv, VisitedOnce
<1>2. SortInv => Order!EveryNameOnce
  <2> SUFFICES ASSUME SortInv, Order!Done, NEW n \in {name[a] : a \in Order!Positions}
               PROVE  \E i \in DOMAIN sorted :
                        \A j \in DOMAIN sorted : name[sorted[j]] = n <=> j = i
    BY DEF Order!EveryNameOnce
  <2> PICK a \in 1..Count : name[a] = n
    BY DEF Order!Positions
  <2>1. a < next /\ DOMAIN stack = {}
    <3>1. Count \in Nat /\ next \in Nat /\ next > Count /\ stack = <<>>
      BY SortNumbers DEF Order!Done, SortInv
    <3> QED
      BY <3>1
  <2>2. PICK i \in DOMAIN sorted : SortedName(i) = n
    BY <2>1 DEF SortInv, LoopVisited, VisitedOnce
  <2> QED
    BY <2>2 DEF SortInv, VisitedOnce, SortedName
<1> QED
  BY <1>1, <1>2, SortInductive, PTL DEF HandlersOrdered
=============================================================================
