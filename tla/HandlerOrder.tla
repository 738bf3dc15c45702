---------------------------- MODULE HandlerOrder ----------------------------
(***************************************************************************)
(* HotReloadAgent.TopologicalSort: the order in which the update handlers  *)
(* of the loaded assemblies run.  An assembly is its position in the array *)
(* AppDomain.GetAssemblies returned; several may bear one name, and a      *)
(* reference names an assembly that need not be loaded.  The recursive     *)
(* Visit is written with its stack of calls: one action enters a call, one *)
(* looks at the next reference, one leaves.                                *)
(***************************************************************************)
EXTENDS Integers, Sequences

CONSTANTS Count,   \* length of the array
          Names    \* simple names

Positions == 1..Count

VARIABLES
  name,       \* per assembly: its name
  references, \* per assembly: the names it references
  next,       \* the loop over the array: the next index
  visited,    \* names visited
  stack,      \* calls of Visit: the assembly and the references left
  sorted      \* the list built

vars == <<name, references, next, visited, stack, sorted>>

Init ==
  /\ name \in [Positions -> Names]
  /\ references \in [Positions -> SUBSET Names]
  /\ next = 1
  /\ visited = {}
  /\ stack = <<>>
  /\ sorted = <<>>

Frame(a) == [assembly |-> a, left |-> references[a]]

\* Array.Find: the first assembly of the array with the name.
IsFound(a, n) == name[a] = n /\ \A b \in Positions : name[b] = n => a <= b

(* The outer loop calls Visit for the next assembly; a name seen before    *)
(* returns at once.                                                        *)
VisitNext ==
  /\ stack = <<>> /\ next <= Count
  /\ next' = next + 1
  /\ visited' = visited \cup {name[next]}
  /\ stack' = IF name[next] \in visited THEN <<>> ELSE <<Frame(next)>>
  /\ UNCHANGED <<name, references, sorted>>

\* The top call with reference n done.
Without(n) == [stack EXCEPT ![Len(stack)].left = @ \ {n}]

\* A plausible slip: a name is marked when its call ends, not when it begins.
VisitUnmarked(n) ==
  /\ stack # <<>> /\ n \in stack[Len(stack)].left /\ Len(stack) < Count + 2
  /\ \/ \E a \in Positions :
          /\ IsFound(a, n) /\ n \notin visited
          /\ stack' = Append(Without(n), Frame(a))
     \/ /\ n \in visited \/ ~ \E a \in Positions : name[a] = n
        /\ stack' = Without(n)
  /\ UNCHANGED <<name, references, next, visited, sorted>>

(* A reference: not loaded, or visited before (or still being visited, on  *)
(* a cycle), or the next call.  References are looked at in any order.     *)
VisitReference(n) ==
  /\ stack # <<>> /\ n \in stack[Len(stack)].left
  /\ \/ \E a \in Positions :
          /\ IsFound(a, n) /\ n \notin visited
          /\ visited' = visited \cup {n}
          /\ stack' = Append(Without(n), Frame(a))
     \/ /\ n \in visited \/ ~ \E a \in Positions : name[a] = n
        /\ stack' = Without(n)
        /\ UNCHANGED visited
  /\ UNCHANGED <<name, references, next, sorted>>

\* A plausible slip: the assembly is added before its references are visited.
LeaveAtOnce ==
  /\ stack # <<>>
  /\ sorted' = Append(sorted, stack[Len(stack)].assembly)
  /\ stack' = SubSeq(stack, 1, Len(stack) - 1)
  /\ UNCHANGED <<name, references, next, visited>>

Leave ==
  /\ stack # <<>> /\ stack[Len(stack)].left = {}
  /\ sorted' = Append(sorted, stack[Len(stack)].assembly)
  /\ stack' = SubSeq(stack, 1, Len(stack) - 1)
  /\ UNCHANGED <<name, references, next, visited>>

Next == VisitNext \/ (\E n \in Names : VisitReference(n)) \/ Leave

Spec == Init /\ [][Next]_vars
-----------------------------------------------------------------------------
Done == stack = <<>> /\ next > Count

\* What the loaded assemblies of some names reference.
References(N) == UNION {references[a] : a \in {b \in Positions :
                          \E n \in N : IsFound(b, n)}}

\* m is in every set of names that a step from n, and any further step, stays in.
LeadsTo(n, m) ==
  \A S \in SUBSET Names : References({n}) \cup References(S) \subseteq S => m \in S

(* "sort assemblies so that handlers in a dependency are executed before   *)
(* the dependent" (HotReloadAgent.cs:62-66): whenever m references n and n *)
(* does not lead back to m, n comes first, whatever the order of the array *)
(* and of the references, and whatever cycles there are elsewhere.         *)
DependenciesFirst ==
  \A i, j \in DOMAIN sorted :
    name[sorted[j]] \in references[sorted[i]]
      /\ ~LeadsTo(name[sorted[j]], name[sorted[i]]) => j < i

(* In the end every name is sorted once: nothing is dropped but the second *)
(* and further assemblies of one name (HotReloadAgent.cs:170-174).         *)
EveryNameOnce ==
  Done =>
    \A n \in {name[a] : a \in Positions} :
      \E i \in DOMAIN sorted : \A j \in DOMAIN sorted : name[sorted[j]] = n <=> j = i
=============================================================================
