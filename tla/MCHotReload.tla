---------------------------- MODULE MCHotReload -----------------------------
(***************************************************************************)
(* The two halves of the hot reload agent for one run: the deltas it       *)
(* applies and keeps (HotReload), and the order in which it lets update    *)
(* handlers run (HandlerOrder).  They share nothing; subject says which    *)
(* one a behaviour is about, and the other stays in an initial state.  Two *)
(* of the assemblies have one module, as two load contexts make them.      *)
(***************************************************************************)
EXTENDS HotReload

CONSTANTS m1, m2, a1, a2, b1,
          Count, Names            \* of HandlerOrder

ASSUME SortAssumption == Count \in Nat /\ Names # {}

VARIABLES subject, name, references, next, visited, stack, sorted

Order == INSTANCE HandlerOrder

order == <<name, references, next, visited, stack, sorted>>

MCModules == {m1, m2}
MCAssemblies == {a1, a2, b1}
MCModuleOf == [a \in MCAssemblies |-> IF a = b1 THEN m2 ELSE m1]
-----------------------------------------------------------------------------
ReloadIdle == Init /\ linkerEnabled /\ loaded = {}

OrderIdle ==
  /\ Order!Init
  /\ name = [a \in 1..Count |-> CHOOSE n \in Names : TRUE]
  /\ references = [a \in 1..Count |-> {}]

MCInit ==
  \/ subject = "reload" /\ Init /\ OrderIdle
  \/ subject = "sort" /\ Order!Init /\ ReloadIdle

ReloadStep == subject = "reload" /\ Next /\ UNCHANGED <<subject, order>>
OrderStep == subject = "sort" /\ Order!Next /\ UNCHANGED <<subject, vars>>

MCNext == ReloadStep \/ OrderStep

\* The thread that sorts goes on.
MCSpec == MCInit /\ [][MCNext]_<<subject, vars, order>> /\ WF_order(OrderStep)
-----------------------------------------------------------------------------
(* "sort assemblies so that handlers in a dependency are executed before   *)
(* the dependent" (HotReloadAgent.cs:62-66), on every graph of references; *)
(* and nothing is dropped but further assemblies of one name (170-174).    *)
HandlersOrdered == Order!DependenciesFirst /\ Order!EveryNameOnce

\* The visit ends, on cycles of references too (HotReloadAgent.cs:171).
SortEnds == subject = "sort" ~> (subject = "sort" /\ Order!Done)
=============================================================================
