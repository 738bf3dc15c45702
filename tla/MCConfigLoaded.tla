--------------------------- MODULE MCConfigLoaded ---------------------------
(***************************************************************************)
(* What configLoaded starts in the bootstrapper, for one run: it moves     *)
(* assemblies to the virtual file system (VfsLoad), and it sets up the     *)
(* estimate of the progress bar (ProgressEstimate).  The two share no      *)
(* state; subject says which one a behaviour is about, and the other stays *)
(* in an initial state.                                                    *)
(***************************************************************************)
EXTENDS VfsLoad

CONSTANTS
  Unit, Estimates, MaxTotal, Gaps, MaxReports   \* of ProgressEstimate

ASSUME ProgressAssumption ==
  /\ Unit \in Nat \ {0}
  /\ Estimates \subseteq Nat
  /\ Gaps \subseteq Nat
  /\ MaxTotal \in Nat /\ MaxReports \in Nat

VARIABLES
  subject,
  phase, value, lastReported, target, previousTotal, history, reports

Bar == INSTANCE ProgressEstimate

bar == <<phase, value, lastReported, target, previousTotal, history, reports>>
all == <<subject, vars, bar>>
-----------------------------------------------------------------------------
FilesIdle ==
  /\ Init /\ ~redirect /\ ~appReads /\ format = "array" /\ vfsShape = "absent"
  /\ content["coreAssembly"] = {} /\ content["pdb"] = Pdbs
  /\ content["assembly"] \subseteq [name : Critical \cup Libraries, ext : {"dll"}]
BarIdle == Bar!Init /\ target = Bar!MinimumInitialTarget

MCInit ==
  \/ subject = "files" /\ Init /\ BarIdle
  \/ subject = "bar" /\ Bar!Init /\ FilesIdle

OfFiles(A) == subject = "files" /\ A /\ UNCHANGED <<subject, bar>>
OfBar(A) == subject = "bar" /\ A /\ UNCHANGED <<subject, vars>>

MCNext == OfFiles(Next) \/ OfBar(Bar!Next)

MCSpec == MCInit /\ [][MCNext]_all
-----------------------------------------------------------------------------
\* The bar keeps a reserve for what follows the download (Bootstrapper.ts:707-790).
ReservedForStart == Bar!ReservedForStart

\* Neither the bar nor its target goes back (Bootstrapper.ts:781-790).
NeverBackward == Bar!NeverBackward
=============================================================================
