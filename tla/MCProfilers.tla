----------------------------- MODULE MCProfilers -----------------------------
(***************************************************************************)
(* The profilers of a runtime for one run: their keys and calls in a page  *)
(* (Profilers), the commands a page sends to a runtime in a web worker     *)
(* (WebWorker), and the snapshot of native allocations that either of them *)
(* downloads (MemorySnapshot).  They share no state; subject says which    *)
(* one a behaviour is about, and the others stay in an initial state.      *)
(***************************************************************************)
EXTENDS MemorySnapshot

CONSTANTS
  fa, fb,                      \* functions of the snapshot
  NumDependencies,             \* of WebWorker
  MaxCommands,
  MaxPresses, MaxEvents        \* of Profilers

ASSUME HostsAssumption ==
  {NumDependencies, MaxCommands, MaxPresses, MaxEvents} \subseteq Nat

VARIABLES
  subject,
  boot, loaded, main, listening, saving, toHost, toWorker, kind, answers, inTime, status,
  enabled, drains, setup, keys, flush, timer, pressed, stage, recorded, written,
  dumped, wanted, saved

Worker == INSTANCE WebWorker
Page == INSTANCE Profilers

worker == <<boot, loaded, main, listening, saving, toHost, toWorker, kind, answers,
            inTime, status>>
page == <<enabled, drains, setup, keys, flush, timer, pressed, stage, recorded,
          written, dumped, wanted, saved>>
all == <<subject, vars, worker, page>>
-----------------------------------------------------------------------------
MCFunctions == {fa, fb}

(* Stacks without a frame, with a line that is none, of one frame and of   *)
(* two; freed entries have no bytes.                                       *)
Line(a, p, h) == [at |-> a, prefixed |-> p, function |-> h]
OneFrame == {Line(TRUE, p, h) : p \in BOOLEAN, h \in MCFunctions}
Stacks ==
  {<<>>, <<Line(FALSE, FALSE, fa)>>}
    \cup {<<l>> : l \in OneFrame}
    \cup {<<Line(TRUE, TRUE, fa), Line(FALSE, FALSE, fa), l>> : l \in OneFrame}
MCEntries ==
  {e \in [stack : Stacks, count : {0, 1}, bytes : 0..2] : e.count = 0 => e.bytes = 0}
MCTables == UNION {[1..n -> MCEntries] : n \in 0..2}
-----------------------------------------------------------------------------
SnapshotIdle == Init /\ table = <<>>
PageIdle == Page!Init /\ enabled = {} /\ ~drains

MCInit ==
  \/ subject = "snapshot" /\ Init /\ Worker!Init /\ PageIdle
  \/ subject = "worker" /\ Worker!Init /\ SnapshotIdle /\ PageIdle
  \/ subject = "page" /\ Page!Init /\ SnapshotIdle /\ Worker!Init

OfSnapshot(A) == subject = "snapshot" /\ A /\ UNCHANGED <<subject, worker, page>>
InWorker(A) == subject = "worker" /\ A /\ UNCHANGED <<subject, vars, page>>
InPage(A) == subject = "page" /\ A /\ UNCHANGED <<subject, vars, worker>>

MCNext == OfSnapshot(Next) \/ InWorker(Worker!Next) \/ InPage(Page!Next)

(* Event loops run, timers fire, imports and exports resolve or reject.    *)
MCSpec ==
  /\ MCInit /\ [][MCNext]_all
  /\ WF_all(InWorker(Worker!Bootstrap)) /\ WF_all(InWorker(Worker!Dispatch))
  /\ WF_all(InWorker(Worker!HostReceives))
  /\ WF_all(InWorker(\E c \in Worker!Requests : Worker!SaveEnds(c)))
  /\ WF_all(InPage(Page!Tick))
  /\ WF_all(InPage(\E c \in Page!Calls : Page!Goes(c)))
-----------------------------------------------------------------------------
\* No request to a worker is answered twice (WorkerBootstrapper.ts:285-358).
OneAnswerEach == Worker!OneAnswerEach

\* A command sent to a worker that is ready is answered (WorkerBootstrapper.ts:91-102).
ReadyMeansHeard == Worker!ReadyMeansHeard

\* A save holds what was recorded before (LogProfilerSupport.ts:95-110).
SavedIsComplete == Page!SavedIsComplete

(* Every call of a profiler ends, whether its exports come or not, after   *)
(* another's were refused too (LogProfilerSupport.ts:78-86); as keys are   *)
(* pressed a bounded number of times, none is under way in the end.        *)
EveryCallEnds == []<>(\A c \in Page!Calls : stage[c] = "none" \/ Page!Ended(c))

\* The timer flushes what is recorded (LogProfilerSupport.ts:33-43).
FlushedByItself == Page!Flushing ~> (written = recorded)
=============================================================================
