------------------------------ MODULE FilePool ------------------------------
(***************************************************************************)
(* What cacheFilesWithConcurrency (Embedded/service-worker.js) promises    *)
(* the install handler, with the bookkeeping left out: a set of files is   *)
(* worked through in any order, at most MaxConcurrency of them at a time,  *)
(* and the call returns once every file has been dealt with.  CachePool is *)
(* the pool as the code implements it, and implements this one.            *)
(***************************************************************************)
EXTENDS Integers, FiniteSets

CONSTANTS Files,          \* the files of one call
          MaxConcurrency  \* parallel downloads allowed

VARIABLES running,   \* files being downloaded
          settled,   \* files whose download is over, well or badly
          returned   \* the call has returned

vars == <<running, settled, returned>>

Init == running = {} /\ settled = {} /\ returned = FALSE

(* Downloads D end and downloads S start, in one step of the event loop.   *)
Advance(D, S) ==
  /\ D \subseteq running
  /\ S \subseteq Files \ (running \cup settled)
  /\ Cardinality((running \ D) \cup S) <= MaxConcurrency
  /\ running' = (running \ D) \cup S
  /\ settled' = settled \cup D
  /\ UNCHANGED returned

Return ==
  /\ settled = Files
  /\ returned' = TRUE
  /\ UNCHANGED <<running, settled>>

Next == (\E D \in SUBSET running, S \in SUBSET Files : Advance(D, S)) \/ Return

Spec == Init /\ [][Next]_vars
=============================================================================
