-------------------------- MODULE ProgressEstimate --------------------------
(***************************************************************************)
(* The progress bar while the runtime downloads (Bootstrapper.ts:46-55,    *)
(* 633-799): the runtime reports how many resources it has loaded of a     *)
(* total that grows as it discovers them; the bootstrapper keeps a target  *)
(* the bar may reach, moves it, and shows the loaded share of the target.  *)
(*                                                                         *)
(* The code computes with floating-point percentages; here a percentage is *)
(* a whole number of units, Unit of them to one percent, rounded down.     *)
(* Time passes in ticks of 500 ms.  estimatedFinalTotal is left out after  *)
(* the start: the code updates it and logs it, and nothing reads it.       *)
(***************************************************************************)
EXTENDS Integers, Sequences

CONSTANTS Unit,        \* units in one percent
          Estimates,   \* possible estimates of the number of resources
          MaxTotal,    \* greatest number of resources reported (a bound)
          Gaps,        \* possible times between two reports, in ticks
          MaxReports   \* number of reports (a bound)

Lesser(a, b) == IF a < b THEN a ELSE b
Greater(a, b) == IF a < b THEN b ELSE a

Percent(n) == n * Unit
MinimumInitialTarget == Percent(30)
Reserve == Percent(95)
StallThreshold == 2        \* 1000 ms
HistoryWindow == 3         \* three times 500 ms
MinVelocitySamples == 2

VARIABLES
  phase,          \* "loading", or "started" when mainInit has cleaned up
  value,          \* progress.value
  lastReported,   \* _lastReportedValue
  target,         \* _currentTargetProgress
  previousTotal,  \* _previousTotalResources
  history,        \* _progressHistory: how long ago, and how many were loaded
  reports         \* number of reports (for the bound)

vars == <<phase, value, lastReported, target, previousTotal, history, reports>>

\* A fifth of the estimate, at least 30 % and at most 50 %.
InitialTarget(estimate) ==
  Greater(MinimumInitialTarget, Lesser((estimate * Unit) \div 5, Percent(50)))

(* initializeProgressEstimation, when the configuration is loaded; without *)
(* a list of assets there is no estimate.                                  *)
Init ==
  /\ phase = "loading"
  /\ value = 0
  /\ lastReported = 0
  /\ target \in {InitialTarget(estimate) : estimate \in Estimates} \cup {MinimumInitialTarget}
  /\ previousTotal = 0
  /\ history = <<>>
  /\ reports = 0
-----------------------------------------------------------------------------
\* The history with one more entry, without those that left the window.
Record(loaded, gap) ==
  LET aged == [i \in DOMAIN history |-> [history[i] EXCEPT !.age = @ + gap]]
  IN  SelectSeq(Append(aged, [age |-> 0, loaded |-> loaded]), LAMBDA e : e.age < HistoryWindow)

\* The target after a change of the total: half of the way to the reserve.
AfterTotal(total) ==
  IF total # previousTotal THEN target + (Reserve - target) \div 2 ELSE target

\* Something was loaded since the oldest entry of the history.
Moving(h, loaded) ==
  /\ Len(h) >= MinVelocitySamples
  /\ h[1].age > 0
  /\ loaded > h[1].loaded

\* The loaded share is nine tenths of the target's or more.
NearTarget(t, loaded, total) ==
  loaded * Percent(1000) >= t * 9 * Greater(total, 1)

Velocity(t, h, loaded, total) ==
  IF Moving(h, loaded) /\ NearTarget(t, loaded, total)
  THEN Lesser(Percent(10), (Percent(100) - t) \div 10)
  ELSE 0

Stall(t, gap) ==
  IF gap > StallThreshold THEN Lesser(Percent(2), (Reserve - t) \div 20) ELSE 0

\* A plausible slip: the adjusted target is not held below the reserve.
AdjustedUncapped(t, adjustment) == IF adjustment > 0 THEN t + adjustment ELSE t

Adjusted(t, adjustment) == IF adjustment > 0 THEN Lesser(t + adjustment, Reserve) ELSE t

\* A plausible slip: what was reported before is forgotten.
ShownForgetful(t, loaded, total) == Lesser((loaded * t) \div Greater(total, 1), t)

\* The loaded share of the target, and never less than what was reported before.
Shown(t, loaded, total) ==
  Greater(lastReported, Lesser((loaded * t) \div Greater(total, 1), t))

(* reportDownloadResourceProgress, gap after the last report.  The runtime *)
(* may report any pair of counts.                                          *)
Report(loaded, total, gap) ==
  /\ phase = "loading" /\ reports < MaxReports
  /\ reports' = reports + 1
  /\ history' = Record(loaded, gap)
  /\ previousTotal' = total
  /\ LET t == AfterTotal(total)
     IN  target' = Adjusted(t, Greater(Velocity(t, history', loaded, total), Stall(t, gap)))
  /\ value' = Shown(target', loaded, total)
  /\ lastReported' = value'
  /\ UNCHANGED phase

\* cleanupInit: the bar is full.
CleanupInit ==
  /\ phase = "loading"
  /\ phase' = "started"
  /\ value' = Percent(100)
  /\ UNCHANGED <<lastReported, target, previousTotal, history, reports>>

Next ==
  \/ \E loaded, total \in 0..MaxTotal, gap \in Gaps : Report(loaded, total, gap)
  \/ CleanupInit

Spec == Init /\ [][Next]_vars
-----------------------------------------------------------------------------
(* FR-6 (specs/001-download-workaround/spec.md:108): the final 5 % are     *)
(* reserved for what comes after the download, whatever the runtime        *)
(* reports and however the adjustments add up; and the bar stays within    *)
(* the target (Bootstrapper.ts:707-790).                                   *)
ReservedForStart ==
  /\ phase = "loading" => value = lastReported
  /\ lastReported <= target /\ target <= Reserve

(* FR-1 (specs/001-download-workaround/spec.md:98): the bar never goes     *)
(* back, "regardless of how the runtime reports resource counts", when the *)
(* total grows faster than what is loaded and when it shrinks              *)
(* (Bootstrapper.ts:781-790).                                              *)
NeverBackward == [][value' >= value /\ target' >= target]_vars
=============================================================================
