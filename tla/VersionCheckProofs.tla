------------------------- MODULE VersionCheckProofs -------------------------
(***************************************************************************)
(* Proofs about the inspection of the version checker, for any number of   *)
(* assemblies and any width of the gate.                                   *)
(***************************************************************************)
EXTENDS VersionCheck, FiniteSetTheorems, TLAPS

\* Downloads wait or go on only while the list is worked through.
DownloadsInStep == step # "assemblies" => Waiting \cup Holding = {}

\* The sequential part has no request out once the list is known.
MainInStep == step \in {"assemblies", "over"} => state[Main] = "none"

\* The inspection is over when it has an exit code.
OverExited == exit # Running <=> step = "over"

\* A delayed request may be sent once more; a script asked for is a candidate.
CountsLeft ==
  /\ \A r \in Requests : state[r] = "delaying" => MayRetry(r)
  /\ step = "script" => scripts > 0

Inductive ==
  /\ TypeOK /\ GateKept
  /\ DownloadsInStep /\ MainInStep /\ OverExited /\ CountsLeft
  /\ TimeoutIsNoCancellation

\* What a download table holds of the gate.
HoldingIn(s) == {a \in Assemblies : s[a] \in {"sending", "delaying"}}

\* Cardinalities of downloads are natural numbers.
LEMMA HoldingFinite ==
  ASSUME NEW s
  PROVE  IsFiniteSet(HoldingIn(s)) /\ Cardinality(HoldingIn(s)) \in Nat
<1>1. NumAssemblies \in Int /\ 1 \in Int  BY VersionCheckAssumption
<1>2. IsFiniteSet(Assemblies)  BY <1>1, FS_Interval DEF Assemblies
<1>3. HoldingIn(s) \in SUBSET Assemblies  BY DEF HoldingIn
<1>4. IsFiniteSet(HoldingIn(s))  BY <1>2, <1>3, FS_Subset
<1>. QED  BY <1>4, FS_CardinalityType

(* The gate is kept by a step that gives one more download a slot, takes   *)
(* the slot of one, or changes neither (VersionCheckService.cs:211-223).   *)
LEMMA GateTaken ==
  ASSUME GateKept, TypeOK, NEW a \in Assemblies, a \notin Holding,
         Holding' = Holding \cup {a}, permits > 0, permits' = permits - 1
  PROVE  GateKept' /\ permits' \in Nat
<1>1. Holding = HoldingIn(state)  BY DEF Holding, HoldingIn
<1>2. IsFiniteSet(Holding) /\ Cardinality(Holding) \in Nat  BY <1>1, HoldingFinite
<1>3. Cardinality(Holding') = Cardinality(Holding) + 1  BY <1>2, FS_AddElement
<1>. QED  BY <1>2, <1>3, VersionCheckAssumption DEF GateKept, TypeOK

LEMMA GateReleased ==
  ASSUME GateKept, TypeOK, NEW a \in Assemblies, a \in Holding,
         Holding' = Holding \ {a}, permits' = permits + 1
  PROVE  GateKept' /\ permits' \in Nat
<1>1. Holding = HoldingIn(state)  BY DEF Holding, HoldingIn
<1>2. IsFiniteSet(Holding) /\ Cardinality(Holding) \in Nat  BY <1>1, HoldingFinite
<1>3. Cardinality(Holding') = Cardinality(Holding) - 1  BY <1>2, FS_RemoveElement
<1>. QED  BY <1>2, <1>3, VersionCheckAssumption DEF GateKept, TypeOK

LEMMA GateUntouched ==
  ASSUME GateKept, TypeOK, Holding' = Holding, permits' = permits
  PROVE  GateKept' /\ permits' \in Nat
BY DEF GateKept, TypeOK

-----------------------------------------------------------------------------
\* Only the document is requested, and the gate is free.
LEMMA InitInductive == Init => Inductive
<1> SUFFICES ASSUME Init PROVE Inductive  OBVIOUS
<1>1. TypeOK
  <2>1. sends \in [Requests -> 0..(MaxTooManyRequestsRetries + 1)]
    BY DEF Init, MaxTooManyRequestsRetries
  <2>2. listed \in BOOLEAN /\ token \in BOOLEAN  BY DEF Init
  <2>. QED  BY <2>1, <2>2, VersionCheckAssumption DEF Init, TypeOK
<1>2. Waiting = {} /\ Holding = {}
  BY VersionCheckAssumption DEF Init, Waiting, Holding, Requests, Main, Assemblies
<1>3. GateKept
  BY <1>2, FS_EmptySet, VersionCheckAssumption DEF Init, GateKept
<1>4. DownloadsInStep /\ MainInStep /\ OverExited /\ CountsLeft /\ TimeoutIsNoCancellation
  BY <1>2
  DEF Init, DownloadsInStep, MainInStep, OverExited, CountsLeft, TimeoutIsNoCancellation,
      Requests, Main, Running
<1>. QED  BY <1>1, <1>3, <1>4 DEF Inductive

(* One request of the sequential part follows another, whichever.          *)
LEMMA RequestInductive ==
  ASSUME Inductive, state[Main] = "sending", exit = Running,
         NEW next \in {"config", "embedded", "script", "boot", "rootboot", "bootjson"},
         Request(next), listed' \in BOOLEAN, scripts' \in 0..4,
         next = "script" => scripts' > 0
  PROVE  Inductive'
<1> USE DEF Inductive
<1>1. step \notin {"assemblies", "over"}  BY DEF MainInStep
<1>2. /\ state' \in [Requests -> {"none", "waiting", "sending", "delaying", "outside",
                       "parsed", "skipped", "busy", "failed", "timeout", "cancelled"}]
      /\ sends' \in [Requests -> 0..(MaxTooManyRequestsRetries + 1)]
  BY DEF Request, TypeOK, Requests, MaxTooManyRequestsRetries
<1>3. \A a \in Assemblies : state'[a] = state[a]
  BY VersionCheckAssumption DEF Request, TypeOK, Assemblies, Main, Requests
<1>4. Holding' = Holding /\ Waiting' = Waiting  BY <1>3 DEF Holding, Waiting
<1>5. GateKept' /\ permits' \in Nat  BY <1>4, GateUntouched DEF Request
<1>6. TypeOK'  BY <1>2, <1>5 DEF TypeOK, Request
<1>7. DownloadsInStep'  BY <1>1, <1>4 DEF DownloadsInStep
<1>8. MainInStep' /\ OverExited' /\ TimeoutIsNoCancellation'
  BY <1>1 DEF Request, MainInStep, OverExited, TimeoutIsNoCancellation
<1>9. CountsLeft'
  BY <1>1, <1>4, VersionCheckAssumption
  DEF Request, CountsLeft, TypeOK, MayRetry, Requests, MaxTooManyRequestsRetries
<1>. QED  BY <1>5, <1>6, <1>7, <1>8, <1>9

(* An exit keeps the invariant when nothing waits or goes on.              *)
LEMMA ExitInductive ==
  ASSUME Inductive, Waiting \cup Holding = {},
         NEW code \in {0, 1, 130, 255}, code = 130 => token, Exit(code)
  PROVE  Inductive'
<1> USE DEF Inductive
<1>1. state' \in [Requests -> {"none", "waiting", "sending", "delaying", "outside",
                     "parsed", "skipped", "busy", "failed", "timeout", "cancelled"}]
  BY DEF Exit, TypeOK
<1>2. \A a \in Assemblies : state'[a] = state[a]
  BY VersionCheckAssumption DEF Exit, TypeOK, Assemblies, Main, Requests
<1>3. state'[Main] = "none"  BY DEF Exit, TypeOK, Requests
<1>4. Holding' = Holding /\ Waiting' = Waiting  BY <1>2 DEF Holding, Waiting
<1>5. GateKept' /\ permits' \in Nat  BY <1>4, GateUntouched DEF Exit
<1>6. TypeOK'  BY <1>1, <1>5 DEF TypeOK, Exit
<1>7. DownloadsInStep' /\ MainInStep' /\ OverExited' /\ TimeoutIsNoCancellation'
  BY <1>3, <1>4
  DEF Exit, DownloadsInStep, MainInStep, OverExited, TimeoutIsNoCancellation, Running
<1>8. CountsLeft'
  <2>1. \A r \in Requests : state'[r] = "delaying" => state[r] = "delaying"
    BY <1>2, <1>3 DEF Requests
  <2>. QED  BY <2>1 DEF Exit, CountsLeft, MayRetry
<1>. QED  BY <1>5, <1>6, <1>7, <1>8

(* All downloads start, or the inspection fails for want of a list.        *)
LEMMA ReadAssembliesInductive ==
  ASSUME Inductive, state[Main] = "sending", exit = Running, NEW booted,
         ReadAssemblies(booted)
  PROVE  Inductive'
<1> USE DEF Inductive
<1>1. step \notin {"assemblies", "over"}  BY DEF MainInStep
<1>2. Waiting \cup Holding = {}  BY <1>1 DEF DownloadsInStep
<1>3. CASE ~(listed \/ booted)
  <2>1. Exit(1)  BY <1>3 DEF ReadAssemblies
  <2>. QED  BY <1>2, <2>1, ExitInductive
<1>4. CASE listed \/ booted
  <2>1. /\ step' = "assemblies"
        /\ state' = [r \in Requests |-> IF r = Main THEN "none" ELSE "waiting"]
        /\ scripts' = 0
        /\ sends' = [sends EXCEPT ![Main] = 0]
        /\ UNCHANGED <<listed, permits, token, exit>>
    BY <1>4 DEF ReadAssemblies
  <2>2. Holding = {}  BY <1>2
  <2>3. Holding' = {}
    BY <2>1, VersionCheckAssumption DEF Holding, Assemblies, Main, Requests
  <2>4. GateKept' /\ permits' \in Nat  BY <2>1, <2>2, <2>3, GateUntouched
  <2>5. TypeOK'
    BY <2>1, <2>4 DEF TypeOK, Requests, MaxTooManyRequestsRetries
  <2>6. /\ DownloadsInStep' /\ MainInStep' /\ OverExited'
        /\ TimeoutIsNoCancellation' /\ CountsLeft'
    BY <1>1, <2>1
    DEF DownloadsInStep, MainInStep, OverExited, TimeoutIsNoCancellation, CountsLeft,
        Requests, Main
  <2>. QED  BY <2>4, <2>5, <2>6
<1>. QED  BY <1>3, <1>4

\* Every step of the sequential part is a request, an exit or the start.
LEMMA SequentialInductive == Inductive /\ Sequential => Inductive'
<1> SUFFICES ASSUME Inductive, Sequential PROVE Inductive'  OBVIOUS
<1>1. state[Main] = "sending"
  BY DEF Sequential, DocumentLoaded, EmbeddedProbed, ConfigLoaded, ScriptFound,
         ScriptUnusable, BootProbed, BootLoaded, StepFails, At
<1>2. step \notin {"assemblies", "over"}  BY <1>1 DEF Inductive, MainInStep
<1>3. exit = Running /\ Waiting \cup Holding = {}
  BY <1>2 DEF Inductive, OverExited, DownloadsInStep
<1>4. listed \in BOOLEAN /\ scripts \in 0..4  BY DEF Inductive, TypeOK
<1>5. CASE DocumentLoaded
  BY <1>1, <1>3, <1>4, <1>5, RequestInductive DEF DocumentLoaded
<1>6. CASE EmbeddedProbed
  BY <1>1, <1>3, <1>4, <1>6, RequestInductive DEF EmbeddedProbed
<1>7. CASE ConfigLoaded
  BY <1>1, <1>3, <1>4, <1>7, RequestInductive DEF ConfigLoaded
<1>8. CASE ScriptFound
  BY <1>1, <1>3, <1>8, ReadAssembliesInductive DEF ScriptFound
<1>9. CASE ScriptUnusable
  <2>1. scripts > 0  BY <1>9 DEF ScriptUnusable, At, Inductive, CountsLeft
  <2>2. scripts' \in 0..4 /\ (scripts > 1 => scripts' > 0)
    BY <1>4, <1>9, <2>1 DEF ScriptUnusable
  <2>3. CASE scripts > 1
    BY <1>1, <1>3, <1>4, <1>9, <2>2, <2>3, RequestInductive DEF ScriptUnusable
  <2>4. CASE ~(scripts > 1)
    BY <1>1, <1>3, <1>4, <1>9, <2>2, <2>4, RequestInductive DEF ScriptUnusable
  <2>. QED  BY <2>3, <2>4
<1>10. CASE BootProbed
  BY <1>1, <1>3, <1>4, <1>10, RequestInductive, ReadAssembliesInductive DEF BootProbed
<1>11. CASE BootLoaded
  BY <1>1, <1>3, <1>11, ReadAssembliesInductive DEF BootLoaded
<1>12. CASE StepFails
  BY <1>3, <1>12, ExitInductive DEF StepFails
<1>. QED
  BY <1>5, <1>6, <1>7, <1>8, <1>9, <1>10, <1>11, <1>12 DEF Sequential

-----------------------------------------------------------------------------
(* SendAsync, of the sequential part and of the downloads alike.           *)
LEMMA RetryInductive ==
  ASSUME Inductive, NEW r \in Requests, TooManyRequests(r) \/ SendAgain(r)
  PROVE  Inductive'
<1> USE DEF Inductive
<1>1. PICK s \in {"sending", "delaying"} :
        /\ state[r] \in {"sending", "delaying"}
        /\ state' = [state EXCEPT ![r] = s]
        /\ s = "delaying" => MayRetry(r) /\ UNCHANGED sends
        /\ UNCHANGED <<step, listed, scripts, permits, token, exit>>
  BY DEF TooManyRequests, SendAgain
<1>2. state' \in [Requests -> {"none", "waiting", "sending", "delaying", "outside",
                     "parsed", "skipped", "busy", "failed", "timeout", "cancelled"}]
  BY <1>1 DEF TypeOK
<1>3. sends' \in [Requests -> 0..(MaxTooManyRequestsRetries + 1)]
  BY DEF TooManyRequests, SendAgain, TypeOK, CountsLeft, MayRetry, MaxTooManyRequestsRetries
<1>4. \A a \in Assemblies :
        /\ state'[a] = "waiting" <=> state[a] = "waiting"
        /\ state'[a] \in {"sending", "delaying"} <=> state[a] \in {"sending", "delaying"}
  BY <1>1 DEF TypeOK, Requests
<1>5. Holding' = Holding /\ Waiting' = Waiting  BY <1>4 DEF Holding, Waiting
<1>6. GateKept' /\ permits' \in Nat  BY <1>1, <1>5, GateUntouched
<1>7. TypeOK'  BY <1>1, <1>2, <1>3, <1>6 DEF TypeOK
<1>8. DownloadsInStep' /\ MainInStep' /\ OverExited' /\ TimeoutIsNoCancellation'
  BY <1>1, <1>5
  DEF DownloadsInStep, MainInStep, OverExited, TimeoutIsNoCancellation, TypeOK, Requests
<1>9. CountsLeft'
  BY DEF TooManyRequests, SendAgain, CountsLeft, MayRetry, TypeOK
<1>. QED  BY <1>6, <1>7, <1>8, <1>9

(* A download that moves on, with the gate kept, disturbs nothing else.    *)
LEMMA DownloadMoves ==
  ASSUME Inductive, NEW a \in Assemblies,
         state[a] \in {"waiting", "sending", "delaying"},
         NEW s \in {"sending", "outside", "parsed", "skipped", "busy", "failed",
                     "timeout", "cancelled"},
         state' = [state EXCEPT ![a] = s],
         sends' \in {sends, [sends EXCEPT ![a] = 1]},
         GateKept', permits' \in Nat,
         UNCHANGED <<step, listed, scripts, token, exit>>
  PROVE  Inductive'
<1> USE DEF Inductive
<1>1. a \in Requests /\ a # Main /\ Main \in Requests
  BY VersionCheckAssumption DEF Requests, Main, Assemblies
<1>2. step = "assemblies"
  BY DEF DownloadsInStep, Waiting, Holding
<1>3. /\ state' \in [Requests -> {"none", "waiting", "sending", "delaying", "outside",
                       "parsed", "skipped", "busy", "failed", "timeout", "cancelled"}]
      /\ state'[Main] = state[Main]
  BY <1>1 DEF TypeOK
<1>4. sends' \in [Requests -> 0..(MaxTooManyRequestsRetries + 1)]
  BY DEF TypeOK, MaxTooManyRequestsRetries
<1>5. TypeOK'  BY <1>3, <1>4 DEF TypeOK
<1>6. DownloadsInStep' /\ MainInStep' /\ OverExited' /\ TimeoutIsNoCancellation'
  BY <1>2, <1>3 DEF DownloadsInStep, MainInStep, OverExited, TimeoutIsNoCancellation
<1>7. \A r \in Requests : r # a => state'[r] = state[r] /\ sends'[r] = sends[r]
  BY DEF TypeOK
<1>8. state'[a] # "delaying"  BY <1>1 DEF TypeOK
<1>9. CountsLeft'  BY <1>2, <1>7, <1>8 DEF CountsLeft, MayRetry
<1>. QED  BY <1>5, <1>6, <1>9

\* The steps of one download, each with what it does to the gate.
LEMMA DownloadInductive ==
  ASSUME Inductive, NEW a \in Assemblies,
         Acquire(a) \/ Refused(a) \/ Downloaded(a) \/ Interrupted(a)
  PROVE  Inductive'
<1>1. TypeOK /\ GateKept  BY DEF Inductive
<1>2. a \in Requests  BY DEF Requests
<1>3. CASE Acquire(a)
  <2>1. state[a] = "waiting" /\ permits > 0  BY <1>3 DEF Acquire, Turn, Waiting
  <2>2. Holding' = Holding \cup {a} /\ a \notin Holding
    BY <1>1, <1>2, <1>3, <2>1 DEF Acquire, Holding, TypeOK, Requests
  <2>3. GateKept' /\ permits' \in Nat  BY <1>1, <1>3, <2>1, <2>2, GateTaken DEF Acquire
  <2>. QED  BY <1>3, <2>1, <2>3, DownloadMoves DEF Acquire
<1>4. CASE Refused(a)
  <2>1. state[a] = "waiting"  BY <1>4 DEF Refused, Turn, Waiting
  <2>2. Holding' = Holding
    BY <1>1, <1>2, <1>4, <2>1 DEF Refused, Holding, TypeOK, Requests
  <2>3. GateKept' /\ permits' \in Nat  BY <1>1, <1>4, <2>2, GateUntouched DEF Refused
  <2>. QED  BY <1>4, <2>1, <2>3, DownloadMoves DEF Refused
<1>5. CASE Downloaded(a)
  <2>1. PICK how \in {"parsed", "skipped", "busy", "failed", "timeout"} : Ended(a, how)
    BY <1>5 DEF Downloaded
  <2>2. Holding' = Holding \ {a} /\ a \in Holding
    BY <1>1, <1>2, <2>1 DEF Ended, Holding, TypeOK, Requests
  <2>3. GateKept' /\ permits' \in Nat  BY <1>1, <2>1, <2>2, GateReleased DEF Ended
  <2>. QED  BY <2>1, <2>3, DownloadMoves DEF Ended
<1>6. CASE Interrupted(a)
  <2>1. state[a] \in {"waiting", "sending", "delaying"}
    BY <1>6 DEF Interrupted, Interruptible
  <2>2. Holding' = Holding \ {a}
    BY <1>1, <1>2, <1>6 DEF Interrupted, Holding, TypeOK, Requests
  <2>3. CASE a \in Holding
    <3>1. GateKept' /\ permits' \in Nat
      BY <1>1, <1>6, <2>2, <2>3, GateReleased DEF Interrupted
    <3>. QED  BY <1>6, <2>1, <3>1, DownloadMoves DEF Interrupted
  <2>4. CASE a \notin Holding
    <3>1. Holding' = Holding  BY <2>2, <2>4
    <3>2. GateKept' /\ permits' \in Nat
      BY <1>1, <1>6, <2>4, <3>1, GateUntouched DEF Interrupted
    <3>. QED  BY <1>6, <2>1, <3>2, DownloadMoves DEF Interrupted
  <2>. QED  BY <2>3, <2>4
<1>. QED  BY <1>3, <1>4, <1>5, <1>6

-----------------------------------------------------------------------------
(* The exit code of the inspection is one of the four, and 130 only for    *)
(* the user (VersionCheckerReplHost.cs:61-72).                             *)
LEMMA ExitCodeIs == ExitCode \in {0, 1, 130, 255} /\ (ExitCode = 130 => token)
BY DEF ExitCode, CancellationCode

\* The two ways to an exit with the list known or not.
LEMMA EndInductive ==
  ASSUME Inductive, Inspected \/ InterruptedMain
  PROVE  Inductive'
<1>1. CASE Inspected
  BY <1>1, ExitCodeIs, ExitInductive DEF Inspected, AllEnded
<1>2. CASE InterruptedMain
  <2>1. token /\ state[Main] # "none" /\ Exit(130)
    BY <1>2 DEF InterruptedMain, Interruptible
  <2>2. Waiting \cup Holding = {}
    BY <2>1 DEF Inductive, MainInStep, DownloadsInStep
  <2>. QED  BY <2>1, <2>2, ExitInductive
<1>. QED  BY <1>1, <1>2

\* The token changes nothing but itself.
LEMMA CancelInductive ==
  ASSUME Inductive, Cancel \/ UNCHANGED vars
  PROVE  Inductive'
<1>1. UNCHANGED <<step, listed, scripts, state, sends, permits, exit>>
      /\ token' \in BOOLEAN /\ (token => token')
  BY DEF Cancel, vars, Inductive, TypeOK
<1>2. Holding' = Holding /\ Waiting' = Waiting  BY <1>1 DEF Holding, Waiting
<1>3. GateKept' /\ permits' \in Nat  BY <1>1, <1>2, GateUntouched DEF Inductive
<1>4. TypeOK'  BY <1>1 DEF Inductive, TypeOK
<1>5. DownloadsInStep' /\ MainInStep' /\ OverExited' /\ CountsLeft'
  BY <1>1, <1>2
  DEF Inductive, DownloadsInStep, MainInStep, OverExited, CountsLeft, MayRetry
<1>6. TimeoutIsNoCancellation'
  BY <1>1 DEF Inductive, TimeoutIsNoCancellation
<1>. QED  BY <1>3, <1>4, <1>5, <1>6 DEF Inductive

-----------------------------------------------------------------------------
(* The invariant holds in every state of an inspection, however many       *)
(* assemblies are listed and however wide the gate is.                     *)
THEOREM InspectionInductive == Spec => []Inductive
<1>1. Inductive /\ [Next]_vars => Inductive'
  BY SequentialInductive, RetryInductive, DownloadInductive, EndInductive, CancelInductive
  DEF Next
<1>. QED  BY <1>1, InitInductive, PTL DEF Spec

(* Every slot of the gate is free or held by one download                  *)
(* (VersionCheckService.cs:211-223).                                       *)
THEOREM GateAlwaysKept == Spec => []GateKept
<1>1. Inductive => GateKept  BY DEF Inductive
<1>. QED  BY <1>1, InspectionInductive, PTL

(* Exit code 130 is given to the user's cancellation only                  *)
(* (VersionCheckerReplHost.cs:61-72).                                      *)
THEOREM OnlyUserCancels == Spec => []TimeoutIsNoCancellation
<1>1. Inductive => TimeoutIsNoCancellation  BY DEF Inductive
<1>. QED  BY <1>1, InspectionInductive, PTL

=============================================================================
