---------------------------- MODULE VersionCheck ----------------------------
(***************************************************************************)
(* An inspection by the version checker (VersionCheckService.cs,           *)
(* VersionCheckerReplHost.cs): one request after the other until the list  *)
(* of assemblies is known, then all assemblies at a time behind a          *)
(* SemaphoreSlim, each with up to two retries of a 429 answer; the user    *)
(* may cancel at any moment, and the host turns the outcome into an exit   *)
(* code.                                                                   *)
(*                                                                         *)
(* A server may answer anything at any step, or nothing.  URLs, documents  *)
(* and metadata are left out: an answer is what the code does about it.    *)
(***************************************************************************)
EXTENDS Integers, FiniteSets

CONSTANTS NumAssemblies,  \* length of the list found
          Gate            \* MaxAssemblyDownloadConcurrency, 8 in the code

ASSUME VersionCheckAssumption ==
  NumAssemblies \in Nat \ {0} /\ Gate \in Nat \ {0}

MaxTooManyRequestsRetries == 2
Running == -1
Assemblies == 1..NumAssemblies
Main == 0                      \* the request of the sequential part
Requests == Assemblies \cup {Main}

VARIABLES
  step,       \* the sequential part: which document is requested
  listed,     \* uno-config.js lists assemblies
  scripts,    \* dotnet.js candidates left, with the current one
  state,      \* per request: none, waiting (for the gate), sending, delaying, or how it ended
  sends,      \* per request: times it was sent
  permits,    \* CurrentCount of the gate
  token,      \* the user has cancelled
  exit        \* exit code, or Running

vars == <<step, listed, scripts, state, sends, permits, token, exit>>

Waiting == {a \in Assemblies : state[a] = "waiting"}
Holding == {a \in Assemblies : state[a] \in {"sending", "delaying"}}

Init ==
  /\ step = "document"
  /\ listed = FALSE
  /\ scripts = 0
  /\ state = [r \in Requests |-> IF r = Main THEN "sending" ELSE "none"]
  /\ sends = [r \in Requests |-> IF r = Main THEN 1 ELSE 0]
  /\ permits = Gate
  /\ token = FALSE
  /\ exit = Running

(* The user cancels.  An answer that has come before is still dealt with,  *)
(* but nothing is sent any more.                                           *)
Cancel ==
  /\ exit = Running /\ ~token
  /\ token' = TRUE
  /\ UNCHANGED <<step, listed, scripts, state, sends, permits, exit>>

-----------------------------------------------------------------------------
(* SendAsync, for every request of the inspection.                         *)

MayRetry(r) == sends[r] <= MaxTooManyRequestsRetries

\* 429, and a retry left: wait as long as Retry-After or the back-off says.
TooManyRequests(r) ==
  /\ state[r] = "sending" /\ MayRetry(r)
  /\ state' = [state EXCEPT ![r] = "delaying"]
  /\ UNCHANGED <<step, listed, scripts, sends, permits, token, exit>>

\* The delay is over; with the token cancelled neither it nor the sending goes on.
SendAgain(r) ==
  /\ state[r] = "delaying" /\ ~token
  /\ state' = [state EXCEPT ![r] = "sending"]
  /\ sends' = [sends EXCEPT ![r] = @ + 1]
  /\ UNCHANGED <<step, listed, scripts, permits, token, exit>>

-----------------------------------------------------------------------------
(* The sequential part.  Request sends the next one, which throws at once  *)
(* if the token is cancelled (InterruptedMain); Exit ends the inspection.  *)
Request(next) ==
  /\ ~token
  /\ step' = next
  /\ state' = [state EXCEPT ![Main] = "sending"]
  /\ sends' = [sends EXCEPT ![Main] = 1]
  /\ UNCHANGED <<permits, token, exit>>

Exit(code) ==
  /\ step' = "over"
  /\ exit' = code
  /\ state' = [state EXCEPT ![Main] = "none"]
  /\ UNCHANGED <<listed, scripts, sends, permits, token>>

At(s) == step = s /\ state[Main] = "sending"

\* ReadAssembliesAsync: start all downloads, or fail if there is no list.
ReadAssemblies(booted) ==
  IF listed \/ booted
  THEN /\ step' = "assemblies"
       /\ state' = [r \in Requests |-> IF r = Main THEN "none" ELSE "waiting"]
       /\ scripts' = 0
       /\ sends' = [sends EXCEPT ![Main] = 0]
       /\ UNCHANGED <<listed, permits, token, exit>>
  ELSE Exit(1)

(* The page refers to uno-config.js or uno-bootstrap.js, or to neither.    *)
DocumentLoaded ==
  /\ At("document")
  /\ Request("config") \/ Request("embedded")
  /\ UNCHANGED <<listed, scripts>>

(* embedded.js names the package; if it does not, or is not there, there   *)
(* is no uno-config.js and one candidate for dotnet.js.                    *)
EmbeddedProbed ==
  /\ At("embedded")
  /\ \/ Request("config") /\ UNCHANGED scripts
     \/ Request("script") /\ scripts' = 1
  /\ UNCHANGED listed

(* uno-config.js may list assemblies and may name dotnet.js; each name is  *)
(* looked for below the managed path and in _framework, which may be one.  *)
ConfigLoaded ==
  /\ At("config")
  /\ listed' \in BOOLEAN
  /\ scripts' \in {1, 2, 4}
  /\ Request("script")

ScriptFound ==
  /\ At("script")
  /\ \E booted \in BOOLEAN : ReadAssemblies(booted)

\* No boot configuration in it, no success, or HttpRequestException.
ScriptUnusable ==
  /\ At("script")
  /\ scripts' = scripts - 1
  /\ Request(IF scripts > 1 THEN "script" ELSE "boot")
  /\ UNCHANGED listed

\* blazor.boot.json: in _framework, then in the root; what is found is loaded.
BootProbed ==
  /\ step \in {"boot", "rootboot"} /\ At(step)
  /\ \/ Request("bootjson") /\ UNCHANGED <<listed, scripts>>
     \/ step = "boot" /\ Request("rootboot") /\ UNCHANGED <<listed, scripts>>
     \/ step = "rootboot" /\ ReadAssemblies(FALSE)

BootLoaded ==
  /\ At("bootjson")
  /\ \E booted \in BOOLEAN : ReadAssemblies(booted)

(* An exception leaves the inspection: InvalidOperationException for a     *)
(* path outside the site or a body too long (1), any other for a request   *)
(* that fails, times out or has no success (255).                          *)
StepFails ==
  /\ At(step)
  /\ Exit(1) \/ Exit(255)

-----------------------------------------------------------------------------
(* The downloads.  SemaphoreSlim serves its waiters in turn; WaitAsync     *)
(* throws if the token is cancelled, whether or not a slot is free.        *)
Turn(a) ==
  /\ ~token /\ permits > 0
  /\ a \in Waiting /\ \A b \in Waiting : a <= b

Acquire(a) ==
  /\ Turn(a)
  /\ permits' = permits - 1
  /\ state' = [state EXCEPT ![a] = "sending"]
  /\ sends' = [sends EXCEPT ![a] = 1]
  /\ UNCHANGED <<step, listed, scripts, token, exit>>

\* The path points outside the site: an exception between acquire and release.
Refused(a) ==
  /\ Turn(a)
  /\ state' = [state EXCEPT ![a] = "outside"]
  /\ UNCHANGED <<step, listed, scripts, sends, permits, token, exit>>

\* A plausible slip: without the finally, a task that throws keeps its slot.
EndedKeepingSlot(a, how) ==
  /\ state[a] = "sending"
  /\ how = "busy" => ~MayRetry(a)
  /\ how \in {"failed", "timeout"} => ~token
  /\ state' = [state EXCEPT ![a] = how]
  /\ permits' = IF how \in {"failed", "timeout"} THEN permits ELSE permits + 1
  /\ UNCHANGED <<step, listed, scripts, sends, token, exit>>

(* The task ends and gives its slot back: with metadata, without (no       *)
(* success, a body that fails or is no assembly), given up after the last  *)
(* 429, with HttpRequestException, or after the 30 seconds of HttpClient,  *)
(* which throws TaskCanceledException.  HttpClient reports what fails once *)
(* the token is cancelled as the cancellation.                             *)
Ended(a, how) ==
  /\ state[a] = "sending"
  /\ how = "busy" => ~MayRetry(a)
  /\ how \in {"failed", "timeout"} => ~token
  /\ state' = [state EXCEPT ![a] = how]
  /\ permits' = permits + 1
  /\ UNCHANGED <<step, listed, scripts, sends, token, exit>>

Downloaded(a) == \E how \in {"parsed", "skipped", "busy", "failed", "timeout"} : Ended(a, how)

\* A plausible slip: the token is not passed to HttpClient.
InterruptibleWaiting(r) == token /\ state[r] \in {"waiting", "delaying"}

Interruptible(r) == token /\ state[r] \in {"waiting", "sending", "delaying"}

\* A plausible slip: WaitAsync inside the try, so that finally releases what was not acquired.
InterruptedReleasing(a) ==
  /\ Interruptible(a)
  /\ state' = [state EXCEPT ![a] = "cancelled"]
  /\ permits' = permits + 1
  /\ UNCHANGED <<step, listed, scripts, sends, token, exit>>

(* The token interrupts an assembly's task wherever it waits.              *)
Interrupted(a) ==
  /\ Interruptible(a)
  /\ state' = [state EXCEPT ![a] = "cancelled"]
  /\ permits' = IF a \in Holding THEN permits + 1 ELSE permits
  /\ UNCHANGED <<step, listed, scripts, sends, token, exit>>

InterruptedMain == Interruptible(Main) /\ Exit(130)

\* A plausible slip: every OperationCanceledException is taken for the user's.
CancellationCodeAny == 130

\* The exit code for an OperationCanceledException.
CancellationCode == IF token THEN 130 ELSE 255

Faulted == {a \in Assemblies : state[a] \in {"outside", "failed"}}

(* What await Task.WhenAll makes of the tasks: the first exception in the  *)
(* order of the list if there is any; else a cancellation if there is one. *)
ExitCode ==
  IF Faulted # {}
  THEN LET first == CHOOSE a \in Faulted : \A b \in Faulted : a <= b
       IN  IF state[first] = "outside" THEN 1 ELSE 255
  ELSE IF \E a \in Assemblies : state[a] \in {"timeout", "cancelled"}
       THEN CancellationCode
       ELSE 0

AllEnded == Waiting \cup Holding = {}

Inspected ==
  /\ step = "assemblies" /\ AllEnded
  /\ Exit(ExitCode)

-----------------------------------------------------------------------------
Sequential ==
  \/ DocumentLoaded \/ EmbeddedProbed \/ ConfigLoaded \/ ScriptFound \/ ScriptUnusable
  \/ BootProbed \/ BootLoaded \/ StepFails

Next ==
  \/ Cancel \/ Sequential \/ InterruptedMain \/ Inspected
  \/ \E r \in Requests : TooManyRequests(r) \/ SendAgain(r)
  \/ \E a \in Assemblies : Acquire(a) \/ Refused(a) \/ Downloaded(a) \/ Interrupted(a)

Spec == Init /\ [][Next]_vars

(* A server may be silent for ever; what the checker does on its own, it   *)
(* does: a slot is taken, a delay ends, an interrupted task ends.          *)
FairSpec ==
  /\ Spec
  /\ WF_vars(InterruptedMain) /\ WF_vars(Inspected)
  /\ \A r \in Requests : WF_vars(SendAgain(r))
  /\ \A a \in Assemblies : WF_vars(Acquire(a) \/ Refused(a)) /\ WF_vars(Interrupted(a))
-----------------------------------------------------------------------------
TypeOK ==
  /\ step \in {"document", "embedded", "config", "script", "boot", "rootboot", "bootjson",
               "assemblies", "over"}
  /\ listed \in BOOLEAN /\ token \in BOOLEAN /\ scripts \in 0..4
  /\ state \in [Requests -> {"none", "waiting", "sending", "delaying", "outside", "parsed",
                             "skipped", "busy", "failed", "timeout", "cancelled"}]
  /\ sends \in [Requests -> 0..(MaxTooManyRequestsRetries + 1)]
  /\ permits \in Nat
  /\ exit \in {Running, 0, 1, 130, 255}

(* FR-024 (specs/003-wasm-version-checker/spec.md:169): every slot of the  *)
(* gate is free or held by one download, also when downloads fail, are     *)
(* refused or are cancelled before they have a slot                        *)
(* (VersionCheckService.cs:211-223).                                       *)
GateKept == permits + Cardinality(Holding) = Gate

(* FR-022 (spec.md:167): exit code 130 is for the user's cancellation; a   *)
(* time-out, which HttpClient reports with the same exception, is not one  *)
(* (VersionCheckerReplHost.cs:61-72).                                      *)
TimeoutIsNoCancellation == exit = 130 => token

(* "Cancellation must interrupt long-running network or assembly download  *)
(* operations" (spec.md:189): the inspection ends, though no server ever   *)
(* answers (the tokens of VersionCheckService.cs:201-482).                 *)
CancelEnds == token ~> exit # Running

(* Once the list is known the inspection ends with an exit code, unless    *)
(* some server keeps a download for ever: whatever the others answer, how  *)
(* often they are asked again, and however they fail, each download gets   *)
(* its turn at the gate (VersionCheckService.cs:210-225, 449-461).         *)
DownloadsEnd ==
  (\A a \in Assemblies : []<>(state[a] # "sending")) =>
    (step = "assemblies" ~> exit # Running)

\* No path of the list points outside the inspected site, which is an error of its own.
Trusted == \A a \in Assemblies : state[a] # "outside"

(* SC-008 (spec.md:200): "Cancellation returns a cancelled Repl result     *)
(* rather than a partial success or generic exception": if the             *)
(* cancellation interrupted a download, the result is the cancelled one    *)
(* (VersionCheckService.cs:225, VersionCheckerReplHost.cs:61-72).          *)
CancelledIsReported ==
  exit # Running /\ Trusted /\ (\E a \in Assemblies : state[a] = "cancelled") => exit = 130
=============================================================================
