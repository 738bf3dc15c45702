------------------------------ MODULE Profilers ------------------------------
(***************************************************************************)
(* The log and the AOT profiler in a page (LogProfilerSupport.ts,          *)
(* AotProfilerSupport.ts).  Their key handlers are attached long before    *)
(* the exports of the assemblies can be had; each call asks for them if    *)
(* they are not there yet, and they may be refused.  One action is what a  *)
(* call does without awaiting; calls, the timer and the application, which *)
(* goes on recording, interleave.  One key saves both profiles.            *)
(*                                                                         *)
(* A recorded profile is its number of events.  Whether a flush moves them *)
(* to the file depends on the runtime (profiler_flush_wasm.c).             *)
(***************************************************************************)
EXTENDS Integers

CONSTANTS
  MaxPresses,  \* bound: keys pressed
  MaxEvents    \* bound: events recorded

Presses == 1..MaxPresses
Calls == Presses \X {"log", "heap", "aot"}

VARIABLES
  enabled,   \* profilers the configuration enables
  drains,    \* the runtime drains its queues on a flush
  setup,     \* postInitializeLogProfiler
  keys,      \* profilers whose keys are attached
  flush,     \* _flushLogProfile and the others are assigned
  timer,     \* the interval runs
  pressed,   \* keys pressed
  stage,     \* per call: where it is
  recorded,  \* events recorded
  written,   \* of which in the file
  dumped,    \* events in INTERNAL.aotProfileData
  wanted,    \* per call: events recorded when its key was pressed
  saved      \* per call: events in what it read, or Nothing

Nothing == -1
page == <<enabled, drains, setup, keys, timer>>
vars == <<page, flush, pressed, stage, recorded, written, dumped, wanted, saved>>

Init ==
  /\ enabled \in SUBSET {"log", "aot"} /\ drains \in BOOLEAN
  /\ setup = "before"
  /\ keys = {}
  /\ flush = FALSE /\ timer = FALSE
  /\ pressed = 0
  /\ stage = [c \in Calls |-> "none"]
  /\ recorded = 0 /\ written = 0 /\ dumped = Nothing
  /\ wanted = [c \in Calls |-> 0]
  /\ saved = [c \in Calls |-> Nothing]

\* What is in the file after a flush.
Flushed == IF drains THEN recorded ELSE written

Record ==
  /\ recorded < MaxEvents
  /\ recorded' = recorded + 1
  /\ UNCHANGED <<page, flush, pressed, stage, written, dumped, wanted, saved>>
-----------------------------------------------------------------------------
\* RuntimeReady attaches the key of the AOT profiler.
RuntimeReady ==
  /\ setup = "before"
  /\ setup' = "ready"
  /\ keys' = enabled \cap {"aot"}
  /\ UNCHANGED <<enabled, drains, flush, timer, pressed, stage, recorded, written,
                 dumped, wanted, saved>>

(* mainInit: the keys of the log profiler are attached, and the exports    *)
(* awaited.  Without the log profiler there is nothing to do.              *)
PostInitialize ==
  /\ setup = "ready"
  /\ IF "log" \in enabled
       THEN setup' = "exports" /\ keys' = keys \cup {"log"}
       ELSE setup' = "done" /\ UNCHANGED keys
  /\ UNCHANGED <<enabled, drains, flush, timer, pressed, stage, recorded, written,
                 dumped, wanted, saved>>

\* A plausible slip: the timer is set only by the first to get the exports.
PostInitializedFirst ==
  /\ setup = "exports"
  /\ \/ setup' = "done" /\ flush' = TRUE /\ timer' = ~flush
     \/ setup' = "failed" /\ UNCHANGED <<flush, timer>>
  /\ UNCHANGED <<enabled, drains, keys, pressed, stage, recorded, written, dumped,
                 wanted, saved>>

(* They are there, assigned once more if a call was faster, and the timer  *)
(* is set; or they are refused, and the start of the application fails.    *)
PostInitialized ==
  /\ setup = "exports"
  /\ \/ setup' = "done" /\ flush' = TRUE /\ timer' = TRUE
     \/ setup' = "failed" /\ UNCHANGED <<flush, timer>>
  /\ UNCHANGED <<enabled, drains, keys, pressed, stage, recorded, written, dumped,
                 wanted, saved>>

\* Every five seconds.
Tick ==
  /\ timer
  /\ written' = Flushed
  /\ UNCHANGED <<page, flush, pressed, stage, recorded, dumped, wanted, saved>>
-----------------------------------------------------------------------------
\* A plausible slip: a call waits for another that asked, if that is successful.
FirstWaiting(c) ==
  IF c[2] # "aot" /\ flush THEN "initialized"
  ELSE IF \E d \in Calls : stage[d] = "exports" THEN "waiting" ELSE "exports"

(* The first stage of a call: ensureInitializeProfilerMethods returns at   *)
(* once when the methods are there; the AOT profiler always asks.          *)
First(c) ==
  IF c[2] # "aot" /\ flush THEN "initialized" ELSE "exports"

Press(calls) ==
  /\ pressed < MaxPresses /\ calls # {}
  /\ pressed' = pressed + 1
  /\ stage' = [c \in Calls |-> IF c \in calls THEN First(c) ELSE stage[c]]
  /\ wanted' = [c \in Calls |-> IF c \in calls THEN recorded ELSE wanted[c]]
  /\ UNCHANGED <<page, flush, recorded, written, dumped, saved>>

\* Shift+Alt+P and Shift+Alt+H.
PressP == Press({pressed + 1} \X keys)
PressH == Press({pressed + 1} \X {k \in {"heap"} : "log" \in keys})

\* The exports arrive, or are refused, and the call rejects.
Exports(c) ==
  /\ stage[c] = "exports"
  /\ \/ /\ flush' = (flush \/ c[2] # "aot")
        /\ stage' = [stage EXCEPT ![c] = "initialized"]
     \/ /\ stage' = [stage EXCEPT ![c] = "failed"]
        /\ UNCHANGED flush
  /\ UNCHANGED <<page, pressed, recorded, written, dumped, wanted, saved>>

\* A plausible slip: the timer is trusted to have flushed.
ReadUnflushed(c) ==
  /\ stage[c] = "initialized" /\ c[2] = "log"
  /\ saved' = [saved EXCEPT ![c] = IF written > 0 THEN written ELSE Nothing]
  /\ stage' = [stage EXCEPT ![c] = "download"]
  /\ UNCHANGED <<page, flush, pressed, recorded, written, dumped, wanted>>

\* readProfileFile: flush, look at the file, read it if it is not empty.
ReadProfileFile(c) ==
  /\ stage[c] = "initialized" /\ c[2] = "log"
  /\ written' = Flushed
  /\ saved' = [saved EXCEPT ![c] = IF Flushed > 0 THEN Flushed ELSE Nothing]
  /\ stage' = [stage EXCEPT ![c] = "download"]
  /\ UNCHANGED <<page, flush, pressed, recorded, dumped, wanted>>

\* The anchor is clicked, with nothing in the file as well.
Download(c) ==
  /\ stage[c] = "download"
  /\ stage' = [stage EXCEPT ![c] = "ended"]
  /\ UNCHANGED <<page, flush, pressed, recorded, written, dumped, wanted, saved>>

\* The flush comes first, so what the shot records is not yet in the file.
TriggerHeapShot(c) ==
  /\ stage[c] = "initialized" /\ c[2] = "heap"
  /\ written' = Flushed
  /\ recorded' = IF recorded < MaxEvents THEN recorded + 1 ELSE recorded
  /\ stage' = [stage EXCEPT ![c] = "ended"]
  /\ UNCHANGED <<page, flush, pressed, dumped, wanted, saved>>

(* StopProfile makes the runtime dump the profile; a second dump may be    *)
(* the same or a new one.                                                  *)
SaveAotProfile(c) ==
  /\ stage[c] = "initialized" /\ c[2] = "aot"
  /\ dumped' \in {recorded} \cup ({dumped} \ {Nothing})
  /\ saved' = [saved EXCEPT ![c] = dumped']
  /\ stage' = [stage EXCEPT ![c] = "ended"]
  /\ UNCHANGED <<page, flush, pressed, recorded, written, wanted>>

Goes(c) ==
  Exports(c) \/ ReadProfileFile(c) \/ Download(c) \/ TriggerHeapShot(c) \/ SaveAotProfile(c)

Next ==
  \/ Record \/ RuntimeReady \/ PostInitialize \/ PostInitialized \/ Tick
  \/ PressP \/ PressH
  \/ \E c \in Calls : Goes(c)

Spec == Init /\ [][Next]_vars
-----------------------------------------------------------------------------
(* What a save downloads holds all that was recorded before its key was    *)
(* pressed, on a runtime that drains its queues: however late the exports  *)
(* come, and whatever the timer and other calls have flushed in between    *)
(* (LogProfilerSupport.ts:95-110).                                         *)
SavedIsComplete ==
  \A c \in Calls :
    drains /\ c[2] = "log" /\ stage[c] = "ended" => saved[c] >= wanted[c] \/ wanted[c] = 0

Ended(c) == stage[c] \in {"ended", "failed"}

\* The log profiler is set up, so what is recorded is to get into the file.
Flushing == drains /\ "log" \in enabled /\ setup = "done"
=============================================================================
