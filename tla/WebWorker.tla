----------------------------- MODULE WebWorker ------------------------------
(***************************************************************************)
(* A .NET runtime in a web worker (WorkerBootstrapper.ts) and the page     *)
(* that hosts it (the template of ShellTask.cs:943-970).  Two message      *)
(* queues join them, one each way, both in order.  What the worker         *)
(* receives while it has no listener is lost.                              *)
(*                                                                         *)
(* One action of the worker is what it does without awaiting.  Of profile  *)
(* data only whether there is any is kept.  Command 0 stands for a call of *)
(* a helper from the console of the worker, which is answered in the same  *)
(* way.                                                                    *)
(***************************************************************************)
EXTENDS Integers, Sequences

CONSTANTS NumDependencies,  \* length of uno_dependencies
          MaxCommands       \* profiler commands the page sends (a bound)

Commands == 1..MaxCommands
Console == 0
Requests == {Console} \cup Commands
Saves == {"log-profiler-save", "aot-profiler-save"}
Kinds == {"memory-snapshot", "unknown"} \cup Saves

VARIABLES
  boot,        \* where bootstrap is
  loaded,      \* dependencies it has tried
  main,        \* Main: no, running, returned, threw
  listening,   \* the profiler command handler is registered
  saving,      \* requests whose handler awaits the exports
  toHost,      \* messages to the page
  toWorker,    \* commands to the worker
  kind,        \* per request: unsent, or its kind
  answers,     \* per request: answers posted
  inTime,      \* commands sent after the page had received uno-worker-ready
  status       \* what the page shows

worker == <<boot, loaded, main, listening, saving, answers>>
page == <<kind, inTime, status>>
vars == <<boot, loaded, main, listening, saving, toHost, toWorker, kind, answers, inTime, status>>

Init ==
  /\ boot = "config"
  /\ loaded = 0
  /\ main = "no"
  /\ listening = FALSE
  /\ saving = {}
  /\ toHost = <<>> /\ toWorker = <<>>
  /\ kind = [c \in Requests |-> "unsent"]
  /\ answers = [c \in Requests |-> 0]
  /\ inTime = {}
  /\ status = "starting"

Post(type) == toHost' = Append(toHost, type)
-----------------------------------------------------------------------------
Loads(from, to) ==
  /\ boot = from
  /\ boot' = to
  /\ UNCHANGED <<loaded, main, listening, saving, answers, toHost, toWorker>>
  /\ UNCHANGED page

(* The configuration is fetched and evaluated, dotnet.js imported, the     *)
(* runtime created with the profilers the configuration asks for.          *)
LoadConfig == Loads("config", "dotnet")
ImportDotnet == Loads("dotnet", "runtime")
CreateRuntime == Loads("runtime", "dependencies")

(* One of them is not: the exception is caught and reported.               *)
LoadFails ==
  /\ boot \in {"config", "dotnet", "runtime"}
  /\ boot' = "over"
  /\ Post("uno-worker-error")
  /\ UNCHANGED <<loaded, main, listening, saving, answers, toWorker>>
  /\ UNCHANGED page

\* A dependency is imported, or fails with a warning; the next one follows.
LoadDependency ==
  /\ boot = "dependencies" /\ loaded < NumDependencies
  /\ loaded' = loaded + 1
  /\ UNCHANGED <<boot, main, listening, saving, answers, toHost, toWorker>>
  /\ UNCHANGED page

\* A plausible slip: the handler is registered when Main has come to its end.
StartDeaf ==
  /\ boot = "dependencies" /\ loaded = NumDependencies
  /\ boot' = "main"
  /\ main' = "running"
  /\ \E posts \in {<<>>, <<"dotnet-ready">>} :
       toHost' = toHost \o <<"uno-worker-ready">> \o posts
  /\ UNCHANGED <<loaded, listening, saving, answers, toWorker>>
  /\ UNCHANGED page

(* Post readiness, register the handler and call Main, which may post a    *)
(* message of its own before it awaits anything.                           *)
Start ==
  /\ boot = "dependencies" /\ loaded = NumDependencies
  /\ boot' = "main"
  /\ listening' = TRUE
  /\ main' = "running"
  /\ \E posts \in {<<>>, <<"dotnet-ready">>} :
       toHost' = toHost \o <<"uno-worker-ready">> \o posts
  /\ UNCHANGED <<loaded, saving, answers, toWorker>>
  /\ UNCHANGED page

MainReturns ==
  /\ boot = "main"
  /\ boot' = "over"
  /\ main' = "returned"
  /\ UNCHANGED <<loaded, listening, saving, answers, toHost, toWorker>>
  /\ UNCHANGED page

(* Main throws: the exception of the awaited runMain is caught.            *)
MainThrows ==
  /\ boot = "main"
  /\ boot' = "over"
  /\ main' = "threw"
  /\ Post("uno-worker-error")
  /\ UNCHANGED <<loaded, listening, saving, answers, toWorker>>
  /\ UNCHANGED page

-----------------------------------------------------------------------------
Answer(c, types) ==
  /\ answers' = [answers EXCEPT ![c] = @ + 1]
  /\ \E type \in types : Post(type)
Data == {"uno-profiler-data"}
Error == {"uno-profiler-error"}

\* Built and posted at once; without the profiler, an error.
HandleMemorySnapshot(c) == Answer(c, Data \cup Error) /\ UNCHANGED saving

\* A plausible slip: the missing file system is reported, and the save goes on.
HandleSaveAnyway(c) ==
  \/ saving' = saving \cup {c} /\ UNCHANGED <<answers, toHost>>
  \/ Answer(c, Error) /\ saving' = saving \cup {c}

(* A save awaits the exports, unless what it needs is not there: the file  *)
(* system for the log, getAssemblyExports for the AOT profile.             *)
HandleSave(c) ==
  \/ saving' = saving \cup {c} /\ UNCHANGED <<answers, toHost>>
  \/ Answer(c, Error) /\ UNCHANGED saving

\* The handler; an unknown command is only logged.
Handle(c) ==
  CASE kind[c] = "memory-snapshot" -> HandleMemorySnapshot(c)
    [] kind[c] \in Saves           -> HandleSave(c)
    [] OTHER                       -> UNCHANGED <<saving, answers, toHost>>

\* The worker takes the next command; without a listener it is lost.
Dispatch ==
  /\ toWorker # <<>>
  /\ toWorker' = Tail(toWorker)
  /\ IF listening THEN Handle(Head(toWorker)) ELSE UNCHANGED <<saving, answers, toHost>>
  /\ UNCHANGED <<boot, loaded, main, listening>>
  /\ UNCHANGED page

(* The exports are there, or not, and so is the profile; an exception is   *)
(* caught inside the handler, and either way there is one answer.          *)
SaveEnds(c) ==
  /\ c \in saving
  /\ saving' = saving \ {c}
  /\ Answer(c, Data \cup Error)
  /\ UNCHANGED <<boot, loaded, main, listening, toWorker>>
  /\ UNCHANGED page

(* A helper is called from the console of the worker; what a snapshot      *)
(* throws there is not caught.                                             *)
ConsoleCalls(k) ==
  /\ listening /\ kind[Console] = "unsent" /\ k # "unknown"
  /\ kind' = [kind EXCEPT ![Console] = k]
  /\ IF k \in Saves THEN HandleSave(Console)
     ELSE HandleMemorySnapshot(Console) \/ UNCHANGED <<saving, answers, toHost>>
  /\ UNCHANGED <<boot, loaded, main, listening, toWorker, inTime, status>>

-----------------------------------------------------------------------------
(* The page may post a command at any time; it has heard that the worker   *)
(* is ready when its status is no longer the first.                        *)
HostSends(c, k) ==
  /\ kind[c] = "unsent" /\ \A b \in 1..(c - 1) : kind[b] # "unsent"
  /\ kind' = [kind EXCEPT ![c] = k]
  /\ inTime' = IF status \in {"initialized", "ready"} THEN inTime \cup {c} ELSE inTime
  /\ toWorker' = Append(toWorker, c)
  /\ UNCHANGED <<toHost, status>>
  /\ UNCHANGED worker

(* The page's message listener; uno-worker-error is not among the types it *)
(* knows.                                                                  *)
HostReceives ==
  /\ toHost # <<>>
  /\ toHost' = Tail(toHost)
  /\ status' = CASE Head(toHost) = "dotnet-ready" -> "ready"
                 [] Head(toHost) = "uno-worker-ready" /\ status # "ready" -> "initialized"
                 [] OTHER -> status
  /\ UNCHANGED <<toWorker, kind, inTime>>
  /\ UNCHANGED worker

(* The script itself does not load: the only way to the page's error       *)
(* listener, because bootstrap catches everything.                         *)
ScriptFails ==
  /\ boot = "config"
  /\ boot' = "over"
  /\ status' = "error"
  /\ UNCHANGED <<loaded, main, listening, saving, answers, toHost, toWorker, kind, inTime>>

-----------------------------------------------------------------------------
Bootstrap ==
  LoadConfig \/ ImportDotnet \/ CreateRuntime \/ LoadFails \/ LoadDependency \/ Start

Next ==
  \/ Bootstrap \/ MainReturns \/ MainThrows \/ ScriptFails
  \/ Dispatch \/ HostReceives
  \/ \E c \in Requests : SaveEnds(c)
  \/ \E k \in Kinds : ConsoleCalls(k) \/ (\E c \in Commands : HostSends(c, k))

Spec == Init /\ [][Next]_vars

(* Both event loops run; imports and exports resolve or reject.  Main may  *)
(* wait for messages for ever, but it awaits them.                         *)
FairSpec ==
  /\ Spec
  /\ WF_vars(Bootstrap) /\ WF_vars(Dispatch) /\ WF_vars(HostReceives)
  /\ \A c \in Requests : WF_vars(SaveEnds(c))
-----------------------------------------------------------------------------
(* A page that waits for uno-worker-ready may send its commands at once:   *)
(* each it knows how to name is answered, though readiness is posted       *)
(* before the handler is registered and however long Main runs             *)
(* (WorkerBootstrapper.ts:91-102, 224-256).                                *)
ReadyMeansHeard ==
  \A c \in Commands : (c \in inTime /\ kind[c] # "unknown") ~> answers[c] > 0

(* No request is answered twice or while its save goes on: several posts   *)
(* on the way through a handler, an early return and a catch around an     *)
(* await exclude each other (WorkerBootstrapper.ts:285-358).               *)
OneAnswerEach ==
  \A c \in Requests :
    /\ answers[c] <= 1
    /\ answers[c] = 1 => c \notin saving /\ \A i \in DOMAIN toWorker : toWorker[i] # c
=============================================================================
