--------------------------- MODULE MemorySnapshot ---------------------------
(***************************************************************************)
(* EmscriptenMemoryProfilerSupport: the snapshot of native allocations the *)
(* page downloads.  The table allocationsAtLoc maps a stack trace to the   *)
(* number and the bytes of its outstanding allocations.  It is captured    *)
(* into sites, the sites are sorted, and two documents are built of them:  *)
(* for speedscope, with a table of frames the samples point into, and for  *)
(* PerfView, with the names themselves.  Each iteration of a loop is an    *)
(* action.  A line of a stack is abstracted to what the parser tells apart:*)
(* whether it is a frame ("at ..."), whether its function bears the prefix *)
(* dotnet.native.wasm., and the function.  The two documents are built of  *)
(* one capture here; the code captures for each of them, in one turn of    *)
(* the event loop.                                                         *)
(***************************************************************************)
EXTENDS Integers, Sequences, FiniteSets

CONSTANTS Functions,   \* names of functions
          Tables       \* tables of the profiler that are captured

Lines == [at : BOOLEAN, prefixed : BOOLEAN, function : Functions]
Entries == [stack : Seq(Lines), count : Nat, bytes : Nat]

ASSUME TablesAssumption == Tables \subseteq Seq(Entries)

VARIABLES
  table,     \* allocationsAtLoc
  phase,     \* the loop the program is in
  entry,     \* the index of its outer loop
  line,      \* the index of its inner loop
  parsed,    \* frames parsed of the current stack
  sites,     \* the sites captured
  frameMap,  \* name -> index in shared.frames, counted from 0
  frames,    \* shared.frames
  samples,   \* samples: indices, outermost frame first
  weights,   \* weights
  endValue,  \* endValue
  perf       \* Samples of the PerfView document

capture == <<entry, line, parsed, sites>>
document == <<frameMap, frames, samples, weights, endValue, perf>>
vars == <<table, phase, entry, line, parsed, sites, document>>

Init ==
  /\ table \in Tables
  /\ phase = "capture"
  /\ entry = 1 /\ line = 1
  /\ parsed = <<>>
  /\ sites = <<>>
  /\ frameMap = [f \in {} |-> 0]
  /\ frames = <<>>
  /\ samples = <<>> /\ weights = <<>> /\ endValue = 0
  /\ perf = <<>>
-----------------------------------------------------------------------------
Capturing == phase = "capture" /\ entry <= Len(table)

\* Everything at this stack was freed.
SkipFreed ==
  /\ Capturing /\ table[entry].count = 0
  /\ entry' = entry + 1
  /\ UNCHANGED <<table, phase, line, parsed, sites, document>>

\* The frame of a line: the name of its function without the prefix.
FrameOf(l) == l.function

ParseLine ==
  /\ Capturing /\ table[entry].count # 0 /\ line <= Len(table[entry].stack)
  /\ LET l == table[entry].stack[line]
     IN  parsed' = IF l.at THEN Append(parsed, FrameOf(l)) ELSE parsed
  /\ line' = line + 1
  /\ UNCHANGED <<table, phase, entry, sites, document>>

\* A plausible slip: the frames are collected in one list for all stacks.
PushSiteSharing ==
  /\ Capturing /\ table[entry].count # 0 /\ line > Len(table[entry].stack)
  /\ sites' = Append(sites, [bytes |-> table[entry].bytes, stackFrames |-> parsed])
  /\ entry' = entry + 1
  /\ line' = 1
  /\ UNCHANGED <<table, phase, parsed, document>>

PushSite ==
  /\ Capturing /\ table[entry].count # 0 /\ line > Len(table[entry].stack)
  /\ sites' = Append(sites, [bytes |-> table[entry].bytes, stackFrames |-> parsed])
  /\ entry' = entry + 1
  /\ line' = 1
  /\ parsed' = <<>>
  /\ UNCHANGED <<table, phase, document>>

(* Array.prototype.sort is stable: sites of equal bytes keep their order.  *)
LargestFirst(p) ==
  \A j, k \in DOMAIN sites :
    j < k => \/ sites[p[j]].bytes > sites[p[k]].bytes
             \/ sites[p[j]].bytes = sites[p[k]].bytes /\ p[j] < p[k]

Sort ==
  /\ phase = "capture" /\ entry > Len(table)
  /\ \E p \in [DOMAIN sites -> DOMAIN sites] :
       /\ \A j, k \in DOMAIN sites : p[j] = p[k] => j = k
       /\ LargestFirst(p)
       /\ sites' = [k \in DOMAIN sites |-> sites[p[k]]]
  /\ phase' = "frames"
  /\ entry' = 1 /\ line' = 1
  /\ UNCHANGED <<table, parsed, document>>
-----------------------------------------------------------------------------
AtSite(p) == phase = p /\ entry <= Len(sites)
LoopEnds(p, q) ==
  /\ phase = p /\ entry > Len(sites)
  /\ phase' = q
  /\ entry' = 1
  /\ UNCHANGED <<table, line, parsed, sites, document>>

\* A plausible slip: every frame gets an entry of its own.
MapFrameAgain ==
  /\ AtSite("frames") /\ line <= Len(sites[entry].stackFrames)
  /\ LET f == sites[entry].stackFrames[line]
     IN  /\ frameMap' = [g \in DOMAIN frameMap \cup {f} |->
                          IF g = f THEN Len(frames) ELSE frameMap[g]]
         /\ frames' = Append(frames, f)
  /\ line' = line + 1
  /\ UNCHANGED <<table, phase, entry, parsed, sites, samples, weights, endValue, perf>>

\* A frame gets the next free index the first time its name is met.
MapFrame ==
  /\ AtSite("frames") /\ line <= Len(sites[entry].stackFrames)
  /\ LET f == sites[entry].stackFrames[line]
     IN  IF f \in DOMAIN frameMap
           THEN UNCHANGED <<frameMap, frames>>
           ELSE /\ frameMap' = [g \in DOMAIN frameMap \cup {f} |->
                                 IF g = f THEN Len(frames) ELSE frameMap[g]]
                /\ frames' = Append(frames, f)
  /\ line' = line + 1
  /\ UNCHANGED <<table, phase, entry, parsed, sites, samples, weights, endValue, perf>>

MappedSite ==
  /\ AtSite("frames") /\ line > Len(sites[entry].stackFrames)
  /\ entry' = entry + 1
  /\ line' = 1
  /\ UNCHANGED <<table, phase, parsed, sites, document>>

FramesMapped == LoopEnds("frames", "samples")

\* The indices of a stack, reversed: speedscope expects the outermost first.
Indices(s) ==
  [k \in DOMAIN s |-> frameMap[s[Len(s) + 1 - k]]]

AddSample ==
  /\ AtSite("samples")
  /\ samples' = Append(samples, Indices(sites[entry].stackFrames))
  /\ weights' = Append(weights, sites[entry].bytes)
  /\ endValue' = endValue + sites[entry].bytes
  /\ entry' = entry + 1
  /\ UNCHANGED <<table, phase, line, parsed, sites, frameMap, frames, perf>>

SamplesAdded == LoopEnds("samples", "perfview")

AddPerfViewSample ==
  /\ AtSite("perfview")
  /\ perf' = Append(perf, [stack |-> sites[entry].stackFrames,
                           metric |-> sites[entry].bytes])
  /\ entry' = entry + 1
  /\ UNCHANGED <<table, phase, line, parsed, sites, frameMap, frames, samples,
                 weights, endValue>>

Exported == LoopEnds("perfview", "done")

Next ==
  \/ SkipFreed \/ ParseLine \/ PushSite \/ Sort
  \/ MapFrame \/ MappedSite \/ FramesMapped
  \/ AddSample \/ SamplesAdded
  \/ AddPerfViewSample \/ Exported

Spec == Init /\ [][Next]_vars
-----------------------------------------------------------------------------
(* What the two builders promise each other and validate-export-formats.js *)
(* asserts of each: as many samples as weights, every index inside the     *)
(* table of frames, no name twice in it, the largest site first, and       *)
(* (spec 002, FR-4 to FR-6) the two documents show the same stacks with    *)
(* the same bytes, one from the outermost frame and one from the innermost.*)
FramesDistinct ==
  \A j, k \in DOMAIN frames : frames[j] = frames[k] => j = k

SameSample(k) ==
  /\ weights[k] = perf[k].metric
  /\ DOMAIN samples[k] = DOMAIN perf[k].stack
  /\ \A j \in DOMAIN samples[k] :
       /\ samples[k][j] + 1 \in DOMAIN frames
       /\ frames[samples[k][j] + 1] = perf[k].stack[Len(perf[k].stack) + 1 - j]

DocumentsAgree ==
  phase = "done" =>
    /\ FramesDistinct
    /\ Len(samples) = Len(weights) /\ Len(perf) = Len(weights)
    /\ \A k \in 1..Len(weights) : SameSample(k)
    /\ \A j, k \in 1..Len(weights) : j < k => weights[j] >= weights[k]

(* Against the table itself: each stack and number of bytes is exported as *)
(* often as the table has it outstanding, and endValue is the sum of the   *)
(* weights; freed sites add nothing, and no site takes frames of another.  *)
FramesUpTo(s) ==
  LET upTo[n \in 0..Len(s)] ==
        IF n = 0 THEN <<>>
        ELSE IF s[n].at THEN Append(upTo[n - 1], s[n].function)
        ELSE upTo[n - 1]
  IN  upTo
StackOf(e) == FramesUpTo(e.stack)[Len(e.stack)]

SumsUpTo(w) ==
  LET upTo[n \in 0..Len(w)] == IF n = 0 THEN 0 ELSE upTo[n - 1] + w[n]
  IN  upTo
SumOf(w) == SumsUpTo(w)[Len(w)]

Outstanding == {k \in DOMAIN table : table[k].count # 0}

NothingLost ==
  phase = "done" =>
    /\ \A e \in {table[k] : k \in Outstanding} :
         Cardinality({k \in DOMAIN perf : /\ perf[k].stack = StackOf(e)
                                          /\ perf[k].metric = e.bytes})
         = Cardinality({k \in Outstanding : /\ StackOf(table[k]) = StackOf(e)
                                            /\ table[k].bytes = e.bytes})
    /\ Len(perf) = Cardinality(Outstanding)
    /\ endValue = SumOf(weights)
=============================================================================
