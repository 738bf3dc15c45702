--------------------------- MODULE ProfilerProofs ---------------------------
(***************************************************************************)
(* Theorems about the profilers.  For every table of allocations the two   *)
(* documents agree with each other and have the form their readers expect  *)
(* (DocumentsAgree), and lose nothing of it (NothingLost); for any number  *)
(* of commands each request to a worker is answered once at most, and none *)
(* sent in time is lost; for any number of keys and events a save is       *)
(* complete.                                                               *)
(***************************************************************************)
EXTENDS MCProfilers, FiniteSetTheorems, TLAPS

Sites == [bytes : Nat, stackFrames : Seq(Functions)]
Phases == {"capture", "frames", "samples", "perfview", "done"}

Typed ==
  /\ table \in Seq(Entries)
  /\ phase \in Phases
  /\ entry \in Nat \ {0} /\ line \in Nat \ {0}
  /\ parsed \in Seq(Functions)
  /\ sites \in Seq(Sites)
  /\ frames \in Seq(Functions)
  /\ samples \in Seq(Seq(Nat)) /\ weights \in Seq(Nat)
  /\ perf \in Seq([stack : Seq(Functions), metric : Nat])

\* frameMap is the inverse of shared.frames.
Mapped ==
  /\ DOMAIN frameMap = {frames[k] : k \in DOMAIN frames}
  /\ \A k \in DOMAIN frames : frameMap[frames[k]] = k - 1

\* The frames of the sites the loop has gone over are in the map.
Known(s, n) ==
  \A j \in 1..Len(sites[s].stackFrames) :
    j < n => sites[s].stackFrames[j] \in DOMAIN frameMap
Covered ==
  /\ phase # "capture" => entry <= Len(sites) + 1
  /\ phase = "frames" =>
       /\ \A s \in 1..Len(sites) :
            s < entry => Known(s, Len(sites[s].stackFrames) + 1)
       /\ entry <= Len(sites) => Known(entry, line)
  /\ phase \in {"samples", "perfview", "done"} =>
       \A s \in 1..Len(sites) : Known(s, Len(sites[s].stackFrames) + 1)

Sorted ==
  phase # "capture" =>
    \A j, k \in 1..Len(sites) : j < k => sites[j].bytes >= sites[k].bytes

\* How many sites have been written to a document.
Written(before, p) ==
  IF phase \in before THEN 0
  ELSE IF phase = p THEN entry - 1 ELSE Len(sites)
Sampled == Written({"capture", "frames"}, "samples")
Shown == Written({"capture", "frames", "samples"}, "perfview")

SamplesRight ==
  /\ Len(samples) = Sampled /\ Len(weights) = Sampled
  /\ \A k \in 1..Sampled :
       /\ samples[k] = Indices(sites[k].stackFrames)
       /\ weights[k] = sites[k].bytes

PerfRight ==
  /\ Len(perf) = Shown
  /\ \A k \in 1..Shown :
       perf[k] = [stack |-> sites[k].stackFrames, metric |-> sites[k].bytes]

SnapshotInv ==
  Typed /\ Mapped /\ Covered /\ Sorted /\ SamplesRight /\ PerfRight

(* The initial state. *)
LEMMA InitInv == Init => SnapshotInv
<1> SUFFICES ASSUME Init PROVE SnapshotInv
    OBVIOUS
<1> USE DEF Init
<1>1. Typed
  BY TablesAssumption DEF Typed, Phases
<1>2. Mapped
  BY DEF Mapped
<1>3. Covered /\ Sorted
  BY DEF Covered, Sorted
<1>4. SamplesRight /\ PerfRight
  BY DEF SamplesRight, PerfRight, Sampled, Shown, Written
<1> QED
  BY <1>1, <1>2, <1>3, <1>4 DEF SnapshotInv

(* An entry of the table and a site, by their parts. *)
LEMMA EntryParts ==
  ASSUME table \in Seq(Entries), entry \in Nat \ {0}, entry <= Len(table)
  PROVE  /\ table[entry].stack \in Seq(Lines)
         /\ table[entry].count \in Nat
         /\ table[entry].bytes \in Nat
<1>1. table[entry] \in Entries
  OBVIOUS
<1> QED
  BY <1>1 DEF Entries

LEMMA SiteParts ==
  ASSUME sites \in Seq(Sites), NEW k \in 1..Len(sites)
  PROVE  /\ sites[k].bytes \in Nat
         /\ sites[k].stackFrames \in Seq(Functions)
<1>1. sites[k] \in Sites
  OBVIOUS
<1> QED
  BY <1>1 DEF Sites

(* The loops of captureAllocationSites and parseStackTrace leave the       *)
(* documents alone.                                                        *)
LEMMA CaptureStep ==
  ASSUME SnapshotInv, SkipFreed \/ ParseLine \/ PushSite
  PROVE  SnapshotInv'
<1>1. /\ phase = "capture" /\ phase' = "capture" /\ document' = document
      /\ entry <= Len(table)
  BY DEF SkipFreed, ParseLine, PushSite, Capturing, document
<1>2. Typed'
  <2> USE DEF SnapshotInv, Typed
  <2>1. /\ table[entry].stack \in Seq(Lines)
        /\ table[entry].bytes \in Nat
    BY <1>1, EntryParts
  <2>2. CASE SkipFreed
    BY <2>2, <1>1 DEF SkipFreed, document
  <2>3. CASE ParseLine
    <3> DEFINE l == table[entry].stack[line]
    <3>1. line \in 1..Len(table[entry].stack)
      BY <2>3, <2>1 DEF ParseLine
    <3>2. l \in Lines
      BY <3>1, <2>1
    <3>3. FrameOf(l) \in Functions
      BY <3>2 DEF Lines, FrameOf
    <3>4. parsed' = IF l.at THEN Append(parsed, FrameOf(l)) ELSE parsed
      BY <2>3 DEF ParseLine
    <3> HIDE DEF l
    <3>5. parsed' \in Seq(Functions)
      BY <3>3, <3>4
    <3> QED
      BY <3>5, <2>3, <1>1 DEF ParseLine, document
  <2>4. CASE PushSite
    <3>1. [bytes |-> table[entry].bytes, stackFrames |-> parsed] \in Sites
      BY <2>1 DEF Sites
    <3>2. sites' \in Seq(Sites)
      BY <3>1, <2>4 DEF PushSite
    <3> QED
      BY <3>2, <2>4, <1>1 DEF PushSite, document
  <2> QED
    BY <2>2, <2>3, <2>4
<1>3. Mapped'
  BY <1>1 DEF SnapshotInv, Mapped, document
<1>4. Covered' /\ Sorted'
  BY <1>1 DEF Covered, Sorted
<1>5. SamplesRight' /\ PerfRight'
  BY <1>1 DEF SnapshotInv, SamplesRight, PerfRight, Sampled, Shown, Written, document
<1> QED
  BY <1>2, <1>3, <1>4, <1>5 DEF SnapshotInv

(* After the sort the weights to come descend. *)
LEMMA SortStep ==
  ASSUME SnapshotInv, Sort
  PROVE  SnapshotInv'
<1>1. /\ phase = "capture" /\ phase' = "frames" /\ entry' = 1 /\ line' = 1
      /\ document' = document /\ table' = table /\ parsed' = parsed
  BY DEF Sort, document
<1>2. PICK p \in [DOMAIN sites -> DOMAIN sites] :
        /\ LargestFirst(p)
        /\ sites' = [k \in DOMAIN sites |-> sites[p[k]]]
  BY DEF Sort
<1>3. sites \in Seq(Sites) /\ DOMAIN sites = 1..Len(sites) /\ Len(sites) \in Nat
  BY DEF SnapshotInv, Typed
<1>4. sites' \in Seq(Sites) /\ Len(sites') = Len(sites)
  <2>1. \A k \in 1..Len(sites) : sites[p[k]] \in Sites
    BY <1>2, <1>3
  <2>2. sites' \in [1..Len(sites) -> Sites]
    BY <2>1, <1>2, <1>3
  <2> QED
    BY <2>2, <1>3
<1>5. Typed'
  BY <1>1, <1>4 DEF SnapshotInv, Typed, Phases, document
<1>6. Sorted'
  <2>1. SUFFICES ASSUME NEW j \in 1..Len(sites), NEW k \in 1..Len(sites), j < k
                 PROVE  sites'[j].bytes >= sites'[k].bytes
    BY <1>4 DEF Sorted
  <2>2. p[j] \in 1..Len(sites) /\ p[k] \in 1..Len(sites)
    BY <1>2, <1>3
  <2>3. sites[p[j]].bytes \in Nat /\ sites[p[k]].bytes \in Nat
    BY <2>2, <1>3, SiteParts
  <2>4. \/ sites[p[j]].bytes > sites[p[k]].bytes
        \/ sites[p[j]].bytes = sites[p[k]].bytes
    BY <2>1, <1>2, <1>3 DEF LargestFirst
  <2>5. sites[p[j]].bytes >= sites[p[k]].bytes
    BY <2>3, <2>4
  <2> QED
    BY <2>5, <1>2, <1>3
<1>7. Mapped'
  BY <1>1 DEF SnapshotInv, Mapped, document
<1>8. Covered'
  BY <1>1, <1>4 DEF Covered, Known, document
<1>9. SamplesRight' /\ PerfRight'
  BY <1>1 DEF SnapshotInv, SamplesRight, PerfRight, Sampled, Shown, Written, document
<1> QED
  BY <1>5, <1>6, <1>7, <1>8, <1>9 DEF SnapshotInv

(* A frame met for the first time gets the next index, so the map stays    *)
(* the inverse of the table of frames, and nothing leaves it.              *)
LEMMA MapFrameStep ==
  ASSUME SnapshotInv, MapFrame
  PROVE  SnapshotInv'
<1> DEFINE f == sites[entry].stackFrames[line]
<1>1. /\ phase = "frames" /\ entry <= Len(sites) /\ line <= Len(sites[entry].stackFrames)
      /\ line' = line + 1
      /\ UNCHANGED <<table, phase, entry, parsed, sites, samples, weights, perf>>
  BY DEF MapFrame, AtSite
<1>2. /\ frames \in Seq(Functions) /\ entry \in 1..Len(sites) /\ line \in Nat \ {0}
  BY <1>1 DEF SnapshotInv, Typed
<1>3. sites[entry].stackFrames \in Seq(Functions)
  BY <1>2, SiteParts DEF SnapshotInv, Typed
<1>4. f \in Functions
  BY <1>1, <1>2, <1>3
<1>5. \/ f \in DOMAIN frameMap /\ frameMap' = frameMap /\ frames' = frames
      \/ /\ f \notin DOMAIN frameMap
         /\ frameMap' = [g \in DOMAIN frameMap \cup {f} |->
                          IF g = f THEN Len(frames) ELSE frameMap[g]]
         /\ frames' = Append(frames, f)
  BY DEF MapFrame
<1>6. Mapped
  BY DEF SnapshotInv
<1> HIDE DEF f
<1>7. /\ frames' \in Seq(Functions)
      /\ Mapped'
      /\ DOMAIN frameMap \cup {f} = DOMAIN frameMap'
  <2>1. CASE f \in DOMAIN frameMap /\ frameMap' = frameMap /\ frames' = frames
    BY <2>1, <1>2, <1>6 DEF Mapped
  <2>2. CASE /\ f \notin DOMAIN frameMap
             /\ frameMap' = [g \in DOMAIN frameMap \cup {f} |->
                              IF g = f THEN Len(frames) ELSE frameMap[g]]
             /\ frames' = Append(frames, f)
    <3>1. /\ frames' \in Seq(Functions)
          /\ DOMAIN frames' = DOMAIN frames \cup {Len(frames) + 1}
          /\ frames'[Len(frames) + 1] = f
          /\ \A k \in DOMAIN frames : frames'[k] = frames[k]
      BY <2>2, <1>2, <1>4
    <3>2. DOMAIN frameMap' = DOMAIN frameMap \cup {f}
      BY <2>2
    <3>3. DOMAIN frameMap' = {frames'[k] : k \in DOMAIN frames'}
      BY <3>1, <3>2, <1>6 DEF Mapped
    <3>4. ASSUME NEW k \in DOMAIN frames' PROVE frameMap'[frames'[k]] = k - 1
      <4>1. CASE k \in DOMAIN frames
        <5>1. frames[k] \in DOMAIN frameMap /\ frameMap[frames[k]] = k - 1
          BY <4>1, <1>6 DEF Mapped
        <5>2. frames[k] # f
          BY <5>1, <2>2
        <5>3. frameMap'[frames[k]] = frameMap[frames[k]]
          BY <5>1, <5>2, <2>2
        <5> QED
          BY <5>1, <5>3, <4>1, <3>1
      <4>2. CASE k = Len(frames) + 1
        BY <4>2, <3>1, <2>2, <1>2
      <4> QED
        BY <4>1, <4>2, <3>1
    <3> QED
      BY <3>1, <3>2, <3>3, <3>4 DEF Mapped
  <2> QED
    BY <2>1, <2>2, <1>5
<1>8. Typed'
  BY <1>1, <1>2, <1>7 DEF SnapshotInv, Typed
<1>9. Covered'
  <2> DEFINE KnownNow(s, n) ==
        \A j \in 1..Len(sites[s].stackFrames) :
          j < n => sites[s].stackFrames[j] \in DOMAIN frameMap'
  <2>1. /\ \A s \in 1..Len(sites) :
             s < entry => Known(s, Len(sites[s].stackFrames) + 1)
        /\ Known(entry, line)
    BY <1>1 DEF SnapshotInv, Covered
  <2>2. \A s \in 1..Len(sites) : s < entry => KnownNow(s, Len(sites[s].stackFrames) + 1)
    BY <2>1, <1>7 DEF Known
  <2>3. KnownNow(entry, line + 1)
    <3> SUFFICES ASSUME NEW j \in 1..Len(sites[entry].stackFrames), j < line + 1
                 PROVE  sites[entry].stackFrames[j] \in DOMAIN frameMap'
      OBVIOUS
    <3>1. CASE j < line
      BY <2>1, <3>1, <1>7 DEF Known
    <3>2. CASE j = line
      BY <3>2, <1>7 DEF f
    <3> QED
      BY <3>1, <3>2, <1>2
  <2>4. \A s \in 1..Len(sites)' :
          (s < entry)' => KnownNow(s, Len(sites[s].stackFrames) + 1)
    BY <2>2, <1>1
  <2>5. entry' <= Len(sites') + 1
    BY <1>1, <1>2
  <2> QED
    BY <2>3, <2>4, <2>5, <1>1 DEF Covered, Known
<1>10. Sorted'
  BY <1>1 DEF SnapshotInv, Sorted
<1>11. SamplesRight' /\ PerfRight'
  BY <1>1 DEF SnapshotInv, SamplesRight, PerfRight, Sampled, Shown, Written
<1> QED
  BY <1>7, <1>8, <1>9, <1>10, <1>11 DEF SnapshotInv

LEMMA MappedSiteStep ==
  ASSUME SnapshotInv, MappedSite
  PROVE  SnapshotInv'
<1>1. /\ phase = "frames" /\ entry <= Len(sites) /\ line > Len(sites[entry].stackFrames)
      /\ entry' = entry + 1 /\ line' = 1
      /\ UNCHANGED <<table, phase, parsed, sites, document>>
  BY DEF MappedSite, AtSite
<1>2. /\ entry \in 1..Len(sites) /\ line \in Nat \ {0} /\ Len(sites) \in Nat
  BY <1>1 DEF SnapshotInv, Typed
<1>3. sites[entry].stackFrames \in Seq(Functions)
  BY <1>2, SiteParts DEF SnapshotInv, Typed
<1>4. Typed'
  BY <1>1, <1>2 DEF SnapshotInv, Typed, document
<1>5. Covered'
  <2>1. Known(entry, Len(sites[entry].stackFrames) + 1)
    BY <1>1, <1>2, <1>3 DEF SnapshotInv, Covered, Known
  <2>2. \A s \in 1..Len(sites) :
          s < entry + 1 => Known(s, Len(sites[s].stackFrames) + 1)
    BY <2>1, <1>1, <1>2 DEF SnapshotInv, Covered
  <2>3. \A s \in 1..Len(sites) :
          s < entry + 1 => Known(s, Len(sites[s].stackFrames) + 1)'
    BY <2>2, <1>1 DEF Known, document
  <2>4. entry' <= Len(sites') => Known(entry, line)'
    BY <1>1 DEF Known
  <2> QED
    BY <2>3, <2>4, <1>1, <1>2 DEF Covered
<1>6. Mapped' /\ Sorted'
  BY <1>1 DEF SnapshotInv, Mapped, Sorted, document
<1>7. SamplesRight' /\ PerfRight'
  BY <1>1 DEF SnapshotInv, SamplesRight, PerfRight, Sampled, Shown, Written, document
<1> QED
  BY <1>4, <1>5, <1>6, <1>7 DEF SnapshotInv

(* The end of a loop: what it has covered is everything. *)
LEMMA LoopStep ==
  ASSUME SnapshotInv, FramesMapped \/ SamplesAdded \/ Exported
  PROVE  SnapshotInv'
<1>1. /\ \/ phase = "frames" /\ phase' = "samples"
         \/ phase = "samples" /\ phase' = "perfview"
         \/ phase = "perfview" /\ phase' = "done"
      /\ entry > Len(sites) /\ entry' = 1
      /\ UNCHANGED <<table, line, parsed, sites, document>>
  BY DEF FramesMapped, SamplesAdded, Exported, LoopEnds
<1>2. entry = Len(sites) + 1 /\ Len(sites) \in Nat
  BY <1>1 DEF SnapshotInv, Typed, Covered
<1>3. Typed'
  BY <1>1 DEF SnapshotInv, Typed, Phases, document
<1>4. Mapped' /\ Sorted'
  BY <1>1 DEF SnapshotInv, Mapped, Sorted, document
<1>5. Covered'
  <2>1. \A s \in 1..Len(sites) : Known(s, Len(sites[s].stackFrames) + 1)
    BY <1>1, <1>2 DEF SnapshotInv, Covered
  <2>2. \A s \in 1..Len(sites) : Known(s, Len(sites[s].stackFrames) + 1)'
    BY <2>1, <1>1 DEF Known, document
  <2> QED
    BY <2>2, <1>1, <1>2 DEF Covered
<1>6. SamplesRight'
  <2>1. Sampled' = Sampled
    BY <1>1, <1>2 DEF Sampled, Written
  <2>2. \A k \in 1..Sampled : Indices(sites[k].stackFrames)' = Indices(sites[k].stackFrames)
    BY <1>1 DEF Indices, document
  <2> QED
    BY <2>1, <2>2, <1>1 DEF SnapshotInv, SamplesRight, document
<1>7. PerfRight'
  <2>1. Shown' = Shown
    BY <1>1, <1>2 DEF Shown, Written
  <2> QED
    BY <2>1, <1>1 DEF SnapshotInv, PerfRight, document
<1> QED
  BY <1>3, <1>4, <1>5, <1>6, <1>7 DEF SnapshotInv

(* The indices of a stack whose frames are all in the map. *)
LEMMA IndicesTyped ==
  ASSUME SnapshotInv, NEW k \in 1..Len(sites),
         Known(k, Len(sites[k].stackFrames) + 1)
  PROVE  /\ Indices(sites[k].stackFrames) \in Seq(Nat)
         /\ \A j \in DOMAIN sites[k].stackFrames :
              LET i == Indices(sites[k].stackFrames)[j]
              IN  /\ i + 1 \in DOMAIN frames
                  /\ frames[i + 1] =
                       sites[k].stackFrames[Len(sites[k].stackFrames) + 1 - j]
<1> DEFINE s == sites[k].stackFrames
<1>1. s \in Seq(Functions) /\ frames \in Seq(Functions)
  BY SiteParts DEF SnapshotInv, Typed
<1>2. Len(s) \in Nat /\ DOMAIN s = 1..Len(s)
  BY <1>1
<1>3. \A j \in 1..Len(s) : s[j] \in DOMAIN frameMap
  BY <1>2 DEF Known
<1> HIDE DEF s
<1>4. ASSUME NEW j \in 1..Len(s)
      PROVE  /\ Indices(s)[j] \in Nat
             /\ Indices(s)[j] + 1 \in DOMAIN frames
             /\ frames[Indices(s)[j] + 1] = s[Len(s) + 1 - j]
  <2>1. Len(s) + 1 - j \in 1..Len(s)
    BY <1>2
  <2>2. Indices(s)[j] = frameMap[s[Len(s) + 1 - j]]
    BY <1>2 DEF Indices
  <2>3. PICK i \in DOMAIN frames : frames[i] = s[Len(s) + 1 - j]
    BY <1>3, <2>1 DEF SnapshotInv, Mapped
  <2>4. frameMap[frames[i]] = i - 1
    BY DEF SnapshotInv, Mapped
  <2>5. i \in Nat \ {0}
    BY <1>1
  <2> QED
    BY <2>2, <2>3, <2>4, <2>5
<1>5. Indices(s) \in [1..Len(s) -> Nat]
  BY <1>2, <1>4 DEF Indices
<1>6. Indices(s) \in Seq(Nat)
  BY <1>2, <1>5
<1> QED
  BY <1>2, <1>4, <1>6 DEF s

LEMMA AddSampleStep ==
  ASSUME SnapshotInv, AddSample
  PROVE  SnapshotInv'
<1>1. /\ phase = "samples" /\ entry <= Len(sites) /\ entry' = entry + 1
      /\ samples' = Append(samples, Indices(sites[entry].stackFrames))
      /\ weights' = Append(weights, sites[entry].bytes)
      /\ UNCHANGED <<table, phase, line, parsed, sites, frameMap, frames, perf>>
  BY DEF AddSample, AtSite
<1>2. /\ entry \in 1..Len(sites) /\ Len(sites) \in Nat
      /\ samples \in Seq(Seq(Nat)) /\ weights \in Seq(Nat)
  BY <1>1 DEF SnapshotInv, Typed
<1>3. Known(entry, Len(sites[entry].stackFrames) + 1)
  BY <1>1, <1>2 DEF SnapshotInv, Covered
<1>4. Indices(sites[entry].stackFrames) \in Seq(Nat) /\ sites[entry].bytes \in Nat
  BY <1>2, <1>3, IndicesTyped, SiteParts DEF SnapshotInv, Typed
<1>5. samples' \in Seq(Seq(Nat)) /\ weights' \in Seq(Nat)
  BY <1>1, <1>2, <1>4
<1>6. Typed'
  BY <1>1, <1>2, <1>5 DEF SnapshotInv, Typed
<1>7. Mapped' /\ Sorted'
  BY <1>1 DEF SnapshotInv, Mapped, Sorted
<1>8. Covered'
  <2>1. \A s \in 1..Len(sites) : Known(s, Len(sites[s].stackFrames) + 1)'
    BY <1>1 DEF SnapshotInv, Covered, Known
  <2> QED
    BY <2>1, <1>1, <1>2 DEF Covered
<1>9. SamplesRight'
  <2>1. Sampled = entry - 1 /\ Sampled' = entry
    BY <1>1, <1>2 DEF Sampled, Written
  <2>2. Len(samples) = entry - 1 /\ Len(weights) = entry - 1
    BY <2>1 DEF SnapshotInv, SamplesRight
  <2>3. Len(samples') = entry /\ Len(weights') = entry
    BY <2>2, <1>1, <1>2, <1>4
  <2>4. ASSUME NEW k \in 1..entry
        PROVE  /\ samples'[k] = Indices(sites[k].stackFrames)
               /\ weights'[k] = sites[k].bytes
    <3>1. CASE k = entry
      BY <3>1, <2>2, <1>1, <1>2, <1>4
    <3>2. CASE k < entry
      <4>1. samples'[k] = samples[k] /\ weights'[k] = weights[k]
        BY <3>2, <2>2, <1>1, <1>2, <1>4
      <4>2. k \in 1..Sampled
        BY <3>2, <2>1, <1>2
      <4> QED
        BY <4>1, <4>2 DEF SnapshotInv, SamplesRight
    <3> QED
      BY <3>1, <3>2, <1>2
  <2>5. \A k \in 1..entry : Indices(sites[k].stackFrames)' = Indices(sites[k].stackFrames)
    BY <1>1 DEF Indices
  <2> QED
    BY <2>1, <2>3, <2>4, <2>5, <1>1 DEF SamplesRight
<1>10. PerfRight'
  BY <1>1 DEF SnapshotInv, PerfRight, Shown, Written
<1> QED
  BY <1>6, <1>7, <1>8, <1>9, <1>10 DEF SnapshotInv

LEMMA AddPerfViewStep ==
  ASSUME SnapshotInv, AddPerfViewSample
  PROVE  SnapshotInv'
<1> DEFINE r == [stack |-> sites[entry].stackFrames, metric |-> sites[entry].bytes]
<1>1. /\ phase = "perfview" /\ entry <= Len(sites) /\ entry' = entry + 1
      /\ perf' = Append(perf, r)
      /\ UNCHANGED <<table, phase, line, parsed, sites, frameMap, frames, samples, weights>>
  BY DEF AddPerfViewSample, AtSite
<1>2. /\ entry \in 1..Len(sites) /\ Len(sites) \in Nat
      /\ perf \in Seq([stack : Seq(Functions), metric : Nat])
  BY <1>1 DEF SnapshotInv, Typed
<1>3. r \in [stack : Seq(Functions), metric : Nat]
  BY <1>2, SiteParts DEF SnapshotInv, Typed
<1>4. r = [stack |-> sites[entry].stackFrames, metric |-> sites[entry].bytes]
  OBVIOUS
<1> HIDE DEF r
<1>5. Typed'
  <2>1. perf' \in Seq([stack : Seq(Functions), metric : Nat])
    BY <1>1, <1>2, <1>3
  <2> QED
    BY <2>1, <1>1, <1>2 DEF SnapshotInv, Typed
<1>6. Mapped' /\ Sorted'
  BY <1>1 DEF SnapshotInv, Mapped, Sorted
<1>7. Covered'
  <2>1. \A s \in 1..Len(sites) : Known(s, Len(sites[s].stackFrames) + 1)'
    BY <1>1 DEF SnapshotInv, Covered, Known
  <2> QED
    BY <2>1, <1>1, <1>2 DEF Covered
<1>8. SamplesRight'
  BY <1>1 DEF SnapshotInv, SamplesRight, Sampled, Written, Indices
<1>9. PerfRight'
  <2>1. Shown = entry - 1 /\ Shown' = entry
    BY <1>1, <1>2 DEF Shown, Written
  <2>2. Len(perf) = entry - 1
    BY <2>1 DEF SnapshotInv, PerfRight
  <2>3. Len(perf') = entry /\ perf'[entry] = r
    BY <2>2, <1>1, <1>2, <1>3
  <2>4. ASSUME NEW k \in 1..entry
        PROVE  perf'[k] = [stack |-> sites[k].stackFrames, metric |-> sites[k].bytes]
    <3>1. CASE k = entry
      BY <3>1, <2>3, <1>4
    <3>2. CASE k < entry
      <4>1. perf'[k] = perf[k]
        BY <3>2, <2>2, <1>1, <1>2, <1>3
      <4>2. k \in 1..Shown
        BY <3>2, <2>1, <1>2
      <4> QED
        BY <4>1, <4>2 DEF SnapshotInv, PerfRight
    <3> QED
      BY <3>1, <3>2, <1>2
  <2> QED
    BY <2>1, <2>3, <2>4, <1>1 DEF PerfRight
<1> QED
  BY <1>5, <1>6, <1>7, <1>8, <1>9 DEF SnapshotInv

(* The invariant of the capture and of both documents holds for every      *)
(* table of allocations.                                                   *)
THEOREM SnapshotInvariant == Spec => []SnapshotInv
<1>1. Init => SnapshotInv
  BY InitInv
<1>2. SnapshotInv /\ [Next]_vars => SnapshotInv'
  <2> SUFFICES ASSUME SnapshotInv, [Next]_vars PROVE SnapshotInv'
      OBVIOUS
  <2>1. CASE SkipFreed \/ ParseLine \/ PushSite
    BY <2>1, CaptureStep
  <2>2. CASE Sort
    BY <2>2, SortStep
  <2>3. CASE MapFrame
    BY <2>3, MapFrameStep
  <2>4. CASE MappedSite
    BY <2>4, MappedSiteStep
  <2>5. CASE FramesMapped \/ SamplesAdded \/ Exported
    BY <2>5, LoopStep
  <2>6. CASE AddSample
    BY <2>6, AddSampleStep
  <2>7. CASE AddPerfViewSample
    BY <2>7, AddPerfViewStep
  <2>8. CASE UNCHANGED vars
    <3> USE <2>8 DEF vars, document, SnapshotInv
    <3>1. Typed' /\ Mapped' /\ Sorted'
      BY DEF Typed, Mapped, Sorted
    <3>2. Covered'
      BY DEF Covered, Known
    <3>3. SamplesRight'
      BY DEF SamplesRight, Sampled, Written, Indices
    <3>4. PerfRight'
      BY DEF PerfRight, Shown, Written
    <3> QED
      BY <3>1, <3>2, <3>3, <3>4
  <2> QED
    BY <2>1, <2>2, <2>3, <2>4, <2>5, <2>6, <2>7, <2>8 DEF Next
<1> QED
  BY <1>1, <1>2, PTL DEF Spec

(* For every table of allocations: the speedscope and the PerfView         *)
(* document show the same stacks with the same bytes, the largest first,   *)
(* and every index of a sample points into the table of frames, in which   *)
(* no name stands twice.                                                   *)
THEOREM SnapshotDocumentsAgree == Spec => []DocumentsAgree
<1>1. SnapshotInv => DocumentsAgree
  <2> SUFFICES ASSUME SnapshotInv, phase = "done" PROVE
        /\ FramesDistinct
        /\ Len(samples) = Len(weights) /\ Len(perf) = Len(weights)
        /\ \A k \in 1..Len(weights) : SameSample(k)
        /\ \A j, k \in 1..Len(weights) : j < k => weights[j] >= weights[k]
      BY DEF DocumentsAgree
  <2>1. Sampled = Len(sites) /\ Shown = Len(sites)
    BY DEF Sampled, Shown, Written
  <2>2. /\ Len(samples) = Len(sites) /\ Len(weights) = Len(sites) /\ Len(perf) = Len(sites)
        /\ \A k \in 1..Len(sites) :
             /\ samples[k] = Indices(sites[k].stackFrames)
             /\ weights[k] = sites[k].bytes
             /\ perf[k] = [stack |-> sites[k].stackFrames, metric |-> sites[k].bytes]
    BY <2>1 DEF SnapshotInv, SamplesRight, PerfRight
  <2>3. FramesDistinct
    <3>1. \A k \in DOMAIN frames : k \in Nat
      BY DEF SnapshotInv, Typed
    <3> QED
      BY <3>1 DEF SnapshotInv, Mapped, FramesDistinct
  <2>4. ASSUME NEW k \in 1..Len(sites) PROVE SameSample(k)
    <3>1. Known(k, Len(sites[k].stackFrames) + 1)
      BY DEF SnapshotInv, Covered
    <3>2. DOMAIN samples[k] = DOMAIN sites[k].stackFrames
      BY <2>2 DEF Indices
    <3>3. perf[k] = [stack |-> sites[k].stackFrames, metric |-> sites[k].bytes]
      BY <2>2
    <3>4. perf[k].stack = sites[k].stackFrames /\ perf[k].metric = sites[k].bytes
      BY <3>3
    <3> QED
      BY <2>2, <3>1, <3>2, <3>4, IndicesTyped DEF SameSample
  <2>5. \A j, k \in 1..Len(sites) : j < k => weights[j] >= weights[k]
    BY <2>2 DEF SnapshotInv, Sorted
  <2> QED
    BY <2>2, <2>3, <2>4, <2>5
<1> QED
  BY <1>1, SnapshotInvariant, PTL
-----------------------------------------------------------------------------
(* Induction, by the least counterexample.                                 *)
LEMMA Induction ==
  ASSUME NEW S, 0 \in S, \A n \in Nat : n \in S => n + 1 \in S
  PROVE  \A n \in Nat : n \in S
<1> DEFINE T == Nat \ S
           R == OpToRel(<, Nat)
<1>1. SUFFICES ASSUME T # {} PROVE FALSE
  OBVIOUS
<1>2. \A m, n \in Nat : m < n => <<m, n>> \in R
  BY DEF OpToRel
<1>3. IsWellFoundedOn(R, Nat)
  BY NatLessThanWellFounded
<1> HIDE DEF R
<1>4. PICK n \in T : \A m \in T : ~ (<<m, n>> \in R)
  BY <1>1, <1>3, WFMin
<1>5. n \in Nat /\ n - 1 \in Nat /\ n - 1 < n /\ (n - 1) + 1 = n
  OBVIOUS
<1>6. <<n - 1, n>> \in R
  BY <1>2, <1>5
<1>7. n - 1 \in S
  BY <1>4, <1>5, <1>6
<1> QED
  BY <1>5, <1>7

(* A function that is defined step by step, from each value the next, and  *)
(* that two such functions are equal.                                      *)
Steps(f, a, step, n) == f[0] = a /\ \A k \in 1..n : f[k] = step[<<k, f[k - 1]>>]
Alike(f, g, N) == f[0] = g[0] /\ \A n \in 1..N : f[n - 1] = g[n - 1] => f[n] = g[n]

\* There is such a function.
LEMMA Recursion ==
  ASSUME NEW N, N \in Nat, NEW V, NEW a, a \in V, NEW step, step \in [(1..N) \X V -> V]
  PROVE  \E f \in [0..N -> V] : Steps(f, a, step, N)
<1> USE DEF Steps
<1> DEFINE S == {n \in Nat : n <= N => \E f \in [0..n -> V] : Steps(f, a, step, n)}
<1>1. 0 \in S
  <2>1. [k \in 0..0 |-> a] \in [0..0 -> V] /\ Steps([k \in 0..0 |-> a], a, step, 0)
    OBVIOUS
  <2> QED
    BY <2>1
<1>2. ASSUME NEW n \in Nat, n \in S PROVE n + 1 \in S
  <2>1. SUFFICES ASSUME n + 1 <= N PROVE \E f \in [0..(n + 1) -> V] : Steps(f, a, step, n + 1)
    OBVIOUS
  <2>2. PICK f \in [0..n -> V] : Steps(f, a, step, n)
    BY <1>2, <2>1
  <2> DEFINE v == step[<<n + 1, f[n]>>]
             g == [k \in 0..(n + 1) |-> IF k = n + 1 THEN v ELSE f[k]]
  <2>3. f[n] \in V /\ n + 1 \in 1..N
    BY <2>1
  <2>4. v \in V
    BY <2>3
  <2>5. g[n + 1] = v /\ \A k \in 0..n : g[k] = f[k]
    OBVIOUS
  <2>6. g \in [0..(n + 1) -> V]
    BY <2>4
  <2> HIDE DEF v, g
  <2>7. ASSUME NEW k \in 1..(n + 1) PROVE g[k] = step[<<k, g[k - 1]>>]
    <3>1. CASE k = n + 1
      <4>1. k - 1 = n /\ n \in 0..n
        BY <3>1
      <4> QED
        BY <3>1, <4>1, <2>5 DEF v
    <3>2. CASE k # n + 1
      <4>1. k \in 1..n /\ k \in 0..n /\ k - 1 \in 0..n
        BY <3>2
      <4> QED
        BY <4>1, <2>2, <2>5
    <3> QED
      BY <3>1, <3>2
  <2>8. g[0] = a
    BY <2>2, <2>5
  <2> QED
    BY <2>6, <2>7, <2>8
<1> HIDE DEF S
<1>3. N \in S
  BY <1>1, <1>2, Induction
<1> QED
  BY <1>3 DEF S

\* There is no other.
LEMMA SameValues ==
  ASSUME NEW N, N \in Nat, NEW f, NEW g, Alike(f, g, N)
  PROVE  \A n \in 0..N : f[n] = g[n]
<1> USE DEF Alike
<1> DEFINE S == {n \in Nat : n <= N => f[n] = g[n]}
<1>1. 0 \in S
  OBVIOUS
<1>2. ASSUME NEW n \in Nat, n \in S PROVE n + 1 \in S
  <2>1. SUFFICES ASSUME n + 1 <= N PROVE f[n + 1] = g[n + 1]
    OBVIOUS
  <2>2. f[n] = g[n] /\ n + 1 \in 1..N /\ (n + 1) - 1 = n
    BY <1>2, <2>1
  <2> QED
    BY <2>2
<1>3. \A n \in Nat : n \in S
  <2> HIDE DEF S
  <2> QED
    BY <1>1, <1>2, Induction
<1> QED
  BY <1>3

\* The frames of a stack follow line by line.
LEMMA FramesDefined ==
  ASSUME NEW s \in Seq(Lines)
  PROVE  /\ FramesUpTo(s) \in [0..Len(s) -> Seq(Functions)]
         /\ FramesUpTo(s)[0] = <<>>
         /\ \A n \in 1..Len(s) :
              FramesUpTo(s)[n] = IF s[n].at THEN Append(FramesUpTo(s)[n - 1], FrameOf(s[n]))
                                 ELSE FramesUpTo(s)[n - 1]
<1> DEFINE N == Len(s)
           V == Seq(Functions)
           step == [p \in (1..N) \X V |->
                      IF s[p[1]].at THEN Append(p[2], s[p[1]].function) ELSE p[2]]
           Defined(f) == f = [n \in 0..N |->
                               IF n = 0 THEN <<>>
                               ELSE IF s[n].at THEN Append(f[n - 1], s[n].function)
                               ELSE f[n - 1]]
<1>1. N \in Nat /\ <<>> \in V
  OBVIOUS
<1>2. step \in [(1..N) \X V -> V]
  <2> SUFFICES ASSUME NEW n \in 1..N, NEW v \in V
               PROVE  (IF s[n].at THEN Append(v, s[n].function) ELSE v) \in V
    OBVIOUS
  <2>1. s[n] \in Lines
    OBVIOUS
  <2>2. s[n].function \in Functions
    BY <2>1 DEF Lines
  <2> QED
    BY <2>2
<1>3. \A n \in 1..N, v \in V :
        step[<<n, v>>] = IF s[n].at THEN Append(v, s[n].function) ELSE v
  OBVIOUS
<1> HIDE DEF step, V, N
<1>4. PICK f \in [0..N -> V] : Steps(f, <<>>, step, N)
  BY <1>1, <1>2, Recursion
<1>5. \A n \in 1..N : n - 1 \in 0..N /\ n \in 0..N /\ n # 0
  BY <1>1
<1>6. \A n \in 0..N : n # 0 => n \in 1..N
  BY <1>1
<1>7. \A n \in 1..N : f[n] = IF s[n].at THEN Append(f[n - 1], s[n].function) ELSE f[n - 1]
  BY <1>3, <1>4, <1>5 DEF Steps
<1>8. Defined(f)
  BY <1>4, <1>6, <1>7 DEF Steps
<1>9. Defined(FramesUpTo(s))
  BY <1>8 DEF FramesUpTo, N
<1> DEFINE F == FramesUpTo(s)
<1> HIDE DEF F
<1>a. \A n \in 0..N : F[n] = IF n = 0 THEN <<>>
                              ELSE IF s[n].at THEN Append(F[n - 1], s[n].function)
                              ELSE F[n - 1]
  BY <1>9 DEF F
<1>b. \A n \in 1..N : F[n] = IF s[n].at THEN Append(F[n - 1], s[n].function) ELSE F[n - 1]
  BY <1>5, <1>a
<1>c. F[0] = <<>>
  BY <1>1, <1>a
<1>10. Alike(F, f, N)
  BY <1>4, <1>7, <1>b, <1>c DEF Steps, Alike
<1>11. \A n \in 0..N : F[n] = f[n]
  BY <1>1, <1>10, SameValues
<1>12. FramesUpTo(s) = f
  BY <1>4, <1>9, <1>11 DEF F
<1> QED
  BY <1>4, <1>7, <1>12 DEF Steps, N, V, FrameOf

\* The sums follow weight by weight.
LEMMA SumsDefined ==
  ASSUME NEW w \in Seq(Nat)
  PROVE  /\ SumsUpTo(w)[0] = 0
         /\ \A n \in 1..Len(w) : SumsUpTo(w)[n] = SumsUpTo(w)[n - 1] + w[n]
<1> DEFINE N == Len(w)
           V == Nat
           step == [p \in (1..N) \X V |-> p[2] + w[p[1]]]
           Defined(f) == f = [n \in 0..N |-> IF n = 0 THEN 0 ELSE f[n - 1] + w[n]]
<1>1. N \in Nat /\ 0 \in V /\ \A n \in 1..N : w[n] \in Nat
  OBVIOUS
<1>2. step \in [(1..N) \X V -> V]
  BY <1>1
<1>3. \A n \in 1..N, v \in V : step[<<n, v>>] = v + w[n]
  OBVIOUS
<1> HIDE DEF step, N, V
<1>4. PICK f \in [0..N -> V] : Steps(f, 0, step, N)
  BY <1>1, <1>2, Recursion
<1>5. \A n \in 1..N : n - 1 \in 0..N
  BY <1>1
<1>6. \A n \in 1..N : f[n] = f[n - 1] + w[n]
  BY <1>3, <1>4, <1>5 DEF Steps
<1>7. \A n \in 0..N : f[n] = IF n = 0 THEN 0 ELSE f[n - 1] + w[n]
  BY <1>1, <1>4, <1>6 DEF Steps
<1>8. Defined(f)
  BY <1>4, <1>7
<1>9. Defined(SumsUpTo(w))
  BY <1>8 DEF SumsUpTo, N
<1> QED
  BY <1>1, <1>9 DEF N

\* A weight appended is added.
LEMMA OneMoreWeight ==
  ASSUME NEW w \in Seq(Nat), NEW x \in Nat
  PROVE  SumOf(Append(w, x)) = SumOf(w) + x
<1> DEFINE u == Append(w, x)
           N == Len(w)
<1>1. /\ u \in Seq(Nat) /\ Len(u) = N + 1 /\ N \in Nat /\ u[N + 1] = x
      /\ \A n \in 1..N : u[n] = w[n]
  OBVIOUS
<1>2. \A v : SumOf(v) = SumsUpTo(v)[Len(v)]
  BY DEF SumOf, SumsUpTo
<1> HIDE DEF u, N
<1>3. /\ SumsUpTo(u)[0] = 0
      /\ \A n \in 1..(N + 1) : SumsUpTo(u)[n] = SumsUpTo(u)[n - 1] + u[n]
  <2>1. Len(u) = N + 1 /\ u \in Seq(Nat)
    BY <1>1
  <2> QED
    BY <2>1, SumsDefined
<1>4. /\ SumsUpTo(w)[0] = 0
      /\ \A n \in 1..N : SumsUpTo(w)[n] = SumsUpTo(w)[n - 1] + w[n]
  BY SumsDefined DEF N
<1> DEFINE f == SumsUpTo(u)
           g == SumsUpTo(w)
<1>5. Alike(f, g, N)
  BY <1>1, <1>3, <1>4 DEF Alike
<1> HIDE DEF f, g
<1>6. \A n \in 0..N : f[n] = g[n]
  <2>1. N \in Nat
    BY <1>1
  <2> QED
    BY <2>1, <1>5, SameValues
<1>7. f[N + 1] = f[N] + x /\ f[N] = g[N]
  <2>1. N + 1 \in 1..(N + 1) /\ (N + 1) - 1 = N /\ N \in 0..N
    BY <1>1
  <2> QED
    BY <2>1, <1>1, <1>3, <1>6 DEF f
<1>8. SumOf(u) = f[N + 1] /\ SumOf(w) = g[N]
  BY <1>1, <1>2 DEF f, g, N
<1> QED
  BY <1>7, <1>8 DEF u

-----------------------------------------------------------------------------
(* What is captured so far is what the table has outstanding so far.       *)
Parsing ==
  phase = "capture" =>
    /\ entry <= Len(table) + 1
    /\ entry <= Len(table) =>
         /\ line <= Len(table[entry].stack) + 1
         /\ parsed = FramesUpTo(table[entry].stack)[line - 1]
         /\ table[entry].count = 0 => line = 1

Taken(n) == {k \in 1..n : table[k].count # 0}

\* Each site is one of the first n entries, and each of these that is outstanding a site.
Matches(g, n) ==
  /\ g \in [1..Len(sites) -> Taken(n)]
  /\ \A j, k \in 1..Len(sites) : g[j] = g[k] => j = k
  /\ \A i \in Taken(n) : \E k \in 1..Len(sites) : g[k] = i
  /\ \A k \in 1..Len(sites) : /\ sites[k].bytes = table[g[k]].bytes
                              /\ sites[k].stackFrames = StackOf(table[g[k]])

GoneOver == IF phase = "capture" THEN entry - 1 ELSE Len(table)
Captured == \E g : Matches(g, GoneOver)

LossInv == SnapshotInv /\ Parsing /\ Captured /\ endValue = SumOf(weights)

\* Nothing is parsed or captured yet.
LEMMA LossInitInv == Init => LossInv
<1> SUFFICES ASSUME Init PROVE LossInv
  OBVIOUS
<1>1. SnapshotInv /\ table \in Seq(Entries)
  BY InitInv DEF SnapshotInv, Typed
<1>2. Parsing
  <2>1. ASSUME 1 <= Len(table) PROVE <<>> = FramesUpTo(table[1].stack)[0]
    <3>1. table[1] \in Entries
      BY <1>1, <2>1
    <3>2. table[1].stack \in Seq(Lines)
      BY <3>1 DEF Entries
    <3> QED
      BY <3>2, FramesDefined
  <2>2. ASSUME 1 <= Len(table) PROVE 1 <= Len(table[1].stack) + 1
    <3>1. table[1] \in Entries
      BY <1>1, <2>2
    <3>2. table[1].stack \in Seq(Lines)
      BY <3>1 DEF Entries
    <3> QED
      BY <3>2
  <2> QED
    BY <1>1, <2>1, <2>2 DEF Init, Parsing
<1>3. Captured
  <2>1. Len(sites) = 0 /\ GoneOver = 0
    BY DEF Init, GoneOver
  <2>2. Matches([k \in 1..0 |-> 0], 0)
    BY <2>1 DEF Matches, Taken
  <2> QED
    BY <2>1, <2>2 DEF Captured
<1>4. SumOf(<<>>) = 0
  <2>1. <<>> \in Seq(Nat) /\ Len(<<>>) = 0
    OBVIOUS
  <2>2. SumOf(<<>>) = SumsUpTo(<<>>)[0]
    BY <2>1 DEF SumOf, SumsUpTo
  <2> QED
    BY <2>1, <2>2, SumsDefined
<1> QED
  BY <1>1, <1>2, <1>3, <1>4 DEF Init, LossInv

\* The next entry is as yet unparsed.
LEMMA NextEntry ==
  ASSUME table \in Seq(Entries), entry \in Nat \ {0}, entry <= Len(table)
  PROVE  entry + 1 <= Len(table) =>
           /\ 1 <= Len(table[entry + 1].stack) + 1
           /\ <<>> = FramesUpTo(table[entry + 1].stack)[0]
<1> SUFFICES ASSUME entry + 1 <= Len(table)
             PROVE  /\ 1 <= Len(table[entry + 1].stack) + 1
                    /\ <<>> = FramesUpTo(table[entry + 1].stack)[0]
  OBVIOUS
<1>1. table[entry + 1] \in Entries
  OBVIOUS
<1>2. table[entry + 1].stack \in Seq(Lines)
  BY <1>1 DEF Entries
<1> QED
  BY <1>2, FramesDefined

\* A line adds its frame, and the next entry begins with none.
LEMMA ParsingStep ==
  ASSUME SnapshotInv, Parsing, SkipFreed \/ ParseLine \/ PushSite
  PROVE  Parsing'
<1>0. /\ phase = "capture" /\ entry <= Len(table) /\ UNCHANGED <<table, phase>>
      /\ table \in Seq(Entries) /\ entry \in Nat \ {0} /\ line \in Nat \ {0}
  BY DEF SkipFreed, ParseLine, PushSite, Capturing, SnapshotInv, Typed
<1>1. /\ line <= Len(table[entry].stack) + 1
      /\ parsed = FramesUpTo(table[entry].stack)[line - 1]
      /\ table[entry].count = 0 => line = 1
      /\ table[entry].stack \in Seq(Lines)
  BY <1>0, EntryParts DEF Parsing
<1>2. CASE SkipFreed \/ PushSite
  <2>1. line' = 1 /\ parsed' = <<>> /\ entry' = entry + 1
    BY <1>0, <1>1, <1>2, FramesDefined DEF SkipFreed, PushSite
  <2> QED
    BY <1>0, <2>1, NextEntry DEF Parsing
<1>3. CASE ParseLine
  <2> DEFINE s == table[entry].stack
             l == s[line]
  <2>1. /\ table[entry].count # 0 /\ line <= Len(s) /\ line' = line + 1 /\ entry' = entry
        /\ parsed' = IF l.at THEN Append(parsed, FrameOf(l)) ELSE parsed
    BY <1>3 DEF ParseLine
  <2>2. line \in 1..Len(s) /\ Len(s) \in Nat /\ s \in Seq(Lines)
    BY <1>0, <1>1, <2>1
  <2>3. parsed' = FramesUpTo(s)[line]
    <3> HIDE DEF s
    <3>1. FramesUpTo(s)[line] = IF l.at THEN Append(FramesUpTo(s)[line - 1], FrameOf(l))
                                ELSE FramesUpTo(s)[line - 1]
      BY <2>2, FramesDefined
    <3>2. parsed = FramesUpTo(s)[line - 1]
      BY <1>1 DEF s
    <3> QED
      BY <3>1, <3>2, <2>1
  <2>4. line' - 1 = line /\ line' <= Len(s) + 1
    BY <1>0, <2>1, <2>2
  <2> QED
    BY <1>0, <2>1, <2>3, <2>4 DEF Parsing
<1> QED
  BY <1>2, <1>3

\* The site pushed is the entry just parsed.
LEMMA PushSiteStep ==
  ASSUME SnapshotInv, Parsing, Captured, PushSite
  PROVE  Captured'
<1>n. PICK n : n = Len(sites)
  OBVIOUS
<1> DEFINE site == [bytes |-> table[entry].bytes, stackFrames |-> parsed]
<1>1. /\ phase = "capture" /\ entry <= Len(table) /\ UNCHANGED <<table, phase>>
      /\ table[entry].count # 0 /\ line > Len(table[entry].stack)
      /\ sites' = Append(sites, site) /\ entry' = entry + 1
  BY DEF PushSite, Capturing
<1>2. /\ table \in Seq(Entries) /\ entry \in Nat \ {0} /\ line \in Nat \ {0}
      /\ sites \in Seq(Sites)
  BY DEF SnapshotInv, Typed
<1>e. PICK e : e = entry
  OBVIOUS
<1>3. StackOf(table[entry]) = parsed
  <2>1. /\ line <= Len(table[entry].stack) + 1
        /\ parsed = FramesUpTo(table[entry].stack)[line - 1]
        /\ table[entry].stack \in Seq(Lines)
    BY <1>1, <1>2, EntryParts DEF Parsing
  <2>2. line - 1 = Len(table[entry].stack)
    BY <1>1, <1>2, <2>1
  <2>3. StackOf(table[entry]) = FramesUpTo(table[entry].stack)[Len(table[entry].stack)]
    BY DEF StackOf, FramesUpTo
  <2> QED
    BY <2>1, <2>2, <2>3
<1>4. PICK g : Matches(g, e - 1)
  BY <1>1, <1>e DEF Captured, GoneOver
<1>5. /\ n \in Nat /\ Len(sites') = n + 1
      /\ sites'[n + 1] = site /\ \A k \in 1..n : sites'[k] = sites[k]
  BY <1>1, <1>2, <1>n
<1>6. Taken(e)' = Taken(e - 1) \cup {e} /\ e \notin Taken(e - 1)
  BY <1>1, <1>2, <1>e DEF Taken
<1>h. PICK h : h = [k \in 1..(n + 1) |-> IF k = n + 1 THEN e ELSE g[k]]
  OBVIOUS
<1>7. /\ \A k \in 1..(n + 1) : k = n + 1 \/ k \in 1..n
      /\ \A k \in 1..n : k \in 1..(n + 1) /\ k # n + 1
      /\ n + 1 \in 1..(n + 1)
  BY <1>5
<1>8. \A k \in 1..n : h[k] = g[k] /\ g[k] \in Taken(e - 1)
  BY <1>4, <1>7, <1>h, <1>n DEF Matches
<1>9. h[n + 1] = e /\ h \in [1..(n + 1) -> Taken(e)']
  BY <1>6, <1>7, <1>8, <1>h
<1>10. site.bytes = table[entry].bytes /\ site.stackFrames = parsed
  OBVIOUS
<1> HIDE DEF site
<1>11. \A j, k \in 1..(n + 1) : h[j] = h[k] => j = k
  BY <1>4, <1>6, <1>7, <1>8, <1>9, <1>n DEF Matches
<1>12. \A i \in Taken(e)' : \E k \in 1..(n + 1) : h[k] = i
  BY <1>4, <1>6, <1>7, <1>8, <1>9, <1>n DEF Matches
<1>13. ASSUME NEW k \in 1..(n + 1)
       PROVE  /\ sites'[k].bytes = table[h[k]].bytes
              /\ sites'[k].stackFrames = StackOf(table[h[k]])
  <2>1. CASE k = n + 1
    BY <2>1, <1>3, <1>5, <1>9, <1>10, <1>e
  <2>2. CASE k \in 1..n
    BY <2>2, <1>4, <1>5, <1>8, <1>n DEF Matches
  <2> QED
    BY <2>1, <2>2, <1>7
<1>14. Matches(h, e)'
  BY <1>1, <1>5, <1>9, <1>11, <1>12, <1>13 DEF Matches
<1>15. GoneOver' = e
  BY <1>1, <1>2, <1>e DEF GoneOver
<1> QED
  BY <1>14, <1>15 DEF Captured

\* An entry whose allocations were all freed adds nothing, a line nothing yet.
LEMMA QuietCapture ==
  ASSUME SnapshotInv, Parsing, Captured, SkipFreed \/ ParseLine
  PROVE  Captured'
<1>0. /\ phase = "capture" /\ UNCHANGED <<table, phase, sites>>
      /\ entry \in Nat \ {0}
  BY DEF SkipFreed, ParseLine, Capturing, SnapshotInv, Typed
<1>n. PICK n, e : n = GoneOver /\ e = entry
  OBVIOUS
<1>1. PICK g : Matches(g, n)
  BY <1>n DEF Captured
<1>2. CASE SkipFreed
  <2>1. n = e - 1 /\ GoneOver' = e /\ table[e].count = 0
    BY <1>0, <1>2, <1>n DEF GoneOver, SkipFreed
  <2>2. Taken(e)' = Taken(n)
    BY <1>0, <1>n, <2>1 DEF Taken
  <2>3. Matches(g, e)'
    BY <1>0, <1>1, <2>2 DEF Matches
  <2> QED
    BY <2>1, <2>3 DEF Captured
<1>3. CASE ParseLine
  <2>1. GoneOver' = n
    BY <1>0, <1>3, <1>n DEF GoneOver, ParseLine
  <2>2. Matches(g, n)'
    BY <1>0, <1>1 DEF Matches, Taken
  <2> QED
    BY <2>1, <2>2 DEF Captured
<1> QED
  BY <1>2, <1>3

\* A permutation of the sites is one.
LEMMA Permutation ==
  ASSUME NEW n \in Nat, NEW p \in [1..n -> 1..n], \A j, k \in 1..n : p[j] = p[k] => j = k
  PROVE  \A i \in 1..n : \E k \in 1..n : p[k] = i
<1>1. p \in Injection(1..n, 1..n)
  BY DEF Injection, IsInjective
<1>2. IsFiniteSet(1..n)
  BY FS_Interval
<1>3. p \in Surjection(1..n, 1..n)
  BY <1>1, <1>2, FS_Injection
<1> QED
  BY <1>3 DEF Surjection

\* The sort follows the function with its permutation.
LEMMA SortCaptured ==
  ASSUME SnapshotInv, Parsing, Captured, Sort
  PROVE  Captured'
<1>n. PICK n, m : n = Len(sites) /\ m = Len(table)
  OBVIOUS
<1>0. /\ phase = "capture" /\ phase' = "frames" /\ table' = table
      /\ entry \in Nat \ {0} /\ m \in Nat /\ n \in Nat /\ sites \in Seq(Sites)
      /\ DOMAIN sites = 1..n /\ entry = m + 1
  BY <1>n DEF Sort, SnapshotInv, Typed, Parsing
<1>1. GoneOver = m /\ GoneOver' = m
  BY <1>0, <1>n DEF GoneOver
<1>2. PICK p \in [1..n -> 1..n] :
        /\ \A j, k \in 1..n : p[j] = p[k] => j = k
        /\ sites' = [k \in 1..n |-> sites[p[k]]]
  BY <1>0 DEF Sort
<1>3. \A i \in 1..n : \E k \in 1..n : p[k] = i
  BY <1>0, <1>2, Permutation
<1>4. PICK g : Matches(g, m)
  BY <1>1 DEF Captured
<1>h. PICK h : h = [k \in 1..n |-> g[p[k]]]
  OBVIOUS
<1>5. Len(sites') = n
  <2>1. \A k \in 1..n : sites[p[k]] \in Sites
    BY <1>0, <1>2
  <2>2. sites' \in [1..n -> Sites]
    BY <2>1, <1>2
  <2> QED
    BY <2>2, <1>0
<1>6. Taken(m)' = Taken(m)
  BY <1>0 DEF Taken
<1>7. h \in [1..n -> Taken(m)]
  BY <1>2, <1>4, <1>h, <1>n DEF Matches
<1>8. ASSUME NEW j \in 1..n, NEW k \in 1..n, h[j] = h[k] PROVE j = k
  <2>1. p[j] \in 1..n /\ p[k] \in 1..n /\ g[p[j]] = g[p[k]]
    BY <1>2, <1>8, <1>h
  <2>2. p[j] = p[k]
    BY <2>1, <1>4, <1>n DEF Matches
  <2> QED
    BY <2>2, <1>2
<1>9. \A i \in Taken(m) : \E k \in 1..n : h[k] = i
  <2> SUFFICES ASSUME NEW i \in Taken(m) PROVE \E k \in 1..n : h[k] = i
    OBVIOUS
  <2>1. PICK j \in 1..n : g[j] = i
    BY <1>4, <1>n DEF Matches
  <2>2. PICK k \in 1..n : p[k] = j
    BY <1>3
  <2> QED
    BY <2>1, <2>2, <1>h
<1>10. ASSUME NEW k \in 1..n
       PROVE  /\ sites'[k].bytes = table[h[k]].bytes
              /\ sites'[k].stackFrames = StackOf(table[h[k]])
  <2>1. p[k] \in 1..n /\ sites'[k] = sites[p[k]] /\ h[k] = g[p[k]]
    BY <1>2, <1>h
  <2> QED
    BY <2>1, <1>4, <1>n DEF Matches
<1>11. Matches(h, m)'
  BY <1>0, <1>5, <1>6, <1>7, <1>8, <1>9, <1>10 DEF Matches
<1> QED
  BY <1>1, <1>11 DEF Captured

Later ==
  \/ MapFrame \/ MappedSite \/ FramesMapped \/ AddSample \/ SamplesAdded
  \/ AddPerfViewSample \/ Exported

\* Once the sites are sorted they stay as they are.
LEMMA LaterKeeps ==
  ASSUME SnapshotInv, Captured, Later
  PROVE  Parsing' /\ Captured'
<1>1. phase # "capture" /\ phase' # "capture" /\ UNCHANGED <<table, sites>>
  BY DEF Later, MapFrame, MappedSite, FramesMapped, AddSample, SamplesAdded,
     AddPerfViewSample, Exported, LoopEnds, AtSite
<1>n. PICK n : n = GoneOver
  OBVIOUS
<1>2. PICK g : Matches(g, n)
  BY <1>n DEF Captured
<1>3. GoneOver' = n
  BY <1>1, <1>n DEF GoneOver
<1>4. Matches(g, n)'
  BY <1>1, <1>2 DEF Matches, Taken
<1> QED
  BY <1>1, <1>3, <1>4 DEF Parsing, Captured

\* endValue grows by the weight that is written.
LEMMA WeightsSummed ==
  ASSUME SnapshotInv, endValue = SumOf(weights), Next
  PROVE  endValue' = SumOf(weights')
<1>1. CASE AddSample
  <2>n. PICK w, x : w = weights /\ x = sites[entry].bytes
    OBVIOUS
  <2>1. entry \in 1..Len(sites) /\ sites \in Seq(Sites) /\ weights \in Seq(Nat)
    BY <1>1 DEF AddSample, AtSite, SnapshotInv, Typed
  <2>2. w \in Seq(Nat) /\ x \in Nat
    BY <2>n, <2>1, SiteParts
  <2>3. SumOf(Append(w, x)) = SumOf(w) + x
    BY <2>2, OneMoreWeight
  <2>4. weights' = Append(w, x) /\ endValue' = endValue + x
    BY <1>1, <2>n DEF AddSample
  <2> QED
    BY <2>3, <2>4, <2>n
<1>2. CASE ~ AddSample
  <2>1. UNCHANGED <<weights, endValue>>
    BY <1>2 DEF Next, SkipFreed, ParseLine, PushSite, Sort, MapFrame, MappedSite,
       FramesMapped, SamplesAdded, AddPerfViewSample, Exported, LoopEnds, document
  <2> QED
    BY <2>1
<1> QED
  BY <1>1, <1>2

(* At every step of the loops: each site is one outstanding entry of those *)
(* gone over, with its frames and its bytes, each such entry is a site,    *)
(* and endValue is the sum of the weights written.                         *)
THEOREM LossInvariant == Spec => []LossInv
<1>1. LossInv /\ [Next]_vars /\ SnapshotInv' => LossInv'
  <2> SUFFICES ASSUME LossInv, [Next]_vars, SnapshotInv' PROVE LossInv'
    OBVIOUS
  <2>1. SnapshotInv /\ Parsing /\ Captured /\ endValue = SumOf(weights)
    BY DEF LossInv
  <2>2. CASE UNCHANGED vars
    <3>1. Parsing'
      BY <2>1, <2>2 DEF vars, document, Parsing
    <3>n. PICK n : n = GoneOver
      OBVIOUS
    <3>2. PICK g : Matches(g, n)
      BY <2>1, <3>n DEF Captured
    <3>3. GoneOver' = n /\ Matches(g, n)'
      BY <2>2, <3>n, <3>2 DEF vars, document, GoneOver, Matches, Taken
    <3>4. endValue' = SumOf(weights')
      BY <2>1, <2>2 DEF vars, document
    <3> QED
      BY <3>1, <3>3, <3>4 DEF Captured, LossInv
  <2>3. CASE Next
    <3>1. endValue' = SumOf(weights')
      BY <2>1, <2>3, WeightsSummed
    <3>2. Parsing' /\ Captured'
      <4>1. CASE SkipFreed \/ ParseLine
        BY <2>1, <4>1, ParsingStep, QuietCapture
      <4>2. CASE PushSite
        BY <2>1, <4>2, ParsingStep, PushSiteStep
      <4>3. CASE Sort
        <5>1. Parsing'
          BY <4>3 DEF Sort, Parsing
        <5> QED
          BY <2>1, <4>3, <5>1, SortCaptured
      <4>4. CASE Later
        BY <2>1, <4>4, LaterKeeps
      <4> QED
        BY <2>3, <4>1, <4>2, <4>3, <4>4 DEF Next, Later
    <3> QED
      BY <3>1, <3>2 DEF LossInv
  <2> QED
    BY <2>2, <2>3
<1> QED
  BY <1>1, LossInitInv, SnapshotInvariant, PTL DEF Spec

\* A function that is one to one and onto leaves the count.
LEMMA SameCount ==
  ASSUME NEW g, NEW A, NEW B, IsFiniteSet(A),
         \A k \in A : g[k] \in B, \A j, k \in A : g[j] = g[k] => j = k,
         \A i \in B : \E k \in A : g[k] = i
  PROVE  Cardinality(A) = Cardinality(B)
<1> DEFINE h == [k \in A |-> g[k]]
<1>1. h \in Bijection(A, B)
  <2>1. h \in [A -> B] /\ (\A j, k \in A : h[j] = h[k] => j = k)
        /\ \A i \in B : \E k \in A : h[k] = i
    OBVIOUS
  <2> HIDE DEF h
  <2> QED
    BY <2>1 DEF Bijection, Injection, Surjection, IsInjective
<1>2. ExistsBijection(A, B)
  BY <1>1 DEF ExistsBijection
<1> QED
  BY <1>2, FS_Bijection

(* For every table of allocations: each stack with its bytes is exported   *)
(* as often as the table has it outstanding, the two documents have no     *)
(* sample besides, and endValue is the sum of the weights.                 *)
THEOREM SnapshotLosesNothing == Spec => []NothingLost
<1>1. LossInv => NothingLost
  <2> SUFFICES ASSUME LossInv, phase = "done" PROVE NothingLost
    BY DEF NothingLost
  <2>n. PICK n, m : n = Len(sites) /\ m = Len(table)
    OBVIOUS
  <2>1. /\ SnapshotInv /\ n \in Nat /\ m \in Nat /\ DOMAIN table = 1..m
        /\ endValue = SumOf(weights)
    BY <2>n DEF LossInv, SnapshotInv, Typed
  <2>2. PICK g : Matches(g, m)
    BY <2>n DEF LossInv, Captured, GoneOver
  <2>3. Outstanding = Taken(m)
    BY <2>1 DEF Outstanding, Taken
  <2>4. /\ g \in [1..n -> Outstanding]
        /\ \A j, k \in 1..n : g[j] = g[k] => j = k
        /\ \A i \in Outstanding : \E k \in 1..n : g[k] = i
    BY <2>2, <2>3, <2>n DEF Matches
  <2>5. perf \in Seq([stack : Seq(Functions), metric : Nat]) /\ Len(perf) = n
    BY <2>1, <2>n DEF SnapshotInv, PerfRight, Shown, Written, Typed
  <2>6. DOMAIN perf = 1..n
    BY <2>5
  <2>7. ASSUME NEW k \in 1..n
        PROVE  /\ perf[k].stack = StackOf(table[g[k]])
               /\ perf[k].metric = table[g[k]].bytes
    <3>1. perf[k] = [stack |-> sites[k].stackFrames, metric |-> sites[k].bytes]
      BY <2>1, <2>n DEF SnapshotInv, PerfRight, Shown, Written
    <3>2. sites[k].bytes = table[g[k]].bytes /\ sites[k].stackFrames = StackOf(table[g[k]])
      BY <2>2, <2>n DEF Matches
    <3> QED
      BY <3>1, <3>2
  <2>8. IsFiniteSet(1..n) /\ Cardinality(1..n) = n
    BY <2>1, FS_Interval
  <2>9. Len(perf) = Cardinality(Outstanding)
    <3>1. \A k \in 1..n : g[k] \in Outstanding
      BY <2>4
    <3> DEFINE A == 1..n
               B == Outstanding
    <3>2. /\ \A j, k \in A : g[j] = g[k] => j = k
          /\ \A i \in B : \E k \in A : g[k] = i
          /\ \A k \in A : g[k] \in B
          /\ IsFiniteSet(A) /\ Cardinality(A) = n
      BY <2>4, <2>8, <3>1
    <3> HIDE DEF A, B
    <3>b. PICK b : b = B
      OBVIOUS
    <3>3. Cardinality(A) = Cardinality(b)
      BY <3>2, <3>b, SameCount
    <3> QED
      BY <2>5, <3>2, <3>3, <3>b DEF B
  <2>10. ASSUME NEW e
         PROVE  Cardinality({k \in DOMAIN perf : /\ perf[k].stack = StackOf(e)
                                                 /\ perf[k].metric = e.bytes})
                = Cardinality({k \in Outstanding : /\ StackOf(table[k]) = StackOf(e)
                                                   /\ table[k].bytes = e.bytes})
    <3> DEFINE A == {k \in 1..n : perf[k].stack = StackOf(e) /\ perf[k].metric = e.bytes}
               B == {k \in Outstanding : /\ StackOf(table[k]) = StackOf(e)
                                         /\ table[k].bytes = e.bytes}
    <3>1. IsFiniteSet(A)
      BY <2>8, FS_Subset
    <3>2. \A k \in A : g[k] \in B
      BY <2>4, <2>7
    <3>3. \A j, k \in A : g[j] = g[k] => j = k
      BY <2>4
    <3>4. \A i \in B : \E k \in A : g[k] = i
      BY <2>4, <2>7
    <3> HIDE DEF A, B
    <3>5. Cardinality(A) = Cardinality(B)
      BY <3>1, <3>2, <3>3, <3>4, SameCount
    <3> QED
      BY <2>6, <3>5 DEF A, B
  <2> QED
    BY <2>1, <2>9, <2>10 DEF NothingLost
<1> QED
  BY <1>1, LossInvariant, PTL
-----------------------------------------------------------------------------
(* The worker.  A command is on one of three ways at a time: in the queue, *)
(* once; in a save, whose answer is to come; answered.                     *)
Messages ==
  {"uno-worker-ready", "dotnet-ready", "uno-worker-error"}
    \cup Worker!Data \cup Worker!Error

WorkerTypes ==
  /\ saving \subseteq Worker!Requests
  /\ kind \in [Worker!Requests -> {"unsent"} \cup Worker!Kinds]
  /\ answers \in [Worker!Requests -> Nat]
  /\ toWorker \in Seq(Worker!Commands) /\ toHost \in Seq(Messages)
  /\ inTime \subseteq Worker!Commands

OneWayEach ==
  \A c \in Worker!Requests :
    /\ answers[c] <= 1
    /\ c \in saving => answers[c] = 0
    /\ kind[c] = "unsent" => answers[c] = 0 /\ c \notin saving

QueuedOnce ==
  \A i \in DOMAIN toWorker :
    /\ kind[toWorker[i]] # "unsent"
    /\ answers[toWorker[i]] = 0 /\ toWorker[i] \notin saving
    /\ \A j \in DOMAIN toWorker : toWorker[i] = toWorker[j] => i = j

\* Whoever has heard of readiness, or will, finds the handler registered.
ReadyListens ==
  /\ status \in {"initialized", "ready"} => listening
  /\ \A i \in DOMAIN toHost : toHost[i] \in {"uno-worker-ready", "dotnet-ready"} => listening
  /\ inTime # {} => listening

(* A command sent in time is never lost: it is in the queue, in a save or  *)
(* answered, as long as the code knows its name.                           *)
NeverLost ==
  \A c \in inTime :
    \/ kind[c] = "unknown" \/ answers[c] = 1 \/ c \in saving
    \/ \E i \in DOMAIN toWorker : toWorker[i] = c

WorkerInv == WorkerTypes /\ OneWayEach /\ QueuedOnce /\ ReadyListens /\ NeverLost

LEMMA WorkerInitInv == Worker!Init => WorkerInv
<1> SUFFICES ASSUME Worker!Init PROVE WorkerInv
  OBVIOUS
<1> USE DEF Worker!Init
<1>1. WorkerTypes
  BY DEF WorkerTypes
<1>2. OneWayEach
  BY DEF OneWayEach
<1>3. QueuedOnce /\ ReadyListens /\ NeverLost
  BY DEF QueuedOnce, ReadyListens, NeverLost
<1> QED
  BY <1>1, <1>2, <1>3 DEF WorkerInv

\* A post that is no word of readiness, or that of a worker that listens.
LEMMA PostKeeps ==
  ASSUME WorkerInv, NEW m \in Messages,
         m \in {"uno-worker-ready", "dotnet-ready"} => listening
  PROVE  /\ Append(toHost, m) \in Seq(Messages)
         /\ \A i \in DOMAIN Append(toHost, m) :
              Append(toHost, m)[i] \in {"uno-worker-ready", "dotnet-ready"} => listening
<1>1. toHost \in Seq(Messages)
  BY DEF WorkerInv, WorkerTypes
<1>2. \A i \in DOMAIN toHost : toHost[i] \in {"uno-worker-ready", "dotnet-ready"} => listening
  BY DEF WorkerInv, ReadyListens
<1>3. /\ Append(toHost, m) \in Seq(Messages)
      /\ \A i \in DOMAIN Append(toHost, m) :
           Append(toHost, m)[i] = m \/ (i \in DOMAIN toHost /\ Append(toHost, m)[i] = toHost[i])
  BY <1>1
<1> QED
  BY <1>1, <1>2, <1>3

\* A step that takes, handles and sends no command.
LEMMA QuietStep ==
  ASSUME WorkerInv, UNCHANGED <<saving, answers, toWorker, kind, inTime>>,
         toHost' \in Seq(Messages), ReadyListens'
  PROVE  WorkerInv'
<1> USE DEF WorkerInv
<1>1. WorkerTypes'
  BY DEF WorkerTypes
<1>2. OneWayEach'
  BY DEF OneWayEach
<1>3. QueuedOnce'
  BY DEF QueuedOnce
<1>4. NeverLost'
  BY DEF NeverLost
<1> QED
  BY <1>1, <1>2, <1>3, <1>4

LEMMA BootstrapStep ==
  ASSUME WorkerInv,
         \/ Worker!Bootstrap \/ Worker!MainReturns \/ Worker!MainThrows
         \/ Worker!ScriptFails
  PROVE  WorkerInv'
<1>0. toHost \in Seq(Messages) /\ ReadyListens
  BY DEF WorkerInv, WorkerTypes
<1>1. ASSUME UNCHANGED <<saving, answers, toWorker, kind, inTime, toHost, listening>>,
             status' \in {status, "error"}
      PROVE  WorkerInv'
  <2>1. ReadyListens'
    BY <1>0, <1>1 DEF ReadyListens
  <2> QED
    BY <1>0, <1>1, <2>1, QuietStep
<1>2. ASSUME UNCHANGED <<saving, answers, toWorker, kind, inTime, status, listening>>,
             toHost' = Append(toHost, "uno-worker-error")
      PROVE  WorkerInv'
  <2>1. "uno-worker-error" \in Messages
    BY DEF Messages
  <2>2. toHost' \in Seq(Messages) /\ ReadyListens'
    BY <1>0, <1>2, <2>1, PostKeeps DEF ReadyListens
  <2> QED
    BY <1>2, <2>2, QuietStep
<1>3. CASE Worker!LoadConfig \/ Worker!ImportDotnet \/ Worker!CreateRuntime
           \/ Worker!LoadDependency \/ Worker!MainReturns \/ Worker!ScriptFails
  BY <1>3, <1>1 DEF Worker!LoadConfig, Worker!ImportDotnet, Worker!CreateRuntime,
     Worker!Loads, Worker!LoadDependency, Worker!MainReturns, Worker!ScriptFails, Worker!page
<1>4. CASE Worker!LoadFails \/ Worker!MainThrows
  BY <1>4, <1>2 DEF Worker!LoadFails, Worker!MainThrows, Worker!Post, Worker!page
<1>5. CASE Worker!Start
  <2> USE <1>5 DEF Worker!Start, Worker!page
  <2>1. PICK posts \in {<<>>, <<"dotnet-ready">>} :
          toHost' = toHost \o <<"uno-worker-ready">> \o posts
    OBVIOUS
  <2>2. toHost \o <<"uno-worker-ready">> \o posts \in Seq(Messages)
    <3>1. {"uno-worker-ready", "dotnet-ready"} \subseteq Messages
      BY DEF Messages
    <3>2. /\ <<>> \in Seq(Messages)
          /\ <<"uno-worker-ready">> \in Seq(Messages)
          /\ <<"dotnet-ready">> \in Seq(Messages)
      BY <3>1
    <3>3. posts \in Seq(Messages)
      <4> HIDE DEF Worker!Start
      <4> QED
        BY <3>2
    <3>4. toHost \o <<"uno-worker-ready">> \in Seq(Messages)
      BY <1>0, <3>2
    <3> QED
      BY <3>3, <3>4
  <2>3. listening'
    OBVIOUS
  <2>4. UNCHANGED <<saving, answers, toWorker, kind, inTime>>
    OBVIOUS
  <2>5. ReadyListens'
    BY <2>3 DEF ReadyListens
  <2> QED
    BY <2>1, <2>2, <2>4, <2>5, QuietStep
<1> QED
  BY <1>3, <1>4, <1>5 DEF Worker!Bootstrap

LEMMA ReceiveStep ==
  ASSUME WorkerInv, Worker!HostReceives
  PROVE  WorkerInv'
<1> USE DEF Worker!HostReceives, Worker!worker
<1>0. toHost \in Seq(Messages) /\ toHost # <<>> /\ ReadyListens
  BY DEF WorkerInv, WorkerTypes
<1>1. /\ toHost' \in Seq(Messages)
      /\ Head(toHost) = toHost[1] /\ 1 \in DOMAIN toHost
      /\ \A i \in DOMAIN toHost' : i + 1 \in DOMAIN toHost /\ toHost'[i] = toHost[i + 1]
  BY <1>0
<1>2. status' \in {"initialized", "ready"} => listening
  BY <1>0, <1>1 DEF ReadyListens
<1>3. UNCHANGED <<listening, inTime>>
  OBVIOUS
<1>4. ReadyListens'
  BY <1>0, <1>1, <1>2, <1>3 DEF ReadyListens
<1> QED
  BY <1>1, <1>4, QuietStep

\* Where the way of a request goes on: it is only logged, saved, or answered.
WentOn(c, how) ==
  /\ how \in {"logged", "saving", "answered"}
  /\ how = "logged" => UNCHANGED <<answers, toHost>> /\ saving' = saving \ {c}
  /\ how = "saving" => UNCHANGED <<answers, toHost>> /\ saving' = saving \cup {c}
  /\ how = "answered" => /\ Worker!Answer(c, Worker!Data \cup Worker!Error)
                         /\ saving' = saving \ {c}
  /\ c \in inTime => how # "logged" \/ kind'[c] = "unknown"

\* The others in the queue remain, shifted if request c was its head.
OthersQueued(c, shift) ==
  /\ toWorker' \in Seq(Worker!Commands) /\ shift \in {0, 1}
  /\ \A i \in DOMAIN toWorker' :
       /\ toWorker'[i] # c
       /\ i + shift \in DOMAIN toWorker /\ toWorker'[i] = toWorker[i + shift]
  /\ \A i \in DOMAIN toWorker :
       toWorker[i] = c \/ \E j \in DOMAIN toWorker' : toWorker'[j] = toWorker[i]

\* Its kind is known, and that of the others unchanged.
KindKnown(c) ==
  /\ kind' \in [Worker!Requests -> {"unsent"} \cup Worker!Kinds]
  /\ kind'[c] # "unsent"
  /\ \A b \in Worker!Requests \ {c} : kind'[b] = kind[b]

(* A request that has no answer yet goes on its way: the end of a save, a  *)
(* command taken from the queue, a call from the console.                  *)
LEMMA RequestStep ==
  ASSUME WorkerInv, NEW c \in Worker!Requests, answers[c] = 0,
         NEW how, NEW shift,
         WentOn(c, how), OthersQueued(c, shift), KindKnown(c),
         UNCHANGED <<listening, inTime, status>>
  PROVE  WorkerInv'
<1> USE DEF WentOn, OthersQueued, KindKnown
<1>0. /\ answers \in [Worker!Requests -> Nat] /\ toHost \in Seq(Messages)
      /\ saving \subseteq Worker!Requests /\ toWorker \in Seq(Worker!Commands)
      /\ inTime \subseteq Worker!Requests /\ ReadyListens
  BY DEF WorkerInv, WorkerTypes, Worker!Commands, Worker!Requests
<1>1. /\ answers' \in [Worker!Requests -> Nat]
      /\ answers'[c] \in {0, 1} /\ (c \in saving' => answers'[c] = 0)
      /\ \A b \in Worker!Requests \ {c} :
           answers'[b] = answers[b] /\ (b \in saving' <=> b \in saving)
      /\ how = "saving" => c \in saving'
      /\ how = "answered" => answers'[c] = 1
  <2>1. CASE how = "logged"
    BY <2>1, <1>0
  <2>2. CASE how = "saving"
    BY <2>2, <1>0
  <2>3. CASE how = "answered"
    <3>1. answers' = [answers EXCEPT ![c] = 1] /\ saving' = saving \ {c}
      BY <2>3 DEF Worker!Answer
    <3> QED
      BY <2>3, <3>1, <1>0
  <2> QED
    BY <2>1, <2>2, <2>3
<1>2. saving' \subseteq Worker!Requests
  BY <1>0
<1>3. toHost' \in Seq(Messages) /\ ReadyListens'
  <2>1. CASE how # "answered"
    BY <2>1, <1>0 DEF ReadyListens
  <2>2. CASE how = "answered"
    <3>1. PICK m \in Worker!Data \cup Worker!Error : toHost' = Append(toHost, m)
      BY <2>2 DEF Worker!Answer, Worker!Post
    <3>2. m \in Messages /\ m \notin {"uno-worker-ready", "dotnet-ready"}
      BY DEF Messages, Worker!Data, Worker!Error
    <3> QED
      BY <1>0, <3>1, <3>2, PostKeeps DEF ReadyListens
  <2> QED
    BY <2>1, <2>2
<1>4. WorkerTypes'
  BY <1>1, <1>2, <1>3 DEF WorkerInv, WorkerTypes
<1>5. OneWayEach'
  BY <1>1 DEF WorkerInv, OneWayEach
<1>6. QueuedOnce'
  <2> SUFFICES ASSUME NEW i \in DOMAIN toWorker' PROVE
        /\ kind'[toWorker'[i]] # "unsent"
        /\ answers'[toWorker'[i]] = 0 /\ toWorker'[i] \notin saving'
        /\ \A j \in DOMAIN toWorker' : toWorker'[i] = toWorker'[j] => i = j
    BY DEF QueuedOnce
  <2>1. toWorker'[i] \in Worker!Requests \ {c}
    BY DEF Worker!Requests
  <2>2. i + shift \in DOMAIN toWorker /\ toWorker'[i] = toWorker[i + shift]
    OBVIOUS
  <2>3. \A j \in DOMAIN toWorker' : toWorker'[i] = toWorker'[j] => i + shift = j + shift
    BY <2>2 DEF WorkerInv, QueuedOnce
  <2>4. i \in Int /\ \A j \in DOMAIN toWorker' : j \in Int
    OBVIOUS
  <2>5. /\ kind[toWorker'[i]] # "unsent" /\ answers[toWorker'[i]] = 0
        /\ toWorker'[i] \notin saving
    BY <2>2 DEF WorkerInv, QueuedOnce
  <2>6. \A j \in DOMAIN toWorker' : toWorker'[i] = toWorker'[j] => i = j
    BY <2>3, <2>4
  <2> QED
    BY <1>1, <2>1, <2>5, <2>6
<1>7. NeverLost'
  <2> SUFFICES ASSUME NEW b \in inTime' PROVE
        \/ kind'[b] = "unknown" \/ answers'[b] = 1 \/ b \in saving'
        \/ \E i \in DOMAIN toWorker' : toWorker'[i] = b
    BY DEF NeverLost
  <2>1. CASE b = c
    BY <2>1, <1>1
  <2>2. CASE b # c
    <3>1. b \in Worker!Requests \ {c} /\ b \in inTime
      BY <1>0, <2>2
    <3>2. \/ kind[b] = "unknown" \/ answers[b] = 1 \/ b \in saving
          \/ \E i \in DOMAIN toWorker : toWorker[i] = b
      BY <3>1 DEF WorkerInv, NeverLost
    <3> QED
      BY <1>1, <2>2, <3>1, <3>2
  <2> QED
    BY <2>1, <2>2
<1> QED
  BY <1>3, <1>4, <1>5, <1>6, <1>7 DEF WorkerInv

LEMMA SaveEndsStep ==
  ASSUME WorkerInv, NEW c \in Worker!Requests, Worker!SaveEnds(c)
  PROVE  WorkerInv'
<1> USE DEF Worker!SaveEnds, Worker!page
<1>1. /\ kind \in [Worker!Requests -> {"unsent"} \cup Worker!Kinds]
      /\ toWorker \in Seq(Worker!Commands)
  BY DEF WorkerInv, WorkerTypes
<1>2. answers[c] = 0 /\ kind[c] # "unsent"
  BY DEF WorkerInv, OneWayEach
<1>3. \A i \in DOMAIN toWorker : toWorker[i] # c
  BY DEF WorkerInv, QueuedOnce
<1>4. \A i \in DOMAIN toWorker : i + 0 = i
  BY <1>1
<1>5. /\ UNCHANGED <<kind, toWorker, listening, inTime, status>>
      /\ Worker!Answer(c, Worker!Data \cup Worker!Error) /\ saving' = saving \ {c}
  OBVIOUS
<1> HIDE DEF Worker!SaveEnds, Worker!page
<1>6. OthersQueued(c, 0)
  BY <1>1, <1>3, <1>4, <1>5 DEF OthersQueued
<1>7. KindKnown(c)
  BY <1>1, <1>2, <1>5 DEF KindKnown
<1>8. WentOn(c, "answered")
  BY <1>5 DEF WentOn
<1> QED
  BY <1>2, <1>5, <1>6, <1>7, <1>8, RequestStep

LEMMA DispatchStep ==
  ASSUME WorkerInv, Worker!Dispatch
  PROVE  WorkerInv'
<1>a. toWorker \in Seq(Worker!Commands) /\ toWorker # <<>>
  BY DEF WorkerInv, WorkerTypes, Worker!Dispatch
<1>b. PICK c \in Worker!Requests : c = Head(toWorker)
  BY <1>a DEF Worker!Requests
<1>0. /\ UNCHANGED <<listening, kind, inTime, status>>
      /\ toWorker # <<>> /\ toWorker' = Tail(toWorker)
      /\ IF listening THEN Worker!Handle(c) ELSE UNCHANGED <<saving, answers, toHost>>
  BY <1>b DEF Worker!Dispatch, Worker!page
<1>1. /\ kind \in [Worker!Requests -> {"unsent"} \cup Worker!Kinds]
      /\ toWorker \in Seq(Worker!Commands)
  BY DEF WorkerInv, WorkerTypes
<1>2. /\ toWorker' \in Seq(Worker!Commands)
      /\ 1 \in DOMAIN toWorker /\ c = toWorker[1]
      /\ DOMAIN toWorker = 1..Len(toWorker)
      /\ \A i \in DOMAIN toWorker' :
           i + 1 \in DOMAIN toWorker /\ i + 1 # 1 /\ toWorker'[i] = toWorker[i + 1]
      /\ \A i \in DOMAIN toWorker :
           i = 1 \/ (i - 1 \in DOMAIN toWorker' /\ toWorker'[i - 1] = toWorker[i])
  BY <1>0, <1>1, <1>b
<1>3. c \in Worker!Requests /\ answers[c] = 0 /\ kind[c] # "unsent" /\ c \notin saving
  BY <1>1, <1>2 DEF WorkerInv, QueuedOnce, Worker!Requests
<1>4. \A i \in DOMAIN toWorker' : toWorker'[i] # c
  BY <1>2 DEF WorkerInv, QueuedOnce
<1>5. \A i \in DOMAIN toWorker :
        toWorker[i] = c \/ \E j \in DOMAIN toWorker' : toWorker'[j] = toWorker[i]
  BY <1>2
<1>6. \E how : WentOn(c, how)
  <2>1. CASE ~listening
    <3>1. c \notin inTime
      BY <2>1 DEF WorkerInv, ReadyListens
    <3>2. WentOn(c, "logged")
      BY <2>1, <3>1, <1>0, <1>3 DEF WentOn
    <3> QED
      BY <3>2
  <2>2. CASE listening /\ kind[c] = "memory-snapshot"
    <3>1. Worker!Answer(c, Worker!Data \cup Worker!Error) /\ saving' = saving
      <4>1. kind[c] \notin Worker!Saves
        BY <2>2 DEF Worker!Saves
      <4>2. Worker!HandleMemorySnapshot(c)
        BY <2>2, <4>1, <1>0 DEF Worker!Handle
      <4> QED
        BY <4>2 DEF Worker!HandleMemorySnapshot
    <3>2. saving' = saving \ {c}
      BY <3>1, <1>3
    <3>3. WentOn(c, "answered")
      BY <3>1, <3>2 DEF WentOn
    <3> QED
      BY <3>3
  <2>3. CASE listening /\ kind[c] \in Worker!Saves
    <3>1. kind[c] # "memory-snapshot"
      BY <2>3 DEF Worker!Saves
    <3>2. Worker!HandleSave(c)
      BY <2>3, <3>1, <1>0 DEF Worker!Handle
    <3>3. Worker!Answer(c, Worker!Error) => Worker!Answer(c, Worker!Data \cup Worker!Error)
      BY DEF Worker!Answer
    <3>4. WentOn(c, "saving") \/ WentOn(c, "answered")
      BY <3>2, <3>3, <1>3 DEF Worker!HandleSave, WentOn
    <3> QED
      BY <3>4
  <2>4. CASE listening /\ kind[c] = "unknown"
    <3>1. UNCHANGED <<saving, answers, toHost>>
      BY <2>4, <1>0 DEF Worker!Handle, Worker!Saves
    <3>2. WentOn(c, "logged")
      BY <2>4, <3>1, <1>0, <1>3 DEF WentOn
    <3> QED
      BY <3>2
  <2> QED
    BY <2>1, <2>2, <2>3, <2>4, <1>1, <1>3 DEF Worker!Kinds
<1>7. PICK how : WentOn(c, how)
  BY <1>6
<1>8. OthersQueued(c, 1)
  BY <1>2, <1>4, <1>5 DEF OthersQueued
<1>9. KindKnown(c)
  BY <1>0, <1>1, <1>3 DEF KindKnown
<1> QED
  BY <1>0, <1>3, <1>7, <1>8, <1>9, RequestStep

LEMMA ConsoleStep ==
  ASSUME WorkerInv, NEW k \in Worker!Kinds, Worker!ConsoleCalls(k)
  PROVE  WorkerInv'
<1> DEFINE c == Worker!Console
<1>0. /\ UNCHANGED <<listening, toWorker, inTime, status>>
      /\ kind[c] = "unsent" /\ kind' = [kind EXCEPT ![c] = k]
      /\ IF k \in Worker!Saves THEN Worker!HandleSave(c)
         ELSE Worker!HandleMemorySnapshot(c) \/ UNCHANGED <<saving, answers, toHost>>
  BY DEF Worker!ConsoleCalls
<1>1. /\ kind \in [Worker!Requests -> {"unsent"} \cup Worker!Kinds]
      /\ toWorker \in Seq(Worker!Commands) /\ inTime \subseteq Worker!Commands
      /\ c \in Worker!Requests /\ c \notin Worker!Commands
  BY DEF WorkerInv, WorkerTypes, Worker!Requests, Worker!Console, Worker!Commands
<1>2. /\ kind' \in [Worker!Requests -> {"unsent"} \cup Worker!Kinds] /\ kind'[c] # "unsent"
      /\ \A b \in Worker!Requests \ {c} : kind'[b] = kind[b]
  BY <1>0, <1>1 DEF Worker!Kinds, Worker!Saves
<1>3. answers[c] = 0 /\ c \notin saving /\ c \notin inTime
  BY <1>0, <1>1 DEF WorkerInv, OneWayEach
<1>4. \E how : WentOn(c, how)
  <2>1. Worker!Answer(c, Worker!Error) => Worker!Answer(c, Worker!Data \cup Worker!Error)
    BY DEF Worker!Answer
  <2>2. CASE k \in Worker!Saves
    <3>1. WentOn(c, "saving") \/ WentOn(c, "answered")
      BY <2>1, <2>2, <1>0, <1>3 DEF Worker!HandleSave, WentOn
    <3> QED
      BY <3>1
  <2>3. CASE k \notin Worker!Saves
    <3>1. WentOn(c, "logged") \/ WentOn(c, "answered")
      BY <2>3, <1>0, <1>3 DEF Worker!HandleMemorySnapshot, WentOn
    <3> QED
      BY <3>1
  <2> QED
    BY <2>2, <2>3
<1>5. OthersQueued(c, 0)
  BY <1>0, <1>1 DEF OthersQueued
<1>6. KindKnown(c)
  BY <1>2 DEF KindKnown
<1>7. PICK how : WentOn(c, how)
  BY <1>4
<1> HIDE DEF c
<1> QED
  BY <1>0, <1>1, <1>3, <1>5, <1>6, <1>7, RequestStep

LEMMA SendStep ==
  ASSUME WorkerInv, NEW c \in Worker!Commands, NEW k \in Worker!Kinds,
         Worker!HostSends(c, k)
  PROVE  WorkerInv'
<1>0. /\ UNCHANGED <<toHost, status, listening, saving, answers>>
      /\ kind[c] = "unsent" /\ kind' = [kind EXCEPT ![c] = k]
      /\ toWorker' = Append(toWorker, c)
      /\ inTime' = IF status \in {"initialized", "ready"} THEN inTime \cup {c} ELSE inTime
  BY DEF Worker!HostSends, Worker!worker
<1>1. /\ kind \in [Worker!Requests -> {"unsent"} \cup Worker!Kinds]
      /\ toWorker \in Seq(Worker!Commands) /\ inTime \subseteq Worker!Commands
      /\ c \in Worker!Requests
  BY DEF WorkerInv, WorkerTypes, Worker!Requests
<1>2. answers[c] = 0 /\ c \notin saving /\ \A i \in DOMAIN toWorker : toWorker[i] # c
  BY <1>0, <1>1 DEF WorkerInv, OneWayEach, QueuedOnce
<1>3. /\ toWorker' \in Seq(Worker!Commands)
      /\ \A i \in DOMAIN toWorker : i \in DOMAIN toWorker' /\ toWorker'[i] = toWorker[i]
      /\ \A i \in DOMAIN toWorker' :
           \/ i = Len(toWorker) + 1 /\ toWorker'[i] = c
           \/ i \in DOMAIN toWorker /\ toWorker'[i] = toWorker[i]
      /\ Len(toWorker) + 1 \in DOMAIN toWorker' /\ toWorker'[Len(toWorker) + 1] = c
  BY <1>0, <1>1
<1>4. /\ kind' \in [Worker!Requests -> {"unsent"} \cup Worker!Kinds]
      /\ kind'[c] = k /\ k # "unsent"
      /\ \A b \in Worker!Requests \ {c} : kind'[b] = kind[b]
  BY <1>0, <1>1 DEF Worker!Kinds, Worker!Saves
<1>5. WorkerTypes'
  BY <1>0, <1>1, <1>3, <1>4 DEF WorkerInv, WorkerTypes
<1>6. OneWayEach'
  BY <1>0, <1>4 DEF WorkerInv, OneWayEach
<1>7. QueuedOnce'
  <2> SUFFICES ASSUME NEW i \in DOMAIN toWorker' PROVE
        /\ kind'[toWorker'[i]] # "unsent"
        /\ answers'[toWorker'[i]] = 0 /\ toWorker'[i] \notin saving'
        /\ \A j \in DOMAIN toWorker' : toWorker'[i] = toWorker'[j] => i = j
    BY DEF QueuedOnce
  <2>1. CASE i = Len(toWorker) + 1 /\ toWorker'[i] = c
    BY <2>1, <1>0, <1>2, <1>3, <1>4
  <2>2. CASE i \in DOMAIN toWorker /\ toWorker'[i] = toWorker[i]
    <3>1. toWorker[i] \in Worker!Requests \ {c}
      BY <2>2, <1>1, <1>2 DEF Worker!Requests
    <3> QED
      BY <2>2, <3>1, <1>0, <1>2, <1>3, <1>4 DEF WorkerInv, QueuedOnce
  <2> QED
    BY <2>1, <2>2, <1>3
<1>8. ReadyListens'
  BY <1>0 DEF WorkerInv, ReadyListens
<1>9. NeverLost'
  <2> SUFFICES ASSUME NEW b \in inTime' PROVE
        \/ kind'[b] = "unknown" \/ answers'[b] = 1 \/ b \in saving'
        \/ \E i \in DOMAIN toWorker' : toWorker'[i] = b
    BY DEF NeverLost
  <2>1. CASE b = c
    BY <2>1, <1>3
  <2>2. CASE b # c
    <3>1. b \in inTime /\ b \in Worker!Requests \ {c}
      BY <2>2, <1>0, <1>1 DEF Worker!Requests
    <3> QED
      BY <3>1, <1>0, <1>3, <1>4 DEF WorkerInv, NeverLost
  <2> QED
    BY <2>1, <2>2
<1> QED
  BY <1>5, <1>6, <1>7, <1>8, <1>9 DEF WorkerInv

(* For any number of dependencies and commands: a command is in the queue  *)
(* once, in a save or answered, and one the page sent after it had heard   *)
(* of readiness is never lost (WorkerBootstrapper.ts:91-102, 224-256).     *)
THEOREM CommandsOnTheirWay == Worker!Spec => []WorkerInv
<1>1. WorkerInv /\ [Worker!Next]_(Worker!vars) => WorkerInv'
  <2> SUFFICES ASSUME WorkerInv, [Worker!Next]_(Worker!vars) PROVE WorkerInv'
    OBVIOUS
  <2>1. CASE Worker!Bootstrap \/ Worker!MainReturns \/ Worker!MainThrows
             \/ Worker!ScriptFails
    BY <2>1, BootstrapStep
  <2>2. CASE Worker!Dispatch
    BY <2>2, DispatchStep
  <2>3. CASE Worker!HostReceives
    BY <2>3, ReceiveStep
  <2>4. CASE \E c \in Worker!Requests : Worker!SaveEnds(c)
    BY <2>4, SaveEndsStep
  <2>5. CASE \E k \in Worker!Kinds :
               \/ Worker!ConsoleCalls(k)
               \/ \E c \in Worker!Commands : Worker!HostSends(c, k)
    BY <2>5, ConsoleStep, SendStep
  <2>6. CASE UNCHANGED Worker!vars
    <3>1. UNCHANGED <<saving, answers, toWorker, kind, inTime, toHost, listening, status>>
      BY <2>6 DEF Worker!vars
    <3>2. toHost' \in Seq(Messages) /\ ReadyListens'
      BY <3>1 DEF WorkerInv, WorkerTypes, ReadyListens
    <3> QED
      BY <3>1, <3>2, QuietStep
  <2> QED
    BY <2>1, <2>2, <2>3, <2>4, <2>5, <2>6 DEF Worker!Next
<1> QED
  BY <1>1, WorkerInitInv, PTL DEF Worker!Spec

(* No request is answered twice, while its save goes on, or while it is    *)
(* still in the queue (WorkerBootstrapper.ts:285-358).                     *)
THEOREM WorkerAnswersOnce == Worker!Spec => []OneAnswerEach
<1>1. WorkerInv => OneAnswerEach
  BY DEF WorkerInv, OneWayEach, QueuedOnce, OneAnswerEach, Worker!OneAnswerEach
<1> QED
  BY <1>1, CommandsOnTheirWay, PTL

-----------------------------------------------------------------------------
(* The page.  What a save has read is at least what was recorded when its  *)
(* key was pressed, because each save flushes before it reads.             *)
Stages == {"none", "exports", "initialized", "download", "ended", "failed"}

PageTypes ==
  /\ recorded \in Nat /\ written \in Nat
  /\ stage \in [Page!Calls -> Stages]
  /\ wanted \in [Page!Calls -> Nat] /\ saved \in [Page!Calls -> Int]
  /\ dumped \in Int

PageInv ==
  /\ PageTypes
  /\ \A c \in Page!Calls : wanted[c] <= recorded
  /\ \A c \in Page!Calls :
       drains /\ c[2] = "log" /\ stage[c] \in {"download", "ended"}
         => saved[c] >= wanted[c] \/ wanted[c] = 0

\* A step in which no call reads the file, and nothing recorded is lost.
LEMMA PageQuietStep ==
  ASSUME PageInv, UNCHANGED <<drains, wanted>>,
         recorded' \in Nat, recorded' >= recorded, written' \in Nat,
         stage' \in [Page!Calls -> Stages],
         saved' \in [Page!Calls -> Int], dumped' \in Int,
         \A c \in Page!Calls :
           c[2] = "log" /\ stage'[c] \in {"download", "ended"} =>
             stage[c] \in {"download", "ended"} /\ saved'[c] = saved[c]
  PROVE  PageInv'
<1> USE DEF PageInv, PageTypes
<1>1. PageTypes'
  OBVIOUS
<1>2. \A c \in Page!Calls : wanted'[c] <= recorded'
  OBVIOUS
<1>3. ASSUME NEW c \in Page!Calls,
             drains' /\ c[2] = "log" /\ stage'[c] \in {"download", "ended"}
      PROVE  saved'[c] >= wanted'[c] \/ wanted'[c] = 0
  <2>1. stage[c] \in {"download", "ended"} /\ saved'[c] = saved[c] /\ drains
    BY <1>3
  <2> QED
    BY <2>1, <1>3
<1> QED
  BY <1>1, <1>2, <1>3

LEMMA PageInitInv == Page!Init => PageInv
BY DEF Page!Init, PageInv, PageTypes, Stages, Page!Nothing

LEMMA FlushedTyped ==
  ASSUME PageInv
  PROVE  Page!Flushed \in Nat /\ (drains => Page!Flushed = recorded)
BY DEF PageInv, PageTypes, Page!Flushed

LEMMA SetupStep ==
  ASSUME PageInv,
         \/ Page!Record \/ Page!RuntimeReady \/ Page!PostInitialize
         \/ Page!PostInitialized \/ Page!Tick
  PROVE  PageInv'
<1>1. PageTypes
  BY DEF PageInv
<1>2. /\ UNCHANGED <<drains, wanted, stage, saved, dumped>>
      /\ recorded' \in Nat /\ recorded' >= recorded /\ written' \in Nat
  <2>1. CASE Page!Record
    BY <2>1, <1>1 DEF Page!Record, Page!page, PageTypes
  <2>2. CASE Page!RuntimeReady \/ Page!PostInitialize \/ Page!PostInitialized
    BY <2>2, <1>1 DEF Page!RuntimeReady, Page!PostInitialize, Page!PostInitialized, PageTypes
  <2>3. CASE Page!Tick
    BY <2>3, <1>1, FlushedTyped DEF Page!Tick, Page!page, PageTypes
  <2> QED
    BY <2>1, <2>2, <2>3
<1>3. PageTypes'
  BY <1>1, <1>2 DEF PageTypes
<1> QED
  BY <1>1, <1>2, <1>3, PageQuietStep DEF PageTypes

LEMMA PressStep ==
  ASSUME PageInv, NEW calls, Page!Press(calls)
  PROVE  PageInv'
<1>1. PageTypes
  BY DEF PageInv
<1>2. /\ UNCHANGED <<drains, recorded, written, dumped, saved>>
      /\ stage' = [c \in Page!Calls |-> IF c \in calls THEN Page!First(c) ELSE stage[c]]
      /\ wanted' = [c \in Page!Calls |-> IF c \in calls THEN recorded ELSE wanted[c]]
  BY DEF Page!Press, Page!page
<1>3. \A c \in Page!Calls : Page!First(c) \in {"initialized", "exports"}
  BY DEF Page!First
<1>4. PageTypes'
  BY <1>1, <1>2, <1>3 DEF PageTypes, Stages
<1>5. \A c \in Page!Calls : wanted'[c] <= recorded'
  BY <1>1, <1>2 DEF PageInv, PageTypes
<1>6. ASSUME NEW c \in Page!Calls,
             drains' /\ c[2] = "log" /\ stage'[c] \in {"download", "ended"}
      PROVE  saved'[c] >= wanted'[c] \/ wanted'[c] = 0
  <2>1. c \notin calls
    BY <1>2, <1>3, <1>6
  <2>2. stage'[c] = stage[c] /\ wanted'[c] = wanted[c] /\ saved'[c] = saved[c]
    BY <1>2, <2>1
  <2> QED
    BY <1>2, <1>6, <2>2 DEF PageInv
<1> QED
  BY <1>4, <1>5, <1>6 DEF PageInv

LEMMA ReadStep ==
  ASSUME PageInv, NEW c \in Page!Calls, Page!ReadProfileFile(c)
  PROVE  PageInv'
<1>1. PageTypes
  BY DEF PageInv
<1>2. /\ UNCHANGED <<drains, recorded, wanted, dumped>>
      /\ written' = Page!Flushed
      /\ saved' = [saved EXCEPT ![c] = IF Page!Flushed > 0 THEN Page!Flushed ELSE -1]
      /\ stage' = [stage EXCEPT ![c] = "download"]
  BY DEF Page!ReadProfileFile, Page!page, Page!Nothing
<1>3. PageTypes'
  BY <1>1, <1>2, FlushedTyped DEF PageTypes, Stages
<1>4. \A d \in Page!Calls : wanted'[d] <= recorded'
  BY <1>2 DEF PageInv
<1>5. ASSUME NEW d \in Page!Calls,
             drains' /\ d[2] = "log" /\ stage'[d] \in {"download", "ended"}
      PROVE  saved'[d] >= wanted'[d] \/ wanted'[d] = 0
  <2>1. CASE d = c
    <3>1. saved'[c] = IF recorded > 0 THEN recorded ELSE -1
      BY <1>1, <1>2, <1>5, FlushedTyped DEF PageTypes
    <3>2. wanted[c] <= recorded /\ wanted[c] \in Nat /\ recorded \in Nat
      BY <1>1 DEF PageInv, PageTypes
    <3> QED
      BY <1>2, <2>1, <3>1, <3>2
  <2>2. CASE d # c
    BY <1>1, <1>2, <1>5, <2>2 DEF PageInv, PageTypes
  <2> QED
    BY <2>1, <2>2
<1> QED
  BY <1>3, <1>4, <1>5 DEF PageInv

LEMMA CallStep ==
  ASSUME PageInv, NEW c \in Page!Calls,
         \/ Page!Exports(c) \/ Page!Download(c)
         \/ Page!TriggerHeapShot(c) \/ Page!SaveAotProfile(c)
  PROVE  PageInv'
<1>1. PageTypes
  BY DEF PageInv
<1>2. CASE Page!Exports(c)
  <2>1. /\ UNCHANGED <<drains, recorded, written, dumped, wanted, saved>>
        /\ \/ stage' = [stage EXCEPT ![c] = "initialized"]
           \/ stage' = [stage EXCEPT ![c] = "failed"]
    BY <1>2 DEF Page!Exports, Page!page
  <2>2. stage' \in [Page!Calls -> Stages]
    BY <1>1, <2>1 DEF PageTypes, Stages
  <2>3. \A d \in Page!Calls : stage'[d] \in {"download", "ended"} => stage'[d] = stage[d]
    BY <1>1, <2>1 DEF PageTypes
  <2> QED
    BY <1>1, <2>1, <2>2, <2>3, PageQuietStep DEF PageTypes
<1>3. CASE Page!Download(c)
  <2>1. /\ UNCHANGED <<drains, recorded, written, dumped, wanted, saved>>
        /\ stage[c] = "download" /\ stage' = [stage EXCEPT ![c] = "ended"]
    BY <1>3 DEF Page!Download, Page!page
  <2>2. stage' \in [Page!Calls -> Stages]
    BY <1>1, <2>1 DEF PageTypes, Stages
  <2>3. \A d \in Page!Calls : stage'[d] = stage[d] \/ stage[d] = "download"
    BY <1>1, <2>1 DEF PageTypes
  <2> QED
    BY <1>1, <2>1, <2>2, <2>3, PageQuietStep DEF PageTypes
<1>4. CASE Page!TriggerHeapShot(c)
  <2>1. /\ UNCHANGED <<drains, dumped, wanted, saved>>
        /\ c[2] = "heap" /\ stage' = [stage EXCEPT ![c] = "ended"]
        /\ recorded' \in {recorded, recorded + 1} /\ written' = Page!Flushed
    BY <1>4 DEF Page!TriggerHeapShot, Page!page
  <2>2. stage' \in [Page!Calls -> Stages]
    BY <1>1, <2>1 DEF PageTypes, Stages
  <2>3. \A d \in Page!Calls : d[2] = "log" => stage'[d] = stage[d]
    BY <1>1, <2>1 DEF PageTypes
  <2>4. recorded' \in Nat /\ recorded' >= recorded /\ written' \in Nat
    BY <1>1, <2>1, FlushedTyped DEF PageTypes
  <2> QED
    BY <1>1, <2>1, <2>2, <2>3, <2>4, PageQuietStep DEF PageTypes
<1>5. CASE Page!SaveAotProfile(c)
  <2>1. /\ UNCHANGED <<drains, recorded, written, wanted>>
        /\ c[2] = "aot" /\ stage' = [stage EXCEPT ![c] = "ended"]
        /\ dumped' \in {recorded, dumped} /\ saved' = [saved EXCEPT ![c] = dumped']
    BY <1>5 DEF Page!SaveAotProfile, Page!page
  <2>2. stage' \in [Page!Calls -> Stages]
    BY <1>1, <2>1 DEF PageTypes, Stages
  <2>3. dumped' \in Int
    BY <1>1, <2>1 DEF PageTypes
  <2>4. /\ saved' \in [Page!Calls -> Int]
        /\ \A d \in Page!Calls : d[2] = "log" => stage'[d] = stage[d] /\ saved'[d] = saved[d]
    BY <1>1, <2>1, <2>3 DEF PageTypes
  <2> QED
    BY <1>1, <2>1, <2>2, <2>3, <2>4, PageQuietStep DEF PageTypes
<1> QED
  BY <1>2, <1>3, <1>4, <1>5

(* For any number of keys pressed and events recorded: what a save of the  *)
(* log profiler downloads holds all that was recorded before its key was   *)
(* pressed, if the runtime drains its queues (LogProfilerSupport.ts:95).   *)
THEOREM SavesAreComplete == Page!Spec => []SavedIsComplete
<1>1. PageInv /\ [Page!Next]_(Page!vars) => PageInv'
  <2> SUFFICES ASSUME PageInv, [Page!Next]_(Page!vars) PROVE PageInv'
    OBVIOUS
  <2>1. CASE Page!Record \/ Page!RuntimeReady \/ Page!PostInitialize
             \/ Page!PostInitialized \/ Page!Tick
    BY <2>1, SetupStep
  <2>2. CASE Page!PressP \/ Page!PressH
    BY <2>2, PressStep DEF Page!PressP, Page!PressH
  <2>3. CASE \E c \in Page!Calls : Page!Goes(c)
    BY <2>3, ReadStep, CallStep DEF Page!Goes
  <2>4. CASE UNCHANGED Page!vars
    BY <2>4 DEF Page!vars, Page!page, PageInv, PageTypes
  <2> QED
    BY <2>1, <2>2, <2>3, <2>4 DEF Page!Next
<1>2. PageInv => SavedIsComplete
  BY DEF PageInv, SavedIsComplete, Page!SavedIsComplete
<1> QED
  BY <1>1, <1>2, PageInitInv, PTL DEF Page!Spec

=============================================================================
