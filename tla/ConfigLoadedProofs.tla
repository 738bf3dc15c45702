------------------------- MODULE ConfigLoadedProofs --------------------------
(***************************************************************************)
(* Proofs about what configLoaded starts: the assemblies in the virtual    *)
(* file system, for any set of libraries and of cultures, and the progress *)
(* bar, for every unit, every estimate and every sequence of reports.      *)
(***************************************************************************)
EXTENDS MCConfigLoaded, FiniteSetTheorems, TLAPS

\* The sections whose files are stored directly below /managed.
Neutral == AssemblySections \cup PdbSections

\* No entry is configured twice, and each has an extension the code knows.
Distinct ==
  /\ original \in [Sections -> SUBSET Entries]
  /\ \A s, t \in Neutral : \A e \in original[s] \cap original[t] : s = t

\* What redirectAssembliesToVfs has to move, and where it puts it.
ToMove(s) == {e \in original[s] : ~MustKeepBundled(s, e)}
AllMoved == UNION {{Moved(s, e) : e \in ToMove(s)} : s \in Sections}

\* The state of the boot configuration at each step of configLoaded.
Redirecting ==
  /\ step = "redirect" => redirect /\ vfs = {} /\ content = original
  /\ redirect /\ format = "array" /\ step \in {"satellites", "loaded"} =>
       /\ vfs = AllMoved
       /\ content = [s \in Sections |-> {e \in original[s] : MustKeepBundled(s, e)}]

Inductive == Distinct /\ Redirecting

-----------------------------------------------------------------------------
(* The configuration has no entry twice and nothing is moved yet.          *)
LEMMA InitInductive == Init => Inductive
<1> SUFFICES ASSUME Init PROVE Inductive  OBVIOUS
<1> USE DEF Sections, AssemblySections, PdbSections
<1>1. PICK ext \in {"wasm", "dll"}, core \in SUBSET (Critical \cup Libraries), pdb \in PdbSections :
        content = [s \in Sections |->
                     CASE s = "coreAssembly" -> [name : core, ext : {ext}]
                       [] s = "assembly"     -> [name : (Critical \cup Libraries) \ core, ext : {ext}]
                       [] s \in PdbSections  -> IF s = pdb THEN Pdbs ELSE {}
                       [] OTHER              -> [name : Libraries, ext : {ext}]]
  BY DEF Init
<1>2. /\ content["coreAssembly"] = [name : core, ext : {ext}]
      /\ content["assembly"] = [name : (Critical \cup Libraries) \ core, ext : {ext}]
      /\ \A s \in PdbSections : content[s] = IF s = pdb THEN Pdbs ELSE {}
      /\ \A c \in Cultures : content[c] = [name : Libraries, ext : {ext}]
  BY <1>1, VfsAssumption
<1>3. content \in [Sections -> SUBSET Entries]
  <2>1. content["assembly"] \subseteq Entries /\ content["coreAssembly"] \subseteq Entries
    BY <1>2 DEF Entries, Assemblies
  <2>2. \A s \in PdbSections : content[s] \subseteq Entries
    <3>1. \A s \in PdbSections : content[s] \in {Pdbs, {}}  BY <1>2
    <3>. QED  BY <3>1 DEF Entries
  <2>3. \A c \in Cultures : content[c] \subseteq Entries
    <3>1. [name : Libraries, ext : {ext}] \subseteq Entries  BY DEF Entries, Assemblies
    <3>. QED  BY <1>2, <3>1
  <2>4. \A s \in Sections : content[s] \subseteq Entries  BY <2>1, <2>2, <2>3
  <2>5. content = [s \in Sections |-> content[s]]  BY <1>1
  <2>. QED  BY <2>4, <2>5
<1>4. \A s, t \in Neutral : \A e \in content[s] \cap content[t] : s = t
  <2>1. \A e \in content["assembly"] : e.name \notin core /\ e.ext # "pdb"  BY <1>2
  <2>2. \A e \in content["coreAssembly"] : e.name \in core /\ e.ext # "pdb"  BY <1>2
  <2>3. ASSUME NEW s \in PdbSections, NEW e \in content[s]
        PROVE  s = pdb /\ e.ext = "pdb"
    <3>1. content[s] = IF s = pdb THEN Pdbs ELSE {}  BY <1>2
    <3>2. s = pdb /\ e \in Pdbs  BY <3>1, <2>3
    <3>. QED  BY <3>2 DEF Pdbs
  <2>. QED  BY <2>1, <2>2, <2>3 DEF Neutral
<1>5. original = content /\ vfs = {} /\ step = IF redirect THEN "redirect" ELSE "satellites"
  BY DEF Init
<1>6. Distinct  BY <1>3, <1>4, <1>5 DEF Distinct
<1>7. redirect \in BOOLEAN  BY DEF Init
<1>8. Redirecting  BY <1>5, <1>7 DEF Redirecting
<1>. QED  BY <1>6, <1>8 DEF Inductive

(* Only the two steps of configLoaded change the configuration, and the    *)
(* second finds no satellite left when the first has moved arrays          *)
(* (Bootstrapper.ts:374-396, 562-577).                                     *)
LEMMA StepInductive == Inductive /\ [Next]_vars => Inductive'
<1> SUFFICES ASSUME Inductive, [Next]_vars PROVE Inductive'  OBVIOUS
<1>1. CASE RedirectAssembliesToVfs
  <2>1. redirect /\ vfs = {} /\ content = original
    BY <1>1 DEF RedirectAssembliesToVfs, Inductive, Redirecting
  <2>2. step' = "satellites" /\ UNCHANGED <<redirect, format, original>>
    BY <1>1 DEF RedirectAssembliesToVfs
  <2>3. Distinct'  BY <2>2 DEF Inductive, Distinct
  <2>4. CASE format = "array"
    <3>1. MoveArrays  BY <1>1, <2>4 DEF RedirectAssembliesToVfs
    <3>2. /\ vfs' = AllMoved
          /\ content' = [s \in Sections |-> {e \in original[s] : MustKeepBundled(s, e)}]
      BY <2>1, <3>1 DEF MoveArrays, AllMoved, ToMove
    <3>3. AllMoved' = AllMoved  BY <2>2 DEF AllMoved, ToMove
    <3>4. Redirecting'  BY <2>2, <3>2, <3>3 DEF Redirecting
    <3>. QED  BY <2>3, <3>4 DEF Inductive
  <2>5. CASE format # "array"
    BY <2>2, <2>3, <2>5 DEF Inductive, Redirecting
  <2>. QED  BY <2>4, <2>5
<1>2. CASE FixSatellites
  <2>1. /\ step = "satellites" /\ step' \in {"loaded", "threw"}
        /\ UNCHANGED <<redirect, format, content, original>>
    BY <1>2 DEF FixSatellites
  <2>2. Distinct'  BY <2>1 DEF Inductive, Distinct
  <2>3. AllMoved' = AllMoved  BY <2>1 DEF AllMoved, ToMove
  <2>4. ASSUME redirect, format = "array"  PROVE vfs' = vfs
    <3>1. content = [s \in Sections |-> {e \in original[s] : MustKeepBundled(s, e)}]
      BY <2>1, <2>4 DEF Inductive, Redirecting
    <3>2. \A c \in Cultures : content[c] = {}
      BY <3>1, VfsAssumption DEF Sections, MustKeepBundled, AssemblySections
    <3>3. vfs' = vfs \cup UNION {{[entry |-> e, by |-> "fix", prefix |-> c, dir |-> c,
                                   ext |-> e.ext] : e \in content[c]} : c \in Cultures}
      BY <1>2, <2>4 DEF FixSatellites
    <3>. QED  BY <3>2, <3>3
  <2>5. Redirecting'
    <3>1. step' # "redirect"  BY <2>1
    <3>2. ASSUME redirect, format = "array"
          PROVE  vfs' = AllMoved' /\ content' = [s \in Sections |->
                                                   {e \in original'[s] : MustKeepBundled(s, e)}]
      BY <2>1, <2>3, <2>4, <3>2 DEF Inductive, Redirecting
    <3>. QED  BY <2>1, <3>1, <3>2 DEF Redirecting
  <2>. QED  BY <2>2, <2>5 DEF Inductive
<1>3. ASSUME UNCHANGED config  PROVE Inductive'
  <2>1. AllMoved' = AllMoved  BY <1>3 DEF config, AllMoved, ToMove
  <2>. QED  BY <1>3, <2>1 DEF config, Inductive, Distinct, Redirecting
<1>. QED
  BY <1>1, <1>2, <1>3
  DEF Next, OpenToWrite, OpenToRead, Close, vars, config

\* The directory of a section, as a name the provers can carry about.
Directory(s) == IF s \in Cultures THEN s ELSE ""

\* The two cases of it.
LEMMA DirectoryOf ==
  ASSUME NEW s
  PROVE  /\ s \in Cultures => Directory(s) = s
         /\ s \notin Cultures => Directory(s) = ""
BY DEF Directory

\* The fields of a moved entry the proofs look at.
LEMMA MovedFields ==
  ASSUME NEW s, NEW e
  PROVE  /\ Moved(s, e).entry = e
         /\ Moved(s, e).dir = Directory(s)
         /\ e.ext \in {"wasm", "dll", "pdb"} => Moved(s, e).ext \in {"dll", "pdb"}
<1> DEFINE ext == IF e.ext = "wasm" THEN "dll" ELSE e.ext
<1>1. Moved(s, e) = [entry |-> e, by |-> "redirect", prefix |-> Directory(s),
                     dir |-> Directory(s), ext |-> ext]
  BY DEF Moved, Directory
<1>2. e.ext \in {"wasm", "dll", "pdb"} => ext \in {"dll", "pdb"}  OBVIOUS
<1> HIDE DEF ext
<1>. QED  BY <1>1, <1>2

(* The moved entry is the only one of its directory and name.              *)
LEMMA MovedIsOnly ==
  ASSUME Distinct, NEW s \in Sections, NEW e \in ToMove(s)
  PROVE  {v \in AllMoved : v.entry = e /\ v.dir = Directory(s)}
           = {Moved(s, e)}
<1>1. Moved(s, e) \in AllMoved  BY DEF AllMoved
<1>2. Moved(s, e).entry = e /\ Moved(s, e).dir = Directory(s)  BY MovedFields
<1>3. ASSUME NEW v \in AllMoved, v.entry = e, v.dir = Directory(s)
      PROVE  v = Moved(s, e)
  <2>1. PICK t \in Sections : \E d \in ToMove(t) : v = Moved(t, d)
    BY DEF AllMoved
  <2>2. e \in ToMove(t) /\ v = Moved(t, e)  BY <1>3, <2>1, MovedFields
  <2>3. t = s
    <3>1. Directory(t) = Directory(s)  BY <1>3, <2>2, MovedFields
    <3>2. CASE s \in Cultures  BY <3>1, <3>2, VfsAssumption, DirectoryOf
    <3>3. CASE s \notin Cultures
      <4>1. t \notin Cultures  BY <3>1, <3>3, VfsAssumption, DirectoryOf
      <4>2. s \in Neutral /\ t \in Neutral  BY <3>3, <4>1 DEF Sections, Neutral
      <4>. QED  BY <2>2, <4>2 DEF Distinct, ToMove
    <3>. QED  BY <3>2, <3>3
  <2>. QED  BY <2>1, <2>2, <2>3
<1>. QED  BY <1>1, <1>2, <1>3

(* With the redirection on, every configured entry is still bundled or     *)
(* once in resources.vfs, under a name the runtime looks for, and the      *)
(* critical assemblies are bundled (Bootstrapper.ts:459-577).              *)
THEOREM EntriesMovedOnce == Spec => []MovedOnce
<1>1. ASSUME Inductive, redirect, format = "array", step = "loaded",
             NEW s \in Sections, NEW e \in original[s]
      PROVE  LET here == {v \in vfs : v.entry = e /\ v.dir = Directory(s)}
             IN  /\ IF e \in content[s] THEN here = {} ELSE Cardinality(here) = 1
                 /\ \A v \in here : v.ext \in {"dll", "pdb"}
                 /\ s \in AssemblySections /\ e.name \in Critical => e \in content[s]
  <2> DEFINE here == {v \in vfs : v.entry = e /\ v.dir = Directory(s)}
  <2>1. /\ vfs = AllMoved
        /\ content[s] = {d \in original[s] : MustKeepBundled(s, d)}
    BY <1>1 DEF Inductive, Redirecting
  <2>2. s \in AssemblySections /\ e.name \in Critical => e \in content[s]
    BY <1>1, <2>1 DEF MustKeepBundled
  <2>3. CASE MustKeepBundled(s, e)
    <3>1. s \in AssemblySections /\ s \notin Cultures
      BY <2>3, VfsAssumption DEF MustKeepBundled, AssemblySections
    <3>2. ASSUME NEW v \in here  PROVE FALSE
      <4>1. PICK t \in Sections : \E d \in ToMove(t) : v = Moved(t, d)
        BY <2>1, <3>2 DEF AllMoved
      <4>2. e \in ToMove(t) /\ Directory(t) = Directory(s)
        BY <3>2, <4>1, MovedFields
      <4>3. t \notin Cultures  BY <3>1, <4>2, VfsAssumption, DirectoryOf
      <4>4. t \in Neutral /\ s \in Neutral  BY <3>1, <4>3 DEF Sections, Neutral
      <4>5. t = s  BY <1>1, <4>2, <4>4 DEF Inductive, Distinct, ToMove
      <4>. QED  BY <2>3, <4>2, <4>5 DEF ToMove
    <3>. QED  BY <1>1, <2>1, <2>2, <2>3, <3>2
  <2>4. CASE ~MustKeepBundled(s, e)
    <3>1. here = {Moved(s, e)}
      BY <1>1, <2>1, <2>4, MovedIsOnly DEF Inductive, ToMove
    <3>2. Cardinality(here) = 1  BY <3>1, FS_Singleton
    <3>3. e.ext \in {"wasm", "dll", "pdb"}
      BY <1>1 DEF Inductive, Distinct, Entries, Assemblies, Pdbs
    <3>4. Moved(s, e).ext \in {"dll", "pdb"}  BY <3>3, MovedFields
    <3>. QED  BY <2>1, <2>2, <2>4, <3>1, <3>2, <3>4
  <2>. QED  BY <2>3, <2>4
<1>2. Inductive => MovedOnce  BY <1>1 DEF MovedOnce, Directory
<1>3. Spec => []Inductive  BY InitInductive, StepInductive, PTL DEF Spec
<1>. QED  BY <1>2, <1>3, PTL

-----------------------------------------------------------------------------
(* Satellites.  With the redirection they are among what it moves; without *)
(* it the second loop adds them to an empty list.                          *)
Fixed(c, e) == [entry |-> e, by |-> "fix", prefix |-> c, dir |-> c, ext |-> e.ext]
AllFixed == UNION {{Fixed(c, e) : e \in original[c]} : c \in Cultures}

\* A culture has one satellite of a name.
NamedOnce == \A c \in Cultures : \A d, e \in original[c] : d.name = e.name => d = e

NotRedirected ==
  ~redirect =>
    /\ step # "redirect" /\ content = original
    /\ step = "satellites" => vfs = {}
    /\ step = "loaded" /\ format = "array" => vfs = AllFixed

LEMMA InitSatellites == Init => NamedOnce /\ NotRedirected
<1> SUFFICES ASSUME Init PROVE NamedOnce /\ NotRedirected  OBVIOUS
<1>1. original = content /\ vfs = {} /\ step = IF redirect THEN "redirect" ELSE "satellites"
  BY DEF Init
<1>2. PICK ext \in {"wasm", "dll"}, core \in SUBSET (Critical \cup Libraries), pdb \in PdbSections :
        content = [s \in Sections |->
                     CASE s = "coreAssembly" -> [name : core, ext : {ext}]
                       [] s = "assembly"     -> [name : (Critical \cup Libraries) \ core, ext : {ext}]
                       [] s \in PdbSections  -> IF s = pdb THEN Pdbs ELSE {}
                       [] OTHER              -> [name : Libraries, ext : {ext}]]
  BY DEF Init
<1>3. \A c \in Cultures : content[c] = [name : Libraries, ext : {ext}]
  BY <1>2, VfsAssumption DEF Sections, AssemblySections, PdbSections
<1>4. NamedOnce
  <2>1. \A d, e \in [name : Libraries, ext : {ext}] : d.name = e.name => d = e
    OBVIOUS
  <2>. QED  BY <1>1, <1>3, <2>1 DEF NamedOnce
<1>5. NotRedirected
  BY <1>1 DEF NotRedirected
<1>. QED  BY <1>4, <1>5

LEMMA StepSatellites ==
  NamedOnce /\ NotRedirected /\ [Next]_vars => NamedOnce' /\ NotRedirected'
<1> SUFFICES ASSUME NamedOnce, NotRedirected, [Next]_vars
             PROVE  NamedOnce' /\ NotRedirected'
  OBVIOUS
<1>1. UNCHANGED <<redirect, format, original>>
  BY DEF Next, RedirectAssembliesToVfs, FixSatellites, OpenToWrite, OpenToRead, Close,
         vars, config
<1>2. NamedOnce' /\ AllFixed' = AllFixed
  BY <1>1 DEF NamedOnce, AllFixed
<1>3. NotRedirected'
  <2> SUFFICES ASSUME ~redirect
               PROVE  /\ step' # "redirect" /\ content' = original
                      /\ step' = "satellites" => vfs' = {}
                      /\ step' = "loaded" /\ format = "array" => vfs' = AllFixed
    BY <1>1, <1>2 DEF NotRedirected
  <2>1. CASE FixSatellites
    <3>1. step = "satellites" /\ vfs = {} /\ content = original
      BY <2>1 DEF FixSatellites, NotRedirected
    <3>2. step' \in {"loaded", "threw"} /\ content' = content
      BY <2>1 DEF FixSatellites
    <3>3. ASSUME step' = "loaded", format = "array"  PROVE vfs' = AllFixed
      BY <2>1, <3>1, <3>3 DEF FixSatellites, AllFixed, Fixed
    <3>. QED  BY <3>1, <3>2, <3>3
  <2>2. ~RedirectAssembliesToVfs
    BY DEF RedirectAssembliesToVfs, NotRedirected
  <2>3. CASE UNCHANGED config
    BY <2>3 DEF config, NotRedirected
  <2>. QED
    BY <2>1, <2>2, <2>3 DEF Next, OpenToWrite, OpenToRead, Close, vars, config
<1>. QED  BY <1>2, <1>3

\* Where both loops store a satellite, and from where it is downloaded.
LEMMA SatelliteFields ==
  ASSUME NEW c \in Cultures, NEW e
  PROVE  /\ Moved(c, e).entry = e /\ Moved(c, e).dir = c /\ Moved(c, e).prefix = c
         /\ Fixed(c, e).entry = e /\ Fixed(c, e).dir = c /\ Fixed(c, e).prefix = c
BY DEF Moved, Fixed

(* Every satellite is stored once below its culture's directory and comes  *)
(* from there, with the redirection and without it, and no other file is   *)
(* stored under its path (Bootstrapper.ts:374-396, 562-577).               *)
THEOREM SatellitesStoredOnce == Spec => []SatellitesStored
<1>1. ASSUME Inductive, NamedOnce, NotRedirected, format = "array", step = "loaded",
             NEW c \in Cultures, NEW e \in original[c]
      PROVE  \E v \in vfs :
               /\ v.entry = e /\ v.dir = c /\ v.prefix = c
               /\ \A w \in vfs \ {v} : Path(w) # Path(v) /\ <<w.entry, w.dir>> # <<e, c>>
  <2>1. ASSUME NEW v \in vfs, v.entry = e, v.dir = c, v.prefix = c,
               \A w \in vfs : w.dir = c => w.entry \in original[c]
                                           /\ (w.entry = e => w = v)
        PROVE  \A w \in vfs \ {v} : Path(w) # Path(v) /\ <<w.entry, w.dir>> # <<e, c>>
    <3> SUFFICES ASSUME NEW w \in vfs \ {v}, w.dir = c, w.entry.name = e.name
                 PROVE  FALSE
      BY <2>1 DEF Path
    <3>. QED  BY <1>1, <2>1 DEF NamedOnce
  <2>2. CASE redirect
    <3>1. vfs = AllMoved
      BY <1>1, <2>2 DEF Inductive, Redirecting
    <3>2. c \in Sections /\ c \notin AssemblySections /\ Directory(c) = c
      BY VfsAssumption, DirectoryOf DEF Sections, AssemblySections
    <3>3. e \in ToMove(c)
      BY <1>1, <3>2 DEF ToMove, MustKeepBundled
    <3>4. Moved(c, e) \in vfs
      BY <3>1, <3>2, <3>3 DEF AllMoved
    <3>5. ASSUME NEW w \in vfs, w.dir = c
          PROVE  w.entry \in original[c] /\ (w.entry = e => w = Moved(c, e))
      <4>1. PICK t \in Sections : \E d \in ToMove(t) : w = Moved(t, d)
        BY <3>1 DEF AllMoved
      <4>2. PICK d \in ToMove(t) : w = Moved(t, d)
        BY <4>1
      <4>3. t = c
        <5>1. Directory(t) = c  BY <3>5, <4>2, MovedFields
        <5>. QED  BY <5>1, VfsAssumption, DirectoryOf
      <4>4. w.entry = d  BY <4>2, MovedFields
      <4>. QED  BY <4>2, <4>3, <4>4 DEF ToMove
    <3>. QED  BY <2>1, <3>4, <3>5, SatelliteFields
  <2>3. CASE ~redirect
    <3>1. vfs = AllFixed
      BY <1>1, <2>3 DEF NotRedirected
    <3>2. Fixed(c, e) \in vfs
      BY <3>1 DEF AllFixed
    <3>3. ASSUME NEW w \in vfs, w.dir = c
          PROVE  w.entry \in original[c] /\ (w.entry = e => w = Fixed(c, e))
      <4>1. PICK t \in Cultures : \E d \in original[t] : w = Fixed(t, d)
        BY <3>1 DEF AllFixed
      <4>2. PICK d \in original[t] : w = Fixed(t, d)
        BY <4>1
      <4>3. t = c /\ w.entry = d  BY <3>3, <4>2, SatelliteFields
      <4>. QED  BY <4>2, <4>3
    <3>. QED  BY <2>1, <3>2, <3>3, SatelliteFields
  <2>. QED  BY <2>2, <2>3
<1>2. Inductive /\ NamedOnce /\ NotRedirected => SatellitesStored
  BY <1>1 DEF SatellitesStored
<1>3. Spec => []Inductive  BY InitInductive, StepInductive, PTL DEF Spec
<1>4. Spec => [](NamedOnce /\ NotRedirected)
  BY InitSatellites, StepSatellites, PTL DEF Spec
<1>. QED  BY <1>2, <1>3, <1>4, PTL

-----------------------------------------------------------------------------
\* What the promises rest on: the numbers are whole, and the order of the three.
BarInv ==
  /\ value \in Int /\ lastReported \in Int /\ target \in Int
  /\ phase \in {"loading", "started"}
  /\ 0 <= target
  /\ ReservedForStart

\* Dividing what is not negative by a positive number yields no more of it.
LEMMA ShareOf ==
  ASSUME NEW n \in Int, n >= 0, NEW d \in {2, 5, 10, 20}
  PROVE  n \div d \in Int /\ 0 <= n \div d /\ n \div d <= n
<1>1. CASE d = 2 BY <1>1
<1>2. CASE d = 5 BY <1>2
<1>3. CASE d = 10 BY <1>3
<1>4. CASE d = 20 BY <1>4
<1> QED BY <1>1, <1>2, <1>3, <1>4

\* A change of the total moves the target towards the reserve (lines 707-724).
LEMMA TargetAfterTotal ==
  ASSUME target \in Int, target <= Bar!Reserve, NEW total
  PROVE  Bar!AfterTotal(total) \in target..Bar!Reserve
<1>1. Bar!Reserve \in Int BY ProgressAssumption DEF Bar!Reserve, Bar!Percent
<1>2. Bar!Reserve - target \in Int /\ Bar!Reserve - target >= 0 BY <1>1
<1>3. /\ (Bar!Reserve - target) \div 2 \in Int
      /\ 0 <= (Bar!Reserve - target) \div 2
      /\ (Bar!Reserve - target) \div 2 <= Bar!Reserve - target
  BY <1>2, ShareOf
<1> QED BY <1>1, <1>3 DEF Bar!AfterTotal

\* No adjustment is negative, so the adjusted target is between the target and
\* the reserve (lines 728-773).
LEMMA TargetAdjusted ==
  ASSUME NEW t \in Int, t <= Bar!Reserve, NEW h, NEW loaded, NEW total, NEW gap
  PROVE  Bar!Adjusted(t, Bar!Greater(Bar!Velocity(t, h, loaded, total), Bar!Stall(t, gap)))
           \in t..Bar!Reserve
<1>1. /\ Bar!Reserve \in Int /\ Bar!Percent(100) \in Int
      /\ Bar!Percent(10) \in Nat /\ Bar!Percent(2) \in Nat
      /\ Bar!Reserve <= Bar!Percent(100)
  BY ProgressAssumption DEF Bar!Reserve, Bar!Percent
<1>2. /\ (Bar!Percent(100) - t) \div 10 \in Int
      /\ 0 <= (Bar!Percent(100) - t) \div 10
  BY <1>1, ShareOf
<1>3. /\ (Bar!Reserve - t) \div 20 \in Int
      /\ 0 <= (Bar!Reserve - t) \div 20
  BY <1>1, ShareOf
<1>4. Bar!Velocity(t, h, loaded, total) \in Int /\ Bar!Velocity(t, h, loaded, total) >= 0
  BY <1>1, <1>2 DEF Bar!Velocity, Bar!Lesser
<1>5. Bar!Stall(t, gap) \in Int /\ Bar!Stall(t, gap) >= 0
  BY <1>1, <1>3 DEF Bar!Stall, Bar!Lesser
<1>6. Bar!Greater(Bar!Velocity(t, h, loaded, total), Bar!Stall(t, gap)) \in Nat
  BY <1>4, <1>5 DEF Bar!Greater
<1> QED BY <1>1, <1>6 DEF Bar!Adjusted, Bar!Lesser

\* The bar shows at least what it showed and at most the target (lines 776-785).
LEMMA ShownWithinTarget ==
  ASSUME lastReported \in Int, NEW t \in Int, 0 <= t, lastReported <= t,
         NEW loaded \in Nat, NEW total \in Nat
  PROVE  Bar!Shown(t, loaded, total) \in lastReported..t
<1>1. Bar!Greater(total, 1) \in Nat /\ Bar!Greater(total, 1) > 0 BY DEF Bar!Greater
<1>2. loaded * t \in Int OBVIOUS
<1>3. (loaded * t) \div Bar!Greater(total, 1) \in Int BY <1>1, <1>2
<1> QED BY <1>3 DEF Bar!Shown, Bar!Greater, Bar!Lesser

LEMMA BarInitially == Bar!Init => BarInv
<1> SUFFICES ASSUME Bar!Init PROVE BarInv OBVIOUS
<1>1. Bar!Reserve \in Int /\ Bar!MinimumInitialTarget \in Int /\ Bar!Percent(50) \in Int
      /\ 0 <= Bar!MinimumInitialTarget /\ Bar!MinimumInitialTarget <= Bar!Percent(50)
      /\ Bar!Percent(50) <= Bar!Reserve
  BY ProgressAssumption DEF Bar!Reserve, Bar!MinimumInitialTarget, Bar!Percent
<1>2. ASSUME NEW estimate \in Estimates
      PROVE  Bar!InitialTarget(estimate) \in Bar!MinimumInitialTarget..Bar!Percent(50)
  <2>1. estimate * Unit \in Nat BY ProgressAssumption
  <2>2. (estimate * Unit) \div 5 \in Int BY <2>1, ShareOf
  <2> QED BY <1>1, <2>2 DEF Bar!InitialTarget, Bar!Greater, Bar!Lesser
<1>3. target \in Bar!MinimumInitialTarget..Bar!Percent(50) BY <1>1, <1>2 DEF Bar!Init
<1> QED BY <1>1, <1>3 DEF Bar!Init, BarInv, ReservedForStart, Bar!ReservedForStart

\* A step keeps the bar's invariant and moves neither the bar nor the target back.
LEMMA BarStep ==
  BarInv /\ [Bar!Next]_(Bar!vars) => BarInv' /\ value' >= value /\ target' >= target
<1> SUFFICES ASSUME BarInv, [Bar!Next]_(Bar!vars)
             PROVE  BarInv' /\ value' >= value /\ target' >= target
  OBVIOUS
<1> USE DEF BarInv, ReservedForStart, Bar!ReservedForStart
<1>1. Bar!Reserve \in Int /\ Bar!Percent(100) \in Int /\ Bar!Reserve <= Bar!Percent(100)
  BY ProgressAssumption DEF Bar!Reserve, Bar!Percent
<1>2. ASSUME NEW loaded \in 0..MaxTotal, NEW total \in 0..MaxTotal, NEW gap \in Gaps,
             Bar!Report(loaded, total, gap)
      PROVE  BarInv' /\ value' >= value /\ target' >= target
  <2> DEFINE t == Bar!AfterTotal(total)
  <2>1. t \in target..Bar!Reserve BY TargetAfterTotal
  <2>2. t \in Int /\ t <= Bar!Reserve BY <2>1, <1>1
  <2>3. target' = Bar!Adjusted(t, Bar!Greater(Bar!Velocity(t, history', loaded, total),
                                              Bar!Stall(t, gap)))
    BY <1>2 DEF Bar!Report
  <2> HIDE DEF t
  <2>4. target' \in t..Bar!Reserve BY <2>2, <2>3, TargetAdjusted
  <2>5. target' \in Int /\ target <= target' /\ target' <= Bar!Reserve BY <1>1, <2>1, <2>2, <2>4
  <2>6. loaded \in Nat /\ total \in Nat BY ProgressAssumption
  <2>7. Bar!Shown(target', loaded, total) \in lastReported..target'
    BY <2>5, <2>6, ShownWithinTarget
  <2>8. value' = Bar!Shown(target', loaded, total) /\ lastReported' = value'
        /\ phase = "loading" /\ phase' = phase
    BY <1>2 DEF Bar!Report
  <2> QED BY <2>5, <2>7, <2>8, <1>1 DEF Bar!Reserve, Bar!Percent
<1>3. CASE Bar!CleanupInit BY <1>1, <1>3 DEF Bar!CleanupInit, Bar!Reserve, Bar!Percent
<1>4. CASE UNCHANGED Bar!vars BY <1>4 DEF Bar!vars, Bar!Reserve, Bar!Percent
<1> QED BY <1>2, <1>3, <1>4 DEF Bar!Next

(* FR-6: whatever the runtime reports, the bar stays at or below 95 % until *)
(* mainInit has cleaned up.                                                 *)
THEOREM BarReserved == Bar!Spec => []ReservedForStart
<1>1. BarInv /\ [Bar!Next]_(Bar!vars) => BarInv' BY BarStep
<1>2. BarInv => ReservedForStart BY DEF BarInv
<1> QED BY BarInitially, <1>1, <1>2, PTL DEF Bar!Spec

\* FR-1: whatever the runtime reports, neither the bar nor its target goes back.
THEOREM BarNeverBackward == Bar!Spec => NeverBackward
<1>1. BarInv /\ [Bar!Next]_(Bar!vars) => BarInv' BY BarStep
<1>2. BarInv /\ [Bar!Next]_(Bar!vars) => [value' >= value /\ target' >= target]_(Bar!vars)
  BY BarStep
<1> QED BY BarInitially, <1>1, <1>2, PTL DEF Bar!Spec, NeverBackward, Bar!NeverBackward
=============================================================================
