------------------------- MODULE AssetPipelineProofs -------------------------
(***************************************************************************)
(* Proofs about the asset pipeline of the build, for any projects: what    *)
(* the generated files name is served, and of the resources of one name    *)
(* the one of the last assembly; and two builds that name the folder alike *)
(* put the same contents into it.                                          *)
(***************************************************************************)
EXTENDS AssetPipeline, FiniteSetTheorems, TLAPS

Worker == "uno-worker-bootstrap.js"

Extracting == {"ResourcesJS", "EmbeddedJS", "ResourcesCSS", "EmbeddedCSS"}
Removing == {"RemoveDuplicates", "RemoveDuplicatesAgain"}
\* The steps before the folder has its name.
Collecting == {"CopyContent", "RemoveDuplicates", "GeneratePackageFolder"} \cup Extracting
Describing == {"BuildServiceWorker", "GeneratePage", "GenerateConfig"}
Steps == Collecting \cup Describing \cup {"RemoveDuplicatesAgain", "done", "failed"}

\* Items are numbered by the calls of AddStaticAsset.
Numbered == added \in Nat /\ DOMAIN assets \subseteq 1..added

Typed ==
  /\ IsProject(project)
  /\ next \in Steps /\ at \in Nat \ {0}
  /\ Numbered
  /\ \A a \in Assets : a = [file |-> a.file, name |-> a.name, folder |-> a.folder]
  /\ next \in Collecting => packageFolder = Unknown /\ urls = {}
  /\ next \notin Collecting => packageFolder # Unknown

\* Where an asset of the package is linked into at each step.
FolderNow == IF next \in Collecting THEN PackageTag ELSE packageFolder

(* A script or style whose name was collected has an asset, which neither  *)
(* removal of duplicates takes; and an asset that replaces it, because it  *)
(* is the same file, has its name.                                         *)
Holds(a, name) ==
  /\ a.name = name /\ a.folder = FolderNow
  /\ a.file \notin project.existing /\ a.file[2] = name
NamesHeld == \A name \in dependencies \cup styles : \E a \in Assets : Holds(a, name)

\* The second removal finds nothing to remove.
RemovedOnce ==
  next \notin {"CopyContent", "RemoveDuplicates"} \cup Extracting =>
    \A a \in Assets : NotExisting(a)

\* The configuration is named before it is written.
UrlsKnown ==
  /\ next \in Describing => urls \subseteq Served \cup {Config}
  /\ next \in {"RemoveDuplicatesAgain", "done"} => urls \subseteq Served

UrlsInv == Typed /\ NamesHeld /\ RemovedOnce /\ UrlsKnown

\* The loop over the resources of its kind has extracted resource k.
Copied(k) ==
  LET r == project.resources[k]
  IN  /\ r.name # Worker
      /\ next # "CopyContent"
      /\ next = "ResourcesJS" => r.kind = "js" /\ k < at
      /\ next = "EmbeddedJS" => r.kind = "js"
      /\ next = "ResourcesCSS" => r.kind = "js" \/ k < at

\* The content of the last resource of its name that was extracted.
NewestOnDisk ==
  \A k \in DOMAIN project.resources :
    LET r == project.resources[k]
    IN  /\ Copied(k)
        /\ \A j \in DOMAIN project.resources :
             j > k /\ project.resources[j].name = r.name => ~Copied(j)
        => /\ Intermediate(r.name) \in DOMAIN disk
           /\ disk[Intermediate(r.name)] = r.version

\* The entry point of workers is never extracted.
WorkerPassedOver == \A a \in Assets : a.file # Intermediate(Worker)

DiskInv == Typed /\ NewestOnDisk /\ WorkerPassedOver

-----------------------------------------------------------------------------
(* What a call of AddStaticAsset makes of the set of assets.               *)
LEMMA AddedTo ==
  ASSUME NEW kept, NEW list, Numbered, kept \subseteq DOMAIN assets,
         Len(list) \in Nat, AddTo(kept, list)
  PROVE  /\ Numbered'
         /\ Assets' = {assets[n] : n \in kept} \cup {list[k] : k \in 1..Len(list)}
<1> USE DEF Numbered
<1>1. /\ added' = added + Len(list)
      /\ DOMAIN assets' = kept \cup (added + 1)..(added + Len(list))
      /\ \A n \in DOMAIN assets' :
           assets'[n] = IF n \in kept THEN assets[n] ELSE list[n - added]
  BY DEF AddTo
<1>2. Numbered'
  BY <1>1
<1>3. \A n \in DOMAIN assets' : n \notin kept => n - added \in 1..Len(list)
  BY <1>1
<1>4. \A k \in 1..Len(list) : /\ added + k \in DOMAIN assets' \ kept
                               /\ (added + k) - added = k
  BY <1>1
<1>5. \A k \in 1..Len(list) : assets'[added + k] = list[k]
  BY <1>1, <1>4
<1>6. Assets' \subseteq {assets[n] : n \in kept} \cup {list[k] : k \in 1..Len(list)}
  BY <1>1, <1>3 DEF Assets
<1>7. {assets[n] : n \in kept} \subseteq Assets'
  BY <1>1 DEF Assets
<1>8. {list[k] : k \in 1..Len(list)} \subseteq Assets'
  BY <1>4, <1>5 DEF Assets
<1> QED
  BY <1>2, <1>6, <1>7, <1>8

LEMMA OneMore ==
  ASSUME NEW a, Numbered, AddStaticAssets(<<a>>)
  PROVE  Numbered' /\ Assets' = Assets \cup {a}
<1>1. PICK kept : kept = DOMAIN assets
  OBVIOUS
<1>2. PICK list : list = <<a>>
  OBVIOUS
<1>3. Len(list) = 1 /\ {list[k] : k \in 1..Len(list)} = {a}
  BY <1>2
<1>4. AddTo(kept, list)
  BY <1>1, <1>2 DEF AddStaticAssets
<1>5. Numbered' /\ Assets' = {assets[n] : n \in kept} \cup {list[k] : k \in 1..Len(list)}
  BY <1>1, <1>3, <1>4, AddedTo
<1> QED
  BY <1>1, <1>3, <1>5 DEF Assets

LEMMA TwoMore ==
  ASSUME NEW a, NEW b, Numbered, AddStaticAssets(<<a, b>>)
  PROVE  Numbered' /\ Assets' = Assets \cup {a, b}
<1>1. PICK kept : kept = DOMAIN assets
  OBVIOUS
<1>2. PICK list : list = <<a, b>>
  OBVIOUS
<1>3. Len(list) = 2 /\ {list[k] : k \in 1..Len(list)} = {a, b}
  BY <1>2
<1>4. AddTo(kept, list)
  BY <1>1, <1>2 DEF AddStaticAssets
<1>5. Numbered' /\ Assets' = {assets[n] : n \in kept} \cup {list[k] : k \in 1..Len(list)}
  BY <1>1, <1>3, <1>4, AddedTo
<1> QED
  BY <1>1, <1>3, <1>5 DEF Assets

LEMMA Overridden ==
  ASSUME NEW a, Numbered, Overriding(a)
  PROVE  Numbered' /\ Assets' = {b \in Assets : b.file # a.file} \cup {a}
<1>1. PICK kept : kept = {n \in DOMAIN assets : assets[n].file # a.file}
  OBVIOUS
<1>2. PICK list : list = <<a>>
  OBVIOUS
<1>3. Len(list) = 1 /\ {list[k] : k \in 1..Len(list)} = {a}
  BY <1>2
<1>4. AddTo(kept, list)
  BY <1>1, <1>2 DEF Overriding
<1>5. Numbered' /\ Assets' = {assets[n] : n \in kept} \cup {list[k] : k \in 1..Len(list)}
  BY <1>1, <1>3, <1>4, AddedTo
<1>6. {assets[n] : n \in kept} = {b \in Assets : b.file # a.file}
  BY <1>1 DEF Assets
<1> QED
  BY <1>3, <1>5, <1>6

(* What each step makes of the set.                                        *)
LEMMA ContentCopied ==
  ASSUME Numbered, CopyContent
  PROVE  LET c == project.content[at]
         IN  /\ Numbered'
             /\ \/ Assets' = Assets
                \/ Assets' = Assets
                     \cup {Asset(Source(c.place, c.name), DeployMode(c), SitePath(c))}
<1>1. PICK a : a = LET c == project.content[at]
                   IN  Asset(Source(c.place, c.name), DeployMode(c), SitePath(c))
  OBVIOUS
<1>2. UNCHANGED content \/ AddStaticAssets(<<a>>)
  BY <1>1 DEF CopyContent
<1> QED
  BY <1>1, <1>2, OneMore DEF content, Assets, Numbered

LEMMA ResourceExtracted ==
  ASSUME Numbered, ExtractResource
  PROVE  LET r == project.resources[at]
         IN  /\ Numbered'
             /\ Assets' = IF Extracted(r)
                          THEN Assets \cup {Asset(Intermediate(r.name), "Package", r.name)}
                          ELSE Assets
<1>1. PICK a : a = LET r == project.resources[at]
                   IN  Asset(Intermediate(r.name), "Package", r.name)
  OBVIOUS
<1>2. IF Extracted(project.resources[at]) THEN AddStaticAssets(<<a>>) ELSE UNCHANGED content
  BY <1>1 DEF ExtractResource
<1> QED
  BY <1>1, <1>2, OneMore DEF content, Assets, Numbered

LEMMA EmbeddedExtracted ==
  ASSUME Numbered, ExtractEmbedded
  PROVE  LET e == project.embedded[at]
             file == Source(e.place, e.name)
         IN  /\ Numbered'
             /\ Assets' = IF e.kind = Kind
                          THEN {b \in Assets : b.file # file}
                                 \cup {Asset(file, "Package", e.name)}
                          ELSE Assets
<1>1. PICK a : a = LET e == project.embedded[at]
                   IN  Asset(Source(e.place, e.name), "Package", e.name)
  OBVIOUS
<1>2. IF project.embedded[at].kind = Kind THEN Overriding(a) ELSE UNCHANGED content
  BY <1>1 DEF ExtractEmbedded
<1>3. a.file = LET e == project.embedded[at] IN Source(e.place, e.name)
  BY <1>1 DEF Asset
<1> QED
  BY <1>1, <1>2, <1>3, Overridden DEF content, Assets, Numbered

LEMMA DuplicatesRemoved ==
  ASSUME Numbered, RemoveDuplicateAssets
  PROVE  Numbered' /\ Assets' = {a \in Assets : NotExisting(a)}
<1>1. /\ DOMAIN assets' = {m \in DOMAIN assets : NotExisting(assets[m])}
      /\ \A n \in DOMAIN assets' : assets'[n] = assets[n]
      /\ added' = added
  BY DEF RemoveDuplicateAssets
<1> QED
  BY <1>1 DEF Assets, Numbered

\* The asset once the folder of the package has its name.
Linked(a, folder) == [a EXCEPT !.folder = IF @ = PackageTag THEN folder ELSE @]

LEMMA FolderGenerated ==
  ASSUME Numbered, GeneratePackageFolder
  PROVE  Numbered' /\ Assets' = {Linked(a, packageFolder') : a \in Assets}
<1>1. /\ DOMAIN assets' = DOMAIN assets /\ added' = added
      /\ \A n \in DOMAIN assets : assets'[n] = Linked(assets[n], packageFolder')
  BY DEF GeneratePackageFolder, Linked
<1> QED
  BY <1>1 DEF Assets, Numbered

\* What the steps that generate files add.
Generated(step) ==
  CASE step = "BuildServiceWorker" ->
         {Asset(Intermediate("service-worker.js"), "Root", "service-worker.js")}
    [] step = "GeneratePage" ->
         {RootFile(name) : name \in {"embedded.js", "worker.js", "manifest.json", "index.html"}}
    [] OTHER -> {Asset(Intermediate("uno-config.js"), "Package", "uno-config.js")}

\* They are none of the files of wwwroot, and not the entry point of workers.
LEMMA GeneratedFiles ==
  ASSUME NEW step \in Describing, NEW a \in Generated(step)
  PROVE  /\ a = [file |-> a.file, name |-> a.name, folder |-> a.folder]
         /\ a.file[1] # "wwwroot" /\ a.file # Intermediate(Worker)
<1>1. PICK file, mode, name : /\ a = Asset(file, mode, name)
                             /\ \/ file = Intermediate("service-worker.js")
                                \/ file = <<"obj root", name>>
                                \/ file = Intermediate("uno-config.js")
  <2>1. CASE step = "BuildServiceWorker"
    BY <2>1 DEF Generated
  <2>2. CASE step = "GeneratePage"
    BY <2>2 DEF Generated, RootFile
  <2>3. CASE step = "GenerateConfig"
    BY <2>3 DEF Generated
  <2> QED
    BY <2>1, <2>2, <2>3 DEF Describing
<1>2. a.file = file /\ a = [file |-> a.file, name |-> a.name, folder |-> a.folder]
  BY <1>1 DEF Asset
<1>3. file[1] # "wwwroot" /\ file # Intermediate(Worker)
  <2>1. \/ file[1] = "obj" /\ file[2] \in {"service-worker.js", "uno-config.js"}
        \/ file[1] = "obj root"
    <3>1. CASE file = Intermediate("service-worker.js")
      BY <3>1 DEF Intermediate
    <3>2. CASE file = <<"obj root", name>>
      BY <3>2
    <3>3. CASE file = Intermediate("uno-config.js")
      BY <3>3 DEF Intermediate
    <3> QED
      BY <1>1, <3>1, <3>2, <3>3
  <2>2. Intermediate(Worker)[1] = "obj" /\ Intermediate(Worker)[2] = "uno-worker-bootstrap.js"
    BY DEF Intermediate, Worker
  <2> QED
    BY <2>1, <2>2
<1> QED
  BY <1>2, <1>3

\* What a step may name that nothing is served for yet.
Nameable == InPackage(dependencies \cup styles) \cup {Config}

LEMMA FilesGenerated ==
  ASSUME Numbered, packageFolder # Unknown,
         BuildServiceWorker \/ GenerateScript \/ GenerateIndexHtml \/ GenerateConfig
  PROVE  /\ Numbered'
         /\ Assets \subseteq Assets' /\ Assets' \subseteq Assets \cup Generated(next)
         /\ urls' \subseteq urls \cup Nameable \cup Served'
         /\ next = "GenerateConfig" => Config \in Served'
<1>1. CASE BuildServiceWorker
  <2>1. PICK a : a = Asset(Intermediate("service-worker.js"), "Root", "service-worker.js")
    OBVIOUS
  <2>2. UNCHANGED content \/ AddStaticAssets(<<a>>)
    BY <1>1, <2>1 DEF BuildServiceWorker
  <2>3. Numbered' /\ (Assets' = Assets \/ Assets' = Assets \cup {a})
    BY <2>2, OneMore DEF content, Assets, Numbered
  <2>4. next = "BuildServiceWorker" /\ urls' \subseteq urls \cup {Config}
    BY <1>1 DEF BuildServiceWorker
  <2> QED
    BY <2>1, <2>3, <2>4 DEF Generated, Nameable
<1>2. CASE GenerateScript
  <2>1. PICK a, b, c : a = RootFile("embedded.js") /\ b = RootFile("worker.js")
                       /\ c = RootFile("index.html")
    OBVIOUS
  <2>2. UNCHANGED content \/ AddStaticAssets(<<a, c>>) \/ AddStaticAssets(<<b, c>>)
    BY <1>2, <2>1 DEF GenerateScript
  <2>3. Numbered' /\ (Assets' = Assets \/ Assets' = Assets \cup {a, c}
                      \/ Assets' = Assets \cup {b, c})
    BY <2>2, TwoMore DEF content, Assets, Numbered
  <2>4. next = "GeneratePage" /\ {a, b, c} \subseteq Generated(next)
    BY <1>2, <2>1 DEF GenerateScript, Generated
  <2>5. Url(a) = <<Root, "embedded.js">> /\ Url(b) = <<Root, "worker.js">>
    BY <2>1 DEF RootFile, Asset, Url
  <2>6. CASE AddStaticAssets(<<a, c>>) /\ project.shell = "BrowserEmbedded"
    <3>1. Assets' = Assets \cup {a, c}
      BY <2>6, TwoMore
    <3>2. urls' = urls \cup {Config, Url(a)} \cup InPackage(styles)
      BY <1>2, <2>5, <2>6 DEF GenerateScript
    <3>3. urls' \subseteq urls \cup Nameable \cup Served'
      BY <3>1, <3>2 DEF Served, InPackage, Nameable
    <3> QED
      BY <2>3, <2>4, <3>3
  <2>7. CASE AddStaticAssets(<<b, c>>) /\ project.shell = "WebWorker" /\ project.validName
    <3>1. Assets' = Assets \cup {b, c}
      BY <2>7, TwoMore
    <3>2. urls' = urls \cup {Config, Url(b)}
      BY <1>2, <2>5, <2>7 DEF GenerateScript
    <3>3. urls' \subseteq urls \cup Nameable \cup Served'
      BY <3>1, <3>2 DEF Served, InPackage, Nameable
    <3> QED
      BY <2>3, <2>4, <3>3
  <2>8. CASE UNCHANGED urls
    BY <2>3, <2>4, <2>8
  <2> QED
    BY <1>2, <2>1, <2>6, <2>7, <2>8 DEF GenerateScript
<1>3. CASE GenerateIndexHtml
  <2>1. PICK a, b : a = RootFile("manifest.json") /\ b = RootFile("index.html")
    OBVIOUS
  <2>2. AddStaticAssets(<<a, b>>) \/ AddStaticAssets(<<b>>)
    BY <1>3, <2>1 DEF GenerateIndexHtml
  <2>3. Numbered' /\ (Assets' = Assets \cup {a, b} \/ Assets' = Assets \cup {b})
    BY <2>2, OneMore, TwoMore
  <2>4. next = "GeneratePage" /\ {a, b} \subseteq Generated(next)
    BY <1>3, <2>1 DEF GenerateIndexHtml, Generated
  <2>5. Url(a) = <<Root, "manifest.json">>
    BY <2>1 DEF RootFile, Asset, Url
  <2>6. CASE project.pwa
    <3>1. AddStaticAssets(<<a, b>>)
      BY <1>3, <2>1, <2>6 DEF GenerateIndexHtml
    <3>2. Assets' = Assets \cup {a, b}
      BY <3>1, TwoMore
    <3>3. urls' = urls \cup InPackage(styles) \cup {Url(a)}
      BY <1>3, <2>5, <2>6 DEF GenerateIndexHtml
    <3>4. urls' \subseteq urls \cup Nameable \cup Served'
      BY <3>2, <3>3 DEF Served, InPackage, Nameable
    <3> QED
      BY <2>3, <2>4, <3>4
  <2>7. CASE ~project.pwa
    <3>1. urls' = urls \cup InPackage(styles)
      BY <1>3, <2>7 DEF GenerateIndexHtml
    <3>2. urls' \subseteq urls \cup Nameable \cup Served'
      BY <3>1 DEF InPackage, Nameable
    <3> QED
      BY <2>3, <2>4, <3>2
  <2> QED
    BY <2>6, <2>7
<1>4. CASE GenerateConfig
  <2>1. PICK a : a = Asset(Intermediate("uno-config.js"), "Package", "uno-config.js")
    OBVIOUS
  <2>2. AddStaticAssets(<<a>>)
    BY <1>4, <2>1 DEF GenerateConfig
  <2>3. Numbered' /\ Assets' = Assets \cup {a}
    BY <2>2, OneMore
  <2>4. next = "GenerateConfig" /\ Generated(next) = {a}
    BY <1>4, <2>1 DEF GenerateConfig, Generated
  <2>5. Url(a) = Config
    BY <2>1 DEF Asset, Url, Config
  <2>6. Config \in Served'
    BY <2>3, <2>5 DEF Served
  <2>7. Served \subseteq Served'
    BY <2>3 DEF Served
  <2>8. urls' \subseteq urls \cup InPackage(dependencies) \cup Served \cup {Config}
    BY <1>4 DEF GenerateConfig, InPackage
  <2>9. InPackage(dependencies) \cup {Config} \subseteq Nameable
    BY DEF InPackage, Nameable
  <2> QED
    BY <2>3, <2>4, <2>6, <2>7, <2>8, <2>9
<1> QED
  BY <1>1, <1>2, <1>3, <1>4

-----------------------------------------------------------------------------
(* Types.  An edited project is a project again.                           *)
LEMMA Edited ==
  ASSUME Typed, Rebuild
  PROVE  /\ IsProject(project')
         /\ project'.existing = project.existing
<1>1. PICK sources \in [DOMAIN project.sources -> Versions],
           versions \in [DOMAIN project.resources -> Versions] :
        project' = [project EXCEPT
                      !.builds = @ - 1,
                      !.sources = sources,
                      !.resources = [k \in DOMAIN @ |-> [@[k] EXCEPT !.version = versions[k]]]]
  BY DEF Rebuild
<1>2. DOMAIN project = {"shell", "pwa", "validName", "builds", "sources", "content",
                        "resources", "embedded", "existing"}
  BY DEF Typed, IsProject
<1>3. /\ DOMAIN project' = DOMAIN project
      /\ project'.content = project.content /\ project'.embedded = project.embedded
      /\ project'.existing = project.existing
      /\ project'.resources =
           [k \in DOMAIN project.resources |->
              [project.resources[k] EXCEPT !.version = versions[k]]]
  BY <1>1, <1>2
<1> DEFINE Resources == [name : STRING, kind : {"js", "css"}, version : Versions]
<1>4. project.resources \in Seq(Resources)
  BY DEF Typed, IsProject
<1>5. PICK n \in Nat : project.resources \in [1..n -> Resources]
  <2> HIDE DEF Resources
  <2>1. project.resources \in [1..Len(project.resources) -> Resources]
    BY <1>4
  <2> QED
    BY <1>4, <2>1
<1>6. ASSUME NEW k \in DOMAIN project.resources
      PROVE  /\ project'.resources[k] \in Resources
             /\ project'.resources[k].name = project.resources[k].name
             /\ project'.resources[k].kind = project.resources[k].kind
  <2>1. project.resources[k] \in Resources /\ versions[k] \in Versions
    BY <1>5
  <2>2. project'.resources[k] = [project.resources[k] EXCEPT !.version = versions[k]]
    BY <1>3
  <2> QED
    BY <2>1, <2>2
<1>7. DOMAIN project'.resources = 1..n /\ DOMAIN project.resources = 1..n
  BY <1>3, <1>5
<1>8. project'.resources \in Seq(Resources)
  <2>1. project'.resources = [k \in 1..n |-> project'.resources[k]]
    BY <1>3, <1>7
  <2>2. \A k \in 1..n : project'.resources[k] \in Resources
    BY <1>6, <1>7
  <2> HIDE DEF Resources
  <2> QED
    BY <2>1, <2>2
<1>9. /\ DOMAIN project' = {"shell", "pwa", "validName", "builds", "sources", "content",
                            "resources", "embedded", "existing"}
      /\ \A k \in DOMAIN project'.resources :
           /\ project'.resources[k].name \notin {"uno-config.js", "service-worker.js"}
           /\ \A j \in DOMAIN project'.resources :
                project'.resources[j].name = project'.resources[k].name =>
                  project'.resources[j].kind = project'.resources[k].kind
  <2>1. \A k \in DOMAIN project.resources :
          /\ project.resources[k].name \notin {"uno-config.js", "service-worker.js"}
          /\ \A j \in DOMAIN project.resources :
               project.resources[j].name = project.resources[k].name =>
                 project.resources[j].kind = project.resources[k].kind
    BY DEF Typed, IsProject
  <2>2. DOMAIN project'.resources = DOMAIN project.resources
    BY <1>7
  <2>3. \A k \in DOMAIN project.resources :
          /\ project'.resources[k].name = project.resources[k].name
          /\ project'.resources[k].kind = project.resources[k].kind
    BY <1>6
  <2>4. DOMAIN project' = {"shell", "pwa", "validName", "builds", "sources", "content",
                          "resources", "embedded", "existing"}
    BY <1>2, <1>3
  <2> QED
    BY <2>1, <2>2, <2>3, <2>4
<1>10. /\ project.content
           \in Seq([place : STRING, name : STRING, excluded : BOOLEAN, uno_deploy : STRING])
       /\ project.embedded \in Seq([name : STRING, kind : {"js", "css"}, place : STRING])
       /\ \A k \in DOMAIN project.content : project.content[k].place # "obj"
       /\ \A k \in DOMAIN project.embedded :
            project.embedded[k].place \notin {"obj", "wwwroot"}
       /\ \A file \in project.existing : file[1] = "wwwroot"
  BY DEF Typed, IsProject
<1> QED
  BY <1>3, <1>8, <1>9, <1>10 DEF IsProject

\* The folder of a package has a name of its own.
LEMMA FolderNamed == Hash # Unknown
<1>1. Len(Unknown) = 0 /\ Len(Hash) = 2
  BY DEF Unknown, Hash, HashOf
<1> QED
  BY <1>1

LEMMA TypedInitially == Init => Typed
<1> SUFFICES ASSUME Init PROVE Typed
  OBVIOUS
<1>1. DOMAIN assets = {} /\ Assets = {}
  BY DEF Init, Assets
<1> QED
  BY <1>1, ProjectsAssumption DEF Init, Typed, Numbered, Steps, Collecting

\* Only records are added, and the folder is named in one step.
LEMMA TypedStep == Typed /\ [Next]_vars => Typed'
<1> SUFFICES ASSUME Typed, [Next]_vars PROVE Typed'
  OBVIOUS
<1> USE DEF Typed, Steps, Collecting, Describing, Extracting
<1> DEFINE IsRecord(a) == a = [file |-> a.file, name |-> a.name, folder |-> a.folder]
<1>1. \A file, mode, name : IsRecord(Asset(file, mode, name))
  BY DEF Asset
<1>2. CASE CopyContent
  <2>1. \A a \in Assets' : IsRecord(a)
    BY <1>1, <1>2, ContentCopied
  <2> QED
    BY <1>2, <2>1, ContentCopied DEF CopyContent, inputs
<1>3. CASE ExtractResource
  <2>1. \A a \in Assets' : IsRecord(a)
    BY <1>1, <1>3, ResourceExtracted
  <2> QED
    BY <1>3, <2>1, ResourceExtracted DEF ExtractResource, inputs
<1>4. CASE ExtractEmbedded
  <2>1. \A a \in Assets' : IsRecord(a)
    BY <1>1, <1>4, EmbeddedExtracted
  <2> QED
    BY <1>4, <2>1, EmbeddedExtracted DEF ExtractEmbedded, inputs
<1>5. CASE EndOfLoop
  BY <1>5 DEF EndOfLoop, LoopEnds, inputs, content, Numbered, Assets
<1>6. CASE RemoveDuplicateAssets
  BY <1>6, DuplicatesRemoved DEF RemoveDuplicateAssets, inputs
<1>7. CASE GeneratePackageFolder
  <2>1. \A a \in Assets : IsRecord(Linked(a, packageFolder'))
    BY DEF Linked
  <2> QED
    BY <1>7, <2>1, FolderGenerated, FolderNamed DEF GeneratePackageFolder, inputs
<1>8. CASE BuildServiceWorker \/ GenerateScript \/ GenerateIndexHtml \/ GenerateConfig
  <2>1. next \in Describing /\ next' \in Steps \ Collecting
    BY <1>8 DEF BuildServiceWorker, GenerateScript, GenerateIndexHtml, GenerateConfig
  <2>2. UNCHANGED <<project, at, packageFolder>>
    BY <1>8 DEF BuildServiceWorker, GenerateScript, GenerateIndexHtml, GenerateConfig, inputs
  <2>3. \A a \in Generated(next) : IsRecord(a)
    BY <2>1, GeneratedFiles
  <2>4. Numbered' /\ \A a \in Assets' : IsRecord(a)
    BY <1>8, <2>1, <2>3, FilesGenerated
  <2> QED
    BY <2>1, <2>2, <2>4
<1>9. CASE Rebuild
  <2>1. IsProject(project')
    BY <1>9, Edited
  <2>2. DOMAIN assets' = {} /\ Assets' = {}
    BY <1>9 DEF Rebuild, Assets
  <2> QED
    BY <1>9, <2>1, <2>2 DEF Rebuild, Numbered
<1>10. CASE UNCHANGED vars
  BY <1>10 DEF vars, inputs, content, Numbered, Assets
<1> QED
  BY <1>2, <1>3, <1>4, <1>5, <1>6, <1>7, <1>8, <1>9, <1>10 DEF Next

-----------------------------------------------------------------------------
(* Names keep their assets.  First, what every step leaves alone.          *)
LEMMA NamesKept ==
  ASSUME NamesHeld, UNCHANGED <<names, project>>, FolderNow' = FolderNow,
         \A a \in Assets : (\E name : Holds(a, name)) => a \in Assets'
  PROVE  NamesHeld'
<1>1. \A a, name : Holds(a, name) => Holds(a, name)'
  BY DEF Holds
<1> QED
  BY <1>1 DEF NamesHeld, names

\* An asset of the package, made before the folder has its name.
LEMMA NameAdded ==
  ASSUME Typed, next \in Collecting, NEW place, place # "wwwroot", NEW name
  PROVE  Holds(Asset(Source(place, name), "Package", name), name)
<1>1. PICK file : file = Source(place, name)
  OBVIOUS
<1>2. file[1] = place /\ file[2] = name
  BY <1>1 DEF Source
<1>3. file \notin project.existing
  BY <1>2 DEF Typed, IsProject
<1>4. packageFolder = Unknown
  BY DEF Typed
<1>5. Asset(file, "Package", name) = [file |-> file, name |-> name, folder |-> PackageTag]
  BY <1>4 DEF Asset
<1> QED
  BY <1>1, <1>2, <1>3, <1>5 DEF Holds, FolderNow

LEMMA NamesStep == Typed /\ NamesHeld /\ [Next]_vars => NamesHeld'
<1> SUFFICES ASSUME Typed, NamesHeld, [Next]_vars PROVE NamesHeld'
  OBVIOUS
<1>0. Numbered
  BY DEF Typed
<1>1. CASE CopyContent
  <2>1. UNCHANGED <<names, project, next, packageFolder>>
    BY <1>1 DEF CopyContent, inputs
  <2>2. Assets \subseteq Assets'
    BY <1>0, <1>1, ContentCopied
  <2> QED
    BY <2>1, <2>2, NamesKept DEF FolderNow
<1>2. CASE ExtractResource
  <2>1. PICK r : r = project.resources[at]
    OBVIOUS
  <2>2. UNCHANGED <<project, next, packageFolder>> /\ next \in Collecting
    BY <1>2 DEF ExtractResource, inputs, Collecting, Extracting
  <2>3. CASE ~Extracted(r)
    <3>1. UNCHANGED names /\ Assets' = Assets
      BY <1>0, <1>2, <2>1, <2>3, ResourceExtracted DEF ExtractResource
    <3> QED
      BY <2>2, <3>1, NamesKept DEF FolderNow
  <2>4. CASE Extracted(r)
    <3>1. PICK a : a = Asset(Intermediate(r.name), "Package", r.name)
      OBVIOUS
    <3>2. Assets' = Assets \cup {a}
      BY <1>0, <1>2, <2>1, <2>4, <3>1, ResourceExtracted
    <3>3. dependencies' \cup styles' = dependencies \cup styles \cup {r.name}
      BY <1>2, <2>1, <2>4 DEF ExtractResource, AddName
    <3>4. Holds(a, r.name)
      BY <2>2, <3>1, NameAdded DEF Intermediate, Source
    <3>5. \A b, name : Holds(b, name) => Holds(b, name)'
      BY <2>2 DEF Holds, FolderNow
    <3> QED
      BY <3>2, <3>3, <3>4, <3>5 DEF NamesHeld
  <2> QED
    BY <2>3, <2>4
<1>3. CASE ExtractEmbedded
  <2>1. PICK e : e = project.embedded[at]
    OBVIOUS
  <2>2. UNCHANGED <<project, next, packageFolder>> /\ next \in Collecting
    BY <1>3 DEF ExtractEmbedded, inputs, Collecting, Extracting
  <2>3. CASE e.kind # Kind
    <3>1. UNCHANGED names /\ Assets' = Assets
      BY <1>0, <1>3, <2>1, <2>3, EmbeddedExtracted DEF ExtractEmbedded
    <3> QED
      BY <2>2, <3>1, NamesKept DEF FolderNow
  <2>4. CASE e.kind = Kind
    <3>1. PICK a : a = Asset(Source(e.place, e.name), "Package", e.name)
      OBVIOUS
    <3>2. PICK file : file = Source(e.place, e.name)
      OBVIOUS
    <3>3. Assets' = {b \in Assets : b.file # file} \cup {a}
      BY <1>0, <1>3, <2>1, <2>4, <3>1, <3>2, EmbeddedExtracted
    <3>4. dependencies' \cup styles' = dependencies \cup styles \cup {e.name}
      BY <1>3, <2>1, <2>4 DEF ExtractEmbedded, AddName
    <3>5. e.place # "wwwroot"
      BY <1>3, <2>1 DEF ExtractEmbedded, Typed, IsProject
    <3>6. Holds(a, e.name)
      BY <2>2, <3>1, <3>5, NameAdded
    <3>7. \A b, name : Holds(b, name) => Holds(b, name)'
      BY <2>2 DEF Holds, FolderNow
    <3>8. ASSUME NEW name \in dependencies \cup styles
          PROVE  \E b \in Assets' : Holds(b, name)
      <4>1. PICK b \in Assets : Holds(b, name)
        BY DEF NamesHeld
      <4>2. CASE b.file # file
        BY <3>3, <4>1, <4>2
      <4>3. CASE b.file = file
        <5>1. name = e.name
          BY <3>2, <4>1, <4>3 DEF Holds, Source
        <5> QED
          BY <3>3, <3>6, <5>1
      <4> QED
        BY <4>2, <4>3
    <3> QED
      BY <3>3, <3>4, <3>6, <3>7, <3>8 DEF NamesHeld
  <2> QED
    BY <2>3, <2>4
<1>4. CASE EndOfLoop
  <2>1. UNCHANGED <<names, project, assets>> /\ next \in Collecting /\ next' \in Collecting
    BY <1>4 DEF EndOfLoop, LoopEnds, inputs, content, Collecting, Extracting
  <2> QED
    BY <2>1, NamesKept DEF FolderNow, Assets
<1>5. CASE RemoveDuplicateAssets
  <2>1. /\ UNCHANGED <<names, project, packageFolder>>
        /\ next \in Collecting <=> next' \in Collecting
    BY <1>5 DEF RemoveDuplicateAssets, inputs, Collecting, Extracting
  <2>2. \A a \in Assets : (\E name : Holds(a, name)) => a \in Assets'
    BY <1>0, <1>5, DuplicatesRemoved DEF Holds, NotExisting
  <2> QED
    BY <2>1, <2>2, NamesKept DEF FolderNow
<1>6. CASE GeneratePackageFolder
  <2>1. /\ UNCHANGED <<names, project>>
        /\ next \in Collecting /\ next' \notin Collecting
    BY <1>6 DEF GeneratePackageFolder, inputs, Collecting, Extracting
  <2>2. ASSUME NEW a \in Assets, NEW name, Holds(a, name)
        PROVE  \E b \in Assets' : Holds(b, name)'
    <3>1. a = [file |-> a.file, name |-> a.name, folder |-> a.folder] /\ a.folder = PackageTag
      BY <2>1, <2>2 DEF Typed, Holds, FolderNow
    <3>2. PICK b : b = Linked(a, packageFolder')
      OBVIOUS
    <3>3. b = [file |-> a.file, name |-> a.name, folder |-> packageFolder']
      BY <3>1, <3>2 DEF Linked
    <3>4. b \in Assets'
      BY <1>0, <1>6, <3>2, FolderGenerated
    <3>5. Holds(b, name)'
      BY <2>1, <2>2, <3>3 DEF Holds, FolderNow
    <3> QED
      BY <3>4, <3>5
  <2>3. \A name \in dependencies \cup styles : \E b \in Assets' : Holds(b, name)'
    BY <2>2 DEF NamesHeld
  <2> QED
    BY <2>1, <2>3 DEF NamesHeld, names
<1>7. CASE BuildServiceWorker \/ GenerateScript \/ GenerateIndexHtml \/ GenerateConfig
  <2>1. /\ UNCHANGED <<names, project, packageFolder>>
        /\ next \notin Collecting /\ next' \notin Collecting
    BY <1>7 DEF BuildServiceWorker, GenerateScript, GenerateIndexHtml, GenerateConfig, inputs,
                Collecting, Extracting
  <2>2. Assets \subseteq Assets'
    BY <1>0, <1>7, <2>1, FilesGenerated DEF Typed
  <2> QED
    BY <2>1, <2>2, NamesKept DEF FolderNow
<1>8. CASE Rebuild
  BY <1>8 DEF Rebuild, NamesHeld
<1>9. CASE UNCHANGED vars
  BY <1>9, NamesKept DEF vars, inputs, content, FolderNow, Assets
<1> QED
  BY <1>1, <1>2, <1>3, <1>4, <1>5, <1>6, <1>7, <1>8, <1>9 DEF Next

-----------------------------------------------------------------------------
(* After the first removal no duplicate is added.                          *)
LEMMA RemovedStep == Typed /\ RemovedOnce /\ [Next]_vars => RemovedOnce'
<1> SUFFICES ASSUME Typed, RemovedOnce, [Next]_vars PROVE RemovedOnce'
  OBVIOUS
<1> DEFINE Before == {"CopyContent", "RemoveDuplicates"} \cup Extracting
<1>0. Numbered
  BY DEF Typed
<1>1. CASE CopyContent \/ ExtractResource \/ ExtractEmbedded \/ EndOfLoop \/ Rebuild
  <2>1. next' \in Before
    BY <1>1 DEF CopyContent, ExtractResource, ExtractEmbedded, EndOfLoop, LoopEnds, Rebuild,
                Extracting
  <2> QED
    BY <2>1 DEF RemovedOnce
<1>2. CASE RemoveDuplicateAssets
  <2>1. UNCHANGED project
    BY <1>2 DEF RemoveDuplicateAssets, inputs
  <2>2. \A a \in Assets' : NotExisting(a)
    BY <1>0, <1>2, DuplicatesRemoved
  <2> QED
    BY <2>1, <2>2 DEF RemovedOnce, NotExisting
<1>3. CASE GeneratePackageFolder
  <2>1. UNCHANGED project /\ next \notin Before
    BY <1>3 DEF GeneratePackageFolder, inputs, Extracting
  <2>2. ASSUME NEW b \in Assets' PROVE NotExisting(b)
    <3>1. PICK a \in Assets : b = Linked(a, packageFolder')
      BY <1>0, <1>3, FolderGenerated
    <3>2. b.file = a.file
      BY <3>1 DEF Linked, Typed
    <3> QED
      BY <2>1, <3>2 DEF RemovedOnce, NotExisting
  <2> QED
    BY <2>1, <2>2 DEF RemovedOnce, NotExisting
<1>4. CASE BuildServiceWorker \/ GenerateScript \/ GenerateIndexHtml \/ GenerateConfig
  <2>1. UNCHANGED project /\ next \in Describing /\ next \notin Before
    BY <1>4 DEF BuildServiceWorker, GenerateScript, GenerateIndexHtml, GenerateConfig, inputs,
                Describing, Extracting
  <2>2. packageFolder # Unknown
    BY <2>1 DEF Typed, Collecting, Describing, Extracting
  <2>3. \A a \in Generated(next) : NotExisting(a)
    BY <2>1, GeneratedFiles DEF NotExisting, Typed, IsProject
  <2>4. \A a \in Assets' : NotExisting(a)
    BY <1>0, <1>4, <2>1, <2>2, <2>3, FilesGenerated DEF RemovedOnce
  <2> QED
    BY <2>1, <2>4 DEF RemovedOnce, NotExisting
<1>5. CASE UNCHANGED vars
  BY <1>5 DEF vars, inputs, content, Assets, RemovedOnce, NotExisting
<1> QED
  BY <1>1, <1>2, <1>3, <1>4, <1>5 DEF Next

\* What is named is served, but for the configuration, which is written last.
LEMMA UrlsStep ==
  Typed /\ NamesHeld /\ RemovedOnce /\ UrlsKnown /\ [Next]_vars => UrlsKnown'
<1> SUFFICES ASSUME Typed, NamesHeld, RemovedOnce, UrlsKnown, [Next]_vars PROVE UrlsKnown'
  OBVIOUS
<1> DEFINE After == Describing \cup {"RemoveDuplicatesAgain", "done"}
<1>0. Numbered
  BY DEF Typed
<1>1. CASE CopyContent \/ ExtractResource \/ ExtractEmbedded \/ EndOfLoop \/ Rebuild
  <2>1. next' \in Collecting
    BY <1>1 DEF CopyContent, ExtractResource, ExtractEmbedded, EndOfLoop, LoopEnds, Rebuild,
                Collecting, Extracting
  <2>2. next' \notin After
    BY <2>1 DEF Collecting, Describing, Extracting
  <2> QED
    BY <2>2 DEF UrlsKnown
<1>2. CASE RemoveDuplicateAssets
  <2>1. CASE next = "RemoveDuplicates"
    BY <1>2, <2>1 DEF RemoveDuplicateAssets, UrlsKnown, Describing
  <2>2. CASE next = "RemoveDuplicatesAgain"
    <3>1. \A a \in Assets : NotExisting(a)
      BY <2>2 DEF RemovedOnce, Extracting
    <3>2. Assets' = Assets
      BY <1>0, <1>2, <3>1, DuplicatesRemoved
    <3>3. urls' = urls /\ urls \subseteq Served /\ next' = "done"
      BY <1>2, <2>2 DEF RemoveDuplicateAssets, UrlsKnown
    <3> QED
      BY <3>2, <3>3 DEF UrlsKnown, Served, Describing
  <2> QED
    BY <1>2, <2>1, <2>2 DEF RemoveDuplicateAssets
<1>3. CASE GeneratePackageFolder
  <2>1. next' = "BuildServiceWorker" /\ urls' = {}
    BY <1>3 DEF GeneratePackageFolder, Typed, Collecting
  <2> QED
    BY <2>1 DEF UrlsKnown, Describing
<1>4. CASE BuildServiceWorker \/ GenerateScript \/ GenerateIndexHtml \/ GenerateConfig
  <2>1. UNCHANGED packageFolder /\ next \in Describing
    BY <1>4 DEF BuildServiceWorker, GenerateScript, GenerateIndexHtml, GenerateConfig, inputs,
                Describing
  <2>2. packageFolder # Unknown /\ FolderNow = packageFolder
    BY <2>1 DEF Typed, Collecting, Describing, Extracting, FolderNow
  <2>3. /\ Assets \subseteq Assets' /\ urls' \subseteq urls \cup Nameable \cup Served'
        /\ next = "GenerateConfig" => Config \in Served'
    BY <1>0, <1>4, <2>2, FilesGenerated
  <2>4. Served \subseteq Served'
    BY <2>3 DEF Served
  <2>5. InPackage(dependencies \cup styles) \subseteq Served
    <3>1. ASSUME NEW name \in dependencies \cup styles
          PROVE  <<packageFolder, name>> \in Served
      <4>1. PICK a \in Assets : Holds(a, name)
        BY DEF NamesHeld
      <4> QED
        BY <2>2, <4>1 DEF Holds, Served, Url
    <3> QED
      BY <3>1 DEF InPackage
  <2>6. urls \subseteq Served \cup {Config}
    BY <2>1 DEF UrlsKnown
  <2>7. urls' \subseteq Served' \cup {Config} /\ Config' = Config
    BY <2>1, <2>3, <2>4, <2>5, <2>6 DEF Nameable, Config
  <2>8. CASE next = "GenerateConfig"
    BY <2>3, <2>7, <2>8 DEF UrlsKnown
  <2>9. CASE next # "GenerateConfig"
    <3>1. next' \notin {"RemoveDuplicatesAgain", "done"}
      BY <1>4, <2>9 DEF BuildServiceWorker, GenerateScript, GenerateIndexHtml, GenerateConfig
    <3> QED
      BY <2>7, <3>1 DEF UrlsKnown
  <2> QED
    BY <2>8, <2>9
<1>5. CASE UNCHANGED vars
  BY <1>5 DEF vars, content, Assets, UrlsKnown, Served, Config
<1> QED
  BY <1>1, <1>2, <1>3, <1>4, <1>5 DEF Next

(* Names keep their assets in every build.                                 *)
THEOREM UrlsInvariant == Spec => []UrlsInv
<1>1. Init => UrlsInv
  <2> SUFFICES ASSUME Init PROVE NamesHeld /\ RemovedOnce /\ UrlsKnown
    BY TypedInitially DEF UrlsInv
  <2> QED
    BY DEF Init, NamesHeld, RemovedOnce, UrlsKnown, Describing
<1>2. UrlsInv /\ [Next]_vars => UrlsInv'
  BY TypedStep, NamesStep, RemovedStep, UrlsStep DEF UrlsInv
<1> QED
  BY <1>1, <1>2, PTL DEF Spec

(* Whatever is built, every URL the generated files name is served: names  *)
(* keep their assets, and nothing that is named is removed after.          *)
THEOREM UrlsAreServed == Spec => []UrlsServed
<1>1. UrlsInv => UrlsServed
  BY DEF UrlsInv, UrlsKnown, UrlsServed
<1> QED
  BY <1>1, UrlsInvariant, PTL

-----------------------------------------------------------------------------
(* The entry point of workers never becomes an asset.                      *)
LEMMA WorkerStep == Typed /\ WorkerPassedOver /\ [Next]_vars => WorkerPassedOver'
<1> SUFFICES ASSUME Typed, WorkerPassedOver, [Next]_vars PROVE WorkerPassedOver'
  OBVIOUS
<1>0. Numbered
  BY DEF Typed
<1>a. \A place, name :
        place # "obj" \/ name # Worker => Source(place, name) # Intermediate(Worker)
  <2> SUFFICES ASSUME NEW place, NEW name, place # "obj" \/ name # Worker
               PROVE  Source(place, name) # Intermediate(Worker)
    OBVIOUS
  <2>1. Source(place, name)[1] = place /\ Source(place, name)[2] = name
    BY DEF Source
  <2>2. Intermediate(Worker)[1] = "obj" /\ Intermediate(Worker)[2] = Worker
    BY DEF Intermediate
  <2> QED
    BY <2>1, <2>2
<1>1. CASE CopyContent
  <2>1. PICK c : c = project.content[at]
    OBVIOUS
  <2>2. c.place # "obj"
    BY <1>1, <2>1 DEF CopyContent, Typed, IsProject
  <2>3. Source(c.place, c.name) # Intermediate(Worker)
    BY <1>a, <2>2
  <2>4. Asset(Source(c.place, c.name), DeployMode(c), SitePath(c)).file # Intermediate(Worker)
    BY <2>3 DEF Asset
  <2> QED
    BY <1>0, <1>1, <2>1, <2>4, ContentCopied DEF WorkerPassedOver
<1>2. CASE ExtractResource
  <2>1. PICK r : r = project.resources[at]
    OBVIOUS
  <2>2. Extracted(r) => Intermediate(r.name) # Intermediate(Worker)
    BY <1>a DEF Extracted, Worker, Intermediate, Source
  <2>3. Asset(Intermediate(r.name), "Package", r.name).file = Intermediate(r.name)
    BY DEF Asset
  <2> QED
    BY <1>0, <1>2, <2>1, <2>2, <2>3, ResourceExtracted DEF WorkerPassedOver
<1>3. CASE ExtractEmbedded
  <2>1. PICK e : e = project.embedded[at]
    OBVIOUS
  <2>2. e.place # "obj"
    BY <1>3, <2>1 DEF ExtractEmbedded, Typed, IsProject
  <2>3. Source(e.place, e.name) # Intermediate(Worker)
    BY <1>a, <2>2
  <2>4. Asset(Source(e.place, e.name), "Package", e.name).file # Intermediate(Worker)
    BY <2>3 DEF Asset
  <2> QED
    BY <1>0, <1>3, <2>1, <2>4, EmbeddedExtracted DEF WorkerPassedOver
<1>4. CASE EndOfLoop
  BY <1>4 DEF EndOfLoop, LoopEnds, content, Assets, WorkerPassedOver
<1>5. CASE RemoveDuplicateAssets
  BY <1>0, <1>5, DuplicatesRemoved DEF WorkerPassedOver
<1>6. CASE GeneratePackageFolder
  <2>1. ASSUME NEW b \in Assets' PROVE b.file # Intermediate(Worker)
    <3>1. PICK a \in Assets : b = Linked(a, packageFolder')
      BY <1>0, <1>6, FolderGenerated
    <3>2. b.file = a.file
      BY <3>1 DEF Linked, Typed
    <3> QED
      BY <3>2 DEF WorkerPassedOver
  <2> QED
    BY <2>1 DEF WorkerPassedOver
<1>7. CASE BuildServiceWorker \/ GenerateScript \/ GenerateIndexHtml \/ GenerateConfig
  <2>1. next \in Describing
    BY <1>7 DEF BuildServiceWorker, GenerateScript, GenerateIndexHtml, GenerateConfig,
                Describing
  <2>2. packageFolder # Unknown
    BY <2>1 DEF Typed, Collecting, Describing, Extracting
  <2>3. \A a \in Generated(next) : a.file # Intermediate(Worker)
    BY <2>1, GeneratedFiles
  <2> QED
    BY <1>0, <1>7, <2>2, <2>3, FilesGenerated DEF WorkerPassedOver
<1>8. CASE Rebuild
  BY <1>8 DEF Rebuild, Assets, WorkerPassedOver
<1>9. CASE UNCHANGED vars
  BY <1>9 DEF vars, content, Assets, WorkerPassedOver
<1> QED
  BY <1>1, <1>2, <1>3, <1>4, <1>5, <1>6, <1>7, <1>8, <1>9 DEF Next

\* What writing a file changes in the intermediate folder.
LEMMA Written ==
  ASSUME NEW file, NEW version, Write(file, version)
  PROVE  /\ file \in DOMAIN disk' /\ disk'[file] = version
         /\ \A f \in DOMAIN disk : f # file => f \in DOMAIN disk' /\ disk'[f] = disk[f]
BY DEF Write

LEMMA NamesDiffer ==
  ASSUME NEW m, NEW n, m # n
  PROVE  Intermediate(m) # Intermediate(n)
<1>1. Intermediate(m)[2] = m /\ Intermediate(n)[2] = n
  BY DEF Intermediate
<1> QED
  BY <1>1

\* A step that extracts no resource and writes no file named like one.
LEMMA DiskKept ==
  ASSUME NewestOnDisk, UNCHANGED project,
         \A k \in DOMAIN project.resources :
           /\ Copied(k)' <=> Copied(k)
           /\ LET file == Intermediate(project.resources[k].name)
              IN  file \in DOMAIN disk => file \in DOMAIN disk' /\ disk'[file] = disk[file]
  PROVE  NewestOnDisk'
<1> SUFFICES ASSUME NEW k \in DOMAIN project.resources, Copied(k),
                    \A j \in DOMAIN project.resources :
                      j > k /\ project.resources[j].name = project.resources[k].name
                        => ~Copied(j)
             PROVE  LET r == project.resources[k]
                    IN  /\ Intermediate(r.name) \in DOMAIN disk'
                        /\ disk'[Intermediate(r.name)] = r.version
  BY DEF NewestOnDisk
<1>1. LET r == project.resources[k]
      IN  Intermediate(r.name) \in DOMAIN disk /\ disk[Intermediate(r.name)] = r.version
  BY DEF NewestOnDisk
<1> QED
  BY <1>1

\* What is known of the resources of a project.
LEMMA ResourcesOf ==
  ASSUME Typed
  PROVE  /\ Len(project.resources) \in Nat
         /\ DOMAIN project.resources = 1..Len(project.resources)
         /\ \A k \in DOMAIN project.resources :
              /\ project.resources[k].kind \in {"js", "css"}
              /\ project.resources[k].name \notin {"uno-config.js", "service-worker.js"}
              /\ \A j \in DOMAIN project.resources :
                   project.resources[j].name = project.resources[k].name =>
                     project.resources[j].kind = project.resources[k].kind
<1> DEFINE Resources == [name : STRING, kind : {"js", "css"}, version : Versions]
<1>1. project.resources \in Seq(Resources)
  BY DEF Typed, IsProject
<1>2. /\ Len(project.resources) \in Nat
      /\ DOMAIN project.resources = 1..Len(project.resources)
  BY <1>1
<1>3. \A k \in DOMAIN project.resources : project.resources[k] \in Resources
  <2> HIDE DEF Resources
  <2> QED
    BY <1>1
<1>4. \A k \in DOMAIN project.resources :
        /\ project.resources[k].name \notin {"uno-config.js", "service-worker.js"}
        /\ \A j \in DOMAIN project.resources :
             project.resources[j].name = project.resources[k].name =>
               project.resources[j].kind = project.resources[k].kind
  BY DEF Typed, IsProject
<1> QED
  BY <1>2, <1>3, <1>4

LEMMA ResourceStep ==
  ASSUME Typed, NewestOnDisk, ExtractResource
  PROVE  NewestOnDisk'
<1>1. PICK i, r : i = at /\ r = project.resources[i]
  OBVIOUS
<1>2. /\ UNCHANGED <<project, next>> /\ at' = i + 1 /\ i \in DOMAIN project.resources
      /\ next \in {"ResourcesJS", "ResourcesCSS"}
  BY <1>1 DEF ExtractResource, inputs
<1>3. /\ i \in Nat /\ DOMAIN project.resources \subseteq Nat
      /\ \A k \in DOMAIN project.resources :
           /\ project.resources[k].kind \in {"js", "css"}
           /\ project.resources[k].name = r.name => project.resources[k].kind = r.kind
  BY <1>1, <1>2, ResourcesOf
<1>4. \A k \in DOMAIN project.resources :
        Copied(k)' <=> Copied(k) \/ (k = i /\ Extracted(r))
  BY <1>1, <1>2, <1>3 DEF Copied, Extracted, Kind, Worker
<1>5. CASE ~Extracted(r)
  <2>1. UNCHANGED disk
    BY <1>1, <1>5 DEF ExtractResource
  <2> QED
    BY <1>2, <1>4, <1>5, <2>1, DiskKept
<1>6. CASE Extracted(r)
  <2>1. PICK file : file = Intermediate(r.name)
    OBVIOUS
  <2>2. Write(file, r.version)
    BY <1>1, <1>6, <2>1 DEF ExtractResource, CopyResource
  <2>3. /\ file \in DOMAIN disk' /\ disk'[file] = r.version
        /\ \A f \in DOMAIN disk : f # file => f \in DOMAIN disk' /\ disk'[f] = disk[f]
    BY <2>2, Written
  <2> SUFFICES ASSUME NEW k \in DOMAIN project.resources, Copied(k)',
                      \A j \in DOMAIN project.resources :
                        j > k /\ project.resources[j].name = project.resources[k].name
                          => ~Copied(j)'
               PROVE  LET s == project.resources[k]
                      IN  /\ Intermediate(s.name) \in DOMAIN disk'
                          /\ disk'[Intermediate(s.name)] = s.version
    BY <1>2 DEF NewestOnDisk
  <2>4. CASE k = i
    BY <1>1, <2>1, <2>3, <2>4
  <2>5. CASE k # i
    <3>1. Copied(k)
      BY <1>4, <2>5
    <3>2. project.resources[k].name # r.name
      <4>1. SUFFICES ASSUME project.resources[k].name = r.name PROVE FALSE
        OBVIOUS
      <4>2. k < i
        BY <1>1, <1>2, <1>3, <1>6, <2>5, <3>1, <4>1 DEF Copied, Extracted, Kind
      <4>3. Copied(i)'
        BY <1>2, <1>4, <1>6
      <4> QED
        BY <1>1, <1>2, <1>3, <4>1, <4>2, <4>3
    <3>3. \A j \in DOMAIN project.resources :
            j > k /\ project.resources[j].name = project.resources[k].name => ~Copied(j)
      BY <1>4
    <3>4. LET s == project.resources[k]
          IN  Intermediate(s.name) \in DOMAIN disk /\ disk[Intermediate(s.name)] = s.version
      BY <3>1, <3>3 DEF NewestOnDisk
    <3>5. Intermediate(project.resources[k].name) # file
      BY <2>1, <3>2, NamesDiffer
    <3> QED
      BY <2>3, <3>4, <3>5
  <2> QED
    BY <2>4, <2>5
<1> QED
  BY <1>5, <1>6

LEMMA DiskStep == Typed /\ NewestOnDisk /\ [Next]_vars => NewestOnDisk'
<1> SUFFICES ASSUME Typed, NewestOnDisk, [Next]_vars PROVE NewestOnDisk'
  OBVIOUS
<1>1. CASE CopyContent
  <2>1. UNCHANGED <<project, disk>> /\ \A k : ~Copied(k) /\ ~Copied(k)'
    BY <1>1 DEF CopyContent, inputs, Copied
  <2> QED
    BY <2>1 DEF NewestOnDisk
<1>2. CASE ExtractResource
  BY <1>2, ResourceStep
<1>3. CASE ExtractEmbedded
  <2>1. UNCHANGED <<project, disk, next>> /\ next \in {"EmbeddedJS", "EmbeddedCSS"}
    BY <1>3 DEF ExtractEmbedded, inputs
  <2>2. \A k : Copied(k)' <=> Copied(k)
    BY <2>1 DEF Copied
  <2> QED
    BY <2>1, <2>2, DiskKept
<1>4. CASE EndOfLoop
  <2>1. UNCHANGED <<project, disk>> /\ at' = 1
    BY <1>4 DEF EndOfLoop, LoopEnds, inputs
  <2>2. ASSUME NEW k \in DOMAIN project.resources
        PROVE  Copied(k)' <=> Copied(k)
    <3>1. /\ k \in 1..Len(project.resources) /\ Len(project.resources) \in Nat
          /\ project.resources[k].kind \in {"js", "css"} /\ at \in Nat
      BY ResourcesOf DEF Typed
    <3>2. CASE next = "CopyContent"
      BY <1>4, <2>1, <3>1, <3>2 DEF EndOfLoop, LoopEnds, Copied
    <3>3. CASE next = "ResourcesJS"
      BY <1>4, <2>1, <3>1, <3>3 DEF EndOfLoop, LoopEnds, Copied
    <3>4. CASE next = "EmbeddedJS"
      BY <1>4, <2>1, <3>1, <3>4 DEF EndOfLoop, LoopEnds, Copied
    <3>5. CASE next = "ResourcesCSS"
      BY <1>4, <2>1, <3>1, <3>5 DEF EndOfLoop, LoopEnds, Copied
    <3>6. CASE next = "EmbeddedCSS"
      BY <1>4, <2>1, <3>1, <3>6 DEF EndOfLoop, LoopEnds, Copied
    <3> QED
      BY <1>4, <3>2, <3>3, <3>4, <3>5, <3>6 DEF EndOfLoop, LoopEnds
  <2> QED
    BY <2>1, <2>2, DiskKept
<1>5. CASE RemoveDuplicateAssets \/ GeneratePackageFolder
  <2>1. /\ UNCHANGED <<project, disk>>
        /\ {next, next'} \subseteq {"RemoveDuplicates", "GeneratePackageFolder",
                                   "BuildServiceWorker", "RemoveDuplicatesAgain", "done"}
    BY <1>5 DEF RemoveDuplicateAssets, GeneratePackageFolder, inputs
  <2>2. \A k : Copied(k)' <=> Copied(k)
    BY <2>1 DEF Copied
  <2> QED
    BY <2>1, <2>2, DiskKept
<1>6. CASE BuildServiceWorker \/ GenerateScript \/ GenerateIndexHtml \/ GenerateConfig
  <2>1. /\ UNCHANGED project
        /\ {next, next'} \subseteq Describing \cup {"RemoveDuplicatesAgain", "failed"}
    BY <1>6 DEF BuildServiceWorker, GenerateScript, GenerateIndexHtml, GenerateConfig, inputs,
                Describing
  <2>2. \A k : Copied(k)' <=> Copied(k)
    BY <2>1 DEF Copied, Describing
  <2>3. \/ UNCHANGED disk
        \/ \E name \in {"uno-config.js", "service-worker.js"} : Write(Intermediate(name), 0)
    BY <1>6 DEF BuildServiceWorker, GenerateScript, GenerateIndexHtml, GenerateConfig
  <2>4. ASSUME NEW k \in DOMAIN project.resources
        PROVE  LET file == Intermediate(project.resources[k].name)
               IN  file \in DOMAIN disk => file \in DOMAIN disk' /\ disk'[file] = disk[file]
    <3>1. CASE UNCHANGED disk
      BY <3>1
    <3>2. ASSUME NEW name \in {"uno-config.js", "service-worker.js"},
                 Write(Intermediate(name), 0)
          PROVE  LET file == Intermediate(project.resources[k].name)
                 IN  file \in DOMAIN disk =>
                       file \in DOMAIN disk' /\ disk'[file] = disk[file]
      <4>1. project.resources[k].name # name
        BY ResourcesOf
      <4>2. Intermediate(project.resources[k].name) # Intermediate(name)
        BY <4>1, NamesDiffer
      <4> QED
        BY <3>2, <4>2, Written
    <3> QED
      BY <2>3, <3>1, <3>2
  <2> QED
    BY <2>1, <2>2, <2>4, DiskKept
<1>7. CASE Rebuild
  BY <1>7 DEF Rebuild, NewestOnDisk, Copied
<1>8. CASE UNCHANGED vars
  BY <1>8, DiskKept DEF vars, inputs, Copied
<1> QED
  BY <1>1, <1>2, <1>3, <1>4, <1>5, <1>6, <1>7, <1>8 DEF Next

(* In every build, the first and later ones, of the resources of one name  *)
(* the one of the last assembly is served.                                 *)
THEOREM LastAssemblyIsServed == Spec => []LastAssemblyServed
<1>1. Init => DiskInv
  <2> SUFFICES ASSUME Init PROVE NewestOnDisk /\ WorkerPassedOver
    BY TypedInitially DEF DiskInv
  <2> QED
    BY DEF Init, NewestOnDisk, Copied, WorkerPassedOver, Assets
<1>2. DiskInv /\ [Next]_vars => DiskInv'
  BY TypedStep, DiskStep, WorkerStep DEF DiskInv
<1>3. DiskInv => LastAssemblyServed
  <2> SUFFICES ASSUME DiskInv, next = "done", NEW k \in DOMAIN project.resources,
                      \A j \in DOMAIN project.resources :
                        project.resources[j].name = project.resources[k].name => j <= k,
                      NEW a \in Assets, a.file = Intermediate(project.resources[k].name)
               PROVE  Content(a.file) = project.resources[k].version
    BY DEF LastAssemblyServed, Package
  <2>1. project.resources[k].name # Worker
    BY DEF DiskInv, WorkerPassedOver
  <2>2. Copied(k)
    BY <2>1 DEF Copied
  <2>3. \A j \in DOMAIN project.resources :
          j > k => project.resources[j].name # project.resources[k].name
    BY ResourcesOf DEF DiskInv
  <2>4. /\ Intermediate(project.resources[k].name) \in DOMAIN disk
        /\ disk[Intermediate(project.resources[k].name)] = project.resources[k].version
    BY <2>2, <2>3 DEF DiskInv, NewestOnDisk
  <2> QED
    BY <2>4 DEF Content
<1> QED
  BY <1>1, <1>2, <1>3, PTL DEF Spec

-----------------------------------------------------------------------------
(* What a build collects depends on the names of the project alone: the    *)
(* names, a shape of the state, and the shape after it.                    *)
Names(p) ==
  [content |-> p.content, embedded |-> p.embedded, existing |-> p.existing,
   resources |-> [k \in DOMAIN p.resources |->
                    [name |-> p.resources[k].name, kind |-> p.resources[k].kind]]]

Shape(step, k, count, items) == [next |-> step, at |-> k, added |-> count, assets |-> items]
Now == Shape(next, at, added, assets)

List(c, step) ==
  CASE step = "CopyContent" -> c.content
    [] step \in {"ResourcesJS", "ResourcesCSS"} -> c.resources
    [] OTHER -> c.embedded
Then == [CopyContent |-> "ResourcesJS", ResourcesJS |-> "EmbeddedJS",
         EmbeddedJS |-> "ResourcesCSS", ResourcesCSS |-> "EmbeddedCSS",
         EmbeddedCSS |-> "RemoveDuplicates"]

Item(file, mode, name) ==
  [file |-> file, name |-> name, folder |-> IF mode = "Root" THEN Root ELSE PackageTag]
KindOf(step) == IF step \in {"ResourcesJS", "EmbeddedJS"} THEN "js" ELSE "css"

\* Whether a step adds an item for an element of its list, which one, and what stays.
Adds(step, e) ==
  CASE step = "CopyContent" -> DeployMode(e) # "None"
    [] step \in {"ResourcesJS", "ResourcesCSS"} -> e.kind = KindOf(step) /\ e.name # Worker
    [] OTHER -> e.kind = KindOf(step)
Adding(step, e) ==
  CASE step = "CopyContent" -> Item(Source(e.place, e.name), DeployMode(e), SitePath(e))
    [] step \in {"ResourcesJS", "ResourcesCSS"} -> Item(Intermediate(e.name), "Package", e.name)
    [] OTHER -> Item(Source(e.place, e.name), "Package", e.name)
Keeping(step, e, items) ==
  IF step \in {"EmbeddedJS", "EmbeddedCSS"}
    THEN {n \in DOMAIN items : items[n].file # Adding(step, e).file}
    ELSE DOMAIN items
With(items, kept, count, a) ==
  [n \in kept \cup {count + 1} |-> IF n \in kept THEN items[n] ELSE a]

After(c, s) ==
  IF s.next = "RemoveDuplicates"
    THEN Shape("GeneratePackageFolder", s.at, s.added,
               [n \in {m \in DOMAIN s.assets : s.assets[m].file \notin c.existing} |->
                  s.assets[n]])
  ELSE IF s.at > Len(List(c, s.next)) THEN Shape(Then[s.next], 1, s.added, s.assets)
  ELSE LET e == List(c, s.next)[s.at]
       IN  IF Adds(s.next, e)
             THEN Shape(s.next, s.at + 1, s.added + 1,
                        With(s.assets, Keeping(s.next, e, s.assets), s.added,
                             Adding(s.next, e)))
             ELSE Shape(s.next, s.at + 1, s.added, s.assets)

Path(c, f, m) ==
  /\ f[0] = Shape("CopyContent", 1, 0, <<>>)
  /\ \A k \in 1..m : f[k - 1].next # "GeneratePackageFolder" /\ f[k] = After(c, f[k - 1])
Collected(c, items) ==
  \E m \in Nat : \E f : /\ Path(c, f, m)
                        /\ f[m].next = "GeneratePackageFolder" /\ f[m].assets = items

(* Two paths are the same as far as both go, by the least difference.      *)
LEMMA SamePath ==
  ASSUME NEW c, NEW f, NEW g, NEW m, m \in Nat, Path(c, f, m), Path(c, g, m)
  PROVE  f[m] = g[m]
<1> DEFINE T == {k \in 0..m : f[k] # g[k]}
           R == OpToRel(<, Nat)
<1>1. SUFFICES ASSUME T # {} PROVE FALSE
  BY DEF Path
<1>2. \A j, k \in Nat : j < k => <<j, k>> \in R
  BY DEF OpToRel
<1>3. IsWellFoundedOn(R, Nat)
  BY NatLessThanWellFounded
<1>4. T \subseteq Nat
  OBVIOUS
<1> HIDE DEF R, T
<1>5. PICK k \in T : \A j \in T : ~ (<<j, k>> \in R)
  BY <1>1, <1>3, <1>4, WFMin
<1>6. k \in 0..m /\ f[k] # g[k]
  BY <1>5 DEF T
<1>7. k # 0
  BY <1>6 DEF Path
<1>8. k \in 1..m /\ k - 1 \in 0..m /\ k - 1 \in Nat /\ k \in Nat /\ k - 1 < k
  BY <1>6, <1>7
<1>9. k - 1 \notin T
  BY <1>2, <1>5, <1>8
<1>10. f[k - 1] = g[k - 1]
  BY <1>8, <1>9 DEF T
<1> QED
  BY <1>6, <1>8, <1>10 DEF Path

\* Two builds of the same names collect the same items.
LEMMA CollectedOnce ==
  ASSUME NEW c, NEW A, NEW B, Collected(c, A), Collected(c, B)
  PROVE  A = B
<1>1. PICK m, f : /\ m \in Nat /\ Path(c, f, m)
                 /\ f[m].next = "GeneratePackageFolder" /\ f[m].assets = A
  BY DEF Collected
<1>2. PICK n, g : /\ n \in Nat /\ Path(c, g, n)
                 /\ g[n].next = "GeneratePackageFolder" /\ g[n].assets = B
  BY DEF Collected
<1> DEFINE Ends(h, k) == h[k].next = "GeneratePackageFolder"
<1>3. ASSUME NEW h, NEW i, NEW j \in Nat, NEW k \in Nat, j < k,
             Path(c, h, j), Path(c, i, k), Ends(h, j)
      PROVE  FALSE
  <2>1. Path(c, i, j)
    BY <1>3 DEF Path
  <2>2. h[j] = i[j]
    BY <1>3, <2>1, SamePath
  <2>3. j + 1 \in 1..k /\ (j + 1) - 1 = j
    BY <1>3
  <2> QED
    BY <1>3, <2>2, <2>3 DEF Path
<1>4. m = n
  <2>1. ~ (m < n)
    BY <1>1, <1>2, <1>3
  <2>2. ~ (n < m)
    BY <1>1, <1>2, <1>3
  <2> QED
    BY <1>1, <1>2, <2>1, <2>2
<1>5. f[m] = g[m]
  BY <1>1, <1>2, <1>4, SamePath
<1> QED
  BY <1>1, <1>2, <1>4, <1>5

\* A path that has not ended goes on.
LEMMA OneStepFurther ==
  ASSUME NEW c, NEW s, NEW m, m \in Nat, NEW f, Path(c, f, m), f[m] = s,
         s.next # "GeneratePackageFolder"
  PROVE  \E g : Path(c, g, m + 1) /\ g[m + 1] = After(c, s)
<1> DEFINE g == [k \in 0..(m + 1) |-> IF k = m + 1 THEN After(c, s) ELSE f[k]]
<1>1. /\ g[m + 1] = After(c, s) /\ \A k \in 0..m : g[k] = f[k]
  OBVIOUS
<1> HIDE DEF g
<1>2. ASSUME NEW k \in 1..(m + 1)
      PROVE  g[k - 1].next # "GeneratePackageFolder" /\ g[k] = After(c, g[k - 1])
  <2>1. CASE k = m + 1
    <3>1. k - 1 = m /\ m \in 0..m
      BY <2>1
    <3> QED
      BY <2>1, <3>1, <1>1
  <2>2. CASE k # m + 1
    <3>1. k \in 1..m /\ k \in 0..m /\ k - 1 \in 0..m
      BY <2>2
    <3> QED
      BY <3>1, <1>1 DEF Path
  <2> QED
    BY <2>1, <2>2
<1>3. g[0] = f[0]
  BY <1>1
<1> QED
  BY <1>1, <1>2, <1>3 DEF Path

(* The contents the hash is made of can be read back from it.              *)
LEMMA RanksDiffer ==
  ASSUME NEW A, IsFiniteSet(DOMAIN A), DOMAIN A \subseteq Nat,
         \A n \in DOMAIN A : Index(A[n].file) \in Nat,
         NEW n \in DOMAIN A
  PROVE  /\ Rank(A, n) \in 1..Cardinality(DOMAIN A)
         /\ \A m \in DOMAIN A : Rank(A, m) = Rank(A, n) => m = n
<1> DEFINE Upto(k) == {m \in DOMAIN A : m = k \/ Precedes(A, m, k)}
           D == DOMAIN A
<1>1. \A k \in D : Upto(k) \subseteq D /\ k \in Upto(k) /\ Rank(A, k) = Cardinality(Upto(k))
  BY DEF Rank
<1>2. ASSUME NEW j \in D, NEW k \in D, Precedes(A, j, k)
      PROVE  Upto(j) \subseteq Upto(k) /\ k \notin Upto(j)
  BY <1>2 DEF Precedes
<1>3. \A j, k \in D : j = k \/ Precedes(A, j, k) \/ Precedes(A, k, j)
  BY DEF Precedes
<1> HIDE DEF Upto, D
<1>4. ASSUME NEW k \in D
      PROVE  IsFiniteSet(Upto(k)) /\ Rank(A, k) \in 1..Cardinality(D)
  <2>1. IsFiniteSet(Upto(k)) /\ Cardinality(Upto(k)) <= Cardinality(D)
    BY <1>1, FS_Subset DEF D
  <2>2. Cardinality(Upto(k)) \in Nat /\ Cardinality(D) \in Nat
    BY <2>1, FS_CardinalityType DEF D
  <2>3. Cardinality(Upto(k)) # 0
    BY <1>1, <2>1, FS_EmptySet
  <2> QED
    BY <1>1, <2>1, <2>2, <2>3
<1>5. ASSUME NEW j \in D, NEW k \in D, Precedes(A, j, k) PROVE Rank(A, j) # Rank(A, k)
  <2>1. Upto(j) \in SUBSET Upto(k) /\ Upto(j) # Upto(k)
    BY <1>1, <1>2, <1>5
  <2>2. Cardinality(Upto(k)) # Cardinality(Upto(j))
    BY <1>4, <2>1, FS_Subset
  <2> QED
    BY <1>1, <2>2
<1> QED
  BY <1>3, <1>4, <1>5 DEF D

\* Items of one hash have the contents the hash was made of.
LEMMA HashFixesContents ==
  ASSUME NEW A, IsFiniteSet(DOMAIN A), DOMAIN A \subseteq Nat,
         \A n \in DOMAIN A : Index(A[n].file) \in Nat,
         NEW v, NEW w, HashOf(A, v) = HashOf(A, w)
  PROVE  \A n \in DOMAIN A : v[A[n].file] = w[A[n].file]
<1> DEFINE S(u) == [r \in 1..Cardinality(DOMAIN A) |->
                     u[A[CHOOSE n \in DOMAIN A : Rank(A, n) = r].file]]
<1>1. SUFFICES ASSUME NEW n \in DOMAIN A PROVE v[A[n].file] = w[A[n].file]
  OBVIOUS
<1>2. S(v) = S(w)
  BY DEF HashOf
<1>3. PICK r \in 1..Cardinality(DOMAIN A) :
        r = Rank(A, n) /\ \A m \in DOMAIN A : Rank(A, m) = r => m = n
  BY RanksDiffer
<1>4. (CHOOSE m \in DOMAIN A : Rank(A, m) = r) = n
  BY <1>3
<1>5. S(v)[r] = v[A[n].file] /\ S(w)[r] = w[A[n].file]
  BY <1>4
<1> HIDE DEF S
<1> QED
  BY <1>2, <1>5

Generating == {Intermediate("service-worker.js"), Intermediate("uno-config.js")}

\* While the items are collected, the state lies on the path of the project.
OnPath ==
  next \in Collecting =>
    \E m \in Nat : \E f : Path(Names(project), f, m) /\ f[m] = Now

\* An item is a file of the project, in the folder of the package or at the root.
FilesKnown ==
  /\ Files(project) \subseteq {PathOrder[k] : k \in DOMAIN PathOrder}
  /\ next \in Collecting =>
       \A a \in Assets : a.file \in Files(project) /\ a.folder \in {Root, PackageTag}

\* The items a folder was named after, and their contents.
Named(folder, items, version) ==
  /\ Collected(Names(project), items)
  /\ IsFiniteSet(DOMAIN items) /\ DOMAIN items \subseteq Nat
  /\ \A n \in DOMAIN items : items[n].file \in Files(project)
  /\ folder = HashOf(items, version)

Packaged(items) ==
  {items[n] : n \in {m \in DOMAIN items : /\ items[m].folder = PackageTag
                                          /\ items[m].name # "uno-config.js"}}
PackageOf(items, version) ==
  {[file |-> a.file, name |-> a.name, version |-> version[a.file]] : a \in Packaged(items)}

Filled(items, version) ==
  /\ Named(packageFolder, items, version)
  /\ \A n \in DOMAIN items : Content(items[n].file) = version[items[n].file]
  /\ {a \in Assets : InFolder(a)} = {Linked(a, packageFolder) : a \in Packaged(items)}

FolderFilled == next \notin Collecting => \E items, version : Filled(items, version)

PreviousNamed ==
  previous.folder # Unknown =>
    \E items, version : /\ Named(previous.folder, items, version)
                        /\ previous.package = PackageOf(items, version)

FolderInv == UrlsInv /\ OnPath /\ FilesKnown /\ FolderFilled /\ PreviousNamed

-----------------------------------------------------------------------------
\* The path begins where the task does.
LEMMA FolderInitInv == Init => OnPath /\ FilesKnown /\ FolderFilled /\ PreviousNamed
<1> SUFFICES ASSUME Init PROVE OnPath /\ FilesKnown /\ FolderFilled /\ PreviousNamed
  OBVIOUS
<1>1. OnPath
  <2>1. PICK f : f = [k \in 0..0 |-> Shape("CopyContent", 1, 0, <<>>)]
    OBVIOUS
  <2>2. Path(Names(project), f, 0) /\ f[0] = Now
    BY <2>1 DEF Path, Now, Init
  <2> QED
    BY <2>2 DEF OnPath
<1>2. FilesKnown
  <2>1. Assets = {}
    BY DEF Init, Assets
  <2> QED
    BY <2>1, PathOrderAssumption DEF Init, FilesKnown
<1>3. FolderFilled /\ PreviousNamed
  BY DEF Init, FolderFilled, PreviousNamed, Collecting
<1> QED
  BY <1>1, <1>2, <1>3

\* Each step that collects is a step of the path.
LEMMA ItemAdded ==
  ASSUME NEW kept, NEW a, added \in Nat, kept \subseteq DOMAIN assets, DOMAIN assets \subseteq 1..added,
         AddTo(kept, <<a>>)
  PROVE  added' = added + 1 /\ assets' = With(assets, kept, added, a)
<1>1. PICK list : list = <<a>>
  OBVIOUS
<1>2. Len(list) = 1 /\ list[1] = a
  BY <1>1
<1>3. /\ added' = added + Len(list)
      /\ assets' = [n \in kept \cup (added + 1)..(added + Len(list)) |->
                      IF n \in kept THEN assets[n] ELSE list[n - added]]
  BY <1>1 DEF AddTo
<1>4. (added + 1)..(added + 1) = {added + 1} /\ (added + 1) - added = 1
  OBVIOUS
<1>5. [n \in kept \cup {added + 1} |-> IF n \in kept THEN assets[n] ELSE list[n - added]]
      = [n \in kept \cup {added + 1} |-> IF n \in kept THEN assets[n] ELSE a]
  BY <1>2, <1>4
<1> QED
  BY <1>2, <1>3, <1>4, <1>5 DEF With

Collects ==
  \/ CopyContent \/ ExtractResource \/ ExtractEmbedded \/ EndOfLoop
  \/ RemoveDuplicateAssets /\ next = "RemoveDuplicates"

\* What the names of the project leave as it is.
LEMMA NamesOf ==
  ASSUME Typed
  PROVE  LET c == Names(project)
         IN  /\ c.content = project.content /\ c.embedded = project.embedded
             /\ c.existing = project.existing
             /\ DOMAIN c.resources = DOMAIN project.resources
             /\ Len(c.resources) = Len(project.resources)
             /\ \A k \in DOMAIN project.resources :
                  /\ c.resources[k].name = project.resources[k].name
                  /\ c.resources[k].kind = project.resources[k].kind
<1> DEFINE V == [name : STRING, kind : {"js", "css"}, version : Versions]
           W == [name : STRING, kind : {"js", "css"}]
           list == [k \in DOMAIN project.resources |->
                      [name |-> project.resources[k].name, kind |-> project.resources[k].kind]]
<1>1. project.resources \in Seq(V)
  BY DEF Typed, IsProject
<1>2. DOMAIN list = 1..Len(project.resources) /\ Len(project.resources) \in Nat
  BY <1>1
<1>a. \A r \in V : [name |-> r.name, kind |-> r.kind] \in W
  OBVIOUS
<1>b. \A k \in 1..Len(project.resources) : project.resources[k] \in V
  <2> HIDE DEF V
  <2> QED
    BY <1>1
<1>c. list \in [1..Len(project.resources) -> W]
  <2> HIDE DEF V, W
  <2> QED
    BY <1>2, <1>a, <1>b
<1>3. list \in Seq(W)
  <2> HIDE DEF W, list
  <2> QED
    BY <1>2, <1>c
<1>4. Len(list) = Len(project.resources)
  BY <1>2, <1>3
<1> QED
  BY <1>4 DEF Names

\* What each action does, the names of the project determine.
LEMMA CollectsStep ==
  ASSUME Typed, Collects
  PROVE  /\ next \in Collecting \ {"GeneratePackageFolder"} /\ UNCHANGED <<project, previous>>
         /\ Now' = After(Names(project), Now)
<1> DEFINE c == Names(project)
<1>0. /\ c.content = project.content /\ c.embedded = project.embedded
      /\ c.existing = project.existing
      /\ DOMAIN c.resources = DOMAIN project.resources
      /\ Len(c.resources) = Len(project.resources)
      /\ \A k \in DOMAIN project.resources :
           /\ c.resources[k].name = project.resources[k].name
           /\ c.resources[k].kind = project.resources[k].kind
  BY NamesOf
<1> HIDE DEF c
<1>1. added \in Nat /\ DOMAIN assets \subseteq 1..added /\ at \in Nat
      /\ (next \in Collecting => packageFolder = Unknown)
  BY DEF Typed, Numbered
<1>2. /\ project.content \in Seq([place : STRING, name : STRING, excluded : BOOLEAN, uno_deploy : STRING])
      /\ project.resources \in Seq([name : STRING, kind : {"js", "css"}, version : Versions])
      /\ project.embedded \in Seq([name : STRING, kind : {"js", "css"}, place : STRING])
  BY DEF Typed, IsProject
<1>3. \A file, mode, name : packageFolder = Unknown => Asset(file, mode, name) = Item(file, mode, name)
  <2> SUFFICES ASSUME NEW file, NEW mode, NEW name, packageFolder = Unknown
               PROVE  Asset(file, mode, name) = Item(file, mode, name)
    OBVIOUS
  <2>1. CASE mode = "Root"
    BY <2>1 DEF Asset, Item
  <2>2. CASE mode # "Root"
    BY <2>2 DEF Asset, Item
  <2> QED
    BY <2>1, <2>2
<1>n. /\ Now.next = next /\ Now.at = at /\ Now.added = added /\ Now.assets = assets
  BY DEF Now, Shape
<1>4. CASE CopyContent
  <2> DEFINE e == project.content[at]
  <2>1. next = "CopyContent" /\ at <= Len(project.content) /\ next' = next /\ at' = at + 1
        /\ UNCHANGED <<project, previous>>
    BY <1>4, <1>2 DEF CopyContent, inputs
  <2>2. IF Adds(next, e)
          THEN added' = added + 1 /\ assets' = With(assets, DOMAIN assets, added, Adding(next, e))
          ELSE UNCHANGED <<added, assets>>
    <3>a. PICK a : a = Asset(Source(e.place, e.name), DeployMode(e), SitePath(e))
      OBVIOUS
    <3>d. PICK kept : kept = DOMAIN assets
      OBVIOUS
    <3>1. a = Adding(next, e) /\ Adds(next, e) = (DeployMode(e) # "None")
      BY <3>a, <2>1, <1>1, <1>3 DEF Adding, Adds, Collecting
    <3>2. IF Adds(next, e) THEN AddTo(kept, <<a>>) ELSE UNCHANGED <<added, assets>>
      BY <3>a, <3>d, <3>1, <1>4 DEF CopyContent, AddStaticAssets, content
    <3> QED
      BY <3>1, <3>2, <3>d, <1>1, ItemAdded
  <2>3. List(c, next)[at] = e /\ Len(List(c, next)) = Len(project.content)
        /\ Keeping(next, e, assets) = DOMAIN assets
    BY <2>1, <1>0 DEF List, Keeping
  <2> HIDE DEF e
  <2>4. Len(project.content) \in Nat
    BY <1>2
  <2> QED
    BY <1>1, <1>n, <2>1, <2>2, <2>3, <2>4 DEF After, Now, Collecting, c
<1>5. CASE ExtractResource
  <2> DEFINE e == project.resources[at]
             d == c.resources[at]
  <2>1. next \in {"ResourcesJS", "ResourcesCSS"} /\ at \in DOMAIN project.resources
        /\ next' = next /\ at' = at + 1 /\ UNCHANGED <<project, previous>>
    BY <1>5 DEF ExtractResource, inputs
  <2>e. at <= Len(project.resources) /\ Len(project.resources) \in Nat
    BY <1>2, <2>1
  <2>d. d.name = e.name /\ d.kind = e.kind
    BY <2>1, <1>0
  <2>2. IF Adds(next, d)
          THEN added' = added + 1 /\ assets' = With(assets, DOMAIN assets, added, Adding(next, d))
          ELSE UNCHANGED <<added, assets>>
    <3>a. PICK a : a = Asset(Intermediate(e.name), "Package", e.name)
      OBVIOUS
    <3>d. PICK kept : kept = DOMAIN assets
      OBVIOUS
    <3>1. a = Adding(next, d)
      BY <3>a, <2>1, <2>d, <1>1, <1>3 DEF Adding, Collecting, Extracting
    <3>2. Adds(next, d) = Extracted(e)
      BY <2>1, <2>d DEF Adds, Extracted, Kind, KindOf, Worker
    <3>3. IF Adds(next, d) THEN AddTo(kept, <<a>>) ELSE UNCHANGED <<added, assets>>
      BY <3>a, <3>d, <3>2, <1>5 DEF ExtractResource, AddStaticAssets, content
    <3> QED
      BY <3>1, <3>3, <3>d, <1>1, ItemAdded
  <2>3. List(c, next)[at] = d /\ Len(List(c, next)) = Len(project.resources)
        /\ Keeping(next, d, assets) = DOMAIN assets
    BY <2>1, <1>0 DEF List, Keeping
  <2> HIDE DEF e, d
  <2> QED
    BY <1>1, <1>n, <2>1, <2>e, <2>2, <2>3 DEF After, Now, Collecting, Extracting, c
<1>6. CASE ExtractEmbedded
  <2> DEFINE e == project.embedded[at]
  <2>1. next \in {"EmbeddedJS", "EmbeddedCSS"} /\ at \in DOMAIN project.embedded
        /\ next' = next /\ at' = at + 1 /\ UNCHANGED <<project, previous>>
    BY <1>6 DEF ExtractEmbedded, inputs
  <2>e. at <= Len(project.embedded) /\ Len(project.embedded) \in Nat
    BY <1>2, <2>1
  <2>2. IF Adds(next, e)
          THEN added' = added + 1
               /\ assets' = With(assets, Keeping(next, e, assets), added, Adding(next, e))
          ELSE UNCHANGED <<added, assets>>
    <3>a. PICK a : a = Asset(Source(e.place, e.name), "Package", e.name)
      OBVIOUS
    <3>1. a = Adding(next, e)
      BY <3>a, <2>1, <1>1, <1>3 DEF Adding, Collecting, Extracting
    <3>d. PICK kept : kept = {n \in DOMAIN assets : assets[n].file # a.file}
      OBVIOUS
    <3>k. kept = Keeping(next, e, assets)
      BY <3>1, <3>d, <2>1 DEF Keeping
    <3>2. Adds(next, e) = (e.kind = Kind)
      BY <2>1 DEF Adds, Kind, KindOf
    <3>3. IF Adds(next, e) THEN AddTo(kept, <<a>>) ELSE UNCHANGED <<added, assets>>
      BY <3>a, <3>d, <3>2, <1>6 DEF ExtractEmbedded, Overriding, content
    <3> QED
      BY <3>1, <3>3, <3>d, <3>k, <1>1, ItemAdded
  <2>3. List(c, next)[at] = e /\ Len(List(c, next)) = Len(project.embedded)
    BY <2>1, <1>0 DEF List
  <2> HIDE DEF e
  <2> QED
    BY <1>1, <1>n, <2>1, <2>e, <2>2, <2>3 DEF After, Now, Collecting, Extracting, c
<1>7. CASE EndOfLoop
  <2>1. /\ next \in {"CopyContent"} \cup Extracting
        /\ at > Len(List(c, next)) /\ next' = Then[next] /\ at' = 1
        /\ UNCHANGED <<project, previous, added, assets>>
    BY <1>7, <1>0 DEF EndOfLoop, LoopEnds, Extracting, List, Then, inputs, content
  <2> QED
    BY <2>1, <1>n DEF After, Now, Collecting, Extracting, c
<1>8. CASE RemoveDuplicateAssets /\ next = "RemoveDuplicates"
  <2>1. /\ next = "RemoveDuplicates" /\ next' = "GeneratePackageFolder"
        /\ assets' = [n \in {m \in DOMAIN assets : assets[m].file \notin c.existing} |-> assets[n]]
        /\ UNCHANGED <<project, previous, at, added>>
    BY <1>8, <1>0 DEF RemoveDuplicateAssets, NotExisting, inputs
  <2> QED
    BY <2>1, <1>n DEF After, Now, Collecting, c
<1> QED
  BY <1>4, <1>5, <1>6, <1>7, <1>8 DEF Collects

\* The path goes on with it.
LEMMA PathStep ==
  ASSUME Typed, OnPath, Collects
  PROVE  OnPath'
<1>1. /\ next \in Collecting \ {"GeneratePackageFolder"} /\ UNCHANGED <<project, previous>>
      /\ Now' = After(Names(project), Now)
  BY CollectsStep
<1>2. PICK c, s : c = Names(project) /\ s = Now
  OBVIOUS
<1>3. PICK m, f : m \in Nat /\ Path(c, f, m) /\ f[m] = s
  BY <1>1, <1>2 DEF OnPath
<1>4. s.next # "GeneratePackageFolder"
  BY <1>1, <1>2 DEF Now, Shape
<1>5. PICK g : Path(c, g, m + 1) /\ g[m + 1] = After(c, s)
  BY <1>3, <1>4, OneStepFurther
<1>6. Names(project)' = c
  BY <1>1, <1>2 DEF Names
<1>7. m + 1 \in Nat /\ After(c, s) = Now'
  BY <1>1, <1>2, <1>3
<1> QED
  BY <1>5, <1>6, <1>7 DEF OnPath

\* Only files of the project are added.
LEMMA FilesStep ==
  ASSUME Typed, FilesKnown, Collects
  PROVE  FilesKnown'
<1>0. next \in Collecting /\ UNCHANGED project /\ packageFolder = Unknown
  BY CollectsStep DEF Typed
<1>1. SUFFICES ASSUME NEW a \in Assets', a \notin Assets
               PROVE  a.file \in Files(project) /\ a.folder \in {Root, PackageTag}
  BY <1>0 DEF FilesKnown, Files
<1>2. \A file, mode, name : /\ Asset(file, mode, name).file = file
                            /\ Asset(file, mode, name).folder \in {Root, PackageTag}
  BY <1>0 DEF Asset
<1>n. Numbered
  BY DEF Typed
<1>3. CASE CopyContent
  <2>1. at \in DOMAIN project.content
    BY <1>3 DEF CopyContent
  <2> QED
    BY <1>1, <1>2, <1>3, <1>n, <2>1, ContentCopied DEF Files
<1>4. CASE ExtractResource
  <2>1. at \in DOMAIN project.resources
    BY <1>4 DEF ExtractResource
  <2> QED
    BY <1>1, <1>2, <1>4, <1>n, <2>1, ResourceExtracted DEF Files
<1>5. CASE ExtractEmbedded
  <2>1. at \in DOMAIN project.embedded
    BY <1>5 DEF ExtractEmbedded
  <2> QED
    BY <1>1, <1>2, <1>5, <1>n, <2>1, EmbeddedExtracted DEF Files
<1>6. CASE EndOfLoop
  BY <1>1, <1>6 DEF EndOfLoop, LoopEnds, content, Assets
<1>7. CASE RemoveDuplicateAssets
  BY <1>1, <1>7, <1>n, DuplicatesRemoved
<1> QED
  BY <1>3, <1>4, <1>5, <1>6, <1>7 DEF Collects

\* The folder is named after what was collected, and the items are put into it.
LEMMA NamingStep ==
  ASSUME Typed, OnPath, FilesKnown, GeneratePackageFolder
  PROVE  \E items, version : Filled(items, version)'
<1>1. /\ next = "GeneratePackageFolder" /\ next \in Collecting
      /\ packageFolder' = Hash /\ UNCHANGED <<project, disk>>
      /\ Assets' = {Linked(a, packageFolder') : a \in Assets}
  BY FolderGenerated DEF Typed, GeneratePackageFolder, inputs, Collecting
<1>2. PICK A, v : A = assets /\ v = [file \in {a.file : a \in Assets} |-> Content(file)]
  OBVIOUS
<1>3. packageFolder' = HashOf(A, v) /\ Assets = {A[n] : n \in DOMAIN A}
  BY <1>1, <1>2 DEF Hash, Assets
<1>4. \A n \in DOMAIN A : /\ A[n].file \in Files(project) /\ A[n].folder \in {Root, PackageTag}
                          /\ v[A[n].file] = Content(A[n].file)
  BY <1>1, <1>2, <1>3 DEF FilesKnown
<1>5. Collected(Names(project), A)
  <2>1. PICK m, f : m \in Nat /\ Path(Names(project), f, m) /\ f[m] = Now
    BY <1>1 DEF OnPath
  <2>2. Now.next = "GeneratePackageFolder" /\ Now.assets = A
    BY <1>1, <1>2 DEF Now, Shape
  <2> QED
    BY <2>1, <2>2 DEF Collected
<1>6. IsFiniteSet(DOMAIN A) /\ DOMAIN A \subseteq Nat
  <2>1. added \in Nat /\ DOMAIN A \in SUBSET (1..added)
    BY <1>2 DEF Typed, Numbered
  <2>2. IsFiniteSet(1..added)
    BY <2>1, FS_Interval
  <2> QED
    BY <2>1, <2>2, FS_Subset
<1>7. Named(packageFolder, A, v)'
  BY <1>1, <1>3, <1>4, <1>5, <1>6 DEF Named, Names, Files
<1>8. \A n \in DOMAIN A : Content(A[n].file)' = v[A[n].file]
  BY <1>1, <1>4 DEF Content
<1>9. {a \in Assets : InFolder(a)}' = {Linked(a, packageFolder') : a \in Packaged(A)}
  <2> DEFINE F == packageFolder'
  <2>1. F # Root /\ F # PackageTag
    <3>1. Len(F) = 2 /\ Len(Root) = 1 /\ Len(PackageTag) = 1
      BY <1>3 DEF HashOf, Root, PackageTag
    <3> QED
      BY <3>1
  <2>2. \A a \in Assets : a = [file |-> a.file, name |-> a.name, folder |-> a.folder]
    BY DEF Typed
  <2> HIDE DEF F
  <2>3. \A a \in Assets : /\ Linked(a, F).name = a.name
                          /\ Linked(a, F).folder = IF a.folder = PackageTag THEN F ELSE a.folder
    BY <2>2 DEF Linked
  <2>4. \A a \in Assets : a.folder \in {Root, PackageTag}
    BY <1>1 DEF FilesKnown
  <2>5. \A a \in Assets : (Linked(a, F).folder = F /\ Linked(a, F).name # "uno-config.js")
                           <=> a.folder = PackageTag /\ a.name # "uno-config.js"
    BY <2>1, <2>3, <2>4
  <2>6. Packaged(A) = {a \in Assets : a.folder = PackageTag /\ a.name # "uno-config.js"}
    BY <1>3 DEF Packaged
  <2>7. {a \in Assets : InFolder(a)}'
        = {b \in {Linked(a, F) : a \in Assets} : b.folder = F /\ b.name # "uno-config.js"}
    BY <1>1 DEF InFolder, F
  <2> QED
    BY <2>5, <2>6, <2>7 DEF F
<1> QED
  BY <1>7, <1>8, <1>9 DEF Filled

\* The files that are generated do not have the names of those the folder is named after.
LEMMA GeneratedApart ==
  ASSUME Typed
  PROVE  Files(project) \cap Generating = {}
<1> SUFFICES ASSUME NEW file \in Files(project), file \in Generating PROVE FALSE
  OBVIOUS
<1> USE DEF Typed, IsProject
<1>1. file[1] = "obj" /\ file[2] \in {"service-worker.js", "uno-config.js"}
  BY DEF Generating, Intermediate
<1>2. \A place, name : Source(place, name)[1] = place
  BY DEF Source
<1>3. PICK k \in DOMAIN project.resources : file = Intermediate(project.resources[k].name)
  BY <1>1, <1>2 DEF Files
<1>4. file[2] = project.resources[k].name
  BY <1>3 DEF Intermediate
<1> QED
  BY <1>1, <1>4

Describes ==
  \/ BuildServiceWorker \/ GenerateScript \/ GenerateIndexHtml \/ GenerateConfig
  \/ RemoveDuplicateAssets /\ next = "RemoveDuplicatesAgain"

\* What is generated is not in the folder, or is the configuration.
LEMMA DescribesStep ==
  ASSUME Typed, RemovedOnce, Describes
  PROVE  /\ next \notin Collecting /\ next' \notin Collecting
         /\ UNCHANGED <<project, previous, packageFolder>>
         /\ \A file : file \notin Generating => Content(file)' = Content(file)
         /\ packageFolder \notin {Root, PackageTag} =>
              {a \in Assets : InFolder(a)}' = {a \in Assets : InFolder(a)}
<1>1. CASE RemoveDuplicateAssets /\ next = "RemoveDuplicatesAgain"
  <2>1. /\ next' = "done" /\ UNCHANGED <<project, previous, packageFolder, disk>>
        /\ Assets' = {a \in Assets : NotExisting(a)}
    BY <1>1, DuplicatesRemoved DEF RemoveDuplicateAssets, inputs, Typed
  <2>2. Assets' = Assets
    BY <1>1, <2>1 DEF RemovedOnce, Extracting
  <2> QED
    BY <1>1, <2>1, <2>2 DEF Collecting, Extracting, Content, InFolder
<1>2. CASE BuildServiceWorker \/ GenerateScript \/ GenerateIndexHtml \/ GenerateConfig
  <2>1. /\ next \in Describing /\ next' \in {"GeneratePage", "GenerateConfig", "RemoveDuplicatesAgain", "failed"}
        /\ UNCHANGED <<project, previous, packageFolder>>
    BY <1>2 DEF BuildServiceWorker, GenerateScript, GenerateIndexHtml, GenerateConfig, Describing, inputs
  <2>2. next \notin Collecting /\ next' \notin Collecting /\ packageFolder # Unknown /\ Numbered
    BY <2>1 DEF Describing, Collecting, Extracting, Typed
  <2>3. /\ Assets \subseteq Assets' /\ Assets' \subseteq Assets \cup Generated(next)
    BY <1>2, <2>2, FilesGenerated
  <2>4. \A file : file \notin Generating => Content(file)' = Content(file)
    BY <1>2, <2>1 DEF BuildServiceWorker, GenerateScript, GenerateIndexHtml, GenerateConfig,
       Write, Content, Generating
  <2>5. \A a \in Generated(next) : a.folder = Root \/ a.name = "uno-config.js"
    <3>1. \A file, name : Asset(file, "Root", name).folder = Root
      BY DEF Asset
    <3>2. \A file, mode, name : Asset(file, mode, name).name = name
      BY DEF Asset
    <3>3. CASE next = "BuildServiceWorker"
      BY <3>1, <3>3 DEF Generated
    <3>4. CASE next = "GeneratePage"
      BY <3>1, <3>4 DEF Generated, RootFile
    <3>5. CASE next = "GenerateConfig"
      BY <3>2, <3>5 DEF Generated
    <3> QED
      BY <2>1, <3>3, <3>4, <3>5 DEF Describing
  <2>6. packageFolder # Root => {a \in Assets : InFolder(a)}' = {a \in Assets : InFolder(a)}
    BY <2>1, <2>3, <2>5 DEF InFolder
  <2> QED
    BY <2>1, <2>2, <2>4, <2>6
<1> QED
  BY <1>1, <1>2 DEF Describes

\* A folder named after a hash is neither the root nor the placeholder.
LEMMA NamedFolder ==
  ASSUME NEW A, NEW v, NEW folder, folder = HashOf(A, v)
  PROVE  folder \notin {Root, PackageTag, Unknown}
<1>1. Len(folder) = 2 /\ Len(Root) = 1 /\ Len(PackageTag) = 1 /\ Len(Unknown) = 0
  BY DEF HashOf, Root, PackageTag, Unknown
<1> QED
  BY <1>1

\* The folder holds what it was named after until the end.
LEMMA FilledStep ==
  ASSUME Typed, RemovedOnce, NEW A, NEW v, Filled(A, v), Describes
  PROVE  Filled(A, v)'
<1>1. /\ UNCHANGED <<project, packageFolder>>
      /\ \A file : file \notin Generating => Content(file)' = Content(file)
      /\ packageFolder \notin {Root, PackageTag} =>
           {a \in Assets : InFolder(a)}' = {a \in Assets : InFolder(a)}
  BY DescribesStep
<1>2. Named(packageFolder, A, v)
  BY DEF Filled
<1>3. packageFolder \notin {Root, PackageTag}
  <2>1. PICK folder : folder = packageFolder
    OBVIOUS
  <2> QED
    BY <1>2, <2>1, NamedFolder DEF Named
<1>4. \A n \in DOMAIN A : A[n].file \notin Generating
  BY <1>2, GeneratedApart DEF Named
<1>5. Named(packageFolder, A, v)'
  BY <1>1, <1>2 DEF Named, Names, Files
<1> QED
  BY <1>1, <1>3, <1>4, <1>5 DEF Filled

\* What a package of the items holds is what the state has in the folder.
LEMMA PackageNow ==
  ASSUME Typed, NEW A, NEW v, Filled(A, v)
  PROVE  Package = PackageOf(A, v)
<1>1. \A a \in Packaged(A) : /\ Linked(a, packageFolder).file = a.file
                             /\ Linked(a, packageFolder).name = a.name
  BY DEF Linked
<1>2. \A a \in Packaged(A) : Content(a.file) = v[a.file]
  BY DEF Packaged, Filled
<1>3. {b \in Assets : InFolder(b)} = {Linked(a, packageFolder) : a \in Packaged(A)}
  BY DEF Filled
<1>4. Package = {[file |-> b.file, name |-> b.name, version |-> Content(b.file)] :
                   b \in {Linked(a, packageFolder) : a \in Packaged(A)}}
  BY <1>3 DEF Package
<1> QED
  BY <1>1, <1>2, <1>4 DEF PackageOf

\* An edited project has the same names.
LEMMA EditedNames ==
  ASSUME Typed, Rebuild
  PROVE  Names(project)' = Names(project) /\ Files(project)' = Files(project)
<1>1. PICK sources \in [DOMAIN project.sources -> Versions],
           versions \in [DOMAIN project.resources -> Versions] :
        project' = [project EXCEPT
                      !.builds = @ - 1,
                      !.sources = sources,
                      !.resources = [k \in DOMAIN @ |-> [@[k] EXCEPT !.version = versions[k]]]]
  BY DEF Rebuild
<1> DEFINE list == [k \in DOMAIN project.resources |->
                      [project.resources[k] EXCEPT !.version = versions[k]]]
           V == [name : STRING, kind : {"js", "css"}, version : Versions]
<1>2. DOMAIN project = {"shell", "pwa", "validName", "builds", "sources", "content",
                        "resources", "embedded", "existing"}
  BY DEF Typed, IsProject
<1>3. /\ project'.content = project.content /\ project'.embedded = project.embedded
      /\ project'.existing = project.existing /\ project'.resources = list
  BY <1>1, <1>2
<1>4. \A k \in DOMAIN project.resources : project.resources[k] \in V
  <2>1. project.resources \in Seq(V)
    BY DEF Typed, IsProject
  <2> HIDE DEF V
  <2> QED
    BY <2>1
<1>5. \A k \in DOMAIN project.resources :
        list[k].name = project.resources[k].name /\ list[k].kind = project.resources[k].kind
  BY <1>4
<1>6. DOMAIN list = DOMAIN project.resources
  OBVIOUS
<1> HIDE DEF list, V
<1>7. Names(project') = Names(project)
  BY <1>3, <1>5, <1>6 DEF Names
<1>8. Files(project') = Files(project)
  BY <1>3, <1>5, <1>6 DEF Files
<1> QED
  BY <1>7, <1>8 DEF Names, Files

\* The build that ended becomes the one before.
LEMMA RebuildStep ==
  ASSUME Typed, FilesKnown, FolderFilled, Rebuild
  PROVE  OnPath' /\ FilesKnown' /\ FolderFilled' /\ PreviousNamed'
<1>1. /\ next = "done" /\ next' = "CopyContent" /\ at' = 1 /\ added' = 0 /\ assets' = <<>>
      /\ previous' = [folder |-> packageFolder, package |-> Package]
      /\ Names(project)' = Names(project) /\ Files(project)' = Files(project)
  BY EditedNames DEF Rebuild
<1>2. OnPath'
  <2>1. PICK f : f = [k \in 0..0 |-> Shape("CopyContent", 1, 0, <<>>)]
    OBVIOUS
  <2>2. Path(Names(project)', f, 0) /\ f[0] = Now'
    BY <1>1, <2>1 DEF Path, Now
  <2> QED
    BY <2>2 DEF OnPath
<1>3. FilesKnown'
  <2>1. Assets' = {}
    BY <1>1 DEF Assets
  <2> QED
    BY <1>1, <2>1 DEF FilesKnown
<1>4. FolderFilled'
  BY <1>1 DEF FolderFilled, Collecting
<1>5. PICK A, v : Filled(A, v)
  BY <1>1 DEF FolderFilled, Collecting, Extracting
<1>6. Package = PackageOf(A, v)
  BY <1>5, PackageNow
<1>7. previous'.folder = packageFolder /\ previous'.package = Package
  BY <1>1
<1>8. Named(previous.folder, A, v)'
  BY <1>1, <1>5, <1>7 DEF Filled, Named
<1>9. PreviousNamed'
  BY <1>6, <1>7, <1>8 DEF PreviousNamed
<1> QED
  BY <1>2, <1>3, <1>4, <1>9

\* Nothing else changes what is known of it.
LEMMA PreviousKept ==
  ASSUME PreviousNamed, UNCHANGED <<project, previous>>
  PROVE  PreviousNamed'
  BY DEF PreviousNamed, Named, Names, Files

(* Until the folder has its name the items lie on the one path of the      *)
(* project, and the folder is named after items of which the package       *)
(* holds the contents; so was the folder of the build before.              *)
THEOREM FolderInvariant == Spec => []FolderInv
<1>1. UrlsInv /\ OnPath /\ FilesKnown /\ FolderFilled /\ PreviousNamed /\ [Next]_vars
      => OnPath' /\ FilesKnown' /\ FolderFilled' /\ PreviousNamed'
  <2> SUFFICES ASSUME UrlsInv, OnPath, FilesKnown, FolderFilled, PreviousNamed, [Next]_vars
               PROVE  OnPath' /\ FilesKnown' /\ FolderFilled' /\ PreviousNamed'
    OBVIOUS
  <2>0. Typed /\ RemovedOnce
    BY DEF UrlsInv
  <2>1. CASE Collects
    <3>1. next \in Collecting \ {"GeneratePackageFolder"} /\ UNCHANGED <<project, previous>>
      BY <2>0, <2>1, CollectsStep
    <3>2. next' \in Collecting
      BY <2>1, <3>1 DEF Collects, CopyContent, ExtractResource, ExtractEmbedded, EndOfLoop,
         LoopEnds, RemoveDuplicateAssets, Collecting, Extracting
    <3> QED
      BY <2>0, <2>1, <3>1, <3>2, PathStep, FilesStep, PreviousKept DEF FolderFilled
  <2>2. CASE GeneratePackageFolder
    <3>1. UNCHANGED <<project, previous>> /\ next' = "BuildServiceWorker"
      BY <2>2 DEF GeneratePackageFolder, inputs
    <3>2. next' \notin Collecting
      BY <3>1 DEF Collecting, Extracting
    <3>3. FilesKnown'
      BY <3>1, <3>2 DEF FilesKnown, Files
    <3> QED
      BY <2>0, <2>2, <3>1, <3>2, <3>3, NamingStep, PreviousKept DEF FolderFilled, OnPath
  <2>3. CASE Describes
    <3>1. /\ next \notin Collecting /\ next' \notin Collecting
          /\ UNCHANGED <<project, previous, packageFolder>>
      BY <2>0, <2>3, DescribesStep
    <3>2. PICK A, v : Filled(A, v)
      BY <3>1 DEF FolderFilled
    <3>3. Filled(A, v)'
      BY <2>0, <2>3, <3>2, FilledStep
    <3>4. FilesKnown' /\ OnPath'
      BY <3>1 DEF FilesKnown, Files, OnPath
    <3> QED
      BY <3>1, <3>3, <3>4, PreviousKept DEF FolderFilled
  <2>4. CASE Rebuild
    BY <2>0, <2>4, RebuildStep
  <2>5. CASE UNCHANGED vars
    <3>1. UNCHANGED <<project, previous, next, at, added, assets, packageFolder, disk>>
      BY <2>5 DEF vars, inputs, content
    <3>2. OnPath'
      BY <3>1 DEF OnPath, Now, Names
    <3>3. FilesKnown'
      BY <3>1 DEF FilesKnown, Files, Assets
    <3>4. FolderFilled'
      BY <3>1 DEF FolderFilled, Filled, Named, Names, Files, Content, Assets, InFolder
    <3> QED
      BY <3>1, <3>2, <3>3, <3>4, PreviousKept
  <2> QED
    BY <2>1, <2>2, <2>3, <2>4, <2>5 DEF Next, Collects, Describes, RemoveDuplicateAssets
<1>2. Init => OnPath /\ FilesKnown /\ FolderFilled /\ PreviousNamed
  BY FolderInitInv
<1> QED
  BY <1>1, <1>2, UrlsInvariant, PTL DEF Spec, FolderInv

(* For any projects: two builds of the same files whose folders have the   *)
(* same name serve the same content under every path of the folder.        *)
THEOREM FolderNameFixesContent == Spec => []FolderFixesContent
<1>1. FolderInv => FolderFixesContent
  <2> SUFFICES ASSUME FolderInv, next = "done", previous.folder = packageFolder
               PROVE  previous.package = Package
    BY DEF FolderFixesContent
  <2>1. Typed
    BY DEF FolderInv, UrlsInv
  <2>2. PICK A, v : Filled(A, v)
    BY DEF FolderInv, FolderFilled, Collecting, Extracting
  <2>3. Named(packageFolder, A, v) /\ Package = PackageOf(A, v)
    BY <2>1, <2>2, PackageNow DEF Filled
  <2>f. PICK folder, c : folder = packageFolder /\ c = Names(project)
    OBVIOUS
  <2>4. previous.folder # Unknown
    BY <2>3, <2>f, NamedFolder DEF Named
  <2>5. PICK B, w : Named(previous.folder, B, w) /\ previous.package = PackageOf(B, w)
    BY <2>4 DEF FolderInv, PreviousNamed
  <2>6. A = B
    <3>1. Collected(c, A) /\ Collected(c, B)
      BY <2>3, <2>5, <2>f DEF Named
    <3> QED
      BY <3>1, CollectedOnce
  <2>7. HashOf(A, v) = HashOf(A, w)
    BY <2>3, <2>5, <2>6 DEF Named
  <2>8. \A n \in DOMAIN A : Index(A[n].file) \in Nat
    <3>1. \A n \in DOMAIN A : \E k \in DOMAIN PathOrder : PathOrder[k] = A[n].file
      BY <2>3 DEF Named, FolderInv, FilesKnown
    <3>2. DOMAIN PathOrder \subseteq Nat
      BY PathOrderAssumption
    <3> QED
      BY <3>1, <3>2 DEF Index
  <2>9. IsFiniteSet(DOMAIN A) /\ DOMAIN A \subseteq Nat
    BY <2>3 DEF Named
  <2>10. \A n \in DOMAIN A : v[A[n].file] = w[A[n].file]
    BY <2>7, <2>8, <2>9, HashFixesContents
  <2>11. PackageOf(A, v) = PackageOf(A, w)
    BY <2>10 DEF PackageOf, Packaged
  <2> QED
    BY <2>3, <2>5, <2>6, <2>11
<1> QED
  BY <1>1, FolderInvariant, PTL
=============================================================================
