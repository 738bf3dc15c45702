---------------------------- MODULE AssetPipeline ----------------------------
(***************************************************************************)
(* ShellTask.Execute: the assets of an application are collected from the  *)
(* content of the project, the resources of the assemblies and the         *)
(* resources of the project, put into a folder named after the hash of     *)
(* their contents, and described by generated files.  One action is one    *)
(* step of Execute, or one iteration of a loop of it; ParseProperties and  *)
(* BuildReferencedAssembliesList fix the input.  A project may be edited   *)
(* and built once more.                                                    *)
(*                                                                         *)
(* A file is the place it is in and its name; writing one into the         *)
(* intermediate folder replaces its content, and the folder stays from one *)
(* build to the next.  SHA1 is taken to be injective: the hash of a        *)
(* package is the sequence of contents it is computed from.                *)
(***************************************************************************)
EXTENDS Integers, Sequences, FiniteSets

CONSTANTS
  Projects,   \* the projects built
  PathOrder,  \* the files in the order of their paths
  Versions    \* contents of a file

VARIABLES
  project,        \* its files and properties
  next,           \* the step of Execute that is next
  at,             \* the item its loop is at
  disk,           \* contents of the intermediate folder
  added,          \* number of items AddStaticAsset has made
  assets,         \* StaticWebContent: the items left, by the order they were made in
  dependencies,   \* _dependencies
  styles,         \* _additionalStyles
  packageFolder,  \* PackageAssetsFolder, Unknown at first
  urls,           \* URLs the generated files name
  previous        \* folder and package of the build before

inputs == <<project, previous>>
content == <<added, assets>>
names == <<dependencies, styles>>
vars == <<inputs, next, at, disk, content, names, packageFolder, urls>>

PackageTag == <<"%PACKAGE%">>
Root == <<"wwwroot">>
Source(place, name) == <<place, name>>
Intermediate(name) == <<"obj", name>>

(* The content and the embedded files of a project are its own; static web *)
(* assets that exist already are files of its wwwroot, and embedded files  *)
(* lie elsewhere.  The extension of a resource tells its kind, and none is *)
(* named like a file that the task generates.                              *)
IsProject(p) ==
  /\ DOMAIN p = {"shell", "pwa", "validName", "builds", "sources", "content", "resources",
                 "embedded", "existing"}
  /\ p.content \in Seq([place : STRING, name : STRING, excluded : BOOLEAN, uno_deploy : STRING])
  /\ p.resources \in Seq([name : STRING, kind : {"js", "css"}, version : Versions])
  /\ p.embedded \in Seq([name : STRING, kind : {"js", "css"}, place : STRING])
  /\ \A k \in DOMAIN p.content : p.content[k].place # "obj"
  /\ \A k \in DOMAIN p.embedded : p.embedded[k].place \notin {"obj", "wwwroot"}
  /\ \A file \in p.existing : file[1] = "wwwroot"
  /\ \A k \in DOMAIN p.resources :
       /\ p.resources[k].name \notin {"uno-config.js", "service-worker.js"}
       /\ \A j \in DOMAIN p.resources :
            p.resources[j].name = p.resources[k].name =>
              p.resources[j].kind = p.resources[k].kind

Files(p) ==
  {Source(p.content[k].place, p.content[k].name) : k \in DOMAIN p.content}
  \cup {Source(p.embedded[k].place, p.embedded[k].name) : k \in DOMAIN p.embedded}
  \cup {Intermediate(p.resources[k].name) : k \in DOMAIN p.resources}

ASSUME ProjectsAssumption == \A p \in Projects : IsProject(p)

ASSUME PathOrderAssumption ==
  /\ PathOrder \in Seq(STRING \X STRING)
  /\ \A p \in Projects : Files(p) \subseteq {PathOrder[k] : k \in DOMAIN PathOrder}

Unknown == <<>>

Init ==
  /\ project \in Projects
  /\ previous = [folder |-> Unknown, package |-> {}]
  /\ disk = [file \in {} |-> 0]
  /\ next = "CopyContent" /\ at = 1
  /\ added = 0 /\ assets = <<>>
  /\ dependencies = {} /\ styles = {}
  /\ packageFolder = Unknown /\ urls = {}
-----------------------------------------------------------------------------
(* A static asset goes to the root or into the folder of the package.      *)
Asset(file, mode, name) ==
  [file |-> file, name |-> name,
   folder |-> IF mode = "Root" THEN Root
              ELSE IF packageFolder = Unknown THEN PackageTag ELSE packageFolder]

Assets == {assets[n] : n \in DOMAIN assets}

\* AddStaticAsset of the members of list; of the items made before those in kept stay.
AddTo(kept, list) ==
  /\ added' = added + Len(list)
  /\ assets' = [n \in kept \cup (added + 1)..(added + Len(list)) |->
                  IF n \in kept THEN assets[n] ELSE list[n - added]]
AddStaticAssets(list) == AddTo(DOMAIN assets, list)

\* Content that is an embedded resource too is not added twice.
Overriding(a) == AddTo({n \in DOMAIN assets : assets[n].file # a.file}, <<a>>)

Write(file, version) ==
  disk' = [f \in DOMAIN disk \cup {file} |-> IF f = file THEN version ELSE disk[f]]

\* The mode of a content file: its metadata, else a default.
DeployMode(c) ==
  IF c.uno_deploy # "" THEN c.uno_deploy
  ELSE IF c.place \in {"wwwroot", "WasmScripts"} \/ c.excluded THEN "None"
  ELSE "Package"

\* The path in the site: wwwroot is taken off.
SitePath(c) == IF c.place = "WasmScripts" THEN "WasmScripts/" \o c.name ELSE c.name

CopyContent ==
  /\ next = "CopyContent" /\ at \in DOMAIN project.content
  /\ LET c == project.content[at]
     IN  IF DeployMode(c) = "None" THEN UNCHANGED content
         ELSE AddStaticAssets(<<Asset(Source(c.place, c.name), DeployMode(c), SitePath(c))>>)
  /\ at' = at + 1
  /\ UNCHANGED <<inputs, next, disk, names, packageFolder, urls>>

(* The resources of the assemblies come in the order of the search list:   *)
(* bootstrap assembly, references.  The scripts are gone over first, then  *)
(* the styles.  The entry point of workers is passed over.                 *)
Kind == IF next \in {"ResourcesJS", "EmbeddedJS"} THEN "js" ELSE "css"

\* _dependencies.Add, additionalStyles.Add
AddName(name) ==
  IF Kind = "js" THEN dependencies' = dependencies \cup {name} /\ UNCHANGED styles
                 ELSE styles' = styles \cup {name} /\ UNCHANGED dependencies

\* A plausible slip: a file that is there is not written again.
CopyResourceOnce(r) ==
  IF Intermediate(r.name) \in DOMAIN disk THEN UNCHANGED disk
  ELSE Write(Intermediate(r.name), r.version)

\* FileMode.Create: the resource of the last assembly stays.
CopyResource(r) == Write(Intermediate(r.name), r.version)

Extracted(r) == r.kind = Kind /\ r.name # "uno-worker-bootstrap.js"

ExtractResource ==
  /\ next \in {"ResourcesJS", "ResourcesCSS"} /\ at \in DOMAIN project.resources
  /\ LET r == project.resources[at]
     IN  IF Extracted(r)
         THEN /\ CopyResource(r)
              /\ AddStaticAssets(<<Asset(Intermediate(r.name), "Package", r.name)>>)
              /\ AddName(r.name)
         ELSE UNCHANGED <<disk, content, names>>
  /\ at' = at + 1
  /\ UNCHANGED <<inputs, next, packageFolder, urls>>

ExtractEmbedded ==
  /\ next \in {"EmbeddedJS", "EmbeddedCSS"} /\ at \in DOMAIN project.embedded
  /\ LET e == project.embedded[at]
     IN  IF e.kind = Kind
         THEN Overriding(Asset(Source(e.place, e.name), "Package", e.name)) /\ AddName(e.name)
         ELSE UNCHANGED <<content, names>>
  /\ at' = at + 1
  /\ UNCHANGED <<inputs, next, disk, packageFolder, urls>>

\* A loop has gone over its list, and the next one begins.
LoopEnds(step, list, then) ==
  /\ next = step /\ at > Len(list)
  /\ next' = then /\ at' = 1
  /\ UNCHANGED <<inputs, disk, content, names, packageFolder, urls>>

EndOfLoop ==
  \/ LoopEnds("CopyContent", project.content, "ResourcesJS")
  \/ LoopEnds("ResourcesJS", project.resources, "EmbeddedJS")
  \/ LoopEnds("EmbeddedJS", project.embedded, "ResourcesCSS")
  \/ LoopEnds("ResourcesCSS", project.resources, "EmbeddedCSS")
  \/ LoopEnds("EmbeddedCSS", project.embedded, "RemoveDuplicates")

\* A plausible slip: assets are compared by name.
NotExistingByName(a) == \A file \in project.existing : file[2] # a.name

\* Not a file that is a static web asset already.
NotExisting(a) == a.file \notin project.existing

RemoveDuplicateAssets ==
  /\ \/ next = "RemoveDuplicates" /\ next' = "GeneratePackageFolder"
     \/ next = "RemoveDuplicatesAgain" /\ next' = "done"
  /\ assets' = [n \in {m \in DOMAIN assets : NotExisting(assets[m])} |-> assets[n]]
  /\ UNCHANGED <<inputs, at, disk, added, names, packageFolder, urls>>
-----------------------------------------------------------------------------
Content(file) == IF file \in DOMAIN disk THEN disk[file] ELSE project.sources[file]

\* A plausible slip: the contents are hashed in any order.
HashOfContents == <<"package", {Content(a.file) : a \in Assets}>>

(* Hash of the contents in the order of the paths; a file that two items   *)
(* have is hashed twice.                                                   *)
Index(file) == CHOOSE k \in DOMAIN PathOrder : PathOrder[k] = file
Precedes(items, m, n) ==
  \/ Index(items[m].file) < Index(items[n].file)
  \/ Index(items[m].file) = Index(items[n].file) /\ m < n
Rank(items, n) == Cardinality({m \in DOMAIN items : m = n \/ Precedes(items, m, n)})

HashOf(items, version) ==
  <<"package", [r \in 1..Cardinality(DOMAIN items) |->
                  version[items[CHOOSE n \in DOMAIN items : Rank(items, n) = r].file]]>>
Hash == HashOf(assets, [file \in {a.file : a \in Assets} |-> Content(file)])

GeneratePackageFolder ==
  /\ next = "GeneratePackageFolder"
  /\ packageFolder' = Hash
  /\ assets' = [n \in DOMAIN assets |->
                  [assets[n] EXCEPT !.folder = IF @ = PackageTag THEN packageFolder' ELSE @]]
  /\ next' = "BuildServiceWorker"
  /\ UNCHANGED <<inputs, at, disk, added, names, urls>>

Config == <<packageFolder, "uno-config.js">>
InPackage(files) == {<<packageFolder, n>> : n \in files}

BuildServiceWorker ==
  /\ next = "BuildServiceWorker"
  /\ IF project.shell = "WebWorker"
       THEN UNCHANGED <<disk, content, urls>>
       ELSE /\ Write(Intermediate("service-worker.js"), 0)
            /\ AddStaticAssets(<<Asset(Intermediate("service-worker.js"), "Root",
                                       "service-worker.js")>>)
            /\ urls' = urls \cup {Config}
  /\ next' = "GeneratePage"
  /\ UNCHANGED <<inputs, at, names, packageFolder>>

\* A file of the root of the site, generated for one shell.
RootFile(name) == Asset(<<"obj root", name>>, "Root", name)

(* GenerateEmbeddedJs and GenerateWorkerJs: the page has a fixed script to *)
(* load, which knows the folder.                                           *)
GenerateScript ==
  /\ next = "GeneratePage"
  /\ \/ /\ project.shell = "BrowserEmbedded"
        /\ AddStaticAssets(<<RootFile("embedded.js"), RootFile("index.html")>>)
        /\ urls' = urls \cup {Config, <<Root, "embedded.js">>} \cup InPackage(styles)
        /\ next' = "GenerateConfig"
     \/ /\ project.shell = "WebWorker" /\ project.validName
        /\ AddStaticAssets(<<RootFile("worker.js"), RootFile("index.html")>>)
        /\ urls' = urls \cup {Config, <<Root, "worker.js">>}
        /\ next' = "GenerateConfig"
     \/ /\ project.shell = "WebWorker" /\ ~project.validName
        /\ next' = "failed"
        /\ UNCHANGED <<content, urls>>
  /\ UNCHANGED <<inputs, at, disk, names, packageFolder>>

\* The page of the browser, and the manifest when the application is a PWA.
GenerateIndexHtml ==
  /\ next = "GeneratePage" /\ project.shell = "Browser"
  /\ IF project.pwa
       THEN /\ AddStaticAssets(<<RootFile("manifest.json"), RootFile("index.html")>>)
            /\ urls' = urls \cup InPackage(styles) \cup {<<Root, "manifest.json">>}
       ELSE /\ AddStaticAssets(<<RootFile("index.html")>>)
            /\ urls' = urls \cup InPackage(styles)
  /\ next' = "GenerateConfig"
  /\ UNCHANGED <<inputs, at, disk, names, packageFolder>>

\* Scripts that something else loads.
Loaders == {"require.js", "uno-bootstrap.js", "service-worker.js"}

Url(a) == <<a.folder, a.name>>
Served == {Url(a) : a \in Assets}

GenerateConfig ==
  /\ next = "GenerateConfig"
  /\ urls' = urls \cup InPackage(dependencies \ Loaders)
                  \cup (IF project.pwa THEN Served \cup {Config} ELSE {})
  /\ Write(Intermediate("uno-config.js"), 0)
  /\ AddStaticAssets(<<Asset(Intermediate("uno-config.js"), "Package", "uno-config.js")>>)
  /\ next' = "RemoveDuplicatesAgain"
  /\ UNCHANGED <<inputs, at, names, packageFolder>>
-----------------------------------------------------------------------------
InFolder(a) == a.folder = packageFolder /\ a.name # "uno-config.js"

Package ==
  {[file |-> a.file, name |-> a.name, version |-> Content(a.file)] :
     a \in {b \in Assets : InFolder(b)}}

(* The contents of some files are edited, and the task runs once more.     *)
Rebuild ==
  /\ next = "done" /\ project.builds > 1
  /\ \E sources \in [DOMAIN project.sources -> Versions],
        versions \in [DOMAIN project.resources -> Versions] :
       project' = [project EXCEPT
                     !.builds = @ - 1,
                     !.sources = sources,
                     !.resources = [k \in DOMAIN @ |-> [@[k] EXCEPT !.version = versions[k]]]]
  /\ previous' = [folder |-> packageFolder, package |-> Package]
  /\ next' = "CopyContent" /\ at' = 1
  /\ added' = 0 /\ assets' = <<>>
  /\ dependencies' = {} /\ styles' = {}
  /\ packageFolder' = Unknown /\ urls' = {}
  /\ UNCHANGED disk

Next ==
  \/ CopyContent \/ ExtractResource \/ ExtractEmbedded \/ EndOfLoop
  \/ RemoveDuplicateAssets \/ GeneratePackageFolder \/ BuildServiceWorker
  \/ GenerateScript \/ GenerateIndexHtml \/ GenerateConfig
  \/ Rebuild

Spec == Init /\ [][Next]_vars
-----------------------------------------------------------------------------
(* Every URL the generated files name (the configuration, dependencies,    *)
(* styles, offline files) is served: the folder they name is the one the   *)
(* assets are put in, though its name is known only half-way, and neither  *)
(* removal of duplicates takes what they need (ShellTask.cs:156-170).      *)
UrlsServed == next = "done" => urls \subseteq Served

(* "Add the bootstrapper assembly first, so the css defined there can be   *)
(* overridden" (ShellTask.cs:492): of the resources of one name the last   *)
(* one is served, whatever an earlier build left in the folder.            *)
LastAssemblyServed ==
  next = "done" =>
    \A k \in DOMAIN project.resources :
      LET r == project.resources[k]
      IN  (\A j \in DOMAIN project.resources : project.resources[j].name = r.name => j <= k)
            => \A p \in Package : p.file = Intermediate(r.name) => p.version = r.version

(* The folder "becomes versioned by the host's content hash" (Uno.Wasm.    *)
(* Bootstrap.targets:839): two builds of the same files that share the     *)
(* folder serve the same content under every path of it.                   *)
FolderFixesContent ==
  next = "done" /\ previous.folder = packageFolder => previous.package = Package
=============================================================================
