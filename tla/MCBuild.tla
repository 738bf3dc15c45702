------------------------------ MODULE MCBuild -------------------------------
(***************************************************************************)
(* What the tasks of a build do, for one run: the asset pipeline of        *)
(* ShellTask (AssetPipeline) and the filter of the AOT profile             *)
(* (AotProfile).  They share nothing; subject says which one a behaviour   *)
(* is about, and the other stays in an initial state.                      *)
(*                                                                         *)
(* The projects have at most one content file, two resources and one       *)
(* embedded resource, whose names meet; static web assets that exist       *)
(* already are the files in wwwroot.  Some projects are built twice.       *)
(***************************************************************************)
EXTENDS AssetPipeline, TLC

CONSTANTS
  ModuleNames, TypeNames, MethodNames, DefaultExcluded, MaxRecords   \* of AotProfile

VARIABLES
  subject,
  file, excludedMethods, excludedAssemblies, phase, index, heap, records, methods, writer

Profile == INSTANCE AotProfile WITH at <- index

profile == <<file, excludedMethods, excludedAssemblies, phase, index, heap, records, methods,
             writer>>

ContentFiles ==
  [place : {"project", "wwwroot", "WasmScripts"}, name : {"a.js", "b.txt"},
   excluded : BOOLEAN, uno_deploy : {"", "None", "Package", "Root"}]
ResourceNames ==
  {<<>>, <<"a.js">>, <<"c.css">>, <<"a.js", "a.js">>, <<"c.css", "c.css">>,
   <<"a.js", "c.css">>, <<"uno-worker-bootstrap.js", "require.js">>}
Resource(n, v) == [name |-> n, version |-> v, kind |-> IF n = "c.css" THEN "css" ELSE "js"]
ResourceLists == {[k \in DOMAIN list |-> Resource(list[k], k)] : list \in ResourceNames}
EmbeddedLists ==
  {<<>>, <<[place |-> "WasmScripts", name |-> "a.js", kind |-> "js"]>>,
   <<[place |-> "WasmCSS", name |-> "c.css", kind |-> "css"]>>}
Shell(shell, pwa, valid) == [shell |-> shell, pwa |-> pwa, validName |-> valid]
Shells ==
  {Shell("Browser", TRUE, TRUE), Shell("BrowserEmbedded", FALSE, TRUE),
   Shell("WebWorker", TRUE, TRUE), Shell("WebWorker", FALSE, FALSE)}

FilesOf(list) == {<<list[k].place, list[k].name>> : k \in DOMAIN list}
InRoot(ps) == {p \in ps : p[1] = "wwwroot"}
Project(shell, files, resources, embedded, existing, builds) ==
  shell @@ [content |-> files, resources |-> resources, embedded |-> embedded,
            existing |-> existing \cup InRoot(FilesOf(files)), builds |-> builds,
            sources |-> [p \in FilesOf(files) \cup FilesOf(embedded) |-> 1]]
MCProjects ==
  {Project(s, c, r, e, x, 1) : s \in Shells, c \in {<<>>} \cup {<<d>> : d \in ContentFiles},
     r \in ResourceLists, e \in EmbeddedLists, x \in {{}, {<<"wwwroot", "a.js">>}}}
  \cup
  {Project(Shell("Browser", FALSE, TRUE), c, r, e, {}, 2) :
     c \in {<<>>} \cup {<<d>> : d \in {b \in ContentFiles :
                          b.place = "project" /\ ~b.excluded /\ b.uno_deploy = ""}},
     r \in ResourceLists, e \in EmbeddedLists}
MCPathOrder ==
  <<<<"WasmCSS", "c.css">>, <<"WasmScripts", "a.js">>, <<"WasmScripts", "b.txt">>,
    <<"obj", "a.js">>, <<"obj", "c.css">>, <<"obj", "require.js">>,
    <<"obj", "uno-worker-bootstrap.js">>,
    <<"project", "a.js">>, <<"project", "b.txt">>,
    <<"wwwroot", "a.js">>, <<"wwwroot", "b.txt">>>>
-----------------------------------------------------------------------------
PipelineIdle ==
  /\ Init
  /\ project = Project(Shell("BrowserEmbedded", FALSE, TRUE), <<>>, <<>>, <<>>, {}, 1)
ProfileIdle == Profile!Init /\ excludedMethods = {} /\ excludedAssemblies = {}

MCInit ==
  \/ subject = "assets" /\ Init /\ ProfileIdle
  \/ subject = "profile" /\ Profile!Init /\ PipelineIdle

OfAssets(A) == subject = "assets" /\ A /\ UNCHANGED <<subject, profile>>
OfProfile(A) == subject = "profile" /\ A /\ UNCHANGED <<subject, vars>>

MCNext == OfAssets(Next) \/ OfProfile(Profile!Next)

MCSpec == MCInit /\ [][MCNext]_<<subject, vars, profile>>
-----------------------------------------------------------------------------
(* The filtered profile says of every method that is kept what the         *)
(* recorded one says (GenerateUnoNativeAssetsTask.AOTProfile.cs:48-83,     *)
(* ProfileWriter.cs:37-135).                                               *)
ProfileKept == Profile!ProfileKept
=============================================================================
