------------------------------ MODULE VfsLoad -------------------------------
(***************************************************************************)
(* Assemblies in the virtual file system (Bootstrapper.ts): configLoaded   *)
(* moves entries of the boot configuration from their sections to          *)
(* resources.vfs, and a wrapper around FS.close deletes a file once it has *)
(* been read.  The runtime that stores the entries and opens the files is  *)
(* external.                                                               *)
(*                                                                         *)
(* An entry is known by its name and extension; where it is stored is its  *)
(* directory, name and extension.  A directory is that of the managed      *)
(* files or one of a culture below it.                                     *)
(***************************************************************************)
EXTENDS Integers, Sequences, FiniteSets

CONSTANTS Libraries,  \* names of ordinary assemblies
          Cultures    \* cultures with a satellite assembly

ASSUME VfsAssumption ==
  Cultures \cap {"", "assembly", "coreAssembly", "pdb", "corePdb"} = {}

Critical == {"main", "System.Private.CoreLib", "System.Runtime.InteropServices.JavaScript"}
AssemblySections == {"assembly", "coreAssembly"}
PdbSections == {"pdb", "corePdb"}
Sections == AssemblySections \cup PdbSections \cup Cultures
Order == <<"assembly", "coreAssembly", "pdb", "corePdb">>

Assemblies == [name : Critical \cup Libraries, ext : {"wasm", "dll"}]
Pdbs == [name : Libraries, ext : {"pdb"}]
Satellites == [name : Libraries, ext : {"wasm", "dll"}]
Entries == Assemblies \cup Pdbs

VARIABLES
  redirect,  \* uno_vfs_framework_assembly_load
  cleanup,   \* uno_vfs_framework_assembly_load_cleanup
  appReads,  \* the application reads files below /managed itself
  format,    \* shape of the sections: arrays (.NET 10) or dictionaries
  vfsShape,  \* shape of resources.vfs: absent, array or dictionary
  content,   \* per section: its entries
  original,  \* the same, as configured (history)
  vfs,       \* resources.vfs: entry, directory, extension, prefix of the name
  step,      \* where configLoaded is
  stored,    \* paths the runtime has stored a file under
  files,     \* paths that exist below /managed
  streams,   \* open streams
  images     \* paths the runtime has read an image from

config == <<redirect, cleanup, appReads, format, vfsShape, content, original, vfs, step>>
system == <<stored, files, streams, images>>
vars == <<redirect, cleanup, appReads, format, vfsShape, content, original, vfs, step, stored,
          files, streams, images>>

(* Every assembly is in one of two sections, with or without the extension *)
(* of WebCIL; every library has its symbols and its satellites.            *)
Init ==
  /\ redirect \in BOOLEAN /\ cleanup \in BOOLEAN /\ (cleanup => redirect)
  /\ appReads \in BOOLEAN
  /\ format \in {"array", "dictionary"}
  /\ vfsShape \in {"absent", format}
  /\ \E ext \in {"wasm", "dll"}, core \in SUBSET (Critical \cup Libraries), pdb \in PdbSections :
       content = [s \in Sections |->
                    CASE s = "coreAssembly" -> [name : core, ext : {ext}]
                      [] s = "assembly"     -> [name : (Critical \cup Libraries) \ core, ext : {ext}]
                      [] s \in PdbSections  -> IF s = pdb THEN Pdbs ELSE {}
                      [] OTHER              -> [name : Libraries, ext : {ext}]]
  /\ original = content
  /\ vfs = {}
  /\ step = IF redirect THEN "redirect" ELSE "satellites"
  /\ stored = {} /\ files = {} /\ streams = {} /\ images = {}

-----------------------------------------------------------------------------
\* mustKeepBundled, the predicate passed for the sections of assemblies.
MustKeepBundled(s, e) == s \in AssemblySections /\ e.name \in Critical

\* A plausible slip: satellites lose their culture's prefix.
MovedUnprefixed(s, e) ==
  [entry |-> e, by |-> "redirect", prefix |-> "",
   dir |-> IF s \in Cultures THEN s ELSE "", ext |-> IF e.ext = "wasm" THEN "dll" ELSE e.ext]

\* The entry of resources.vfs made from entry e of section s.
Moved(s, e) ==
  [entry |-> e, by |-> "redirect", prefix |-> IF s \in Cultures THEN s ELSE "",
   dir |-> IF s \in Cultures THEN s ELSE "", ext |-> IF e.ext = "wasm" THEN "dll" ELSE e.ext]

\* A plausible slip: what is moved is not taken out of its section.
MoveArraysLeaving ==
  /\ vfs' = vfs \cup UNION {{Moved(s, e) : e \in {d \in content[s] : ~MustKeepBundled(s, d)}} :
                            s \in Sections}
  /\ UNCHANGED content

(* moveArrayToVfs, for every section: what need not stay bundled moves.    *)
MoveArrays ==
  /\ vfs' = vfs \cup UNION {{Moved(s, e) : e \in {d \in content[s] : ~MustKeepBundled(s, d)}} :
                            s \in Sections}
  /\ content' = [s \in Sections |-> {e \in content[s] : MustKeepBundled(s, e)}]

(* redirectAssembliesToVfs.  Dictionaries are left alone.                  *)
RedirectAssembliesToVfs ==
  /\ step = "redirect"
  /\ step' = "satellites"
  /\ IF format = "array"
     THEN vfsShape' = "array" /\ MoveArrays
     ELSE UNCHANGED <<vfsShape, vfs, content>>
  /\ UNCHANGED <<redirect, cleanup, appReads, format, original>> /\ UNCHANGED system

(* The rest of configLoaded: satellites that are still in their sections   *)
(* are added to resources.vfs, and stay.  A dictionary cannot be iterated  *)
(* over: the exception leaves the callback.                                *)
FixSatellites ==
  /\ step = "satellites"
  /\ IF format = "dictionary" /\ Cultures # {}
     THEN step' = "threw" /\ UNCHANGED <<vfsShape, vfs>>
     ELSE /\ step' = "loaded"
          /\ vfsShape' = IF \E c \in Cultures : content[c] # {} THEN "array" ELSE vfsShape
          /\ vfs' = vfs \cup UNION {{[entry |-> e, by |-> "fix", prefix |-> c, dir |-> c,
                                      ext |-> e.ext] : e \in content[c]} : c \in Cultures}
  /\ UNCHANGED <<redirect, cleanup, appReads, format, content, original>> /\ UNCHANGED system

-----------------------------------------------------------------------------
(* The runtime: it stores every entry of resources.vfs, then opens the     *)
(* files it needs, in any order, unless it has the image of the path.      *)
Path(v) == <<v.dir, v.entry.name, v.ext>>

OpenToWrite(v) ==
  /\ step = "loaded" /\ v \in vfs
  /\ Path(v) \notin stored
  /\ stored' = stored \cup {Path(v)}
  /\ files' = files \cup {Path(v)}
  /\ streams' = streams \cup {[path |-> Path(v), mode |-> "write"]}
  /\ UNCHANGED images /\ UNCHANGED config

(* The runtime reads the image while it has the file open: to open, read   *)
(* and close are one synchronous cycle.  An application may read the file  *)
(* as well; each of the two has it open once.                              *)
OpenToRead(p, mode) ==
  /\ mode = "app" => appReads
  /\ p \in files
  /\ \A s \in streams : s.path = p => s.mode \notin {"write", mode}
  /\ mode = "read" => p \notin images
  /\ streams' = streams \cup {[path |-> p, mode |-> mode]}
  /\ images' = IF mode = "read" THEN images \cup {p} ELSE images
  /\ UNCHANGED <<stored, files>> /\ UNCHANGED config

(* The wrapper of FS.close looks at the flags of the stream alone: after   *)
(* one that only read, the file goes, whoever opened it and whoever has it *)
(* open still.                                                             *)
Close(s) ==
  /\ s \in streams
  /\ streams' = streams \ {s}
  /\ files' = IF cleanup /\ s.mode # "write" THEN files \ {s.path} ELSE files
  /\ UNCHANGED <<stored, images>> /\ UNCHANGED config

Next ==
  \/ RedirectAssembliesToVfs
  \/ FixSatellites
  \/ \E v \in vfs : OpenToWrite(v)
  \/ \E p \in files, mode \in {"read", "app"} : OpenToRead(p, mode)
  \/ \E s \in streams : Close(s)

Spec == Init /\ [][Next]_vars
-----------------------------------------------------------------------------
(* With the redirection on, every entry ends in one place: still bundled,  *)
(* or once in resources.vfs, though two loops go over the satellites       *)
(* (Bootstrapper.ts:393-395, 562-577); whatever is stored has a name the   *)
(* runtime's probing for .dll finds (519-523); and what the runtime needs  *)
(* before it can probe stays bundled, in whichever section the SDK has put *)
(* it (459-465, 539-548).                                                  *)
MovedOnce ==
  redirect /\ format = "array" /\ step = "loaded" =>
    \A s \in Sections : \A e \in original[s] :
      LET here == {v \in vfs : v.entry = e /\ v.dir = IF s \in Cultures THEN s ELSE ""}
      IN  /\ IF e \in content[s] THEN here = {} ELSE Cardinality(here) = 1
          /\ \A v \in here : v.ext \in {"dll", "pdb"}
          /\ s \in AssemblySections /\ e.name \in Critical => e \in content[s]

(* Every satellite is stored once below its culture's directory and        *)
(* downloaded from its culture's, with the redirection and without it,     *)
(* each by a loop of its own, and displaces no other file                  *)
(* (Bootstrapper.ts:374-396, 562-577).                                     *)
SatellitesStored ==
  format = "array" /\ step = "loaded" =>
    \A c \in Cultures : \A e \in original[c] :
      \E v \in vfs : /\ v.entry = e /\ v.dir = c /\ v.prefix = c
                    /\ \A w \in vfs \ {v} : Path(w) # Path(v) /\ <<w.entry, w.dir>> # <<e, c>>

(* "Files that have not yet been loaded ... remain in the VFS until the    *)
(* runtime reads them" (doc/features-vfs-assembly-loading.md:42): what has *)
(* been stored is there for the runtime to open, or it has the image,      *)
(* whoever else reads files below /managed (Bootstrapper.ts:265-283).      *)
UnreadFilesRemain == \A p \in stored : p \in files \cup images
=============================================================================
