----------------------------- MODULE AotProfile -----------------------------
(***************************************************************************)
(* The filter of the AOT profile (GenerateUnoNativeAssetsTask.AOTProfile): *)
(* a recorded profile is read, methods are dropped by rule, and the rest   *)
(* is written again with new identifiers.  A file is a sequence of records *)
(* in which a record refers to others by identifier: a type to its module  *)
(* and to the instance of its type arguments, an instance to types, a      *)
(* method to its type and to an instance.  The reader makes an object of   *)
(* each record; the writer numbers objects when it first meets them, so a  *)
(* record is written only after those it refers to.  Methods are excluded  *)
(* by name, which stands for the regular expressions on their full name.   *)
(***************************************************************************)
EXTENDS Integers, TLC, SequencesExt

CONSTANTS
  ModuleNames, TypeNames, MethodNames,
  DefaultExcluded,  \* DefaultAOTProfileExcludedMethods
  MaxRecords        \* bound: records of a profile

None == -1

VARIABLES
  file,               \* the recorded profile
  excludedMethods,    \* AOTProfileExcludedMethods
  excludedAssemblies, \* MixedModeExcludedAssembly
  phase,              \* what the task is doing
  at,                 \* the index of the loop it is in
  heap,               \* the objects read; an object is its index
  records,            \* the reader: identifier -> object
  methods,            \* profile.Methods
  writer              \* the writer: out, next identifier, numbers given

vars == <<file, excludedMethods, excludedAssemblies, phase, at, heap, records,
          methods, writer>>

\* owner is the module of a type and the type of a method.
Record(kind, id, name, owner, ginst, types) ==
  [kind |-> kind, id |-> id, name |-> name, owner |-> owner, ginst |-> ginst,
   types |-> types]

Init ==
  /\ file = <<>>
  /\ excludedMethods \in SUBSET MethodNames
  /\ excludedAssemblies \in SUBSET ModuleNames
  /\ phase = "record"
  /\ at = 1
  /\ heap = <<>>
  /\ records = [i \in {} |-> 0]
  /\ methods = <<>>
  /\ writer = [out |-> <<>>, next |-> 0, id |-> None,
               typeIds |-> [t \in {} |-> 0], moduleIds |-> [m \in {} |-> 0]]
-----------------------------------------------------------------------------
Ids(f, kind) == {f[k].id : k \in {j \in DOMAIN f : f[j].kind = kind}}

(* The profiler of the runtime: a record follows those it refers to.  Its  *)
(* identifiers are not those the writer will give.                         *)
RecordProfile ==
  /\ phase = "record" /\ Len(file) < MaxRecords
  /\ LET id == 10 - Len(file)
         Image == {Record("IMAGE", id, n, None, None, <<>>) : n \in ModuleNames}
         Type == {Record("TYPE", id, n, m, g, <<>>) :
                    n \in TypeNames, m \in Ids(file, "IMAGE"),
                    g \in Ids(file, "GINST") \cup {None}}
         Inst == {Record("GINST", id, "", None, None, ts) :
                    ts \in {<<t>> : t \in Ids(file, "TYPE")}
                             \cup Ids(file, "TYPE") \X Ids(file, "TYPE")}
         Method == {Record("METHOD", id, n, t, g, <<>>) :
                      n \in MethodNames, t \in Ids(file, "TYPE"),
                      g \in Ids(file, "GINST") \cup {None}}
     IN  \E r \in Image \cup Type \cup Inst \cup Method : file' = Append(file, r)
  /\ UNCHANGED <<excludedMethods, excludedAssemblies, phase, at, heap, records,
                 methods, writer>>

StartReading ==
  /\ phase = "record"
  /\ phase' = "read"
  /\ UNCHANGED <<file, excludedMethods, excludedAssemblies, at, heap, records,
                 methods, writer>>

\* The object an identifier stands for, none for -1.
Object(id) == IF id = None THEN None ELSE records[id]

\* ReadAllData: the next record becomes an object that refers to objects.
ReadRecord ==
  /\ phase = "read" /\ at <= Len(file)
  /\ LET r == file[at]
         o == [r EXCEPT !.owner = Object(@), !.ginst = Object(@),
                        !.types = [k \in DOMAIN @ |-> Object(@[k])]]
     IN  /\ heap' = Append(heap, o)
         /\ records' = [i \in DOMAIN records \cup {r.id} |->
                          IF i = r.id THEN at ELSE records[i]]
         /\ methods' = IF r.kind = "METHOD" THEN Append(methods, at) ELSE methods
  /\ at' = at + 1
  /\ UNCHANGED <<file, excludedMethods, excludedAssemblies, phase, writer>>

\* The exclusions the user gave; without any the profile is used as it is.
Filtering == excludedMethods # {} \/ excludedAssemblies # {}

Keeps(name, module) ==
  name \notin excludedMethods \cup DefaultExcluded /\ module \notin excludedAssemblies

Filter ==
  /\ phase = "read" /\ at > Len(file)
  /\ IF Filtering
       THEN /\ methods' = SelectSeq(methods, LAMBDA m :
                            Keeps(heap[m].name, heap[heap[heap[m].owner].owner].name))
            /\ phase' = "methods"
       ELSE /\ phase' = "unfiltered"
            /\ UNCHANGED methods
  /\ at' = 1
  /\ UNCHANGED <<file, excludedMethods, excludedAssemblies, heap, records, writer>>
-----------------------------------------------------------------------------
RECURSIVE AddType(_, _), AddGenericInstance(_, _)

\* Record r is written under the next identifier.
Write(w, r) ==
  [w EXCEPT !.out = Append(@, [r EXCEPT !.id = w.next]),
            !.next = @ + 1, !.id = w.next]

AddModule(w, m) ==
  IF m \in DOMAIN w.moduleIds THEN [w EXCEPT !.id = w.moduleIds[m]]
  ELSE [Write(w, heap[m]) EXCEPT !.moduleIds = @ @@ (m :> w.next)]

\* The instance an object refers to, written; -1 without one.
InstanceOf(w, o) ==
  IF heap[o].ginst = None THEN [w EXCEPT !.id = None]
  ELSE AddGenericInstance(w, heap[o].ginst)

AddType(w, t) ==
  IF t \in DOMAIN w.typeIds THEN [w EXCEPT !.id = w.typeIds[t]]
  ELSE LET m == AddModule(w, heap[t].owner)
           g == InstanceOf(m, t)
       IN  [Write(g, [heap[t] EXCEPT !.owner = m.id, !.ginst = g.id])
              EXCEPT !.typeIds = @ @@ (t :> g.next)]

\* A plausible slip: the type arguments are numbered but not written first.
AddGenericInstanceLate(w, gi) ==
  LET ts == heap[gi].types
      given == [k \in DOMAIN ts |-> IF ts[k] \in DOMAIN w.typeIds
                                      THEN w.typeIds[ts[k]] ELSE w.next + 1]
  IN  LET g == Write(w, [heap[gi] EXCEPT !.types = given])
      IN  [FoldLeft(AddType, g, ts) EXCEPT !.id = g.id]

\* The types first, before the record of the instance; it is not remembered.
AddGenericInstance(w, gi) ==
  LET added == FoldLeft(AddType, w, heap[gi].types)
  IN  Write(added, [heap[gi] EXCEPT !.types =
                      [k \in DOMAIN @ |-> added.typeIds[@[k]]]])

WriteMethod(w, m) ==
  LET t == AddType(w, heap[m].owner)
      g == InstanceOf(t, m)
  IN  Write(g, [heap[m] EXCEPT !.owner = t.id, !.ginst = g.id])

ObjectsOf(kind) == {k \in DOMAIN heap : heap[k].kind = kind}

WriteNextMethod ==
  /\ phase = "methods" /\ at <= Len(methods)
  /\ writer' = WriteMethod(writer, methods[at])
  /\ at' = at + 1
  /\ UNCHANGED <<file, excludedMethods, excludedAssemblies, phase, heap, records, methods>>

\* The types and modules no method led to.
WriteTheRest ==
  /\ phase = "methods" /\ at > Len(methods)
  /\ LET InOrder(kind) == SetToSortSeq(ObjectsOf(kind), <)
     IN  writer' = FoldLeft(AddModule,
                            FoldLeft(AddType, writer, InOrder("TYPE")), InOrder("IMAGE"))
  /\ phase' = "written"
  /\ UNCHANGED <<file, excludedMethods, excludedAssemblies, at, heap, records, methods>>

Next ==
  \/ RecordProfile \/ StartReading \/ ReadRecord \/ Filter
  \/ WriteNextMethod \/ WriteTheRest

Spec == Init /\ [][Next]_vars
-----------------------------------------------------------------------------
\* A file the reader can read: identifiers are given once, and before use.
Readable(f) ==
  \A k \in DOMAIN f :
    LET before == SubSeq(f, 1, k - 1)
        r == f[k]
    IN  /\ \A j \in DOMAIN before : before[j].id # r.id
        /\ r.kind = "TYPE" => r.owner \in Ids(before, "IMAGE")
        /\ r.kind = "METHOD" => r.owner \in Ids(before, "TYPE")
        /\ r.ginst \in Ids(before, "GINST") \cup {None}
        /\ ToSet(r.types) \subseteq Ids(before, "TYPE")

\* What an identifier of file f means, whatever the identifiers are.
RECURSIVE Meaning(_, _)
Meaning(f, id) ==
  IF id = None THEN <<>>
  ELSE LET r == f[CHOOSE k \in DOMAIN f : f[k].id = id]
       IN  <<r.kind, r.name, Meaning(f, r.owner), Meaning(f, r.ginst),
             [k \in DOMAIN r.types |-> Meaning(f, r.types[k])]>>

Meanings(f, kind) ==
  LET selected == SelectSeq(f, LAMBDA r : r.kind = kind)
  IN  [k \in DOMAIN selected |-> Meaning(f, selected[k].id)]

\* Of the meaning of a method: its name, and the name of the module.
Kept(m) == Keeps(m[2], m[3][3][2])

(* The filtered profile says the same as the recorded one of every method  *)
(* that is kept, in the same order, and loses no type and no module; the   *)
(* runtime can read it.  Whatever is shared between methods (types,        *)
(* modules, nested instances) and in whatever order it was recorded.       *)
ProfileKept ==
  phase = "written" =>
    /\ Readable(writer.out)
    /\ Meanings(writer.out, "METHOD") = SelectSeq(Meanings(file, "METHOD"), Kept)
    /\ \A kind \in {"TYPE", "IMAGE"} :
         ToSet(Meanings(writer.out, kind)) = ToSet(Meanings(file, kind))
=============================================================================
