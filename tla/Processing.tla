----------------------------- MODULE Processing -----------------------------
(***************************************************************************)
(* Generation of the artifact crate and of the modules it writes           *)
(* (crates/cxx-memory-abi/src/processing.rs, write_module_for_* of         *)
(* cxx_abi_artifact_info.rs).  A run walks the abi directory in whatever   *)
(* order the file system gives, writes one Rust file per module into the   *)
(* sources of the artifact crate, and abi.rs at the end; the artifact      *)
(* crate then writes one file per module into src/abi.  Either can stop    *)
(* anywhere with an error, and both are run again over what is there.      *)
(***************************************************************************)
EXTENDS Naturals, FiniteSets, Sequences

CONSTANTS
    Entries,  \* what the abi directory may contain: files and directories below it
    AbiDir,   \* the components of the path of the abi directory itself
    MaxRuns   \* how many runs are considered

\* A directory has no extension; foo.json belongs with the directory foo.
Extensions == {"json", "other"}

ASSUME EntriesAssumption ==
    \A e \in Entries : e \in [path : Seq(STRING) \ {<<>>}, ext : {""} \cup Extensions]
ASSUME AbiDirAssumption  == AbiDir \in Seq(STRING)
ASSUME MaxRunsAssumption == MaxRuns \in Nat

VARIABLES
    tree,       \* the entries the abi directory has now
    pending,    \* what the walk has still to yield: the open directories, deepest first
    skip,       \* skip_paths
    walked,     \* the module paths of walked_path_components
    written,    \* written[k]: the file of module k in the sources of the artifact crate
    artifacts,  \* artifacts[k]: the file of module k under src/abi
    todo,       \* the calls of write_module() that process_artifacts() has left
    run,        \* the run: "idle", "walking", "ok", "failed"; then "writing", "done", "broken"
    runs        \* how many runs there were

vars == <<tree, pending, skip, walked, written, artifacts, todo, run, runs>>

-----------------------------------------------------------------------------
(* Paths. *)

IsDir(e)  == e.ext = ""
DirPart(p) == SubSeq(p, 1, Len(p) - 1)
LastPart(p) == p[Len(p)]
Children(T, p) == {e \in T : DirPart(e.path) = p}

\* A mistake to detect: everything up to the last "abi" is dropped.
ComponentsAfterLast(p) ==
    LET full == AbiDir \o p
        abis == {i \in 1 .. Len(full) : full[i] = "abi"}
        last == CHOOSE i \in abis : \A j \in abis : j <= i
    IN  IF abis = {} THEN <<>> ELSE SubSeq(full, last + 1, Len(full))

\* The components after the first one called "abi", all of them without extension.
RelativizedComponents(p) ==
    LET full  == AbiDir \o p
        abis  == {i \in 1 .. Len(full) : full[i] = "abi"}
        first == CHOOSE i \in abis : \A j \in abis : i <= j
    IN  IF abis = {} THEN <<>> ELSE SubSeq(full, first + 1, Len(full))

Root == <<>>
Modules == {Root} \cup {RelativizedComponents(e.path) : e \in Entries}

\* A mistake to detect: file_name() instead of file_stem().
DescendantsWithExtension(T, p) ==
    {IF IsDir(e) THEN LastPart(e.path) ELSE "name.json" : e \in Children(T, p)}

\* find_immediate_path_descendants: the stems of what is in the directory.
Descendants(T, p) == {LastPart(e.path) : e \in Children(T, p)}

\* The directory and the file that make one module with the entry e.
PathDir(T, e)  == {d \in T : IsDir(d) /\ d.path = e.path}

PathFile(T, e) == IF IsDir(e) THEN {f \in T : f.ext = "json" /\ f.path = e.path} ELSE {e}

\* A generated file: torn if writing it was cut short, otherwise the extension of the file
\* its cxx bridge comes from ("" for a plain directory), the modules it declares, and
\* the modules whose write_module() it calls.
Files == [state : {"absent", "torn", "complete"}, from : {""} \cup Extensions,
          mods : SUBSET {LastPart(e.path) : e \in Entries}, calls : SUBSET Modules]

Absent == [state |-> "absent", from |-> "", mods |-> {}, calls |-> {}]
Torn   == [Absent EXCEPT !.state = "torn"]
Complete(f, m, c) == [state |-> "complete", from |-> f, mods |-> m, calls |-> c]

\* What is in a directory is in the tree only with the directory.
Trees == {T \in SUBSET Entries :
             \A e \in T : DirPart(e.path) = <<>> \/ \E d \in T : IsDir(d) /\ d.path = DirPart(e.path)}

Init ==
    /\ tree \in Trees
    /\ pending = <<>> /\ skip = {} /\ walked = {} /\ todo = {}
    /\ written = [k \in Modules |-> Absent]
    /\ artifacts = [k \in Modules |-> Absent]
    /\ run = "idle"
    /\ runs = 0

-----------------------------------------------------------------------------
(* process_src_abi_module: the walk. *)

\* The directory d, if it has something left, is open before the others.
Open(d, dirs) == IF d = {} THEN dirs ELSE <<d>> \o dirs

StartRun ==
    /\ run \in {"idle", "ok", "failed", "broken", "done"}
    /\ runs < MaxRuns
    /\ pending' = Open(Children(tree, <<>>), <<>>)
    /\ skip' = {} /\ walked' = {} /\ todo' = {}
    /\ run' = "walking"
    /\ runs' = runs + 1
    /\ UNCHANGED <<tree, written, artifacts>>

\* A directory is yielded before its contents, and they before its siblings.
Yield(e) ==
    LET rest == Open(Head(pending) \ {e}, Tail(pending))
    IN  /\ run = "walking"
        /\ pending # <<>>
        /\ e \in Head(pending)
        /\ pending' = IF IsDir(e) THEN Open(Children(tree, e.path), rest) ELSE rest

SkipEntry(e) ==
    /\ Yield(e)
    /\ e \in skip
    /\ UNCHANGED <<tree, skip, walked, written, artifacts, todo, run, runs>>

\* A mistake to detect: the directory that goes with a JSON file is not looked into.
ModuleFileUnjoined(T, e) ==
    Complete(IF PathFile(T, e) = {} THEN "" ELSE "json",
             IF IsDir(e) THEN Descendants(T, e.path) ELSE {}, {})

ModuleFile(T, e) ==
    LET f == PathFile(T, e)
    IN  Complete(IF f = {} THEN "" ELSE (CHOOSE x \in f : TRUE).ext,
                 IF PathDir(T, e) = {} THEN {} ELSE Descendants(T, e.path), {})

\* A mistake to detect: only the directory is marked as seen.
SkippedDirectory(T, e) == PathDir(T, e)

\* What one entry's processing marks as seen.
Skipped(T, e) == PathDir(T, e) \cup PathFile(T, e)

\* The file of the module is written from the directory and the JSON file of that name.
ProcessEntry(e) ==
    LET k == RelativizedComponents(e.path)
    IN  /\ Yield(e)
        /\ e \notin skip
        /\ skip' = skip \cup Skipped(tree, e)
        /\ walked' = walked \cup {k}
        /\ written' = [written EXCEPT ![k] = ModuleFile(tree, e)]
        /\ UNCHANGED <<tree, artifacts, todo, run, runs>>

\* A mistake to detect: process_artifacts() forgets abi.rs itself.
RootFileUncalled == Complete("", Descendants(tree, <<>>), walked)

\* abi.rs: the modules of the top level, and process_artifacts(), which calls the
\* write_module() of every module.
RootFile == Complete("", Descendants(tree, <<>>), {Root} \cup walked)

FinishRun ==
    /\ run = "walking"
    /\ pending = <<>>
    /\ written' = [written EXCEPT ![Root] = RootFile]
    /\ run' = "ok"
    /\ UNCHANGED <<tree, pending, skip, walked, artifacts, todo, runs>>

\* An error of the walk, of a file's contents, of the formatter or of the file system
\* ends the run; the file being written may be cut short.
FailRun ==
    /\ run = "walking"
    /\ run' = "failed"
    /\ \/ UNCHANGED written
       \/ pending = <<>> /\ written' = [written EXCEPT ![Root] = Torn]
       \/ /\ pending # <<>>
          /\ \E e \in Head(pending) \ skip :
                written' = [written EXCEPT ![RelativizedComponents(e.path)] = Torn]
    /\ UNCHANGED <<tree, pending, skip, walked, artifacts, todo, runs>>

-----------------------------------------------------------------------------
(* process_artifacts() of the artifact crate: the root first, a module before *)
(* the modules below it (the code sorts them).                                *)

StartArtifacts ==
    /\ run = "ok"
    /\ run' = "writing"
    /\ todo' = written[Root].calls
    /\ UNCHANGED <<tree, pending, skip, walked, written, artifacts, runs>>

IsAbove(k, l) == Len(k) < Len(l) /\ SubSeq(l, 1, Len(k)) = k

MayWrite(k) == run = "writing" /\ k \in todo /\ \A l \in todo : ~IsAbove(l, k)

ArtifactFile(f) == Complete(f.from, f.mods, {})

WriteModule(k) ==
    /\ MayWrite(k)
    /\ artifacts' = [artifacts EXCEPT ![k] = ArtifactFile(written[k])]
    /\ todo' = todo \ {k}
    /\ UNCHANGED <<tree, pending, skip, walked, written, run, runs>>

WriteModuleFails(k) ==
    /\ MayWrite(k)
    /\ artifacts' \in {artifacts, [artifacts EXCEPT ![k] = Torn]}
    /\ run' = "broken"
    /\ UNCHANGED <<tree, pending, skip, walked, written, todo, runs>>

FinishArtifacts ==
    /\ run = "writing"
    /\ todo = {}
    /\ run' = "done"
    /\ UNCHANGED <<tree, pending, skip, walked, written, artifacts, todo, runs>>

\* Between runs the directory is edited; what was generated stays.
EditTree ==
    /\ run \in {"ok", "failed", "broken", "done"}
    /\ runs < MaxRuns
    /\ tree' \in Trees \ {tree}
    /\ run' = "idle"
    /\ UNCHANGED <<pending, skip, walked, written, artifacts, todo, runs>>

Next ==
    \/ StartRun \/ FinishRun \/ FailRun
    \/ \E e \in Entries : SkipEntry(e) \/ ProcessEntry(e)
    \/ StartArtifacts \/ FinishArtifacts
    \/ \E k \in Modules : WriteModule(k) \/ WriteModuleFails(k)
    \/ EditTree

Spec == Init /\ [][Next]_vars

-----------------------------------------------------------------------------
\* Every variable keeps its type.
ProcessingTypeOK ==
    /\ tree \in Trees
    /\ pending \in Seq(SUBSET Entries)
    /\ skip \subseteq Entries /\ walked \subseteq Modules /\ todo \subseteq Modules
    /\ written \in [Modules -> Files] /\ artifacts \in [Modules -> Files]
    /\ run \in {"idle", "walking", "ok", "failed", "writing", "done", "broken"}
    /\ runs \in 0 .. MaxRuns

\* Every file of the abi directory is a JSON file: no backups, no notes.
Clean(T) == \A e \in T : e.ext # "other"

\* The abi directory is the first component of its path that is called "abi".
WellPlaced == {i \in DOMAIN AbiDir : AbiDir[i] = "abi"} = {Len(AbiDir)}

Names(T) == {Root} \cup {e.path : e \in T}

\* What the module k should be, read off the directory.
ExpectedFile(T, k) ==
    Complete(IF \E e \in T : e.path = k /\ e.ext = "json" THEN "json" ELSE "",
             {n[Len(k) + 1] : n \in {m \in Names(T) : Len(m) = Len(k) + 1 /\ IsAbove(k, m)}},
             IF k = Root THEN Names(T) ELSE {})

Generated == run \in {"ok", "writing", "done", "broken"}

\* Whatever order the walk took and whatever earlier runs left behind, a run that ends
\* well has written every module as its directory and its JSON file say
\* (process_src_abi_sub_module).
OutputExact ==
    Generated /\ WellPlaced /\ Clean(tree) =>
        \A k \in Names(tree) : written[k] = ExpectedFile(tree, k)

\* The files a compiler finds from the root through the mod declarations.
Reachable(files) ==
    {k \in Modules : \A i \in 1 .. Len(k) : k[i] \in files[SubSeq(k, 1, i - 1)].mods}

Resolves(files, T) ==
    /\ Reachable(files) = Names(T)
    /\ \A k \in Reachable(files) : files[k].state = "complete"

\* After a run that ends well every declared module has its file, whole, every entry of
\* the directory is compiled in, and nothing left over from an earlier run is; with
\* files of other kinds in the directory, too.
CrateResolves == Generated /\ WellPlaced => Resolves(written, tree)

\* The same of src/abi once process_artifacts() has ended well.
ArtifactsResolve == run = "done" /\ WellPlaced => Resolves(artifacts, tree)

\* Within a run no module is written twice: the directory foo and the file foo.json are
\* one module, whichever of them the walk meets first (skip_paths).
WrittenOnce ==
    [][run = "walking" /\ Clean(tree) => \A k \in walked : written'[k] = written[k]]_vars

=============================================================================
