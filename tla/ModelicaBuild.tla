--------------------------- MODULE ModelicaBuild ---------------------------
(***************************************************************************)
(* ModelicaAssetStagingService.stage over LocalModelicaAssetStore and      *)
(* OpenModelicaCompiler: several builds of one project root at a time, in  *)
(* threads or processes that share only the directories.                   *)
(*                                                                         *)
(* A build copies the user's source file into a workspace of its own, lets *)
(* OpenModelica compile the copy, and renames the workspace, stripped of   *)
(* what the compiler left in it, into modelica-builds/.  Meanwhile the     *)
(* user may save the source file again, and whoever has access to the      *)
(* workspace may change the copy, and change it back.  build_id is a fresh *)
(* uuid4, so that the directory of a build is never taken.                 *)
(*                                                                         *)
(* Reading a file, to hash it or to copy it, takes two halves, between     *)
(* which the user may save; a file is the sequence of the versions its     *)
(* halves come from.  Two files have the same SHA-256 exactly when they    *)
(* are equal.  The copy is hashed, and compiled, in one step: it is only   *)
(* replaced as a whole.                                                    *)
(***************************************************************************)
EXTENDS Naturals, Sequences

CONSTANTS
    Builds,     \* the builds that run at a time
    MaxEdits,   \* bound: how often the user saves the source file
    MaxTampers, \* bound: how often a copy in a workspace is changed or put back
    MaxCrashes, \* bound: how many of the processes are killed
    MaxTogether \* bound: how often any of the three happens

ASSUME BoundAssumption == {MaxEdits, MaxTampers, MaxCrashes, MaxTogether} \subseteq Nat

VARIABLES
    source,       \* version of the user's file
    edits,        \* how often it was saved
    tampers,      \* how often a copy was changed or put back
    changed,      \* the builds whose copy holds something else at the moment
    putBack,      \* those where it was put back after it had been compiled
    crashes,      \* how many processes were killed
    stagingRoot,  \* does .farcel-modelica-staging exist
    buildsRoot,   \* does modelica-builds exist
    place,        \* where the directory of each build stands
    entries,      \* what is in it
    snapshot,     \* the halves source/model.mo was copied from
    before,       \* the locals of _copy_consistent_source: the three hashes
    snapshotHash,
    after,
    recorded,     \* source_snapshot.sha256
    built,        \* the source the FMU was compiled from
    temp,         \* does the compiler's temporary directory exist
    omc,          \* the OpenModelica process
    pc,           \* the point each build is at
    failure,      \* the exception on its way, or none
    undoing,      \* what _discard_owned_directory was called for
    dirty         \* the builds whose own cleanup raised

outside == <<source, edits, tampers, changed, putBack, crashes>>
roots == <<stagingRoot, buildsRoot>>
hashes == <<before, snapshotHash, after>>
package == <<place, entries, snapshot, recorded, hashes>>
compiler == <<built, temp, omc>>
control == <<pc, failure, undoing, dirty>>
vars == <<outside, roots, package, compiler, control>>

\* Two contents of the user's file and one that is not his: he may go back.
Versions == {0, 1}
Whole(version) == <<version, version>>
Tampered == Whole(2)
NoFile == <<>>

\* What source/model.mo holds.
Copy(b) == IF b \in changed /\ snapshot[b] # NoFile THEN Tampered ELSE snapshot[b]

Init ==
    /\ source = 0 /\ edits = 0
    /\ tampers = 0 /\ changed = {} /\ putBack = {} /\ crashes = 0
    /\ stagingRoot = FALSE /\ buildsRoot \in BOOLEAN
    /\ place = [b \in Builds |-> "none"]
    /\ entries = [b \in Builds |-> {}]
    /\ snapshot = [b \in Builds |-> NoFile]
    /\ before = [b \in Builds |-> NoFile]
    /\ snapshotHash = [b \in Builds |-> NoFile]
    /\ after = [b \in Builds |-> NoFile]
    /\ recorded = [b \in Builds |-> NoFile]
    /\ built = [b \in Builds |-> NoFile]
    /\ temp = [b \in Builds |-> FALSE]
    /\ omc = [b \in Builds |-> "none"]
    /\ pc = [b \in Builds |-> "request"]
    /\ failure = [b \in Builds |-> "none"]
    /\ undoing = [b \in Builds |-> "no"]
    /\ dirty = {}

-----------------------------------------------------------------------------
(* Where an exception goes from the point it is raised at. *)

At(b, point) == pc[b] = point
Goto(b, point) ==
    /\ pc' = [pc EXCEPT ![b] = point]
    /\ UNCHANGED <<failure, undoing, dirty>>

InPrepare == {"marker", "source_dir", "before1", "before2", "copy1", "copy2", "hash_copy",
              "after1", "after2", "compare", "output_dir"}
InCompiler == {"script", "start", "communicate", "collect", "validate", "output", "leave"}
InStage == {"verify", "discover", "temp", "verify_compiled", "provenance", "package",
            "strip", "layout", "builds_root", "builds_mkdir", "builds_resolve",
            "rename", "asset"}

\* stage discards the workspace for an EngineError only.
DiscardsNothing == {}
DiscardsFor == {"error"}

\* An exception of kind "error" (an EngineError) or "raised" (any other).
Raise(b, kind) ==
    /\ failure' = [failure EXCEPT ![b] = kind]
    /\ UNCHANGED dirty
    /\ CASE pc[b] \in InCompiler \ {"leave"} ->
              /\ pc' = [pc EXCEPT ![b] = "leave"]
              /\ UNCHANGED undoing
         [] pc[b] \in InPrepare ->
              /\ pc' = [pc EXCEPT ![b] = "undo"]
              /\ undoing' = [undoing EXCEPT ![b] = "prepare"]
         [] pc[b] \in InStage \cup {"leave"} /\ kind \in DiscardsFor ->
              /\ pc' = [pc EXCEPT ![b] = "undo"]
              /\ undoing' = [undoing EXCEPT ![b] = "stage"]
         [] OTHER ->
              /\ pc' = [pc EXCEPT ![b] = "done"]
              /\ UNCHANGED undoing

End(b) == Goto(b, "done")

-----------------------------------------------------------------------------
(* prepare_source_snapshot. *)

\* The request, project_root, build_id and the source file are looked at.
Request(b) ==
    /\ At(b, "request")
    /\ Goto(b, "root") \/ Raise(b, "error")
    /\ UNCHANGED <<outside, roots, package, compiler>>

\* _controlled_directory: exists, mkdir and resolve are three calls.
StagingRoot(b) ==
    /\ At(b, "root")
    /\ Goto(b, IF stagingRoot THEN "root_resolve" ELSE "root_mkdir")
    /\ UNCHANGED <<outside, roots, package, compiler>>

MakeStagingRoot(b) ==
    /\ At(b, "root_mkdir")
    /\ \/ /\ ~stagingRoot /\ stagingRoot' = TRUE /\ Goto(b, "root_resolve")
       \/ Raise(b, "error") /\ UNCHANGED stagingRoot
    /\ UNCHANGED <<outside, buildsRoot, package, compiler>>

ResolveStagingRoot(b) ==
    /\ At(b, "root_resolve")
    /\ \/ stagingRoot /\ Goto(b, "mkdir")
       \/ Raise(b, "error")
    /\ UNCHANGED <<outside, roots, package, compiler>>

MakeWorkspace(b) ==
    /\ At(b, "mkdir")
    /\ \/ /\ stagingRoot /\ place' = [place EXCEPT ![b] = "staging"]
          /\ Goto(b, "marker")
       \/ Raise(b, "error") /\ UNCHANGED place
    /\ UNCHANGED <<outside, roots, entries, snapshot, recorded, hashes, compiler>>

Creates(b, entry) == entries' = [entries EXCEPT ![b] = @ \cup {entry}]

\* _write_marker and the two mkdir raise what the file system raises.
FillWorkspace(b) ==
    /\ \E step \in {<<"marker", "marker", "source_dir">>, <<"source_dir", "source", "before1">>,
                    <<"output_dir", "compiler-output", "verify">>} :
         /\ At(b, step[1])
         /\ \/ Creates(b, step[2]) /\ Goto(b, step[3])
            \/ Raise(b, "raised") /\ UNCHANGED entries
    /\ UNCHANGED <<outside, roots, place, snapshot, recorded, hashes, compiler>>

\* _copy_consistent_source: each reading of the user's file is two halves.  Its
\* locals are gone when it returns or raises.
Forget(b) ==
    /\ before' = [before EXCEPT ![b] = NoFile]
    /\ snapshotHash' = [snapshotHash EXCEPT ![b] = NoFile]
    /\ after' = [after EXCEPT ![b] = NoFile]
SnapshotFails(b) == Raise(b, "error") /\ Forget(b)

HashBefore(b) ==
    /\ \E step \in {<<"before1", "before2">>, <<"before2", "copy1">>} :
         /\ At(b, step[1])
         /\ \/ /\ before' = [before EXCEPT ![b] = Append(@, source)]
               /\ Goto(b, step[2]) /\ UNCHANGED <<snapshotHash, after>>
            \/ SnapshotFails(b)
    /\ UNCHANGED <<outside, roots, place, entries, snapshot, recorded, compiler>>

CopySource(b) ==
    /\ \E step \in {<<"copy1", "copy2">>, <<"copy2", "hash_copy">>} :
         /\ At(b, step[1])
         /\ \/ /\ snapshot' = [snapshot EXCEPT ![b] = Append(@, source)]
               /\ Goto(b, step[2]) /\ UNCHANGED hashes
            \/ SnapshotFails(b) /\ UNCHANGED snapshot
    /\ UNCHANGED <<outside, roots, place, entries, recorded, compiler>>

HashCopy(b) ==
    /\ At(b, "hash_copy")
    /\ \/ /\ snapshotHash' = [snapshotHash EXCEPT ![b] = Copy(b)]
          /\ Goto(b, "after1") /\ UNCHANGED <<before, after>>
       \/ SnapshotFails(b)
    /\ UNCHANGED <<outside, roots, place, entries, snapshot, recorded, compiler>>

HashAfter(b) ==
    /\ \E step \in {<<"after1", "after2">>, <<"after2", "compare">>} :
         /\ At(b, step[1])
         /\ \/ /\ after' = [after EXCEPT ![b] = Append(@, source)]
               /\ Goto(b, step[2]) /\ UNCHANGED <<before, snapshotHash>>
            \/ SnapshotFails(b)
    /\ UNCHANGED <<outside, roots, place, entries, snapshot, recorded, compiler>>

TrustsTheSource(b) == before[b] = after[b]
Consistent(b) == before[b] = after[b] /\ snapshotHash[b] = before[b]

Compare(b) ==
    /\ At(b, "compare")
    /\ \/ /\ Consistent(b) /\ Forget(b)
          /\ recorded' = [recorded EXCEPT ![b] = snapshotHash[b]]
          /\ Goto(b, "output_dir")
       \/ ~Consistent(b) /\ SnapshotFails(b) /\ UNCHANGED recorded
    /\ UNCHANGED <<outside, roots, place, entries, snapshot, compiler>>

-----------------------------------------------------------------------------
(* OpenModelicaCompiler.compile. *)

\* verify_source_snapshot: the marker and the hash of the copy.
SnapshotIntact(b) == "marker" \in entries[b] /\ Copy(b) = recorded[b]

VerifySnapshot(b) ==
    /\ At(b, "verify")
    /\ \/ SnapshotIntact(b) /\ Goto(b, "discover")
       \/ Raise(b, "error")
    /\ UNCHANGED <<outside, roots, package, compiler>>

\* _resolve_compiler: a compiler is found and answers --version in time.
Discover(b) ==
    /\ At(b, "discover")
    /\ Goto(b, "temp") \/ Raise(b, "error")
    /\ UNCHANGED <<outside, roots, package, compiler>>

EnterTemporary(b) ==
    /\ At(b, "temp")
    /\ \/ temp' = [temp EXCEPT ![b] = TRUE] /\ Goto(b, "script")
       \/ Raise(b, "raised") /\ UNCHANGED temp
    /\ UNCHANGED <<outside, roots, package, built, omc>>

\* A control character in the path is an EngineError, a failed write is not.
WriteScript(b) ==
    /\ At(b, "script")
    /\ Goto(b, "start") \/ \E kind \in {"error", "raised"} : Raise(b, kind)
    /\ UNCHANGED <<outside, roots, package, compiler>>

StartOmc(b) ==
    /\ At(b, "start")
    /\ \/ omc' = [omc EXCEPT ![b] = "running"] /\ Goto(b, "communicate")
       \/ Raise(b, "error") /\ UNCHANGED omc
    /\ UNCHANGED <<outside, roots, package, built, temp>>

\* The process compiles what it finds and ends, well or not.
OmcEnds(b) ==
    /\ omc[b] = "running"
    /\ \E ending \in {"bad"} \cup (IF snapshot[b] # NoFile THEN {"good"} ELSE {}) :
         omc' = [omc EXCEPT ![b] = ending]
    /\ built' = [built EXCEPT ![b] = Copy(b)]
    /\ UNCHANGED <<outside, roots, package, temp, control>>

Communicate(b) ==
    /\ At(b, "communicate")
    /\ omc[b] # "running" /\ Goto(b, "collect")
    /\ UNCHANGED <<outside, roots, package, compiler>>

\* _run_omc gives up; _terminate_process_tree kills as far as it can.
TimeOut(b) ==
    /\ At(b, "communicate")
    /\ \/ omc' = [omc EXCEPT ![b] = IF @ = "running" THEN "bad" ELSE @] /\ UNCHANGED dirty
       \/ omc[b] = "running" /\ dirty' = dirty \cup {b} /\ UNCHANGED omc
    /\ failure' = [failure EXCEPT ![b] = "error"]
    /\ pc' = [pc EXCEPT ![b] = "leave"]
    /\ UNCHANGED <<outside, roots, package, built, temp, undoing>>

\* KeyboardInterrupt: the process is in a session of its own and goes on.
Interrupt(b) ==
    /\ At(b, "communicate")
    /\ Raise(b, "raised")
    /\ UNCHANGED <<outside, roots, package, compiler>>

\* The exit code and the three markers of the output.
Collect(b) ==
    /\ At(b, "collect")
    /\ \/ omc[b] = "good" /\ Goto(b, "validate")
       \/ Raise(b, "error")
    /\ UNCHANGED <<outside, roots, package, compiler>>

\* _validate_fmu: a zip with an FMI 2.0 Co-Simulation description; the hash.
ValidateFmu(b) ==
    /\ At(b, "validate")
    /\ Goto(b, "output") \/ \E kind \in {"error", "raised"} : Raise(b, kind)
    /\ UNCHANGED <<outside, roots, package, compiler>>

\* _publish_fmu into compiler-output; a failed copy is removed again.
PublishFmu(b) ==
    /\ At(b, "output")
    /\ \/ Goto(b, "leave")
       \/ \E kind \in {"error", "raised"} : Raise(b, kind)
    /\ UNCHANGED <<outside, roots, package, compiler>>

\* The end of the with block, reached with or without an exception.
LeaveTemporary(b) ==
    /\ At(b, "leave")
    /\ temp' = [temp EXCEPT ![b] = FALSE]
    /\ \/ failure[b] = "none" /\ Goto(b, "verify_compiled")
       \/ failure[b] # "none" /\ Raise(b, failure[b])
    /\ UNCHANGED <<outside, roots, package, built, omc>>

\* rmtree of TemporaryDirectory raises over whatever was on its way.
LeaveTemporaryFails(b) ==
    /\ At(b, "leave")
    /\ Raise(b, "raised")
    /\ UNCHANGED <<outside, roots, package, compiler>>

-----------------------------------------------------------------------------
(* publish_verified_build and the asset check. *)

\* The snapshot once more, then the result against the request.
VerifyCompiled(b) ==
    /\ At(b, "verify_compiled")
    /\ \/ SnapshotIntact(b) /\ Goto(b, "provenance")
       \/ Raise(b, "error")
    /\ UNCHANGED <<outside, roots, package, compiler>>

\* The record of the build, made from the snapshot as it was hashed by
\* prepare_source_snapshot, and its semantic checks.
RecordProvenance(b) ==
    /\ At(b, "provenance")
    /\ Goto(b, "package") \/ Raise(b, "error")
    /\ UNCHANGED <<outside, roots, package, compiler>>

PackageFmu(b) ==
    /\ At(b, "package")
    /\ \/ SnapshotIntact(b) /\ Creates(b, "model") /\ Goto(b, "strip")
       \/ /\ Raise(b, "error")
          /\ \E made \in SUBSET {"model"} : entries' = [entries EXCEPT ![b] = @ \cup made]
    /\ UNCHANGED <<outside, roots, place, snapshot, recorded, hashes, compiler>>

StripCompilerOutput(b) ==
    /\ At(b, "strip")
    /\ \/ /\ SnapshotIntact(b)
          /\ entries' = [entries EXCEPT ![b] = @ \ {"compiler-output"}]
          /\ Goto(b, "layout")
       \/ Raise(b, "error") /\ UNCHANGED entries
    /\ UNCHANGED <<outside, roots, place, snapshot, recorded, hashes, compiler>>

Layout == {"marker", "source", "model"}

VerifyLayout(b) ==
    /\ At(b, "layout")
    /\ \/ entries[b] = Layout /\ Goto(b, "builds_root")
       \/ Raise(b, "error")
    /\ UNCHANGED <<outside, roots, package, compiler>>

BuildsRoot(b) ==
    /\ At(b, "builds_root")
    /\ Goto(b, IF buildsRoot THEN "builds_resolve" ELSE "builds_mkdir")
    /\ UNCHANGED <<outside, roots, package, compiler>>

MakeBuildsRoot(b) ==
    /\ At(b, "builds_mkdir")
    /\ \/ /\ ~buildsRoot /\ buildsRoot' = TRUE /\ Goto(b, "builds_resolve")
       \/ Raise(b, "error") /\ UNCHANGED buildsRoot
    /\ UNCHANGED <<outside, stagingRoot, package, compiler>>

ResolveBuildsRoot(b) ==
    /\ At(b, "builds_resolve")
    /\ Goto(b, "rename") \/ Raise(b, "error")
    /\ UNCHANGED <<outside, roots, package, compiler>>

\* os.rename: the whole directory or nothing.
Rename(b) ==
    /\ At(b, "rename")
    /\ \/ place' = [place EXCEPT ![b] = "builds"] /\ Goto(b, "asset")
       \/ Raise(b, "error") /\ UNCHANGED place
    /\ UNCHANGED <<outside, roots, entries, snapshot, recorded, hashes, compiler>>

\* ProjectAssetValidator.check reads the published FMU again; what does not
\* pass is discarded, then the EngineError is raised.
CheckAsset(b) ==
    /\ At(b, "asset")
    /\ \/ End(b)
       \/ /\ pc' = [pc EXCEPT ![b] = "undo"]
          /\ undoing' = [undoing EXCEPT ![b] = "published"]
          /\ failure' = [failure EXCEPT ![b] = "error"]
          /\ UNCHANGED dirty
    /\ UNCHANGED <<outside, roots, package, compiler>>

-----------------------------------------------------------------------------
(* _discard_owned_directory. *)

\* Its own EngineError: it replaces the exception in prepare_source_snapshot
\* and is dropped by stage.
CleanupRaises(b) ==
    /\ pc' = [pc EXCEPT ![b] = "done"]
    /\ failure' = [failure EXCEPT ![b] = IF undoing[b] = "prepare" THEN "error" ELSE @]
    /\ UNCHANGED undoing

Owned(b) == "marker" \in entries[b]
Gone(b) == place[b] # (IF undoing[b] = "published" THEN "builds" ELSE "staging")

Undo(b) ==
    /\ At(b, "undo")
    /\ \/ Gone(b) /\ End(b)
       \/ ~Gone(b) /\ ~Owned(b) /\ CleanupRaises(b) /\ dirty' = dirty \cup {b}
       \/ ~Gone(b) /\ Owned(b) /\ Goto(b, "remove")
    /\ UNCHANGED <<outside, roots, package, compiler>>

\* rmtree takes the entries in the order the directory lists them.
RemoveEntry(b) ==
    /\ At(b, "remove") /\ entries[b] # {}
    /\ \E entry \in entries[b] : entries' = [entries EXCEPT ![b] = @ \ {entry}]
    /\ UNCHANGED <<outside, roots, place, snapshot, recorded, hashes, compiler, control>>

RemoveFails(b) ==
    /\ At(b, "remove")
    /\ CleanupRaises(b) /\ dirty' = dirty \cup {b}
    /\ UNCHANGED <<outside, roots, package, compiler>>

RemoveDirectory(b) ==
    /\ At(b, "remove") /\ entries[b] = {}
    /\ place' = [place EXCEPT ![b] = "none"]
    /\ snapshot' = [snapshot EXCEPT ![b] = NoFile]
    /\ recorded' = [recorded EXCEPT ![b] = NoFile]
    /\ built' = [built EXCEPT ![b] = NoFile]
    /\ IF undoing[b] = "published" THEN End(b) ELSE Goto(b, "rmdir")
    /\ UNCHANGED <<outside, roots, entries, hashes, temp, omc>>

\* parent.rmdir: refused while another build works there.
RemoveStagingRoot(b) ==
    /\ At(b, "rmdir")
    /\ \/ /\ stagingRoot /\ \A c \in Builds : place[c] # "staging"
          /\ stagingRoot' = FALSE /\ End(b)
       \/ CleanupRaises(b) /\ UNCHANGED <<stagingRoot, dirty>>
    /\ UNCHANGED <<outside, buildsRoot, package, compiler>>

-----------------------------------------------------------------------------
(* The user, whoever reaches the workspace, and the end of the process. *)

InBound == edits + tampers + crashes < MaxTogether

EditSource ==
    /\ InBound /\ edits < MaxEdits /\ edits' = edits + 1
    /\ source' \in Versions \ {source}
    /\ UNCHANGED <<tampers, changed, putBack, crashes, roots, package, compiler, control>>

\* The copy in a workspace becomes another file, or what it was.
Tamper(b) ==
    /\ tampers < MaxTampers /\ InBound /\ tampers' = tampers + 1
    /\ place[b] = "staging" /\ Len(snapshot[b]) = 2
    /\ \/ b \notin changed /\ changed' = changed \cup {b} /\ UNCHANGED putBack
       \/ /\ b \in changed /\ changed' = changed \ {b}
          /\ putBack' = IF built[b] = Tampered THEN putBack \cup {b} ELSE putBack
    /\ UNCHANGED <<source, edits, crashes, roots, package, compiler, control>>

Crash(b) ==
    /\ ~At(b, "done")
    /\ InBound /\ crashes < MaxCrashes /\ crashes' = crashes + 1
    /\ pc' = [pc EXCEPT ![b] = "done"]
    /\ failure' = [failure EXCEPT ![b] = "crashed"]
    /\ UNCHANGED <<source, edits, tampers, changed, putBack, roots, package, compiler,
                   undoing, dirty>>

AllDone ==
    /\ \A b \in Builds : At(b, "done") /\ omc[b] # "running"
    /\ UNCHANGED vars

Prepare(b) ==
    \/ Request(b) \/ StagingRoot(b) \/ MakeStagingRoot(b) \/ ResolveStagingRoot(b)
    \/ MakeWorkspace(b) \/ FillWorkspace(b)
    \/ HashBefore(b) \/ CopySource(b) \/ HashCopy(b) \/ HashAfter(b) \/ Compare(b)
Compile(b) ==
    \/ VerifySnapshot(b) \/ Discover(b) \/ EnterTemporary(b) \/ WriteScript(b)
    \/ StartOmc(b) \/ OmcEnds(b) \/ Communicate(b) \/ TimeOut(b) \/ Interrupt(b)
    \/ Collect(b) \/ ValidateFmu(b) \/ PublishFmu(b) \/ LeaveTemporary(b) \/ LeaveTemporaryFails(b)
Publish(b) ==
    \/ VerifyCompiled(b) \/ RecordProvenance(b) \/ PackageFmu(b) \/ StripCompilerOutput(b)
    \/ VerifyLayout(b) \/ BuildsRoot(b) \/ MakeBuildsRoot(b) \/ ResolveBuildsRoot(b) \/ Rename(b) \/ CheckAsset(b)
Discard(b) ==
    \/ Undo(b) \/ RemoveEntry(b) \/ RemoveFails(b) \/ RemoveDirectory(b) \/ RemoveStagingRoot(b)

Next ==
    \/ \E b \in Builds : Prepare(b) \/ Compile(b) \/ Publish(b) \/ Discard(b) \/ Tamper(b) \/ Crash(b)
    \/ EditSource
    \/ AllDone

Spec == Init /\ [][Next]_vars

-----------------------------------------------------------------------------
(* Properties. *)

\* A directory under modelica-builds is a whole package from the moment it
\* appears, crashes included, until the build that made it takes it back: its
\* layout is the frozen one, and its FMU was compiled from the very source the
\* provenance records, which is one version of the user's file and not a mix
\* of two (_copy_consistent_source, verify_source_snapshot,
\* _verify_publishable_build_layout).  Two things no hash can see are excepted:
\* a copy that was changed, compiled and put back between two looks at it, and
\* a file the user saved back and forth in the middle of each of the three
\* readings, which takes five saves.
PublishedWhole ==
    \A b \in Builds :
        place[b] = "builds" /\ undoing[b] # "published" =>
            /\ entries[b] = Layout
            /\ built[b] = recorded[b] \/ b \in putBack
            /\ \/ \E version \in Versions : recorded[b] = Whole(version)
               \/ edits >= 5

\* A build that ends with an EngineError leaves nothing behind: no workspace,
\* no package, no temporary directory and no OpenModelica process, whichever
\* call failed and whatever other builds did to the shared directories, unless
\* a call of its own cleanup raised (stage, _discard_owned_directory,
\* _terminate_process_tree).
CleanFailure ==
    \A b \in Builds :
        At(b, "done") /\ failure[b] = "error" /\ b \notin dirty =>
            place[b] = "none" /\ ~temp[b] /\ omc[b] # "running"
=============================================================================
