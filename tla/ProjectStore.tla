---------------------------- MODULE ProjectStore ----------------------------
(***************************************************************************)
(* One project directory shared by processes that know nothing of each     *)
(* other: project.json behind LocalJsonProjectRepository, the artifacts of *)
(* results/, and the four workflows that write them: a batch of cases      *)
(* (ProjectBatchService over run_project_case and persist_run), an editor  *)
(* (open_project, save_project), the registration of a Modelica build      *)
(* (compile_and_register) and the migration of schema 1.0.                 *)
(*                                                                         *)
(* A document is what project.json says: the digest of two documents is    *)
(* the same exactly when they are equal.  A temporary file is never read,  *)
(* so its writing is part of the replacement except where another process  *)
(* may act in between.  Every process may crash at any point; the next     *)
(* one to open the project plays the restart, and a migration is tried     *)
(* again by the same one.  A run id is a fresh uuid4.                      *)
(***************************************************************************)
EXTENDS Naturals, Sequences, SequencesExt

CONSTANTS
    Actors,      \* the processes
    Role,        \* what each of them does
    Cases,       \* the case_ids a batch is asked for, in order
    FirstSchema  \* schema_version of the project found on disk

Roles == {"batch", "editor", "builder", "migrator"}

ASSUME RoleAssumption == Role \in [Actors -> Roles]
ASSUME CasesAssumption ==
    /\ Cases \in Seq(ToSet(Cases)) /\ Cases # <<>>
    /\ \A i, j \in DOMAIN Cases : Cases[i] = Cases[j] => i = j
ASSUME SchemaAssumption == FirstSchema \subseteq {"1.0", "1.1"}

VARIABLES
    disk,        \* project.json
    artifacts,   \* results/<run_id>.json
    published,   \* build packages under modelica-builds/
    backups,     \* backup files, by the document they are named for
    pc,          \* the point each process is at
    mine,        \* the SimulationProject each process holds
    items,       \* the records a batch has collected
    result,      \* the result of the case that has just run
    out,         \* how each process ended
    stop,        \* RunControl of the batches
    foreign      \* auxiliary: another process wrote since this one looked

private == <<pc, mine, items, result, out>>
vars == <<disk, artifacts, published, backups, private, stop, foreign>>

NoResult == [run |-> "none"]
Nothing == [kind |-> "none", code |-> "none", completed |-> <<>>]
Empty(schema) == [schema |-> schema, history |-> <<>>, builds |-> <<>>, edits |-> {}]

Init ==
    /\ disk \in {Empty(s) : s \in FirstSchema}
    /\ artifacts = {} /\ published = {} /\ backups = {}
    /\ pc = [a \in Actors |-> "open"]
    /\ mine = [a \in Actors |-> disk]
    /\ items = [a \in Actors |-> <<>>]
    /\ result = [a \in Actors |-> NoResult]
    /\ out = [a \in Actors |-> Nothing]
    /\ stop = FALSE
    /\ foreign = [a \in Actors |-> FALSE]

-----------------------------------------------------------------------------
(* Moves of a process, reads and writes of project.json. *)

At(a, point) == pc[a] = point
Goto(a, point) == pc' = [pc EXCEPT ![a] = point]
End(a, kind, code) ==
    /\ Goto(a, "done")
    /\ out' = [out EXCEPT ![a] = [kind |-> kind, code |-> code, completed |-> items[a]]]
Fail(a, code) == End(a, "error", code)

Looked(a) == foreign' = [foreign EXCEPT ![a] = FALSE]

\* ProjectValidator.validate, as far as it depends on what the processes do to
\* the document and its files: the schema, the builds with their packages, and
\* the history with the cases it names.
ValidIdentity(d) == d.schema \in {"1.0", "1.1"} /\ (d.schema = "1.0" => d.builds = <<>>)
ValidBuilds(d) == IsInjective(d.builds) /\ ToSet(d.builds) \subseteq published
ValidHistory(d) ==
    /\ \A i, j \in DOMAIN d.history : d.history[i].run = d.history[j].run => i = j
    /\ \A i \in DOMAIN d.history : d.history[i].case \in ToSet(Cases)
ValidProject(d) == ValidIdentity(d) /\ ValidBuilds(d) /\ ValidHistory(d)

\* _encode_project refuses what it could not read back.
Encodable(d) == ValidIdentity(d) /\ IsInjective(d.builds)

\* os.replace: the file is the old document or the new one.
Write(a, document) ==
    /\ disk' = document
    /\ foreign' = [b \in Actors |-> b # a \/ foreign[b]]

files == <<disk, artifacts, published, backups, foreign>>

\* repository.load, and load_with_revision: the revision is the document.
Open(a) ==
    /\ At(a, "open")
    /\ mine' = [mine EXCEPT ![a] = disk]
    /\ Looked(a)
    /\ Goto(a, [batch |-> "loop", editor |-> "save", builder |-> "load",
                migrator |-> "candidate"][Role[a]])
    /\ UNCHANGED <<disk, artifacts, published, backups, items, result, out, stop>>

\* A migration that crashed or failed is tried again, on what it left behind.
MigrateAgain(a) ==
    /\ Role[a] = "migrator"
    /\ At(a, "crashed") \/ out[a].kind = "error"
    /\ Goto(a, "open")
    /\ out' = [out EXCEPT ![a] = Nothing]
    /\ UNCHANGED <<files, mine, items, result, stop>>

-----------------------------------------------------------------------------
(* ProjectBatchService.run over ProjectService.run_case and persist_run. *)

RequestStop ==
    /\ ~stop /\ stop' = TRUE
    /\ UNCHANGED <<files, private>>

\* The check before each case, the first one included.
BatchLoop(a) ==
    /\ At(a, "loop")
    /\ \/ /\ stop /\ items[a] = <<>> /\ Fail(a, "CANCELLED")
       \/ /\ stop /\ items[a] # <<>> /\ End(a, "stopped", "none")
       \/ /\ ~stop /\ Len(items[a]) < Len(Cases) /\ Goto(a, "start") /\ UNCHANGED out
       \/ /\ ~stop /\ Len(items[a]) = Len(Cases) /\ End(a, "completed", "none")
    /\ UNCHANGED <<files, mine, items, result, stop>>

\* run_case validates the project (an asset or a graph may be invalid for other
\* reasons), run_graph tests the stop once more.
StartCase(a) ==
    /\ At(a, "start")
    /\ \/ Fail(a, "CONFIG_ERROR")
       \/ ValidProject(mine[a]) /\ stop /\ Fail(a, "CANCELLED")
       \/ ValidProject(mine[a]) /\ ~stop /\ Goto(a, "running") /\ UNCHANGED out
    /\ UNCHANGED <<files, mine, items, result, stop>>

\* The artifact is published before the history names it.
SwappedPersistence == <<"save", "artifact">>
PersistenceOrder == <<"artifact", "save">>

NewRun(a, ending) ==
    [run |-> <<a, Len(items[a]) + 1>>, case |-> Cases[Len(items[a]) + 1], state |-> ending]

RunCase(a) ==
    /\ At(a, "running")
    /\ \/ /\ \E ending \in {"COMPLETED"} \cup (IF stop THEN {"STOPPED"} ELSE {}) :
               result' = [result EXCEPT ![a] = NewRun(a, ending)]
          /\ Goto(a, PersistenceOrder[1]) /\ UNCHANGED out
       \/ Fail(a, "RUNTIME_ERROR") /\ UNCHANGED result
    /\ UNCHANGED <<files, mine, items, stop>>

\* artifact_repository.save: the temporary file, then os.replace.
SaveArtifact(a) ==
    /\ At(a, "artifact")
    /\ \/ /\ artifacts' = artifacts \cup {result[a]}
          /\ Goto(a, IF PersistenceOrder[1] = "artifact" THEN "save" ELSE "loop")
          /\ UNCHANGED out
       \/ Fail(a, "PROJECT_IO_ERROR") /\ UNCHANGED artifacts
    /\ UNCHANGED <<disk, published, backups, mine, items, result, stop, foreign>>

ChainsNothing(a, updated) == mine[a]
CurrentProject(a, updated) == updated

\* persist_run saves the caller's project with one more record; then the
\* batch keeps the item and goes on from the project it was given back.
SaveRun(a) ==
    /\ Role[a] = "batch" /\ At(a, "save")
    /\ LET updated == [mine[a] EXCEPT !.history = Append(@, result[a])]
       IN \/ /\ Encodable(updated) /\ Write(a, updated)
             /\ items' = [items EXCEPT ![a] = Append(@, result[a])]
             /\ mine' = [mine EXCEPT ![a] = CurrentProject(a, updated)]
             /\ Goto(a, IF PersistenceOrder[1] = "save" THEN "artifact"
                        ELSE IF result[a].state = "STOPPED" THEN "ended" ELSE "loop")
             /\ UNCHANGED out
          \/ /\ Fail(a, "ORPHAN")
             /\ UNCHANGED <<disk, foreign, items, mine>>
    /\ UNCHANGED <<artifacts, published, backups, result, stop>>

\* A case that was stopped ends the batch, whatever the control says.
BatchStopped(a) ==
    /\ At(a, "ended")
    /\ End(a, "stopped", "none")
    /\ UNCHANGED <<files, mine, items, result, stop>>

-----------------------------------------------------------------------------
(* save_project: unconditional, from whatever was opened. *)

SaveEdit(a) ==
    /\ Role[a] = "editor" /\ At(a, "save")
    /\ \/ /\ mine' = [mine EXCEPT ![a].edits = @ \cup {a}]
          /\ Encodable(mine'[a]) /\ Write(a, mine'[a])
          /\ End(a, "completed", "none")
       \/ Fail(a, "PROJECT_IO_ERROR") /\ UNCHANGED <<mine, disk, foreign>>
    /\ UNCHANGED <<artifacts, published, backups, items, result, stop>>

-----------------------------------------------------------------------------
(* The conditional replacement, of a registration and of a migration. *)

Replacement(a) ==
    IF Role[a] = "builder" THEN [mine[a] EXCEPT !.builds = Append(@, a)]
                           ELSE [mine[a] EXCEPT !.schema = "1.1"]

IgnoresChanges(a) == TRUE
Unchanged(a) == disk = mine[a]

\* _project_conflict_error for a registration, _io_error for a migration.
ConflictCode(a) == IF Role[a] = "builder" THEN "PROJECT_CONFLICT" ELSE "PROJECT_IO_ERROR"

CheckDigest(a) ==
    /\ At(a, "check")
    /\ \/ Unchanged(a) /\ Goto(a, "replace") /\ Looked(a) /\ UNCHANGED out
       \/ ~Unchanged(a) /\ Fail(a, ConflictCode(a)) /\ UNCHANGED foreign
       \/ Fail(a, "PROJECT_IO_ERROR") /\ UNCHANGED foreign
    /\ UNCHANGED <<disk, artifacts, published, backups, mine, items, result, stop>>

Replace(a) ==
    /\ At(a, "replace")
    /\ \/ Encodable(Replacement(a)) /\ Write(a, Replacement(a)) /\ End(a, "completed", "none")
       \/ Fail(a, "PROJECT_IO_ERROR") /\ UNCHANGED <<disk, foreign>>
    /\ UNCHANGED <<artifacts, published, backups, mine, items, result, stop>>

-----------------------------------------------------------------------------
(* compile_and_register *)

\* load_with_revision: the caller's project must be the one on disk, valid
\* and of schema 1.1.
LoadRevision(a) ==
    /\ At(a, "load")
    /\ \/ disk # mine[a] /\ Fail(a, "PROJECT_CONFLICT")
       \/ Fail(a, "CONFIG_ERROR")
       \/ /\ disk = mine[a] /\ disk.schema = "1.1" /\ ValidProject(disk)
          /\ Goto(a, "stage") /\ UNCHANGED out
    /\ UNCHANGED <<files, mine, items, result, stop>>

\* stage() publishes the package or leaves nothing.
Stage(a) ==
    /\ At(a, "stage")
    /\ \/ published' = published \cup {a} /\ Goto(a, "validate") /\ UNCHANGED out
       \/ Fail(a, "MODELICA_ERROR") /\ UNCHANGED published
    /\ UNCHANGED <<disk, artifacts, backups, mine, items, result, stop, foreign>>

\* The validation of the updated project, and of the one to be migrated.
Validate(a) ==
    /\ At(a, "validate")
    /\ \/ Fail(a, "CONFIG_ERROR")
       \/ /\ ValidProject(Replacement(a))
          /\ Goto(a, IF Role[a] = "builder" THEN "check" ELSE "compare")
          /\ UNCHANGED out
    /\ UNCHANGED <<files, mine, items, result, stop>>

-----------------------------------------------------------------------------
(* migrate_1_0_to_1_1 *)

Candidate(a) ==
    /\ At(a, "candidate")
    /\ IF mine[a].schema = "1.0" THEN Goto(a, "validate") /\ UNCHANGED out
                                 ELSE Fail(a, "PROJECT_FORMAT_ERROR")
    /\ UNCHANGED <<files, mine, items, result, stop>>

Compare(a) ==
    /\ At(a, "compare")
    /\ IF disk = mine[a] THEN Goto(a, "backup") /\ UNCHANGED out
                         ELSE Fail(a, "PROJECT_IO_ERROR")
    /\ UNCHANGED <<files, mine, items, result, stop>>

WholeBackup(document) == [of |-> document, whole |-> TRUE]
TornBackup(document) == [of |-> document, whole |-> FALSE]

\* Exclusive creation: a backup with the same content is accepted, one that
\* a crash or an error has left unfinished is not.
CreateBackup(a) ==
    /\ At(a, "backup")
    /\ \/ /\ WholeBackup(mine[a]) \in backups
          /\ Goto(a, "check") /\ UNCHANGED <<backups, out>>
       \/ /\ TornBackup(mine[a]) \in backups
          /\ Fail(a, "PROJECT_IO_ERROR") /\ UNCHANGED backups
       \/ /\ \A b \in backups : b.of # mine[a]
          /\ backups' = backups \cup {TornBackup(mine[a])}
          /\ Goto(a, "write") /\ UNCHANGED out
    /\ UNCHANGED <<disk, artifacts, published, mine, items, result, stop, foreign>>

FinishBackup(a) ==
    backups' = (backups \ {TornBackup(mine[a])}) \cup {WholeBackup(mine[a])}

WriteBackup(a) ==
    /\ At(a, "write")
    /\ \/ FinishBackup(a) /\ Goto(a, "check") /\ UNCHANGED out
       \/ Fail(a, "PROJECT_IO_ERROR") /\ UNCHANGED backups
    /\ UNCHANGED <<disk, artifacts, published, mine, items, result, stop, foreign>>

-----------------------------------------------------------------------------
Crash(a) ==
    /\ pc[a] \notin {"open", "done", "crashed"}
    /\ Goto(a, "crashed")
    /\ UNCHANGED <<files, mine, items, result, out, stop>>

BatchNext(a) ==
    \/ BatchLoop(a) \/ StartCase(a) \/ RunCase(a)
    \/ SaveArtifact(a) \/ SaveRun(a) \/ BatchStopped(a)

ConditionalNext(a) ==
    \/ LoadRevision(a) \/ Stage(a) \/ Validate(a)
    \/ Candidate(a) \/ Compare(a) \/ CreateBackup(a) \/ WriteBackup(a)
    \/ CheckDigest(a) \/ Replace(a)

Next ==
    \/ RequestStop
    \/ \E a \in Actors : Open(a) \/ MigrateAgain(a) \/ BatchNext(a) \/ SaveEdit(a)
                            \/ ConditionalNext(a) \/ Crash(a)

Spec == Init /\ [][Next]_vars

-----------------------------------------------------------------------------
(* Properties. *)

\* load_project_run: the run is in the history once and its artifact is there
\* and says the same run, case and ending.
Loads(document, i) ==
    /\ \A j \in DOMAIN document.history :
          document.history[j].run = document.history[i].run => i = j
    /\ document.history[i] \in artifacts

\* No project, on disk or in the hands of a process, ever names a run whose
\* artifact is missing or tells another case or ending, names a run or a build
\* twice, or names a build whose package is not there, wherever a process
\* crashed or failed: what the project promises is found, and no interleaving
\* leaves a project that the next validation refuses.
HistoryBacked ==
    \A document \in {disk} \cup {mine[a] : a \in Actors} :
        /\ ValidProject(document)
        /\ \A i \in DOMAIN document.history : Loads(document, i)

\* A conditional replacement takes nothing away: whatever the history, the
\* builds or the edits on disk say before it they say after it, unless the
\* writer of it came in between the digest check and os.replace, the window
\* the code concedes.  A migration has a whole backup of what it replaces.
Kept(old, new) ==
    /\ ToSet(old.history) \subseteq ToSet(new.history)
    /\ ToSet(old.builds) \subseteq ToSet(new.builds)
    /\ old.edits \subseteq new.edits

OnlyTheWindowLoses ==
    [][\A a \in Actors :
          At(a, "replace") /\ out'[a].kind = "completed" =>
              /\ ~foreign[a] => Kept(disk, disk')
              /\ Role[a] = "migrator" => WholeBackup(mine[a]) \in backups]_vars

\* A batch, however it ends, accounts for exactly what it committed: its
\* items are the runs of the first requested cases in their order, they are
\* the end of the history of the project it returns, and that project is
\* what the disk holds when nobody else wrote.
BatchFaithful ==
    \A a \in Actors : Role[a] = "batch" /\ ~At(a, "open") =>
        /\ \A k \in DOMAIN items[a] : items[a][k].case = Cases[k]
        /\ IsSuffix(items[a], mine[a].history)
        /\ ~foreign[a] => disk = mine[a]
        /\ At(a, "done") => out[a].completed = items[a]
        /\ out[a].kind = "completed" => Len(items[a]) = Len(Cases)

\* "A stop between items returns the already committed partial batch rather
\* than discarding it" (docs/FRONTEND_BACKEND_INTEGRATION.md): CANCELLED is
\* the answer of a batch that has committed nothing.
StopKeepsBatch ==
    \A a \in Actors : out[a].code = "CANCELLED" => items[a] = <<>>
=============================================================================
