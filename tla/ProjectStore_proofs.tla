------------------------- MODULE ProjectStore_proofs -------------------------
(***************************************************************************)
(* Theorems about ProjectStore: whatever processes share the directory, in *)
(* whatever roles and numbers, every project is one the next validation    *)
(* accepts and finds its artifacts, and a conditional replacement loses    *)
(* nothing outside its window.                                             *)
(***************************************************************************)
EXTENDS ProjectStore, TLAPS

Runs == [run : Actors \X Nat, case : ToSet(Cases), state : {"COMPLETED", "STOPPED"}]
Documents ==
    [schema : {"1.0", "1.1"}, history : Seq(Runs), builds : Seq(Actors),
     edits : SUBSET Actors]

\* A document that validates and whose runs were made and have their artifacts,
\* with what it depends on as arguments: packages, artifacts, collected items.
Sound(d, packages, results, collected) ==
    /\ d \in Documents
    /\ ValidIdentity(d)
    /\ IsInjective(d.builds) /\ ToSet(d.builds) \subseteq packages
    /\ \A i \in DOMAIN d.history :
          /\ d.history[i] \in results
          /\ \E a \in Actors, k \in Nat :
                d.history[i].run = <<a, k>> /\ k <= Len(collected[a])
    /\ \A i, j \in DOMAIN d.history : d.history[i].run = d.history[j].run => i = j

DocumentsInv ==
    /\ items \in [Actors -> Seq(Runs)]
    /\ mine \in [Actors -> Documents]
    /\ Sound(disk, published, artifacts, items)
    /\ \A a \in Actors : Sound(mine[a], published, artifacts, items)

\* What a process has done by the time it gets to a point.
RunMade(a) ==
    /\ result[a] \in Runs
    /\ result[a].run = <<a, Len(items[a]) + 1>>

BatchPoints ==
    {"open", "loop", "start", "running", "artifact", "save", "ended", "done", "crashed"}
Points ==
    BatchPoints \cup {"load", "stage", "validate", "candidate", "compare", "backup",
                     "write", "check", "replace"}
ControlInv ==
    /\ pc \in [Actors -> Points]
    /\ result \in [Actors -> Runs \cup {NoResult}]
    /\ \A a \in Actors :
          /\ pc[a] \in {"start", "running"} => Len(items[a]) < Len(Cases)
          /\ Role[a] = "batch" => pc[a] \in BatchPoints
          /\ Role[a] = "batch" /\ pc[a] \in {"artifact", "save"} => RunMade(a)
          /\ Role[a] = "batch" /\ pc[a] = "save" => result[a] \in artifacts
          /\ Role[a] = "builder" /\ pc[a] \in {"validate", "check", "replace"} => a \in published
          /\ pc[a] \in {"load", "stage"} => Role[a] = "builder"
          /\ pc[a] = "validate" => Role[a] \in {"builder", "migrator"}
          /\ pc[a] \in {"candidate", "compare", "backup", "write"} => Role[a] = "migrator"

StoreInv == DocumentsInv /\ ControlInv

-----------------------------------------------------------------------------
(* Documents. *)

\* A document stays sound when more is published, stored and collected.
LEMMA SoundIsMonotone ==
    ASSUME NEW d, NEW P, NEW R, NEW C, NEW P2, NEW R2, NEW C2,
           C \in [Actors -> Seq(Runs)], C2 \in [Actors -> Seq(Runs)],
           Sound(d, P, R, C), P \subseteq P2, R \subseteq R2,
           \A a \in Actors : Len(C[a]) <= Len(C2[a])
    PROVE  Sound(d, P2, R2, C2)
<1>1. ASSUME NEW i \in DOMAIN d.history
      PROVE  \E a \in Actors, k \in Nat : d.history[i].run = <<a, k>> /\ k <= Len(C2[a])
  <2>1. PICK a \in Actors, k \in Nat : d.history[i].run = <<a, k>> /\ k <= Len(C[a])
    BY DEF Sound
  <2>2. k <= Len(C2[a])
    BY <2>1
  <2>. QED BY <2>1, <2>2
<1>. QED BY <1>1 DEF Sound

\* The document save of persist_run writes: one more run, a fresh one.
LEMMA OneMoreRun ==
    ASSUME NEW d, NEW P, NEW R, NEW C, NEW a \in Actors, NEW r \in Runs,
           C \in [Actors -> Seq(Runs)],
           Sound(d, P, R, C), r \in R, r.run = <<a, Len(C[a]) + 1>>
    PROVE  LET more == [d EXCEPT !.history = Append(@, r)]
               after == [C EXCEPT ![a] = Append(@, r)]
           IN  Sound(more, P, R, after) /\ after \in [Actors -> Seq(Runs)]
<1>. DEFINE more == [d EXCEPT !.history = Append(@, r)]
            after == [C EXCEPT ![a] = Append(@, r)]
            n == Len(d.history)
<1>1. /\ d \in Documents /\ d.history \in Seq(Runs)
      /\ more \in Documents /\ more.history = Append(d.history, r)
      /\ more.schema = d.schema /\ more.builds = d.builds
  <2>1. d \in Documents /\ d.history \in Seq(Runs)
    BY DEF Sound, Documents
  <2>2. Append(d.history, r) \in Seq(Runs)
    BY <2>1
  <2>3. d = [schema |-> d.schema, history |-> d.history, builds |-> d.builds, edits |-> d.edits]
    BY <2>1 DEF Documents
  <2>. QED BY <2>1, <2>2, <2>3 DEF Documents
<1>2. after \in [Actors -> Seq(Runs)] /\ Len(C[a]) \in Nat
  OBVIOUS
<1>3. after[a] = Append(C[a], r) /\ Len(after[a]) = Len(C[a]) + 1
  OBVIOUS
<1>4. \A b \in Actors : Len(C[b]) <= Len(after[b])
  BY <1>2, <1>3
<1>5. /\ DOMAIN more.history = 1..n + 1 /\ DOMAIN d.history = 1..n /\ n \in Nat
      /\ \A i \in 1..n : more.history[i] = d.history[i]
      /\ more.history[n + 1] = r
  BY <1>1
<1>6. ASSUME NEW i \in 1..n
      PROVE  /\ more.history[i] \in R
             /\ \E b \in Actors, k \in Nat :
                   more.history[i].run = <<b, k>> /\ k <= Len(after[b])
             /\ more.history[i].run # r.run
  <2>1. PICK b \in Actors, k \in Nat : d.history[i].run = <<b, k>> /\ k <= Len(C[b])
    BY <1>5 DEF Sound
  <2>2. <<b, k>> # <<a, Len(C[a]) + 1>>
    BY <1>2, <2>1
  <2>3. k <= Len(after[b])
    BY <1>2, <1>4, <2>1
  <2>. QED BY <1>5, <2>1, <2>2, <2>3 DEF Sound
<1>7. \E b \in Actors, k \in Nat : r.run = <<b, k>> /\ k <= Len(after[b])
  <2>1. Len(C[a]) + 1 \in Nat
    BY <1>2
  <2>. QED BY <1>3, <2>1
<1>8. ASSUME NEW i \in 1..n + 1, NEW j \in 1..n + 1, more.history[i].run = more.history[j].run
      PROVE  i = j
  <2>1. CASE i \in 1..n /\ j \in 1..n
    BY <1>5, <1>8, <2>1 DEF Sound
  <2>2. CASE i = n + 1 /\ j \in 1..n
    BY <1>5, <1>6, <1>8, <2>2
  <2>3. CASE j = n + 1 /\ i \in 1..n
    BY <1>5, <1>6, <1>8, <2>3
  <2>. QED BY <1>5, <2>1, <2>2, <2>3
<1>9. \A i \in 1..n + 1 :
         /\ more.history[i] \in R
         /\ \E b \in Actors, k \in Nat : more.history[i].run = <<b, k>> /\ k <= Len(after[b])
  <2>. TAKE i \in 1..n + 1
  <2>1. CASE i \in 1..n
    BY <1>6, <2>1
  <2>2. CASE i = n + 1
    BY <1>5, <1>7, <2>2
  <2>. QED BY <1>5, <2>1, <2>2
<1>10. ValidIdentity(more) /\ IsInjective(more.builds) /\ ToSet(more.builds) \subseteq P
  BY <1>1 DEF Sound, ValidIdentity
<1>. HIDE DEF more, after
<1>11. Sound(more, P, R, after)
  BY <1>1, <1>5, <1>8, <1>9, <1>10 DEF Sound
<1>. QED BY <1>2, <1>11 DEF more, after

\* What an edit, a registration or a migration writes: the same history, and
\* the builds that were there or one more, which is published.
LEMMA SameHistory ==
    ASSUME NEW d, NEW e, NEW P, NEW R, NEW C, Sound(d, P, R, C), e \in Documents,
           e.history = d.history, Encodable(e), ToSet(e.builds) \subseteq P
    PROVE  Sound(e, P, R, C)
BY DEF Sound, Encodable

\* An appended element keeps a sequence within a set that holds it.
LEMMA OneMoreElement ==
    ASSUME NEW S, NEW s \in Seq(S), NEW x \in S, NEW P, ToSet(s) \subseteq P, x \in P
    PROVE  Append(s, x) \in Seq(S) /\ ToSet(Append(s, x)) \subseteq P
<1>1. /\ DOMAIN Append(s, x) = 1..Len(s) + 1 /\ Len(s) \in Nat
      /\ \A i \in 1..Len(s) : Append(s, x)[i] = s[i] /\ i \in DOMAIN s
      /\ Append(s, x)[Len(s) + 1] = x
  OBVIOUS
<1>2. ASSUME NEW i \in 1..Len(s) + 1 PROVE Append(s, x)[i] \in P
  <2>1. CASE i \in 1..Len(s)
    BY <1>1, <2>1 DEF ToSet
  <2>2. CASE i = Len(s) + 1
    BY <1>1, <2>2
  <2>. QED BY <1>1, <2>1, <2>2
<1>. QED BY <1>1, <1>2 DEF ToSet

-----------------------------------------------------------------------------
(* Every project is sound. *)

\* The first document is sound, and no process has done anything.
LEMMA StoreInit == Init => StoreInv
<1>. SUFFICES ASSUME Init PROVE StoreInv
  OBVIOUS
<1>1. disk \in Documents /\ disk.history = <<>> /\ disk.builds = <<>>
  <2>1. PICK s \in {"1.0", "1.1"} : disk = Empty(s)
    BY SchemaAssumption DEF Init
  <2>2. <<>> \in Seq(Runs) /\ <<>> \in Seq(Actors)
    OBVIOUS
  <2>. QED BY <2>1, <2>2 DEF Empty, Documents
<1>2. Sound(disk, published, artifacts, items)
  <2>1. DOMAIN disk.history = {} /\ DOMAIN disk.builds = {}
    BY <1>1
  <2>2. ValidIdentity(disk)
    BY <1>1 DEF ValidIdentity, Documents
  <2>. QED BY <1>1, <2>1, <2>2 DEF Sound, IsInjective, ToSet
<1>3. DocumentsInv
  BY <1>1, <1>2 DEF Init, DocumentsInv
<1>4. ControlInv
  <2>1. \A a \in Actors : pc[a] = "open"
    BY DEF Init
  <2>2. pc \in [Actors -> Points] /\ result \in [Actors -> Runs \cup {NoResult}]
    BY DEF Init, Points, BatchPoints
  <2>. QED BY <2>1, <2>2 DEF ControlInv, BatchPoints
<1>. QED BY <1>3, <1>4 DEF StoreInv

\* A process that neither writes a document nor collects a run.
LEMMA DocumentsUntouched ==
    DocumentsInv /\ UNCHANGED <<disk, artifacts, published, mine, items>> => DocumentsInv'
BY DEF DocumentsInv

\* Reading the project gives a process a document that was sound on disk.
LEMMA OpenKeepsDocuments ==
    ASSUME DocumentsInv, NEW a \in Actors, Open(a) PROVE DocumentsInv'
BY DEF DocumentsInv, Open, Sound

\* A new artifact or package makes no document unsound.
LEMMA MoreFilesKeepDocuments ==
    ASSUME DocumentsInv, UNCHANGED <<disk, mine, items>>,
           artifacts \subseteq artifacts', published \subseteq published'
    PROVE  DocumentsInv'
<1>1. \A a \in Actors : Len(items[a]) <= Len(items[a])
  BY DEF DocumentsInv
<1>2. Sound(disk, published', artifacts', items)
  BY <1>1, SoundIsMonotone DEF DocumentsInv
<1>3. \A a \in Actors : Sound(mine[a], published', artifacts', items)
  BY <1>1, SoundIsMonotone DEF DocumentsInv
<1>. QED BY <1>2, <1>3 DEF DocumentsInv

\* Saving a run's record keeps the documents: its artifact was stored before.
LEMMA SaveRunKeepsDocuments ==
    ASSUME StoreInv, NEW a \in Actors, SaveRun(a) PROVE DocumentsInv'
<1>. DEFINE updated == [mine[a] EXCEPT !.history = Append(@, result[a])]
            collected == [items EXCEPT ![a] = Append(@, result[a])]
<1>. USE DEF StoreInv
<1>1. CASE UNCHANGED <<disk, items, mine>>
  BY <1>1, DocumentsUntouched DEF SaveRun
<1>2. CASE /\ disk' = updated /\ items' = collected
           /\ mine' = [mine EXCEPT ![a] = updated]
  <2>1. /\ result[a] \in Runs /\ result[a] \in artifacts
        /\ result[a].run = <<a, Len(items[a]) + 1>>
    BY DEF SaveRun, ControlInv, RunMade, At
  <2>2. /\ Sound(updated, published, artifacts, collected)
        /\ collected \in [Actors -> Seq(Runs)]
    BY <2>1, OneMoreRun DEF DocumentsInv
  <2>3. \A b \in Actors : Len(items[b]) <= Len(collected[b])
    BY <2>1 DEF DocumentsInv
  <2>4. \A b \in Actors : Sound(mine[b], published, artifacts, collected)
    BY <2>2, <2>3, SoundIsMonotone DEF DocumentsInv
  <2>5. UNCHANGED <<artifacts, published>>
    BY DEF SaveRun
  <2>6. updated \in Documents
    BY <2>2 DEF Sound
  <2>. HIDE DEF updated, collected
  <2>. QED BY <1>2, <2>2, <2>4, <2>5, <2>6 DEF DocumentsInv
<1>. QED BY <1>1, <1>2 DEF SaveRun, Write, CurrentProject

\* Saving an edit keeps the documents: it names no new run and no new build.
LEMMA SaveEditKeepsDocuments ==
    ASSUME StoreInv, NEW a \in Actors, SaveEdit(a) PROVE DocumentsInv'
<1>. DEFINE edited == [mine[a] EXCEPT !.edits = @ \cup {a}]
<1>. USE DEF StoreInv
<1>1. CASE UNCHANGED <<disk, mine>>
  BY <1>1, DocumentsUntouched DEF SaveEdit
<1>2. CASE mine' = [mine EXCEPT ![a] = edited] /\ Encodable(mine'[a]) /\ disk' = mine'[a]
  <2>1. mine[a] \in Documents /\ Sound(mine[a], published, artifacts, items)
    BY DEF DocumentsInv
  <2>2. mine'[a] = edited /\ Encodable(edited) /\ disk' = edited
    BY <1>2 DEF DocumentsInv
  <2>3. /\ edited \in Documents /\ edited.history = mine[a].history
        /\ edited.builds = mine[a].builds
    BY <2>1 DEF Documents
  <2>. HIDE DEF edited
  <2>4. Sound(edited, published, artifacts, items)
    <3>1. ToSet(edited.builds) \subseteq published
      BY <2>1, <2>3 DEF Sound
    <3>. QED BY <2>1, <2>2, <2>3, <3>1, SameHistory
  <2>5. UNCHANGED <<artifacts, published, items>>
    BY DEF SaveEdit
  <2>. QED BY <1>2, <2>2, <2>3, <2>4, <2>5 DEF DocumentsInv
<1>3. \/ UNCHANGED <<disk, mine>>
      \/ mine' = [mine EXCEPT ![a] = edited] /\ Encodable(mine'[a]) /\ disk' = mine'[a]
  BY DEF SaveEdit, Write, Fail
<1>. QED BY <1>1, <1>2, <1>3

\* The os.replace of a conditional save keeps the documents.
LEMMA ReplaceKeepsDocuments ==
    ASSUME StoreInv, NEW a \in Actors, Replace(a) PROVE DocumentsInv'
<1>. USE DEF StoreInv
<1>1. CASE UNCHANGED disk
  BY <1>1, DocumentsUntouched DEF Replace
<1>2. CASE Encodable(Replacement(a)) /\ disk' = Replacement(a)
  <2>1. mine[a] \in Documents /\ Sound(mine[a], published, artifacts, items)
    BY DEF DocumentsInv
  <2>2. /\ Replacement(a) \in Documents /\ Replacement(a).history = mine[a].history
        /\ ToSet(Replacement(a).builds) \subseteq published
    <3>1. CASE Role[a] = "builder"
      <4>1. a \in published
        BY <3>1 DEF ControlInv, Replace, At
      <4>2. mine[a].builds \in Seq(Actors) /\ ToSet(mine[a].builds) \subseteq published
        BY <2>1 DEF Sound, Documents
      <4>3. /\ Append(mine[a].builds, a) \in Seq(Actors)
            /\ ToSet(Append(mine[a].builds, a)) \subseteq published
        BY <4>1, <4>2, OneMoreElement
      <4>. QED BY <2>1, <3>1, <4>3 DEF Documents, Replacement
    <3>2. CASE Role[a] # "builder"
      BY <2>1, <3>2 DEF Documents, Replacement, Sound
    <3>. QED BY <3>1, <3>2
  <2>3. Sound(Replacement(a), published, artifacts, items)
    BY <1>2, <2>1, <2>2, SameHistory
  <2>4. UNCHANGED <<artifacts, published, mine, items>>
    BY DEF Replace
  <2>. QED BY <1>2, <2>3, <2>4 DEF DocumentsInv
<1>. QED BY <1>1, <1>2 DEF Replace, Write

\* Every step keeps the documents.
LEMMA DocumentsStep == StoreInv /\ [Next]_vars => DocumentsInv'
<1>. SUFFICES ASSUME StoreInv, [Next]_vars PROVE DocumentsInv'
  OBVIOUS
<1>. USE DEF StoreInv, files, private
<1>1. CASE RequestStop \/ UNCHANGED vars
  BY <1>1, DocumentsUntouched DEF RequestStop, vars
<1>2. ASSUME NEW a \in Actors, Open(a) PROVE DocumentsInv'
  BY <1>2, OpenKeepsDocuments
<1>3. ASSUME NEW a \in Actors, MigrateAgain(a) \/ Crash(a) PROVE DocumentsInv'
  BY <1>3, DocumentsUntouched DEF MigrateAgain, Crash
<1>4. ASSUME NEW a \in Actors, BatchNext(a) PROVE DocumentsInv'
  <2>1. CASE BatchLoop(a) \/ StartCase(a) \/ RunCase(a) \/ BatchStopped(a)
    BY <2>1, DocumentsUntouched DEF BatchLoop, StartCase, RunCase, BatchStopped
  <2>2. CASE SaveArtifact(a)
    BY <2>2, MoreFilesKeepDocuments DEF SaveArtifact
  <2>3. CASE SaveRun(a)
    BY <2>3, SaveRunKeepsDocuments
  <2>. QED BY <1>4, <2>1, <2>2, <2>3 DEF BatchNext
<1>5. ASSUME NEW a \in Actors, SaveEdit(a) PROVE DocumentsInv'
  BY <1>5, SaveEditKeepsDocuments
<1>6. ASSUME NEW a \in Actors, ConditionalNext(a) PROVE DocumentsInv'
  <2>1. CASE LoadRevision(a) \/ Validate(a) \/ Candidate(a) \/ Compare(a)
    BY <2>1, DocumentsUntouched DEF LoadRevision, Validate, Candidate, Compare
  <2>2. CASE CreateBackup(a) \/ WriteBackup(a) \/ CheckDigest(a)
    BY <2>2, DocumentsUntouched DEF CreateBackup, WriteBackup, CheckDigest
  <2>3. CASE Stage(a)
    BY <2>3, MoreFilesKeepDocuments DEF Stage
  <2>4. CASE Replace(a)
    BY <2>4, ReplaceKeepsDocuments
  <2>. QED BY <1>6, <2>1, <2>2, <2>3, <2>4 DEF ConditionalNext
<1>. QED BY <1>1, <1>2, <1>3, <1>4, <1>5, <1>6 DEF Next

\* The run of a case is the next one of its process, of a case asked for.
LEMMA NewRunIsMade ==
    ASSUME NEW a \in Actors, items[a] \in Seq(Runs), Len(items[a]) < Len(Cases),
           NEW ending \in {"COMPLETED", "STOPPED"}
    PROVE  /\ NewRun(a, ending) \in Runs
           /\ NewRun(a, ending).run = <<a, Len(items[a]) + 1>>
<1>1. Len(items[a]) + 1 \in Nat /\ Len(items[a]) + 1 \in DOMAIN Cases
  BY CasesAssumption
<1>. QED BY <1>1 DEF NewRun, Runs, ToSet

\* The move of one process: the others stay where they are.
LEMMA ControlStep == StoreInv /\ [Next]_vars => ControlInv'
<1>. SUFFICES ASSUME StoreInv, [Next]_vars PROVE ControlInv'
  OBVIOUS
<1>. USE DEF StoreInv, ControlInv, RunMade, At, Goto, Fail, End, Points, BatchPoints,
             files, private
<1>0. items \in [Actors -> Seq(Runs)]
  BY DEF DocumentsInv
<1>1. CASE RequestStop \/ UNCHANGED vars
  BY <1>1 DEF RequestStop, vars
<1>2. ASSUME NEW a \in Actors, Open(a) PROVE ControlInv'
  <2>1. Role[a] \in Roles
    BY RoleAssumption
  <2>2. \/ Role[a] = "batch" /\ pc' = [pc EXCEPT ![a] = "loop"]
        \/ Role[a] = "editor" /\ pc' = [pc EXCEPT ![a] = "save"]
        \/ Role[a] = "builder" /\ pc' = [pc EXCEPT ![a] = "load"]
        \/ Role[a] = "migrator" /\ pc' = [pc EXCEPT ![a] = "candidate"]
    <3>1. CASE Role[a] = "batch"
      BY <1>2, <3>1 DEF Open
    <3>2. CASE Role[a] = "editor"
      BY <1>2, <3>2 DEF Open
    <3>3. CASE Role[a] = "builder"
      BY <1>2, <3>3 DEF Open
    <3>4. CASE Role[a] = "migrator"
      BY <1>2, <3>4 DEF Open
    <3>. QED BY <2>1, <3>1, <3>2, <3>3, <3>4 DEF Roles
  <2>. QED BY <1>2, <2>2 DEF Open
<1>3. ASSUME NEW a \in Actors, MigrateAgain(a) PROVE ControlInv'
  BY <1>3 DEF MigrateAgain
<1>4. ASSUME NEW a \in Actors, Crash(a) PROVE ControlInv'
  BY <1>4 DEF Crash
<1>5. ASSUME NEW a \in Actors, BatchNext(a) PROVE ControlInv'
  <2>1. CASE BatchLoop(a)
    BY ZenonT(60), <1>5, <2>1 DEF BatchLoop, DocumentsInv
  <2>2. CASE StartCase(a)
    BY <1>5, <2>2 DEF StartCase
  <2>3. CASE RunCase(a)
    <3>1. CASE UNCHANGED result /\ pc' = [pc EXCEPT ![a] = "done"]
      BY <2>3, <3>1 DEF RunCase
    <3>2. CASE \E ending \in {"COMPLETED", "STOPPED"} :
                  /\ result' = [result EXCEPT ![a] = NewRun(a, ending)]
                  /\ pc' = [pc EXCEPT ![a] = "artifact"]
      <4>1. PICK ending \in {"COMPLETED", "STOPPED"} :
               /\ result' = [result EXCEPT ![a] = NewRun(a, ending)]
               /\ pc' = [pc EXCEPT ![a] = "artifact"]
        BY <3>2
      <4>2. /\ NewRun(a, ending) \in Runs
            /\ NewRun(a, ending).run = <<a, Len(items[a]) + 1>>
        BY <1>0, <2>3, NewRunIsMade DEF RunCase
      <4>. QED BY <1>5, <2>3, <4>1, <4>2 DEF RunCase
    <3>. QED BY <2>3, <3>1, <3>2 DEF RunCase, PersistenceOrder
  <2>4. CASE SaveArtifact(a)
    BY <1>5, <2>4 DEF SaveArtifact, PersistenceOrder
  <2>5. CASE SaveRun(a)
    BY ZenonT(60), <1>0, <1>5, <2>5 DEF SaveRun, PersistenceOrder
  <2>6. CASE BatchStopped(a)
    BY <1>5, <2>6 DEF BatchStopped
  <2>. QED BY <1>5, <2>1, <2>2, <2>3, <2>4, <2>5, <2>6 DEF BatchNext
<1>6. ASSUME NEW a \in Actors, SaveEdit(a) PROVE ControlInv'
  BY <1>6 DEF SaveEdit
<1>7. ASSUME NEW a \in Actors, ConditionalNext(a) PROVE ControlInv'
  <2>1. CASE LoadRevision(a)
    BY <1>7, <2>1 DEF LoadRevision
  <2>2. CASE Stage(a)
    BY <1>7, <2>2 DEF Stage
  <2>3. CASE Validate(a)
    BY <1>7, <2>3 DEF Validate
  <2>4. CASE Candidate(a)
    BY <1>7, <2>4 DEF Candidate
  <2>5. CASE Compare(a)
    BY <1>7, <2>5 DEF Compare
  <2>6. CASE CreateBackup(a)
    BY <1>7, <2>6 DEF CreateBackup
  <2>7. CASE WriteBackup(a)
    BY <1>7, <2>7 DEF WriteBackup
  <2>8. CASE CheckDigest(a)
    BY <1>7, <2>8 DEF CheckDigest
  <2>9. CASE Replace(a)
    BY <1>7, <2>9 DEF Replace
  <2>. QED BY <1>7, <2>1, <2>2, <2>3, <2>4, <2>5, <2>6, <2>7, <2>8, <2>9 DEF ConditionalNext
<1>. QED BY <1>1, <1>2, <1>3, <1>4, <1>5, <1>6, <1>7 DEF Next

\* HistoryBacked, for every set of processes, roles and cases.
THEOREM Backed == Spec => []HistoryBacked
<1>1. StoreInv => HistoryBacked
  <2>. SUFFICES ASSUME DocumentsInv, NEW d, Sound(d, published, artifacts, items)
                PROVE  /\ ValidProject(d)
                       /\ \A i \in DOMAIN d.history : Loads(d, i)
    BY DEF StoreInv, DocumentsInv, HistoryBacked
  <2>1. \A i \in DOMAIN d.history : d.history[i].case \in ToSet(Cases)
    <3>1. d.history \in Seq(Runs)
      BY DEF Sound, Documents
    <3>2. \A i \in DOMAIN d.history : d.history[i] \in Runs
      BY <3>1
    <3>. QED BY <3>2 DEF Runs
  <2>. QED BY <2>1 DEF Sound, ValidProject, ValidBuilds, ValidHistory, Loads
<1>2. StoreInv /\ [Next]_vars => StoreInv'
  BY DocumentsStep, ControlStep DEF StoreInv
<1>. QED BY <1>1, <1>2, StoreInit, PTL DEF Spec

-----------------------------------------------------------------------------
(* What a conditional replacement replaces. *)

WindowInv ==
    /\ pc \in [Actors -> Points]
    /\ mine = [a \in Actors |-> mine[a]]
    /\ foreign \in [Actors -> BOOLEAN]
    /\ out = [a \in Actors |-> out[a]]
    /\ \A a \in Actors :
          /\ pc[a] = "replace" /\ ~foreign[a] => disk = mine[a]
          /\ pc[a] \in {"candidate", "compare", "backup", "write"} => Role[a] = "migrator"
          /\ pc[a] \in {"load", "stage"} => Role[a] = "builder"
          /\ pc[a] = "validate" => Role[a] \in {"builder", "migrator"}
          /\ Role[a] = "migrator" /\ pc[a] \in {"check", "replace"} =>
                WholeBackup(mine[a]) \in backups
          /\ out[a].kind = "completed" => pc[a] = "done"

\* Initially: the window of a conditional save.
LEMMA WindowInit == Init => WindowInv
BY DEF Init, WindowInv, Points, BatchPoints, Nothing

\* A process that saves without a condition marks the others.
LEMMA SaveKeepsWindow ==
    ASSUME WindowInv, NEW a \in Actors, NEW point \in {"artifact", "loop", "ended", "done"},
           NEW d, NEW o,
           pc' = [pc EXCEPT ![a] = point], mine' = [mine EXCEPT ![a] = d],
           foreign' = [b \in Actors |-> b # a \/ foreign[b]],
           \/ out' = out /\ pc[a] # "done"
           \/ out' = [out EXCEPT ![a] = o] /\ point = "done",
           UNCHANGED backups
    PROVE  WindowInv'
<1>. USE DEF WindowInv, Points, BatchPoints
<1>1. pc' \in [Actors -> Points] /\ pc'[a] = point
  OBVIOUS
<1>2. foreign' \in [Actors -> BOOLEAN] /\ \A b \in Actors \ {a} : foreign'[b] = TRUE
  OBVIOUS
<1>3. mine' = [b \in Actors |-> mine'[b]] /\ out' = [b \in Actors |-> out'[b]]
  OBVIOUS
<1>4. \A b \in Actors \ {a} : mine'[b] = mine[b] /\ pc'[b] = pc[b] /\ out'[b] = out[b]
  OBVIOUS
<1>5. out'[a].kind = "completed" => pc'[a] = "done"
  BY <1>1
<1>. QED BY <1>1, <1>2, <1>3, <1>4, <1>5

\* Every step keeps the window of a conditional save.
LEMMA WindowStep == WindowInv /\ [Next]_vars => WindowInv'
<1>. SUFFICES ASSUME WindowInv, [Next]_vars PROVE WindowInv'
  OBVIOUS
<1>. USE DEF WindowInv, At, Goto, Fail, End, Looked, Write, Points, BatchPoints, files, private
<1>1. CASE RequestStop \/ UNCHANGED vars
  BY <1>1 DEF RequestStop, vars
<1>2. ASSUME NEW a \in Actors, Open(a) PROVE WindowInv'
  <2>1. Role[a] \in Roles
    BY RoleAssumption
  <2>2. \/ Role[a] = "batch" /\ pc' = [pc EXCEPT ![a] = "loop"]
        \/ Role[a] = "editor" /\ pc' = [pc EXCEPT ![a] = "save"]
        \/ Role[a] = "builder" /\ pc' = [pc EXCEPT ![a] = "load"]
        \/ Role[a] = "migrator" /\ pc' = [pc EXCEPT ![a] = "candidate"]
    <3>1. CASE Role[a] = "batch"
      BY <1>2, <3>1 DEF Open
    <3>2. CASE Role[a] = "editor"
      BY <1>2, <3>2 DEF Open
    <3>3. CASE Role[a] = "builder"
      BY <1>2, <3>3 DEF Open
    <3>4. CASE Role[a] = "migrator"
      BY <1>2, <3>4 DEF Open
    <3>. QED BY <2>1, <3>1, <3>2, <3>3, <3>4 DEF Roles
  <2>. QED BY <1>2, <2>2 DEF Open
<1>3. ASSUME NEW a \in Actors, MigrateAgain(a) PROVE WindowInv'
  BY <1>3 DEF MigrateAgain, Nothing
<1>4. ASSUME NEW a \in Actors, Crash(a) PROVE WindowInv'
  BY <1>4 DEF Crash
<1>5. ASSUME NEW a \in Actors, BatchNext(a) PROVE WindowInv'
  <2>1. CASE BatchLoop(a) \/ StartCase(a) \/ BatchStopped(a)
    BY <1>5, <2>1 DEF BatchLoop, StartCase, BatchStopped
  <2>2. CASE RunCase(a)
    BY <1>5, <2>2 DEF RunCase, PersistenceOrder
  <2>3. CASE SaveArtifact(a)
    BY <1>5, <2>3 DEF SaveArtifact, PersistenceOrder
  <2>4. CASE SaveRun(a)
    <3>1. CASE UNCHANGED <<disk, foreign, mine>>
      BY <1>5, <2>4, <3>1 DEF SaveRun, PersistenceOrder
    <3>2. CASE Write(a, [mine[a] EXCEPT !.history = Append(@, result[a])])
      BY ZenonT(60), <1>5, <2>4, <3>2, SaveKeepsWindow DEF SaveRun, PersistenceOrder
    <3>. QED BY <2>4, <3>1, <3>2 DEF SaveRun
  <2>. QED BY <1>5, <2>1, <2>2, <2>3, <2>4 DEF BatchNext
<1>6. ASSUME NEW a \in Actors, SaveEdit(a) PROVE WindowInv'
  <2>1. CASE UNCHANGED <<disk, foreign, mine>>
    BY <1>6, <2>1 DEF SaveEdit
  <2>2. CASE mine' = [mine EXCEPT ![a].edits = @ \cup {a}] /\ Write(a, mine'[a])
    <3>1. PICK d : mine' = [mine EXCEPT ![a] = d]
      BY <2>2
    <3>2. PICK o : out' = [out EXCEPT ![a] = o]
      BY <1>6 DEF SaveEdit
    <3>3. /\ pc' = [pc EXCEPT ![a] = "done"] /\ UNCHANGED backups
          /\ foreign' = [b \in Actors |-> b # a \/ foreign[b]]
      BY <1>6, <2>2 DEF SaveEdit
    <3>. HIDE DEF WindowInv
    <3>. QED BY <1>6, <3>1, <3>2, <3>3, SaveKeepsWindow
  <2>. QED BY <1>6, <2>1, <2>2 DEF SaveEdit
<1>7. ASSUME NEW a \in Actors, ConditionalNext(a) PROVE WindowInv'
  <2>1. CASE LoadRevision(a)
    BY <1>7, <2>1 DEF LoadRevision
  <2>2. CASE Stage(a)
    BY <1>7, <2>2 DEF Stage
  <2>3. CASE Validate(a)
    BY <1>7, <2>3 DEF Validate
  <2>4. CASE Candidate(a)
    BY <1>7, <2>4 DEF Candidate
  <2>5. CASE Compare(a)
    BY <1>7, <2>5 DEF Compare
  <2>6. CASE CreateBackup(a)
    BY ZenonT(60), <1>7, <2>6 DEF CreateBackup, WholeBackup, TornBackup
  <2>7. CASE WriteBackup(a)
    BY <1>7, <2>7 DEF WriteBackup, FinishBackup, WholeBackup, TornBackup
  <2>8. CASE CheckDigest(a)
    BY ZenonT(60), <1>7, <2>8 DEF CheckDigest, Unchanged
  <2>9. CASE Replace(a)
    BY ZenonT(60), <1>7, <2>9 DEF Replace
  <2>. QED BY <1>7, <2>1, <2>2, <2>3, <2>4, <2>5, <2>6, <2>7, <2>8, <2>9 DEF ConditionalNext
<1>. QED BY <1>1, <1>2, <1>3, <1>4, <1>5, <1>6, <1>7 DEF Next

\* A replacement adds to the document its process holds.
LEMMA ReplacementKeeps ==
    ASSUME NEW a \in Actors, mine[a] \in Documents
    PROVE  Kept(mine[a], Replacement(a))
<1>1. CASE Role[a] = "builder"
  <2>. DEFINE old == mine[a].builds  new == Append(old, a)
  <2>1. old \in Seq(Actors)
    BY DEF Documents
  <2>2. \A i \in DOMAIN old : i \in DOMAIN new /\ new[i] = old[i]
    BY <2>1
  <2>3. ToSet(old) \subseteq ToSet(new)
    BY <2>2 DEF ToSet
  <2>4. /\ Replacement(a).builds = new /\ Replacement(a).history = mine[a].history
        /\ Replacement(a).edits = mine[a].edits
    BY <1>1 DEF Replacement, Documents
  <2>. HIDE DEF old, new
  <2>. QED BY <2>3, <2>4 DEF Kept, old
<1>2. CASE Role[a] # "builder"
  BY <1>2 DEF Replacement, Kept, Documents
<1>. QED BY <1>1, <1>2

\* OnlyTheWindowLoses: every other move leaves a process that replaces where it
\* is, and what it replaces is what it has read unless foreign says otherwise.
THEOREM WindowOnly == Spec => OnlyTheWindowLoses
<1>. DEFINE Keeps(a) ==
        At(a, "replace") /\ out'[a].kind = "completed" =>
            /\ ~foreign[a] => Kept(disk, disk')
            /\ Role[a] = "migrator" => WholeBackup(mine[a]) \in backups
<1>1. ASSUME StoreInv, WindowInv, WindowInv', [Next]_vars
      PROVE  [\A a \in Actors : Keeps(a)]_vars
  <2>. SUFFICES ASSUME NEW a \in Actors, At(a, "replace"), out'[a].kind = "completed"
                PROVE  /\ ~foreign[a] => Kept(disk, disk')
                       /\ Role[a] = "migrator" => WholeBackup(mine[a]) \in backups
    OBVIOUS
  <2>1. Role[a] = "migrator" => WholeBackup(mine[a]) \in backups
    BY <1>1 DEF WindowInv, At
  <2>2. ASSUME ~foreign[a] PROVE Kept(disk, disk')
    <3>1. disk = mine[a] /\ mine[a] \in Documents
      BY <1>1, <2>2 DEF WindowInv, At, StoreInv, DocumentsInv
    <3>2. CASE disk' = disk
      BY <3>2 DEF Kept
    <3>3. CASE disk' = Replacement(a)
      BY <3>1, <3>3, ReplacementKeeps
    <3>4. pc'[a] = "done" /\ pc[a] = "replace"
      BY <1>1 DEF WindowInv, At
    <3>5. disk' \in {disk, Replacement(a)}
      <4>. USE DEF At, Goto, files, private, WindowInv
      <4>1. CASE RequestStop \/ UNCHANGED vars
        BY <4>1 DEF RequestStop, vars
      <4>2. ASSUME NEW b \in Actors, Open(b) \/ MigrateAgain(b) \/ Crash(b)
            PROVE  disk' = disk
        BY <4>2 DEF Open, MigrateAgain, Crash
      <4>3. ASSUME NEW b \in Actors, BatchNext(b) PROVE disk' = disk
        <5>1. CASE SaveRun(b)
          BY <1>1, <3>4, <4>3, <5>1 DEF SaveRun, PersistenceOrder, Fail, End
        <5>. QED BY <4>3, <5>1 DEF BatchNext, BatchLoop, StartCase, RunCase, SaveArtifact,
                    BatchStopped
      <4>4. ASSUME NEW b \in Actors, SaveEdit(b) PROVE disk' = disk
        BY <1>1, <3>4, <4>4 DEF SaveEdit, Fail, End
      <4>5. ASSUME NEW b \in Actors, ConditionalNext(b) PROVE disk' \in {disk, Replacement(a)}
        <5>1. CASE Replace(b)
          <6>1. a = b
            BY <1>1, <3>4, <4>5, <5>1 DEF Replace, Fail, End
          <6>. QED BY <5>1, <6>1 DEF Replace, Write
        <5>. QED BY <4>5, <5>1 DEF ConditionalNext, LoadRevision, Stage, Validate, Candidate,
                    Compare, CreateBackup, WriteBackup, CheckDigest
      <4>. QED BY <1>1, <4>1, <4>2, <4>3, <4>4, <4>5 DEF Next
    <3>. QED BY <3>2, <3>3, <3>5
  <2>. QED BY <2>1, <2>2
<1>2. StoreInv /\ [Next]_vars => StoreInv'
  BY DocumentsStep, ControlStep DEF StoreInv
<1>. QED BY <1>1, <1>2, StoreInit, WindowInit, WindowStep, PTL DEF Spec, OnlyTheWindowLoses

-----------------------------------------------------------------------------
(* What a batch answers. *)

EndsWith(s, t) ==
    Len(s) <= Len(t) /\ \A i \in 1..Len(s) : s[i] = t[Len(t) - Len(s) + i]

BatchAccounts(a) ==
    /\ pc[a] = "open" => items[a] = <<>>
    /\ pc[a] # "open" =>
          /\ \A k \in DOMAIN items[a] : items[a][k].case = Cases[k]
          /\ EndsWith(items[a], mine[a].history)
          /\ ~foreign[a] => disk = mine[a]
    /\ pc[a] \in {"artifact", "save"} => result[a].case = Cases[Len(items[a]) + 1]
    /\ pc[a] = "done" => out[a].completed = items[a]
    /\ out[a].kind = "completed" => Len(items[a]) = Len(Cases)

BatchInv == \A a \in Actors : Role[a] = "batch" => BatchAccounts(a)

\* The end of a sequence, by indices, is a suffix of it.
LEMMA EndIsSuffix ==
    ASSUME NEW S, NEW s \in Seq(S), NEW t \in Seq(S), EndsWith(s, t)
    PROVE  IsSuffix(s, t)
<1>. DEFINE rs == Reverse(s)  rt == Reverse(t)  n == Len(s)  m == Len(t)
<1>1. n \in Nat /\ m \in Nat /\ n <= m
  BY DEF EndsWith
<1>2. rs \in Seq(S) /\ Len(rs) = n /\ \A i \in 1..n : rs[i] = s[n - i + 1]
  BY <1>1 DEF Reverse
<1>3. rt \in Seq(S) /\ Len(rt) = m /\ \A i \in 1..m : rt[i] = t[m - i + 1]
  BY <1>1 DEF Reverse
<1>4. \A i \in 1..n : rs[i] = rt[i]
  <2>. TAKE i \in 1..n
  <2>1. n - i + 1 \in 1..n /\ i \in 1..m /\ m - n + (n - i + 1) = m - i + 1
    BY <1>1
  <2>2. s[n - i + 1] = t[m - i + 1]
    BY <2>1 DEF EndsWith
  <2>. QED BY <1>2, <1>3, <2>1, <2>2
<1>. HIDE DEF rs, rt
<1>5. SubSeq(rs, 1, n) = SubSeq(rt, 1, n)
  BY <1>1, <1>2, <1>3, <1>4
<1>. QED BY <1>1, <1>2, <1>3, <1>5 DEF IsSuffix, IsPrefix, rs, rt

\* The end stays the end when both sequences get the same new element.
LEMMA EndsWithAppend ==
    ASSUME NEW S, NEW s \in Seq(S), NEW t \in Seq(S), NEW x \in S, EndsWith(s, t)
    PROVE  EndsWith(Append(s, x), Append(t, x))
<1>. DEFINE n == Len(s)  m == Len(t)
<1>1. n \in Nat /\ m \in Nat /\ n <= m
  BY DEF EndsWith
<1>2. /\ Len(Append(s, x)) = n + 1 /\ Len(Append(t, x)) = m + 1
      /\ \A i \in 1..n : Append(s, x)[i] = s[i]
      /\ \A i \in 1..m : Append(t, x)[i] = t[i]
      /\ Append(s, x)[n + 1] = x /\ Append(t, x)[m + 1] = x
  OBVIOUS
<1>3. ASSUME NEW i \in 1..n + 1
      PROVE  Append(s, x)[i] = Append(t, x)[m + 1 - (n + 1) + i]
  <2>1. CASE i \in 1..n
    <3>1. m - n + i \in 1..m /\ m + 1 - (n + 1) + i = m - n + i
      BY <1>1, <2>1
    <3>. QED BY <1>2, <2>1, <3>1 DEF EndsWith
  <2>2. CASE i = n + 1
    <3>1. m + 1 - (n + 1) + i = m + 1
      BY <1>1, <2>2
    <3>. QED BY <1>2, <2>2, <3>1
  <2>. QED BY <1>1, <2>1, <2>2
<1>. DEFINE longer == Append(s, x)  longest == Append(t, x)
<1>4. /\ Len(longer) = n + 1 /\ Len(longest) = m + 1
      /\ \A i \in 1..n + 1 : longer[i] = longest[m + 1 - (n + 1) + i]
  BY <1>2, <1>3
<1>. HIDE DEF longer, longest
<1>5. EndsWith(longer, longest)
  BY <1>1, <1>4 DEF EndsWith
<1>. QED BY <1>5 DEF longer, longest

\* A step of another process leaves what a process holds as it is, and marks it
\* when it writes the document.
LEMMA OthersLeave ==
    ASSUME StoreInv, WindowInv, NEW a \in Actors, NEW b \in Actors, a # b,
           \/ Open(b) \/ MigrateAgain(b) \/ BatchNext(b) \/ SaveEdit(b)
           \/ ConditionalNext(b) \/ Crash(b)
    PROVE  /\ UNCHANGED <<pc[a], mine[a], items[a], result[a], out[a]>>
           /\ foreign'[a] = TRUE \/ UNCHANGED <<disk, foreign[a]>>
<1>. USE DEF Goto, Fail, End, Looked, Write, files, private
<1>0. /\ items = [c \in Actors |-> items[c]] /\ result = [c \in Actors |-> result[c]]
      /\ out = [c \in Actors |-> out[c]] /\ mine = [c \in Actors |-> mine[c]]
      /\ pc = [c \in Actors |-> pc[c]] /\ foreign \in [Actors -> BOOLEAN]
  BY DEF StoreInv, DocumentsInv, ControlInv, WindowInv
<1>1. CASE Open(b)
  BY <1>0, <1>1 DEF Open
<1>2. CASE MigrateAgain(b) \/ Crash(b)
  BY <1>0, <1>2 DEF MigrateAgain, Crash
<1>3. CASE BatchNext(b)
  <2>1. CASE BatchLoop(b) \/ StartCase(b) \/ RunCase(b) \/ BatchStopped(b)
    BY <1>0, <2>1 DEF BatchLoop, StartCase, RunCase, BatchStopped
  <2>2. CASE SaveArtifact(b)
    BY <1>0, <2>2 DEF SaveArtifact
  <2>3. CASE SaveRun(b)
    BY <1>0, <2>3 DEF SaveRun
  <2>. QED BY <1>3, <2>1, <2>2, <2>3 DEF BatchNext
<1>4. CASE SaveEdit(b)
  BY <1>0, <1>4 DEF SaveEdit
<1>5. CASE ConditionalNext(b)
  <2>1. CASE LoadRevision(b) \/ Stage(b) \/ Validate(b) \/ Candidate(b) \/ Compare(b)
    BY <1>0, <2>1 DEF LoadRevision, Stage, Validate, Candidate, Compare
  <2>2. CASE CreateBackup(b) \/ WriteBackup(b) \/ CheckDigest(b)
    BY <1>0, <2>2 DEF CreateBackup, WriteBackup, CheckDigest
  <2>3. CASE Replace(b)
    BY <1>0, <2>3 DEF Replace
  <2>. QED BY <1>5, <2>1, <2>2, <2>3 DEF ConditionalNext
<1>. QED BY <1>1, <1>2, <1>3, <1>4, <1>5

\* Initially: what a batch holds.
LEMMA BatchInit == Init => BatchInv
BY DEF Init, BatchInv, BatchAccounts, Nothing

\* The steps of the batch itself.
LEMMA BatchMoves ==
    ASSUME StoreInv, WindowInv, NEW a \in Actors, Role[a] = "batch", BatchAccounts(a),
           Open(a) \/ BatchNext(a) \/ Crash(a)
    PROVE  BatchAccounts(a)'
<1>. USE DEF BatchAccounts, At, Goto, Fail, End, files, private
<1>0. /\ items \in [Actors -> Seq(Runs)] /\ mine \in [Actors -> Documents]
      /\ result = [c \in Actors |-> result[c]] /\ out = [c \in Actors |-> out[c]]
      /\ pc \in [Actors -> Points] /\ foreign \in [Actors -> BOOLEAN]
      /\ out[a].kind = "completed" => pc[a] = "done"
  BY DEF StoreInv, DocumentsInv, ControlInv, WindowInv
<1>1. CASE Open(a)
  <2>1. /\ pc'[a] = "loop" /\ mine'[a] = disk /\ disk' = disk
        /\ items' = items /\ out' = out
    BY <1>0, <1>1 DEF Open
  <2>2. disk \in Documents
    BY DEF StoreInv, DocumentsInv, Sound
  <2>3. EndsWith(items'[a], mine'[a].history)
    <3>1. items'[a] = <<>>
      BY <1>1, <2>1 DEF Open
    <3>2. disk.history \in Seq(Runs)
      BY <2>2 DEF Documents
    <3>. QED BY <2>1, <3>1, <3>2 DEF EndsWith
  <2>. QED BY <1>0, <1>1, <2>1, <2>3 DEF Open
<1>2. CASE Crash(a)
  BY <1>0, <1>2 DEF Crash
<1>3. CASE BatchLoop(a)
  BY <1>0, <1>3 DEF BatchLoop
<1>4. CASE StartCase(a)
  BY <1>0, <1>4 DEF StartCase
<1>5. CASE RunCase(a)
  <2>1. CASE UNCHANGED result /\ pc'[a] = "done"
    BY <1>0, <1>5, <2>1 DEF RunCase, PersistenceOrder
  <2>2. CASE pc'[a] = "artifact" /\ out' = out
             /\ \E ending : result' = [result EXCEPT ![a] = NewRun(a, ending)]
    <3>1. result'[a].case = Cases[Len(items[a]) + 1]
      BY <1>0, <2>2 DEF NewRun
    <3>. QED BY <1>0, <1>5, <2>2, <3>1 DEF RunCase
  <2>. QED BY <1>0, <1>5, <2>1, <2>2 DEF RunCase, PersistenceOrder
<1>6. CASE SaveArtifact(a)
  BY <1>0, <1>6 DEF SaveArtifact, PersistenceOrder
<1>7. CASE SaveRun(a)
  <2>1. CASE UNCHANGED <<disk, foreign, items, mine>> /\ End(a, "error", "ORPHAN")
    BY <1>0, <1>7, <2>1 DEF SaveRun
  <2>2. CASE /\ Write(a, [mine[a] EXCEPT !.history = Append(@, result[a])])
             /\ items' = [items EXCEPT ![a] = Append(@, result[a])]
             /\ mine' = [mine EXCEPT ![a] = [mine[a] EXCEPT !.history = Append(@, result[a])]]
             /\ pc'[a] \in {"loop", "ended"} /\ out' = out
    <3>1. result[a] \in Runs /\ pc[a] = "save"
      BY <1>7 DEF SaveRun, StoreInv, ControlInv, RunMade
    <3>2. /\ mine'[a].history = Append(mine[a].history, result[a])
          /\ mine[a].history \in Seq(Runs) /\ disk' = mine'[a]
          /\ items'[a] = Append(items[a], result[a]) /\ items[a] \in Seq(Runs)
      BY <1>0, <2>2 DEF Documents, Write
    <3>3. EndsWith(items'[a], mine'[a].history)
      BY <3>1, <3>2, EndsWithAppend
    <3>4. \A k \in DOMAIN items'[a] : items'[a][k].case = Cases[k]
      BY <3>1, <3>2
    <3>5. out[a].kind # "completed"
      BY <1>0, <3>1
    <3>. QED BY <2>2, <3>2, <3>3, <3>4, <3>5
  <2>. QED BY <1>0, <1>7, <2>1, <2>2 DEF SaveRun, PersistenceOrder, CurrentProject
<1>8. CASE BatchStopped(a)
  BY <1>0, <1>8 DEF BatchStopped
<1>. QED BY <1>1, <1>2, <1>3, <1>4, <1>5, <1>6, <1>7, <1>8 DEF BatchNext

\* Every step keeps what a batch holds.
LEMMA BatchStep == StoreInv /\ WindowInv /\ BatchInv /\ [Next]_vars => BatchInv'
<1>. SUFFICES ASSUME StoreInv, WindowInv, BatchInv, [Next]_vars,
                     NEW a \in Actors, Role[a] = "batch"
              PROVE  BatchAccounts(a)'
  BY DEF BatchInv
<1>1. BatchAccounts(a)
  BY DEF BatchInv
<1>2. CASE RequestStop \/ UNCHANGED vars
  BY <1>1, <1>2 DEF RequestStop, vars, private, files, BatchAccounts
<1>3. ASSUME NEW b \in Actors, a # b,
             \/ Open(b) \/ MigrateAgain(b) \/ BatchNext(b) \/ SaveEdit(b)
             \/ ConditionalNext(b) \/ Crash(b)
      PROVE  BatchAccounts(a)'
  BY <1>1, <1>3, OthersLeave DEF BatchAccounts
<1>4. ASSUME Open(a) \/ BatchNext(a) \/ Crash(a) PROVE BatchAccounts(a)'
  BY <1>1, <1>4, BatchMoves
<1>5. ~MigrateAgain(a) /\ ~SaveEdit(a)
  BY DEF MigrateAgain, SaveEdit
<1>6. ~ConditionalNext(a)
  <2>1. pc[a] \in BatchPoints
    BY DEF StoreInv, ControlInv
  <2>. QED BY <2>1 DEF BatchPoints, ConditionalNext, LoadRevision, Stage, Validate, Candidate,
              Compare, CreateBackup, WriteBackup, CheckDigest, Replace, At
<1>. QED BY <1>2, <1>3, <1>4, <1>5, <1>6 DEF Next

\* BatchFaithful: the items are the cases in order, the end of the history of
\* the project that is returned, and on disk unless somebody else wrote.
THEOREM Faithful == Spec => []BatchFaithful
<1>1. StoreInv /\ BatchInv => BatchFaithful
  <2>. SUFFICES ASSUME StoreInv, BatchInv, NEW a \in Actors, Role[a] = "batch", ~At(a, "open")
                PROVE  /\ \A k \in DOMAIN items[a] : items[a][k].case = Cases[k]
                       /\ IsSuffix(items[a], mine[a].history)
                       /\ ~foreign[a] => disk = mine[a]
                       /\ At(a, "done") => out[a].completed = items[a]
                       /\ out[a].kind = "completed" => Len(items[a]) = Len(Cases)
    BY DEF BatchFaithful
  <2>1. items[a] \in Seq(Runs) /\ mine[a].history \in Seq(Runs)
    BY DEF StoreInv, DocumentsInv, Documents
  <2>2. BatchAccounts(a)
    BY DEF BatchInv
  <2>3. IsSuffix(items[a], mine[a].history)
    BY <2>1, <2>2, EndIsSuffix DEF BatchAccounts, At
  <2>. QED BY <2>2, <2>3 DEF BatchAccounts, At
<1>2. StoreInv /\ [Next]_vars => StoreInv'
  BY DocumentsStep, ControlStep DEF StoreInv
<1>. QED BY <1>1, <1>2, StoreInit, WindowInit, WindowStep, BatchInit, BatchStep, PTL DEF Spec
=============================================================================
