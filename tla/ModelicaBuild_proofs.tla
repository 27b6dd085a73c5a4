------------------------- MODULE ModelicaBuild_proofs -------------------------
(***************************************************************************)
(* Theorems about ModelicaBuild: what stands under modelica-builds is a    *)
(* whole package compiled from the source it records, and a build that     *)
(* ends with an EngineError leaves nothing behind.  They hold for every    *)
(* set of builds and every number of edits, changed copies and crashes.    *)
(***************************************************************************)
EXTENDS ModelicaBuild, SequenceTheorems, TLAPS

\* The points of a build: before it has a workspace, while it has one, and while
\* it takes it back.
Beginning == {"request", "root", "root_mkdir", "root_resolve", "mkdir"}
Staged == InPrepare \union InCompiler \union (InStage \ {"asset"})
Undoing == {"undo", "remove", "rmdir"}
Point == Beginning \union Staged \union Undoing \union {"asset", "done"}

File == Seq({0, 1, 2})
Halves == Seq(Versions)
OutsideTypes ==
    /\ source \in Versions /\ edits \in Nat
    /\ changed \subseteq Builds /\ putBack \subseteq Builds
TypeInv ==
    /\ OutsideTypes /\ dirty \subseteq Builds
    /\ place \in [Builds -> {"none", "staging", "builds"}]
    /\ entries \in [Builds -> SUBSET {"marker", "source", "compiler-output", "model"}]
    /\ snapshot \in [Builds -> Halves] /\ recorded \in [Builds -> Halves]
    /\ before \in [Builds -> Halves] /\ after \in [Builds -> Halves]
    /\ snapshotHash \in [Builds -> File]
    /\ built \in [Builds -> File] /\ temp \in [Builds -> BOOLEAN]
    /\ omc \in [Builds -> {"none", "running", "good", "bad"}]
    /\ pc \in [Builds -> Point]
    /\ failure \in [Builds -> {"none", "error", "raised", "crashed"}]
    /\ undoing \in [Builds -> {"no", "prepare", "stage", "published"}]

-----------------------------------------------------------------------------
(* Types. *)

\* A changed copy is no file made of halves of the user's.
LEMMA Files ==
    /\ NoFile \in Halves /\ Halves \subseteq File /\ Tampered \in File \ Halves
    /\ \A f \in Halves, v \in Versions : Append(f, v) \in Halves
    /\ \A v, w \in Versions : /\ Append(<<>>, v) = <<v>> /\ Append(<<v>>, w) = <<v, w>>
                             /\ <<v, w>> # Tampered
<1>1. <<>> \in Seq({0, 1}) /\ Seq({0, 1}) \subseteq Seq({0, 1, 2}) /\ <<2, 2>> \in Seq({0, 1, 2})
  OBVIOUS
<1>2. ASSUME NEW f \in Seq({0, 1}), NEW v \in {0, 1} PROVE Append(f, v) \in Seq({0, 1})
  OBVIOUS
<1>3. <<2, 2>> \notin Seq({0, 1})
  <2>1. SUFFICES ASSUME <<2, 2>> \in Seq({0, 1}) PROVE FALSE
    OBVIOUS
  <2>2. <<2, 2>>[1] \in {0, 1}
    BY <2>1
  <2>. QED BY <2>2
<1>4. ASSUME NEW v \in {0, 1}, NEW w \in {0, 1}
      PROVE  Append(<<>>, v) = <<v>> /\ Append(<<v>>, w) = <<v, w>> /\ <<v, w>> \in Seq({0, 1})
  <2>0. <<v, w>> \in Seq({0, 1})
    OBVIOUS
  <2>1. Append(<<>>, v) = <<v>>
    OBVIOUS
  <2>2. Append(<<v>>, w) = <<v, w>>
    <3>1. /\ <<v>> \in Seq({0, 1}) /\ Len(<<v>>) = 1 /\ <<v>>[1] = v
          /\ Len(<<v, w>>) = 2 /\ <<v, w>>[1] = v /\ <<v, w>>[2] = w
      OBVIOUS
    <3>2. /\ Append(<<v>>, w) \in Seq({0, 1}) /\ Len(Append(<<v>>, w)) = 2
          /\ Append(<<v>>, w)[1] = v /\ Append(<<v>>, w)[2] = w
      BY <3>1
    <3>3. \A i \in 1..2 : Append(<<v>>, w)[i] = <<v, w>>[i]
      <4>1. 1..2 = {1, 2}
        OBVIOUS
      <4>. QED BY <3>1, <3>2, <4>1
    <3>. QED BY <2>0, <3>1, <3>2, <3>3, SeqEqual
  <2>. QED BY <2>0, <2>1, <2>2
<1>. QED BY <1>1, <1>2, <1>3, <1>4 DEF NoFile, Tampered, Whole, Versions, File, Halves

\* What the copy holds is a file.
LEMMA CopyTypes == ASSUME TypeInv, NEW b \in Builds PROVE Copy(b) \in File
BY Files DEF Copy, TypeInv

\* Where Raise leads.
LEMMA RaiseLeads ==
    ASSUME TypeInv, NEW b \in Builds, NEW kind \in {"error", "raised"}, Raise(b, kind)
    PROVE  /\ failure' = [failure EXCEPT ![b] = kind] /\ dirty' = dirty
           /\ \E point \in {"leave", "undo", "done"} : pc' = [pc EXCEPT ![b] = point]
           /\ \E how \in {"prepare", "stage", undoing[b]} :
                 undoing' = [undoing EXCEPT ![b] = how]
           /\ pc[b] \in Beginning => pc'[b] = "done" /\ undoing'[b] = undoing[b]
           /\ pc[b] \in InPrepare => pc'[b] = "undo" /\ undoing'[b] = "prepare"
           /\ pc[b] \in InCompiler \ {"leave"} => pc'[b] = "leave" /\ undoing'[b] = undoing[b]
           /\ pc[b] \in InStage \union {"leave"} =>
                 \/ kind = "error" /\ pc'[b] = "undo" /\ undoing'[b] = "stage"
                 \/ kind = "raised" /\ pc'[b] = "done" /\ undoing'[b] = undoing[b]
<1>. USE DEF Raise, TypeInv, DiscardsFor
<1>0. undoing = [undoing EXCEPT ![b] = undoing[b]]
  OBVIOUS
<1>1. CASE pc[b] \in InCompiler \ {"leave"}
  BY <1>0, <1>1 DEF InCompiler, InPrepare, InStage, Beginning
<1>2. CASE pc[b] \in InPrepare
  BY <1>2 DEF InCompiler, InPrepare, InStage, Beginning
<1>3. CASE pc[b] \in InStage \union {"leave"} /\ kind = "error"
  BY <1>3 DEF InCompiler, InPrepare, InStage, Beginning
<1>4. CASE pc[b] \notin (InCompiler \ {"leave"}) \union InPrepare
           /\ ~(pc[b] \in InStage \union {"leave"} /\ kind = "error")
  BY <1>0, <1>4 DEF InCompiler, InPrepare, InStage, Beginning
<1>. QED BY <1>1, <1>2, <1>3, <1>4

\* Every initial state is well typed.
LEMMA TypeInit == Init => TypeInv
<1>1. NoFile \in File /\ NoFile \in Halves
  BY Files
<1>. QED BY <1>1 DEF Init, TypeInv, OutsideTypes, Point, Beginning, Versions

\* Goto moves its own build only, and nothing else of its control state.
LEMMA GotoLeads ==
    ASSUME TypeInv, NEW b \in Builds, NEW point, Goto(b, point)
    PROVE  /\ pc' = [pc EXCEPT ![b] = point] /\ pc'[b] = point
           /\ UNCHANGED <<failure, undoing, dirty>>
BY DEF Goto, TypeInv

ControlTypes ==
    /\ dirty \subseteq Builds /\ pc \in [Builds -> Point]
    /\ failure \in [Builds -> {"none", "error", "raised", "crashed"}]
    /\ undoing \in [Builds -> {"no", "prepare", "stage", "published"}]

\* Every step leads from one point of the build to another.
LEMMA ControlStep ==
    ASSUME TypeInv, NEW b \in Builds
    PROVE  /\ \A point \in Point : Goto(b, point) => ControlTypes'
           /\ \A kind \in {"error", "raised"} : Raise(b, kind) => ControlTypes'
           /\ UNCHANGED control => ControlTypes'
<1>1. ASSUME NEW point \in Point, Goto(b, point) PROVE ControlTypes'
  BY <1>1 DEF Goto, ControlTypes, TypeInv
<1>2. ASSUME NEW kind \in {"error", "raised"}, Raise(b, kind) PROVE ControlTypes'
  <2>1. {"leave", "undo", "done"} \subseteq Point
    BY DEF Point, Staged, InCompiler, InStage, InPrepare, Undoing
  <2>2. PICK point \in {"leave", "undo", "done"} : pc' = [pc EXCEPT ![b] = point]
    BY <1>2, RaiseLeads
  <2>3. PICK how \in {"prepare", "stage", undoing[b]} : undoing' = [undoing EXCEPT ![b] = how]
    BY <1>2, RaiseLeads
  <2>4. failure' = [failure EXCEPT ![b] = kind] /\ dirty' = dirty
    BY <1>2, RaiseLeads
  <2>. QED BY <2>1, <2>2, <2>3, <2>4 DEF ControlTypes, TypeInv
<1>3. ASSUME UNCHANGED control PROVE ControlTypes'
  BY <1>3 DEF control, ControlTypes, TypeInv
<1>. QED BY <1>1, <1>2, <1>3

\* No step of a build saves the user's file or changes a copy.
LEMMA OutsideStays ==
    ASSUME NEW b \in Builds, Prepare(b) \/ Compile(b) \/ Publish(b) \/ Discard(b)
    PROVE  UNCHANGED outside
<1>1. CASE Prepare(b)
  BY <1>1 DEF Prepare, Request, StagingRoot, MakeStagingRoot, ResolveStagingRoot, MakeWorkspace,
     FillWorkspace, HashBefore, CopySource, HashCopy, HashAfter, Compare
<1>2. CASE Compile(b)
  BY <1>2 DEF Compile, VerifySnapshot, Discover, EnterTemporary, WriteScript, StartOmc, OmcEnds,
     Communicate, TimeOut, Interrupt, Collect, ValidateFmu, PublishFmu, LeaveTemporary,
     LeaveTemporaryFails
<1>3. CASE Publish(b)
  BY <1>3 DEF Publish, VerifyCompiled, RecordProvenance, PackageFmu, StripCompilerOutput,
     VerifyLayout, BuildsRoot, MakeBuildsRoot, ResolveBuildsRoot, Rename, CheckAsset
<1>4. CASE Discard(b)
  BY <1>4 DEF Discard, Undo, RemoveEntry, RemoveFails, RemoveDirectory, RemoveStagingRoot
<1>. QED BY <1>1, <1>2, <1>3, <1>4

\* Every step keeps the types.
LEMMA TypeStep == TypeInv /\ [Next]_vars => TypeInv'
<1>. SUFFICES ASSUME TypeInv, [Next]_vars PROVE TypeInv'
  OBVIOUS
<1>0. /\ NoFile \in File /\ NoFile \in Halves
      /\ \A f \in Halves, v \in Versions : Append(f, v) \in Halves
  BY Files
<1>a. ASSUME NEW b \in Builds, Prepare(b) \/ Compile(b) \/ Publish(b) \/ Discard(b)
      PROVE  OutsideTypes'
  BY <1>a, OutsideStays DEF outside, OutsideTypes, TypeInv
<1>1. ASSUME NEW b \in Builds, Prepare(b) PROVE TypeInv'
  <2>1. ControlTypes'
    <3>1. {"root", "root_resolve", "root_mkdir", "mkdir", "marker", "source_dir", "verify",
           "before1", "before2", "copy1", "copy2", "hash_copy", "after1", "after2", "compare",
           "output_dir"} \subseteq Point
      BY DEF Point, Beginning, Staged, InPrepare, InStage
    <3>2. CASE Request(b) \/ StagingRoot(b) \/ MakeStagingRoot(b) \/ ResolveStagingRoot(b)
      BY <3>1, <3>2, ControlStep DEF Request, StagingRoot, MakeStagingRoot, ResolveStagingRoot
    <3>3. CASE MakeWorkspace(b) \/ HashBefore(b) \/ HashCopy(b) \/ HashAfter(b) \/ Compare(b)
      BY <3>1, <3>3, ControlStep DEF MakeWorkspace, HashBefore, HashCopy, HashAfter, Compare,
         SnapshotFails
    <3>4. CASE FillWorkspace(b)
      BY <3>1, <3>4, ControlStep DEF FillWorkspace
    <3>5. CASE CopySource(b)
      BY <3>1, <3>5, ControlStep DEF CopySource, SnapshotFails
    <3>. QED BY <1>1, <3>2, <3>3, <3>4, <3>5 DEF Prepare
  <2>2. /\ place' \in [Builds -> {"none", "staging", "builds"}]
        /\ entries' \in [Builds -> SUBSET {"marker", "source", "compiler-output", "model"}]
        /\ snapshot' \in [Builds -> Halves] /\ recorded' \in [Builds -> Halves]
        /\ before' \in [Builds -> Halves] /\ after' \in [Builds -> Halves]
        /\ snapshotHash' \in [Builds -> File]
        /\ UNCHANGED compiler
    <3>. USE <1>0 DEF TypeInv, package, hashes
    <3>0. source \in Versions /\ \A c \in Builds : Copy(c) \in File
      BY CopyTypes DEF OutsideTypes
    <3>1. CASE Request(b) \/ StagingRoot(b) \/ MakeStagingRoot(b) \/ ResolveStagingRoot(b)
      BY <3>1 DEF Request, StagingRoot, MakeStagingRoot, ResolveStagingRoot
    <3>2. CASE MakeWorkspace(b)
      BY <3>2 DEF MakeWorkspace
    <3>3. CASE FillWorkspace(b)
      BY <3>3 DEF FillWorkspace, Creates
    <3>a. /\ [before EXCEPT ![b] = Append(@, source)] \in [Builds -> Halves]
          /\ [snapshot EXCEPT ![b] = Append(@, source)] \in [Builds -> Halves]
          /\ [after EXCEPT ![b] = Append(@, source)] \in [Builds -> Halves]
      <4>1. ASSUME NEW file \in [Builds -> Halves]
            PROVE  [file EXCEPT ![b] = Append(@, source)] \in [Builds -> Halves]
        <5>1. Append(file[b], source) \in Halves
          BY <3>0
        <5>. HIDE DEF TypeInv
        <5>. QED BY <5>1
      <4>. QED BY <4>1
    <3>b. Forget(b) =>
            /\ before' \in [Builds -> Halves] /\ after' \in [Builds -> Halves]
            /\ snapshotHash' \in [Builds -> File]
      BY DEF Forget
    <3>4. CASE HashBefore(b)
      <4>1. /\ UNCHANGED <<place, entries, snapshot, recorded, compiler>>
            /\ \/ /\ before' = [before EXCEPT ![b] = Append(@, source)]
                  /\ UNCHANGED <<snapshotHash, after>>
               \/ Forget(b)
        BY <3>4 DEF HashBefore, SnapshotFails
      <4>. QED BY <3>a, <3>b, <4>1
    <3>5. CASE CopySource(b)
      <4>1. /\ UNCHANGED <<place, entries, recorded, compiler>>
            /\ snapshot' = [snapshot EXCEPT ![b] = Append(@, source)] \/ UNCHANGED snapshot
            /\ UNCHANGED hashes \/ Forget(b)
        BY <3>5 DEF CopySource, SnapshotFails
      <4>. QED BY <3>a, <3>b, <4>1
    <3>6. CASE HashCopy(b)
      BY <3>0, <3>6, <3>b DEF HashCopy, SnapshotFails
    <3>7. CASE HashAfter(b)
      <4>1. /\ UNCHANGED <<place, entries, snapshot, recorded, compiler>>
            /\ \/ /\ after' = [after EXCEPT ![b] = Append(@, source)]
                  /\ UNCHANGED <<before, snapshotHash>>
               \/ Forget(b)
        BY <3>7 DEF HashAfter, SnapshotFails
      <4>. QED BY <3>a, <3>b, <4>1
    <3>8. CASE Compare(b)
      <4>1. recorded' \in [Builds -> Halves]
        <5>1. CASE Consistent(b) /\ recorded' = [recorded EXCEPT ![b] = snapshotHash[b]]
          BY <5>1 DEF Consistent
        <5>. QED BY <3>8, <5>1 DEF Compare
      <4>. QED BY <3>8, <3>b, <4>1 DEF Compare, SnapshotFails
    <3>. QED BY <1>1, <3>1, <3>2, <3>3, <3>4, <3>5, <3>6, <3>7, <3>8 DEF Prepare
  <2>. QED BY <1>1, <1>a, <2>1, <2>2 DEF TypeInv, ControlTypes, compiler
<1>2. ASSUME NEW b \in Builds, Compile(b) PROVE TypeInv'
  <2>1. ControlTypes'
    <3>1. InCompiler \union InStage \subseteq Point
      BY DEF Point, Staged
    <3>2. CASE VerifySnapshot(b) \/ Discover(b) \/ EnterTemporary(b) \/ WriteScript(b)
      BY <3>1, <3>2, ControlStep DEF VerifySnapshot, Discover, EnterTemporary, WriteScript,
         InCompiler, InStage
    <3>3. CASE StartOmc(b) \/ OmcEnds(b) \/ Communicate(b)
      BY <3>1, <3>3, ControlStep DEF StartOmc, OmcEnds, Communicate, InCompiler, InStage
    <3>4. CASE TimeOut(b)
      BY <3>1, <3>4 DEF TimeOut, ControlTypes, TypeInv, InCompiler
    <3>5. CASE Interrupt(b) \/ Collect(b) \/ ValidateFmu(b) \/ PublishFmu(b)
      BY <3>1, <3>5, ControlStep DEF Interrupt, Collect, ValidateFmu, PublishFmu, InCompiler
    <3>6. CASE LeaveTemporary(b) /\ failure[b] = "none"
      BY <3>1, <3>6, ControlStep DEF LeaveTemporary, InStage
    <3>7. CASE LeaveTemporary(b) /\ failure[b] \in {"error", "raised"}
      BY <3>1, <3>7, ControlStep DEF LeaveTemporary
    <3>8. CASE LeaveTemporary(b) /\ failure[b] = "crashed"
      BY <3>8 DEF LeaveTemporary, At, Raise, DiscardsFor, InCompiler, InPrepare, ControlTypes,
         TypeInv, Point
    <3>9. CASE LeaveTemporaryFails(b)
      BY <3>9, ControlStep DEF LeaveTemporaryFails
    <3>10. failure[b] \in {"none", "error", "raised", "crashed"}
      BY DEF TypeInv
    <3>. QED BY <1>2, <3>2, <3>3, <3>4, <3>5, <3>6, <3>7, <3>8, <3>9, <3>10 DEF Compile
  <2>2. /\ temp' \in [Builds -> BOOLEAN] /\ built' \in [Builds -> File]
        /\ omc' \in [Builds -> {"none", "running", "good", "bad"}]
        /\ UNCHANGED package
    <3>. USE DEF TypeInv, compiler
    <3>1. CASE VerifySnapshot(b) \/ Discover(b) \/ WriteScript(b) \/ Communicate(b)
      BY <3>1 DEF VerifySnapshot, Discover, WriteScript, Communicate
    <3>2. CASE EnterTemporary(b) \/ StartOmc(b)
      BY <3>2 DEF EnterTemporary, StartOmc
    <3>3. CASE OmcEnds(b)
      BY <3>3, CopyTypes DEF OmcEnds
    <3>4. CASE TimeOut(b)
      BY <3>4 DEF TimeOut
    <3>5. CASE Interrupt(b) \/ Collect(b) \/ ValidateFmu(b) \/ PublishFmu(b)
      BY <3>5 DEF Interrupt, Collect, ValidateFmu, PublishFmu
    <3>6. CASE LeaveTemporary(b) \/ LeaveTemporaryFails(b)
      BY <3>6 DEF LeaveTemporary, LeaveTemporaryFails
    <3>. QED BY <1>2, <3>1, <3>2, <3>3, <3>4, <3>5, <3>6 DEF Compile
  <2>. QED BY <1>2, <1>a, <2>1, <2>2 DEF TypeInv, ControlTypes, package, hashes
<1>3. ASSUME NEW b \in Builds, Publish(b) PROVE TypeInv'
  <2>1. ControlTypes'
    <3>1. InStage \union {"done", "undo"} \subseteq Point
      BY DEF Point, Staged, Undoing
    <3>2. CASE VerifyCompiled(b) \/ RecordProvenance(b)
      BY <3>1, <3>2, ControlStep DEF VerifyCompiled, RecordProvenance, InStage
    <3>3. CASE PackageFmu(b) \/ StripCompilerOutput(b) \/ VerifyLayout(b)
      BY <3>1, <3>3, ControlStep DEF PackageFmu, StripCompilerOutput, VerifyLayout, InStage
    <3>4. CASE BuildsRoot(b) \/ MakeBuildsRoot(b) \/ ResolveBuildsRoot(b) \/ Rename(b)
      BY <3>1, <3>4, ControlStep DEF BuildsRoot, MakeBuildsRoot, ResolveBuildsRoot, Rename, InStage
    <3>5. CASE CheckAsset(b) /\ End(b)
      BY <3>1, <3>5, ControlStep DEF End
    <3>6. CASE CheckAsset(b) /\ ~End(b)
      BY <3>1, <3>6 DEF CheckAsset, ControlTypes, TypeInv
    <3>. QED BY <1>3, <3>2, <3>3, <3>4, <3>5, <3>6 DEF Publish
  <2>2. /\ place' \in [Builds -> {"none", "staging", "builds"}]
        /\ entries' \in [Builds -> SUBSET {"marker", "source", "compiler-output", "model"}]
        /\ UNCHANGED <<snapshot, recorded, hashes, compiler>>
    <3>. USE DEF TypeInv, package
    <3>1. CASE VerifyCompiled(b) \/ RecordProvenance(b)
      BY <3>1 DEF VerifyCompiled, RecordProvenance
    <3>2. CASE PackageFmu(b)
      <4>1. \E more \in SUBSET {"model"} : entries' = [entries EXCEPT ![b] = @ \union more]
        BY <3>2 DEF PackageFmu, Creates
      <4>2. PICK more \in SUBSET {"model"} : entries' = [entries EXCEPT ![b] = @ \union more]
        BY <4>1
      <4>. QED BY <3>2, <4>2 DEF PackageFmu
    <3>3. CASE StripCompilerOutput(b) \/ VerifyLayout(b)
      BY <3>3 DEF StripCompilerOutput, VerifyLayout
    <3>4. CASE BuildsRoot(b) \/ MakeBuildsRoot(b) \/ ResolveBuildsRoot(b)
      BY <3>4 DEF BuildsRoot, MakeBuildsRoot, ResolveBuildsRoot
    <3>5. CASE Rename(b) \/ CheckAsset(b)
      BY <3>5 DEF Rename, CheckAsset
    <3>. QED BY <1>3, <3>1, <3>2, <3>3, <3>4, <3>5 DEF Publish
  <2>. QED BY <1>3, <1>a, <2>1, <2>2 DEF TypeInv, ControlTypes, hashes, compiler
<1>4. ASSUME NEW b \in Builds, Discard(b) PROVE TypeInv'
  <2>1. ControlTypes'
    <3>1. {"done", "remove", "rmdir"} \subseteq Point
      BY DEF Point, Undoing
    <3>2. CASE Undo(b) \/ RemoveFails(b) \/ RemoveStagingRoot(b)
      BY <3>1, <3>2 DEF Undo, RemoveFails, RemoveStagingRoot, End, Goto, CleanupRaises,
         ControlTypes, TypeInv
    <3>3. CASE RemoveEntry(b) \/ RemoveDirectory(b)
      BY <3>1, <3>3, ControlStep DEF RemoveEntry, RemoveDirectory, End
    <3>. QED BY <1>4, <3>2, <3>3 DEF Discard
  <2>2. /\ place' \in [Builds -> {"none", "staging", "builds"}]
        /\ entries' \in [Builds -> SUBSET {"marker", "source", "compiler-output", "model"}]
        /\ snapshot' \in [Builds -> Halves] /\ recorded' \in [Builds -> Halves]
        /\ built' \in [Builds -> File] /\ UNCHANGED <<hashes, temp, omc>>
    <3>. USE <1>0 DEF TypeInv, package, compiler
    <3>1. CASE Undo(b) \/ RemoveFails(b) \/ RemoveStagingRoot(b)
      BY <3>1 DEF Undo, RemoveFails, RemoveStagingRoot
    <3>2. CASE RemoveEntry(b)
      BY <3>2 DEF RemoveEntry
    <3>3. CASE RemoveDirectory(b)
      BY <3>3 DEF RemoveDirectory
    <3>. QED BY <1>4, <3>1, <3>2, <3>3 DEF Discard
  <2>. QED BY <1>4, <1>a, <2>1, <2>2 DEF TypeInv, ControlTypes, hashes
<1>5. ASSUME NEW b \in Builds, Tamper(b) PROVE TypeInv'
  BY <1>5 DEF Tamper, TypeInv, OutsideTypes, package, hashes, compiler, control
<1>6. ASSUME NEW b \in Builds, Crash(b) PROVE TypeInv'
  <2>1. "done" \in Point
    BY DEF Point
  <2>. QED BY <1>6, <2>1 DEF Crash, TypeInv, OutsideTypes, package, hashes, compiler
<1>7. CASE EditSource
  BY <1>7 DEF EditSource, TypeInv, OutsideTypes, package, hashes, compiler, control
<1>8. CASE AllDone \/ UNCHANGED vars
  BY <1>8 DEF AllDone, vars, outside, TypeInv, OutsideTypes, package, hashes, compiler, control
<1>. QED BY <1>1, <1>2, <1>3, <1>4, <1>5, <1>6, <1>7, <1>8 DEF Next

-----------------------------------------------------------------------------
(* What holds of one build. *)

\* Where its directory stands.
PlaceInv(b) ==
    /\ pc[b] \in Beginning \union {"rmdir"} => place[b] = "none"
    /\ pc[b] \in Staged => place[b] = "staging"
    /\ pc[b] = "asset" => place[b] = "builds"
    /\ pc[b] \in {"undo", "remove"} =>
          place[b] = IF undoing[b] = "published" THEN "builds" ELSE "staging"
    /\ pc[b] = "done" /\ failure[b] = "error" /\ b \notin dirty => place[b] = "none"

\* When an exception is on its way, and when something is being discarded.
ControlInv(b) ==
    /\ pc[b] \notin Undoing \union {"done"} => undoing[b] = "no"
    /\ pc[b] \notin Undoing \union {"leave", "done"} => failure[b] = "none"
    /\ pc[b] = "leave" => failure[b] # "crashed"
    /\ pc[b] \in Undoing => failure[b] \in {"error", "raised"} /\ undoing[b] # "no"

\* How long the temporary directory and the process may last: beyond compile only
\* behind an exception that is no EngineError, or a kill that failed.
BeforeOmc == Beginning \union InPrepare
             \union {"verify", "discover", "temp", "script", "start"}
CompilerInv(b) ==
    /\ temp[b] => pc[b] \in InCompiler
                    \/ (pc[b] = "done" /\ failure[b] \in {"raised", "crashed"})
    /\ pc[b] \in BeforeOmc => omc[b] = "none"
    /\ omc[b] = "running" =>
          /\ place[b] # "builds"
          /\ \/ pc[b] = "communicate"
             \/ pc[b] \in {"leave", "done"} /\ failure[b] \in {"raised", "crashed"}
             \/ /\ pc[b] \in Undoing \union {"leave", "done"}
                /\ b \in dirty /\ failure[b] # "none"

\* What the FMU was compiled from: the copy, unless that holds something else now,
\* which the next look at it finds out, or was put back in between.
Verified == {"provenance", "package", "strip", "layout", "builds_root", "builds_mkdir",
             "builds_resolve", "rename", "asset"}
Laid == {"builds_root", "builds_mkdir", "builds_resolve", "rename", "asset"}
RecordsOneVersion(b) == edits >= 5 \/ \E version \in Versions : recorded[b] = Whole(version)
BuiltFromRecord(b) == built[b] = recorded[b] \/ b \in putBack
PackageInv(b) ==
    /\ pc[b] \in {"output_dir", "asset"} \union (Staged \ InPrepare) => RecordsOneVersion(b)
    /\ omc[b] = "good" =>
          \/ built[b] = snapshot[b] \/ b \in putBack
          \/ built[b] = Tampered /\ b \in changed /\ snapshot[b] # NoFile
    /\ pc[b] \in {"validate", "output", "verify_compiled"} => omc[b] = "good"
    /\ pc[b] = "leave" /\ failure[b] = "none" => omc[b] = "good"
    /\ pc[b] \in Verified => BuiltFromRecord(b)
    /\ pc[b] \in Laid => entries[b] = Layout
    /\ pc[b] = "done" /\ place[b] = "builds" /\ undoing[b] # "published" =>
          entries[b] = Layout /\ BuiltFromRecord(b) /\ RecordsOneVersion(b)

\* How often the user has saved the file by the time a reading found again the
\* mix of two versions the first one found: once in the middle of a reading,
\* and once more before the next.
Saved(times, half) == edits >= times /\ (source = half \/ edits >= times + 1)
Unread == Beginning \union {"marker", "source_dir", "before1"}
ReadingInv(b) ==
    /\ pc[b] \in Unread => before[b] = <<>> /\ snapshot[b] = <<>>
    /\ pc[b] \in Unread \union {"before2", "copy1", "copy2", "hash_copy", "after1"} => after[b] = <<>>
    /\ pc[b] = "before2" =>
          snapshot[b] = <<>> /\ \E x \in Versions : before[b] = <<x>> /\ Saved(0, x)
    /\ pc[b] = "copy1" =>
          /\ snapshot[b] = <<>>
          /\ \E x, y \in Versions : before[b] = <<x, y>> /\ (x # y => Saved(1, y))
    /\ pc[b] = "copy2" =>
          \E x, y, z \in Versions :
             /\ before[b] = <<x, y>> /\ snapshot[b] = <<z>>
             /\ x # y /\ z = x => Saved(2, x)
    /\ pc[b] = "hash_copy" =>
          \E x, y \in Versions :
             before[b] = <<x, y>> /\ (x # y /\ snapshot[b] = <<x, y>> => Saved(3, y))
    /\ pc[b] = "after1" =>
          \E x, y \in Versions :
             before[b] = <<x, y>> /\ (x # y /\ snapshotHash[b] = <<x, y>> => Saved(3, y))
    /\ pc[b] = "after2" =>
          \E x, y, z \in Versions :
             /\ before[b] = <<x, y>> /\ after[b] = <<z>>
             /\ x # y /\ z = x /\ snapshotHash[b] = <<x, y>> => Saved(4, x)
    /\ pc[b] = "compare" =>
          \E x, y \in Versions : before[b] = <<x, y>> /\ (x # y /\ Consistent(b) => edits >= 5)

BuildInv(b) == PlaceInv(b) /\ ControlInv(b) /\ CompilerInv(b) /\ PackageInv(b)
Inv == TypeInv /\ \A b \in Builds : BuildInv(b) /\ ReadingInv(b)

\* Every initial state satisfies the invariant.
LEMMA InvInit == Init => Inv
<1>1. ASSUME Init, NEW b \in Builds PROVE BuildInv(b)
  <2>1. /\ pc[b] = "request" /\ place[b] = "none" /\ undoing[b] = "no" /\ failure[b] = "none"
        /\ temp[b] = FALSE /\ omc[b] = "none"
    BY <1>1 DEF Init
  <2>2. pc[b] \in Beginning /\ pc[b] \notin Staged \union Undoing
    BY <2>1 DEF Beginning, Staged, InPrepare, InCompiler, InStage, Undoing
  <2>3. PlaceInv(b) /\ ControlInv(b)
    BY <2>1, <2>2 DEF PlaceInv, ControlInv
  <2>4. CompilerInv(b)
    BY <2>1 DEF CompilerInv
  <2>5. PackageInv(b)
    BY <2>1, <2>2 DEF PackageInv, Verified, Laid
  <2>. QED BY <2>3, <2>4, <2>5 DEF BuildInv
<1>2. ASSUME Init, NEW b \in Builds PROVE ReadingInv(b)
  <2>1. pc[b] = "request" /\ before[b] = <<>> /\ snapshot[b] = <<>> /\ after[b] = <<>>
    BY <1>2 DEF Init, NoFile
  <2>. QED BY <2>1 DEF ReadingInv, Unread, Beginning
<1>. QED BY <1>1, <1>2, TypeInit DEF Inv

\* An exception raised anywhere but after the rename: whatever the failing call
\* left in the workspace.
LEMMA RaiseKeeps ==
    ASSUME TypeInv, NEW b \in Builds, BuildInv(b), NEW kind \in {"error", "raised"},
           Raise(b, kind), pc[b] \in Beginning \union Staged,
           UNCHANGED outside, place'[b] = place[b], omc'[b] = omc[b], built'[b] = built[b],
           pc[b] \in InCompiler => snapshot'[b] = snapshot[b] /\ recorded'[b] = recorded[b],
           snapshot'[b] = snapshot[b] \/ omc[b] = "none",
           pc[b] = "communicate" => kind = "raised",
           pc[b] = "leave" => kind \in {failure[b], "raised"},
           \/ temp'[b] = FALSE
           \/ temp'[b] = temp[b] /\ (pc[b] # "leave" \/ kind = "raised")
    PROVE  BuildInv(b)'
<1>. USE DEF BuildInv, outside, RecordsOneVersion, BuiltFromRecord
<1>0. pc[b] \in Point /\ pc[b] \notin Undoing \union {"done", "asset"}
  BY DEF TypeInv, Beginning, Staged, InPrepare, InCompiler, InStage, Undoing
<1>1. failure'[b] = kind /\ dirty' = dirty
  BY RaiseLeads DEF TypeInv
<1>2. CASE pc[b] \in Beginning
  <2>1. pc'[b] = "done" /\ undoing'[b] = undoing[b]
    BY <1>2, RaiseLeads
  <2>2. omc[b] = "none" /\ place[b] = "none" /\ temp[b] = FALSE
    BY <1>2 DEF CompilerInv, PlaceInv, BeforeOmc, Beginning, InCompiler, TypeInv
  <2>. QED BY <1>1, <2>1, <2>2 DEF PlaceInv, ControlInv, CompilerInv, PackageInv,
       Beginning, Staged, InPrepare, InCompiler, InStage, Undoing, Verified, Laid, BeforeOmc
<1>3. CASE pc[b] \in InPrepare
  <2>1. pc'[b] = "undo" /\ undoing'[b] = "prepare"
    BY <1>3, RaiseLeads
  <2>2. omc[b] = "none" /\ place[b] = "staging" /\ temp[b] = FALSE
    BY <1>3 DEF CompilerInv, PlaceInv, BeforeOmc, Staged, InPrepare, InCompiler, TypeInv
  <2>. QED BY <1>1, <2>1, <2>2 DEF PlaceInv, ControlInv, CompilerInv, PackageInv,
       Beginning, Staged, InPrepare, InCompiler, InStage, Undoing, Verified, Laid, BeforeOmc
<1>4. CASE pc[b] \in InCompiler \ {"leave"}
  <2>1. pc'[b] = "leave" /\ undoing'[b] = "no"
    BY <1>4, RaiseLeads DEF ControlInv, InCompiler, Undoing
  <2>2. place[b] = "staging" /\ RecordsOneVersion(b)
    BY <1>4 DEF PlaceInv, PackageInv, Staged, InPrepare, InCompiler
  <2>3. /\ snapshot'[b] = snapshot[b] /\ recorded'[b] = recorded[b]
        /\ omc[b] = "running" => kind = "raised"
    BY <1>4 DEF CompilerInv, InCompiler, Undoing
  <2>. QED BY <1>1, <2>1, <2>2, <2>3 DEF PlaceInv, ControlInv, CompilerInv, PackageInv,
       Beginning, Staged, InPrepare, InCompiler, InStage, Undoing, Verified, Laid, BeforeOmc
<1>5. CASE pc[b] \in (InStage \ {"asset"}) \union {"leave"}
  <2>1. \/ kind = "error" /\ pc'[b] = "undo" /\ undoing'[b] = "stage"
        \/ kind = "raised" /\ pc'[b] = "done" /\ undoing'[b] = "no"
    BY <1>5, RaiseLeads DEF ControlInv, InStage, Undoing
  <2>2. place[b] = "staging"
    BY <1>5 DEF PlaceInv, Staged, InCompiler
  <2>3. omc[b] = "running" => kind = "raised" \/ b \in dirty
    BY <1>5 DEF CompilerInv, ControlInv, InStage, Undoing
  <2>4. temp'[b] = TRUE => kind = "raised"
    BY <1>5 DEF CompilerInv, InCompiler, InStage, TypeInv
  <2>5. temp'[b] \in BOOLEAN
    BY DEF TypeInv
  <2>. QED BY <1>1, <1>5, <2>1, <2>2, <2>3, <2>4, <2>5 DEF PlaceInv, ControlInv, CompilerInv, PackageInv,
       Beginning, Staged, InPrepare, InCompiler, InStage, Undoing, Verified, Laid, BeforeOmc
<1>. QED BY <1>2, <1>3, <1>4, <1>5 DEF Staged

\* A step to another point of the build before anything is compiled.
LEMMA BeginningKeeps ==
    ASSUME TypeInv, NEW b \in Builds, BuildInv(b), NEW point, Goto(b, point),
           pc[b] \in Beginning \union InPrepare,
           point \in Beginning \union InPrepare \union {"verify"},
           place'[b] = IF point \in Beginning THEN "none" ELSE "staging",
           point \in {"output_dir", "verify"} => RecordsOneVersion(b)',
           UNCHANGED compiler
    PROVE  BuildInv(b)'
<1>1. pc'[b] = point /\ UNCHANGED <<failure, undoing, dirty, built, temp, omc>>
  BY GotoLeads DEF compiler
<1>2. /\ undoing[b] = "no" /\ failure[b] = "none" /\ omc[b] = "none" /\ temp[b] = FALSE
  BY DEF BuildInv, ControlInv, CompilerInv, BeforeOmc, Beginning, InPrepare, InCompiler, Undoing,
     TypeInv
<1>. QED BY <1>1, <1>2 DEF BuildInv, PlaceInv, ControlInv, CompilerInv, PackageInv, Beginning,
     Staged, InPrepare, InCompiler, InStage, Undoing, Verified, Laid, BeforeOmc

\* prepare_source_snapshot: an exception takes back what was made.
LEMMA PrepareKeeps ==
    ASSUME TypeInv, NEW b \in Builds, BuildInv(b), ReadingInv(b), Prepare(b)
    PROVE  BuildInv(b)'
<1>0. /\ pc[b] \in Beginning => place[b] = "none"
      /\ pc[b] \in InPrepare => place[b] = "staging" /\ omc[b] = "none"
      /\ pc[b] = "output_dir" => RecordsOneVersion(b)
      /\ UNCHANGED outside
  BY OutsideStays DEF BuildInv, PlaceInv, PackageInv, CompilerInv, BeforeOmc, Staged, InPrepare
<1>1. CASE Request(b) \/ StagingRoot(b) \/ MakeStagingRoot(b) \/ ResolveStagingRoot(b)
  <2>1. /\ pc[b] \in Beginning /\ UNCHANGED <<package, compiler>>
        /\ \/ \E point \in Beginning : Goto(b, point)
           \/ Raise(b, "error")
    BY <1>1 DEF Request, StagingRoot, MakeStagingRoot, ResolveStagingRoot, At, Beginning
  <2>2. CASE \E point \in Beginning : Goto(b, point)
    BY <1>0, <2>1, <2>2, BeginningKeeps DEF Beginning, package
  <2>3. CASE Raise(b, "error")
    BY <1>0, <2>1, <2>3, RaiseKeeps DEF package, compiler, Beginning, InCompiler
  <2>. QED BY <2>1, <2>2, <2>3
<1>2. CASE MakeWorkspace(b)
  <2>1. pc[b] = "mkdir" /\ UNCHANGED <<snapshot, recorded, compiler>>
    BY <1>2 DEF MakeWorkspace, At
  <2>2. CASE place' = [place EXCEPT ![b] = "staging"] /\ Goto(b, "marker")
    <3>1. place'[b] = "staging"
      BY <2>2 DEF TypeInv
    <3>. QED BY <2>1, <2>2, <3>1, BeginningKeeps DEF Beginning, InPrepare
  <2>3. CASE Raise(b, "error") /\ UNCHANGED place
    BY <1>0, <2>1, <2>3, RaiseKeeps DEF compiler, Beginning, InCompiler
  <2>. QED BY <1>2, <2>2, <2>3 DEF MakeWorkspace
<1>3. CASE FillWorkspace(b)
  <2>1. UNCHANGED <<place, snapshot, recorded, compiler>>
    BY <1>3 DEF FillWorkspace
  <2>2. CASE \/ At(b, "marker") /\ Goto(b, "source_dir")
             \/ At(b, "source_dir") /\ Goto(b, "before1")
    BY <1>0, <2>1, <2>2, BeginningKeeps DEF At, Beginning, InPrepare
  <2>3. CASE At(b, "output_dir") /\ Goto(b, "verify")
    <3>1. RecordsOneVersion(b)'
      BY <1>0, <2>1, <2>3 DEF At, outside, RecordsOneVersion
    <3>. QED BY <1>0, <2>1, <2>3, <3>1, BeginningKeeps DEF At, Beginning, InPrepare
  <2>4. CASE pc[b] \in InPrepare /\ Raise(b, "raised")
    BY <1>0, <2>1, <2>4, RaiseKeeps DEF compiler, Staged, InPrepare, InCompiler
  <2>5. pc[b] \in {"marker", "source_dir", "output_dir"} /\ (<2>2!1 \/ <2>3!1 \/ Raise(b, "raised"))
    BY <1>3 DEF FillWorkspace, At
  <2>. QED BY <2>2, <2>3, <2>4, <2>5 DEF InPrepare
<1>4. CASE HashBefore(b) \/ CopySource(b) \/ HashCopy(b) \/ HashAfter(b)
  <2>1. /\ pc[b] \in {"before1", "before2", "copy1", "copy2", "hash_copy", "after1", "after2"}
        /\ UNCHANGED <<place, recorded, compiler>>
        /\ \/ \E point \in {"before2", "copy1", "copy2", "hash_copy", "after1", "after2", "compare"} :
                 Goto(b, point)
           \/ Raise(b, "error")
    BY <1>4 DEF HashBefore, CopySource, HashCopy, HashAfter, SnapshotFails, At
  <2>2. CASE \E point \in {"before2", "copy1", "copy2", "hash_copy", "after1", "after2", "compare"} :
                Goto(b, point)
    BY <1>0, <2>1, <2>2, BeginningKeeps DEF Beginning, InPrepare
  <2>3. CASE Raise(b, "error")
    BY <1>0, <2>1, <2>3, RaiseKeeps DEF compiler, Staged, InPrepare, InCompiler
  <2>. QED BY <2>1, <2>2, <2>3
<1>5. CASE Compare(b)
  <2>1. pc[b] = "compare" /\ UNCHANGED <<place, snapshot, compiler>>
    BY <1>5 DEF Compare, At
  <2>2. CASE Consistent(b) /\ recorded' = [recorded EXCEPT ![b] = snapshotHash[b]]
             /\ Goto(b, "output_dir")
    <3>1. PICK x, y \in Versions : before[b] = <<x, y>> /\ (x # y => edits >= 5)
      BY <2>1, <2>2 DEF ReadingInv
    <3>2. recorded'[b] = <<x, y>> /\ edits' = edits
      BY <1>0, <2>2, <3>1 DEF Consistent, outside, TypeInv
    <3>3. RecordsOneVersion(b)'
      BY <3>1, <3>2 DEF RecordsOneVersion, Whole
    <3>. QED BY <1>0, <2>1, <2>2, <3>3, BeginningKeeps DEF Beginning, InPrepare
  <2>3. CASE Raise(b, "error")
    BY <1>0, <2>1, <2>3, RaiseKeeps DEF compiler, Staged, InPrepare, InCompiler
  <2>. QED BY <1>5, <2>2, <2>3 DEF Compare, SnapshotFails
<1>. QED BY <1>1, <1>2, <1>3, <1>4, <1>5 DEF Prepare

\* A step to another point of the compilation or of the publication, with the
\* directory where it was.
LEMMA StagedKeeps ==
    ASSUME TypeInv, NEW b \in Builds, BuildInv(b), NEW point, Goto(b, point),
           pc[b] \in (InCompiler \union InStage) \ {"asset"}, failure[b] = "none",
           point \in (InCompiler \union InStage) \ {"asset"},
           UNCHANGED outside, place'[b] = "staging", snapshot'[b] = snapshot[b], recorded'[b] = recorded[b],
           built'[b] = built[b],
           temp'[b] => point \in InCompiler,
           omc'[b] = "running" => point = "communicate",
           point \in BeforeOmc => omc'[b] = "none",
           omc'[b] = omc[b] \/ omc'[b] # "good",
           point \in {"validate", "output", "verify_compiled", "leave"} => omc'[b] = "good",
           point \in Verified => BuiltFromRecord(b),
           point \in Laid => entries'[b] = Layout
    PROVE  BuildInv(b)'
<1>. USE DEF outside, RecordsOneVersion, BuiltFromRecord
<1>1. pc'[b] = point /\ UNCHANGED <<failure, undoing, dirty>>
  BY GotoLeads
<1>2. undoing[b] = "no" /\ RecordsOneVersion(b)
  BY DEF BuildInv, ControlInv, PackageInv, Staged, InPrepare, InCompiler, InStage, Undoing
<1>. QED BY <1>1, <1>2 DEF BuildInv, PlaceInv, ControlInv, CompilerInv, PackageInv, Beginning,
     Staged, InPrepare, InCompiler, InStage, Undoing, Verified, Laid, BeforeOmc

\* OpenModelicaCompiler.compile: the process ends before the with block is left,
\* or an exception is on its way that accounts for it.
LEMMA CompileKeeps ==
    ASSUME TypeInv, NEW b \in Builds, BuildInv(b), Compile(b)
    PROVE  BuildInv(b)'
<1>0. /\ pc[b] \in (InCompiler \union InStage) \ {"asset"} => place[b] = "staging"
      /\ pc[b] \in (InCompiler \union InStage) \ {"leave"} => failure[b] = "none"
      /\ temp[b] => pc[b] \in InCompiler
                      \/ (pc[b] = "done" /\ failure[b] \in {"raised", "crashed"})
      /\ pc[b] \in BeforeOmc => omc[b] = "none"
      /\ UNCHANGED outside
  BY OutsideStays DEF BuildInv, PlaceInv, ControlInv, CompilerInv, Staged, InCompiler, InStage, Undoing
<1>1. CASE VerifySnapshot(b) \/ Discover(b)
  <2>1. /\ pc[b] \in {"verify", "discover"} /\ UNCHANGED <<package, compiler>>
        /\ Goto(b, "discover") \/ Goto(b, "temp") \/ Raise(b, "error")
    BY <1>1 DEF VerifySnapshot, Discover, At
  <2>2. CASE Goto(b, "discover") \/ Goto(b, "temp")
    BY <1>0, <2>1, <2>2, StagedKeeps DEF package, compiler, InCompiler, InStage, BeforeOmc,
       Verified, Laid
  <2>3. CASE Raise(b, "error")
    BY <1>0, <2>1, <2>3, RaiseKeeps DEF package, compiler, Staged, InStage, InCompiler
  <2>. QED BY <2>1, <2>2, <2>3
<1>2. CASE EnterTemporary(b)
  <2>1. pc[b] = "temp" /\ UNCHANGED <<package, built, omc>>
    BY <1>2 DEF EnterTemporary, At
  <2>2. CASE Goto(b, "script")
    BY <1>0, <2>1, <2>2, StagedKeeps DEF package, InCompiler, InStage, BeforeOmc, Verified, Laid
  <2>3. CASE Raise(b, "raised") /\ UNCHANGED temp
    BY <1>0, <2>1, <2>3, RaiseKeeps DEF package, Staged, InStage, InCompiler
  <2>. QED BY <1>2, <2>2, <2>3 DEF EnterTemporary
<1>3. CASE WriteScript(b)
  <2>1. pc[b] = "script" /\ UNCHANGED <<package, compiler>>
    BY <1>3 DEF WriteScript, At
  <2>2. CASE Goto(b, "start")
    BY <1>0, <2>1, <2>2, StagedKeeps DEF package, compiler, InCompiler, InStage, BeforeOmc,
       Verified, Laid
  <2>3. ASSUME NEW kind \in {"error", "raised"}, Raise(b, kind) PROVE BuildInv(b)'
    BY <1>0, <2>1, <2>3, RaiseKeeps DEF package, compiler, Staged, InStage, InCompiler
  <2>. QED BY <1>3, <2>2, <2>3 DEF WriteScript
<1>4. CASE StartOmc(b)
  <2>1. pc[b] = "start" /\ UNCHANGED <<package, built, temp>>
    BY <1>4 DEF StartOmc, At
  <2>2. CASE omc' = [omc EXCEPT ![b] = "running"] /\ Goto(b, "communicate")
    <3>1. omc'[b] = "running"
      BY <2>2 DEF TypeInv
    <3>. QED BY <1>0, <2>1, <2>2, <3>1, StagedKeeps DEF package, InCompiler, InStage, BeforeOmc,
         Beginning, InPrepare, Verified, Laid
  <2>3. CASE Raise(b, "error") /\ UNCHANGED omc
    BY <1>0, <2>1, <2>3, RaiseKeeps DEF package, Staged, InStage, InCompiler
  <2>. QED BY <1>4, <2>2, <2>3 DEF StartOmc
<1>5. CASE OmcEnds(b)
  <2>1. /\ omc[b] = "running" /\ omc'[b] \in {"good", "bad"} /\ built'[b] = Copy(b)
        /\ UNCHANGED <<package, temp, control>>
    BY <1>5 DEF OmcEnds, TypeInv
  <2>2. pc[b] \in Undoing \union {"communicate", "leave", "done"} /\ place[b] # "builds"
        /\ (pc[b] = "leave" => failure[b] # "none")
    BY <2>1 DEF BuildInv, CompilerInv
  <2>. QED BY <1>0, <2>1, <2>2 DEF BuildInv, PlaceInv, ControlInv, CompilerInv, PackageInv, Beginning,
       Staged, InPrepare, InCompiler, InStage, Undoing, Verified, Laid, BeforeOmc,
       RecordsOneVersion, BuiltFromRecord, Copy, outside, package, control
<1>6. CASE Communicate(b)
  <2>1. pc[b] = "communicate" /\ omc[b] # "running" /\ Goto(b, "collect")
        /\ UNCHANGED <<package, compiler>>
    BY <1>6 DEF Communicate, At
  <2>. QED BY <1>0, <2>1, StagedKeeps DEF package, compiler, InCompiler, InStage, BeforeOmc,
       Beginning, InPrepare, Verified, Laid
<1>7. CASE TimeOut(b)
  <2>1. /\ pc[b] = "communicate" /\ UNCHANGED <<package, built, temp, undoing>>
        /\ pc'[b] = "leave" /\ failure'[b] = "error"
        /\ omc'[b] = omc[b] \/ omc'[b] = "bad"
        /\ omc'[b] = "running" => b \in dirty'
    BY <1>7 DEF TimeOut, At, TypeInv
  <2>2. undoing[b] = "no" /\ RecordsOneVersion(b) /\ place[b] = "staging"
    BY <2>1 DEF BuildInv, ControlInv, PackageInv, PlaceInv, Staged, InPrepare, InCompiler,
       Undoing
  <2>. QED BY <1>0, <2>1, <2>2 DEF BuildInv, PlaceInv, ControlInv, CompilerInv, PackageInv, Beginning,
       Staged, InPrepare, InCompiler, InStage, Undoing, Verified, Laid, BeforeOmc,
       RecordsOneVersion, BuiltFromRecord, outside, package
<1>8. CASE Interrupt(b)
  BY <1>0, <1>8, RaiseKeeps DEF Interrupt, At, package, compiler, Staged, InCompiler
<1>9. CASE Collect(b) \/ ValidateFmu(b) \/ PublishFmu(b)
  <2>1. /\ pc[b] \in {"collect", "validate", "output"} /\ UNCHANGED <<package, compiler>>
        /\ \/ pc[b] = "collect" /\ omc[b] = "good" /\ Goto(b, "validate")
           \/ pc[b] = "validate" /\ Goto(b, "output")
           \/ pc[b] = "output" /\ Goto(b, "leave")
           \/ \E kind \in {"error", "raised"} : Raise(b, kind)
    BY <1>9 DEF Collect, ValidateFmu, PublishFmu, At
  <2>2. CASE \E kind \in {"error", "raised"} : Raise(b, kind)
    BY <1>0, <2>1, <2>2, RaiseKeeps DEF package, compiler, Staged, InStage, InCompiler
  <2>3. pc[b] \in {"validate", "output"} => omc[b] = "good"
    BY DEF BuildInv, PackageInv
  <2>4. ASSUME NEW point \in {"validate", "output", "leave"}, Goto(b, point), omc[b] = "good"
        PROVE  BuildInv(b)'
    BY <1>0, <2>1, <2>4, StagedKeeps DEF package, compiler, InCompiler, InStage, BeforeOmc,
       Beginning, InPrepare, Verified, Laid
  <2>. QED BY <2>1, <2>2, <2>3, <2>4
<1>10. CASE LeaveTemporary(b)
  <2>1. /\ pc[b] = "leave" /\ temp'[b] = FALSE /\ UNCHANGED <<package, built, omc>>
    BY <1>10 DEF LeaveTemporary, At, TypeInv
  <2>2. CASE failure[b] = "none" /\ Goto(b, "verify_compiled")
    <3>1. omc[b] = "good"
      BY <2>1, <2>2 DEF BuildInv, PackageInv
    <3>. QED BY <1>0, <2>1, <2>2, <3>1, StagedKeeps DEF package, InCompiler, InStage, BeforeOmc,
         Beginning, InPrepare, Verified, Laid
  <2>3. CASE failure[b] # "none" /\ Raise(b, failure[b])
    <3>1. failure[b] \in {"error", "raised"}
      BY <2>1, <2>3 DEF BuildInv, ControlInv, TypeInv
    <3>. QED BY <1>0, <2>1, <2>3, <3>1, RaiseKeeps DEF package, Staged, InCompiler
  <2>. QED BY <1>10, <2>2, <2>3 DEF LeaveTemporary
<1>11. CASE LeaveTemporaryFails(b)
  BY <1>0, <1>11, RaiseKeeps DEF LeaveTemporaryFails, At, package, compiler, Staged, InCompiler
<1>. QED BY <1>1, <1>2, <1>3, <1>4, <1>5, <1>6, <1>7, <1>8, <1>9, <1>10, <1>11 DEF Compile

\* publish_verified_build and the asset check: what is renamed has been looked
\* at after the compiler ended.
LEMMA PublishKeeps ==
    ASSUME TypeInv, NEW b \in Builds, BuildInv(b), Publish(b)
    PROVE  BuildInv(b)'
<1>0. /\ pc[b] \in InStage \ {"asset"} => place[b] = "staging"
      /\ pc[b] \in InStage => failure[b] = "none" /\ temp[b] = FALSE /\ omc[b] # "running"
      /\ pc[b] \in InStage /\ pc[b] \in Verified => BuiltFromRecord(b)
      /\ pc[b] \in InStage /\ pc[b] \in Laid => entries[b] = Layout
      /\ UNCHANGED outside
  BY OutsideStays DEF BuildInv, PlaceInv, ControlInv, CompilerInv, PackageInv, Staged, InCompiler, InStage,
     Undoing, TypeInv
<1>a. ASSUME Raise(b, "error"), pc[b] \in InStage \ {"asset"},
             UNCHANGED <<place, snapshot, recorded, compiler>>
      PROVE  BuildInv(b)'
  BY <1>0, <1>a, RaiseKeeps DEF compiler, Staged, InStage, InCompiler
<1>1. CASE VerifyCompiled(b)
  <2>1. pc[b] = "verify_compiled" /\ UNCHANGED <<package, compiler>>
    BY <1>1 DEF VerifyCompiled, At
  <2>2. CASE SnapshotIntact(b) /\ Goto(b, "provenance")
    <3>1. omc[b] = "good"
      BY <2>1 DEF BuildInv, PackageInv
    <3>2. recorded[b] \in Halves /\ Tampered \notin Halves /\ Copy(b) = recorded[b]
      BY <2>2, Files DEF SnapshotIntact, TypeInv
    <3>3. snapshot[b] = recorded[b] /\ (b \notin changed \/ snapshot[b] = NoFile)
      BY <3>2 DEF Copy
    <3>4. BuiltFromRecord(b)
      BY <3>1, <3>3 DEF BuildInv, PackageInv, BuiltFromRecord
    <3>. QED BY <1>0, <2>1, <2>2, <3>1, <3>4, StagedKeeps DEF package, compiler, InCompiler,
         InStage, BeforeOmc, Beginning, InPrepare, Laid
  <2>3. CASE Raise(b, "error")
    BY <1>a, <2>1, <2>3 DEF package, InStage
  <2>. QED BY <1>1, <2>2, <2>3 DEF VerifyCompiled
<1>2. CASE RecordProvenance(b) \/ PackageFmu(b) \/ StripCompilerOutput(b)
  <2>1. /\ pc[b] \in {"provenance", "package", "strip"}
        /\ UNCHANGED <<place, snapshot, recorded, compiler>>
        /\ Goto(b, "package") \/ Goto(b, "strip") \/ Goto(b, "layout") \/ Raise(b, "error")
    BY <1>2 DEF RecordProvenance, PackageFmu, StripCompilerOutput, At, package
  <2>2. CASE Goto(b, "package") \/ Goto(b, "strip") \/ Goto(b, "layout")
    BY <1>0, <2>1, <2>2, StagedKeeps DEF compiler, InCompiler, InStage, BeforeOmc, Beginning,
       InPrepare, Verified, Laid
  <2>3. CASE Raise(b, "error")
    BY <1>a, <2>1, <2>3 DEF InStage
  <2>. QED BY <2>1, <2>2, <2>3
<1>3. CASE VerifyLayout(b) \/ BuildsRoot(b) \/ MakeBuildsRoot(b) \/ ResolveBuildsRoot(b)
  <2>1. /\ pc[b] \in {"layout", "builds_root", "builds_mkdir", "builds_resolve"}
        /\ UNCHANGED <<package, compiler>>
        /\ \/ entries[b] = Layout
              /\ \E point \in {"builds_root", "builds_mkdir", "builds_resolve", "rename"} :
                    Goto(b, point)
           \/ Raise(b, "error")
    BY <1>0, <1>3 DEF VerifyLayout, BuildsRoot, MakeBuildsRoot, ResolveBuildsRoot, At, InStage, Laid
  <2>2. CASE Raise(b, "error")
    BY <1>a, <2>1, <2>2 DEF package, InStage
  <2>3. ASSUME NEW point \in {"builds_root", "builds_mkdir", "builds_resolve", "rename"},
               Goto(b, point), entries[b] = Layout
        PROVE  BuildInv(b)'
    BY <1>0, <2>1, <2>3, StagedKeeps DEF package, compiler, InCompiler, InStage, BeforeOmc,
       Beginning, InPrepare, Verified, Laid
  <2>. QED BY <2>1, <2>2, <2>3
<1>4. CASE Rename(b)
  <2>1. pc[b] = "rename" /\ UNCHANGED <<entries, snapshot, recorded, compiler>>
    BY <1>4 DEF Rename, At
  <2>2. CASE place' = [place EXCEPT ![b] = "builds"] /\ Goto(b, "asset")
    <3>1. place'[b] = "builds" /\ pc'[b] = "asset" /\ UNCHANGED <<failure, undoing, dirty>>
      BY <2>2, GotoLeads DEF TypeInv
    <3>2. undoing[b] = "no" /\ failure[b] = "none" /\ RecordsOneVersion(b)
      BY <2>1 DEF BuildInv, ControlInv, PackageInv, Staged, InPrepare, InStage, Undoing
    <3>. QED BY <1>0, <2>1, <3>1, <3>2 DEF BuildInv, PlaceInv, ControlInv, CompilerInv, PackageInv,
         Beginning, Staged, InPrepare, InCompiler, InStage, Undoing, Verified, Laid, BeforeOmc,
         RecordsOneVersion, BuiltFromRecord, outside, compiler
  <2>3. CASE Raise(b, "error") /\ UNCHANGED place
    BY <1>a, <2>1, <2>3 DEF InStage
  <2>. QED BY <1>4, <2>2, <2>3 DEF Rename
<1>5. CASE CheckAsset(b)
  <2>1. /\ pc[b] = "asset" /\ UNCHANGED <<package, compiler>>
        /\ \/ pc'[b] = "done" /\ UNCHANGED <<failure, undoing, dirty>>
           \/ pc'[b] = "undo" /\ undoing'[b] = "published" /\ failure'[b] = "error"
              /\ dirty' = dirty
    BY <1>5 DEF CheckAsset, End, Goto, At, TypeInv
  <2>2. /\ place[b] = "builds" /\ undoing[b] = "no" /\ failure[b] = "none"
        /\ RecordsOneVersion(b) /\ entries[b] = Layout /\ BuiltFromRecord(b)
    BY <2>1 DEF BuildInv, PlaceInv, ControlInv, PackageInv, Staged, InPrepare, InStage, Undoing, Verified, Laid
  <2>. QED BY <1>0, <2>1, <2>2 DEF BuildInv, PlaceInv, ControlInv, CompilerInv, PackageInv,
       Beginning, Staged, InPrepare, InCompiler, InStage, Undoing, Verified, Laid, BeforeOmc,
       RecordsOneVersion, BuiltFromRecord, outside, package, compiler
<1>. QED BY <1>1, <1>2, <1>3, <1>4, <1>5 DEF Publish

\* _discard_owned_directory takes back what is at the place it was called for.
LEMMA DiscardKeeps ==
    ASSUME TypeInv, NEW b \in Builds, BuildInv(b), Discard(b)
    PROVE  BuildInv(b)'
<1>0. /\ pc[b] \in {"undo", "remove"} =>
            place[b] = IF undoing[b] = "published" THEN "builds" ELSE "staging"
      /\ pc[b] = "rmdir" => place[b] = "none"
      /\ pc[b] \in Undoing => failure[b] \in {"error", "raised"} /\ undoing[b] # "no"
                               /\ temp[b] = FALSE
      /\ pc[b] \in Undoing /\ omc[b] = "running" => place[b] # "builds" /\ b \in dirty
      /\ UNCHANGED outside
  BY OutsideStays DEF BuildInv, PlaceInv, ControlInv, CompilerInv, PackageInv, Undoing, InCompiler, TypeInv
<1>. USE DEF BuildInv, PlaceInv, ControlInv, CompilerInv, PackageInv, Beginning, Staged,
     InPrepare, InCompiler, InStage, Undoing, Verified, Laid, BeforeOmc, outside
<1>1. CASE Undo(b)
  <2>1. /\ pc[b] = "undo" /\ ~Gone(b) /\ UNCHANGED <<package, compiler>>
        /\ \/ CleanupRaises(b) /\ dirty' = dirty \union {b}
           \/ Goto(b, "remove")
    BY <1>0, <1>1 DEF Undo, At, Gone
  <2>2. CASE Goto(b, "remove")
    BY <1>0, <2>1, <2>2, GotoLeads DEF package, compiler
  <2>3. CASE CleanupRaises(b) /\ dirty' = dirty \union {b}
    <3>1. pc'[b] = "done" /\ b \in dirty' /\ failure'[b] \in {"error", "raised"}
          /\ undoing' = undoing
      BY <1>0, <2>1, <2>3 DEF CleanupRaises, TypeInv
    <3>. QED BY <1>0, <2>1, <3>1 DEF package, compiler
  <2>. QED BY <2>1, <2>2, <2>3
<1>2. CASE RemoveEntry(b)
  <2>1. pc[b] = "remove" /\ UNCHANGED <<place, snapshot, recorded, compiler, control>>
    BY <1>2 DEF RemoveEntry, At
  <2>. QED BY <1>0, <2>1 DEF compiler, control
<1>3. CASE RemoveFails(b)
  <2>1. pc[b] = "remove" /\ UNCHANGED <<package, compiler>>
    BY <1>3 DEF RemoveFails, At
  <2>2. pc'[b] = "done" /\ b \in dirty' /\ failure'[b] \in {"error", "raised"}
        /\ undoing' = undoing
    BY <1>0, <1>3, <2>1 DEF RemoveFails, CleanupRaises, TypeInv
  <2>. QED BY <1>0, <2>1, <2>2 DEF package, compiler
<1>4. CASE RemoveDirectory(b)
  <2>1. /\ pc[b] = "remove" /\ place'[b] = "none" /\ UNCHANGED <<entries, temp, omc>>
        /\ built'[b] = snapshot'[b]
        /\ \/ undoing[b] = "published" /\ Goto(b, "done")
           \/ undoing[b] # "published" /\ Goto(b, "rmdir")
    BY <1>4 DEF RemoveDirectory, At, End, TypeInv
  <2>2. /\ pc'[b] = "rmdir" \/ (pc'[b] = "done" /\ place[b] = "builds")
        /\ UNCHANGED <<failure, undoing, dirty>>
    BY <1>0, <2>1, GotoLeads
  <2>. QED BY <1>0, <2>1, <2>2
<1>5. CASE RemoveStagingRoot(b)
  <2>1. /\ pc[b] = "rmdir" /\ UNCHANGED <<package, compiler, dirty, undoing>>
        /\ pc'[b] = "done" /\ failure'[b] \in {"error", "raised"}
    BY <1>0, <1>5 DEF RemoveStagingRoot, At, End, Goto, CleanupRaises, TypeInv
  <2>2. /\ failure'[b] = failure[b] \/ failure'[b] = "error"
    BY <1>0, <1>5 DEF RemoveStagingRoot, At, End, Goto, CleanupRaises, TypeInv
  <2>. QED BY <1>0, <2>1, <2>2 DEF package, compiler
<1>. QED BY <1>1, <1>2, <1>3, <1>4, <1>5 DEF Discard

\* An FMU compiled while the copy was changed is not what the record says; once the
\* copy is put back, nothing tells them apart.
LEMMA TamperKeeps ==
    ASSUME TypeInv, NEW b \in Builds, NEW c \in Builds, BuildInv(c), Tamper(b)
    PROVE  BuildInv(c)'
<1>1. /\ UNCHANGED <<edits, package, compiler, control>>
      /\ putBack \subseteq putBack'
      /\ c \in changed => c \in changed' \/ (c = b /\ (built[b] = Tampered => b \in putBack'))
  BY DEF Tamper
<1>2. snapshot[b] # NoFile
  <2>1. Len(snapshot[b]) = 2
    BY DEF Tamper
  <2>. QED BY <2>1 DEF NoFile
<1>. QED BY <1>1, <1>2 DEF BuildInv, PlaceInv, ControlInv, CompilerInv, PackageInv,
     RecordsOneVersion, BuiltFromRecord, package, compiler, control

\* A killed process leaves its directory where it was.
LEMMA CrashKeeps ==
    ASSUME TypeInv, NEW b \in Builds, BuildInv(b), Crash(b)
    PROVE  BuildInv(b)'
<1>1. /\ pc[b] # "done" /\ pc'[b] = "done" /\ failure'[b] = "crashed"
      /\ UNCHANGED <<edits, changed, putBack, package, compiler, undoing, dirty>>
  BY DEF Crash, At, TypeInv
<1>2. pc[b] \in Point
  BY DEF TypeInv
<1>3. place[b] = "builds" /\ undoing[b] # "published" => pc[b] = "asset"
  BY <1>1, <1>2 DEF BuildInv, PlaceInv, Point, Undoing
<1>. QED BY <1>1, <1>3 DEF BuildInv, PlaceInv, ControlInv, CompilerInv, PackageInv,
     Beginning, Staged, InPrepare, InCompiler, InStage, Undoing, Verified, Laid, BeforeOmc,
     RecordsOneVersion, BuiltFromRecord, package, compiler

\* The user may save the file at any time: what was recorded stays recorded.
LEMMA EditKeeps ==
    ASSUME TypeInv, NEW c \in Builds, BuildInv(c), EditSource
    PROVE  BuildInv(c)'
<1>1. /\ UNCHANGED <<changed, putBack, package, compiler, control>>
      /\ edits >= 5 => edits' >= 5
  BY DEF EditSource, TypeInv, OutsideTypes
<1>. QED BY <1>1 DEF BuildInv, PlaceInv, ControlInv, CompilerInv, PackageInv, RecordsOneVersion,
     BuiltFromRecord, package, compiler, control

-----------------------------------------------------------------------------
(* The three readings of the user's file. *)

\* Saving the file again leaves what was saved by then.
LEMMA SavedGrows ==
    ASSUME TypeInv, EditSource, NEW times \in Nat, NEW half \in Versions, Saved(times, half)
    PROVE  Saved(times, half)'
BY DEF Saved, EditSource, TypeInv, OutsideTypes

\* Whatever the user does, the readings made so far remain.
LEMMA EditKeepsReading ==
    ASSUME TypeInv, NEW c \in Builds, ReadingInv(c), EditSource
    PROVE  ReadingInv(c)'
<1>1. /\ UNCHANGED <<before, snapshot, snapshotHash, after, pc>> /\ (edits >= 5 => edits' >= 5)
      /\ Consistent(c)' = Consistent(c)
  BY DEF EditSource, package, hashes, control, Consistent, TypeInv, OutsideTypes
<1>2. \A n \in 0..4, x \in Versions : Saved(n, x) => Saved(n, x)'
  BY SavedGrows
<1>. QED BY <1>1, <1>2 DEF ReadingInv

\* A reading that finds the mix again has been saved in the middle of.
LEMMA PrepareReads ==
    ASSUME TypeInv, NEW b \in Builds, ReadingInv(b), Prepare(b)
    PROVE  ReadingInv(b)'
<1>. USE DEF Saved
<1>0. /\ source \in Versions /\ edits \in Nat /\ UNCHANGED <<source, edits>>
      /\ \A v, w \in Versions : /\ Append(<<>>, v) = <<v>> /\ Append(<<v>>, w) = <<v, w>>
                               /\ <<v, w>> # Tampered
  BY OutsideStays, Files DEF TypeInv, OutsideTypes, outside
<1>1. ASSUME NEW kind \in {"error", "raised"}, Raise(b, kind) PROVE ReadingInv(b)'
  <2>1. pc'[b] \in {"leave", "undo", "done"}
    BY <1>1, RaiseLeads DEF TypeInv
  <2>. QED BY <2>1 DEF ReadingInv, Unread, Beginning
<1>2. ASSUME NEW point, Goto(b, point) PROVE pc'[b] = point
  BY <1>2, GotoLeads
<1>3. CASE \/ Request(b) \/ StagingRoot(b) \/ MakeStagingRoot(b) \/ ResolveStagingRoot(b)
           \/ MakeWorkspace(b) \/ FillWorkspace(b)
  <2>1. /\ UNCHANGED <<before, snapshot, after>> /\ pc[b] \in Unread \union {"output_dir"}
        /\ \/ pc[b] \in Unread /\ \E point \in Unread : Goto(b, point)
           \/ Goto(b, "verify")
           \/ \E kind \in {"error", "raised"} : Raise(b, kind)
    BY <1>3 DEF Request, StagingRoot, MakeStagingRoot, ResolveStagingRoot, MakeWorkspace,
       FillWorkspace, At, package, hashes, Unread, Beginning
  <2>2. CASE (pc[b] \in Unread /\ \E point \in Unread : Goto(b, point)) \/ Goto(b, "verify")
    <3>1. pc'[b] = "verify" \/ (pc'[b] \in Unread /\ pc[b] \in Unread)
      BY <1>2, <2>2
    <3>. QED BY <2>1, <3>1 DEF ReadingInv, Unread, Beginning
  <2>. QED BY <1>1, <2>1, <2>2
<1>4. CASE HashBefore(b)
  <2>1. CASE /\ At(b, "before1") /\ Goto(b, "before2") /\ UNCHANGED <<snapshotHash, after>>
             /\ before' = [before EXCEPT ![b] = Append(@, source)]
    <3>1. before[b] = <<>> /\ snapshot[b] = <<>> /\ after[b] = <<>>
      BY <2>1 DEF ReadingInv, Unread, At
    <3>2. before'[b] = <<source>> /\ UNCHANGED <<snapshot, after>> /\ pc'[b] = "before2"
      BY <1>0, <1>2, <1>4, <2>1, <3>1 DEF HashBefore, TypeInv
    <3>. QED BY <1>0, <3>1, <3>2 DEF ReadingInv, Unread, Beginning
  <2>2. CASE /\ At(b, "before2") /\ Goto(b, "copy1") /\ UNCHANGED <<snapshotHash, after>>
             /\ before' = [before EXCEPT ![b] = Append(@, source)]
    <3>1. PICK x \in Versions : before[b] = <<x>> /\ Saved(0, x)
      BY <2>2 DEF ReadingInv, At
    <3>2. snapshot[b] = <<>> /\ after[b] = <<>>
      BY <2>2 DEF ReadingInv, At
    <3>3. before'[b] = <<x, source>> /\ UNCHANGED <<snapshot, after>> /\ pc'[b] = "copy1"
      BY <1>0, <1>2, <1>4, <2>2, <3>1 DEF HashBefore, TypeInv
    <3>. QED BY <1>0, <3>1, <3>2, <3>3 DEF ReadingInv, Unread, Beginning
  <2>. QED BY <1>1, <1>4, <2>1, <2>2 DEF HashBefore, SnapshotFails
<1>5. CASE CopySource(b)
  <2>0. (At(b, "copy1") \/ At(b, "copy2")) /\ after[b] = <<>>
    BY <1>5 DEF CopySource, ReadingInv, At
  <2>1. CASE /\ At(b, "copy1") /\ Goto(b, "copy2") /\ UNCHANGED <<hashes>>
             /\ snapshot' = [snapshot EXCEPT ![b] = Append(@, source)]
    <3>1. PICK x, y \in Versions : before[b] = <<x, y>> /\ (x # y => Saved(1, y))
      BY <2>1 DEF ReadingInv, At
    <3>2. snapshot[b] = <<>>
      BY <2>1 DEF ReadingInv, At
    <3>3. snapshot'[b] = <<source>> /\ UNCHANGED <<before, after>> /\ pc'[b] = "copy2"
      BY <1>0, <1>2, <1>5, <2>1, <3>2 DEF CopySource, TypeInv, hashes
    <3>. QED BY <1>0, <2>0, <3>1, <3>3 DEF ReadingInv, Unread, Beginning
  <2>2. CASE /\ At(b, "copy2") /\ Goto(b, "hash_copy") /\ UNCHANGED <<hashes>>
             /\ snapshot' = [snapshot EXCEPT ![b] = Append(@, source)]
    <3>1. PICK x, y, z \in Versions : /\ before[b] = <<x, y>> /\ snapshot[b] = <<z>>
                                      /\ x # y /\ z = x => Saved(2, x)
      BY <2>2 DEF ReadingInv, At
    <3>2. snapshot'[b] = <<z, source>> /\ UNCHANGED <<before, after>> /\ pc'[b] = "hash_copy"
      BY <1>0, <1>2, <1>5, <2>2, <3>1 DEF CopySource, TypeInv, hashes
    <3>3. <<z, source>> = <<x, y>> => z = x /\ source = y
      OBVIOUS
    <3>. QED BY <1>0, <2>0, <3>1, <3>2, <3>3 DEF ReadingInv, Unread, Beginning
  <2>. QED BY <1>1, <1>5, <2>1, <2>2 DEF CopySource, SnapshotFails
<1>6. CASE HashCopy(b)
  <2>1. CASE /\ At(b, "hash_copy") /\ Goto(b, "after1") /\ UNCHANGED <<before, after>>
             /\ snapshotHash' = [snapshotHash EXCEPT ![b] = Copy(b)]
    <3>1. PICK x, y \in Versions : /\ before[b] = <<x, y>>
                                   /\ x # y /\ snapshot[b] = <<x, y>> => Saved(3, y)
      BY <2>1 DEF ReadingInv, At
    <3>2. /\ snapshotHash'[b] = Copy(b) /\ UNCHANGED <<before, after>> /\ pc'[b] = "after1"
          /\ after[b] = <<>>
      BY <1>2, <2>1 DEF At, TypeInv, ReadingInv
    <3>3. snapshotHash'[b] = <<x, y>> => snapshot[b] = <<x, y>>
      BY <1>0, <3>2 DEF Copy
    <3>. QED BY <1>0, <3>1, <3>2, <3>3 DEF ReadingInv, Unread, Beginning
  <2>. QED BY <1>1, <1>6, <2>1 DEF HashCopy, SnapshotFails
<1>7. CASE HashAfter(b)
  <2>1. CASE /\ At(b, "after1") /\ Goto(b, "after2") /\ UNCHANGED <<before, snapshotHash>>
             /\ after' = [after EXCEPT ![b] = Append(@, source)]
    <3>1. PICK x, y \in Versions : /\ before[b] = <<x, y>>
                                   /\ x # y /\ snapshotHash[b] = <<x, y>> => Saved(3, y)
      BY <2>1 DEF ReadingInv, At
    <3>2. after[b] = <<>>
      BY <2>1 DEF ReadingInv, At
    <3>3. after'[b] = <<source>> /\ UNCHANGED <<before, snapshotHash>> /\ pc'[b] = "after2"
      BY <1>0, <1>2, <1>7, <2>1, <3>2 DEF HashAfter, TypeInv
    <3>. QED BY <1>0, <3>1, <3>3 DEF ReadingInv, Unread, Beginning
  <2>2. CASE /\ At(b, "after2") /\ Goto(b, "compare") /\ UNCHANGED <<before, snapshotHash>>
             /\ after' = [after EXCEPT ![b] = Append(@, source)]
    <3>1. PICK x, y, z \in Versions :
             /\ before[b] = <<x, y>> /\ after[b] = <<z>>
             /\ x # y /\ z = x /\ snapshotHash[b] = <<x, y>> => Saved(4, x)
      BY <2>2 DEF ReadingInv, At
    <3>2. after'[b] = <<z, source>> /\ UNCHANGED <<before, snapshotHash>> /\ pc'[b] = "compare"
      BY <1>0, <1>2, <1>7, <2>2, <3>1 DEF HashAfter, TypeInv
    <3>3. <<x, y>> = <<z, source>> => x = z /\ y = source
      OBVIOUS
    <3>4. before'[b] = <<x, y>> /\ (x # y /\ Consistent(b)' => edits' >= 5)
      BY <1>0, <3>1, <3>2, <3>3 DEF Consistent
    <3>. QED BY <3>2, <3>4 DEF ReadingInv, Unread, Beginning
  <2>. QED BY <1>1, <1>7, <2>1, <2>2 DEF HashAfter, SnapshotFails
<1>8. CASE Compare(b)
  <2>1. CASE Goto(b, "output_dir")
    BY <1>2, <2>1 DEF ReadingInv, Unread, Beginning
  <2>. QED BY <1>1, <1>8, <2>1 DEF Compare, SnapshotFails
<1>. QED BY <1>3, <1>4, <1>5, <1>6, <1>7, <1>8 DEF Prepare

\* The other steps of a build come before the readings or after them.
LEMMA OthersRead ==
    ASSUME TypeInv, NEW b \in Builds, BuildInv(b), ReadingInv(b),
           Compile(b) \/ Publish(b) \/ Discard(b)
    PROVE  ReadingInv(b)'
<1>0. ASSUME NEW kind \in {"error", "raised"}, Raise(b, kind) PROVE pc'[b] \in {"leave", "undo", "done"}
  BY <1>0, RaiseLeads DEF TypeInv
<1>a. ASSUME NEW point, Goto(b, point) PROVE pc'[b] = point
  BY <1>a, GotoLeads
<1>1. CASE Compile(b)
  <2>1. CASE OmcEnds(b)
    <3>1. pc'[b] = pc[b] /\ pc[b] \in Undoing \union {"communicate", "leave", "done"}
      BY <2>1 DEF OmcEnds, BuildInv, CompilerInv, control
    <3>. QED BY <3>1 DEF ReadingInv, Unread, Beginning, Undoing
  <2>2. CASE TimeOut(b)
    BY <2>2 DEF TimeOut, TypeInv, ReadingInv, Unread, Beginning
  <2>3. CASE LeaveTemporary(b)
    <3>1. failure[b] # "none" => failure[b] \in {"error", "raised"}
      BY <2>3 DEF BuildInv, ControlInv, TypeInv, LeaveTemporary, At
    <3>2. pc'[b] \in {"verify_compiled", "leave", "undo", "done"}
      BY <1>0, <1>a, <2>3, <3>1 DEF LeaveTemporary
    <3>. QED BY <3>2 DEF ReadingInv, Unread, Beginning
  <2>4. CASE ~OmcEnds(b) /\ ~TimeOut(b) /\ ~LeaveTemporary(b)
    <3>1. pc'[b] \in {"discover", "temp", "script", "start", "communicate", "collect", "validate",
                    "output", "leave", "undo", "done"}
      BY <1>0, <1>1, <1>a, <2>4 DEF Compile, VerifySnapshot, Discover, EnterTemporary, WriteScript,
         StartOmc, Communicate, Interrupt, Collect, ValidateFmu, PublishFmu, LeaveTemporaryFails
    <3>. QED BY <3>1 DEF ReadingInv, Unread, Beginning
  <2>. QED BY <2>1, <2>2, <2>3, <2>4
<1>2. CASE Publish(b)
  <2>1. pc'[b] \in {"provenance", "package", "strip", "layout", "builds_root", "builds_mkdir",
                  "builds_resolve", "rename", "asset", "leave", "undo", "done"}
    BY <1>0, <1>2, <1>a DEF Publish, VerifyCompiled, RecordProvenance, PackageFmu,
       StripCompilerOutput, VerifyLayout, BuildsRoot, MakeBuildsRoot, ResolveBuildsRoot, Rename,
       CheckAsset, End, TypeInv
  <2>. QED BY <2>1 DEF ReadingInv, Unread, Beginning
<1>3. CASE Discard(b)
  <2>1. pc'[b] \in {"remove", "rmdir", "done"}
    BY <1>3, <1>a DEF Discard, Undo, RemoveEntry, RemoveFails, RemoveDirectory, RemoveStagingRoot,
       CleanupRaises, End, control, At, TypeInv
  <2>. QED BY <2>1 DEF ReadingInv, Unread, Beginning
<1>. QED BY <1>1, <1>2, <1>3

-----------------------------------------------------------------------------
(* What a step of one build leaves alone. *)

SameControl(c) ==
    /\ pc'[c] = pc[c] /\ failure'[c] = failure[c] /\ undoing'[c] = undoing[c]
    /\ c \in dirty <=> c \in dirty'
SamePackage(c) ==
    /\ place'[c] = place[c] /\ entries'[c] = entries[c]
    /\ snapshot'[c] = snapshot[c] /\ recorded'[c] = recorded[c]
SameCompiler(c) == built'[c] = built[c] /\ temp'[c] = temp[c] /\ omc'[c] = omc[c]
SameHashes(c) ==
    before'[c] = before[c] /\ snapshotHash'[c] = snapshotHash[c] /\ after'[c] = after[c]
Same(c) == SameControl(c) /\ SamePackage(c) /\ SameHashes(c) /\ SameCompiler(c)

\* A build whose own state did not change keeps its invariant.
LEMMA SameKeeps ==
    ASSUME NEW c \in Builds, BuildInv(c), ReadingInv(c), Same(c),
           UNCHANGED <<source, edits, changed, putBack>>
    PROVE  BuildInv(c)' /\ ReadingInv(c)'
<1>1. BuildInv(c)'
  BY DEF Same, SameControl, SamePackage, SameCompiler, BuildInv, PlaceInv, ControlInv, CompilerInv,
     PackageInv, RecordsOneVersion, BuiltFromRecord
<1>2. ReadingInv(c)'
  BY DEF Same, SameControl, SamePackage, SameHashes, ReadingInv, Saved, Consistent
<1>. QED BY <1>1, <1>2

\* Moving one build leaves the control state of the others.
LEMMA ControlElsewhere ==
    ASSUME TypeInv, NEW b \in Builds, NEW c \in Builds \ {b}
    PROVE  /\ \A point : Goto(b, point) => SameControl(c)
           /\ \A kind \in {"error", "raised"} : Raise(b, kind) => SameControl(c)
           /\ UNCHANGED control => SameControl(c)
<1>1. ASSUME NEW point, Goto(b, point) PROVE SameControl(c)
  BY <1>1 DEF Goto, SameControl, TypeInv
<1>2. ASSUME NEW kind \in {"error", "raised"}, Raise(b, kind) PROVE SameControl(c)
  <2>1. PICK point \in {"leave", "undo", "done"} : pc' = [pc EXCEPT ![b] = point]
    BY <1>2, RaiseLeads
  <2>2. PICK how \in {"prepare", "stage", undoing[b]} : undoing' = [undoing EXCEPT ![b] = how]
    BY <1>2, RaiseLeads
  <2>3. failure' = [failure EXCEPT ![b] = kind] /\ dirty' = dirty
    BY <1>2, RaiseLeads
  <2>. QED BY <2>1, <2>2, <2>3 DEF SameControl, TypeInv
<1>3. ASSUME UNCHANGED control PROVE SameControl(c)
  BY <1>3 DEF control, SameControl
<1>. QED BY <1>1, <1>2, <1>3

\* The steps of prepare_source_snapshot leave every other build alone.
LEMMA PrepareElsewhere ==
    ASSUME TypeInv, NEW b \in Builds, NEW c \in Builds \ {b}, Prepare(b)
    PROVE  Same(c)
<1>1. SameControl(c)
  BY ControlElsewhere DEF Prepare, Request, StagingRoot, MakeStagingRoot, ResolveStagingRoot,
     MakeWorkspace, FillWorkspace, HashBefore, CopySource, HashCopy, HashAfter, Compare,
     SnapshotFails
<1>2. SamePackage(c) /\ SameHashes(c) /\ SameCompiler(c)
  BY DEF Prepare, Request, StagingRoot, MakeStagingRoot, ResolveStagingRoot,
     MakeWorkspace, FillWorkspace, Creates, HashBefore, CopySource, HashCopy, HashAfter, Compare,
     SnapshotFails, Forget, package, hashes, compiler, SamePackage, SameHashes, SameCompiler, TypeInv
<1>. QED BY <1>1, <1>2 DEF Same

\* The steps of the compilation leave every other build alone.
LEMMA CompileElsewhere ==
    ASSUME TypeInv, NEW b \in Builds, BuildInv(b), NEW c \in Builds \ {b}, Compile(b)
    PROVE  Same(c)
<1>1. SameControl(c)
  <2>1. CASE LeaveTemporary(b)
    <3>1. failure[b] # "none" => failure[b] \in {"error", "raised"}
      BY <2>1 DEF BuildInv, ControlInv, TypeInv, LeaveTemporary, At
    <3>. QED BY <2>1, <3>1, ControlElsewhere DEF LeaveTemporary
  <2>2. CASE TimeOut(b)
    BY <2>2 DEF TimeOut, SameControl, TypeInv
  <2>3. CASE ~LeaveTemporary(b) /\ ~TimeOut(b)
    BY <2>3, ControlElsewhere DEF Compile, VerifySnapshot, Discover, EnterTemporary, WriteScript,
       StartOmc, OmcEnds, Communicate, Interrupt, Collect, ValidateFmu, PublishFmu,
       LeaveTemporaryFails
  <2>. QED BY <2>1, <2>2, <2>3
<1>2. SamePackage(c) /\ SameHashes(c) /\ SameCompiler(c)
  BY DEF Compile, VerifySnapshot, Discover, EnterTemporary, WriteScript,
     StartOmc, OmcEnds, Communicate, TimeOut, Interrupt, Collect, ValidateFmu, PublishFmu,
     LeaveTemporary, LeaveTemporaryFails, package, hashes, compiler, SamePackage, SameHashes, SameCompiler,
     TypeInv
<1>. QED BY <1>1, <1>2 DEF Same

\* The steps of the publication leave every other build alone.
LEMMA PublishElsewhere ==
    ASSUME TypeInv, NEW b \in Builds, NEW c \in Builds \ {b}, Publish(b)
    PROVE  Same(c)
<1>1. SameControl(c)
  <2>1. CASE CheckAsset(b)
    BY <2>1 DEF CheckAsset, End, Goto, SameControl, TypeInv
  <2>2. CASE ~CheckAsset(b)
    BY <2>2, ControlElsewhere DEF Publish, VerifyCompiled, RecordProvenance, PackageFmu,
       StripCompilerOutput, VerifyLayout, BuildsRoot, MakeBuildsRoot, ResolveBuildsRoot, Rename
  <2>. QED BY <2>1, <2>2
<1>2. SamePackage(c) /\ SameHashes(c) /\ SameCompiler(c)
  BY DEF Publish, VerifyCompiled, RecordProvenance, PackageFmu, Creates,
     StripCompilerOutput, VerifyLayout, BuildsRoot, MakeBuildsRoot, ResolveBuildsRoot, Rename,
     CheckAsset, package, hashes, compiler, SamePackage, SameHashes, SameCompiler,
     TypeInv
<1>. QED BY <1>1, <1>2 DEF Same

\* A build discards nothing of another build.
LEMMA DiscardElsewhere ==
    ASSUME TypeInv, NEW b \in Builds, NEW c \in Builds \ {b}, Discard(b)
    PROVE  Same(c)
<1>1. SameControl(c)
  BY DEF Discard, Undo, RemoveEntry, RemoveFails, RemoveDirectory, RemoveStagingRoot, End, Goto,
     CleanupRaises, control, SameControl, TypeInv
<1>2. SamePackage(c) /\ SameHashes(c) /\ SameCompiler(c)
  BY DEF Discard, Undo, RemoveEntry, RemoveFails, RemoveDirectory, RemoveStagingRoot,
     package, hashes, compiler, SamePackage, SameHashes, SameCompiler,
     TypeInv
<1>. QED BY <1>1, <1>2 DEF Same

\* Every step keeps the invariant.
LEMMA InvStep == Inv /\ [Next]_vars => Inv'
<1>. SUFFICES ASSUME Inv, [Next]_vars PROVE Inv'
  OBVIOUS
<1>0. TypeInv /\ \A b \in Builds : BuildInv(b) /\ ReadingInv(b)
  BY DEF Inv
<1>a. TypeInv'
  BY <1>0, TypeStep
<1>b. SUFFICES ASSUME NEW c \in Builds PROVE BuildInv(c)' /\ ReadingInv(c)'
  BY <1>a DEF Inv
<1>1. ASSUME NEW b \in Builds, Prepare(b) \/ Compile(b) \/ Publish(b) \/ Discard(b)
      PROVE  BuildInv(c)' /\ ReadingInv(c)'
  <2>1. CASE c = b
    BY <1>0, <1>1, <2>1, PrepareKeeps, CompileKeeps, PublishKeeps, DiscardKeeps, PrepareReads,
       OthersRead
  <2>2. CASE c # b
    <3>1. Same(c)
      BY <1>0, <1>1, <2>2, PrepareElsewhere, CompileElsewhere, PublishElsewhere, DiscardElsewhere
    <3>2. UNCHANGED <<source, edits, changed, putBack>>
      BY <1>1, OutsideStays DEF outside
    <3>. QED BY <1>0, <3>1, <3>2, SameKeeps
  <2>. QED BY <2>1, <2>2
<1>2. ASSUME NEW b \in Builds, Crash(b) PROVE BuildInv(c)' /\ ReadingInv(c)'
  <2>1. CASE c = b
    <3>1. pc'[b] = "done"
      BY <1>0, <1>2 DEF Crash, TypeInv
    <3>2. ReadingInv(b)'
      BY <3>1 DEF ReadingInv, Unread, Beginning
    <3>. QED BY <1>0, <1>2, <2>1, <3>2, CrashKeeps
  <2>2. CASE c # b
    <3>1. Same(c) /\ UNCHANGED <<source, edits, changed, putBack>>
      BY <1>0, <1>2, <2>2 DEF Crash, package, hashes, compiler, Same, SameControl, SamePackage,
         SameHashes, SameCompiler, TypeInv
    <3>. QED BY <1>0, <3>1, SameKeeps
  <2>. QED BY <2>1, <2>2
<1>3. ASSUME NEW b \in Builds, Tamper(b) PROVE BuildInv(c)' /\ ReadingInv(c)'
  <2>1. UNCHANGED <<source, edits, package, control>>
    BY <1>3 DEF Tamper
  <2>2. ReadingInv(c)'
    BY <1>0, <2>1 DEF package, hashes, control, ReadingInv, Saved, Consistent
  <2>. QED BY <1>0, <1>3, <2>2, TamperKeeps
<1>4. CASE EditSource
  BY <1>0, <1>4, EditKeeps, EditKeepsReading
<1>5. CASE AllDone \/ UNCHANGED vars
  <2>1. Same(c) /\ UNCHANGED <<source, edits, changed, putBack>>
    BY <1>5 DEF AllDone, vars, outside, package, hashes, compiler, control, Same, SameControl,
       SamePackage, SameHashes, SameCompiler
  <2>. QED BY <1>0, <2>1, SameKeeps
<1>. QED BY <1>1, <1>2, <1>3, <1>4, <1>5 DEF Next

\* The inductive invariant holds in every state.
LEMMA InvHolds == Spec => []Inv
BY InvInit, InvStep, PTL DEF Spec

-----------------------------------------------------------------------------
(* The theorems. *)

\* What stands under modelica-builds is, from the rename to the moment its own
\* build takes it back and through crashes at any point, a whole package whose
\* FMU was compiled from the one version of the source it records: the hash of
\* the copy taken after the compiler ended (verify_source_snapshot) excludes a
\* copy changed in the meantime, unless it was put back, the three hashes of
\* _copy_consistent_source exclude a mix of two versions, unless the user saved
\* the file five times, and no step of another build reaches it.
THEOREM PackagesAreWhole == Spec => []PublishedWhole
<1>1. Inv => PublishedWhole
  <2>. SUFFICES ASSUME Inv, NEW b \in Builds, place[b] = "builds", undoing[b] # "published"
                PROVE  /\ entries[b] = Layout /\ BuiltFromRecord(b)
                       /\ RecordsOneVersion(b)
    BY DEF PublishedWhole, BuiltFromRecord, RecordsOneVersion
  <2>1. BuildInv(b) /\ pc[b] \in Point
    BY DEF Inv, TypeInv
  <2>2. pc[b] \in {"asset", "done"}
    BY <2>1 DEF BuildInv, PlaceInv, Point, Undoing
  <2>. QED BY <2>1, <2>2 DEF BuildInv, PackageInv, Verified, Laid
<1>. QED BY <1>1, InvHolds, PTL

\* A build that ended with an EngineError has left no directory, no temporary
\* directory and no OpenModelica process, whichever of its calls raised it and
\* whatever the other builds did meanwhile, unless its own cleanup raised.
THEOREM FailuresAreClean == Spec => []CleanFailure
<1>1. Inv => CleanFailure
  <2>. SUFFICES ASSUME Inv, NEW b \in Builds, pc[b] = "done", failure[b] = "error",
                       b \notin dirty
                PROVE  place[b] = "none" /\ ~temp[b] /\ omc[b] # "running"
    BY DEF CleanFailure, At
  <2>1. BuildInv(b)
    BY DEF Inv
  <2>. QED BY <2>1 DEF BuildInv, PlaceInv, CompilerInv, InCompiler, Undoing
<1>. QED BY <1>1, InvHolds, PTL
=============================================================================
