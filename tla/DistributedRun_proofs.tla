------------------------- MODULE DistributedRun_proofs -------------------------
(***************************************************************************)
(* Theorems about DistributedRun, and about the node runtimes a worker of  *)
(* it holds (NodeRuntime; the two modules share no name).                  *)
(*                                                                         *)
(* A node runtime keeps to its checkpoints and to its input schedule, and  *)
(* releases what it has once and in order, for every macro step, number of *)
(* checkpoints, schedule and attempt limit.  A worker runs for a node what *)
(* the coordinator hashed for it, and only the worker its placement names  *)
(* does; a verified cache entry stays verified; a run that is over leaves  *)
(* no connection and no process of its own behind.  This holds for every   *)
(* graph, plan, set of workers and roots, and any number of edits.         *)
(***************************************************************************)
EXTENDS DistributedRun, NodeRuntime, FiniteSetTheorems, TLAPS

-----------------------------------------------------------------------------
(* One node runtime: what its invariants say. *)

Advancing == {"apply", "step", "coordinate"}

\* What was released, by the flags of the node.
Uncreated == point \in {"absent", "none"} => ~started /\ ~ended /\ ~closed
ReleaseInv ==
    /\ interface \in {CoSim, ModelEx}
    /\ point \in {"absent", "none", "idle"} \cup Advancing
    /\ started \in BOOLEAN /\ ended \in BOOLEAN /\ closed \in BOOLEAN
    /\ Uncreated /\ (ended => started)
    /\ point = "none" => released \in {<<>>, <<"session">>}
    /\ point # "none" /\ ~closed => released = IF ended THEN <<"terminate">> ELSE <<>>
    /\ closed => \/ released = ReleaseOrder
                 \/ started /\ released = <<"terminate">> \o ReleaseOrder

\* Which updates are behind the node, by the point of its call.
UpdatesBefore(bound) == \A i \in DOMAIN schedule : schedule[i] < bound => i <= Len(applied)
ClockTypes ==
    /\ checkpoint \in Nat /\ time \in Int /\ applied \in Seq(Int)
    /\ schedule \in Seq(Nat) /\ Len(applied) <= Len(schedule)
    /\ \A i, j \in DOMAIN schedule : i < j => schedule[i] < schedule[j]
    /\ interface \in {CoSim, ModelEx} /\ (interface = ModelEx => schedule = <<>>)
ScheduleInv ==
    /\ ClockTypes
    /\ point \in Advancing => ~raised
    /\ point = "coordinate" => interface = ModelEx
    /\ \A i \in DOMAIN applied : Near(applied[i], schedule[i] * Step)
    /\ ~raised /\ point # "step" => Near(time, checkpoint * Step) /\ UpdatesBefore(checkpoint)
    /\ point = "step" => UpdatesBefore(checkpoint + 1)

-----------------------------------------------------------------------------
(* The release. *)

\* The names of the calls are told apart, terminate and the release are one
\* sequence of three calls at most.
LEMMA ReleaseSequences ==
    ASSUME interface \in {CoSim, ModelEx}
    PROVE  /\ \A i, j \in DOMAIN ReleaseOrder : ReleaseOrder[i] = ReleaseOrder[j] => i = j
           /\ LET all == <<"terminate">> \o ReleaseOrder
              IN  \A i, j \in DOMAIN all : all[i] = all[j] => i = j
           /\ <<>> \o ReleaseOrder = ReleaseOrder
<1>. DEFINE R == ReleaseOrder  all == <<"terminate">> \o R
<1>1. /\ R \in Seq({"solver", "session"})
      /\ \A i, j \in DOMAIN R : R[i] = R[j] => i = j
  <2>1. CASE interface = ModelEx
    BY <2>1 DEF ReleaseOrder
  <2>2. CASE interface = CoSim
    BY <2>2 DEF ReleaseOrder, CoSim, ModelEx
  <2>. QED BY <2>1, <2>2
<1>. HIDE DEF R
<1>2. /\ DOMAIN all = 1..Len(R) + 1
      /\ all[1] = "terminate"
      /\ \A i \in 2..Len(R) + 1 : all[i] = R[i - 1]
  BY <1>1
<1>. HIDE DEF all
<1>3. \A i \in DOMAIN R : R[i] # "terminate"
  BY <1>1
<1>4. ASSUME NEW i \in DOMAIN all, NEW j \in DOMAIN all, all[i] = all[j]
      PROVE  i = j
  <2>1. CASE i = 1 /\ j # 1
    <3>1. j - 1 \in DOMAIN R /\ all[j] = R[j - 1]
      BY <1>1, <1>2, <2>1
    <3>. QED BY <1>2, <1>3, <1>4, <2>1, <3>1
  <2>2. CASE j = 1 /\ i # 1
    <3>1. i - 1 \in DOMAIN R /\ all[i] = R[i - 1]
      BY <1>1, <1>2, <2>2
    <3>. QED BY <1>2, <1>3, <1>4, <2>2, <3>1
  <2>3. CASE i # 1 /\ j # 1
    <3>1. i - 1 \in DOMAIN R /\ all[i] = R[i - 1] /\ j - 1 \in DOMAIN R /\ all[j] = R[j - 1]
      BY <1>1, <1>2, <2>3
    <3>2. i - 1 = j - 1
      BY <1>1, <1>4, <3>1
    <3>. QED BY <1>2, <3>2
  <2>. QED BY <2>1, <2>2, <2>3
<1>5. <<>> \o R = R
  BY <1>1
<1>. QED BY <1>1, <1>4, <1>5 DEF R, all

\* Initially: what was released so far.
LEMMA ReleaseInit == NodeInit => ReleaseInv
BY InterfacesAssumption DEF NodeInit, ReleaseInv, Uncreated, Advancing

\* Every step keeps what was released so far.
LEMMA ReleaseStep == ReleaseInv /\ [NodeNext]_nodeVars => ReleaseInv'
<1>. SUFFICES ASSUME ReleaseInv, [NodeNext]_nodeVars PROVE ReleaseInv'
  OBVIOUS
<1>. USE DEF ReleaseInv, Uncreated, Advancing, node, clock, ReleaseOrder
<1>1. CASE CreateCoSimulation
  BY <1>1 DEF CreateCoSimulation, flags
<1>2. CASE CreateModelExchange
  BY <1>2 DEF CreateModelExchange, flags
<1>3. CASE InitializeCoSimulation
  BY <1>3 DEF InitializeCoSimulation, Uninitialized
<1>4. CASE InitializeModelExchange
  BY <1>4 DEF InitializeModelExchange, Uninitialized
<1>5. CASE SetInputs
  BY <1>5 DEF SetInputs
<1>6. CASE AdvanceTo
  BY <1>6 DEF AdvanceTo, Running, flags
<1>7. CASE ApplyInput
  BY <1>7 DEF ApplyInput, Raise, flags
<1>8. CASE StepSession
  BY <1>8 DEF StepSession, Raise, flags
<1>9. CASE Arrive
  BY <1>9 DEF Arrive, Return, flags
<1>10. CASE Coordinate
  BY <1>10 DEF Coordinate, Return, Raise
<1>11. CASE Terminate
  <2>1. Append(<<>>, "terminate") = <<"terminate">>
    OBVIOUS
  <2>. QED BY <1>11, <2>1 DEF Terminate, EndsOnce
<1>12. CASE Close
  BY <1>12, ReleaseSequences DEF Close
<1>13. CASE UNCHANGED nodeVars
  BY <1>13 DEF nodeVars, flags
<1>. QED BY <1>1, <1>2, <1>3, <1>4, <1>5, <1>6, <1>7, <1>8, <1>9, <1>10, <1>11, <1>12, <1>13
     DEF NodeNext

\* ReleasedOnce, for both interfaces and every order of terminate and close.
THEOREM Released == NodeSpec => []ReleasedOnce
<1>1. ReleaseInv => ReleasedOnce
  <2>. SUFFICES ASSUME ReleaseInv PROVE ReleasedOnce
    OBVIOUS
  <2>. USE DEF ReleaseInv
  <2>1. released \in {<<>>, <<"session">>, <<"terminate">>, ReleaseOrder,
                      <<"terminate">> \o ReleaseOrder}
    OBVIOUS
  <2>2. \A i, j \in DOMAIN released : released[i] = released[j] => i = j
    <3>1. CASE released \in {<<>>, <<"session">>, <<"terminate">>}
      BY <3>1
    <3>2. CASE released = ReleaseOrder
      BY <3>2, ReleaseSequences
    <3>3. CASE released = <<"terminate">> \o ReleaseOrder
      BY <3>3, ReleaseSequences
    <3>. QED BY <2>1, <3>1, <3>2, <3>3
  <2>3. point = "none" => Contains(released, "session") \/ released = <<>>
    BY DEF Contains
  <2>. QED BY <2>2, <2>3 DEF ReleasedOnce, Uncreated
<1>. QED BY <1>1, ReleaseInit, ReleaseStep, PTL DEF NodeSpec

-----------------------------------------------------------------------------
(* The checkpoints and the schedule. *)

\* Initially: the updates before and after the node.
LEMMA ScheduleInit == NodeInit => ScheduleInv
<1>. SUFFICES ASSUME NodeInit PROVE ScheduleInv
  OBVIOUS
<1>. USE DEF NodeInit
<1>1. schedule \in Schedules \cup {<<>>}
  OBVIOUS
<1>2. /\ schedule \in Seq(Nat)
      /\ \A i, j \in DOMAIN schedule : i < j => schedule[i] < schedule[j]
  <2>1. CASE schedule = <<>>
    BY <2>1
  <2>2. CASE schedule \in Schedules
    BY <2>2, SchedulesAssumption, LimitAssumption
  <2>. QED BY <1>1, <2>1, <2>2
<1>3. interface \in {CoSim, ModelEx} /\ (interface = ModelEx => schedule = <<>>)
  BY InterfacesAssumption DEF CoSim, ModelEx
<1>4. Near(time, checkpoint * Step)
  BY StepAssumption DEF Near
<1>5. UpdatesBefore(checkpoint)
  BY <1>2 DEF UpdatesBefore
<1>. QED BY <1>2, <1>3, <1>4, <1>5 DEF ScheduleInv, ClockTypes, Advancing

\* An update is handed over at its own time, and after that none is missing
\* that the checkpoint the node leaves asks for.
LEMMA ApplyKeepsSchedule == ScheduleInv /\ ApplyInput => ScheduleInv'
<1>. SUFFICES ASSUME ScheduleInv, ApplyInput PROVE ScheduleInv'
  OBVIOUS
<1>. USE DEF ScheduleInv, ClockTypes, Advancing, ApplyInput, flags, node
<1>1. CASE Raise /\ UNCHANGED applied
  BY <1>1 DEF Raise, Near
<1>2. CASE /\ ~Missed /\ point' = "step" /\ UNCHANGED <<raised, checkpoint>>
           /\ applied' = IF Due THEN Append(applied, time) ELSE applied
  <2>1. Near(time, checkpoint * Step) /\ UpdatesBefore(checkpoint)
    OBVIOUS
  <2>2. applied' \in Seq(Int) /\ Len(applied') <= Len(schedule)
    BY <1>2 DEF Due, HasUpdate
  <2>3. \A i \in DOMAIN applied' : Near(applied'[i], schedule[i] * Step)
    <3>1. CASE ~Due
      BY <1>2, <3>1
    <3>2. CASE Due
      <4>. SUFFICES ASSUME NEW i \in DOMAIN applied' PROVE Near(applied'[i], schedule[i] * Step)
        OBVIOUS
      <4>1. CASE i = Len(applied) + 1
        <5>1. schedule[i] * Step \in Int
          BY <3>2, <4>1, StepAssumption DEF Due, HasUpdate
        <5>. QED BY <1>2, <3>2, <4>1, <5>1 DEF Due, NextUpdate, Near
      <4>2. CASE i # Len(applied) + 1
        BY <1>2, <3>2, <4>2
      <4>. QED BY <4>1, <4>2
    <3>. QED BY <3>1, <3>2
  <2>4. ASSUME NEW i \in DOMAIN schedule, schedule[i] < checkpoint + 1
        PROVE  i <= Len(applied')
    <3>1. CASE i <= Len(applied)
      BY <1>2, <3>1 DEF Due
    <3>2. CASE i > Len(applied)
      <4>1. schedule[i] = checkpoint
        BY <2>1, <2>4, <3>2 DEF UpdatesBefore
      <4>2. i = Len(applied) + 1
        <5>. SUFFICES ASSUME i # Len(applied) + 1 PROVE FALSE
          OBVIOUS
        <5>1. Len(applied) + 1 \in DOMAIN schedule /\ Len(applied) + 1 < i
          BY <3>2
        <5>2. schedule[Len(applied) + 1] < checkpoint
          BY <4>1, <5>1
        <5>. QED BY <2>1, <5>1, <5>2 DEF UpdatesBefore
      <4>3. Due
        <5>1. NextUpdate = checkpoint * Step /\ HasUpdate
          BY <4>1, <4>2 DEF NextUpdate, HasUpdate
        <5>2. checkpoint * Step \in Int
          BY StepAssumption
        <5>. QED BY <2>1, <5>1, <5>2 DEF Due, Near
      <4>. QED BY <1>2, <4>2, <4>3
    <3>. QED BY <3>1, <3>2
  <2>. QED BY <1>2, <2>2, <2>3, <2>4 DEF UpdatesBefore
<1>. QED BY <1>1, <1>2

\* Every step keeps the updates before and after the node.
LEMMA ScheduleStep == ScheduleInv /\ [NodeNext]_nodeVars => ScheduleInv'
<1>. SUFFICES ASSUME ScheduleInv, [NodeNext]_nodeVars PROVE ScheduleInv'
  OBVIOUS
<1>. USE DEF ScheduleInv, ClockTypes, UpdatesBefore, Advancing, node, clock
<1>1. CASE CreateCoSimulation
  BY <1>1 DEF CreateCoSimulation
<1>2. CASE CreateModelExchange
  BY <1>2 DEF CreateModelExchange
<1>3. CASE InitializeCoSimulation
  BY <1>3 DEF InitializeCoSimulation, Uninitialized
<1>4. CASE InitializeModelExchange
  BY <1>4 DEF InitializeModelExchange, Uninitialized
<1>5. CASE SetInputs
  BY <1>5 DEF SetInputs, Running
<1>6. CASE AdvanceTo
  BY <1>6 DEF AdvanceTo, Running
<1>7. CASE ApplyInput
  BY <1>7, ApplyKeepsSchedule
<1>8. CASE StepSession
  BY <1>8 DEF StepSession, Raise, Accepts
<1>9. CASE Arrive
  BY <1>9 DEF Arrive, Return, Target
<1>10. CASE Coordinate
  BY <1>10 DEF Coordinate, Return, Raise, Target
<1>11. CASE Terminate
  BY <1>11 DEF Terminate
<1>12. CASE Close
  BY <1>12 DEF Close
<1>13. CASE UNCHANGED nodeVars
  BY <1>13 DEF nodeVars
<1>. QED BY <1>1, <1>2, <1>3, <1>4, <1>5, <1>6, <1>7, <1>8, <1>9, <1>10, <1>11, <1>12, <1>13
     DEF NodeNext

\* CheckpointKept: a node no call of which has raised stands at the checkpoint
\* of its caller, and no update was missed or given at another time.
THEOREM Kept == NodeSpec => []CheckpointKept
<1>1. ScheduleInv => CheckpointKept
  BY DEF ScheduleInv, CheckpointKept, UpdatesBefore
<1>. QED BY <1>1, ScheduleInit, ScheduleStep, PTL DEF NodeSpec
-----------------------------------------------------------------------------
(* The distributed run: what its invariants say. *)

AssetOps == {"has", "put", "create"}
Opened == {"connect", "create", "run", "close"}
Closing == {"disconnect", "reap", "done"}

\* What the tables of the coordinator and of the workers are indexed by.
Tables ==
    /\ source \in Contents
    /\ hashed \in [Nodes -> Contents \cup {Other}]
    /\ cache \in [Roots -> [Contents -> Entries]]
    /\ DOMAIN proc = Processes /\ DOMAIN signal = Processes
    /\ DOMAIN session = Processes /\ DOMAIN backlog = Processes
    /\ DOMAIN runtimes = Processes
    /\ call = [op |-> call.op, worker |-> call.worker, node |-> call.node, at |-> call.at,
               content |-> call.content]

\* A connection leads to the process its client dialled.
ConnectionInv ==
    \A p \in Processes :
        /\ session[p] # NoWorker => At(session[p]) = p
        /\ backlog[p] \in Seq(ToSet(backlog[p]))
        /\ \A i \in DOMAIN backlog[p] : At(backlog[p][i]) = p

\* The requests that create a runtime are about the next node, whose digest has
\* been taken, and go to the worker of its placement; every node has one turn.
CreationInv ==
    /\ pc = "create" => /\ todo \in Seq(Nodes) /\ IsInjective(todo)
                        /\ call = Idle \/ call.op \in AssetOps
    /\ call.op \in AssetOps =>
         /\ pc = "create" /\ todo # <<>>
         /\ call.node = Head(todo) /\ hashed[call.node] \in Contents
         /\ call.worker = Placement(call.node).worker /\ Remote(call.node)
    /\ call.at = "absent" => call.op = "has"

\* What is uploaded has the digest it is uploaded under, and so has every entry
\* that an upload filled.
UploadInv ==
    /\ call.op = "put" => call.content = hashed[call.node]
    /\ \A r \in Roots, d \in Contents : cache[r][d] # "misnamed"

\* The entry a worker loads was verified when it was resolved, and still is unless
\* it was damaged since.
LoadInv ==
    call.op = "create" /\ call.at = "loading" =>
        /\ At(call.worker) \in Processes
        /\ Verified(At(call.worker), hashed[call.node]) \/ call.node \in spoiled

\* A runtime runs what was hashed for its node, if the entry was not damaged between
\* its verification and the load; and that digest is not taken
\* again: the node has had its turn, or the answer that ends it is on its way.
RuntimeInv ==
    \A p \in Processes : \A r \in runtimes[p] :
        /\ r.node \in Nodes
        /\ r.content = hashed[r.node] \/ r.node \in spoiled
        /\ pc \notin {"launch", "connect"}
        /\ pc = "create" =>
             \A i \in DOMAIN todo : todo[i] = r.node =>
                 i = 1 /\ call.op = "create" /\ call.at = "ok"

AssetInv == Tables /\ ConnectionInv /\ CreationInv /\ UploadInv /\ LoadInv /\ RuntimeInv

\* A client that is connected to, or waits for, a worker of another identity is
\* still in its handshake, or the run is being taken down.
IdentityInv ==
    /\ call.op = "hello" => pc = "connect"
    /\ call.op = "hello" /\ call.at = "ok" =>
          At(call.worker) \in Processes /\ WorkerIdOf[At(call.worker)] = call.worker
    /\ \A p \in Processes :
         /\ session[p] \notin {NoWorker, WorkerIdOf[p]} =>
              pc \in Closing \/ (call.op = "hello" /\ call.worker = session[p])
         /\ \A i \in DOMAIN backlog[p] : backlog[p][i] \notin {NoWorker, WorkerIdOf[p]} =>
              pc \in Closing \/ (call.op = "hello" /\ call.worker = backlog[p][i])

\* An open socket belongs to a client the executor will close, or is the one
\* whose handshake is under way.
SocketInv ==
    /\ DOMAIN sock = Ids
    /\ clients \in Seq(ToSet(clients))
    /\ pc \notin Opened => call = Idle
    /\ pc = "disconnect" => todo \in Seq(ToSet(todo))
    /\ call.op = "hello" => pc = "connect"
    /\ \A w \in Ids : sock[w] = "open" =>
         \/ pc \in Opened /\ (w \in ToSet(clients) \/ (call.op = "hello" /\ call.worker = w))
         \/ pc = "disconnect" /\ w \in ToSet(todo)

\* The first k launches have a process, of the others the next one may have.
LaunchedBy(k) ==
    /\ \A i \in DOMAIN Launches : i <= k => proc[Launches[i]] # "off"
    /\ \A i \in DOMAIN Launches : i > k + 1 => proc[Launches[i]] = "off"
Over(p) == proc[p] \in {"off", "ended"} \/ signal[p] = "given up"

\* Every process that was started is over or still to be reaped.
LaunchInv ==
    /\ pc = "launch" =>
         \E k \in 0..Len(Launches) :
           /\ todo = SubSeq(Launches, k + 1, Len(Launches))
           /\ LaunchedBy(k)
    /\ pc \in Opened \cup {"disconnect"} => LaunchedBy(Len(Launches))
    /\ pc = "reap" =>
         /\ todo \in Seq(ToSet(Launches))
         /\ \A p \in ToSet(Launches) : Over(p) \/ p \in ToSet(todo)
    /\ pc = "done" => \A p \in ToSet(Launches) : Over(p)

\* A worker runs a node only under the identity the placement of the node names,
\* though two ids may share an endpoint and a port may be another worker's by now.
RunsWherePlaced ==
    \A p \in Processes : \A r \in runtimes[p] :
        Remote(r.node) /\ Placement(r.node).worker = WorkerIdOf[p]

\* However the run has ended, the coordinator waits for no answer, none of its
\* connections is open, and what it has launched is over or was killed in vain.
NothingLeft ==
    pc = "done" =>
        /\ call = Idle /\ \A w \in Ids : sock[w] # "open"
        /\ \A p \in ToSet(Launches) : Over(p)

\* What a worker may answer to the request it serves.
Answers(p) ==
    /\ session[p] = call.worker /\ call.worker # NoWorker
    /\ call.at \in {"sent", "writing", "loading"}
    /\ \E how \in {"absent", "ok", "error", "writing", "loading"} :
         /\ Answer(how)
         /\ how = "absent" => call.op = "has"
         /\ how = "loading" => call.op = "create" /\ Verified(p, hashed[call.node])
         /\ how = "ok" /\ call.op = "hello" => call.worker = WorkerIdOf[p]

-----------------------------------------------------------------------------
(* Sequences. *)

\* A sequence of its own elements stays one when an element is appended.
LEMMA OwnAppend ==
    ASSUME NEW s, s \in Seq(ToSet(s)), NEW w
    PROVE  /\ Append(s, w) \in Seq(ToSet(Append(s, w)))
           /\ \A i \in DOMAIN Append(s, w) :
                Append(s, w)[i] = IF i \in DOMAIN s THEN s[i] ELSE w
           /\ ToSet(Append(s, w)) = ToSet(s) \cup {w}
<1>. DEFINE a == Append(s, w)
<1>1. s \in Seq(ToSet(s) \cup {w})
  OBVIOUS
<1>2. /\ a \in Seq(ToSet(s) \cup {w})
      /\ \A i \in DOMAIN a : a[i] = IF i \in DOMAIN s THEN s[i] ELSE w
      /\ DOMAIN s \subseteq DOMAIN a /\ Len(s) + 1 \in DOMAIN a /\ a[Len(s) + 1] = w
  BY <1>1
<1>. HIDE DEF a
<1>3. a \in Seq(ToSet(a))
  BY <1>2 DEF ToSet
<1>4. ToSet(a) = ToSet(s) \cup {w}
  BY <1>2 DEF ToSet
<1>. QED BY <1>2, <1>3, <1>4 DEF a

\* The same for the tail, which leaves out the head.
LEMMA OwnTail ==
    ASSUME NEW s, s \in Seq(ToSet(s)), s # <<>>
    PROVE  /\ Tail(s) \in Seq(ToSet(Tail(s)))
           /\ \A i \in DOMAIN Tail(s) : i + 1 \in DOMAIN s /\ Tail(s)[i] = s[i + 1]
           /\ ToSet(s) = ToSet(Tail(s)) \cup {Head(s)}
<1>. DEFINE t == Tail(s)
<1>1. /\ t \in Seq(ToSet(s))
      /\ \A i \in DOMAIN t : i + 1 \in DOMAIN s /\ t[i] = s[i + 1]
      /\ \A i \in DOMAIN s : i = 1 \/ (i - 1 \in DOMAIN t /\ t[i - 1] = s[i])
      /\ 1 \in DOMAIN s /\ Head(s) = s[1]
  OBVIOUS
<1>. HIDE DEF t
<1>2. t \in Seq(ToSet(t))
  BY <1>1 DEF ToSet
<1>3. ToSet(t) \subseteq ToSet(s)
  BY <1>1 DEF ToSet
<1>4. ToSet(s) \subseteq ToSet(t) \cup {Head(s)}
  BY <1>1 DEF ToSet
<1>5. Head(s) \in ToSet(s)
  BY <1>1 DEF ToSet
<1>. QED BY <1>1, <1>2, <1>3, <1>4, <1>5 DEF t

\* The same for the reverse, which has the same elements.
LEMMA OwnReverse ==
    ASSUME NEW s, s \in Seq(ToSet(s))
    PROVE  Reverse(s) \in Seq(ToSet(Reverse(s))) /\ ToSet(Reverse(s)) = ToSet(s)
<1>. DEFINE r == Reverse(s)
<1>1. /\ r \in Seq(ToSet(s)) /\ DOMAIN r = DOMAIN s
      /\ \A i \in DOMAIN s : Len(s) - i + 1 \in DOMAIN s /\ r[i] = s[Len(s) - i + 1]
  BY DEF Reverse
<1>2. \A i \in DOMAIN s : s[i] = r[Len(s) - i + 1]
  BY <1>1
<1>. HIDE DEF r
<1>3. ToSet(r) = ToSet(s)
  BY <1>1, <1>2 DEF ToSet
<1>4. r \in Seq(ToSet(r))
  BY <1>1, <1>3
<1>. QED BY <1>3, <1>4 DEF r

\* A sequence without repetition does not meet its head again.
LEMMA InjectiveTail ==
    ASSUME NEW S, NEW s \in Seq(S), IsInjective(s), s # <<>>
    PROVE  /\ Tail(s) \in Seq(S) /\ IsInjective(Tail(s))
           /\ \A i \in DOMAIN Tail(s) :
                i + 1 \in DOMAIN s /\ Tail(s)[i] = s[i + 1] /\ Tail(s)[i] # Head(s)
<1>. DEFINE t == Tail(s)
<1>1. /\ t \in Seq(S)
      /\ \A i \in DOMAIN t : i \in Nat /\ i + 1 \in DOMAIN s /\ t[i] = s[i + 1] /\ i + 1 # 1
      /\ 1 \in DOMAIN s /\ s[1] = Head(s)
  OBVIOUS
<1>. HIDE DEF t
<1>2. IsInjective(t)
  BY <1>1 DEF IsInjective
<1>3. \A i \in DOMAIN t : t[i] # Head(s)
  BY <1>1 DEF IsInjective
<1>. QED BY <1>1, <1>2, <1>3 DEF t

\* What is left of a sequence before its end is not empty.
LEMMA Suffix ==
    ASSUME NEW S, NEW s \in Seq(S), NEW k \in 0..Len(s), k < Len(s)
    PROVE  SubSeq(s, k + 1, Len(s)) # <<>>
<1>. DEFINE t == SubSeq(s, k + 1, Len(s))
<1>1. Len(t) = Len(s) - k
  OBVIOUS
<1>. HIDE DEF t
<1>2. t # <<>>
  BY <1>1
<1>. QED BY <1>2 DEF t

-----------------------------------------------------------------------------
(* The steps of the two sides. *)

\* Placements and endpoints are those of the plan, which does not change.
LEMMA PlanKept ==
    ASSUME UNCHANGED plan
    PROVE  \A n : At(n)' = At(n) /\ Placement(n)' = Placement(n) /\ Remote(n)' = Remote(n)
<1>1. ASSUME NEW n PROVE At(n)' = At(n)
  BY DEF At
<1>2. ASSUME NEW n PROVE Placement(n)' = Placement(n)
  BY DEF Placement
<1>. QED BY <1>1, <1>2 DEF Remote

\* A step of a worker leaves the coordinator as it is, or answers the request
\* the worker serves.
LEMMA WorkerSteps ==
    ASSUME NEW p \in Processes, Worker(p) \/ Hang(p) \/ Crash(p)
    PROVE  /\ UNCHANGED <<plan, source, spoiled, pc, todo, sock, clients, bindings, hashed, signal>>
           /\ \/ UNCHANGED call
              \/ Answers(p) /\ UNCHANGED <<proc, session, backlog>>
<1>. USE DEF Holds, Serves
<1>1. CASE Boot(p) \/ Accept(p) \/ SessionOver(p) \/ Obey(p) \/ Hang(p) \/ Crash(p)
  BY <1>1 DEF Boot, Accept, SessionOver, Obey, Hang, Crash, Ends, coordVars
<1>2. CASE Handshake(p)
  <2>1. Answers(p)
    BY <1>2 DEF Handshake, Answers, Idle
  <2>. QED BY <1>2, <2>1 DEF Handshake, procVars
<1>3. CASE HasAsset(p)
  <2>1. Answers(p)
    BY <1>3 DEF HasAsset, Answers, Idle
  <2>. QED BY <1>3, <2>1 DEF HasAsset, procVars
<1>4. CASE PutCheck(p)
  <2>1. Answers(p)
    BY <1>4 DEF PutCheck, Answers, Idle
  <2>. QED BY <1>4, <2>1 DEF PutCheck, procVars
<1>5. CASE Resolve(p)
  <2>1. Answers(p)
    BY <1>5 DEF Resolve, Answers, Idle
  <2>. QED BY <1>5, <2>1 DEF Resolve, procVars
<1>6. CASE Serve(p)
  <2>1. Answers(p)
    BY <1>6 DEF Serve, Answers, Idle
  <2>. QED BY <1>6, <2>1 DEF Serve
<1>7. CASE LoadAndCreate(p)
  <2>1. Answers(p)
    BY <1>7 DEF LoadAndCreate, Answers, Idle
  <2>. QED BY <1>7, <2>1 DEF LoadAndCreate
<1>8. CASE PutReplace(p)
  <2>1. Answers(p)
    BY <1>8 DEF PutReplace, Answers, Idle
  <2>. QED BY <1>8, <2>1 DEF PutReplace, procVars
<1>. QED BY <1>1, <1>2, <1>3, <1>4, <1>5, <1>6, <1>7, <1>8 DEF Worker

\* A step of the coordinator touches neither files nor runtimes, and ends
\* or sends a request unless it leaves both the request and the digests alone.
LEMMA CoordinatorSteps ==
    ASSUME Coordinator \/ Interrupt
    PROVE  /\ UNCHANGED <<plan, source, cache, spoiled, session, runtimes>>
           /\ \/ UNCHANGED <<call, hashed>>
              \/ call' = Idle
              \/ call'.at = "sent"
<1>. USE DEF procVars
<1>1. CASE Spawn \/ WaitReadiness \/ RunGraph \/ Disconnect \/ Reap \/ PhaseOver
  BY <1>1 DEF Spawn, WaitReadiness, RunGraph, Disconnect, Reap, PhaseOver
<1>2. CASE Dial \/ CreateNode
  BY <1>2 DEF Dial, CreateNode, Sent
<1>3. CASE AdvanceNode \/ CloseNode \/ Stage
  BY <1>3 DEF AdvanceNode, CloseNode, Stage, Sent
<1>4. CASE Returns
  BY <1>4 DEF Returns, Sent
<1>5. CASE Raises \/ ConnectionLost \/ HandshakeTimeout \/ Interrupt
  BY <1>5 DEF Raises, ConnectionLost, HandshakeTimeout, Disconnected, Interrupt
<1>. QED BY <1>1, <1>2, <1>3, <1>4, <1>5 DEF Coordinator

-----------------------------------------------------------------------------
(* Tables, connections, creation. *)

\* Initially: the tables.
LEMMA TablesInit == Init => Tables
BY MaxEditsAssumption DEF Init, Tables, Contents, Entries, Damaged, Idle, Other

\* Every step keeps the domains of the tables.
LEMMA TablesStep == Tables /\ [Next]_vars => Tables'
<1>. SUFFICES ASSUME Tables, [Next]_vars PROVE Tables'
  OBVIOUS
<1>. USE DEF Tables, procVars, coordVars
<1>1. CASE Spawn \/ WaitReadiness \/ RunGraph \/ Dial
  BY <1>1 DEF Spawn, WaitReadiness, RunGraph, Dial, Sent
<1>2. CASE CreateNode
  BY <1>2 DEF CreateNode, Sent
<1>3. CASE AdvanceNode \/ CloseNode \/ PhaseOver \/ Stage
  BY <1>3 DEF AdvanceNode, CloseNode, PhaseOver, Stage, Sent, Idle
<1>4. CASE Returns
  BY <1>4 DEF Returns, Sent, Idle
<1>5. CASE Raises \/ ConnectionLost \/ HandshakeTimeout \/ Disconnect \/ Reap \/ Interrupt
  BY <1>5 DEF Raises, ConnectionLost, HandshakeTimeout, Disconnected, Disconnect, Reap,
              Interrupt, Idle
<1>6. ASSUME NEW p \in Processes, Worker(p) \/ Hang(p) \/ Crash(p)
      PROVE  Tables'
  <2>1. CASE Boot(p) \/ Accept(p) \/ SessionOver(p) \/ Obey(p) \/ Hang(p) \/ Crash(p)
    BY <2>1 DEF Boot, Accept, SessionOver, Obey, Hang, Crash, Ends
  <2>2. CASE \/ Handshake(p) \/ HasAsset(p) \/ PutCheck(p) \/ Resolve(p)
             \/ Serve(p) \/ LoadAndCreate(p)
    BY <2>2 DEF Handshake, HasAsset, PutCheck, Resolve, Serve, LoadAndCreate, Answer
  <2>3. CASE PutReplace(p)
    BY <2>3 DEF PutReplace, Answer, Written, Entries
  <2>. QED BY <1>6, <2>1, <2>2, <2>3 DEF Worker
<1>7. CASE EditSource \/ (\E r \in Roots, d \in Contents : OtherPut(r, d) \/ Damage(r, d))
  <2>1. CASE EditSource
    BY <2>1, MaxEditsAssumption DEF EditSource, Contents
  <2>2. ASSUME NEW r \in Roots, NEW d \in Contents, OtherPut(r, d) \/ Damage(r, d)
        PROVE  Tables'
    <3>1. PICK entry \in Entries : cache' = [cache EXCEPT ![r][d] = entry]
      BY <2>2 DEF OtherPut, Damage, Written, Entries, Damaged
    <3>2. cache' \in [Roots -> [Contents -> Entries]]
      BY <3>1
    <3>. QED BY <2>2, <3>2 DEF OtherPut, Damage
  <2>. QED BY <1>7, <2>1, <2>2
<1>8. CASE Done \/ UNCHANGED vars
  BY <1>8 DEF Done, vars
<1>. QED BY <1>1, <1>2, <1>3, <1>4, <1>5, <1>6, <1>7, <1>8 DEF Next, Coordinator

\* Initially: the connections.
LEMMA ConnectionInit == Init => ConnectionInv
BY DEF Init, ConnectionInv

\* Every step keeps the connections where they lead.
LEMMA ConnectionStep == Tables /\ ConnectionInv /\ [Next]_vars => ConnectionInv'
<1>. SUFFICES ASSUME Tables, ConnectionInv, [Next]_vars PROVE ConnectionInv'
  OBVIOUS
<1>. USE DEF Tables, ConnectionInv, procVars
<1>1. CASE Dial
  <2>. DEFINE w == Head(todo)  p == At(w)
  <2>1. CASE proc[p] = "serving"
    <3>. SUFFICES ASSUME NEW q \in Processes
                  PROVE  /\ backlog'[q] \in Seq(ToSet(backlog'[q]))
                         /\ \A i \in DOMAIN backlog'[q] : At(backlog'[q][i]) = q
      BY <1>1, <2>1 DEF Dial, At
    <3>1. CASE q # p
      <4>1. backlog'[q] = backlog[q]
        BY <1>1, <2>1, <3>1 DEF Dial
      <4>. QED BY <1>1, <4>1 DEF Dial
    <3>2. CASE q = p
      <4>1. backlog'[q] = Append(backlog[q], w)
        BY <1>1, <2>1, <3>2 DEF Dial
      <4>2. backlog[q] \in Seq(ToSet(backlog[q]))
        OBVIOUS
      <4>3. /\ backlog'[q] \in Seq(ToSet(backlog'[q]))
            /\ \A i \in DOMAIN backlog'[q] :
                 backlog'[q][i] = IF i \in DOMAIN backlog[q] THEN backlog[q][i] ELSE w
        BY <4>1, <4>2, OwnAppend
      <4>. QED BY <3>2, <4>3
    <3>. QED BY <3>1, <3>2
  <2>2. CASE proc[p] # "serving"
    BY <1>1, <2>2 DEF Dial, At
  <2>. QED BY <2>1, <2>2
<1>2. ASSUME NEW p \in Processes, Accept(p)
      PROVE  ConnectionInv'
  <2>. SUFFICES ASSUME NEW q \in Processes
                PROVE  /\ session'[q] # NoWorker => At(session'[q]) = q
                       /\ backlog'[q] \in Seq(ToSet(backlog'[q]))
                       /\ \A i \in DOMAIN backlog'[q] : At(backlog'[q][i]) = q
    <3>1. UNCHANGED plan
      BY <1>2 DEF Accept
    <3>2. ASSUME NEW w PROVE At(w)' = At(w)
      BY <3>1 DEF At
    <3>. QED BY <3>2
  <2>1. CASE q # p
    <3>1. session'[q] = session[q] /\ backlog'[q] = backlog[q]
      BY <1>2, <2>1 DEF Accept
    <3>. QED BY <3>1
  <2>2. CASE q = p
    <3>1. /\ session'[q] = backlog[q][1] /\ backlog'[q] = Tail(backlog[q])
          /\ backlog[q] # <<>> /\ 1 \in DOMAIN backlog[q]
      BY <1>2, <2>2 DEF Accept
    <3>2. backlog[q] \in Seq(ToSet(backlog[q]))
      OBVIOUS
    <3>3. /\ backlog'[q] \in Seq(ToSet(backlog'[q]))
          /\ \A i \in DOMAIN backlog'[q] :
               i + 1 \in DOMAIN backlog[q] /\ backlog'[q][i] = backlog[q][i + 1]
      BY <3>1, <3>2, OwnTail
    <3>. QED BY <2>2, <3>1, <3>3
  <2>. QED BY <2>1, <2>2
<1>3. ASSUME NEW p \in Processes, Ends(p)
      PROVE  ConnectionInv'
  <2>. SUFFICES ASSUME NEW q \in Processes
                PROVE  /\ session'[q] # NoWorker => At(session'[q]) = q
                       /\ backlog'[q] \in Seq(ToSet(backlog'[q]))
                       /\ \A i \in DOMAIN backlog'[q] : At(backlog'[q][i]) = q
    <3>1. UNCHANGED plan
      BY <1>3 DEF Ends
    <3>2. ASSUME NEW w PROVE At(w)' = At(w)
      BY <3>1 DEF At
    <3>. QED BY <3>2
  <2>1. \/ session'[q] = session[q] /\ backlog'[q] = backlog[q]
        \/ session'[q] = NoWorker /\ backlog'[q] = <<>>
    BY <1>3 DEF Ends
  <2>2. CASE session'[q] = NoWorker /\ backlog'[q] = <<>>
    BY <2>2
  <2>3. CASE session'[q] = session[q] /\ backlog'[q] = backlog[q]
    BY <2>3
  <2>. QED BY <2>1, <2>2, <2>3
<1>4. CASE UNCHANGED <<plan, session, backlog>>
  BY <1>4 DEF At
<1>5. CASE Coordinator \/ Interrupt \/ EditSource \/ Done \/ UNCHANGED vars
  <2>. USE DEF Coordinator
  <2>1. CASE Dial
    BY <1>1, <2>1
  <2>. QED
    BY <1>4, <1>5, <2>1 DEF vars, Done, EditSource, Interrupt, Spawn, WaitReadiness, RunGraph,
      CreateNode,
      AdvanceNode, CloseNode, PhaseOver, Stage, Returns, Raises, ConnectionLost,
        HandshakeTimeout, Disconnected, Disconnect, Reap
<1>6. ASSUME NEW p \in Processes, Worker(p) \/ Hang(p) \/ Crash(p)
      PROVE  ConnectionInv'
  BY <1>2, <1>3, <1>4, <1>6 DEF Worker, Boot, Handshake, Serve, HasAsset, PutCheck,
    PutReplace, Resolve, LoadAndCreate,
     SessionOver, Obey, Hang, Crash
<1>7. ASSUME NEW r \in Roots, NEW d \in Contents, OtherPut(r, d) \/ Damage(r, d)
      PROVE  ConnectionInv'
  BY <1>4, <1>7 DEF OtherPut, Damage
<1>. QED BY <1>5, <1>6, <1>7 DEF Next

\* Initially: no creation.
LEMMA CreationInit == Init => CreationInv
BY DEF Init, CreationInv, Idle, AssetOps

\* Every step keeps the order in which nodes are created.
LEMMA CreationStep == Tables /\ CreationInv /\ [Next]_vars => CreationInv'
<1>. SUFFICES ASSUME Tables, CreationInv, [Next]_vars PROVE CreationInv'
  OBVIOUS
<1>. USE DEF CreationInv, AssetOps
<1>0. \A n : Placement(n)' = Placement(n) /\ Remote(n)' = Remote(n)
  <2>1. UNCHANGED plan
    BY DEF Next, Coordinator, Worker, procVars, coordVars, vars, Done, EditSource, OtherPut,
      Damage,
      Spawn, WaitReadiness,
      RunGraph, Dial, CreateNode, AdvanceNode, CloseNode, PhaseOver, Stage, Returns, Raises,
        ConnectionLost,
      HandshakeTimeout, Disconnected, Disconnect, Reap, Interrupt, Boot, Accept, Handshake,
        Serve, HasAsset,
      PutCheck, PutReplace, Resolve, LoadAndCreate, SessionOver, Obey, Hang, Crash, Ends
  <2>. QED BY <2>1, PlanKept
<1>1. CASE CreateNode
  <2>1. CASE UNCHANGED <<call, hashed>> /\ (GoOn \/ Fail)
    BY <1>1, <2>1, <1>0, InjectiveTail DEF CreateNode, GoOn, Fail, Enter, Idle
  <2>2. CASE /\ hashed' = [hashed EXCEPT ![Head(todo)] = source]
             /\ call' = Sent("has", Placement(Head(todo)).worker, Head(todo))
             /\ UNCHANGED <<pc, todo>> /\ Remote(Head(todo))
    <3>1. Head(todo) \in Nodes
      BY <1>1 DEF CreateNode
    <3>2. hashed'[Head(todo)] \in Contents
      BY <2>2, <3>1 DEF Tables
    <3>. QED BY <1>0, <1>1, <2>2, <3>2 DEF CreateNode, Sent
  <2>. QED BY <1>1, <2>1, <2>2 DEF CreateNode
<1>2. CASE Returns
  <2>1. CASE call.op \in {"has", "put"}
    BY <1>0, <1>2, <2>1 DEF Returns, Sent
  <2>2. CASE call.op = "create"
    <3>1. call' = Idle /\ pc' = pc /\ todo' = Tail(todo) /\ hashed' = hashed
      BY <1>2, <2>2 DEF Returns, GoOn, Enter
    <3>. QED BY <1>0, <2>2, <3>1, InjectiveTail DEF Idle
  <2>3. CASE call.op \notin AssetOps
    <3>1. pc' = pc /\ pc # "create" /\ call' \in {Idle, Sent("ping", call.worker, NoWorker)}
      BY <1>2, <2>3 DEF Returns, GoOn, Enter, Idle
    <3>. QED BY <3>1 DEF Idle, Sent
  <2>. QED BY <2>1, <2>2, <2>3
<1>3. CASE Stage
  BY <1>0, <1>3 DEF Stage, Sent, Idle, Fail, Enter, GoOn
<1>4. CASE PhaseOver
  BY <1>0, <1>4, GraphNodesAssumption DEF PhaseOver, Enter, Idle
<1>5. CASE Raises \/ ConnectionLost \/ HandshakeTimeout \/ Interrupt
  BY <1>0, <1>5 DEF Raises, ConnectionLost, HandshakeTimeout, Disconnected, Interrupt, Idle,
    Fail, Enter, GoOn
<1>6. CASE \/ Dial \/ AdvanceNode \/ CloseNode \/ Disconnect \/ Reap
           \/ Spawn \/ WaitReadiness \/ RunGraph
  <2>1. pc # "create" /\ pc' # "create"
    BY <1>6 DEF Dial, AdvanceNode, CloseNode, Disconnect, Reap, Spawn, WaitReadiness,
      RunGraph, Fail, Enter, GoOn
  <2>2. call' = call \/ (call'.op \notin AssetOps /\ call'.at # "absent")
    <3>1. CASE Dial
      BY <3>1 DEF Dial, Sent
    <3>2. CASE AdvanceNode \/ CloseNode
      BY <3>2 DEF AdvanceNode, CloseNode, Sent
    <3>3. CASE Disconnect \/ Reap \/ Spawn \/ WaitReadiness \/ RunGraph
      BY <3>3 DEF Disconnect, Reap, Spawn, WaitReadiness, RunGraph
    <3>. QED BY <1>6, <3>1, <3>2, <3>3
  <2>. QED BY <2>1, <2>2
<1>7. ASSUME NEW p \in Processes, Worker(p) \/ Hang(p) \/ Crash(p)
      PROVE  CreationInv'
  <2>1. CASE UNCHANGED <<call, pc, todo, hashed>>
    BY <1>0, <2>1
  <2>2. CASE Answers(p) /\ UNCHANGED <<pc, todo, hashed>>
    BY <1>0, <2>2 DEF Answers, Answer, Tables, Idle
  <2>. QED BY <1>7, <2>1, <2>2, WorkerSteps
<1>8. CASE \/ Done \/ UNCHANGED vars \/ EditSource
           \/ (\E r \in Roots, d \in Contents : OtherPut(r, d) \/ Damage(r, d))
  BY <1>0, <1>8 DEF Done, vars, EditSource, OtherPut, Damage, coordVars
<1>. QED BY <1>1, <1>2, <1>3, <1>4, <1>5, <1>6, <1>7, <1>8 DEF Next, Coordinator

-----------------------------------------------------------------------------
(* The asset a worker runs. *)

\* What an upload leaves behind: the content of the name, under the guard of
\* put_asset.
LEMMA WrittenUnderItsName ==
    \A content, d : content = d => Written(content, d) = "good"
BY DEF Written

\* Initially: nothing was uploaded.
LEMMA UploadInit == Init => UploadInv
BY DEF Init, UploadInv, Idle, Damaged

\* Every step keeps the uploads what their digests say.
LEMMA UploadStep == Tables /\ CreationInv /\ UploadInv /\ [Next]_vars => UploadInv'
<1>. SUFFICES ASSUME Tables, CreationInv, UploadInv, [Next]_vars PROVE UploadInv'
  OBVIOUS
<1>. USE DEF UploadInv
<1>1. CASE /\ UNCHANGED cache
           /\ \/ UNCHANGED <<call, hashed>>
              \/ call'.op # "put"
  BY <1>1
<1>2. ASSUME NEW r, NEW d, NEW entry \in Entries \ {"misnamed"},
             cache' = [cache EXCEPT ![r][d] = entry]
      PROVE  \A q \in Roots, c \in Contents : cache'[q][c] # "misnamed"
  BY <1>2 DEF Tables
<1>3. CASE Stage
  <2>1. UNCHANGED <<cache, hashed>>
    BY <1>3 DEF Stage
  <2>2. call' = Idle \/ (call'.content = source /\ call'.node = call.node /\ HashedAgain)
    BY <1>3 DEF Stage, Sent
  <2>3. call'.op = "put" => call'.content = hashed[call'.node]
    BY <2>2 DEF Idle, HashedAgain
  <2>. QED BY <2>1, <2>3
<1>4. CASE (Coordinator \/ Interrupt) /\ ~Stage
  <2>1. UNCHANGED cache
    BY <1>4, CoordinatorSteps
  <2>2. UNCHANGED <<call, hashed>> \/ call'.op # "put"
    <3>1. CASE CreateNode
      BY <3>1 DEF CreateNode, Sent
    <3>2. CASE Dial \/ AdvanceNode \/ CloseNode
      BY <3>2 DEF Dial, AdvanceNode, CloseNode, Sent
    <3>3. CASE Returns
      BY <3>3 DEF Returns, Sent, Idle
    <3>4. CASE Raises \/ ConnectionLost \/ HandshakeTimeout \/ Interrupt
      BY <3>4 DEF Raises, ConnectionLost, HandshakeTimeout, Disconnected, Interrupt, Idle
    <3>5. CASE Spawn \/ WaitReadiness \/ RunGraph \/ Disconnect \/ Reap \/ PhaseOver
      BY <3>5 DEF Spawn, WaitReadiness, RunGraph, Disconnect, Reap, PhaseOver, procVars
    <3>. QED BY <1>4, <3>1, <3>2, <3>3, <3>4, <3>5 DEF Coordinator
  <2>. QED BY <1>1, <2>1, <2>2
<1>5. ASSUME NEW p \in Processes, Worker(p) \/ Hang(p) \/ Crash(p)
      PROVE  UploadInv'
  <2>1. call'.op = "put" => call'.content = hashed'[call'.node]
    <3>1. UNCHANGED hashed
      BY <1>5, WorkerSteps
    <3>2. CASE Answers(p)
      <4>1. call'.op = call.op /\ call'.content = call.content /\ call'.node = call.node
        BY <3>2 DEF Answers, Answer, Tables
      <4>. QED BY <3>1, <4>1
    <3>. QED BY <1>5, <3>1, <3>2, WorkerSteps
  <2>2. CASE PutReplace(p)
    <3>1. call.op = "put"
      BY <2>2 DEF PutReplace, Holds
    <3>2. Written(call.content, hashed[call.node]) = "good"
      BY <3>1, WrittenUnderItsName
    <3>3. \A q \in Roots, c \in Contents : cache'[q][c] # "misnamed"
      BY <1>2, <2>2, <3>2 DEF PutReplace, Entries
    <3>. QED BY <2>1, <3>3
  <2>3. CASE ~PutReplace(p)
    <3>1. UNCHANGED cache
      BY <1>5, <2>3 DEF Worker, Boot, Accept, Handshake, Serve, HasAsset, PutCheck, Resolve,
        LoadAndCreate, SessionOver, Obey, Hang, Crash, Ends
    <3>. QED BY <2>1, <3>1
  <2>. QED BY <2>2, <2>3
<1>6. ASSUME NEW r \in Roots, NEW d \in Contents, OtherPut(r, d) \/ Damage(r, d)
      PROVE  UploadInv'
  <2>1. UNCHANGED <<call, hashed>>
    BY <1>6 DEF OtherPut, Damage, coordVars
  <2>2. CASE OtherPut(r, d)
    <3>1. cache' = [cache EXCEPT ![r][d] = "good"]
      BY <2>2, WrittenUnderItsName DEF OtherPut, Admits
    <3>. QED BY <1>2, <2>1, <3>1 DEF Entries
  <2>3. CASE Damage(r, d)
    BY <1>2, <2>1, <2>3 DEF Damage, Entries, Damaged
  <2>. QED BY <1>6, <2>2, <2>3
<1>7. CASE Done \/ EditSource \/ UNCHANGED vars
  BY <1>1, <1>7 DEF Done, EditSource, vars, coordVars
<1>. QED BY <1>3, <1>4, <1>5, <1>6, <1>7 DEF Next

\* No step of this program or of another writer takes a verified entry away.
LEMMA VerifiedKept ==
    ASSUME Tables, UploadInv, [Next]_vars
    PROVE  \A p \in Processes, d \in Contents :
             Verified(p, d) => Verified(p, d)' \/ Damage(RootOf[p], d)
<1>. SUFFICES ASSUME NEW q \in Processes, NEW c \in Contents, Verified(q, c)
              PROVE  Verified(q, c)' \/ Damage(RootOf[q], c)
  OBVIOUS
<1>. USE DEF Verified
<1>0. cache[RootOf[q]] \in [Contents -> Entries] /\ RootOf[q] \in Roots
  BY DEF Tables, Roots
<1>1. CASE UNCHANGED cache
  BY <1>1
<1>2. ASSUME NEW r \in Roots, NEW d, cache' = [cache EXCEPT ![r][d] = "good"]
      PROVE  Verified(q, c)'
  BY <1>0, <1>2 DEF Tables
<1>3. ASSUME NEW p \in Processes, Worker(p) \/ Hang(p) \/ Crash(p)
      PROVE  Verified(q, c)'
  <2>1. CASE PutReplace(p)
    <3>1. RootOf[p] \in Roots /\ call.op = "put"
      BY <2>1 DEF Roots, PutReplace, Holds
    <3>2. Written(call.content, hashed[call.node]) = "good"
      BY <3>1, WrittenUnderItsName DEF UploadInv
    <3>. QED BY <1>1, <1>2, <2>1, <3>1, <3>2 DEF PutReplace
  <2>2. CASE UNCHANGED cache
    BY <1>1, <2>2
  <2>. QED BY <1>3, <2>1, <2>2 DEF Worker, Boot, Accept, Handshake, Serve, HasAsset, PutCheck,
    Resolve, LoadAndCreate,
    SessionOver, Obey, Hang, Crash, Ends
<1>4. CASE Coordinator \/ Interrupt \/ Done \/ EditSource \/ UNCHANGED vars
  <2>1. UNCHANGED cache
    BY <1>4, CoordinatorSteps DEF Done, EditSource, vars
  <2>. QED BY <1>1, <2>1
<1>5. ASSUME NEW r \in Roots, NEW d \in Contents, OtherPut(r, d)
      PROVE  Verified(q, c)'
  <2>1. cache' = [cache EXCEPT ![r][d] = "good"]
    BY <1>5, WrittenUnderItsName DEF OtherPut, Admits
  <2>. QED BY <1>2, <2>1
<1>6. ASSUME NEW r \in Roots, NEW d \in Contents, Damage(r, d)
      PROVE  Verified(q, c)' \/ Damage(RootOf[q], c)
  <2>1. CASE r = RootOf[q] /\ d = c
    BY <1>6, <2>1
  <2>2. CASE ~(r = RootOf[q] /\ d = c)
    BY <1>0, <1>6, <2>2 DEF Damage, Tables
  <2>. QED BY <2>1, <2>2
<1>. QED BY <1>3, <1>4, <1>5, <1>6 DEF Next

\* A verified entry stays verified, as an action property: neither an upload of
\* this run, whatever became of the model file, nor another coordinator replaces
\* it by something else; only damage from outside does.
THEOREM VerifiedForGood ==
    Spec => [][\A p \in Processes, d \in Contents :
                 Verified(p, d) => Verified(p, d)' \/ Damage(RootOf[p], d)]_vars
<1>. DEFINE Inv == Tables /\ CreationInv /\ UploadInv
<1>1. Init => Inv
  BY TablesInit, CreationInit, UploadInit
<1>2. Inv /\ [Next]_vars => Inv'
  BY TablesStep, CreationStep, UploadStep
<1>3. Inv /\ [Next]_vars =>
          [\A p \in Processes, d \in Contents :
             Verified(p, d) => Verified(p, d)' \/ Damage(RootOf[p], d)]_vars
  BY VerifiedKept
<1>. QED BY <1>1, <1>2, <1>3, PTL DEF Spec

\* No step forgets that an entry was damaged on its way to a runtime.
LEMMA SpoiledGrows == [Next]_vars => spoiled \subseteq spoiled'
<1>. SUFFICES ASSUME [Next]_vars PROVE spoiled \subseteq spoiled'
  OBVIOUS
<1>1. ASSUME NEW p \in Processes, Worker(p) \/ Hang(p) \/ Crash(p)
      PROVE  spoiled' = spoiled
  BY <1>1, WorkerSteps
<1>2. ASSUME NEW r \in Roots, NEW d \in Contents, OtherPut(r, d) \/ Damage(r, d)
      PROVE  spoiled \subseteq spoiled'
  BY <1>2 DEF OtherPut, Damage
<1>3. CASE Coordinator \/ Interrupt \/ Done \/ EditSource \/ UNCHANGED vars
  BY <1>3, CoordinatorSteps DEF Done, EditSource, vars
<1>. QED BY <1>1, <1>2, <1>3 DEF Next

\* Every step keeps the entry that is being loaded verified, or notes the damage.
LEMMA LoadStep ==
    Tables /\ ConnectionInv /\ CreationInv /\ UploadInv /\ LoadInv /\ [Next]_vars => LoadInv'
<1>. DEFINE Loads == /\ At(call.worker) \in Processes
                     /\ Verified(At(call.worker), hashed[call.node]) \/ call.node \in spoiled
<1>. SUFFICES ASSUME Tables, ConnectionInv, CreationInv, UploadInv, LoadInv, [Next]_vars,
                     call'.op = "create", call'.at = "loading"
              PROVE  Loads'
  BY DEF LoadInv
<1>1. CASE UNCHANGED <<plan, call, hashed>>
  <2>1. /\ At(call.worker) \in Processes
        /\ Verified(At(call.worker), hashed[call.node]) \/ call.node \in spoiled
        /\ hashed[call.node] \in Contents
    BY <1>1 DEF LoadInv, CreationInv, AssetOps
  <2>2. At(call.worker)' = At(call.worker)
    BY <1>1, PlanKept
  <2>3. CASE call.node \in spoiled
    BY <1>1, <2>1, <2>2, <2>3, SpoiledGrows
  <2>4. CASE Verified(At(call.worker), hashed[call.node])'
    BY <1>1, <2>1, <2>2, <2>4
  <2>5. CASE Damage(RootOf[At(call.worker)], hashed[call.node])
    <3>1. call.node \in spoiled'
      BY <1>1, <2>5 DEF Damage, BeingLoaded
    <3>. QED BY <1>1, <2>1, <2>2, <3>1
  <2>6. Verified(At(call.worker), hashed[call.node]) =>
          \/ Verified(At(call.worker), hashed[call.node])'
          \/ Damage(RootOf[At(call.worker)], hashed[call.node])
    BY <1>1, <2>1, <2>2, VerifiedKept DEF Verified
  <2>. QED BY <2>1, <2>3, <2>4, <2>5, <2>6
<1>2. CASE Coordinator \/ Interrupt
  <2>1. UNCHANGED plan
    BY <1>2, CoordinatorSteps
  <2>. QED BY <1>1, <1>2, <2>1, CoordinatorSteps DEF Idle
<1>3. ASSUME NEW p \in Processes, Worker(p) \/ Hang(p) \/ Crash(p)
      PROVE  Loads'
  <2>1. CASE UNCHANGED call
    BY <1>1, <1>3, <2>1, WorkerSteps
  <2>2. CASE Answers(p)
    <3>1. /\ call'.worker = call.worker /\ call'.node = call.node /\ call.op = "create"
          /\ At(call.worker) = p /\ Verified(p, hashed[call.node])
      BY <2>2 DEF Answers, Answer, Tables, ConnectionInv
    <3>2. UNCHANGED <<plan, hashed>>
      BY <1>3, WorkerSteps
    <3>3. hashed[call.node] \in Contents
      BY <3>1 DEF CreationInv, AssetOps
    <3>4. At(call.worker)' = p
      <4>1. At(call'.worker) = p
        BY <3>1
      <4>. QED BY <3>2, <4>1 DEF At
    <3>5. CASE Damage(RootOf[p], hashed[call.node])
      BY <1>1, <3>2, <3>5 DEF Damage, coordVars
    <3>6. CASE Verified(p, hashed[call.node])'
      BY <3>1, <3>2, <3>4, <3>6
    <3>7. Verified(p, hashed[call.node])' \/ Damage(RootOf[p], hashed[call.node])
      BY <3>1, <3>2, <3>3, VerifiedKept DEF Verified
    <3>. QED BY <3>5, <3>6, <3>7
  <2>. QED BY <1>3, <2>1, <2>2, WorkerSteps
<1>4. CASE \/ Done \/ UNCHANGED vars \/ EditSource
           \/ (\E r \in Roots, d \in Contents : OtherPut(r, d) \/ Damage(r, d))
  BY <1>1, <1>4 DEF Done, vars, EditSource, OtherPut, Damage, coordVars
<1>. QED BY <1>2, <1>3, <1>4 DEF Next

\* Every step keeps the digest of a node that has a runtime.
LEMMA RuntimeStep ==
    Tables /\ ConnectionInv /\ CreationInv /\ LoadInv /\ RuntimeInv /\ [Next]_vars => RuntimeInv'
<1>. SUFFICES ASSUME Tables, ConnectionInv, CreationInv, LoadInv, RuntimeInv, [Next]_vars
              PROVE  RuntimeInv'
  OBVIOUS
<1>. USE DEF CreationInv, AssetOps
<1>1. CASE /\ UNCHANGED <<pc, todo, call, hashed>>
           /\ \A q \in Processes : runtimes'[q] \subseteq runtimes[q]
  BY <1>1, SpoiledGrows DEF RuntimeInv
<1>2. CASE Coordinator \/ Interrupt
  <2>0. runtimes' = runtimes /\ spoiled' = spoiled
    BY <1>2, CoordinatorSteps
  <2>1. SUFFICES ASSUME NEW q \in Processes, NEW r \in runtimes[q]
                 PROVE  /\ r.content = hashed'[r.node] \/ r.node \in spoiled
                        /\ pc' \notin {"launch", "connect"}
                        /\ pc' = "create" =>
                             \A i \in DOMAIN todo' : todo'[i] = r.node =>
                                 i = 1 /\ call'.op = "create" /\ call'.at = "ok"
    BY <2>0 DEF RuntimeInv
  <2>2. /\ r.node \in Nodes /\ pc \notin {"launch", "connect"}
        /\ r.content = hashed[r.node] \/ r.node \in spoiled
        /\ pc = "create" => \A i \in DOMAIN todo : todo[i] = r.node =>
                              i = 1 /\ call.op = "create" /\ call.at = "ok"
    BY DEF RuntimeInv
  <2>3. CASE CreateNode
    <3>1. \A i \in DOMAIN todo : todo[i] # r.node
      BY <2>2, <2>3 DEF CreateNode, Idle
    <3>2. Head(todo) # r.node
      BY <2>3, <3>1 DEF CreateNode
    <3>3. r.content = hashed'[r.node] \/ r.node \in spoiled
      BY <2>2, <2>3, <3>2 DEF CreateNode, Tables
    <3>4. \/ pc' = pc /\ todo' = todo
          \/ pc' = pc /\ todo' = Tail(todo)
          \/ pc' = "close"
      BY <2>3 DEF CreateNode, GoOn, Fail, Enter
    <3>. QED BY <2>3, <2>2, <3>1, <3>3, <3>4, InjectiveTail DEF CreateNode
  <2>4. CASE Returns
    <3>1. hashed' = hashed
      BY <2>4 DEF Returns
    <3>2. CASE pc = "create"
      <4>1. CASE call.op = "create"
        <5>1. pc' = pc /\ todo' = Tail(todo) /\ todo # <<>>
          BY <2>4, <4>1 DEF Returns, GoOn, Enter
        <5>2. \A i \in DOMAIN todo' : todo'[i] # r.node
          <6>. SUFFICES ASSUME NEW i \in DOMAIN todo', todo'[i] = r.node PROVE FALSE
            OBVIOUS
          <6>1. i + 1 \in DOMAIN todo /\ todo[i + 1] = r.node /\ i \in Nat /\ i # 0
            BY <3>2, <5>1, InjectiveTail
          <6>. QED BY <2>2, <3>2, <6>1
        <5>. QED BY <2>2, <3>1, <3>2, <5>1, <5>2
      <4>2. CASE call.op \in {"has", "put"}
        <5>1. pc' = pc /\ todo' = todo
          BY <2>4, <4>2 DEF Returns
        <5>. QED BY <2>2, <3>1, <3>2, <4>2, <5>1
      <4>. QED BY <2>4, <3>2, <4>1, <4>2 DEF Returns, Idle
    <3>3. CASE pc # "create"
      <4>1. pc' = pc
        BY <2>4, <3>3 DEF Returns, GoOn, Enter
      <4>. QED BY <2>2, <3>1, <3>3, <4>1
    <3>. QED BY <3>2, <3>3
  <2>5. CASE Stage
    <3>1. hashed' = hashed /\ ((pc' = pc /\ todo' = todo) \/ pc' = "close")
      BY <2>5 DEF Stage, Fail, Enter
    <3>. QED BY <2>2, <2>5, <3>1 DEF Stage
  <2>6. CASE Raises \/ ConnectionLost \/ HandshakeTimeout \/ Interrupt \/ PhaseOver
    <3>1. hashed' = hashed /\ pc' \notin {"launch", "connect", "create"}
      BY <2>2, <2>6 DEF Raises, ConnectionLost, HandshakeTimeout, Disconnected, Interrupt,
        PhaseOver, Fail, Enter, GoOn
    <3>. QED BY <2>2, <3>1
  <2>7. CASE \/ Dial \/ AdvanceNode \/ CloseNode \/ Disconnect \/ Reap
             \/ Spawn \/ WaitReadiness \/ RunGraph
    <3>1. hashed' = hashed /\ pc # "create" /\ pc' = pc
      BY <2>2, <2>7 DEF Dial, AdvanceNode, CloseNode, Disconnect, Reap, Spawn, WaitReadiness,
        RunGraph, Fail, Enter, GoOn
    <3>. QED BY <2>2, <3>1
  <2>. QED BY <1>2, <2>3, <2>4, <2>5, <2>6, <2>7 DEF Coordinator
<1>3. ASSUME NEW p \in Processes, Worker(p) \/ Hang(p) \/ Crash(p)
      PROVE  RuntimeInv'
  <2>1. CASE LoadAndCreate(p)
    <3>1. /\ pc = "create" /\ call.op = "create" /\ call.at = "loading" /\ call.node = Head(todo)
          /\ session[p] = call.worker /\ call.worker # NoWorker /\ call.node \in Nodes
      BY <2>1 DEF LoadAndCreate, Holds, Serves
    <3>2. Verified(p, hashed[call.node]) \/ call.node \in spoiled
      BY <3>1 DEF LoadInv, ConnectionInv
    <3>3. UNCHANGED <<pc, todo, hashed, spoiled>>
      BY <2>1 DEF LoadAndCreate
    <3>4. \A q \in Processes : \A r \in runtimes[q], i \in DOMAIN todo : todo[i] # r.node
      BY <3>1 DEF RuntimeInv
    <3>5. CASE runtimes' = runtimes
      BY <3>1, <3>3, <3>4, <3>5 DEF RuntimeInv
    <3>6. ASSUME NEW content, content = hashed[call.node] \/ call.node \in spoiled, Answer("ok"),
                 runtimes' = [runtimes EXCEPT ![p] =
                                @ \union {[node |-> call.node, content |-> content]}]
          PROVE  RuntimeInv'
      <4>1. call'.op = "create" /\ call'.at = "ok"
        BY <3>1, <3>6 DEF Answer, Tables
      <4>. SUFFICES ASSUME NEW q \in Processes, NEW r \in runtimes'[q]
                    PROVE  /\ r.node \in Nodes
                           /\ r.content = hashed[r.node] \/ r.node \in spoiled
                           /\ \A i \in DOMAIN todo : todo[i] = r.node => i = 1
        BY <3>1, <3>3, <4>1 DEF RuntimeInv
      <4>2. CASE r \in runtimes[q]
        BY <3>4, <4>2 DEF RuntimeInv
      <4>3. CASE r = [node |-> call.node, content |-> content]
        <5>1. r.node = Head(todo) /\ (r.content = hashed[r.node] \/ r.node \in spoiled)
          BY <3>1, <3>6, <4>3
        <5>2. \A i \in DOMAIN todo : todo[i] = Head(todo) => i = 1
          BY <3>1 DEF IsInjective
        <5>. QED BY <3>1, <5>1, <5>2
      <4>. QED BY <3>6, <4>2, <4>3 DEF Tables
    <3>. QED BY <2>1, <3>2, <3>5, <3>6 DEF LoadAndCreate, Verified
  <2>2. CASE ~LoadAndCreate(p)
    <3>1. \A q \in Processes : runtimes'[q] \subseteq runtimes[q]
      BY <1>3, <2>2 DEF Worker, Boot, Accept, Handshake, Serve, HasAsset, PutCheck,
        PutReplace, Resolve, SessionOver,
        Obey, Hang, Crash, Ends, procVars, Tables
    <3>2. UNCHANGED <<pc, todo, hashed, spoiled>>
      BY <1>3, WorkerSteps
    <3>3. CASE UNCHANGED call
      BY <1>1, <3>1, <3>2, <3>3
    <3>4. CASE Answers(p)
      BY <3>1, <3>2, <3>4 DEF Answers, RuntimeInv
    <3>. QED BY <1>3, <3>3, <3>4, WorkerSteps
  <2>. QED BY <2>1, <2>2
<1>4. CASE \/ Done \/ UNCHANGED vars \/ EditSource
           \/ (\E r \in Roots, d \in Contents : OtherPut(r, d) \/ Damage(r, d))
  BY <1>1, <1>4 DEF Done, vars, EditSource, OtherPut, Damage, coordVars, procVars
<1>. QED BY <1>2, <1>3, <1>4 DEF Next

\* ServedVerified: whatever the cache held before and whoever else writes it,
\* however often the model file is edited and an entry damaged, an upload carries
\* what its digest says and a worker runs what was hashed, but for an entry damaged
\* after it was resolved.
THEOREM OnlyVerifiedServed == Spec => []ServedVerified
<1>1. Init => AssetInv
  <2>1. Init => LoadInv /\ RuntimeInv
    BY DEF Init, LoadInv, RuntimeInv, Idle
  <2>. QED BY <2>1, TablesInit, ConnectionInit, CreationInit, UploadInit DEF AssetInv
<1>2. AssetInv /\ [Next]_vars => AssetInv'
  BY TablesStep, ConnectionStep, CreationStep, UploadStep, LoadStep, RuntimeStep DEF AssetInv
<1>3. AssetInv => ServedVerified
  BY DEF AssetInv, UploadInv, RuntimeInv, ServedVerified
<1>. QED BY <1>1, <1>2, <1>3, PTL DEF Spec

-----------------------------------------------------------------------------
(* The worker it runs on. *)

\* Every step keeps the identity of the connected workers.
LEMMA IdentityStep ==
    Tables /\ ConnectionInv /\ CreationInv /\ IdentityInv /\ [Next]_vars => IdentityInv'
<1>. SUFFICES ASSUME Tables, ConnectionInv, CreationInv, IdentityInv, [Next]_vars
              PROVE  IdentityInv'
  OBVIOUS
<1>. USE DEF Closing
<1>1. CASE UNCHANGED <<plan, pc, call, session, backlog>>
  <2>1. \A w : At(w)' = At(w)
    BY <1>1, PlanKept
  <2>. QED BY <1>1, <2>1 DEF IdentityInv
<1>2. ASSUME UNCHANGED <<session, backlog>>, call'.op # "hello",
             pc \in Closing => pc' \in Closing, call.op = "hello" => pc' \in Closing
      PROVE  IdentityInv'
  BY <1>2 DEF IdentityInv
<1>3. CASE Dial
  <2>. DEFINE w == Head(todo)  p == At(w)
  <2>1. CASE proc[p] = "serving"
    <3>1. /\ backlog' = [backlog EXCEPT ![p] = Append(@, w)] /\ session' = session
          /\ call' = Sent("hello", w, NoWorker) /\ pc' = pc /\ pc = "connect" /\ call = Idle
      BY <1>3, <2>1 DEF Dial
    <3>2. ASSUME NEW q \in Processes, NEW i \in DOMAIN backlog'[q],
                 backlog'[q][i] \notin {NoWorker, WorkerIdOf[q]}
          PROVE  backlog'[q][i] = w
      <4>1. CASE q # p \/ p \notin Processes
        <5>1. backlog'[q] = backlog[q]
          BY <3>1, <4>1 DEF Tables
        <5>. QED BY <3>1, <3>2, <5>1 DEF IdentityInv, Idle
      <4>2. CASE q = p
        <5>1. backlog'[q] = Append(backlog[q], w) /\ backlog[q] \in Seq(ToSet(backlog[q]))
          BY <3>1, <4>2 DEF Tables, ConnectionInv
        <5>2. backlog'[q][i] = IF i \in DOMAIN backlog[q] THEN backlog[q][i] ELSE w
          BY <3>2, <5>1, OwnAppend
        <5>. QED BY <3>1, <3>2, <5>2 DEF IdentityInv, Idle
      <4>. QED BY <4>1, <4>2
    <3>3. \A q \in Processes : session[q] \in {NoWorker, WorkerIdOf[q]}
      BY <3>1 DEF IdentityInv, Idle
    <3>. QED BY <3>1, <3>2, <3>3 DEF IdentityInv, Sent
  <2>2. CASE proc[p] # "serving"
    BY <1>2, <1>3, <2>2 DEF Dial, Fail, Enter, Idle
  <2>. QED BY <2>1, <2>2
<1>4. CASE Returns
  <2>1. CASE call.op = "hello"
    <3>1. /\ call' = Sent("ping", call.worker, NoWorker) /\ UNCHANGED <<plan, pc, session, backlog>>
          /\ call.at = "ok"
      BY <1>4, <2>1 DEF Returns, procVars
    <3>2. WorkerIdOf[At(call.worker)] = call.worker
      BY <2>1, <3>1 DEF IdentityInv
    <3>3. ASSUME NEW p \in Processes
          PROVE  /\ session[p] \notin {NoWorker, WorkerIdOf[p]} => pc \in Closing
                 /\ \A i \in DOMAIN backlog[p] :
                      backlog[p][i] \notin {NoWorker, WorkerIdOf[p]} => pc \in Closing
      BY <3>2 DEF IdentityInv, ConnectionInv
    <3>. QED BY <3>1, <3>3 DEF IdentityInv, Sent
  <2>2. CASE call.op # "hello"
    BY <1>2, <1>4, <2>2 DEF Returns, Sent, Idle, GoOn, Enter, procVars
  <2>. QED BY <2>1, <2>2
<1>5. CASE Raises \/ ConnectionLost \/ HandshakeTimeout \/ Interrupt
  <2>1. UNCHANGED <<session, backlog>> /\ call' = Idle
    BY <1>5 DEF Raises, ConnectionLost, HandshakeTimeout, Disconnected, Interrupt, procVars
  <2>2. /\ pc \in Closing => pc' \in Closing
        /\ pc = "connect" => pc' \in Closing
    BY <1>5 DEF Raises, ConnectionLost, HandshakeTimeout, Disconnected, Interrupt, Fail, GoOn,
      Enter
  <2>. QED BY <1>2, <2>1, <2>2 DEF IdentityInv, Idle
<1>6. CASE Stage \/ AdvanceNode \/ CloseNode \/ CreateNode \/ PhaseOver
  <2>1. UNCHANGED <<plan, session, backlog>> /\ call.op # "hello"
    BY <1>6 DEF Stage, AdvanceNode, CloseNode, CreateNode, PhaseOver, procVars, CreationInv,
      Idle
  <2>2. call'.op # "hello" /\ (pc \in Closing => pc' \in Closing)
    BY <1>6 DEF Stage, AdvanceNode, CloseNode, CreateNode, PhaseOver, Fail, GoOn, Enter, Sent,
      Idle
  <2>. QED BY <1>2, <2>1, <2>2
<1>7. CASE Disconnect \/ Reap \/ Spawn \/ WaitReadiness \/ RunGraph
  <2>1. UNCHANGED <<plan, session, backlog, call>> /\ pc # "connect"
    BY <1>7 DEF Disconnect, Reap, Spawn, WaitReadiness, RunGraph, procVars
  <2>2. pc \in Closing => pc' \in Closing
    BY <1>7 DEF Disconnect, Reap, Spawn, WaitReadiness, RunGraph, GoOn, Enter
  <2>. QED BY <1>2, <2>1, <2>2 DEF IdentityInv
<1>8. ASSUME NEW p \in Processes, Worker(p) \/ Hang(p) \/ Crash(p)
      PROVE  IdentityInv'
  <2>0. UNCHANGED <<plan, pc>>
    BY <1>8, WorkerSteps
  <2>1. CASE Answers(p) /\ UNCHANGED <<session, backlog>>
    <3>1. call'.op = call.op /\ call'.worker = call.worker
      BY <2>1 DEF Answers, Answer, Tables
    <3>2. call'.op = "hello" /\ call'.at = "ok" =>
            (At(call.worker) \in Processes /\ WorkerIdOf[At(call.worker)] = call.worker)'
      <4>. SUFFICES ASSUME call'.op = "hello", call'.at = "ok"
                    PROVE  (At(call.worker) \in Processes /\ WorkerIdOf[At(call.worker)] = call.worker)'
        OBVIOUS
      <4>1. At(call.worker) = p /\ call.worker = WorkerIdOf[p]
        BY <2>1, <3>1 DEF Answers, Answer, Tables, ConnectionInv
      <4>2. At(call.worker)' = p
        <5>1. At(call'.worker) = p
          BY <3>1, <4>1
        <5>. QED BY <2>0, <5>1 DEF At
      <4>. QED BY <3>1, <4>1, <4>2
    <3>. QED BY <2>0, <2>1, <3>1, <3>2 DEF IdentityInv
  <2>2. CASE UNCHANGED call
    <3>1. ASSUME NEW q \in Processes
          PROVE  /\ session'[q] \in {NoWorker, session[q]} \cup ToSet(backlog[q])
                 /\ \A i \in DOMAIN backlog'[q] : backlog'[q][i] \in ToSet(backlog[q])
      <4>1. CASE session'[q] = session[q] /\ backlog'[q] = backlog[q]
        BY <4>1 DEF ToSet
      <4>2. CASE session'[q] = NoWorker /\ backlog'[q] = <<>>
        BY <4>2
      <4>3. CASE /\ session'[q] = Head(backlog[q]) /\ backlog'[q] = Tail(backlog[q])
                 /\ backlog[q] # <<>>
        <5>1. backlog[q] \in Seq(ToSet(backlog[q]))
          BY DEF ConnectionInv
        <5>2. Head(backlog[q]) \in ToSet(backlog[q])
          BY <4>3, <5>1
        <5>3. \A i \in DOMAIN Tail(backlog[q]) : Tail(backlog[q])[i] \in ToSet(backlog[q])
          BY <4>3, <5>1, OwnTail DEF ToSet
        <5>. QED BY <4>3, <5>2, <5>3
      <4>. QED BY <1>8, <4>1, <4>2, <4>3 DEF Worker, Boot, Accept, Handshake, Serve, HasAsset,
        PutCheck, PutReplace, Resolve, LoadAndCreate, SessionOver, Obey, Hang, Crash, Ends,
          procVars, Tables
    <3>2. \A w : At(w)' = At(w)
      BY <2>0, PlanKept
    <3>3. call.op = "hello" /\ call.at = "ok" =>
            (At(call.worker) \in Processes /\ WorkerIdOf[At(call.worker)] = call.worker)'
      BY <2>2, <3>2 DEF IdentityInv
    <3>4. ASSUME NEW q \in Processes, NEW w \in {session[q]} \cup ToSet(backlog[q]),
                 w \notin {NoWorker, WorkerIdOf[q]}
          PROVE  pc \in Closing \/ (call.op = "hello" /\ call.worker = w)
      BY <3>4 DEF IdentityInv, ToSet
    <3>. QED BY <2>0, <2>2, <3>1, <3>3, <3>4 DEF IdentityInv
  <2>. QED BY <1>8, <2>1, <2>2, WorkerSteps
<1>9. CASE \/ Done \/ UNCHANGED vars \/ EditSource
           \/ (\E r \in Roots, d \in Contents : OtherPut(r, d) \/ Damage(r, d))
  BY <1>1, <1>9 DEF Done, vars, EditSource, OtherPut, Damage, coordVars, procVars
<1>. QED BY <1>3, <1>4, <1>5, <1>6, <1>7, <1>8, <1>9 DEF Next, Coordinator

\* Every step keeps the runtimes where they were placed.
LEMMA PlacedStep ==
    Tables /\ CreationInv /\ IdentityInv /\ RunsWherePlaced /\ [Next]_vars => RunsWherePlaced'
<1>. SUFFICES ASSUME Tables, CreationInv, IdentityInv, RunsWherePlaced, [Next]_vars
              PROVE  RunsWherePlaced'
  OBVIOUS
<1>0. ASSUME UNCHANGED plan, \A q \in Processes : runtimes'[q] \subseteq runtimes[q]
      PROVE  RunsWherePlaced'
  BY <1>0, PlanKept DEF RunsWherePlaced
<1>1. CASE Coordinator \/ Interrupt
  BY <1>0, <1>1, CoordinatorSteps
<1>2. ASSUME NEW p \in Processes, Worker(p) \/ Hang(p) \/ Crash(p)
      PROVE  RunsWherePlaced'
  <2>0. UNCHANGED plan
    BY <1>2, WorkerSteps
  <2>1. CASE LoadAndCreate(p)
    <3>1. /\ pc = "create" /\ call.op = "create"
          /\ session[p] = call.worker /\ session[p] # NoWorker
          /\ call.worker = Placement(call.node).worker /\ Remote(call.node)
      BY <2>1 DEF LoadAndCreate, Holds, Serves, CreationInv, AssetOps
    <3>2. call.worker = WorkerIdOf[p]
      BY <3>1 DEF IdentityInv, Closing
    <3>3. ASSUME NEW q \in Processes, NEW r \in runtimes'[q]
          PROVE  r \in runtimes[q] \/ (q = p /\ r.node = call.node)
      BY <2>1, <3>3 DEF LoadAndCreate, Tables
    <3>. QED BY <2>0, <3>1, <3>2, <3>3, PlanKept DEF RunsWherePlaced
  <2>2. CASE ~LoadAndCreate(p)
    <3>1. \A q \in Processes : runtimes'[q] \subseteq runtimes[q]
      BY <1>2, <2>2 DEF Worker, Boot, Accept, Handshake, Serve, HasAsset, PutCheck,
        PutReplace, Resolve, SessionOver,
        Obey, Hang, Crash, Ends, procVars, Tables
    <3>. QED BY <1>0, <2>0, <3>1
  <2>. QED BY <2>1, <2>2
<1>3. CASE \/ Done \/ UNCHANGED vars \/ EditSource
           \/ (\E r \in Roots, d \in Contents : OtherPut(r, d) \/ Damage(r, d))
  BY <1>0, <1>3 DEF Done, vars, EditSource, OtherPut, Damage, procVars
<1>. QED BY <1>1, <1>2, <1>3 DEF Next

\* RunsWherePlaced, from the handshake of every connection.
THEOREM OnlyWherePlaced == Spec => []RunsWherePlaced
<1>. DEFINE Inv == Tables /\ ConnectionInv /\ CreationInv /\ IdentityInv /\ RunsWherePlaced
<1>1. Init => Inv
  <2>1. Init => IdentityInv /\ RunsWherePlaced
    BY DEF Init, IdentityInv, RunsWherePlaced, Idle
  <2>. QED BY <2>1, TablesInit, ConnectionInit, CreationInit
<1>2. Inv /\ [Next]_vars => Inv'
  BY TablesStep, ConnectionStep, CreationStep, IdentityStep, PlacedStep
<1>. QED BY <1>1, <1>2, PTL DEF Spec

-----------------------------------------------------------------------------
(* What is left in the end. *)

\* Every step keeps the open sockets in the hands of somebody who closes them.
LEMMA SocketStep ==
    Tables /\ CreationInv /\ SocketInv /\ [Next]_vars => SocketInv'
<1>. SUFFICES ASSUME Tables, CreationInv, SocketInv, [Next]_vars PROVE SocketInv'
  OBVIOUS
<1>. USE DEF SocketInv, Opened
<1>1. CASE UNCHANGED <<pc, todo, call, sock, clients>>
  BY <1>1
<1>2. CASE Dial
  <2>1. CASE proc[At(Head(todo))] = "serving"
    <3>1. /\ sock' = [sock EXCEPT ![Head(todo)] = "open"] /\ UNCHANGED <<pc, clients>>
          /\ call' = Sent("hello", Head(todo), NoWorker) /\ pc = "connect" /\ call = Idle
      BY <1>2, <2>1 DEF Dial
    <3>. QED BY <3>1 DEF Sent, Idle
  <2>2. CASE proc[At(Head(todo))] # "serving"
    <3>1. /\ UNCHANGED <<sock, clients, call>> /\ call = Idle /\ pc = "connect"
          /\ pc' = "disconnect" /\ todo' = Reverse(clients)
      BY <1>2, <2>2 DEF Dial, Fail, Enter
    <3>. QED BY <3>1, OwnReverse DEF Idle
  <2>. QED BY <2>1, <2>2
<1>3. CASE Returns
  <2>1. CASE call.op = "hello"
    <3>1. /\ clients' = Append(clients, call.worker) /\ UNCHANGED <<pc, sock>>
          /\ call' = Sent("ping", call.worker, NoWorker)
      BY <1>3, <2>1 DEF Returns
    <3>2. clients' \in Seq(ToSet(clients')) /\ ToSet(clients) \cup {call.worker} = ToSet(clients')
      BY <3>1, OwnAppend
    <3>. QED BY <2>1, <3>1, <3>2 DEF Sent
  <2>2. CASE call.op # "hello"
    <3>1. UNCHANGED <<pc, sock, clients>> /\ pc \in Opened
      BY <1>3, <2>2 DEF Returns, GoOn, Enter, Idle
    <3>2. call'.op # "hello"
      BY <1>3, <2>2 DEF Returns, Sent, Idle
    <3>. QED BY <2>2, <3>1, <3>2
  <2>. QED BY <2>1, <2>2
<1>4. CASE Disconnected /\ call # Idle
  <2>1. /\ pc \in Opened /\ call' = Idle /\ clients' = clients
        /\ sock' = [sock EXCEPT ![call.worker] = "closed"]
    BY <1>4 DEF Disconnected
  <2>2. \/ pc = "connect" /\ pc' = "disconnect" /\ todo' = Reverse(clients)
        \/ pc # "connect" /\ pc' \in Opened
    BY <1>4, <2>1 DEF Disconnected, Fail, Enter, GoOn
  <2>3. \A w \in Ids : sock'[w] = "open" => w \in ToSet(clients)
    BY <2>1
  <2>. QED BY <2>1, <2>2, <2>3, OwnReverse DEF Idle
<1>5. CASE \/ Raises /\ call.op # "hello"
           \/ Stage
           \/ CreateNode
  <2>1. pc \in Opened /\ call.op # "hello" /\ UNCHANGED <<sock, clients>> /\ call'.op # "hello"
    BY <1>5 DEF Raises, Stage, CreateNode, Idle, Sent, CreationInv, AssetOps
  <2>2. \/ pc = "connect" /\ pc' = "disconnect" /\ todo' = Reverse(clients) /\ call' = Idle
        \/ pc' \in Opened
    BY <1>5, <2>1 DEF Raises, Stage, CreateNode, Fail, Enter, GoOn
  <2>. QED BY <2>1, <2>2, OwnReverse DEF Idle
<1>6. CASE Interrupt
  BY <1>6, OwnReverse DEF Interrupt, Enter, Idle
<1>7. CASE PhaseOver
  <2>1. CASE pc = "close"
    BY <1>7, <2>1, OwnReverse DEF PhaseOver, Enter, Idle
  <2>2. CASE pc = "disconnect"
    BY <1>7, <2>2 DEF PhaseOver, Enter, Idle, ToSet
  <2>3. CASE pc \notin {"close", "disconnect"}
    BY <1>7, <2>3 DEF PhaseOver, Enter, Idle
  <2>. QED BY <2>1, <2>2, <2>3
<1>8. CASE Disconnect
  <2>1. /\ pc' = "disconnect" /\ todo' = Tail(todo)
        /\ sock' = [sock EXCEPT ![Head(todo)] = "closed"]
        /\ UNCHANGED <<call, clients>> /\ todo \in Seq(ToSet(todo)) /\ todo # <<>>
    BY <1>8 DEF Disconnect, GoOn, Enter
  <2>2. ToSet(todo) \subseteq ToSet(Tail(todo)) \cup {Head(todo)}
    BY <2>1, OwnTail
  <2>. QED BY <1>8, <2>1, <2>2, OwnTail DEF Disconnect
<1>9. CASE Reap \/ Spawn \/ WaitReadiness \/ RunGraph \/ AdvanceNode \/ CloseNode
  <2>1. CASE AdvanceNode \/ CloseNode
    <3>1. /\ UNCHANGED <<pc, sock, clients>> /\ pc \in {"run", "close"}
          /\ call.op # "hello" /\ call'.op # "hello"
      BY <2>1 DEF AdvanceNode, CloseNode, Sent, Idle, GoOn, Enter
    <3>. QED BY <3>1
  <2>2. CASE Reap \/ Spawn \/ WaitReadiness \/ RunGraph
    <3>1. /\ pc \in {"launch", "reap"} /\ pc' \in {"launch", "connect", "reap"}
          /\ UNCHANGED <<sock, clients, call>>
      BY <2>2 DEF Reap, Spawn, WaitReadiness, RunGraph, Fail, Enter, GoOn
    <3>. QED BY <3>1 DEF Idle
  <2>. QED BY <1>9, <2>1, <2>2
<1>10. ASSUME NEW p \in Processes, Worker(p) \/ Hang(p) \/ Crash(p)
       PROVE  SocketInv'
  <2>1. CASE Answers(p)
    <3>1. call'.op = call.op /\ call'.worker = call.worker /\ call # Idle
      BY <2>1 DEF Answers, Answer, Tables, Idle
    <3>. QED BY <1>10, <3>1, WorkerSteps
  <2>. QED BY <1>1, <1>10, <2>1, WorkerSteps
<1>11. CASE \/ Done \/ UNCHANGED vars \/ EditSource
           \/ (\E r \in Roots, d \in Contents : OtherPut(r, d) \/ Damage(r, d))
  BY <1>1, <1>11 DEF Done, vars, EditSource, OtherPut, Damage, coordVars
<1>12. CASE Raises \/ ConnectionLost \/ HandshakeTimeout
  BY <1>4, <1>5, <1>12 DEF Raises, ConnectionLost, HandshakeTimeout, Idle
<1>. QED BY <1>2, <1>3, <1>5, <1>6, <1>7, <1>8, <1>9, <1>10, <1>11, <1>12 DEF Next, Coordinator

\* Started holds every launch that has a process.
LEMMA StartedLaunches ==
    ASSUME NEW k \in 0..Len(Launches), LaunchedBy(k)
    PROVE  /\ Started \in Seq(ToSet(Launches))
           /\ \A p \in ToSet(Launches) : proc[p] # "off" => p \in ToSet(Started)
<1>. USE LaunchesAssumption
<1>. DEFINE m == IF k < Len(Launches) /\ proc[Launches[k + 1]] # "off" THEN k + 1 ELSE k
            running == {i \in DOMAIN Launches : proc[Launches[i]] # "off"}
<1>1. m \in 0..Len(Launches)
  OBVIOUS
<1>2. running = 1..m
  BY DEF LaunchedBy
<1>3. Cardinality(running) = m
  <2>. HIDE DEF m, running
  <2>1. Cardinality(1..m) = IF 1 > m THEN 0 ELSE m - 1 + 1
    BY <1>1, FS_Interval
  <2>. QED BY <1>1, <1>2, <2>1
<1>. HIDE DEF m
<1>4. Started = SubSeq(Launches, 1, m)
  BY <1>3 DEF Started
<1>5. /\ Started \in Seq(ToSet(Launches)) /\ DOMAIN Started = 1..m
      /\ \A i \in 1..m : Started[i] = Launches[i]
  BY <1>1, <1>4 DEF ToSet
<1>. HIDE DEF running
<1>6. ASSUME NEW i \in DOMAIN Launches, proc[Launches[i]] # "off"
      PROVE  Launches[i] \in ToSet(Started)
  <2>1. i \in 1..m
    BY <1>2, <1>6 DEF running
  <2>. QED BY <1>5, <2>1 DEF ToSet
<1>. QED BY <1>5, <1>6 DEF ToSet

\* A worker neither starts by itself nor comes back.
LEMMA ProcessSteps ==
    ASSUME Tables, NEW p \in Processes, Worker(p) \/ Hang(p) \/ Crash(p)
    PROVE  \A q \in Processes : /\ proc'[q] = "off" <=> proc[q] = "off"
                                /\ proc[q] = "ended" => proc'[q] = "ended"
<1>. USE DEF Tables
<1>1. CASE Boot(p) \/ Hang(p)
  BY <1>1 DEF Boot, Hang, Serves
<1>2. CASE SessionOver(p) \/ Obey(p) \/ Crash(p)
  BY <1>2 DEF SessionOver, Obey, Crash, Ends, Serves
<1>. QED BY <1>1, <1>2 DEF Worker, Accept, Handshake, Serve, HasAsset, PutCheck, PutReplace,
  Resolve,
  LoadAndCreate, procVars

\* Initially: nothing was launched.
LEMMA LaunchInit == Init => LaunchInv
<1>. SUFFICES ASSUME Init PROVE LaunchInv
  OBVIOUS
<1>1. /\ Len(Launches) \in Nat /\ todo = SubSeq(Launches, 0 + 1, Len(Launches))
  BY LaunchesAssumption DEF Init
<1>2. LaunchedBy(0)
  <2>1. \A i \in DOMAIN Launches : Contains(Launches, Launches[i]) /\ Launches[i] \in Processes
    BY LaunchesAssumption DEF Contains
  <2>. QED BY <2>1, LaunchesAssumption DEF Init, LaunchedBy
<1>. QED BY <1>1, <1>2 DEF Init, LaunchInv, Opened

\* Every step keeps the started processes in the list to be reaped.
LEMMA LaunchStep == Tables /\ CreationInv /\ SocketInv /\ LaunchInv /\ [Next]_vars => LaunchInv'
<1>. SUFFICES ASSUME Tables, CreationInv, SocketInv, LaunchInv, [Next]_vars PROVE LaunchInv'
  OBVIOUS
<1>0. /\ Launches \in Seq(Processes) /\ ToSet(Launches) \subseteq Processes /\ Len(Launches) \in Nat
      /\ DOMAIN Launches = 1..Len(Launches)
  BY LaunchesAssumption DEF ToSet
<1>. DEFINE Left(s) == \A p \in ToSet(Launches) : Over(p) \/ p \in ToSet(s)
<1>1. ASSUME NEW k \in 0..Len(Launches), LaunchedBy(k), UNCHANGED <<proc, signal>>, pc' = "reap",
             todo' \in {Started, Reverse(Started)}
      PROVE  LaunchInv'
  <2>1. /\ Started \in Seq(ToSet(Launches))
        /\ \A p \in ToSet(Launches) : proc[p] # "off" => p \in ToSet(Started)
    BY <1>1, StartedLaunches
  <2>2. Started \in Seq(ToSet(Started))
    BY <2>1 DEF ToSet
  <2>3. Reverse(Started) \in Seq(ToSet(Launches)) /\ ToSet(Reverse(Started)) = ToSet(Started)
    <3>1. ToSet(Started) \subseteq ToSet(Launches)
      BY <2>1 DEF ToSet
    <3>2. /\ Reverse(Started) \in Seq(ToSet(Reverse(Started)))
          /\ ToSet(Reverse(Started)) = ToSet(Started)
      BY <2>2, OwnReverse
    <3>. QED BY <3>1, <3>2
  <2>4. todo' \in Seq(ToSet(Launches)) /\ ToSet(todo') = ToSet(Started)
    BY <1>1, <2>1, <2>3
  <2>. QED BY <1>1, <2>1, <2>4 DEF LaunchInv, Over, Opened
<1>2. CASE Spawn
  <2>1. PICK k \in 0..Len(Launches) : todo = SubSeq(Launches, k + 1, Len(Launches)) /\ LaunchedBy(k)
    BY <1>2 DEF Spawn, LaunchInv
  <2>2. CASE Fail /\ UNCHANGED proc
    BY <1>1, <1>2, <2>1, <2>2 DEF Spawn, Fail, Enter
  <2>3. CASE proc' = [proc EXCEPT ![Head(todo)] = "booting"] /\ UNCHANGED <<pc, todo>>
    <3>1. k + 1 \in DOMAIN Launches /\ Head(todo) = Launches[k + 1]
      BY <1>0, <1>2, <2>1 DEF Spawn
    <3>2. LaunchedBy(k)'
      <4>1. \A i \in DOMAIN Launches : i # k + 1 => Launches[i] # Head(todo)
        BY <3>1, LaunchesAssumption DEF IsInjective
      <4>. QED BY <1>0, <2>1, <2>3, <3>1, <4>1 DEF LaunchedBy, Tables
    <3>. QED BY <1>2, <2>1, <2>3, <3>2 DEF Spawn, LaunchInv, Opened
  <2>. QED BY <1>2, <2>2, <2>3 DEF Spawn
<1>3. CASE WaitReadiness
  <2>1. PICK k \in 0..Len(Launches) : todo = SubSeq(Launches, k + 1, Len(Launches)) /\ LaunchedBy(k)
    BY <1>3 DEF WaitReadiness, LaunchInv
  <2>2. CASE Fail
    BY <1>1, <1>3, <2>1, <2>2 DEF WaitReadiness, Fail, Enter, procVars
  <2>3. CASE GoOn /\ proc[Head(todo)] # "off"
    <3>1. /\ k + 1 \in 0..Len(Launches) /\ Head(todo) = Launches[k + 1]
          /\ Tail(todo) = SubSeq(Launches, (k + 1) + 1, Len(Launches))
      BY <1>0, <1>3, <2>1 DEF WaitReadiness
    <3>2. LaunchedBy(k + 1)
      BY <1>0, <2>1, <2>3, <3>1 DEF LaunchedBy
    <3>3. LaunchedBy(k + 1)'
      BY <1>3, <3>2 DEF WaitReadiness, LaunchedBy, procVars
    <3>. QED BY <1>3, <2>3, <3>1, <3>3 DEF WaitReadiness, LaunchInv, GoOn, Enter, Opened
  <2>. QED BY <1>3, <2>2, <2>3 DEF WaitReadiness
<1>4. CASE RunGraph
  <2>1. PICK k \in 0..Len(Launches) : todo = SubSeq(Launches, k + 1, Len(Launches)) /\ LaunchedBy(k)
    BY <1>4 DEF RunGraph, LaunchInv
  <2>2. LaunchedBy(Len(Launches))
    <3>1. k \in Int /\ k <= Len(Launches)
      BY <1>0, <2>1
    <3>2. ~(k < Len(Launches))
      <4>. SUFFICES ASSUME k < Len(Launches) PROVE FALSE
        OBVIOUS
      <4>1. SubSeq(Launches, k + 1, Len(Launches)) # <<>>
        BY <1>0, <2>1, Suffix
      <4>. QED BY <1>4, <2>1, <4>1 DEF RunGraph
    <3>. QED BY <1>0, <2>1, <3>1, <3>2 DEF LaunchedBy
  <2>3. UNCHANGED <<proc, signal>>
    BY <1>4 DEF RunGraph, procVars
  <2>4. CASE Enter("connect", UsedWorkers)
    BY <2>2, <2>3, <2>4 DEF Enter, LaunchInv, LaunchedBy, Opened
  <2>5. CASE Enter("reap", Started)
    BY <1>1, <2>1, <2>3, <2>5 DEF Enter
  <2>. QED BY <1>4, <2>4, <2>5 DEF RunGraph
<1>5. ASSUME UNCHANGED <<proc, signal>>, pc \in Opened \cup {"disconnect"},
             pc' \in Opened \cup {"disconnect"}
      PROVE  LaunchInv'
  BY <1>5 DEF LaunchInv, LaunchedBy, Opened
<1>6. CASE Dial \/ CreateNode \/ AdvanceNode \/ CloseNode \/ Disconnect \/ Interrupt
  <2>1. UNCHANGED <<proc, signal>>
    BY <1>6 DEF Dial, CreateNode, AdvanceNode, CloseNode, Disconnect, Interrupt, procVars
  <2>2. pc \in Opened \cup {"disconnect"} /\ pc' \in Opened \cup {"disconnect"}
    BY <1>6 DEF Dial, CreateNode, AdvanceNode, CloseNode, Disconnect, Interrupt, Fail, GoOn,
      Enter, Opened
  <2>. QED BY <1>5, <2>1, <2>2
<1>7. CASE Stage \/ Returns \/ Raises \/ ConnectionLost \/ HandshakeTimeout
  <2>1. UNCHANGED <<proc, signal>>
    BY <1>7 DEF Stage, Returns, Raises, ConnectionLost, HandshakeTimeout, Disconnected, procVars
  <2>2. pc \in Opened
    BY <1>7 DEF Stage, Returns, Raises, ConnectionLost, HandshakeTimeout, SocketInv, Idle
  <2>3. pc' \in Opened \cup {"disconnect"}
    BY <1>7, <2>2 DEF Stage, Returns, Raises, ConnectionLost, HandshakeTimeout, Disconnected,
      Fail, GoOn, Enter, Opened
  <2>. QED BY <1>5, <2>1, <2>2, <2>3
<1>8. CASE PhaseOver
  <2>1. UNCHANGED <<proc, signal>> /\ todo = <<>>
    BY <1>8 DEF PhaseOver, procVars
  <2>2. CASE pc \in Opened
    BY <1>5, <1>8, <2>1, <2>2 DEF PhaseOver, Enter, Opened
  <2>3. CASE pc = "disconnect"
    BY <1>0, <1>1, <1>8, <2>1, <2>3 DEF PhaseOver, Enter, LaunchInv
  <2>4. CASE pc = "reap"
    <3>1. pc' = "done" /\ \A p \in ToSet(Launches) : Over(p)
      BY <1>8, <2>1, <2>4 DEF PhaseOver, Enter, LaunchInv, ToSet
    <3>. QED BY <2>1, <3>1 DEF LaunchInv, Over, Opened
  <2>. QED BY <1>8, <2>2, <2>3, <2>4 DEF PhaseOver, Opened
<1>9. CASE Reap
  <2>1. /\ pc = "reap" /\ pc' = "reap" /\ todo # <<>> /\ proc' = proc
        /\ todo \in Seq(ToSet(Launches)) /\ Left(todo)
    BY <1>9 DEF Reap, GoOn, Enter, LaunchInv
  <2>2. CASE /\ proc[Head(todo)] = "ended" \/ signal[Head(todo)] = "given up"
             /\ GoOn /\ UNCHANGED signal
    <3>1. todo' = Tail(todo) /\ Tail(todo) \in Seq(ToSet(Launches))
      <4>1. todo' = Tail(todo)
        BY <2>2 DEF GoOn, Enter
      <4>2. Tail(todo) \in Seq(ToSet(Launches))
        BY <2>1
      <4>. QED BY <4>1, <4>2
    <3>2. ToSet(todo) = ToSet(Tail(todo)) \cup {Head(todo)}
      <4>1. todo \in Seq(ToSet(todo))
        BY <2>1 DEF ToSet
      <4>. QED BY <2>1, <4>1, OwnTail
    <3>. QED BY <2>1, <2>2, <3>1, <3>2 DEF LaunchInv, Over, Opened
  <2>3. CASE /\ ~(proc[Head(todo)] = "ended" \/ signal[Head(todo)] = "given up")
             /\ signal' = [signal EXCEPT ![Head(todo)] = After(@)] /\ UNCHANGED <<pc, todo>>
    <3>1. \A p \in ToSet(Launches) : Over(p) => Over(p)'
      BY <1>0, <2>1, <2>3 DEF Over, Tables
    <3>. QED BY <2>1, <2>3, <3>1 DEF LaunchInv, Opened
  <2>. QED BY <1>9, <2>2, <2>3 DEF Reap
<1>10. ASSUME NEW p \in Processes, Worker(p) \/ Hang(p) \/ Crash(p)
       PROVE  LaunchInv'
  <2>1. UNCHANGED <<pc, todo, signal>>
    BY <1>10, WorkerSteps
  <2>2. \A q \in ToSet(Launches) : (proc'[q] = "off" <=> proc[q] = "off") /\ (Over(q) => Over(q)')
    BY <1>0, <1>10, <2>1, ProcessSteps DEF Over
  <2>3. ASSUME NEW k, LaunchedBy(k) PROVE LaunchedBy(k)'
    BY <2>2, <2>3 DEF LaunchedBy, ToSet
  <2>. QED BY <2>1, <2>2, <2>3 DEF LaunchInv
<1>11. CASE \/ Done \/ UNCHANGED vars \/ EditSource
           \/ (\E r \in Roots, d \in Contents : OtherPut(r, d) \/ Damage(r, d))
  <2>1. UNCHANGED <<pc, todo, proc, signal>>
    BY <1>11 DEF Done, vars, EditSource, OtherPut, Damage, coordVars, procVars
  <2>. QED BY <2>1 DEF LaunchInv, LaunchedBy, Over
<1>. QED BY <1>2, <1>3, <1>4, <1>6, <1>7, <1>8, <1>9, <1>10, <1>11 DEF Next, Coordinator

\* NothingLeft, for every plan, failure, crash and interrupt.
THEOREM NothingLeftBehind == Spec => []NothingLeft
<1>. DEFINE Inv == Tables /\ CreationInv /\ SocketInv /\ LaunchInv
<1>1. Init => Inv
  <2>1. Init => SocketInv
    BY DEF Init, SocketInv, Opened, Idle
  <2>. QED BY <2>1, TablesInit, CreationInit, LaunchInit
<1>2. Inv /\ [Next]_vars => Inv'
  BY TablesStep, CreationStep, SocketStep, LaunchStep
<1>3. Inv => NothingLeft
  BY DEF NothingLeft, SocketInv, LaunchInv, Opened
<1>. QED BY <1>1, <1>2, <1>3, PTL DEF Spec
=============================================================================
