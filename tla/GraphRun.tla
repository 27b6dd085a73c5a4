------------------------------ MODULE GraphRun ------------------------------
(***************************************************************************)
(* One run of a simulation graph: GraphSimulationRunner.run, the           *)
(* SimulationOrchestrator it drives, the DataRouter, the sequential advance *)
(* executor, the bindings factory and the result accumulator, beside a     *)
(* thread that may request a stop at any moment.                           *)
(*                                                                         *)
(* Nodes are numbered in declaration order.  A value is abstracted to the  *)
(* checkpoint it was computed at: time[n] is the checkpoint node n's model *)
(* stands at, snapshot[n] the checkpoint the routed outputs of n belong    *)
(* to, held[c] the checkpoint of the value the target of connection c      *)
(* holds.  Any call into a runtime, a recorded sample or the progress      *)
(* callback may raise an Exception; Interrupt is an exception that `except *)
(* Exception` does not catch.                                              *)
(***************************************************************************)
EXTENDS Integers, Sequences

CONSTANTS N,      \* number of nodes
          Steps,  \* SimulationOrchestrator._total_steps
          Stride, \* _GraphResultAccumulator.sample_stride
          Conns   \* connections: pairs <<source node, target node>>

Nodes == 1..N

ASSUME NAssumption == N \in Nat \ {0}
ASSUME StepsAssumption == Steps \in Nat \ {0}
ASSUME StrideAssumption == Stride \in Nat \ {0}
ASSUME ConnsAssumption == Conns \subseteq Nodes \X Nodes

VARIABLES
    pc,        \* the point of run() the calling thread is at
    idx,       \* the node a loop over the bindings is at
    life,      \* life cycle of each node runtime
    time,      \* checkpoint each node's model stands at
    held,      \* checkpoint of the value held by the target of a connection
    fresh,     \* the outputs read so far for the next snapshot
    snapshot,  \* SimulationOrchestrator._snapshot
    completed, \* SimulationOrchestrator._completed_steps
    samples,   \* _GraphResultAccumulator._times
    reported,  \* last checkpoint given to on_progress, -1 before the first
    stop,      \* RunControl._stop_event
    stopped,   \* run()'s local `stopped`
    primary,   \* the phase of the primary error, "none" without one
    failures,  \* cleanup failures: <<phase, node>>, in order
    outcome,   \* how run() ended
    stopAt     \* auxiliary: `completed` when the stop was requested, -1 before

runVars == <<idx, life, time, held, fresh, snapshot, completed, samples,
             reported, stopped, primary, failures, outcome>>
vars == <<pc, idx, life, time, held, fresh, snapshot, completed, samples,
          reported, stop, stopped, primary, failures, outcome, stopAt>>

-----------------------------------------------------------------------------
(* The alphabet of the state. *)

Calls == {"create", "discard", "initialize", "readInitial", "set", "advance",
          "read", "terminate", "close"}
Points == Calls \union {"entry", "recordInitial", "progress", "check",
                        "route", "record", "flush", "finish", "done"}
Lives == {"absent", "created", "partial", "ready", "terminated", "closed"}
Causes == {"none", "create", "initialize", "readInitial", "route", "set",
           "advance", "read", "record", "progress"}
Results == {"COMPLETED", "STOPPED"}

\* SimulationOrchestrator.is_complete.
IsCompleteEarly == completed >= Steps - 1
IsComplete == completed = Steps

\* A loop over the bindings goes to its next node, or on to `next`.
LoopPastTheEnd(next) ==
    IF idx <= N THEN pc' = pc /\ idx' = idx + 1
                ELSE pc' = next /\ idx' = 1
Loop(next) ==
    IF idx < N THEN pc' = pc /\ idx' = idx + 1
               ELSE pc' = next /\ idx' = 1

\* An exception of the try block becomes the primary error and starts _cleanup.
Raise(cause) == primary' = cause /\ pc' = "terminate" /\ idx' = 1

\* _GraphResultAccumulator.final_time, as a checkpoint.
FinalSample == samples[Len(samples)]

-----------------------------------------------------------------------------
(* Entry and creation of the runtimes. *)

Init ==
    /\ pc = "entry" /\ idx = 1
    /\ life = [n \in Nodes |-> "absent"]
    /\ time = [n \in Nodes |-> 0]
    /\ held = [c \in Conns |-> -1]
    /\ fresh = [n \in Nodes |-> -1]
    /\ snapshot = [n \in Nodes |-> -1]
    /\ completed = 0 /\ samples = <<>> /\ reported = -1
    /\ stop = FALSE /\ stopped = FALSE /\ stopAt = -1
    /\ primary = "none" /\ failures = <<>> /\ outcome = "none"

Enter ==
    /\ pc = "entry"
    /\ IF stop THEN pc' = "done" /\ outcome' = "CANCELLED"
               ELSE pc' = "create" /\ UNCHANGED outcome
    /\ UNCHANGED <<idx, life, time, held, fresh, snapshot, completed, samples,
                   reported, stop, stopped, primary, failures, stopAt>>

\* One turn of GraphRuntimeBindingsFactory._create_bindings.  When it fails the
\* runtimes already created are closed, and run() keeps an empty `bindings`.
Create ==
    /\ pc = "create"
    /\ \/ /\ life' = [life EXCEPT ![idx] = "created"]
          /\ Loop("initialize")
          /\ UNCHANGED primary
       \/ /\ primary' = "create"
          /\ pc' = IF idx = 1 THEN "finish" ELSE "discard"
          /\ idx' = 1
          /\ UNCHANGED life
    /\ UNCHANGED <<time, held, fresh, snapshot, completed, samples, reported,
                   stop, stopped, failures, outcome, stopAt>>

\* The bindings the factory still owns after a failed creation.
Discardable == {n \in Nodes : life[n] = "created"}

\* _close_bindings: closing a runtime that fails still leaves it closed.
Discard ==
    /\ pc = "discard"
    /\ life' = [life EXCEPT ![idx] = "closed"]
    /\ \/ UNCHANGED failures
       \/ failures' = Append(failures, <<"close", idx>>)
    /\ IF Discardable = {idx} THEN pc' = "finish" /\ idx' = 1
                              ELSE pc' = pc /\ idx' = idx + 1
    /\ UNCHANGED <<time, held, fresh, snapshot, completed, samples, reported,
                   stop, stopped, primary, outcome, stopAt>>

-----------------------------------------------------------------------------
(* SimulationOrchestrator.initialize. *)

\* A runtime whose session was initialized before the failure ("partial") is
\* the Model Exchange one whose solver was refused or whose model asked to stop.
Initialize ==
    /\ pc = "initialize"
    /\ \/ /\ life' = [life EXCEPT ![idx] = "ready"]
          /\ Loop("readInitial")
          /\ UNCHANGED primary
       \/ /\ \E left \in {"created", "partial"} :
                life' = [life EXCEPT ![idx] = left]
          /\ Raise("initialize")
    /\ UNCHANGED <<time, held, fresh, snapshot, completed, samples, reported,
                   stop, stopped, failures, outcome, stopAt>>

ReadInitial ==
    /\ pc = "readInitial"
    /\ \/ /\ fresh' = [fresh EXCEPT ![idx] = time[idx]]
          /\ snapshot' = IF idx = N THEN fresh' ELSE snapshot
          /\ Loop("recordInitial")
          /\ UNCHANGED primary
       \/ Raise("readInitial") /\ UNCHANGED <<fresh, snapshot>>
    /\ UNCHANGED <<life, time, held, completed, samples, reported, stop,
                   stopped, failures, outcome, stopAt>>

-----------------------------------------------------------------------------
(* _GraphResultAccumulator.record and the progress callback. *)

RecordInitial ==
    /\ pc = "recordInitial"
    /\ \/ /\ samples' = Append(samples, completed)
          /\ pc' = "progress" /\ UNCHANGED <<idx, primary>>
       \/ Raise("record") /\ UNCHANGED samples
    /\ UNCHANGED <<life, time, held, fresh, snapshot, completed, reported,
                   stop, stopped, failures, outcome, stopAt>>

\* A RUNNING report.  After the first one run() reads the stop flag, after the
\* later ones it goes straight back to the test of its loop.
AfterProgressRechecks == "check"
AfterProgress == IF completed = 0 THEN "check" ELSE "route"

Progress ==
    /\ pc = "progress"
    /\ \/ /\ reported' = completed
          /\ pc' = AfterProgress
          /\ UNCHANGED <<idx, primary>>
       \/ Raise("progress") /\ UNCHANGED reported
    /\ UNCHANGED <<life, time, held, fresh, snapshot, completed, samples,
                   stop, stopped, failures, outcome, stopAt>>

\* The stop flag is read after the first report and after every macro-step.
ObservedStopIgnored == FALSE
ObservedStop == stop

Check ==
    /\ pc = "check"
    /\ stopped' = ObservedStop
    /\ pc' = IF ObservedStop \/ IsComplete THEN "flush"
             ELSE IF completed = 0 THEN "route" ELSE "progress"
    /\ UNCHANGED <<idx, life, time, held, fresh, snapshot, completed, samples,
                   reported, stop, primary, failures, outcome, stopAt>>

-----------------------------------------------------------------------------
(* SimulationOrchestrator.advance_next_checkpoint. *)

\* Routing only computes the values the targets will be given; it raises when
\* the snapshot lacks a connected output.
Route ==
    /\ pc = "route"
    /\ \/ pc' = "set" /\ idx' = 1 /\ UNCHANGED primary
       \/ Raise("route")
    /\ UNCHANGED <<life, time, held, fresh, snapshot, completed, samples,
                   reported, stop, stopped, failures, outcome, stopAt>>

\* DataRouter.route: the value of a source comes from the committed snapshot.
Routed(c) == snapshot[c[1]]

SetInputs ==
    /\ pc = "set"
    /\ \/ /\ held' = [c \in Conns |->
                        IF c[2] = idx THEN Routed(c) ELSE held[c]]
          /\ Loop("advance")
          /\ UNCHANGED primary
       \/ Raise("set") /\ UNCHANGED held
    /\ UNCHANGED <<life, time, fresh, snapshot, completed, samples, reported,
                   stop, stopped, failures, outcome, stopAt>>

AfterAdvanceStops == IF stop THEN pc' = "flush" /\ idx' = 1 ELSE Loop("read")
AfterAdvance == Loop("read")

\* SequentialNodeAdvanceExecutor.advance_all, one node.  An advance that raises
\* may have left the model anywhere between the two checkpoints or at the target.
Advance ==
    /\ pc = "advance"
    /\ \/ /\ time' = [time EXCEPT ![idx] = completed + 1]
          /\ AfterAdvance
          /\ UNCHANGED primary
       \/ /\ time' \in {time, [time EXCEPT ![idx] = completed + 1]}
          /\ Raise("advance")
    /\ UNCHANGED <<life, held, fresh, snapshot, completed, samples, reported,
                   stop, stopped, failures, outcome, stopAt>>

\* The checkpoint is committed with the snapshot once every output was read.
CommitStaleSnapshot ==
    IF idx = N THEN completed' = completed + 1 /\ snapshot' = snapshot
               ELSE UNCHANGED <<completed, snapshot>>
Commit ==
    IF idx = N THEN completed' = completed + 1 /\ snapshot' = fresh'
               ELSE UNCHANGED <<completed, snapshot>>

Read ==
    /\ pc = "read"
    /\ \/ /\ fresh' = [fresh EXCEPT ![idx] = time[idx]]
          /\ Commit
          /\ Loop("record")
          /\ UNCHANGED primary
       \/ Raise("read") /\ UNCHANGED <<fresh, snapshot, completed>>
    /\ UNCHANGED <<life, time, held, samples, reported, stop, stopped,
                   failures, outcome, stopAt>>

\* A committed checkpoint is recorded when it is a multiple of the stride.
Record ==
    /\ pc = "record"
    /\ \/ /\ samples' = IF completed % Stride = 0
                          THEN Append(samples, completed) ELSE samples
          /\ pc' = "check" /\ UNCHANGED <<idx, primary>>
       \/ /\ completed % Stride = 0
          /\ Raise("record") /\ UNCHANGED samples
    /\ UNCHANGED <<life, time, held, fresh, snapshot, completed, reported,
                   stop, stopped, failures, outcome, stopAt>>

\* The checkpoint the run ends at is recorded unless it already is.
NeedsFlushNever == FALSE
NeedsFlush == FinalSample # completed

Flush ==
    /\ pc = "flush"
    /\ \/ /\ samples' = IF NeedsFlush THEN Append(samples, completed)
                                      ELSE samples
          /\ pc' = "terminate" /\ idx' = 1 /\ UNCHANGED primary
       \/ NeedsFlush /\ Raise("record") /\ UNCHANGED samples
    /\ UNCHANGED <<life, time, held, fresh, snapshot, completed, reported,
                   stop, stopped, failures, outcome, stopAt>>

-----------------------------------------------------------------------------
(* GraphSimulationRunner._cleanup and the end of run(). *)

\* A runtime never initialized ignores terminate; one that was is marked
\* terminated before its session is, so a failure is not retried.
AfterTerminateGivesUp ==
    IF failures' # failures THEN pc' = "close" /\ idx' = 1 ELSE Loop("close")
AfterTerminate == Loop("close")

Terminate ==
    /\ pc = "terminate"
    /\ IF life[idx] \in {"ready", "partial"}
         THEN /\ life' = [life EXCEPT ![idx] = "terminated"]
              /\ \/ UNCHANGED failures
                 \/ failures' = Append(failures, <<"terminate", idx>>)
         ELSE UNCHANGED <<life, failures>>
    /\ AfterTerminate
    /\ UNCHANGED <<time, held, fresh, snapshot, completed, samples, reported,
                   stop, stopped, primary, outcome, stopAt>>

\* A failed close does not keep the later nodes from being closed.
AfterCloseGivesUp ==
    IF failures' # failures THEN pc' = "finish" /\ idx' = 1 ELSE Loop("finish")
AfterClose == Loop("finish")

Close ==
    /\ pc = "close"
    /\ life' = [life EXCEPT ![idx] = "closed"]
    /\ \/ UNCHANGED failures
       \/ failures' = Append(failures, <<"close", idx>>)
    /\ AfterClose
    /\ UNCHANGED <<time, held, fresh, snapshot, completed, samples, reported,
                   stop, stopped, primary, outcome, stopAt>>

\* An error, the primary one before any of the cleanup, is raised; without one
\* the final report is made and the result returned, unless the report raises.
Finish ==
    /\ pc = "finish"
    /\ pc' = "done"
    /\ \/ /\ primary # "none" \/ failures # <<>>
          /\ outcome' = "FAILED" /\ UNCHANGED <<reported, primary>>
       \/ /\ primary = "none" /\ failures = <<>>
          /\ outcome' = IF stopped THEN "STOPPED" ELSE "COMPLETED"
          /\ reported' = completed /\ UNCHANGED primary
       \/ /\ primary = "none" /\ failures = <<>>
          /\ outcome' = "FAILED" /\ primary' = "progress"
          /\ UNCHANGED reported
    /\ UNCHANGED <<idx, life, time, held, fresh, snapshot, completed, samples,
                   stop, stopped, failures, stopAt>>

\* An exception that is not an Exception leaves run() from where it is.
Interrupt ==
    /\ pc # "done"
    /\ pc' = "done" /\ outcome' = "INTERRUPTED"
    /\ UNCHANGED <<idx, life, time, held, fresh, snapshot, completed, samples,
                   reported, stop, stopped, primary, failures, stopAt>>

-----------------------------------------------------------------------------
(* The other thread: RunControl.request_stop. *)

RequestStop ==
    /\ ~stop
    /\ stop' = TRUE /\ stopAt' = completed
    /\ UNCHANGED <<pc, runVars>>

Runner ==
    \/ Enter \/ Create \/ Discard \/ Initialize \/ ReadInitial
    \/ RecordInitial \/ Progress \/ Check \/ Route \/ SetInputs \/ Advance
    \/ Read \/ Record \/ Flush \/ Terminate \/ Close \/ Finish

Next == Runner \/ Interrupt \/ RequestStop

Spec == Init /\ [][Next]_vars

\* Every call into a runtime, a codec or the callback returns or raises.
FairSpec == Spec /\ WF_vars(Runner)

-----------------------------------------------------------------------------
(* Properties. *)

\* The state has the types above: control, nodes, and what the run has recorded.
ControlOK ==
    /\ pc \in Points /\ idx \in Nodes
    /\ stop \in BOOLEAN /\ stopped \in BOOLEAN
    /\ primary \in Causes
    /\ outcome \in Results \union {"none", "CANCELLED", "FAILED", "INTERRUPTED"}
NodesOK ==
    /\ life \in [Nodes -> Lives]
    /\ time \in [Nodes -> 0..Steps]
    /\ held \in [Conns -> -1..Steps]
    /\ fresh \in [Nodes -> -1..Steps]
    /\ snapshot \in [Nodes -> -1..Steps]
RecordsOK ==
    /\ completed \in 0..Steps
    /\ samples \in Seq(0..Steps)
    /\ reported \in -1..Steps
    /\ failures \in Seq({"terminate", "close"} \X Nodes)
    /\ stopAt \in -1..Steps
TypeOK == ControlOK /\ NodesOK /\ RecordsOK

\* The run is between two macro-steps, with no error.
AtCheckpoint ==
    pc \in {"recordInitial", "progress", "check", "route", "record", "flush"}

\* The barrier: whenever the run stands at a checkpoint every node stands at it
\* and the snapshot holds exactly its outputs, and while a macro-step is under
\* way no node is behind the checkpoint or more than one step ahead of it.
CheckpointBarrier ==
    /\ AtCheckpoint => \A n \in Nodes : time[n] = completed /\ snapshot[n] = completed
    /\ \A n \in Nodes : time[n] \in {completed, completed + 1}

\* Explicit Jacobi coupling: the macro-step of a node consumes, on each of its
\* connections, the source's output at the checkpoint the step starts from,
\* whichever nodes have already advanced (feedback and self-loops included).
JacobiStep ==
    [][\A n \in Nodes : time'[n] # time[n] =>
          \A c \in Conns : c[2] = n => held[c] = time[n]]_vars

\* A stop lets at most the macro-step under way finish.
StopWithinOneStep ==
    stop => completed <= stopAt + 1

\* A result is a whole checkpoint: the nodes stand at the last committed one,
\* STOPPED needs a request, COMPLETED the last step, and the samples are the
\* initial one, each multiple of the stride and the last checkpoint, once each.
IsRecorded(k) == k % Stride = 0 \/ k = completed
ResultExact ==
    outcome \in Results =>
        /\ \A n \in Nodes : time[n] = completed
        /\ IF stopped THEN stop ELSE completed = Steps
        /\ \A k \in 0..completed :
              IsRecorded(k) <=> \E i \in 1..Len(samples) : samples[i] = k
        /\ \A i \in 1..Len(samples) - 1 : samples[i] < samples[i + 1]

\* Cleanup terminates every initialized runtime before it closes the first.
TerminateAllThenClose ==
    [][\A n \in Nodes : life[n] # "closed" /\ life'[n] = "closed" =>
          \A m \in Nodes : life[m] \notin {"ready", "partial"}]_vars

\* However a run ends, short of an interrupt, and whatever fails on the way, the
\* cleanup included, no runtime stays open.
EveryRuntimeReleased ==
    outcome \notin {"none", "INTERRUPTED"} =>
        \A n \in Nodes : life[n] \in {"absent", "closed"}

\* The run is a GlobalCheckpoint run.
Checkpoints == INSTANCE GlobalCheckpoint WITH
    live <- {n \in Nodes : life[n] \notin {"absent", "closed"}},
    committed <- completed
ImplementsGlobalCheckpoint == Checkpoints!Spec

\* Every run ends, whichever calls fail.
Terminates == <>(pc = "done")
=============================================================================
