-------------------------------- MODULE MERun --------------------------------
(***************************************************************************)
(* One run of a single Model Exchange FMU: ModelExchangeRunner.run, the    *)
(* ModelExchangeCheckpointCoordinator that orders the events between two   *)
(* checkpoints, the modes of FmpyFmi2ModelExchangeSession and the CVode    *)
(* adapter, beside a thread that may request a stop at any moment.         *)
(*                                                                         *)
(* Time is an absolute integer; two times closer than the tolerance of the *)
(* code are one.  The FMU and CVode are external: at every call the FMU    *)
(* may ask for any event and CVode may find a root anywhere on its way.    *)
(***************************************************************************)
EXTENDS Integers, Sequences, SequencesExt, FiniteSetsExt

CONSTANTS
    Configs,        \* validated configurations the run may be given
    CycleLimit,     \* _MAX_EVENT_CYCLES_PER_CHECKPOINT
    IterationLimit  \* _MAX_ME_DISCRETE_ITERATIONS

\* A configuration that validation accepts: `interval` is output_interval,
\* `chunk` result_chunk_size (0 without on_result_chunk), `completes` whether
\* the FMU needs completedIntegratorStep.
Validated(c) ==
    /\ c.start \in Int /\ c.step \in Nat \ {0} /\ c.stop \in Int /\ c.start < c.stop
    /\ c.interval \in Nat \ {0} /\ c.interval % c.step = 0
    /\ c.schedule \in Seq(Int) /\ c.chunk \in Nat /\ c.completes \in BOOLEAN
    /\ \A i \in 1..Len(c.schedule) :
          /\ c.start <= c.schedule[i] /\ c.schedule[i] < c.stop
          /\ (c.schedule[i] - c.start) % c.step = 0
    /\ \A i \in 1..Len(c.schedule) - 1 : c.schedule[i] < c.schedule[i + 1]

ASSUME ConfigsAssumption == \A c \in Configs : Validated(c)
ASSUME LimitsAssumption == {CycleLimit, IterationLimit} \subseteq Nat \ {0}

VARIABLES
    cfg,         \* the configuration of this run
    pc,          \* the point of the run the calling thread is at
    now,         \* current_time
    steps,       \* completed_steps
    cycles,      \* event_cycles of this checkpoint
    iterations,  \* discrete iterations of this event
    nextEvent,   \* _next_time_event as a set of at most one time
    applied,     \* when each scheduled update was given to the session
    cause,       \* what makes the current event more than a time event
    changed,     \* states_changed or nominals_changed
    result,      \* how advance_to returned
    session,     \* the mode of the session
    solver,      \* the state of the solver adapter
    released,    \* the release calls of the cleanup, in order
    samples,     \* _ResultAccumulator._timestamps
    pending,     \* _ResultAccumulator._pending_time
    chunks,      \* chunks given to on_result_chunk
    stop,        \* RunControl._stop_event
    stopped,     \* run()'s local `stopped`
    primary,     \* "error", "interrupt" or "none": what ended the try block
    failed,      \* the cleanup raised
    terminal,    \* the terminal progress report was made
    outcome,     \* how run() ended
    inSync,      \* auxiliary: the solver knows the states and inputs of the FMU
    late         \* auxiliary: integrations and events begun after the request

timeVars == <<now, steps, cycles>>
eventVars == <<iterations, nextEvent, applied, cause, changed>>
sessionVars == <<session, solver, inSync>>
accumulatorVars == <<samples, pending, chunks>>
endVars == <<released, failed, terminal, outcome>>
vars == <<cfg, pc, timeVars, eventVars, result, sessionVars, accumulatorVars, stop,
          stopped, primary, endVars, late>>

-----------------------------------------------------------------------------
(* Times. *)

ConfiguredTarget == cfg.start + (steps + 1) * cfg.step
Checkpoint == IF ConfiguredTarget < cfg.stop THEN ConfiguredTarget ELSE cfg.stop

NextInputs == IF Len(applied) < Len(cfg.schedule)
              THEN {cfg.schedule[Len(applied) + 1]} ELSE {}
InputDue == now \in NextInputs
TimeDue == now \in nextEvent

\* `self._next_time_event or math.inf`: a time event at 0.0 counts as none.
TargetPastTimeEvents == Min({Checkpoint} \union NextInputs)
Target == Min({Checkpoint} \union NextInputs \union (nextEvent \ {0}))

\* What the FMU may report as its next time event, a past time included.
PossibleEvents == {{}} \union {{t} : t \in now - 1..cfg.stop}

Raise(what) == primary' = what /\ pc' = "terminate"

Init ==
    /\ cfg \in Configs
    /\ pc = "create" /\ now = cfg.start /\ steps = 0 /\ cycles = 0
    /\ iterations = 0 /\ nextEvent = {} /\ applied = <<>>
    /\ cause = FALSE /\ changed = FALSE /\ result = "none"
    /\ session = "none" /\ solver = "none" /\ inSync = FALSE
    /\ samples = <<>> /\ pending = <<>> /\ chunks = <<>>
    /\ stop = FALSE /\ stopped = FALSE /\ primary = "none"
    /\ released = <<>> /\ failed = FALSE /\ terminal = FALSE /\ outcome = "none"
    /\ late = 0

-----------------------------------------------------------------------------
(* The modes of the session and the solver's copy of its state. *)

InContinuousTimeMode == session = "continuous"
InEventMode == session = "event"
Initialized == session \in {"initialized", "continuous", "event"}
EnterEventMode == Initialized /\ session' = "event"
EnterContinuousTimeMode == Initialized /\ session' = "continuous"

\* While it integrates, the solver sets the time and the states of the FMU and reads
\* its derivatives and indicators; any of these calls may fail.
EvaluationFails == InContinuousTimeMode /\ Raise("error")

\* reset() reads the states and nominals of the FMU again.
SolverKnows(reset) == inSync' = (inSync \/ reset)

-----------------------------------------------------------------------------
(* Opening the session, and its first result. *)

\* open() releases the instance and the directory itself when it fails.
Create ==
    /\ pc = "create"
    /\ \/ session' = "open" /\ pc' = "initialize" /\ UNCHANGED primary
       \/ Raise("error") /\ UNCHANGED session
    /\ UNCHANGED <<cfg, timeVars, eventVars, result, solver, inSync, accumulatorVars,
                   stop, stopped, endVars, late>>

\* The first discrete iteration may ask for the end of the run; entering
\* Continuous-Time Mode may fail when the session counts as initialized.
Initialize ==
    /\ pc = "initialize"
    /\ \/ \E e \in PossibleEvents :
            /\ nextEvent' = e /\ session' = "continuous" /\ pc' = "firstSample"
            /\ UNCHANGED <<result, primary>>
       \/ /\ session' = "initialized" /\ result' = "terminate" /\ pc' = "firstSample"
          /\ UNCHANGED <<nextEvent, primary>>
       \/ /\ session' \in {"open", "event"} /\ Raise("error")
          /\ UNCHANGED <<nextEvent, result>>
    /\ UNCHANGED <<cfg, timeVars, iterations, applied, cause, changed, solver, inSync,
                   accumulatorVars, stop, stopped, endVars, late>>

\* _ResultAccumulator.record_sample: a full chunk goes before the sample.
ChunkIsFull == cfg.chunk > 0 /\ Len(pending) = cfg.chunk
Delivered(final) == Append(chunks, [time |-> pending, final |-> final])
PendingWith(t) == IF cfg.chunk = 0 THEN <<>>
                  ELSE IF ChunkIsFull THEN <<t>> ELSE Append(pending, t)

Recorded(next) ==
    \/ /\ samples' = Append(samples, now) /\ pending' = PendingWith(now)
       /\ chunks' = IF ChunkIsFull THEN Delivered(FALSE) ELSE chunks
       /\ pc' = next /\ UNCHANGED primary
    \/ Raise("error") /\ UNCHANGED accumulatorVars
    \/ /\ ChunkIsFull /\ chunks' = Delivered(FALSE)
       /\ Raise("error") /\ UNCHANGED <<samples, pending>>

FirstSample ==
    /\ pc = "firstSample" /\ Recorded("firstReport")
    /\ UNCHANGED <<cfg, timeVars, eventVars, result, sessionVars, stop, stopped, endVars,
                   late>>

\* A run that ends at its initialization gets no solver.
FirstReport ==
    /\ pc = "firstReport"
    /\ \/ /\ pc' = IF result = "terminate" THEN "finalSample" ELSE "solver"
          /\ UNCHANGED primary
       \/ Raise("error")
    /\ UNCHANGED <<cfg, timeVars, eventVars, result, sessionVars, accumulatorVars, stop,
                   stopped, endVars, late>>

\* initialize() of the adapter closes what it has made when it fails.
OpenSolver ==
    /\ pc = "solver"
    /\ \/ solver' = "ready" /\ inSync' = TRUE /\ pc' = "top" /\ UNCHANGED primary
       \/ solver' \in {"none", "closed"} /\ Raise("error") /\ UNCHANGED inSync
    /\ UNCHANGED <<cfg, timeVars, eventVars, result, session, accumulatorVars, stop,
                   stopped, endVars, late>>

-----------------------------------------------------------------------------
(* The runner's loop over the checkpoints. *)

Top ==
    /\ pc = "top"
    /\ cycles' = 0
    /\ stopped' = (now < cfg.stop /\ stop)
    /\ pc' = IF now < cfg.stop /\ ~stop THEN "advance" ELSE "finalSample"
    /\ UNCHANGED <<cfg, now, steps, eventVars, result, sessionVars, accumulatorVars, stop,
                   primary, endVars, late>>

IsSampleTime == now > cfg.start /\ (now - cfg.start) % cfg.interval = 0

StepsAfterEveryReturn == steps + 1
StepsAfter == IF result \in {"checkpoint", "checkpointStop"} THEN steps + 1 ELSE steps

Returned ==
    /\ pc = "returned"
    /\ steps' = StepsAfter
    /\ pc' = IF result \in {"checkpoint", "checkpointStop"} /\ IsSampleTime
             THEN "sample" ELSE "report"
    /\ UNCHANGED <<cfg, now, cycles, eventVars, result, sessionVars, accumulatorVars, stop,
                   stopped, primary, endVars, late>>

Sample ==
    /\ pc = "sample" /\ Recorded("report")
    /\ UNCHANGED <<cfg, timeVars, eventVars, result, sessionVars, stop, stopped, endVars,
                   late>>

Report ==
    /\ pc = "report"
    /\ \/ pc' = "decide" /\ UNCHANGED primary
       \/ Raise("error")
    /\ UNCHANGED <<cfg, timeVars, eventVars, result, sessionVars, accumulatorVars, stop,
                   stopped, endVars, late>>

\* A termination the FMU asked for comes before a stop.
Decide ==
    /\ pc = "decide"
    /\ IF result = "terminate" THEN pc' = "finalSample" /\ UNCHANGED stopped
       ELSE /\ stopped' = (stop \/ result \in {"stop", "checkpointStop"})
            /\ pc' = IF stopped' THEN "finalSample" ELSE "top"
    /\ UNCHANGED <<cfg, timeVars, eventVars, result, sessionVars, accumulatorVars, stop,
                   primary, endVars, late>>

-----------------------------------------------------------------------------
(* ModelExchangeCheckpointCoordinator.advance_to. *)

Return(how) == result' = how /\ pc' = "returned"

ObservesStopAtCheckpoint == stop /\ now = cfg.start + steps * cfg.step
ObservesStop == stop

NextCycleOfSolver == IF InputDue \/ TimeDue THEN cycles ELSE cycles + 1
NextCycle == cycles + 1

\* The head of the loop.  Its second look at the stop flag, before the solver
\* is called, is one with the first: nothing happens in between.
Advance ==
    /\ pc = "advance"
    /\ IF now = Checkpoint
       THEN Return("checkpoint") /\ UNCHANGED <<cycles, iterations, cause, changed, primary>>
       ELSE IF ObservesStop
       THEN Return("stop") /\ UNCHANGED <<cycles, iterations, cause, changed, primary>>
       ELSE /\ cycles' = NextCycle
            /\ UNCHANGED result
            /\ IF cycles' > CycleLimit
               THEN Raise("error") /\ UNCHANGED <<iterations, cause, changed>>
               ELSE IF InputDue \/ TimeDue
               THEN /\ pc' = "event" /\ cause' = InputDue /\ changed' = FALSE
                    /\ iterations' = 0 /\ UNCHANGED primary
               ELSE pc' = "integrate" /\ UNCHANGED <<iterations, cause, changed, primary>>
    /\ UNCHANGED <<cfg, now, steps, nextEvent, applied, sessionVars, accumulatorVars, stop,
                   stopped, endVars, late>>

\* integrate_to, then completedIntegratorStep if time has moved and the FMU
\* needs it, which may ask for Event Mode or for the end.  CVode refuses a target
\* before its own time.
Begun == late' = IF stop THEN late + 1 ELSE late

Arrive(t, root) ==
    LET advanced == t > now IN
    /\ now' = t
    /\ \E integrator \in {FALSE, advanced /\ cfg.completes} :
         LET due == t \in NextInputs \/ t \in nextEvent IN
         \/ /\ root \/ integrator \/ due
            /\ pc' = "event" /\ iterations' = 0 /\ changed' = FALSE
            /\ cause' = (root \/ integrator \/ t \in NextInputs)
            /\ UNCHANGED <<result, primary>>
         \/ /\ ~(root \/ integrator \/ due)
            /\ IF advanced THEN pc' = "advance" /\ UNCHANGED primary ELSE Raise("error")
            /\ UNCHANGED <<iterations, changed, cause, result>>
         \/ /\ advanced /\ cfg.completes /\ Return("terminate")
            /\ UNCHANGED <<iterations, changed, cause, primary>>

Integrate ==
    /\ pc = "integrate" /\ InContinuousTimeMode /\ solver = "ready"
    /\ Begun
    /\ \/ EvaluationFails /\ UNCHANGED <<now, iterations, changed, cause, result>>
       \/ now <= Target /\ Arrive(Target, FALSE)
       \/ \E t \in now..Target : Arrive(t, TRUE)
    /\ UNCHANGED <<cfg, steps, cycles, nextEvent, applied, sessionVars, accumulatorVars,
                   stop, stopped, endVars>>

-----------------------------------------------------------------------------
(* _handle_event. *)

\* set_inputs, the next index and enter_event_mode: a failure may come before or
\* after the inputs are set.
InputConsumed == IF InputDue THEN Append(applied, now) ELSE applied

EnterEvent ==
    /\ pc = "event"
    /\ Begun
    /\ \/ /\ applied' = InputConsumed /\ EnterEventMode /\ pc' = "update"
          /\ inSync' = (inSync /\ ~cause) /\ UNCHANGED primary
       \/ applied' \in {applied, InputConsumed} /\ Raise("error") /\ UNCHANGED <<session, inSync>>
    /\ UNCHANGED <<cfg, timeVars, iterations, nextEvent, cause, changed, result, solver,
                   accumulatorVars, stop, stopped, endVars>>

\* update_discrete_states until the FMU is satisfied.  One update in the loop is
\* enough to have changed the states; the next time event is that of the last.
AccumulateLast(c) == c
Accumulate(c) == changed \/ c

Update ==
    /\ pc = "update" /\ InEventMode
    /\ \/ Raise("error") /\ UNCHANGED <<iterations, changed, nextEvent, result, inSync>>
       \/ \E c \in BOOLEAN :
            /\ iterations' = iterations + 1
            /\ changed' = Accumulate(c)
            /\ inSync' = (inSync /\ ~c)
            /\ \/ Return("terminate") /\ UNCHANGED <<nextEvent, primary>>
               \/ /\ IF iterations' < IterationLimit THEN pc' = "update" /\ UNCHANGED primary
                                                     ELSE Raise("error")
                  /\ UNCHANGED <<nextEvent, result>>
               \/ \E e \in PossibleEvents :
                    /\ nextEvent' = e
                    /\ IF \E t \in e : t < now THEN Raise("error")
                       ELSE pc' = "leave" /\ UNCHANGED primary
                    /\ UNCHANGED result
    /\ UNCHANGED <<cfg, timeVars, applied, cause, session, solver, accumulatorVars, stop,
                   stopped, endVars, late>>

\* enter_continuous_time_mode, then reset() of the solver if it has a reason:
\* none after a time event that changed nothing.
NeedsReset == changed \/ cause

AfterEvent ==
    IF ObservesStop THEN Return(IF now = Checkpoint THEN "checkpointStop" ELSE "stop")
            ELSE pc' = "advance" /\ UNCHANGED result

LeaveEvent ==
    /\ pc = "leave" /\ InEventMode
    /\ \/ /\ EnterContinuousTimeMode /\ SolverKnows(NeedsReset)
          /\ AfterEvent /\ UNCHANGED primary
       \/ /\ session' \in {"event", "continuous"}
          /\ Raise("error") /\ UNCHANGED <<inSync, result>>
    /\ UNCHANGED <<cfg, timeVars, eventVars, solver, accumulatorVars, stop, stopped,
                   endVars, late>>

-----------------------------------------------------------------------------
(* The end of the try block, and the cleanup. *)

NeedsFinalSampleNever == FALSE
NeedsFinalSample == samples[Len(samples)] # now

FinalSample ==
    /\ pc = "finalSample"
    /\ IF NeedsFinalSample THEN Recorded("terminate")
       ELSE pc' = "terminate" /\ UNCHANGED <<accumulatorVars, primary>>
    /\ UNCHANGED <<cfg, timeVars, eventVars, result, sessionVars, stop, stopped, endVars,
                   late>>

\* Each release is tried whatever the one before it raised, an interrupt included.
AfterTerminateRaisedSkips == "close"
AfterTerminateRaised == "closeSolver"

Terminate ==
    /\ pc = "terminate"
    /\ released' = IF session = "none" THEN released ELSE Append(released, "terminate")
    /\ \/ /\ session' = IF Initialized THEN "terminated" ELSE session
          /\ pc' = "closeSolver" /\ UNCHANGED failed
       \/ Initialized /\ failed' = TRUE /\ pc' = AfterTerminateRaised /\ UNCHANGED session
    /\ UNCHANGED <<cfg, timeVars, eventVars, result, solver, inSync, accumulatorVars, stop,
                   stopped, primary, terminal, outcome, late>>

CloseSolver ==
    /\ pc = "closeSolver" /\ pc' = "close"
    /\ IF solver = "none" THEN UNCHANGED <<solver, released, failed>>
       ELSE /\ solver' = "closed" /\ released' = Append(released, "solver")
            /\ failed' \in {failed, TRUE}
    /\ UNCHANGED <<cfg, timeVars, eventVars, result, session, inSync, accumulatorVars, stop,
                   stopped, primary, terminal, outcome, late>>

CloseSession ==
    /\ pc = "close" /\ pc' = "finish"
    /\ IF session = "none" THEN UNCHANGED <<session, released, failed>>
       ELSE /\ session' = "closed" /\ released' = Append(released, "session")
            /\ failed' \in {failed, TRUE}
    /\ UNCHANGED <<cfg, timeVars, eventVars, result, solver, inSync, accumulatorVars, stop,
                   stopped, primary, terminal, outcome, late>>

\* A cleanup error replaces an interrupt and joins any other error.
Finish ==
    /\ pc = "finish"
    /\ IF primary = "none" /\ ~failed THEN pc' = "finalChunk" /\ UNCHANGED outcome
       ELSE /\ pc' = "done"
            /\ outcome' = IF primary = "interrupt" /\ ~failed THEN "INTERRUPTED" ELSE "FAILED"
    /\ UNCHANGED <<cfg, timeVars, eventVars, result, sessionVars, accumulatorVars, stop,
                   stopped, primary, released, failed, terminal, late>>

FinalChunk ==
    /\ pc = "finalChunk"
    /\ chunks' = IF pending = <<>> THEN chunks ELSE Delivered(TRUE)
    /\ \/ pending' = <<>> /\ pc' = "finalReport" /\ UNCHANGED <<primary, outcome>>
       \/ /\ pending # <<>> /\ UNCHANGED pending
          /\ primary' = "error" /\ outcome' = "FAILED" /\ pc' = "done"
    /\ UNCHANGED <<cfg, timeVars, eventVars, result, sessionVars, samples, stop, stopped,
                   released, failed, terminal, late>>

FinalReport ==
    /\ pc = "finalReport" /\ pc' = "done"
    /\ \/ /\ terminal' = TRUE /\ UNCHANGED primary
          /\ outcome' = IF stopped THEN "STOPPED" ELSE "COMPLETED"
       \/ primary' = "error" /\ outcome' = "FAILED" /\ UNCHANGED terminal
    /\ UNCHANGED <<cfg, timeVars, eventVars, result, sessionVars, accumulatorVars, stop,
                   stopped, released, failed, late>>

\* An interrupt in the try block goes through the cleanup; inside a call of the
\* cleanup it is that call's failure; after the cleanup it leaves run() at once.
AfterCleanup == {"finish", "finalChunk", "finalReport"}
Interrupt ==
    /\ pc \notin {"terminate", "closeSolver", "close", "done"}
    /\ IF pc \in AfterCleanup
       THEN primary' = "interrupt" /\ outcome' = "INTERRUPTED" /\ pc' = "done"
       ELSE Raise("interrupt") /\ UNCHANGED outcome
    /\ UNCHANGED <<cfg, timeVars, eventVars, result, sessionVars, accumulatorVars, stop,
                   stopped, released, failed, terminal, late>>

\* The other thread: RunControl.request_stop.
RequestStop ==
    /\ ~stop /\ stop' = TRUE
    /\ UNCHANGED <<cfg, pc, timeVars, eventVars, result, sessionVars, accumulatorVars,
                   stopped, primary, endVars, late>>

Runner ==
    \/ Create \/ Initialize \/ FirstSample \/ FirstReport \/ OpenSolver
    \/ Top \/ Returned \/ Sample \/ Report \/ Decide
    \/ Advance \/ Integrate \/ EnterEvent \/ Update \/ LeaveEvent
    \/ FinalSample \/ Terminate \/ CloseSolver \/ CloseSession \/ Finish
    \/ FinalChunk \/ FinalReport

Next == Runner \/ Interrupt \/ RequestStop

Spec == Init /\ [][Next]_vars

\* Every call into the FMU, the solver and the callbacks returns or raises.
FairSpec == Spec /\ WF_vars(Runner)

-----------------------------------------------------------------------------
(* Properties. *)

Results == {"COMPLETED", "STOPPED"}

\* No event is late or skipped: time never passes a scheduled update or the time
\* event the FMU has announced, whatever state events and new announcements lie
\* between, and the updates are applied in order.
EventsOnTime ==
    /\ applied = SubSeq(cfg.schedule, 1, Len(applied))
    /\ primary = "none" =>
          \A t \in NextInputs \union nextEvent : t >= cfg.start => now <= t

\* The result: its samples are the initial point, every reached multiple of the
\* output interval and the final time, increasing; completed_steps counts whole
\* checkpoints; COMPLETED means the stop time unless the FMU asked for the end, and
\* STOPPED a request.
IsRecorded(t) == t \in {cfg.start, now} \/ (t - cfg.start) % cfg.interval = 0
ResultExact ==
    outcome \in Results =>
        /\ \A t \in cfg.start..now : IsRecorded(t) <=> t \in Range(samples)
        /\ \A i \in 1..Len(samples) - 1 : samples[i] < samples[i + 1]
        /\ (cfg.start + steps * cfg.step <= now \/ now = cfg.stop)
        /\ now <= Checkpoint
        /\ outcome = "STOPPED" => stop
        /\ outcome = "COMPLETED" => (now = cfg.stop \/ result = "terminate")

\* The solver never integrates from states, nominals or inputs that an event has
\* changed behind its back, however many discrete iterations the event took.
SolverInSync == pc = "integrate" => inSync /\ InContinuousTimeMode

\* Whatever fails or is interrupted, everything that exists is released exactly once
\* and in order: the FMU terminated, the solver closed, the session closed.  Only
\* then, and only without an error, do the final chunk and the terminal report
\* follow.  The chunks delivered so far follow each other through the samples without
\* gap or overlap, each full but the last, and a final chunk ends where they end.
Offset(i) == (i - 1) * cfg.chunk
Segment(i) ==
    /\ chunks[i].time # <<>>
    /\ Offset(i) + Len(chunks[i].time) <= Len(samples)
    /\ \A j \in DOMAIN chunks[i].time : chunks[i].time[j] = samples[Offset(i) + j]
HasFinalChunk == chunks # <<>> /\ chunks[Len(chunks)].final
ReleasedThenStreamed ==
    /\ (outcome # "none" \/ pc \in AfterCleanup) =>
          /\ session \in {"none", "closed"} /\ solver \in {"none", "closed"}
          /\ released = IF session = "none" THEN <<>>
                        ELSE IF solver = "none" THEN <<"terminate", "session">>
                        ELSE <<"terminate", "solver", "session">>
    /\ \A i \in DOMAIN chunks : Segment(i)
    /\ \A i \in 1..Len(chunks) - 1 :
          ~chunks[i].final /\ Len(chunks[i].time) = cfg.chunk
    /\ HasFinalChunk =>
          /\ Offset(Len(chunks)) + Len(chunks[Len(chunks)].time) = Len(samples)
          /\ ~failed /\ Len(released) >= 2
    /\ terminal => (HasFinalChunk \/ cfg.chunk = 0)

\* A stop lets at most one integration and the event it leads to begin.
StopBounded == late <= 2

\* Every run ends, however many events the FMU asks for at one instant.
Terminates == <>(pc = "done")
=============================================================================
