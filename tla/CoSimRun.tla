------------------------------ MODULE CoSimRun ------------------------------
(***************************************************************************)
(* One run of a single Co-Simulation FMU: CoSimulationRunner.run, the      *)
(* _ResultAccumulator that streams the samples in chunks, and the progress *)
(* callback, beside a thread that may request a stop at any moment.        *)
(*                                                                         *)
(* Time is counted from start_time.  Every configured time is an even      *)
(* number; an odd number stands for all the instants strictly between its  *)
(* neighbours, so an Early Return of the FMU that moves time by very       *)
(* little may leave an odd `now` as it is.  A call into the session or     *)
(* into a callback may raise an Exception; an interrupt is an exception    *)
(* that is not an Exception.                                               *)
(***************************************************************************)
EXTENDS Integers, Sequences, SequencesExt

CONSTANTS
    Configs,      \* validated configurations the run may be given
    AttemptLimit  \* step_attempt_limit

Even == {t \in Nat : t % 2 = 0}

\* A configuration that validation accepts: `interval` is output_interval,
\* `chunk` result_chunk_size (0 without on_result_chunk), `variable` and
\* `early` whether the FMU takes partial steps and may return early.
Validated(c) ==
    /\ {c.step, c.stop, c.interval} \subseteq Even \ {0}
    /\ c.interval % c.step = 0
    /\ c.schedule \in Seq(Even) /\ c.chunk \in Nat
    /\ \A i \in 1..Len(c.schedule) :
          c.schedule[i] < c.stop /\ c.schedule[i] % c.step = 0
    /\ \A i \in 1..Len(c.schedule) - 1 : c.schedule[i] < c.schedule[i + 1]
    /\ {c.variable, c.early} \subseteq BOOLEAN

ASSUME ConfigsAssumption == \A c \in Configs : Validated(c)
ASSUME AttemptLimitAssumption == AttemptLimit \in Nat \ {0}

VARIABLES
    cfg,          \* the configuration of this run
    pc,           \* the point of run() the calling thread is at
    now,          \* current_time
    steps,        \* completed_steps
    attempts,     \* step_attempts_for_target
    applied,      \* when each scheduled update was given to the session
    session,      \* how far the session has come, terminate and close included
    terminations, \* calls of session.terminate()
    samples,      \* _ResultAccumulator._timestamps
    pending,      \* _ResultAccumulator._pending_time
    chunks,       \* chunks given to on_result_chunk
    stop,         \* RunControl._stop_event
    late,         \* auxiliary: native steps begun after the stop was requested
    stopped,      \* run()'s local `stopped`
    primary,      \* what raised the primary error, "none" without one
    failed,       \* the cleanup raised an EngineError
    terminal,     \* the terminal progress report was made
    outcome       \* how run() ended

stepVars == <<now, steps, attempts, applied, late>>
accumulatorVars == <<samples, pending, chunks>>
sessionVars == <<session, terminations>>
endVars == <<stopped, failed, terminal, outcome>>
vars == <<cfg, pc, stepVars, accumulatorVars, sessionVars, endVars, stop, primary>>

-----------------------------------------------------------------------------
(* The targets of the loop, and its exceptions. *)

Between(t) == t % 2 = 1

ConfiguredTarget == (steps + 1) * cfg.step
Target == IF ConfiguredTarget < cfg.stop THEN ConfiguredTarget ELSE cfg.stop
NextInput == Len(applied) + 1

InTry == {"create", "initialize", "sample", "report", "top", "inputs", "step",
          "finalSample", "terminate", "finalChunk", "finalReport"}
Raise(cause) == primary' = cause /\ pc' = "cleanup"

Init ==
    /\ cfg \in Configs
    /\ pc = "create" /\ now = 0 /\ steps = 0 /\ attempts = 0 /\ applied = <<>>
    /\ session = "none" /\ terminations = 0
    /\ samples = <<>> /\ pending = <<>> /\ chunks = <<>>
    /\ stop = FALSE /\ late = 0 /\ stopped = FALSE
    /\ primary = "none" /\ failed = FALSE /\ terminal = FALSE /\ outcome = "none"

-----------------------------------------------------------------------------
(* SessionFactory.create and session.initialize. *)

Create ==
    /\ pc = "create"
    /\ \/ session' = "open" /\ pc' = "initialize" /\ UNCHANGED primary
       \/ Raise("create") /\ UNCHANGED session
    /\ UNCHANGED <<cfg, stepVars, accumulatorVars, terminations, endVars, stop>>

Initialize ==
    /\ pc = "initialize"
    /\ \/ session' = "ready" /\ pc' = "sample" /\ UNCHANGED primary
       \/ Raise("initialize") /\ UNCHANGED session
    /\ UNCHANGED <<cfg, stepVars, accumulatorVars, terminations, endVars, stop>>

-----------------------------------------------------------------------------
(* _record_sample and _notify_progress. *)

\* A full chunk is delivered when the sample after it arrives.
ChunkIsFull == cfg.chunk > 0 /\ Len(pending) = cfg.chunk

PendingAfterKeeps == IF cfg.chunk = 0 THEN <<>> ELSE Append(pending, now)
PendingAfter ==
    CASE cfg.chunk = 0 -> <<>>
      [] ChunkIsFull -> <<now>>
      [] OTHER -> Append(pending, now)

Delivered(final) == Append(chunks, [time |-> pending, final |-> final])

Recorded(next) ==
    \/ /\ samples' = Append(samples, now)
       /\ pending' = PendingAfter
       /\ chunks' = IF ChunkIsFull THEN Delivered(FALSE) ELSE chunks
       /\ pc' = next /\ UNCHANGED primary
    \/ Raise("read") /\ UNCHANGED accumulatorVars
    \/ /\ ChunkIsFull
       /\ chunks' = Delivered(FALSE)
       /\ Raise("chunk") /\ UNCHANGED <<samples, pending>>

Sample ==
    /\ pc = "sample"
    /\ Recorded("report")
    /\ UNCHANGED <<cfg, stepVars, sessionVars, endVars, stop>>

Report ==
    /\ pc = "report"
    /\ \/ pc' = "top" /\ UNCHANGED primary
       \/ Raise("progress")
    /\ UNCHANGED <<cfg, stepVars, accumulatorVars, sessionVars, endVars, stop>>

-----------------------------------------------------------------------------
(* The loop. *)

\* The stop flag is read at the top of the loop only, and not any more once the
\* stop time is reached.
ObservedStopOnGrid == stop /\ now = steps * cfg.step
ObservedStop == stop

AtEnd == now >= cfg.stop

\* An FMU without variable steps is not asked for a partial last step.
PartialStepRefused == Target < ConfiguredTarget /\ ~cfg.variable

Top ==
    /\ pc = "top"
    /\ \/ /\ AtEnd \/ (~ObservedStop /\ PartialStepRefused)
          /\ pc' = "finalSample" /\ UNCHANGED <<attempts, stopped, primary>>
       \/ /\ ~AtEnd /\ ObservedStop
          /\ stopped' = TRUE
          /\ pc' = "finalSample" /\ UNCHANGED <<attempts, primary>>
       \/ /\ ~AtEnd /\ ~ObservedStop /\ ~PartialStepRefused
          /\ attempts' = attempts + 1
          /\ IF attempts' > AttemptLimit THEN Raise("attempts")
                                         ELSE pc' = "inputs" /\ UNCHANGED primary
          /\ UNCHANGED stopped
    /\ UNCHANGED <<cfg, now, steps, applied, late, accumulatorVars, sessionVars,
                   failed, terminal, outcome, stop>>

\* _apply_scheduled_inputs: only the next update, and only at its time.
InputIsDue == NextInput <= Len(cfg.schedule) /\ cfg.schedule[NextInput] = now

ApplyInputs ==
    /\ pc = "inputs"
    /\ \/ /\ applied' = IF InputIsDue THEN Append(applied, now) ELSE applied
          /\ pc' = "step" /\ UNCHANGED primary
       \/ InputIsDue /\ Raise("inputs") /\ UNCHANGED applied
    /\ UNCHANGED <<cfg, now, steps, attempts, late, accumulatorVars, sessionVars,
                   endVars, stop>>

\* What a native step may return: the target, or with Early Return any later instant,
\* even past the target.  That a step which reports no Early Return has reached its
\* target is what the FMI standard asks of the FMU; the session does not check it.
Returns ==
    {[time |-> Target, early |-> FALSE]} \union
    [time : {t \in now..Target + 1 : cfg.early /\ (t > now \/ Between(t))}, early : {TRUE}]

IsSampleTime(t) == t > 0 /\ t % cfg.interval = 0

OvershootsNever(r) == FALSE
Overshoots(r) == r.early /\ r.time > Target

CompletesAlways(r) == TRUE
Completes(r) == r.time = Target \/ ~r.early

AttemptsAfterEveryReturn(r) == 0
AttemptsAfter(r) == IF Completes(r) THEN 0 ELSE attempts

Step ==
    /\ pc = "step"
    /\ late' = IF stop THEN late + 1 ELSE late
    /\ \/ Raise("step") /\ UNCHANGED <<now, steps, attempts>>
       \/ \E r \in Returns :
            /\ now' = r.time
            /\ IF Overshoots(r)
               THEN Raise("step") /\ UNCHANGED <<steps, attempts>>
               ELSE /\ steps' = IF Completes(r) THEN steps + 1 ELSE steps
                    /\ attempts' = AttemptsAfter(r)
                    /\ pc' = IF Completes(r) /\ IsSampleTime(r.time) THEN "sample" ELSE "report"
                    /\ UNCHANGED primary
    /\ UNCHANGED <<cfg, applied, accumulatorVars, sessionVars, endVars, stop>>

-----------------------------------------------------------------------------
(* The end of the try block. *)

NeedsFinalSampleNever == FALSE
NeedsFinalSample == samples[Len(samples)] # now

FinalSample ==
    /\ pc = "finalSample"
    /\ IF NeedsFinalSample THEN Recorded("terminate")
       ELSE pc' = "terminate" /\ UNCHANGED <<accumulatorVars, primary>>
    /\ UNCHANGED <<cfg, stepVars, sessionVars, endVars, stop>>

\* A termination that raises, an interrupt included, sets the state ERROR, so
\* that the cleanup does not try it again.
AfterTerminateRaisedKeeps == "ready"
AfterTerminateRaised == "terminated"

Terminate ==
    /\ pc = "terminate"
    /\ terminations' = terminations + 1
    /\ \/ session' = "terminated" /\ pc' = "finalChunk" /\ UNCHANGED primary
       \/ /\ session' = AfterTerminateRaised
          /\ \E cause \in {"terminate", "interrupt"} : Raise(cause)
    /\ UNCHANGED <<cfg, stepVars, accumulatorVars, endVars, stop>>

FinalChunk ==
    /\ pc = "finalChunk"
    /\ \/ /\ IF pending # <<>>
             THEN chunks' = Delivered(TRUE) /\ pending' = <<>>
             ELSE UNCHANGED <<chunks, pending>>
          /\ pc' = "finalReport" /\ UNCHANGED primary
       \/ /\ pending # <<>>
          /\ chunks' = Delivered(TRUE) /\ UNCHANGED pending
          /\ Raise("chunk")
    /\ UNCHANGED <<cfg, stepVars, samples, sessionVars, endVars, stop>>

FinalReport ==
    /\ pc = "finalReport"
    /\ \/ terminal' = TRUE /\ pc' = "cleanup" /\ UNCHANGED primary
       \/ Raise("progress") /\ UNCHANGED terminal
    /\ UNCHANGED <<cfg, stepVars, accumulatorVars, sessionVars, stopped, failed,
                   outcome, stop>>

-----------------------------------------------------------------------------
(* The cleanup, and how run() ends. *)

\* A session still READY or RUNNING is terminated before it is closed.
AfterCleanupTerminateGivesUp == IF failed' THEN "finish" ELSE "close"
AfterCleanupTerminate == "close"

CleanupTerminate ==
    /\ pc = "cleanup"
    /\ IF session = "ready"
       THEN /\ terminations' = terminations + 1 /\ session' = "terminated"
            /\ failed' \in BOOLEAN
            /\ pc' = AfterCleanupTerminate
       ELSE /\ pc' = IF session = "none" THEN "finish" ELSE "close"
            /\ UNCHANGED <<sessionVars, failed>>
    /\ UNCHANGED <<cfg, stepVars, accumulatorVars, stopped, terminal, outcome,
                   stop, primary>>

Close ==
    /\ pc = "close"
    /\ session' = "closed" /\ pc' = "finish"
    /\ failed' \in {failed, TRUE}
    /\ UNCHANGED <<cfg, stepVars, accumulatorVars, terminations, stopped, terminal,
                   outcome, stop, primary>>

Finish ==
    /\ pc = "finish"
    /\ pc' = "done"
    /\ outcome' = IF failed \/ primary \notin {"none", "interrupt"} THEN "FAILED"
                  ELSE IF primary = "interrupt" THEN "INTERRUPTED"
                  ELSE IF stopped THEN "STOPPED" ELSE "COMPLETED"
    /\ UNCHANGED <<cfg, stepVars, accumulatorVars, sessionVars, stopped, failed,
                   terminal, stop, primary>>

\* Inside the try block an interrupt is kept and the cleanup still runs; one
\* that comes during the cleanup leaves run() at once.
Interrupt ==
    /\ \/ pc \in InTry /\ Raise("interrupt") /\ UNCHANGED outcome
       \/ /\ pc \in {"cleanup", "close"}
          /\ outcome' = "ABANDONED" /\ pc' = "done" /\ UNCHANGED primary
    /\ UNCHANGED <<cfg, stepVars, accumulatorVars, sessionVars, stopped, failed,
                   terminal, stop>>

\* The other thread: RunControl.request_stop.
RequestStop ==
    /\ ~stop /\ stop' = TRUE
    /\ UNCHANGED <<cfg, pc, stepVars, accumulatorVars, sessionVars, endVars, primary>>

Runner ==
    \/ Create \/ Initialize \/ Sample \/ Report \/ Top \/ ApplyInputs \/ Step
    \/ FinalSample \/ Terminate \/ FinalChunk \/ FinalReport
    \/ CleanupTerminate \/ Close \/ Finish

Next == Runner \/ Interrupt \/ RequestStop

Spec == Init /\ [][Next]_vars

\* Every call into the session and the callbacks returns or raises.
FairSpec == Spec /\ WF_vars(Runner)

-----------------------------------------------------------------------------
(* Properties. *)

Results == {"COMPLETED", "STOPPED"}

\* completed_steps and current_time never drift apart: however often the FMU
\* returns early, time lies in the communication interval after the last
\* completed step, and at its start once a step has completed.
StepsMatchTime ==
    primary = "none" =>
        /\ now < ConfiguredTarget /\ now <= cfg.stop
        /\ steps * cfg.step <= now \/ now = cfg.stop
        /\ attempts = 0 => now \in {steps * cfg.step, cfg.stop}

\* The result: its samples are the initial point, every reached multiple of the
\* output interval and the final time, strictly increasing; STOPPED needs a
\* request, and COMPLETED means the stop time, or for an FMU without variable
\* steps the last whole communication point before it.
IsRecorded(t) == t \in {0, now} \/ IsSampleTime(t)
ResultExact ==
    outcome \in Results =>
        /\ \A t \in 0..now : IsRecorded(t) <=> t \in Range(samples)
        /\ \A i \in 1..Len(samples) - 1 : samples[i] < samples[i + 1]
        /\ \/ outcome = "STOPPED" /\ stop
           \/ outcome = "COMPLETED" /\ now = cfg.stop
           \/ /\ outcome = "COMPLETED" /\ ~cfg.variable
              /\ now = steps * cfg.step /\ cfg.stop - now < cfg.step

\* The stream is the result: the chunks delivered so far follow each other through
\* the samples without gap or overlap, none is empty and each is full but the last;
\* a final chunk is the last one, comes after a termination that succeeded and ends
\* where the samples end, and the terminal report is not made before it.
Offset(i) == (i - 1) * cfg.chunk
Segment(i) ==
    /\ chunks[i].time # <<>>
    /\ Offset(i) + Len(chunks[i].time) <= Len(samples)
    /\ \A j \in DOMAIN chunks[i].time : chunks[i].time[j] = samples[Offset(i) + j]
HasFinalChunk == chunks # <<>> /\ chunks[Len(chunks)].final
ChunksFaithful ==
    /\ \A i \in DOMAIN chunks : Segment(i)
    /\ \A i \in 1..Len(chunks) - 1 :
          ~chunks[i].final /\ Len(chunks[i].time) = cfg.chunk
    /\ HasFinalChunk =>
          /\ Offset(Len(chunks)) + Len(chunks[Len(chunks)].time) = Len(samples)
          /\ primary \notin {"terminate", "step"}
    /\ terminal => (HasFinalChunk \/ cfg.chunk = 0)

\* No scheduled update is late or skipped: whenever time has passed the time of
\* an update it has been given to the session, at that very time, whatever early
\* returns lie between two communication points.
InputsOnTime ==
    /\ applied = SubSeq(cfg.schedule, 1, Len(applied))
    /\ primary = "none" =>
          \A i \in 1..Len(cfg.schedule) : cfg.schedule[i] < now => i <= Len(applied)

\* A stop lets at most one native step begin.
StopWithinOneStep == late <= 1

\* The session is terminated at most once, exactly once if it was used, and
\* closed, whichever call fails, unless an interrupt hits the cleanup itself.
SessionReleased ==
    /\ terminations <= 1
    /\ outcome \notin {"none", "ABANDONED"} =>
          /\ session \in {"none", "closed"}
          /\ samples # <<>> => terminations = 1

\* Every run ends, however little an FMU advances with each Early Return.
Terminates == <>(pc = "done")
=============================================================================
