--------------------------- MODULE CoSimRun_proofs ---------------------------
(***************************************************************************)
(* Theorems about CoSimRun: a stop lets at most one native step begin, the *)
(* session is terminated at most once and always closed, steps and time    *)
(* agree, no scheduled input is late, the result is exact and its chunks   *)
(* are the result.  They hold for every set of validated configurations    *)
(* and every attempt limit.                                                *)
(***************************************************************************)
EXTENDS CoSimRun, TLAPS

\* No native step begins after one that began with the stop already requested.
StopInv ==
    /\ late \in {0, 1}
    /\ late = 1 => stop
    /\ pc \in {"inputs", "step"} => late = 0

\* How far the session has come at each point of run().
Looping == {"sample", "report", "top", "inputs", "step", "finalSample", "terminate"}
SessionAt ==
    /\ pc = "create" => session = "none"
    /\ pc = "initialize" => session = "open"
    /\ pc \in Looping => session = "ready"
    /\ pc \in {"finalChunk", "finalReport"} => session = "terminated"
    /\ pc = "cleanup" => session \in {"none", "open", "ready", "terminated"}
    /\ pc = "close" => session \in {"open", "terminated"}
    /\ pc = "finish" => session \in {"none", "closed"}
    /\ pc = "done" => session \in {"none", "closed"} \/ outcome = "ABANDONED"

\* How often it was terminated, and that only a session in use has samples.
TerminationsMatch ==
    /\ session \in {"none", "open", "ready"} => terminations = 0
    /\ session = "terminated" => terminations = 1
    /\ session = "closed" => terminations = 1 \/ (terminations = 0 /\ samples = <<>>)
    /\ session \in {"none", "open"} => samples = <<>>

ReleaseInv ==
    /\ pc \in Looping \union {"create", "initialize", "finalChunk", "finalReport",
                              "cleanup", "close", "finish", "done"}
    /\ session \in {"none", "open", "ready", "terminated", "closed"}
    /\ pc # "done" => outcome = "none"
    /\ SessionAt /\ TerminationsMatch

-----------------------------------------------------------------------------
(* A stop. *)

\* Before the run there was neither a stop nor a step.
LEMMA InitStop == Init => StopInv
BY DEF Init, StopInv

\* Only the test at the top of the loop leads to a native step, and not when
\* the stop flag is set.
LEMMA StopStep == StopInv /\ [Next]_vars => StopInv'
<1>. SUFFICES ASSUME StopInv, [Next]_vars PROVE StopInv'
  OBVIOUS
<1>. USE DEF StopInv, Raise, stepVars
<1>1. CASE Create
  BY <1>1 DEF Create
<1>2. CASE Initialize
  BY <1>2 DEF Initialize
<1>3. CASE Sample
  BY <1>3 DEF Sample, Recorded
<1>4. CASE Report
  BY <1>4 DEF Report
<1>5. CASE Top
  BY <1>5 DEF Top, ObservedStop
<1>6. CASE ApplyInputs
  BY <1>6 DEF ApplyInputs
<1>7. CASE Step
  BY <1>7 DEF Step
<1>8. CASE FinalSample
  BY <1>8 DEF FinalSample, Recorded
<1>9. CASE Terminate
  BY <1>9 DEF Terminate
<1>10. CASE FinalChunk
  BY <1>10 DEF FinalChunk
<1>11. CASE FinalReport
  BY <1>11 DEF FinalReport
<1>12. CASE CleanupTerminate
  BY <1>12 DEF CleanupTerminate, AfterCleanupTerminate
<1>13. CASE Close
  BY <1>13 DEF Close
<1>14. CASE Finish
  BY <1>14 DEF Finish
<1>15. CASE Interrupt
  BY <1>15 DEF Interrupt
<1>16. CASE RequestStop
  BY <1>16 DEF RequestStop
<1>17. CASE UNCHANGED vars
  BY <1>17 DEF vars
<1>. QED
  BY <1>1, <1>2, <1>3, <1>4, <1>5, <1>6, <1>7, <1>8, <1>9, <1>10, <1>11, <1>12,
     <1>13, <1>14, <1>15, <1>16, <1>17 DEF Next, Runner

\* A stop requested at any moment lets at most one native step begin: run()
\* reads the flag before each.
THEOREM StopBounded == Spec => []StopWithinOneStep
<1>1. StopInv => StopWithinOneStep
  BY DEF StopInv, StopWithinOneStep
<1>. QED
  BY <1>1, InitStop, StopStep, PTL DEF Spec

-----------------------------------------------------------------------------
(* The session. *)

\* There is no session before the run.
LEMMA InitRelease == Init => ReleaseInv
BY DEF Init, ReleaseInv, SessionAt, TerminationsMatch, Looping

\* The session follows run() from creation to close: every exception of the try
\* block leads to the cleanup, and the cleanup of an open session to close().
LEMMA ReleaseStep == ReleaseInv /\ [Next]_vars => ReleaseInv'
<1>. SUFFICES ASSUME ReleaseInv, [Next]_vars PROVE ReleaseInv'
  OBVIOUS
<1>. USE DEF ReleaseInv, SessionAt, TerminationsMatch, Looping, Raise,
             accumulatorVars, sessionVars, endVars
<1>1. CASE Create
  BY <1>1 DEF Create
<1>2. CASE Initialize
  BY <1>2 DEF Initialize
<1>3. CASE Sample
  BY <1>3 DEF Sample, Recorded
<1>4. CASE Report
  BY <1>4 DEF Report
<1>5. CASE Top
  BY <1>5 DEF Top
<1>6. CASE ApplyInputs
  BY <1>6 DEF ApplyInputs
<1>7. CASE Step
  BY <1>7 DEF Step
<1>8. CASE FinalSample
  BY <1>8 DEF FinalSample, Recorded
<1>9. CASE Terminate
  BY <1>9 DEF Terminate, AfterTerminateRaised
<1>10. CASE FinalChunk
  BY <1>10 DEF FinalChunk
<1>11. CASE FinalReport
  BY <1>11 DEF FinalReport
<1>12. CASE CleanupTerminate
  BY <1>12 DEF CleanupTerminate, AfterCleanupTerminate
<1>13. CASE Close
  BY <1>13 DEF Close
<1>14. CASE Finish
  BY <1>14 DEF Finish
<1>15. CASE Interrupt
  BY <1>15 DEF Interrupt, InTry
<1>16. CASE RequestStop
  BY <1>16 DEF RequestStop
<1>17. CASE UNCHANGED vars
  BY <1>17 DEF vars
<1>. QED
  BY <1>1, <1>2, <1>3, <1>4, <1>5, <1>6, <1>7, <1>8, <1>9, <1>10, <1>11, <1>12,
     <1>13, <1>14, <1>15, <1>16, <1>17 DEF Next, Runner

\* Whichever call fails, the session is terminated at most once, exactly once if
\* it was used, and closed, unless an interrupt hits the cleanup itself.
THEOREM Released == Spec => []SessionReleased
<1>1. ReleaseInv => SessionReleased
  BY DEF ReleaseInv, SessionAt, TerminationsMatch, SessionReleased
<1>. QED
  BY <1>1, InitRelease, ReleaseStep, PTL DEF Spec

-----------------------------------------------------------------------------
(* Arithmetic of the communication points. *)

\* One more communication step is one step length more.
LEMMA Distributes ==
    ASSUME NEW n \in Nat, NEW k \in Nat
    PROVE  (n + 1) * k = n * k + k /\ n * k \in Nat
OBVIOUS

\* A number that leaves no remainder is a multiple.
LEMMA Quotient ==
    ASSUME NEW k \in Nat \ {0}, NEW t \in Nat, t % k = 0
    PROVE  \E q \in Nat : t = k * q
<1>1. t = k * (t \div k) + (t % k) /\ t \div k \in Nat
  OBVIOUS
<1>. QED BY <1>1

\* A multiple of a multiple of the step is a multiple of the step.
LEMMA MultipleOfMultiple ==
    ASSUME NEW k \in Nat \ {0}, NEW m \in Nat \ {0}, NEW t \in Nat, m % k = 0, t % m = 0
    PROVE  t % k = 0
<1>1. PICK a \in Nat : m = k * a
  BY Quotient
<1>2. PICK b \in Nat : t = m * b
  BY Quotient
<1>3. t = k * (a * b) /\ a * b \in Nat
  BY <1>1, <1>2
<1>4. \A n \in Nat : (k * n) % k = 0
  OBVIOUS
<1>. QED BY <1>3, <1>4

\* After a multiple of the step the next one is a whole step later.
LEMMA NoMultipleBetween ==
    ASSUME NEW k \in Nat \ {0}, NEW n \in Nat, NEW t \in Nat, t % k = 0, n * k < t
    PROVE  (n + 1) * k <= t
<1>1. PICK q \in Nat : t = k * q
  BY Quotient
<1>2. q > n
  <2>1. SUFFICES ASSUME q <= n PROVE FALSE
    BY <1>1
  <2>2. k * q <= k * n
    BY <2>1
  <2>. QED BY <1>1, <2>2
<1>3. k * q >= k * (n + 1)
  BY <1>2
<1>. QED BY <1>1, <1>3

-----------------------------------------------------------------------------
(* Steps and time. *)

Chunk == [time : Seq(Nat), final : BOOLEAN]
Point == InTry \union {"cleanup", "close", "finish", "done"}
TypeInv ==
    /\ cfg \in Configs /\ pc \in Point
    /\ now \in Nat /\ steps \in Nat /\ attempts \in Nat
    /\ applied \in Seq(Nat) /\ samples \in Seq(Nat) /\ pending \in Seq(Nat)
    /\ chunks \in Seq(Chunk)

\* Between two attempts time lies in the step to come; an attempt is made only
\* before the stop time, and never for a partial step the FMU cannot take.
TimeInv ==
    /\ pc \in InTry => primary = "none"
    /\ primary = "none" =>
          /\ now < ConfiguredTarget /\ now <= cfg.stop
          /\ steps * cfg.step <= now \/ now = cfg.stop
          /\ attempts = 0 => now \in {steps * cfg.step, cfg.stop}
          /\ pc \in {"inputs", "step"} =>
                now < cfg.stop /\ attempts > 0 /\ ~PartialStepRefused
          /\ ~cfg.variable /\ Target < ConfiguredTarget =>
                now \in {steps * cfg.step, cfg.stop}

\* What validation guarantees of a configuration.
LEMMA ConfigTypes ==
    ASSUME TypeInv
    PROVE  /\ cfg.step \in Even \ {0} /\ cfg.stop \in Even \ {0}
           /\ cfg.interval \in Even \ {0} /\ cfg.interval % cfg.step = 0
           /\ cfg.schedule \in Seq(Even) /\ cfg.chunk \in Nat
           /\ ConfiguredTarget \in Nat /\ Target \in Nat /\ steps * cfg.step \in Nat
           /\ ConfiguredTarget = steps * cfg.step + cfg.step
<1>1. Validated(cfg)
  BY ConfigsAssumption DEF TypeInv
<1>2. cfg.step \in Nat /\ cfg.stop \in Nat /\ steps \in Nat
  BY <1>1 DEF Validated, Even, TypeInv
<1>3. /\ ConfiguredTarget = steps * cfg.step + cfg.step /\ steps * cfg.step \in Nat
  BY <1>2, Distributes DEF ConfiguredTarget
<1>. QED BY <1>1, <1>2, <1>3 DEF Validated, Target

\* Every initial state is well typed.
LEMMA TypeInit == Init => TypeInv
BY DEF Init, TypeInv, Point, InTry

\* The times a native step can bring the run to.
Reached == {Target} \cup {t \in now..Target + 1 : t > now \/ Between(t)}

\* A step returns one of these times, and has completed exactly at its target.
LEMMA ReturnsReach ==
    ASSUME Target \in Nat, now \in Nat
    PROVE  \A r \in Returns :
             /\ r.time \in Reached /\ r.time \in Nat
             /\ Completes(r) <=> r.time = Target
             /\ Overshoots(r) <=> r.time > Target
<1>. SUFFICES ASSUME NEW r \in Returns
              PROVE  /\ r.time \in Reached /\ r.time \in Nat
                     /\ Completes(r) <=> r.time = Target
                     /\ Overshoots(r) <=> r.time > Target
  OBVIOUS
<1>1. CASE r = [time |-> Target, early |-> FALSE]
  BY <1>1 DEF Reached, Completes, Overshoots
<1>2. CASE r.early /\ r.time \in {t \in now..Target + 1 : t > now \/ Between(t)}
  BY <1>2 DEF Reached, Completes, Overshoots
<1>. QED BY <1>1, <1>2 DEF Returns

\* A step that raises nothing reaches the target and completes, or falls short of it.
LEMMA StepReaches ==
    ASSUME Target \in Nat, now \in Nat, Step, primary' = "none"
    PROVE  \E t \in Reached :
             /\ now' = t /\ t <= Target /\ UNCHANGED cfg
             /\ steps' = IF t = Target THEN steps + 1 ELSE steps
             /\ attempts' = IF t = Target THEN 0 ELSE attempts
             /\ pc' = IF t = Target /\ IsSampleTime(t) THEN "sample" ELSE "report"
<1>1. PICK r \in Returns :
         /\ now' = r.time /\ UNCHANGED cfg /\ ~Overshoots(r)
         /\ steps' = IF Completes(r) THEN steps + 1 ELSE steps
         /\ attempts' = AttemptsAfter(r)
         /\ pc' = IF Completes(r) /\ IsSampleTime(r.time) THEN "sample" ELSE "report"
  BY DEF Step, Raise
<1>. QED BY <1>1, ReturnsReach DEF AttemptsAfter

\* Every step keeps the types.
LEMMA TypeStep == TypeInv /\ [Next]_vars => TypeInv'
<1>. SUFFICES ASSUME TypeInv, [Next]_vars PROVE TypeInv'
  OBVIOUS
<1>. USE DEF TypeInv, Raise, stepVars, accumulatorVars, sessionVars, endVars, Point, InTry
<1>1. CASE Create \/ Initialize \/ Report
  BY <1>1 DEF Create, Initialize, Report
<1>2. ASSUME NEW next \in InTry, Recorded(next), UNCHANGED <<cfg, stepVars>> PROVE TypeInv'
  <2>1. PendingAfter \in Seq(Nat)
    BY DEF PendingAfter
  <2>2. Delivered(FALSE) \in Seq(Chunk)
    BY DEF Delivered, Chunk
  <2>3. Append(samples, now) \in Seq(Nat)
    OBVIOUS
  <2>. QED BY <1>2, <2>1, <2>2, <2>3 DEF Recorded
<1>3. CASE Sample
  BY <1>2, <1>3 DEF Sample
<1>4. CASE FinalSample
  BY <1>2, <1>4 DEF FinalSample
<1>5. CASE Top
  BY <1>5 DEF Top
<1>6. CASE ApplyInputs
  <2>1. Append(applied, now) \in Seq(Nat)
    OBVIOUS
  <2>. QED BY <1>6, <2>1 DEF ApplyInputs
<1>7. CASE Step
  <2>1. \A r \in Returns : r.time \in Nat
    BY ConfigTypes, ReturnsReach
  <2>2. \A r : AttemptsAfter(r) \in Nat
    BY DEF AttemptsAfter
  <2>. QED BY <1>7, <2>1, <2>2 DEF Step
<1>8. CASE Terminate \/ FinalReport
  BY <1>8 DEF Terminate, FinalReport
<1>9. CASE FinalChunk
  <2>1. Delivered(TRUE) \in Seq(Chunk)
    BY DEF Delivered, Chunk
  <2>2. <<>> \in Seq(Nat)
    OBVIOUS
  <2>. QED BY <1>9, <2>1, <2>2 DEF FinalChunk
<1>10. CASE CleanupTerminate \/ Close \/ Finish
  BY <1>10 DEF CleanupTerminate, AfterCleanupTerminate, Close, Finish
<1>11. CASE Interrupt \/ RequestStop
  BY <1>11 DEF Interrupt, RequestStop
<1>12. CASE UNCHANGED vars
  BY <1>12 DEF vars
<1>. QED
  BY <1>1, <1>3, <1>4, <1>5, <1>6, <1>7, <1>8, <1>9, <1>10, <1>11, <1>12 DEF Next, Runner

\* Initially: the relation of steps and times.
LEMMA TimeInit == TypeInv /\ Init => TimeInv
<1>. SUFFICES ASSUME TypeInv, Init PROVE TimeInv
  OBVIOUS
<1>1. steps * cfg.step = 0
  <2>1. \A k \in Nat : 0 * k = 0
    OBVIOUS
  <2>. QED BY <2>1, ConfigTypes DEF Init, Even
<1>2. cfg.step \in Nat \ {0} /\ cfg.stop \in Nat \ {0}
  BY ConfigTypes DEF Even
<1>3. ConfiguredTarget = 0 + cfg.step
  BY <1>1, ConfigTypes
<1>4. now = 0 /\ now < ConfiguredTarget /\ now < cfg.stop /\ now = steps * cfg.step
  BY <1>1, <1>2, <1>3 DEF Init
<1>5. pc = "create" /\ primary = "none" /\ now <= cfg.stop
  BY <1>2, <1>4 DEF Init
<1>. QED BY <1>1, <1>4, <1>5 DEF TimeInv

\* The native step: it reaches the target or, returning early, stops before it.
LEMMA StepKeepsTime == TypeInv /\ TimeInv /\ Step => TimeInv'
<1>. SUFFICES ASSUME TypeInv, TimeInv, Step PROVE TimeInv'
  OBVIOUS
<1>. DEFINE k == cfg.step  base == steps * k
<1>1. /\ k \in Nat /\ k > 0 /\ base \in Nat /\ cfg.stop \in Nat /\ steps \in Nat
      /\ ConfiguredTarget = base + k /\ Target \in Nat
  BY SMTT(20), ConfigTypes DEF Even, TypeInv
<1>2. CASE primary' # "none"
  BY <1>2 DEF TimeInv, Step, Raise, InTry
<1>3. CASE primary' = "none"
  <2>1. PICK t \in Reached :
           /\ now' = t /\ t <= Target /\ UNCHANGED cfg
           /\ steps' = IF t = Target THEN steps + 1 ELSE steps
           /\ attempts' = IF t = Target THEN 0 ELSE attempts
           /\ pc' \in {"sample", "report"}
    <3>1. now \in Nat
      BY DEF TypeInv
    <3>. QED BY <1>1, <1>3, <3>1, StepReaches
  <2>2. /\ primary = "none" /\ pc = "step" /\ now \in Nat /\ now < cfg.stop /\ attempts > 0
        /\ now < base + k
        /\ base <= now \/ now = cfg.stop
        /\ attempts \in Nat /\ ~PartialStepRefused
    BY <1>1, <1>3, <2>1 DEF Step, TimeInv, InTry, TypeInv
  <2>3. t \in Nat /\ now <= t
    BY <1>1, <2>1, <2>2 DEF Reached, Target
  <2>4. CASE t = Target
    <3>1. steps' = steps + 1 /\ steps' * k = base + k /\ (steps' + 1) * k = base + k + k
      BY <1>1, <2>1, <2>4, Distributes
    <3>2. ConfiguredTarget' = base + k + k /\ now' = Target
      BY <2>1, <2>4, <3>1 DEF ConfiguredTarget
    <3>3. steps' * cfg'.step = base + k /\ cfg'.stop = cfg.stop
      BY <2>1, <3>1
    <3>4. Target' = IF base + k + k < cfg.stop THEN base + k + k ELSE cfg.stop
      BY <3>2, <3>3 DEF Target
    <3>5. Target = IF base + k < cfg.stop THEN base + k ELSE cfg.stop
      BY <1>1 DEF Target
    <3>. HIDE DEF k, base
    <3>6. /\ now' = Target /\ now' \in Nat /\ now' < ConfiguredTarget' /\ now' <= cfg'.stop
          /\ base + k <= now' \/ now' = cfg'.stop
          /\ now' \in {base + k, cfg'.stop}
      BY <1>1, <2>2, <3>2, <3>3, <3>4, <3>5
    <3>7. pc' \notin {"inputs", "step"}
      BY <2>1
    <3>. QED BY <1>3, <3>3, <3>6, <3>7 DEF TimeInv
  <2>5. CASE t # Target
    <3>1. steps' = steps /\ attempts' = attempts /\ t < Target
      BY <1>1, <2>1, <2>3, <2>5
    <3>2. ConfiguredTarget' = ConfiguredTarget /\ Target' = Target
      BY <2>1, <3>1 DEF ConfiguredTarget, Target
    <3>. QED BY <1>1, <1>3, <2>1, <2>2, <2>3, <3>1, <3>2 DEF TimeInv, Target, InTry, PartialStepRefused
  <2>. QED BY <2>4, <2>5
<1>. QED BY <1>2, <1>3

\* Every other action leaves the clock as it is.
LEMMA TimeStep == TypeInv /\ TimeInv /\ [Next]_vars => TimeInv'
<1>. SUFFICES ASSUME TypeInv, TimeInv, [Next]_vars PROVE TimeInv'
  OBVIOUS
<1>1. CASE Step
  BY <1>1, StepKeepsTime
<1>2. CASE UNCHANGED <<cfg, now, steps>>
  <2>1. UNCHANGED <<ConfiguredTarget, Target, PartialStepRefused>>
    BY <1>2 DEF ConfiguredTarget, Target, PartialStepRefused
  <2>. USE DEF TimeInv, Raise, stepVars, accumulatorVars, sessionVars, endVars, InTry
  <2>2. CASE Top
    <3>1. cfg.stop \in Nat /\ now \in Nat /\ attempts \in Nat
      BY ConfigTypes DEF Even, TypeInv
    <3>2. CASE pc' = "inputs"
      <4>1. now < cfg.stop /\ ~PartialStepRefused /\ attempts' = attempts + 1
        BY <2>2, <3>1, <3>2 DEF Top, AtEnd
      <4>. QED BY <1>2, <2>1, <2>2, <3>1, <3>2, <4>1 DEF Top
    <3>3. CASE pc' # "inputs" /\ primary' = "none"
      BY <1>2, <2>1, <2>2, <3>3 DEF Top
    <3>4. CASE primary' # "none"
      BY <2>2, <3>4 DEF Top
    <3>. QED BY <3>2, <3>3, <3>4
  <2>3. CASE Create \/ Initialize \/ Report \/ Terminate \/ FinalReport
    BY <1>2, <2>1, <2>3 DEF Create, Initialize, Report, Terminate, FinalReport
  <2>4. CASE Sample
    BY <1>2, <2>1, <2>4 DEF Sample, Recorded
  <2>5. CASE ApplyInputs
    BY <1>2, <2>1, <2>5 DEF ApplyInputs
  <2>6. CASE FinalSample
    BY <1>2, <2>1, <2>6 DEF FinalSample, Recorded
  <2>7. CASE FinalChunk
    BY <1>2, <2>1, <2>7 DEF FinalChunk
  <2>8. CASE CleanupTerminate \/ Close \/ Finish
    BY <1>2, <2>1, <2>8 DEF CleanupTerminate, AfterCleanupTerminate, Close, Finish
  <2>9. CASE Interrupt
    BY <1>2, <2>1, <2>9 DEF Interrupt
  <2>10. CASE RequestStop \/ UNCHANGED vars
    BY <1>2, <2>1, <2>10 DEF RequestStop, vars
  <2>11. CASE Step
    BY <2>11, StepKeepsTime
  <2>. QED
    BY <2>2, <2>3, <2>4, <2>5, <2>6, <2>7, <2>8, <2>9, <2>10, <2>11 DEF Next, Runner
<1>3. Step \/ UNCHANGED <<cfg, now, steps>>
  BY DEF Next, Runner, Create, Initialize, Sample, Report, Top, ApplyInputs, FinalSample,
     Terminate, FinalChunk, FinalReport, CleanupTerminate, Close, Finish, Interrupt,
     RequestStop, vars, stepVars
<1>. QED BY <1>1, <1>2, <1>3

\* StepsMatchTime: an early return, however often it comes, never lets the
\* completed steps and the time drift apart.
THEOREM StepsAndTime == Spec => []StepsMatchTime
<1>1. TimeInv => StepsMatchTime
  BY DEF TimeInv, StepsMatchTime
<1>. QED BY <1>1, TypeInit, TypeStep, TimeInit, TimeStep, PTL DEF Spec

-----------------------------------------------------------------------------
(* The scheduled inputs. *)

\* The updates applied are the first of the schedule, and none is missing whose
\* time has passed, or has come when the native step begins.
InputInv ==
    /\ Len(applied) <= Len(cfg.schedule)
    /\ \A i \in 1..Len(applied) : applied[i] = cfg.schedule[i]
    /\ primary = "none" =>
          \A i \in 1..Len(cfg.schedule) :
             cfg.schedule[i] < now \/ (pc = "step" /\ cfg.schedule[i] = now)
                => i <= Len(applied)

\* What validation says of the schedule.
LEMMA ScheduleTypes ==
    ASSUME TypeInv
    PROVE  /\ cfg.schedule \in Seq(Nat) /\ Len(cfg.schedule) \in Nat
           /\ \A i \in 1..Len(cfg.schedule) :
                 cfg.schedule[i] \in Nat /\ cfg.schedule[i] % cfg.step = 0
           /\ \A i \in 1..Len(cfg.schedule) - 1 : cfg.schedule[i] < cfg.schedule[i + 1]
<1>1. Validated(cfg)
  BY ConfigsAssumption DEF TypeInv
<1>2. cfg.schedule \in Seq(Even) /\ Even \subseteq Nat
  BY <1>1 DEF Validated, Even
<1>3. Len(cfg.schedule) \in Nat /\ \A i \in 1..Len(cfg.schedule) : cfg.schedule[i] \in Nat
  BY <1>2
<1>4. cfg.schedule \in Seq(Nat)
  <2>. DEFINE sch == cfg.schedule
  <2>1. sch = [i \in 1..Len(sch) |-> sch[i]]
    BY <1>2
  <2>. HIDE DEF sch
  <2>. QED BY <1>3, <2>1 DEF sch
<1>. QED BY <1>1, <1>3, <1>4 DEF Validated

\* Time stands at zero, and no update is scheduled before it.
LEMMA InputInit == TypeInv /\ Init => InputInv
BY ScheduleTypes DEF Init, InputInv

\* All but these two actions leave what is due as it is.
LEMMA InputFrame ==
    ASSUME [Next]_vars
    PROVE  \/ ApplyInputs \/ Step
           \/ /\ UNCHANGED <<cfg, now, applied>>
              /\ pc' # "step" \/ pc' = pc
              /\ primary' = "none" => primary = "none"
BY DEF Next, Runner, Create, Initialize, Sample, Recorded, Report, Top, FinalSample,
   Terminate, FinalChunk, FinalReport, CleanupTerminate, AfterCleanupTerminate, Close,
   Finish, Interrupt, RequestStop, Raise, vars, stepVars

\* At a communication point at most the next update can be due, for the schedule
\* increases; between two of them none is.
LEMMA InputStep == TypeInv /\ TimeInv /\ InputInv /\ [Next]_vars => InputInv'
<1>. SUFFICES ASSUME TypeInv, TimeInv, InputInv, [Next]_vars PROVE InputInv'
  OBVIOUS
<1>. DEFINE sch == cfg.schedule
<1>a. applied \in Seq(Nat) /\ Len(applied) \in Nat /\ now \in Nat /\ steps \in Nat
  BY DEF TypeInv
<1>b. /\ Len(sch) \in Nat
      /\ \A i \in 1..Len(sch) : sch[i] \in Nat /\ sch[i] % cfg.step = 0
      /\ \A i \in 1..Len(sch) - 1 : sch[i] < sch[i + 1]
  BY ScheduleTypes
<1>c. /\ cfg.step \in Nat \ {0} /\ cfg.stop \in Nat /\ steps * cfg.step \in Nat
      /\ ConfiguredTarget \in Nat /\ Target \in Nat
  BY ConfigTypes DEF Even
<1>0. /\ Len(sch) \in Nat /\ Len(applied) \in Nat /\ now \in Nat /\ applied \in Seq(Nat)
      /\ \A i \in 1..Len(sch) : sch[i] \in Nat
      /\ \A i \in 1..Len(sch) - 1 : sch[i] < sch[i + 1]
  BY <1>a, <1>b
<1>1. CASE ApplyInputs
  <2>1. UNCHANGED <<cfg, now>> /\ pc = "inputs" /\ primary = "none"
    BY <1>1 DEF ApplyInputs, stepVars, TimeInv, InTry
  <2>2. CASE primary' = "none"
    <3>1. applied' = IF InputIsDue THEN Append(applied, now) ELSE applied
      BY <1>1, <2>2 DEF ApplyInputs, Raise
    <3>2. Len(applied') = IF InputIsDue THEN Len(applied) + 1 ELSE Len(applied)
      BY <1>0, <3>1
    <3>3. ASSUME NEW i \in 1..Len(sch), sch[i] <= now PROVE i <= Len(applied')
      <4>1. CASE i = 1 /\ sch[i] = now
        BY <1>0, <3>2, <4>1 DEF InputIsDue, NextInput
      <4>2. CASE i # 1 /\ sch[i] = now
        <5>1. i - 1 \in 1..Len(sch) - 1 /\ i - 1 \in 1..Len(sch) /\ (i - 1) + 1 = i
          BY <1>0, <4>2
        <5>2. sch[i - 1] < now
          BY <1>0, <4>2, <5>1
        <5>3. i - 1 <= Len(applied)
          BY <2>1, <5>1, <5>2 DEF InputInv
        <5>. QED BY <1>0, <3>2, <4>2, <5>3 DEF InputIsDue, NextInput
      <4>3. CASE sch[i] < now
        BY <1>0, <2>1, <3>2, <4>3 DEF InputInv
      <4>. QED BY <1>0, <3>3, <4>1, <4>2, <4>3
    <3>4. Len(applied') <= Len(sch)
      BY <1>0, <3>2 DEF InputInv, InputIsDue, NextInput
    <3>5. ASSUME NEW i \in 1..Len(applied') PROVE applied'[i] = sch[i]
      BY <1>0, <3>1, <3>2 DEF InputInv, InputIsDue, NextInput
    <3>. QED BY <1>0, <2>1, <3>3, <3>4, <3>5 DEF InputInv
  <2>3. CASE primary' # "none"
    BY <1>1, <2>1, <2>3 DEF ApplyInputs, InputInv, Raise
  <2>. QED BY <2>2, <2>3
<1>2. CASE Step
  <2>1. UNCHANGED <<cfg, applied>> /\ pc = "step" /\ pc' # "step" /\ primary = "none"
    BY <1>2 DEF Step, Raise, TimeInv, InTry
  <2>2. CASE primary' = "none"
    <3>1. /\ cfg.step \in Nat \ {0} /\ steps \in Nat /\ steps * cfg.step <= now
          /\ Target \in Nat /\ Target <= (steps + 1) * cfg.step
      <4>1. steps * cfg.step <= now
        BY <1>a, <1>c, <2>1 DEF TimeInv
      <4>2. Target <= ConfiguredTarget
        BY <1>c DEF Target
      <4>. QED BY <1>a, <1>c, <4>1, <4>2 DEF ConfiguredTarget
    <3>2. now' <= Target /\ now' \in Nat
      <4>1. Reached \subseteq Nat
        BY <1>0, <3>1 DEF Reached
      <4>. QED BY <1>0, <1>2, <2>2, <3>1, <4>1, StepReaches
    <3>3. ASSUME NEW i \in 1..Len(sch), sch[i] < now' PROVE i <= Len(applied)
      <4>1. SUFFICES ASSUME now < sch[i] PROVE FALSE
        BY <1>0, <2>1 DEF InputInv
      <4>2. steps * cfg.step < sch[i] /\ sch[i] % cfg.step = 0 /\ sch[i] \in Nat
        BY <1>0, <1>b, <1>c, <3>1, <4>1
      <4>3. (steps + 1) * cfg.step <= sch[i]
        BY <3>1, <4>2, NoMultipleBetween
      <4>4. (steps + 1) * cfg.step \in Nat
        BY ConfigTypes DEF ConfiguredTarget
      <4>. QED BY <3>1, <3>2, <3>3, <4>2, <4>3, <4>4
    <3>. QED BY <2>1, <3>3 DEF InputInv
  <2>3. CASE primary' # "none"
    BY <2>1, <2>3 DEF InputInv
  <2>. QED BY <2>2, <2>3
<1>3. CASE /\ UNCHANGED <<cfg, now, applied>>
           /\ pc' # "step" \/ pc' = pc
           /\ primary' = "none" => primary = "none"
  BY <1>3 DEF InputInv
<1>. QED BY <1>1, <1>2, <1>3, InputFrame

\* InputsOnTime: no scheduled update is late or skipped, whatever early returns
\* lie between two communication points.
THEOREM InputsAreOnTime == Spec => []InputsOnTime
<1>1. TypeInv /\ InputInv => InputsOnTime
  <2>. SUFFICES ASSUME TypeInv, InputInv PROVE InputsOnTime
    OBVIOUS
  <2>1. Len(applied) \in Nat /\ Len(cfg.schedule) \in Nat /\ cfg.schedule \in Seq(Nat)
        /\ applied \in Seq(Nat)
    BY ScheduleTypes DEF TypeInv
  <2>2. applied = SubSeq(cfg.schedule, 1, Len(applied))
    BY <2>1 DEF InputInv
  <2>. QED BY <2>2 DEF InputInv, InputsOnTime
<1>. QED
  BY <1>1, TypeInit, TypeStep, TimeInit, TimeStep, InputInit, InputStep, PTL DEF Spec

-----------------------------------------------------------------------------
(* The result. *)

Increasing(s) == \A i \in 1..Len(s) - 1 : s[i] < s[i + 1]
OnGrid(t) == t = 0 \/ IsSampleTime(t)

RecordedBefore == \A t \in 0..now : t \in Range(samples) <=> (OnGrid(t) /\ t < now)
RecordedUpTo == \A t \in 0..now : t \in Range(samples) <=> OnGrid(t)
RecordedAll == \A t \in 0..now : t \in Range(samples) <=> IsRecorded(t)

\* What is recorded at each point of run() that no exception has left.
Beginning == {"create", "initialize"}
Ending == {"terminate", "finalChunk", "finalReport", "cleanup", "close", "finish", "done"}
SampleInv ==
    /\ Increasing(samples)
    /\ \A i \in 1..Len(samples) : samples[i] <= now
    /\ primary = "none" =>
          /\ pc \in Beginning => samples = <<>> /\ now = 0
          /\ pc = "sample" => OnGrid(now) /\ RecordedBefore
          /\ pc \in {"report", "top", "inputs", "step", "finalSample"} =>
                samples # <<>> /\ RecordedUpTo
          /\ pc \in Ending => RecordedAll

\* Why the loop was left, and what is reported of it.
EndInv ==
    /\ stopped => stop
    /\ pc \notin {"finalSample"} \union Ending => ~stopped
    /\ primary = "none" /\ pc \in {"finalSample"} \union Ending /\ ~stopped =>
          now = cfg.stop \/ (~cfg.variable /\ Target < ConfiguredTarget)
    /\ outcome \in Results =>
          /\ primary = "none" /\ pc = "done"
          /\ outcome = "STOPPED" <=> stopped
    /\ pc # "done" => outcome = "none"

\* An appended element is the only new one.
LEMMA AppendRange ==
    ASSUME NEW S, NEW s \in Seq(S), NEW x \in S
    PROVE  Range(Append(s, x)) = Range(s) \union {x}
<1>1. /\ Append(s, x) \in Seq(S) /\ Len(Append(s, x)) = Len(s) + 1 /\ Len(s) \in Nat
      /\ DOMAIN Append(s, x) = 1..Len(s) + 1 /\ DOMAIN s = 1..Len(s)
      /\ \A i \in 1..Len(s) : Append(s, x)[i] = s[i]
      /\ Append(s, x)[Len(s) + 1] = x
  OBVIOUS
<1>. HIDE <1>1
<1>2. ASSUME NEW y \in Range(Append(s, x)) PROVE y \in Range(s) \union {x}
  <2>1. PICK i \in 1..Len(s) + 1 : y = Append(s, x)[i]
    BY <1>1, <1>2 DEF Range
  <2>2. CASE i = Len(s) + 1
    BY <1>1, <2>1, <2>2
  <2>3. CASE i # Len(s) + 1
    <3>1. i \in 1..Len(s)
      BY <1>1, <2>3
    <3>. QED BY <1>1, <2>1, <3>1 DEF Range
  <2>. QED BY <2>2, <2>3
<1>3. x \in Range(Append(s, x))
  <2>1. Len(s) + 1 \in 1..Len(s) + 1
    BY <1>1
  <2>. QED BY <1>1, <2>1 DEF Range
<1>4. ASSUME NEW y \in Range(s) PROVE y \in Range(Append(s, x))
  <2>1. PICK i \in 1..Len(s) : y = s[i]
    BY <1>1, <1>4 DEF Range
  <2>2. i \in 1..Len(s) + 1 /\ y = Append(s, x)[i]
    BY <1>1, <2>1
  <2>. QED BY <1>1, <2>2 DEF Range
<1>. QED BY <1>2, <1>3, <1>4

\* A sequence stays increasing when something larger is appended.
LEMMA AppendIncreasing ==
    ASSUME NEW s \in Seq(Nat), NEW x \in Nat, Increasing(s),
           s # <<>> => s[Len(s)] < x
    PROVE  Increasing(Append(s, x))
<1>1. /\ Len(Append(s, x)) = Len(s) + 1 /\ Len(s) \in Nat
      /\ \A i \in 1..Len(s) : Append(s, x)[i] = s[i]
      /\ Append(s, x)[Len(s) + 1] = x
  OBVIOUS
<1>2. SUFFICES ASSUME NEW i \in 1..Len(s) PROVE Append(s, x)[i] < Append(s, x)[i + 1]
  BY <1>1 DEF Increasing
<1>3. CASE i = Len(s)
  BY <1>1, <1>3
<1>4. CASE i # Len(s)
  BY <1>1, <1>4 DEF Increasing
<1>. QED BY <1>3, <1>4

\* Whatever the step, no sample time lies inside it.
LEMMA NoSampleTimeBetween ==
    ASSUME TypeInv, TimeInv, primary = "none", now < cfg.stop,
           NEW u \in Nat, OnGrid(u), now < u
    PROVE  Target <= u
<1>1. /\ cfg.step \in Nat \ {0} /\ cfg.interval \in Nat \ {0}
      /\ cfg.interval % cfg.step = 0 /\ cfg.stop \in Nat
      /\ ConfiguredTarget \in Nat /\ Target \in Nat /\ steps * cfg.step \in Nat
  BY ConfigTypes DEF Even
<1>2. now \in Nat /\ steps \in Nat
  BY DEF TypeInv
<1>3. steps * cfg.step <= now
  BY <1>1, <1>2 DEF TimeInv
<1>4. u % cfg.interval = 0
  BY <1>2 DEF OnGrid, IsSampleTime
<1>5. u % cfg.step = 0
  BY <1>1, <1>4, MultipleOfMultiple
<1>6. steps * cfg.step < u
  BY <1>1, <1>2, <1>3
<1>7. ConfiguredTarget <= u
  BY <1>1, <1>2, <1>5, <1>6, NoMultipleBetween DEF ConfiguredTarget
<1>8. Target <= ConfiguredTarget
  BY <1>1 DEF Target
<1>. QED BY <1>1, <1>7, <1>8

\* Nothing is sampled before the first point of the run.
LEMMA SampleInit == TypeInv /\ Init => SampleInv /\ EndInv
BY DEF Init, SampleInv, EndInv, Increasing, Beginning, Ending, Results

\* The step crosses no sample time, and reaches one only as its target.
LEMMA StepKeepsSamples == TypeInv /\ TimeInv /\ SampleInv /\ Step => SampleInv'
<1>. SUFFICES ASSUME TypeInv, TimeInv, SampleInv, Step PROVE SampleInv'
  OBVIOUS
<1>1. /\ now \in Nat /\ samples \in Seq(Nat) /\ Len(samples) \in Nat
      /\ \A i \in 1..Len(samples) : samples[i] \in Nat
      /\ DOMAIN samples = 1..Len(samples)
  BY DEF TypeInv
<1>2. pc = "step" /\ primary = "none" /\ UNCHANGED <<cfg, samples>>
  BY DEF Step, TimeInv, InTry, accumulatorVars
<1>3. Target \in Nat /\ cfg.stop \in Nat /\ ConfiguredTarget \in Nat
  BY ConfigTypes DEF Even
<1>4. now < cfg.stop /\ now < Target
  BY <1>1, <1>2, <1>3 DEF TimeInv, Target
<1>5. samples # <<>> /\ RecordedUpTo
  BY <1>2 DEF SampleInv
<1>6. now' \in Nat /\ now <= now'
  <2>1. \A r \in Returns : r.time \in Nat /\ now <= r.time
    BY <1>1, <1>3, <1>4, ReturnsReach DEF Reached
  <2>. QED BY <1>1, <2>1 DEF Step
<1>7. \A i \in 1..Len(samples) : samples[i] <= now'
  BY <1>1, <1>6 DEF SampleInv
<1>8. Increasing(samples)
  BY DEF SampleInv
<1>9. CASE primary' = "none"
  <2>1. /\ now' <= Target /\ pc' \in {"sample", "report"}
        /\ pc' = "sample" <=> (now' = Target /\ IsSampleTime(now'))
    BY <1>1, <1>3, <1>6, <1>9, StepReaches
  <2>2. ASSUME NEW u \in 0..now'
        PROVE  u \in Range(samples) <=> (OnGrid(u) /\ (u < now' \/ pc' # "sample"))
    <3>1. CASE u <= now
      <4>1. u \in Range(samples) <=> OnGrid(u)
        BY <1>1, <1>5, <3>1 DEF RecordedUpTo
      <4>2. u < now' \/ pc' # "sample"
        BY <1>1, <1>3, <1>4, <1>6, <2>1, <3>1
      <4>. QED BY <4>1, <4>2
    <3>2. CASE u > now
      <4>1. u \notin Range(samples)
        BY <1>1, <3>2 DEF Range, SampleInv
      <4>2. SUFFICES ASSUME OnGrid(u) PROVE u = now' /\ pc' = "sample"
        BY <1>6, <4>1
      <4>3. u \in Nat /\ Target <= u
        BY <1>1, <1>2, <1>4, <1>6, <3>2, <4>2, NoSampleTimeBetween
      <4>4. u = now' /\ now' = Target
        BY <1>3, <1>6, <2>1, <4>3
      <4>5. IsSampleTime(u)
        BY <1>1, <3>2, <4>2 DEF OnGrid
      <4>. QED BY <2>1, <4>4, <4>5
    <3>. QED BY <1>1, <1>6, <3>1, <3>2
  <2>3. \A u : OnGrid(u)' <=> OnGrid(u)
    BY <1>2 DEF OnGrid, IsSampleTime
  <2>4. CASE pc' = "sample"
    <3>1. RecordedBefore' /\ OnGrid(now)'
      BY <1>2, <2>1, <2>2, <2>4 DEF RecordedBefore, OnGrid, IsSampleTime
    <3>. QED BY <1>2, <1>7, <1>8, <2>4, <3>1 DEF SampleInv, Beginning, Ending
  <2>5. CASE pc' = "report"
    <3>1. RecordedUpTo'
      BY <1>2, <2>1, <2>2, <2>5 DEF RecordedUpTo, OnGrid, IsSampleTime
    <3>. QED BY <1>2, <1>5, <1>7, <1>8, <2>5, <3>1 DEF SampleInv, Beginning, Ending
  <2>. QED BY <2>1, <2>4, <2>5
<1>10. CASE primary' # "none"
  BY <1>2, <1>7, <1>8, <1>10 DEF SampleInv
<1>. QED BY <1>9, <1>10

\* A sample is taken when the one before it is in the past.
LEMMA RecordKeepsSamples ==
    ASSUME TypeInv, TimeInv, SampleInv, Sample \/ (FinalSample /\ NeedsFinalSample)
    PROVE  SampleInv'
<1>1. /\ now \in Nat /\ samples \in Seq(Nat) /\ Len(samples) \in Nat
      /\ \A i \in 1..Len(samples) : samples[i] \in Nat
      /\ DOMAIN samples = 1..Len(samples)
  BY DEF TypeInv
<1>2. /\ pc \in {"sample", "finalSample"} /\ primary = "none" /\ UNCHANGED <<cfg, now>>
  BY DEF Sample, FinalSample, TimeInv, InTry, stepVars
<1>3. /\ pc = "sample" => OnGrid(now) /\ RecordedBefore
      /\ pc = "finalSample" => samples # <<>> /\ RecordedUpTo
  BY <1>2 DEF SampleInv
<1>4. /\ Increasing(samples)
      /\ \A i \in 1..Len(samples) : samples[i] <= now
  BY DEF SampleInv
<1>5. CASE primary' # "none"
  <2>1. samples' = samples
    BY <1>2, <1>5 DEF Sample, FinalSample, Recorded, accumulatorVars
  <2>. QED BY <1>2, <1>4, <1>5, <2>1 DEF SampleInv
<1>6. CASE primary' = "none"
  <2>1. /\ samples' = Append(samples, now)
        /\ pc = "sample" => pc' = "report"
        /\ pc = "finalSample" => pc' = "terminate"
    BY <1>6 DEF Sample, FinalSample, Recorded, Raise
  <2>2. ASSUME samples # <<>> PROVE samples[Len(samples)] < now
    <3>1. Len(samples) \in 1..Len(samples)
      BY <1>1, <2>2
    <3>2. CASE pc = "finalSample"
      <4>1. samples[Len(samples)] # now
        BY <3>2 DEF Sample, FinalSample, NeedsFinalSample
      <4>. QED BY <1>1, <1>4, <3>1, <4>1
    <3>3. CASE pc = "sample"
      <4>1. samples[Len(samples)] \in Range(samples) /\ samples[Len(samples)] \in 0..now
        BY <1>1, <1>4, <3>1 DEF Range
      <4>. QED BY <1>3, <3>3, <4>1 DEF RecordedBefore
    <3>. QED BY <1>2, <3>2, <3>3
  <2>3. Increasing(samples')
    BY <1>1, <1>4, <2>1, <2>2, AppendIncreasing
  <2>4. Range(samples') = Range(samples) \union {now}
    BY <1>1, <2>1, AppendRange
  <2>5. samples' # <<>> /\ \A i \in 1..Len(samples') : samples'[i] <= now
    BY <1>1, <1>4, <2>1
  <2>6. CASE pc = "sample"
    <3>1. RecordedUpTo'
      BY <1>1, <1>2, <1>3, <2>4, <2>6 DEF RecordedBefore, RecordedUpTo, OnGrid, IsSampleTime
    <3>. QED BY <1>2, <2>1, <2>3, <2>5, <2>6, <3>1 DEF SampleInv, Beginning, Ending
  <2>7. CASE pc = "finalSample"
    <3>1. RecordedAll'
      BY <1>1, <1>2, <1>3, <2>4, <2>7 DEF RecordedAll, RecordedUpTo, OnGrid, IsSampleTime,
         IsRecorded
    <3>. QED BY <1>2, <2>1, <2>3, <2>5, <2>7, <3>1 DEF SampleInv, Beginning, Ending
  <2>. QED BY <1>2, <2>6, <2>7
<1>. QED BY <1>5, <1>6

\* Every step keeps what the samples are.
LEMMA SampleStep == TypeInv /\ TimeInv /\ SampleInv /\ [Next]_vars => SampleInv'
<1>. SUFFICES ASSUME TypeInv, TimeInv, SampleInv, [Next]_vars PROVE SampleInv'
  OBVIOUS
<1>1. CASE Step
  BY <1>1, StepKeepsSamples
<1>2. CASE Sample \/ (FinalSample /\ NeedsFinalSample)
  BY <1>2, RecordKeepsSamples
<1>3. CASE FinalSample /\ ~NeedsFinalSample
  <2>1. /\ UNCHANGED <<cfg, now, samples, primary>> /\ pc = "finalSample" /\ pc' = "terminate"
    BY <1>3 DEF FinalSample, accumulatorVars, stepVars
  <2>2. primary = "none" /\ samples # <<>> /\ RecordedUpTo
    BY <2>1 DEF SampleInv, TimeInv, InTry
  <2>3. samples \in Seq(Nat) /\ now \in Nat /\ samples[Len(samples)] = now
    BY <1>3 DEF TypeInv, NeedsFinalSample
  <2>4. now \in Range(samples)
    BY <2>2, <2>3 DEF Range
  <2>5. RecordedAll'
    BY <2>1, <2>2, <2>3, <2>4 DEF RecordedAll, RecordedUpTo, IsRecorded, OnGrid, IsSampleTime
  <2>. QED BY <2>1, <2>5 DEF SampleInv, Beginning, Ending
<1>4. CASE UNCHANGED <<cfg, now, samples>> /\ ~Sample /\ ~FinalSample /\ ~Step
  <2>1. /\ RecordedBefore' <=> RecordedBefore
        /\ RecordedUpTo' <=> RecordedUpTo
        /\ RecordedAll' <=> RecordedAll
        /\ OnGrid(now)' <=> OnGrid(now)
        /\ Increasing(samples)' <=> Increasing(samples)
    BY <1>4 DEF RecordedBefore, RecordedUpTo, RecordedAll, IsRecorded, OnGrid, IsSampleTime,
       Increasing
  <2>2. \/ primary' # "none"
        \/ pc' = pc /\ primary' = primary
        \/ primary' = primary /\ pc \in Ending /\ pc' \in Ending
        \/ /\ primary' = primary /\ pc \in {"report", "top", "inputs"}
           /\ pc' \in {"top", "inputs", "step", "finalSample"}
        \/ primary' = primary /\ pc = "create" /\ pc' = "initialize"
        \/ primary' = primary /\ pc = "initialize" /\ pc' = "sample"
    <3>. USE DEF Raise, Ending, InTry
    <3>1. CASE Create \/ Initialize \/ Report \/ Top \/ ApplyInputs
      BY <3>1 DEF Create, Initialize, Report, Top, ApplyInputs
    <3>2. CASE Terminate \/ FinalChunk \/ FinalReport
      BY <3>2 DEF Terminate, FinalChunk, FinalReport
    <3>3. CASE CleanupTerminate \/ Close \/ Finish
      BY <3>3 DEF CleanupTerminate, AfterCleanupTerminate, Close, Finish
    <3>4. CASE Interrupt \/ RequestStop \/ UNCHANGED vars
      BY <3>4 DEF Interrupt, RequestStop, vars
    <3>. QED BY <1>4, <3>1, <3>2, <3>3, <3>4 DEF Next, Runner
  <2>3. \A i \in 1..Len(samples') : samples'[i] <= now'
    BY <1>4 DEF SampleInv
  <2>4. CASE primary' = primary /\ pc = "initialize" /\ pc' = "sample"
    <3>1. ASSUME primary = "none" PROVE RecordedBefore /\ OnGrid(now)
      BY <2>4, <3>1 DEF SampleInv, RecordedBefore, OnGrid, Beginning, Range
    <3>. QED BY <1>4, <2>1, <2>3, <2>4, <3>1 DEF SampleInv, Beginning, Ending
  <2>5. CASE primary' # "none"
    BY <2>1, <2>3, <2>5 DEF SampleInv
  <2>. QED BY <1>4, <2>1, <2>2, <2>3, <2>4, <2>5 DEF SampleInv, Beginning, Ending
<1>5. \/ Step \/ Sample \/ FinalSample \/ UNCHANGED <<cfg, now, samples>>
  BY DEF Next, Runner, Create, Initialize, Report, Top, ApplyInputs, Terminate, FinalChunk,
     FinalReport, CleanupTerminate, Close, Finish, Interrupt, RequestStop, vars, stepVars,
     accumulatorVars
<1>. QED BY <1>1, <1>2, <1>3, <1>4, <1>5

\* The loop is left because time is up, because the rest is a partial step the FMU
\* cannot take, or because a stop was seen.
LEMMA EndStep == TypeInv /\ TimeInv /\ EndInv /\ [Next]_vars => EndInv'
<1>. SUFFICES ASSUME TypeInv, TimeInv, EndInv, [Next]_vars PROVE EndInv'
  OBVIOUS
<1>1. CASE Step
  BY <1>1 DEF Step, EndInv, Raise, Ending, endVars, Results
<1>2. CASE UNCHANGED <<cfg, now, steps>>
  <2>1. UNCHANGED <<ConfiguredTarget, Target, PartialStepRefused>>
    BY <1>2 DEF ConfiguredTarget, Target, PartialStepRefused
  <2>. USE DEF EndInv, Raise, stepVars, accumulatorVars, sessionVars, endVars, Ending, InTry,
           Results
  <2>2. CASE Top
    <3>1. cfg.stop \in Nat /\ now \in Nat
      BY ConfigTypes DEF Even, TypeInv
    <3>2. primary = "none" => now <= cfg.stop
      BY DEF TimeInv
    <3>3. AtEnd => now = cfg.stop \/ primary # "none"
      BY <3>1, <3>2 DEF AtEnd
    <3>. QED BY <1>2, <2>1, <2>2, <3>3 DEF Top, ObservedStop, PartialStepRefused
  <2>3. CASE Create \/ Initialize \/ Report \/ Terminate \/ FinalReport
    BY <1>2, <2>1, <2>3 DEF Create, Initialize, Report, Terminate, FinalReport
  <2>4. CASE Sample
    BY <1>2, <2>1, <2>4 DEF Sample, Recorded
  <2>5. CASE ApplyInputs
    BY <1>2, <2>1, <2>5 DEF ApplyInputs
  <2>6. CASE FinalSample
    BY <1>2, <2>1, <2>6 DEF FinalSample, Recorded
  <2>7. CASE FinalChunk
    BY <1>2, <2>1, <2>7 DEF FinalChunk
  <2>8. CASE CleanupTerminate \/ Close
    <3>1. CASE CleanupTerminate
      BY <1>2, <2>1, <3>1 DEF CleanupTerminate, AfterCleanupTerminate
    <3>2. CASE Close
      BY <1>2, <2>1, <3>2 DEF Close
    <3>. QED BY <2>8, <3>1, <3>2
  <2>9. CASE Finish
    BY <1>2, <2>1, <2>9 DEF Finish
  <2>10. CASE Interrupt
    BY <1>2, <2>1, <2>10 DEF Interrupt
  <2>11. CASE RequestStop \/ UNCHANGED vars
    BY <1>2, <2>1, <2>11 DEF RequestStop, vars
  <2>12. CASE Step
    BY <1>1, <2>12
  <2>. QED
    BY <2>2, <2>3, <2>4, <2>5, <2>6, <2>7, <2>8, <2>9, <2>10, <2>11, <2>12 DEF Next, Runner
<1>3. Step \/ UNCHANGED <<cfg, now, steps>>
  BY DEF Next, Runner, Create, Initialize, Sample, Report, Top, ApplyInputs, FinalSample,
     Terminate, FinalChunk, FinalReport, CleanupTerminate, Close, Finish, Interrupt,
     RequestStop, vars, stepVars
<1>. QED BY <1>1, <1>2, <1>3

\* ResultExact: the samples of a COMPLETED or STOPPED run are exactly the initial
\* point, the reached multiples of the output interval and the final time, in
\* order, and the run ended for the reason its outcome gives.
THEOREM ResultIsExact == Spec => []ResultExact
<1>1. TypeInv /\ TimeInv /\ SampleInv /\ EndInv => ResultExact
  <2>. SUFFICES ASSUME TypeInv, TimeInv, SampleInv, EndInv, outcome \in Results
                PROVE  /\ \A t \in 0..now : IsRecorded(t) <=> t \in Range(samples)
                       /\ \A i \in 1..Len(samples) - 1 : samples[i] < samples[i + 1]
                       /\ \/ outcome = "STOPPED" /\ stop
                          \/ outcome = "COMPLETED" /\ now = cfg.stop
                          \/ /\ outcome = "COMPLETED" /\ ~cfg.variable
                             /\ now = steps * cfg.step /\ cfg.stop - now < cfg.step
    BY DEF ResultExact
  <2>1. primary = "none" /\ pc \in Ending /\ (outcome = "STOPPED" <=> stopped)
    BY DEF EndInv, Ending
  <2>2. RecordedAll /\ Increasing(samples)
    BY <2>1 DEF SampleInv
  <2>3. CASE stopped
    BY <2>1, <2>2, <2>3 DEF EndInv, RecordedAll, Increasing
  <2>4. CASE ~stopped
    <3>1. outcome = "COMPLETED"
      BY <2>1, <2>4 DEF Results
    <3>2. now = cfg.stop \/ (~cfg.variable /\ Target < ConfiguredTarget)
      BY <2>1, <2>4 DEF EndInv
    <3>3. ASSUME ~cfg.variable, Target < ConfiguredTarget, now # cfg.stop
          PROVE  now = steps * cfg.step /\ cfg.stop - now < cfg.step
      <4>1. now = steps * cfg.step
        BY <2>1, <3>3 DEF TimeInv
      <4>2. /\ cfg.step \in Nat /\ cfg.stop \in Nat /\ now \in Nat
            /\ ConfiguredTarget = now + cfg.step
        BY <4>1, ConfigTypes DEF Even, TypeInv
      <4>. QED BY <3>3, <4>1, <4>2 DEF Target
    <3>. QED BY <2>2, <3>1, <3>2, <3>3 DEF RecordedAll, Increasing
  <2>. QED BY <2>3, <2>4
<1>. QED
  BY <1>1, TypeInit, TypeStep, TimeInit, TimeStep, SampleInit, SampleStep, EndStep, PTL
  DEF Spec

-----------------------------------------------------------------------------
(* The chunks of the result. *)

\* The chunks `cs` follow each other through the samples `s`, k samples apart.
Sliced(cs, s, k) ==
    \A i \in 1..Len(cs) :
       /\ cs[i].time # <<>>
       /\ (i - 1) * k + Len(cs[i].time) <= Len(s)
       /\ \A j \in 1..Len(cs[i].time) : cs[i].time[j] = s[(i - 1) * k + j]

\* No chunk is the final one, and each is full.
AllFull(cs, k) == \A i \in 1..Len(cs) : ~cs[i].final /\ Len(cs[i].time) = k

\* The pending samples are those that the chunks `cs` have not delivered yet.
Remainder(p, cs, s, k) ==
    /\ Len(s) = Len(cs) * k + Len(p) /\ Len(p) <= k
    /\ \A j \in 1..Len(p) : p[j] = s[Len(cs) * k + j]

Streaming == InTry \ {"finalReport"}
ChunkInv ==
    /\ Sliced(chunks, samples, cfg.chunk)
    /\ cfg.chunk = 0 => pending = <<>> /\ chunks = <<>>
    /\ \A i \in 1..Len(chunks) - 1 :
          ~chunks[i].final /\ Len(chunks[i].time) = cfg.chunk
    /\ pc \in Streaming =>
          /\ ~terminal /\ AllFull(chunks, cfg.chunk)
          /\ cfg.chunk > 0 =>
                /\ Remainder(pending, chunks, samples, cfg.chunk)
                /\ pc \notin {"create", "initialize", "sample"} => pending # <<>>
    /\ pc = "finalReport" => ~terminal /\ (HasFinalChunk \/ cfg.chunk = 0)
    /\ HasFinalChunk =>
          /\ Offset(Len(chunks)) + Len(chunks[Len(chunks)].time) = Len(samples)
          /\ primary \notin {"terminate", "step"}
    /\ terminal => (HasFinalChunk \/ cfg.chunk = 0)

\* One more sample leaves the delivered chunks where they are.
LEMMA SampleKeepsSlices ==
    ASSUME NEW cs \in Seq(Chunk), NEW s \in Seq(Nat), NEW k \in Nat, NEW x \in Nat,
           Sliced(cs, s, k)
    PROVE  Sliced(cs, Append(s, x), k)
<1>1. /\ Len(Append(s, x)) = Len(s) + 1 /\ Len(s) \in Nat
      /\ \A i \in 1..Len(s) : Append(s, x)[i] = s[i]
  OBVIOUS
<1>. SUFFICES ASSUME NEW i \in 1..Len(cs)
              PROVE  /\ cs[i].time # <<>>
                     /\ (i - 1) * k + Len(cs[i].time) <= Len(s) + 1
                     /\ \A j \in 1..Len(cs[i].time) :
                           cs[i].time[j] = Append(s, x)[(i - 1) * k + j]
  BY <1>1 DEF Sliced
<1>2. Len(cs) \in Nat /\ Len(cs[i].time) \in Nat
  BY DEF Chunk
<1>. DEFINE o == (i - 1) * k
<1>3. o \in Nat
  BY <1>2
<1>4. /\ cs[i].time # <<>> /\ o + Len(cs[i].time) <= Len(s)
      /\ \A j \in 1..Len(cs[i].time) : cs[i].time[j] = s[o + j]
  BY DEF Sliced
<1>. HIDE DEF o
<1>5. \A j \in 1..Len(cs[i].time) : o + j \in 1..Len(s)
  BY <1>1, <1>2, <1>3, <1>4
<1>6. /\ o + Len(cs[i].time) <= Len(s) + 1
      /\ \A j \in 1..Len(cs[i].time) : cs[i].time[j] = Append(s, x)[o + j]
  BY <1>1, <1>2, <1>3, <1>4, <1>5
<1>. QED BY <1>4, <1>6 DEF o

\* What the samples still owe, delivered as a chunk, is the next slice.
LEMMA DeliveryIsNextSlice ==
    ASSUME NEW cs \in Seq(Chunk), NEW s \in Seq(Nat), NEW k \in Nat, NEW c \in Chunk,
           Sliced(cs, s, k), Remainder(c.time, cs, s, k), c.time # <<>>
    PROVE  Sliced(Append(cs, c), s, k)
<1>1. /\ Len(Append(cs, c)) = Len(cs) + 1 /\ Len(cs) \in Nat
      /\ \A i \in 1..Len(cs) : Append(cs, c)[i] = cs[i]
      /\ Append(cs, c)[Len(cs) + 1] = c
  OBVIOUS
<1>. DEFINE ds == Append(cs, c)
<1>. HIDE DEF ds
<1>. SUFFICES ASSUME NEW i \in 1..Len(cs) + 1
              PROVE  /\ ds[i].time # <<>>
                     /\ (i - 1) * k + Len(ds[i].time) <= Len(s)
                     /\ \A j \in 1..Len(ds[i].time) : ds[i].time[j] = s[(i - 1) * k + j]
  BY <1>1 DEF Sliced, ds
<1>2. CASE i \in 1..Len(cs)
  <2>1. ds[i] = cs[i]
    BY <1>1, <1>2 DEF ds
  <2>. QED BY <1>2, <2>1 DEF Sliced
<1>3. CASE i = Len(cs) + 1
  <2>1. ds[i] = c /\ i - 1 = Len(cs) /\ Len(cs) * k \in Nat
    BY <1>1, <1>3 DEF ds
  <2>2. Len(c.time) \in Nat /\ Len(s) \in Nat
    BY DEF Chunk
  <2>. QED BY <2>1, <2>2 DEF Remainder
<1>4. i \in 1..Len(cs) \/ i = Len(cs) + 1
  BY <1>1
<1>. QED BY <1>2, <1>3, <1>4

\* Appending to full chunks leaves all but the last full, and a full one all.
LEMMA AppendFull ==
    ASSUME NEW cs \in Seq(Chunk), NEW k \in Nat, NEW c \in Chunk,
           AllFull(cs, k)
    PROVE  /\ \A i \in 1..Len(Append(cs, c)) - 1 :
                 ~Append(cs, c)[i].final /\ Len(Append(cs, c)[i].time) = k
           /\ ~c.final /\ Len(c.time) = k => AllFull(Append(cs, c), k)
<1>1. /\ Len(Append(cs, c)) = Len(cs) + 1 /\ Len(cs) \in Nat
      /\ \A i \in 1..Len(cs) : Append(cs, c)[i] = cs[i]
      /\ Append(cs, c)[Len(cs) + 1] = c
  OBVIOUS
<1>. DEFINE ds == Append(cs, c)
<1>. HIDE DEF ds
<1>2. \A i \in 1..Len(cs) : ~ds[i].final /\ Len(ds[i].time) = k
  BY <1>1 DEF AllFull, ds
<1>3. Len(ds) - 1 = Len(cs)
  BY <1>1 DEF ds
<1>4. ASSUME ~c.final, Len(c.time) = k, NEW i \in 1..Len(cs) + 1
      PROVE  ~ds[i].final /\ Len(ds[i].time) = k
  <2>1. CASE i = Len(cs) + 1
    BY <1>1, <1>4, <2>1 DEF ds
  <2>2. CASE i # Len(cs) + 1
    BY <1>1, <1>2, <1>4, <2>2
  <2>. QED BY <2>1, <2>2
<1>5. ~c.final /\ Len(c.time) = k => AllFull(ds, k)
  BY <1>1, <1>3, <1>4 DEF AllFull, ds
<1>. QED BY <1>2, <1>3, <1>5 DEF ds

\* The next sample becomes pending.
LEMMA PendingGrows ==
    ASSUME NEW p \in Seq(Nat), NEW cs \in Seq(Chunk), NEW s \in Seq(Nat),
           NEW k \in Nat \ {0}, NEW x \in Nat, Remainder(p, cs, s, k), Len(p) # k
    PROVE  Remainder(Append(p, x), cs, Append(s, x), k)
<1>. DEFINE o == Len(cs) * k
<1>1. o \in Nat /\ Len(p) \in Nat /\ Len(s) \in Nat
  OBVIOUS
<1>2. /\ Len(Append(s, x)) = Len(s) + 1 /\ Len(Append(p, x)) = Len(p) + 1
      /\ \A i \in 1..Len(s) : Append(s, x)[i] = s[i]
      /\ Append(s, x)[Len(s) + 1] = x
      /\ \A i \in 1..Len(p) : Append(p, x)[i] = p[i]
      /\ Append(p, x)[Len(p) + 1] = x
  OBVIOUS
<1>3. /\ Len(s) = o + Len(p) /\ Len(p) <= k
      /\ \A j \in 1..Len(p) : p[j] = s[o + j]
  BY DEF Remainder
<1>. HIDE DEF o
<1>4. ASSUME NEW j \in 1..Len(p) + 1 PROVE Append(p, x)[j] = Append(s, x)[o + j]
  <2>1. CASE j = Len(p) + 1
    BY <1>1, <1>2, <1>3, <2>1
  <2>2. CASE j \in 1..Len(p)
    <3>1. o + j \in 1..Len(s)
      BY <1>1, <1>3, <2>2
    <3>. QED BY <1>2, <1>3, <2>2, <3>1
  <2>3. j = Len(p) + 1 \/ j \in 1..Len(p)
    BY <1>1, <1>4
  <2>. QED BY <2>1, <2>2, <2>3
<1>5. /\ Len(s) + 1 = o + (Len(p) + 1) /\ Len(p) + 1 <= k
  BY <1>1, <1>3
<1>. QED BY <1>2, <1>4, <1>5 DEF Remainder, o

\* After a delivery the next sample alone is pending.
LEMMA PendingRestarts ==
    ASSUME NEW p \in Seq(Nat), NEW cs \in Seq(Chunk), NEW s \in Seq(Nat), NEW c \in Chunk,
           NEW k \in Nat \ {0}, NEW x \in Nat, Remainder(p, cs, s, k), Len(p) = k
    PROVE  Remainder(<<x>>, Append(cs, c), Append(s, x), k)
<1>1. /\ Len(cs) \in Nat /\ Len(s) \in Nat /\ Len(Append(cs, c)) = Len(cs) + 1
      /\ Len(Append(s, x)) = Len(s) + 1 /\ Append(s, x)[Len(s) + 1] = x
      /\ Len(<<x>>) = 1 /\ <<x>>[1] = x
  OBVIOUS
<1>2. (Len(cs) + 1) * k = Len(cs) * k + k /\ Len(cs) * k \in Nat
  BY <1>1, Distributes
<1>3. Len(s) = (Len(cs) + 1) * k
  BY <1>2 DEF Remainder
<1>. DEFINE o == (Len(cs) + 1) * k
<1>. HIDE DEF o
<1>4. Len(s) + 1 = o + 1 /\ 1 <= k /\ \A j \in 1..1 : <<x>>[j] = Append(s, x)[o + j]
  BY <1>1, <1>3 DEF o
<1>. QED BY <1>1, <1>4 DEF Remainder, o

\* Initially: what the chunks are.
LEMMA ChunkInit == TypeInv /\ Init => ChunkInv
<1>. SUFFICES ASSUME TypeInv, Init PROVE ChunkInv
  OBVIOUS
<1>1. /\ chunks = <<>> /\ pending = <<>> /\ samples = <<>> /\ pc = "create" /\ ~terminal
      /\ Len(chunks) = 0 /\ Len(samples) = 0 /\ Len(pending) = 0
  BY DEF Init
<1>2. cfg.chunk \in Nat /\ 0 * cfg.chunk = 0
  BY ConfigTypes
<1>3. Remainder(pending, chunks, samples, cfg.chunk)
  BY <1>1, <1>2 DEF Remainder
<1>. QED BY <1>1, <1>3 DEF ChunkInv, Sliced, AllFull, HasFinalChunk

\* A sample either joins the pending ones or sends them off as a full chunk; a
\* chunk whose callback raises has been delivered all the same.
LEMMA RecordKeepsChunks ==
    ASSUME TypeInv, TimeInv, ChunkInv, NEW next \in {"report", "terminate"},
           pc \in {"sample", "finalSample"}, Recorded(next), UNCHANGED <<cfg, terminal, now>>
    PROVE  ChunkInv'
<1>. DEFINE k == cfg.chunk
<1>. DEFINE d == [time |-> pending, final |-> FALSE]
<1>1. /\ k \in Nat /\ now \in Nat /\ samples \in Seq(Nat) /\ pending \in Seq(Nat)
      /\ chunks \in Seq(Chunk) /\ Len(chunks) \in Nat
  BY ConfigTypes DEF TypeInv
<1>2. /\ ~terminal /\ AllFull(chunks, k) /\ Sliced(chunks, samples, k)
      /\ k > 0 => Remainder(pending, chunks, samples, k)
      /\ k = 0 => pending = <<>> /\ chunks = <<>>
  BY DEF ChunkInv, Streaming, InTry
<1>3. d \in Chunk /\ d.time = pending /\ d.final = FALSE
  BY <1>1 DEF Chunk
<1>. HIDE DEF d
<1>4. /\ next \in Streaming /\ next \notin {"finalReport", "create", "initialize", "sample"}
      /\ "cleanup" \notin Streaming /\ "cleanup" # "finalReport"
  BY DEF Streaming, InTry
<1>5. ASSUME NEW s \in Seq(Nat), NEW p \in Seq(Nat), NEW cs \in Seq(Chunk),
             samples' = s, pending' = p, chunks' = cs, Sliced(cs, s, k), AllFull(cs, k),
             k = 0 => p = <<>> /\ cs = <<>>,
             pc' = "cleanup"
               \/ (pc' = next /\ (k > 0 => Remainder(p, cs, s, k) /\ p # <<>>))
      PROVE  ChunkInv'
  <2>1. Len(cs) \in Nat
    OBVIOUS
  <2>2. ~HasFinalChunk'
    <3>1. cs # <<>> => Len(cs) \in 1..Len(cs)
      OBVIOUS
    <3>. QED BY <1>5, <3>1 DEF HasFinalChunk, AllFull
  <2>3. \A i \in 1..Len(cs) - 1 : ~cs[i].final /\ Len(cs[i].time) = k
    BY <1>5, <2>1 DEF AllFull
  <2>4. CASE pc' = "cleanup"
    BY <1>2, <1>4, <1>5, <2>2, <2>3, <2>4 DEF ChunkInv
  <2>5. CASE pc' = next /\ (k > 0 => Remainder(p, cs, s, k) /\ p # <<>>)
    BY <1>2, <1>4, <1>5, <2>2, <2>3, <2>5 DEF ChunkInv
  <2>. QED BY <1>5, <2>4, <2>5
<1>6. ASSUME ChunkIsFull
      PROVE  /\ k > 0 /\ Len(pending) = k /\ pending # <<>> /\ Delivered(FALSE) = Append(chunks, d)
             /\ Append(chunks, d) \in Seq(Chunk)
             /\ Sliced(Append(chunks, d), samples, k) /\ AllFull(Append(chunks, d), k)
  <2>1. k > 0 /\ Len(pending) = k /\ pending # <<>>
    BY <1>1, <1>6 DEF ChunkIsFull
  <2>2. Delivered(FALSE) = Append(chunks, d)
    BY DEF Delivered, d
  <2>3. Append(chunks, d) \in Seq(Chunk)
    BY <1>1, <1>3
  <2>4. Sliced(Append(chunks, d), samples, k)
    BY <1>1, <1>2, <1>3, <2>1, DeliveryIsNextSlice
  <2>5. AllFull(Append(chunks, d), k)
    BY <1>1, <1>2, <1>3, <2>1, AppendFull
  <2>. QED BY <2>1, <2>2, <2>3, <2>4, <2>5
<1>7. CASE Raise("read") /\ UNCHANGED accumulatorVars
  BY <1>1, <1>2, <1>5, <1>7 DEF Raise, accumulatorVars
<1>8. CASE ChunkIsFull /\ chunks' = Delivered(FALSE) /\ Raise("chunk")
           /\ UNCHANGED <<samples, pending>>
  <2>1. samples' = samples /\ pending' = pending /\ pc' = "cleanup"
    BY <1>8 DEF Raise
  <2>2. chunks' = Append(chunks, d)
    BY <1>6, <1>8
  <2>3. k # 0
    BY <1>1, <1>6, <1>8
  <2>. QED BY <1>1, <1>5, <1>6, <1>8, <2>1, <2>2, <2>3
<1>9. CASE /\ samples' = Append(samples, now) /\ pending' = PendingAfter
           /\ chunks' = IF ChunkIsFull THEN Delivered(FALSE) ELSE chunks
           /\ pc' = next
  <2>1. Append(samples, now) \in Seq(Nat) /\ Append(pending, now) \in Seq(Nat)
    BY <1>1
  <2>a. Append(pending, now) # <<>>
    BY <1>1
  <2>b. <<now>> \in Seq(Nat) /\ <<now>> # <<>>
    BY <1>1
  <2>2. CASE k = 0
    <3>1. ~ChunkIsFull /\ PendingAfter = <<>>
      BY <2>2 DEF ChunkIsFull, PendingAfter
    <3>2. Sliced(chunks, Append(samples, now), k)
      BY <1>1, <1>2, SampleKeepsSlices
    <3>3. /\ samples' = Append(samples, now) /\ pending' = pending /\ chunks' = chunks
          /\ pc' = next
      BY <1>2, <1>9, <2>2, <3>1
    <3>4. chunks = <<>> /\ pending = <<>> /\ ~(k > 0)
      BY <1>1, <1>2, <2>2
    <3>. HIDE DEF k
    <3>. QED BY <1>1, <1>2, <1>5, <2>1, <2>2, <3>2, <3>3, <3>4
  <2>3. CASE k # 0 /\ ChunkIsFull
    <3>1. PendingAfter = <<now>>
      BY <2>3 DEF PendingAfter
    <3>2. Sliced(Append(chunks, d), Append(samples, now), k)
      BY <1>1, <1>6, <2>3, SampleKeepsSlices
    <3>3. Remainder(<<now>>, Append(chunks, d), Append(samples, now), k)
      BY <1>1, <1>2, <1>3, <1>6, <2>3, PendingRestarts
    <3>. QED BY <1>1, <1>5, <1>6, <1>9, <2>1, <2>b, <2>3, <3>1, <3>2, <3>3
  <2>4. CASE k # 0 /\ ~ChunkIsFull
    <3>1. PendingAfter = Append(pending, now) /\ k \in Nat \ {0} /\ Len(pending) # k
      BY <1>1, <2>4 DEF PendingAfter, ChunkIsFull
    <3>2. Sliced(chunks, Append(samples, now), k)
      BY <1>1, <1>2, SampleKeepsSlices
    <3>3. Remainder(Append(pending, now), chunks, Append(samples, now), k)
      BY <1>1, <1>2, <3>1, PendingGrows
    <3>. QED BY <1>1, <1>2, <1>5, <1>9, <2>1, <2>a, <2>4, <3>1, <3>2, <3>3
  <2>. QED BY <2>2, <2>3, <2>4
<1>. QED BY <1>7, <1>8, <1>9 DEF Recorded

\* At the end every sample not yet delivered goes into the final chunk.
LEMMA FinalKeepsChunks ==
    ASSUME TypeInv, TimeInv, ChunkInv, FinalChunk
    PROVE  ChunkInv'
<1>. DEFINE k == cfg.chunk
<1>. DEFINE d == [time |-> pending, final |-> TRUE]
<1>1. /\ k \in Nat /\ samples \in Seq(Nat) /\ pending \in Seq(Nat)
      /\ chunks \in Seq(Chunk) /\ Len(chunks) \in Nat
  BY ConfigTypes DEF TypeInv
<1>2. /\ pc = "finalChunk" /\ primary = "none" /\ UNCHANGED <<cfg, samples, terminal>>
      /\ \/ primary' = "none" /\ pc' = "finalReport"
         \/ primary' = "chunk" /\ pc' = "cleanup"
  BY DEF FinalChunk, TimeInv, InTry, Raise, endVars
<1>3. /\ ~terminal /\ AllFull(chunks, k) /\ Sliced(chunks, samples, k)
      /\ k > 0 => Remainder(pending, chunks, samples, k) /\ pending # <<>>
      /\ k = 0 => pending = <<>> /\ chunks = <<>>
  BY <1>2 DEF ChunkInv, Streaming, InTry
<1>4. d \in Chunk /\ d.time = pending /\ d.final = TRUE
  BY <1>1 DEF Chunk
<1>5. "finalReport" \notin Streaming /\ "cleanup" \notin Streaming
  BY DEF Streaming, InTry
<1>6. CASE k = 0
  <2>1. chunks' = <<>> /\ pending' = <<>>
    BY <1>3, <1>6 DEF FinalChunk
  <2>2. ~HasFinalChunk' /\ Len(chunks') = 0
    BY <2>1 DEF HasFinalChunk
  <2>. QED BY <1>2, <1>3, <1>5, <1>6, <2>1, <2>2 DEF ChunkInv, Sliced
<1>7. CASE k # 0
  <2>1. k > 0 /\ pending # <<>>
    BY <1>1, <1>3, <1>7
  <2>2. chunks' = Append(chunks, d)
    BY <2>1 DEF FinalChunk, Delivered
  <2>. HIDE DEF d
  <2>3. Sliced(Append(chunks, d), samples, k)
    BY <1>1, <1>3, <1>4, <2>1, DeliveryIsNextSlice
  <2>4. \A i \in 1..Len(Append(chunks, d)) - 1 :
           ~Append(chunks, d)[i].final /\ Len(Append(chunks, d)[i].time) = k
    BY <1>1, <1>3, <1>4, AppendFull
  <2>5. /\ chunks' # <<>> /\ Len(chunks') = Len(chunks) + 1 /\ chunks'[Len(chunks')] = d
    <3>1. /\ Append(chunks, d) # <<>> /\ Len(Append(chunks, d)) = Len(chunks) + 1
          /\ Append(chunks, d)[Len(chunks) + 1] = d
      BY <1>1, <1>4
    <3>. QED BY <2>2, <3>1
  <2>6. HasFinalChunk'
    BY <1>4, <2>5 DEF HasFinalChunk
  <2>7. Offset(Len(chunks))' = Len(chunks) * k
    BY <1>1, <1>2, <2>5 DEF Offset
  <2>8. (Offset(Len(chunks)) + Len(chunks[Len(chunks)].time) = Len(samples))'
    BY <1>2, <1>3, <1>4, <2>1, <2>5, <2>7 DEF Remainder
  <2>9. primary' \notin {"terminate", "step"}
    BY <1>2
  <2>. QED BY <1>2, <1>3, <1>5, <1>7, <2>2, <2>3, <2>4, <2>6, <2>8, <2>9 DEF ChunkInv
<1>. QED BY <1>6, <1>7

\* Nothing else touches the stream; the terminal report follows the final chunk.
LEMMA ChunkStep == TypeInv /\ TimeInv /\ ChunkInv /\ [Next]_vars => ChunkInv'
<1>. SUFFICES ASSUME TypeInv, TimeInv, ChunkInv, [Next]_vars PROVE ChunkInv'
  OBVIOUS
<1>1. CASE Sample
  BY <1>1, RecordKeepsChunks DEF Sample, stepVars, endVars
<1>2. CASE FinalSample /\ NeedsFinalSample
  BY <1>2, RecordKeepsChunks DEF FinalSample, stepVars, endVars
<1>3. CASE FinalChunk
  BY <1>3, FinalKeepsChunks
<1>4. CASE UNCHANGED <<cfg, samples, pending, chunks>> /\ ~Sample /\ ~FinalChunk
  <2>1. /\ HasFinalChunk' <=> HasFinalChunk
        /\ Offset(Len(chunks))' = Offset(Len(chunks))
    BY <1>4 DEF HasFinalChunk, Offset
  <2>2. HasFinalChunk => pc \notin Streaming
    <3>1. chunks \in Seq(Chunk)
      BY DEF TypeInv
    <3>2. chunks # <<>> => Len(chunks) \in 1..Len(chunks)
      BY <3>1
    <3>. QED BY <3>2 DEF ChunkInv, AllFull, HasFinalChunk
  <2>3. /\ pc' \in Streaming =>
             /\ pc \in Streaming
             /\ pc' \in {"create", "initialize", "sample"}
                   \/ pc \notin {"create", "initialize", "sample"}
        /\ pc' = "finalReport" => pc = "finalReport"
        /\ pc \notin Streaming /\ primary' \in {"terminate", "step"} => primary' = primary
        /\ terminal' = terminal \/ (pc = "finalReport" /\ pc' = "cleanup")
    <3>. USE DEF Raise, Streaming, InTry, endVars
    <3>1. CASE Create \/ Initialize \/ Report \/ Top \/ ApplyInputs
      BY <3>1 DEF Create, Initialize, Report, Top, ApplyInputs
    <3>2. CASE Terminate \/ FinalReport
      BY <3>2 DEF Terminate, FinalReport
    <3>3. CASE CleanupTerminate \/ Close \/ Finish
      BY <3>3 DEF CleanupTerminate, AfterCleanupTerminate, Close, Finish
    <3>4. CASE Interrupt \/ RequestStop \/ UNCHANGED vars
      BY <3>4 DEF Interrupt, RequestStop, vars
    <3>5. CASE FinalSample \/ Step
      BY <3>5 DEF FinalSample, Recorded, Step
    <3>. QED BY <1>4, <3>1, <3>2, <3>3, <3>4, <3>5 DEF Next, Runner
  <2>4. "cleanup" \notin Streaming /\ "finalReport" \notin Streaming
    BY DEF Streaming, InTry
  <2>. QED BY <1>4, <2>1, <2>2, <2>3, <2>4 DEF ChunkInv
<1>5. \/ Sample \/ FinalChunk \/ (FinalSample /\ NeedsFinalSample)
      \/ UNCHANGED <<cfg, samples, pending, chunks>>
  BY DEF Next, Runner, Create, Initialize, Report, Top, ApplyInputs, Step, FinalSample,
     Terminate, FinalReport, CleanupTerminate, Close, Finish, Interrupt, RequestStop, vars,
     stepVars, accumulatorVars
<1>. QED BY <1>1, <1>2, <1>3, <1>4, <1>5

\* ChunksFaithful: whatever call or callback raises, the chunks delivered so far
\* are the samples cut into full chunks, and a final chunk ends with the last one.
THEOREM ChunksAreFaithful == Spec => []ChunksFaithful
<1>1. TypeInv /\ ChunkInv => ChunksFaithful
  <2>. SUFFICES ASSUME TypeInv, ChunkInv PROVE ChunksFaithful
    OBVIOUS
  <2>1. chunks \in Seq(Chunk) /\ DOMAIN chunks = 1..Len(chunks)
    BY DEF TypeInv
  <2>2. ASSUME NEW i \in DOMAIN chunks PROVE Segment(i)
    <3>1. chunks[i].time \in Seq(Nat)
      <4>1. chunks[i] \in Chunk
        BY <2>1, <2>2
      <4>. QED BY <4>1 DEF Chunk
    <3>2. DOMAIN chunks[i].time = 1..Len(chunks[i].time)
      BY <3>1
    <3>. QED BY <2>1, <2>2, <3>2 DEF ChunkInv, Sliced, Segment, Offset
  <2>. QED BY <2>2 DEF ChunkInv, ChunksFaithful
<1>. QED
  BY <1>1, TypeInit, TypeStep, TimeInit, TimeStep, ChunkInit, ChunkStep, PTL DEF Spec

-----------------------------------------------------------------------------
(* A run cannot go round for ever: every step of the calling thread takes it *)
(* closer to its end, in the order of communication steps, attempts, points. *)

StepsLeft == cfg.stop - steps
AttemptsLeft == AttemptLimit + 1 - attempts

\* How far the points still ahead reach.  One turn of the loop goes from the inputs
\* to the top again.
PointsLeft ==
    CASE pc = "create"      -> 14
      [] pc = "initialize"  -> 13
      [] pc = "inputs"      -> 12
      [] pc = "step"        -> 11
      [] pc = "sample"      -> 10
      [] pc = "report"      -> 9
      [] pc = "top"         -> 8
      [] pc = "finalSample" -> 7
      [] pc = "terminate"   -> 6
      [] pc = "finalChunk"  -> 5
      [] pc = "finalReport" -> 4
      [] pc = "cleanup"     -> 3
      [] pc = "close"       -> 2
      [] pc = "finish"      -> 1
      [] pc = "done"        -> 0

Counted == {StepsLeft, AttemptsLeft, PointsLeft} \subseteq Nat
Closer ==
    \/ StepsLeft' < StepsLeft
    \/ StepsLeft' = StepsLeft /\ AttemptsLeft' < AttemptsLeft
    \/ /\ StepsLeft' = StepsLeft /\ AttemptsLeft' = AttemptsLeft
       /\ PointsLeft' < PointsLeft

\* A step ends at the stop time at the latest, and the attempt past the limit ends
\* the try block.
CountInv ==
    /\ steps <= cfg.stop
    /\ attempts <= AttemptLimit + 1
    /\ primary = "none" => attempts <= AttemptLimit

\* A native step begins before the stop time, so that the steps completed before
\* it are fewer than the instants up to there.
LEMMA StepsBeforeStop == TypeInv /\ TimeInv /\ pc = "step" => steps < cfg.stop
<1>. SUFFICES ASSUME TypeInv, TimeInv, pc = "step" PROVE steps < cfg.stop
  OBVIOUS
<1>1. cfg.step \in Nat \ {0} /\ cfg.stop \in Nat /\ steps \in Nat /\ now \in Nat
  BY ConfigTypes DEF Even, TypeInv
<1>2. steps * cfg.step < cfg.stop
  BY <1>1, ConfigTypes DEF TimeInv, InTry
<1>3. \A n \in Nat, k \in Nat \ {0} : n <= n * k
  OBVIOUS
<1>4. steps <= steps * cfg.step /\ steps * cfg.step \in Nat
  BY <1>1, <1>3, ConfigTypes
<1>. QED BY <1>1, <1>2, <1>4

\* Initially nothing is counted yet.
LEMMA CountInit == TypeInv /\ Init => CountInv
<1>. SUFFICES ASSUME TypeInv, Init PROVE CountInv
  OBVIOUS
<1>1. cfg.stop \in Nat /\ AttemptLimit \in Nat /\ steps = 0 /\ attempts = 0
  BY ConfigTypes, AttemptLimitAssumption DEF Init, Even
<1>. QED BY <1>1 DEF CountInv

\* What every step does to the two counters of the loop: only the native step
\* completes one, only the top of the loop makes an attempt.
LEMMA CounterFrame ==
    [Next]_vars => Step \/ Top \/ UNCHANGED <<cfg, steps, attempts>>
BY DEF Next, Runner, Create, Initialize, Sample, Report, ApplyInputs, FinalSample,
   Terminate, FinalChunk, FinalReport, CleanupTerminate, Close, Finish, Interrupt,
   RequestStop, vars, stepVars

\* A primary error stays one.
LEMMA ErrorStays == TypeInv /\ TimeInv /\ [Next]_vars => (primary # "none" => primary' # "none")
BY DEF Next, Runner, Create, Initialize, Sample, Recorded, Report, Top, ApplyInputs, Step,
   FinalSample, Terminate, FinalChunk, FinalReport, CleanupTerminate, Close, Finish,
   Interrupt, RequestStop, Raise, vars, TimeInv, InTry

\* Every step keeps the two counters in their bounds.
LEMMA CountStep == TypeInv /\ TimeInv /\ CountInv /\ [Next]_vars => CountInv'
<1>. SUFFICES ASSUME TypeInv, TimeInv, CountInv, [Next]_vars PROVE CountInv'
  OBVIOUS
<1>1. /\ cfg.stop \in Nat /\ steps \in Nat /\ attempts \in Nat /\ AttemptLimit \in Nat
  BY ConfigTypes, AttemptLimitAssumption DEF Even, TypeInv
<1>2. CASE Step
  <2>1. steps < cfg.stop /\ cfg' = cfg /\ primary = "none" /\ pc = "step"
    BY <1>2, StepsBeforeStop DEF Step, TimeInv, InTry
  <2>2. steps' \in {steps, steps + 1} /\ attempts' \in {attempts, 0}
    BY <1>2 DEF Step, AttemptsAfter
  <2>. QED BY <1>1, <2>1, <2>2 DEF CountInv
<1>3. CASE Top
  <2>1. primary = "none" /\ UNCHANGED <<cfg, steps>>
    BY <1>3 DEF Top, TimeInv, InTry
  <2>2. /\ attempts' \in {attempts, attempts + 1}
        /\ primary' = "none" => attempts' = attempts \/ attempts' <= AttemptLimit
    BY <1>1, <1>3 DEF Top, Raise
  <2>. QED BY <1>1, <2>1, <2>2 DEF CountInv
<1>4. CASE UNCHANGED <<cfg, steps, attempts>>
  BY <1>4, ErrorStays DEF CountInv
<1>. QED BY <1>2, <1>3, <1>4, CounterFrame

\* The three counts are natural numbers.
LEMMA CountedType == TypeInv /\ CountInv => Counted
<1>. SUFFICES ASSUME TypeInv, CountInv PROVE Counted
  OBVIOUS
<1>1. /\ cfg.stop \in Nat /\ steps \in Nat /\ attempts \in Nat /\ AttemptLimit \in Nat
  BY ConfigTypes, AttemptLimitAssumption DEF Even, TypeInv
<1>2. PointsLeft \in Nat
  BY DEF PointsLeft, TypeInv, Point, InTry
<1>. QED BY <1>1, <1>2 DEF Counted, CountInv, StepsLeft, AttemptsLeft

\* Every call, the ones that fail and the interrupted ones included, brings the run
\* closer to its end.
LEMMA CloserStep ==
    TypeInv /\ TimeInv /\ CountInv /\ (Runner \/ Interrupt) => Closer
<1>. SUFFICES ASSUME TypeInv, TimeInv, CountInv, Runner \/ Interrupt PROVE Closer
  OBVIOUS
<1>1. /\ cfg.stop \in Nat /\ steps \in Nat /\ attempts \in Nat /\ AttemptLimit \in Nat
  BY ConfigTypes, AttemptLimitAssumption DEF Even, TypeInv
<1>2. CASE Step
  <2>1. CASE pc' \in {"cleanup", "sample", "report"} /\ UNCHANGED <<cfg, steps, attempts>>
    BY <1>1, <1>2, <2>1 DEF Step, Closer, StepsLeft, AttemptsLeft, PointsLeft
  <2>2. CASE steps' = steps + 1 /\ cfg' = cfg
    BY <1>1, <2>2 DEF Closer, StepsLeft
  <2>. QED
    BY <1>2, <2>1, <2>2 DEF Step, AttemptsAfter, Raise
<1>3. CASE Top
  <2>1. CASE attempts' = attempts + 1
    BY <1>1, <1>3, <2>1 DEF Top, Closer, StepsLeft, AttemptsLeft
  <2>2. CASE pc' = "finalSample" /\ attempts' = attempts
    BY <1>1, <1>3, <2>2 DEF Top, Closer, StepsLeft, AttemptsLeft, PointsLeft
  <2>. QED BY <1>3, <2>1, <2>2 DEF Top
<1>4. CASE ~Step /\ ~Top
  <2>1. UNCHANGED <<cfg, steps, attempts>>
    BY <1>4, CounterFrame DEF Next
  <2>2. StepsLeft' = StepsLeft /\ AttemptsLeft' = AttemptsLeft
    BY <2>1 DEF StepsLeft, AttemptsLeft
  <2>3. PointsLeft' < PointsLeft
    <3>1. CASE Create \/ Initialize \/ Report
      BY <3>1 DEF Create, Initialize, Report, Raise, PointsLeft
    <3>2. CASE Sample \/ FinalSample
      <4>1. \/ pc = "sample" /\ pc' \in {"report", "cleanup"}
            \/ pc = "finalSample" /\ pc' \in {"terminate", "cleanup"}
        BY <3>2 DEF Sample, FinalSample, Recorded, Raise
      <4>. QED BY <4>1 DEF PointsLeft
    <3>3. CASE ApplyInputs
      BY <3>3 DEF ApplyInputs, Raise, PointsLeft
    <3>4. CASE Terminate \/ FinalChunk \/ FinalReport
      <4>1. \/ pc = "terminate" /\ pc' \in {"finalChunk", "cleanup"}
            \/ pc = "finalChunk" /\ pc' \in {"finalReport", "cleanup"}
            \/ pc = "finalReport" /\ pc' = "cleanup"
        BY <3>4 DEF Terminate, FinalChunk, FinalReport, Raise
      <4>. QED BY <4>1 DEF PointsLeft
    <3>5. CASE CleanupTerminate \/ Close \/ Finish
      <4>1. \/ pc = "cleanup" /\ pc' \in {"close", "finish"}
            \/ pc = "close" /\ pc' = "finish"
            \/ pc = "finish" /\ pc' = "done"
        BY <3>5 DEF CleanupTerminate, AfterCleanupTerminate, Close, Finish
      <4>. QED BY <4>1 DEF PointsLeft
    <3>6. CASE Interrupt
      BY <3>6 DEF Interrupt, InTry, Raise, PointsLeft
    <3>. QED BY <1>4, <3>1, <3>2, <3>3, <3>4, <3>5, <3>6 DEF Runner
  <2>. QED BY <2>2, <2>3 DEF Closer
<1>. QED BY <1>2, <1>3, <1>4

\* Termination without the scheduler: however little the FMU advances with each
\* Early Return, whatever fails and whenever the stop is requested, the calling
\* thread can only take finitely many steps, because each takes it down a
\* well-founded order that a request leaves as it is.
THEOREM RunsDown ==
    Spec => /\ []Counted
            /\ [][/\ Runner \/ Interrupt => Closer
                  /\ RequestStop => UNCHANGED <<StepsLeft, AttemptsLeft, PointsLeft>>]_vars
<1>1. TypeInv /\ TimeInv /\ CountInv /\ [Next]_vars =>
        [/\ Runner \/ Interrupt => Closer
         /\ RequestStop => UNCHANGED <<StepsLeft, AttemptsLeft, PointsLeft>>]_vars
  BY CloserStep DEF RequestStop, stepVars, StepsLeft, AttemptsLeft, PointsLeft
<1>. QED
  BY <1>1, CountedType, TypeInit, TypeStep, TimeInit, TimeStep, CountInit, CountStep, PTL
     DEF Spec
=============================================================================
