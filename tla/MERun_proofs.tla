----------------------------- MODULE MERun_proofs -----------------------------
(***************************************************************************)
(* Theorems about MERun: a stop lets at most one integration and its event *)
(* begin, the solver never integrates behind an event's back, everything   *)
(* is released once and in order and the chunks are the result, no event   *)
(* is late, and the result is exact.  They hold for every set of validated *)
(* configurations and every limit of cycles and iterations; only that no   *)
(* event is late needs a run that does not start before 0.                 *)
(***************************************************************************)
EXTENDS MERun, TLAPS

Beginning == {"create", "initialize", "firstSample"}
Looping == {"top", "advance", "integrate", "event", "update", "leave"}
Returning == {"returned", "sample", "report", "decide"}
InTry == Beginning \union Looping \union Returning
         \union {"firstReport", "solver", "finalSample"}
Ending == {"terminate", "closeSolver", "close", "finish", "finalChunk", "finalReport", "done"}

-----------------------------------------------------------------------------
(* A stop. *)

\* Nothing was late before the request, and after it no integration begins but the
\* one that was about to, with the event it leads to.
StopInv ==
    /\ late \in 0..2
    /\ ~stop => late = 0
    /\ pc = "integrate" => late = 0
    /\ pc = "event" => late <= 1

\* Initially: what follows a stop request.
LEMMA StopInit == Init => StopInv
BY DEF Init, StopInv

\* advance_to looks at the flag at the head of its loop and after each event.
LEMMA StopStep == StopInv /\ [Next]_vars => StopInv'
<1>. SUFFICES ASSUME StopInv, [Next]_vars PROVE StopInv'
  OBVIOUS
<1>. USE DEF StopInv, Raise, Return, timeVars, eventVars, sessionVars, accumulatorVars, endVars
<1>1. CASE Create \/ Initialize
  BY <1>1 DEF Create, Initialize
<1>2. CASE FirstSample
  BY <1>2 DEF FirstSample, Recorded
<1>3. CASE FirstReport \/ OpenSolver
  BY <1>3 DEF FirstReport, OpenSolver
<1>4. CASE Top \/ Returned
  BY <1>4 DEF Top, Returned
<1>5. CASE Sample
  BY <1>5 DEF Sample, Recorded
<1>6. CASE Report \/ Decide
  BY <1>6 DEF Report, Decide
<1>7. CASE Advance
  BY <1>7 DEF Advance, ObservesStop
<1>8. CASE Integrate
  <2>1. pc' \notin {"integrate"} /\ stop' = stop /\ late' = IF stop THEN late + 1 ELSE late
    BY <1>8 DEF Integrate, Begun, EvaluationFails, Arrive
  <2>. QED BY <1>8, <2>1 DEF Integrate
<1>9. CASE EnterEvent
  BY <1>9 DEF EnterEvent, Begun
<1>10. CASE Update
  BY <1>10 DEF Update
<1>11. CASE LeaveEvent
  BY <1>11 DEF LeaveEvent, AfterEvent
<1>12. CASE FinalSample
  BY <1>12 DEF FinalSample, Recorded
<1>13. CASE Terminate \/ CloseSolver \/ CloseSession \/ Finish
  BY <1>13 DEF Terminate, AfterTerminateRaised, CloseSolver, CloseSession, Finish
<1>14. CASE FinalChunk \/ FinalReport
  BY <1>14 DEF FinalChunk, FinalReport
<1>15. CASE Interrupt \/ RequestStop
  BY <1>15 DEF Interrupt, RequestStop
<1>16. CASE UNCHANGED vars
  BY <1>16 DEF vars
<1>. QED
  BY <1>1, <1>2, <1>3, <1>4, <1>5, <1>6, <1>7, <1>8, <1>9, <1>10, <1>11, <1>12, <1>13,
     <1>14, <1>15, <1>16 DEF Next, Runner

\* StopBounded: a stop requested at any moment lets at most one integration and the
\* event it leads to begin.
THEOREM StopIsBounded == Spec => []StopBounded
<1>1. StopInv => StopBounded
  BY DEF StopInv, StopBounded
<1>. QED BY <1>1, StopInit, StopStep, PTL DEF Spec

-----------------------------------------------------------------------------
(* The modes of the session, and what the solver knows of the FMU. *)

\* Outside an event the FMU is in Continuous-Time Mode and the solver knows its
\* states and inputs; within one, whatever it does not know is a reason to reset it.
SyncInv ==
    /\ pc \in InTry => primary = "none"
    /\ pc \in {"top", "advance", "integrate", "event"} => inSync /\ session = "continuous"
    /\ pc \in Returning /\ result # "terminate" => inSync /\ session = "continuous"
    /\ pc \in {"firstSample", "firstReport", "solver"} /\ result # "terminate" =>
          session = "continuous"
    /\ pc = "solver" => result # "terminate"
    /\ pc \in {"update", "leave"} => session = "event" /\ (inSync \/ changed \/ cause)

\* Initially: solver and FMU in sync.
LEMMA SyncInit == Init => SyncInv
BY DEF Init, SyncInv, InTry, Beginning, Looping, Returning

\* Each discrete iteration adds to what is known to have changed, and the next time
\* event is that of the last.
LEMMA SyncStep == SyncInv /\ [Next]_vars => SyncInv'
<1>. SUFFICES ASSUME SyncInv, [Next]_vars PROVE SyncInv'
  OBVIOUS
<1>. USE DEF SyncInv, Raise, Return, timeVars, eventVars, sessionVars, accumulatorVars,
             endVars, InTry, Beginning, Looping, Returning
<1>1. CASE Create \/ Initialize
  BY <1>1 DEF Create, Initialize
<1>2. CASE FirstSample
  BY <1>2 DEF FirstSample, Recorded
<1>3. CASE FirstReport \/ OpenSolver
  BY <1>3 DEF FirstReport, OpenSolver
<1>4. CASE Top \/ Returned
  BY <1>4 DEF Top, Returned
<1>5. CASE Sample
  BY <1>5 DEF Sample, Recorded
<1>6. CASE Report \/ Decide
  BY <1>6 DEF Report, Decide
<1>7. CASE Advance
  BY <1>7 DEF Advance, ObservesStop
<1>8. CASE Integrate
  BY <1>8 DEF Integrate, EvaluationFails, Arrive
<1>9. CASE EnterEvent
  BY <1>9 DEF EnterEvent, EnterEventMode
<1>10. CASE Update
  BY <1>10 DEF Update, Accumulate
<1>11. CASE LeaveEvent
  BY <1>11 DEF LeaveEvent, AfterEvent, EnterContinuousTimeMode, SolverKnows, NeedsReset
<1>12. CASE FinalSample
  BY <1>12 DEF FinalSample, Recorded
<1>13. CASE Terminate \/ CloseSolver \/ CloseSession \/ Finish
  BY <1>13 DEF Terminate, AfterTerminateRaised, CloseSolver, CloseSession, Finish
<1>14. CASE FinalChunk \/ FinalReport
  BY <1>14 DEF FinalChunk, FinalReport
<1>15. CASE Interrupt \/ RequestStop
  BY <1>15 DEF Interrupt, RequestStop, AfterCleanup
<1>16. CASE UNCHANGED vars
  BY <1>16 DEF vars
<1>. QED
  BY <1>1, <1>2, <1>3, <1>4, <1>5, <1>6, <1>7, <1>8, <1>9, <1>10, <1>11, <1>12, <1>13,
     <1>14, <1>15, <1>16 DEF Next, Runner

\* SolverInSync: the solver never integrates from states, nominals or inputs that an
\* event has changed behind its back, however many discrete iterations it took.
THEOREM SolverStaysInSync == Spec => []SolverInSync
<1>1. SyncInv => SolverInSync
  BY DEF SyncInv, SolverInSync, InContinuousTimeMode
<1>. QED BY <1>1, SyncInit, SyncStep, PTL DEF Spec

-----------------------------------------------------------------------------
(* The cleanup. *)

\* Two sequences with the same elements are the same.
LEMMA SameSequence ==
    ASSUME NEW S, NEW s \in Seq(S), NEW t \in Seq(S), Len(s) = Len(t),
           \A i \in 1..Len(s) : s[i] = t[i]
    PROVE  s = t
<1>1. s = [i \in 1..Len(s) |-> s[i]] /\ t = [i \in 1..Len(t) |-> t[i]]
  OBVIOUS
<1>. QED BY <1>1

\* A second call recorded.
LEMMA AppendToOne ==
    ASSUME NEW a, NEW b PROVE Append(<<a>>, b) = <<a, b>>
<1>. DEFINE s == Append(<<a>>, b)  t == <<a, b>> S == {a, b}
<1>1. <<a>> \in Seq({a, b}) /\ Len(<<a>>) = 1 /\ <<a>>[1] = a
  OBVIOUS
<1>2. s \in Seq(S) /\ Len(s) = 2 /\ s[1] = a /\ s[2] = b
  BY <1>1
<1>3. t \in Seq(S) /\ Len(t) = 2 /\ t[1] = a /\ t[2] = b
  OBVIOUS
<1>. HIDE DEF s, t, S
<1>4. \A i \in 1..2 : i = 1 \/ i = 2
  OBVIOUS
<1>5. s = t
  BY <1>2, <1>3, <1>4, SameSequence
<1>. QED BY <1>5 DEF s, t

\* A third call recorded.
LEMMA AppendToTwo ==
    ASSUME NEW a, NEW b, NEW c PROVE Append(<<a, b>>, c) = <<a, b, c>>
<1>. DEFINE s == Append(<<a, b>>, c)  t == <<a, b, c>> S == {a, b, c}
<1>1. <<a, b>> \in Seq({a, b, c}) /\ Len(<<a, b>>) = 2 /\ <<a, b>>[1] = a /\ <<a, b>>[2] = b
  OBVIOUS
<1>2. s \in Seq(S) /\ Len(s) = 3 /\ s[1] = a /\ s[2] = b /\ s[3] = c
  BY <1>1
<1>3. t \in Seq(S) /\ Len(t) = 3 /\ t[1] = a /\ t[2] = b /\ t[3] = c
  OBVIOUS
<1>. HIDE DEF s, t, S
<1>4. \A i \in 1..3 : i = 1 \/ i = 2 \/ i = 3
  OBVIOUS
<1>5. s = t
  BY <1>2, <1>3, <1>4, SameSequence
<1>. QED BY <1>5 DEF s, t

\* What has been released at each point of the cleanup.
ReleasedBeforeSolver == IF session = "none" THEN <<>> ELSE <<"terminate">>
ReleasedBeforeSession ==
    IF session = "none" THEN <<>>
    ELSE IF solver = "none" THEN <<"terminate">> ELSE <<"terminate", "solver">>
ReleasedAll ==
    IF session = "none" THEN <<>>
    ELSE IF solver = "none" THEN <<"terminate", "session">>
    ELSE <<"terminate", "solver", "session">>

ReleaseInv ==
    /\ pc \in InTry \union Ending
    /\ session \in {"none", "open", "initialized", "continuous", "event", "terminated", "closed"}
    /\ solver \in {"none", "ready", "closed"}
    /\ session = "none" => solver = "none"
    /\ pc \in InTry \union {"terminate"} => released = <<>>
    /\ pc = "closeSolver" => released = ReleasedBeforeSolver
    /\ pc = "close" => released = ReleasedBeforeSession /\ solver # "ready"
    /\ pc \in AfterCleanup \union {"done"} =>
          /\ session \in {"none", "closed"} /\ solver \in {"none", "closed"}
          /\ released = ReleasedAll
    /\ primary = "none" /\ pc # "create" => session # "none"
    /\ pc \in {"finalChunk", "finalReport"} => ~failed /\ primary = "none"
    /\ pc # "done" => outcome = "none"

\* Initially: what was released so far.
LEMMA ReleaseInit == Init => ReleaseInv
BY DEF Init, ReleaseInv, InTry, Beginning, Looping, Returning, Ending, AfterCleanup

\* Every way out of the try block leads to the same three releases, and none of
\* them is skipped because the one before it raised.
LEMMA ReleaseStep == ReleaseInv /\ SyncInv /\ [Next]_vars => ReleaseInv'
<1>. SUFFICES ASSUME ReleaseInv, SyncInv, [Next]_vars PROVE ReleaseInv'
  OBVIOUS
<1>. USE DEF ReleaseInv, Raise, Return, timeVars, eventVars, sessionVars, accumulatorVars,
             endVars, InTry, Beginning, Looping, Returning, Ending, AfterCleanup
<1>1. CASE Create \/ Initialize
  BY <1>1 DEF Create, Initialize
<1>2. CASE FirstSample
  BY <1>2 DEF FirstSample, Recorded
<1>3. CASE FirstReport \/ OpenSolver
  <2>1. pc \in {"firstReport", "solver"} /\ session' = session /\ primary = "none"
    BY <1>3 DEF FirstReport, OpenSolver, SyncInv
  <2>. QED BY <1>3, <2>1 DEF FirstReport, OpenSolver
<1>4. CASE Top \/ Returned
  BY <1>4 DEF Top, Returned
<1>5. CASE Sample
  BY <1>5 DEF Sample, Recorded
<1>6. CASE Report \/ Decide
  BY <1>6 DEF Report, Decide
<1>7. CASE Advance
  BY <1>7 DEF Advance, ObservesStop
<1>8. CASE Integrate
  BY <1>8 DEF Integrate, EvaluationFails, Arrive
<1>9. CASE EnterEvent
  BY <1>9 DEF EnterEvent, EnterEventMode
<1>10. CASE Update
  BY <1>10 DEF Update
<1>11. CASE LeaveEvent
  BY <1>11 DEF LeaveEvent, AfterEvent, EnterContinuousTimeMode
<1>12. CASE FinalSample
  BY <1>12 DEF FinalSample, Recorded
<1>13. CASE Terminate
  <2>1. Append(<<>>, "terminate") = <<"terminate">>
    OBVIOUS
  <2>. QED
    BY <1>13, <2>1 DEF Terminate, AfterTerminateRaised, Initialized, ReleasedBeforeSolver
<1>14. CASE CloseSolver
  BY <1>14, AppendToOne DEF CloseSolver, ReleasedBeforeSolver, ReleasedBeforeSession
<1>15. CASE CloseSession
  BY <1>15, AppendToOne, AppendToTwo DEF CloseSession, ReleasedBeforeSession, ReleasedAll
<1>16. CASE Finish
  BY <1>16 DEF Finish, ReleasedAll
<1>17. CASE FinalChunk
  BY <1>17 DEF FinalChunk, ReleasedAll
<1>18. CASE FinalReport
  BY <1>18 DEF FinalReport, ReleasedAll
<1>19. CASE Interrupt
  BY <1>19 DEF Interrupt, ReleasedAll
<1>20. CASE RequestStop
  BY <1>20 DEF RequestStop, ReleasedAll, ReleasedBeforeSolver, ReleasedBeforeSession
<1>21. CASE UNCHANGED vars
  BY <1>21 DEF vars, ReleasedAll, ReleasedBeforeSolver, ReleasedBeforeSession
<1>. QED
  BY <1>1, <1>2, <1>3, <1>4, <1>5, <1>6, <1>7, <1>8, <1>9, <1>10, <1>11, <1>12, <1>13,
     <1>14, <1>15, <1>16, <1>17, <1>18, <1>19, <1>20, <1>21 DEF Next, Runner

-----------------------------------------------------------------------------
(* Arithmetic of the checkpoints. *)

\* One more checkpoint is one step length more.
LEMMA Distributes ==
    ASSUME NEW n \in Nat, NEW k \in Nat
    PROVE  (n + 1) * k = n * k + k /\ n * k \in Nat
OBVIOUS

\* A number that leaves no remainder is a multiple.
LEMMA Quotient ==
    ASSUME NEW k \in Nat \ {0}, NEW t \in Nat, t % k = 0
    PROVE  \E q \in Nat : t = k * q
<1>1. t = k * (t \div k) + (t % k) /\ t \div k \in Nat
  OBVIOUS
<1>. QED BY <1>1

\* A multiple of a multiple of the step is a multiple of the step.
LEMMA MultipleOfMultiple ==
    ASSUME NEW k \in Nat \ {0}, NEW m \in Nat \ {0}, NEW t \in Nat, m % k = 0, t % m = 0
    PROVE  t % k = 0
<1>1. PICK a \in Nat : m = k * a
  BY Quotient
<1>2. PICK b \in Nat : t = m * b
  BY Quotient
<1>3. t = k * (a * b) /\ a * b \in Nat
  BY <1>1, <1>2
<1>4. \A n \in Nat : (k * n) % k = 0
  OBVIOUS
<1>. QED BY <1>3, <1>4

\* After a multiple of the step the next one is a whole step later.
LEMMA NoMultipleBetween ==
    ASSUME NEW k \in Nat \ {0}, NEW n \in Nat, NEW t \in Nat, t % k = 0, n * k < t
    PROVE  n * k + k <= t
<1>1. PICK q \in Nat : t = k * q
  BY Quotient
<1>2. q > n
  <2>1. SUFFICES ASSUME q <= n PROVE FALSE
    BY <1>1
  <2>2. k * q <= k * n
    BY <2>1
  <2>. QED BY <1>1, <2>2
<1>3. k * q >= k * (n + 1)
  BY <1>2
<1>4. k * (n + 1) = n * k + k
  BY Distributes
<1>. QED BY <1>1, <1>3, <1>4

-----------------------------------------------------------------------------
(* Types. *)

Chunk == [time : Seq(Int), final : BOOLEAN]
AtMostOneTime(S) == S = {} \/ \E t \in Int : S = {t}
TypeInv ==
    /\ cfg \in Configs /\ now \in Int /\ steps \in Nat /\ AtMostOneTime(nextEvent)
    /\ applied \in Seq(Int) /\ samples \in Seq(Int) /\ pending \in Seq(Int)
    /\ chunks \in Seq(Chunk)

\* The end of the last whole checkpoint.
Base == cfg.start + steps * cfg.step

\* What validation says of a configuration.
LEMMA ConfigTypes ==
    ASSUME TypeInv
    PROVE  /\ cfg.start \in Int /\ cfg.step \in Nat \ {0} /\ cfg.stop \in Int
           /\ cfg.start < cfg.stop /\ cfg.interval \in Nat \ {0}
           /\ cfg.interval % cfg.step = 0 /\ cfg.chunk \in Nat
           /\ steps * cfg.step \in Nat /\ Base \in Int
           /\ ConfiguredTarget = Base + cfg.step
           /\ Checkpoint = IF Base + cfg.step < cfg.stop THEN Base + cfg.step ELSE cfg.stop
           /\ Checkpoint \in Int
<1>1. Validated(cfg)
  BY ConfigsAssumption DEF TypeInv
<1>2. /\ cfg.start \in Int /\ cfg.step \in Nat \ {0} /\ cfg.stop \in Int /\ steps \in Nat
      /\ cfg.start < cfg.stop /\ cfg.interval \in Nat \ {0}
      /\ cfg.interval % cfg.step = 0 /\ cfg.chunk \in Nat
  BY <1>1 DEF Validated, TypeInv
<1>3. steps * cfg.step \in Nat /\ (steps + 1) * cfg.step = steps * cfg.step + cfg.step
  BY <1>2, Distributes
<1>4. Base \in Int /\ ConfiguredTarget = Base + cfg.step
  BY <1>2, <1>3 DEF Base, ConfiguredTarget
<1>. QED BY <1>2, <1>3, <1>4 DEF Checkpoint

\* What validation says of the schedule.
LEMMA ScheduleTypes ==
    ASSUME TypeInv
    PROVE  /\ cfg.schedule \in Seq(Int) /\ Len(cfg.schedule) \in Nat
           /\ Len(applied) \in Nat
           /\ \A i \in 1..Len(cfg.schedule) :
                 cfg.schedule[i] \in Int /\ cfg.start <= cfg.schedule[i]
           /\ \A i \in 1..Len(cfg.schedule) - 1 : cfg.schedule[i] < cfg.schedule[i + 1]
           /\ AtMostOneTime(NextInputs)
<1>1. Validated(cfg)
  BY ConfigsAssumption DEF TypeInv
<1>2. cfg.schedule \in Seq(Int) /\ Len(cfg.schedule) \in Nat /\ Len(applied) \in Nat
  BY <1>1 DEF Validated, TypeInv
<1>3. \A i \in 1..Len(cfg.schedule) : cfg.schedule[i] \in Int
  BY <1>2
<1>4. AtMostOneTime(NextInputs)
  <2>1. ASSUME Len(applied) < Len(cfg.schedule)
        PROVE  cfg.schedule[Len(applied) + 1] \in Int
    BY <1>2, <1>3, <2>1
  <2>. QED BY <2>1 DEF AtMostOneTime, NextInputs
<1>. QED BY <1>1, <1>2, <1>3, <1>4 DEF Validated

\* The next target is no later than the checkpoint, the update and the time event.
LEMMA LeastTime ==
    ASSUME NEW a \in Int, NEW S, NEW T, AtMostOneTime(S), AtMostOneTime(T)
    PROVE  LET m == Min({a} \union S \union T) IN
              m \in Int /\ m <= a /\ \A t \in S \union T : t \in Int /\ m <= t
<1>. DEFINE U == {a} \union S \union T
<1>1. U \subseteq Int /\ a \in U
  BY DEF AtMostOneTime
<1>2. \E x \in U : \A y \in U : x <= y
  BY DEF AtMostOneTime
<1>3. Min(U) \in U /\ \A y \in U : Min(U) <= y
  BY <1>2 DEF Min
<1>. QED BY <1>1, <1>3

\* The solver is never asked to go past the checkpoint, the next input, or the next
\* time event other than 0.
LEMMA TargetIsLeast ==
    ASSUME TypeInv
    PROVE  /\ Target \in Int /\ Target <= Checkpoint
           /\ \A t \in NextInputs : t \in Int /\ Target <= t
           /\ \A t \in nextEvent : t \in Int /\ (t # 0 => Target <= t)
<1>1. AtMostOneTime(nextEvent \ {0}) /\ AtMostOneTime(nextEvent)
  BY DEF TypeInv, AtMostOneTime
<1>2. Checkpoint \in Int /\ AtMostOneTime(NextInputs)
  BY ConfigTypes, ScheduleTypes
<1>3. \A t \in nextEvent : t \in Int
  BY <1>1 DEF AtMostOneTime
<1>. QED BY <1>1, <1>2, <1>3, LeastTime DEF Target

\* What the FMU may announce is at most one time.
LEMMA EventTypes ==
    ASSUME TypeInv, NEW e \in PossibleEvents
    PROVE  AtMostOneTime(e)
<1>1. \A t \in now - 1..cfg.stop : t \in Int
  BY ConfigTypes DEF TypeInv
<1>. QED BY <1>1 DEF PossibleEvents, AtMostOneTime

\* Time only moves when the solver integrates, and then not past its target.
LEMMA IntegrateMoves ==
    ASSUME TypeInv, Integrate
    PROVE  /\ UNCHANGED <<cfg, steps, nextEvent, applied, samples, pending, chunks, stop,
                          stopped, outcome>>
           /\ now' \in Int /\ now <= now' /\ (now' = now \/ now' <= Target)
           /\ pc' \in {"terminate", "event", "advance", "returned"}
           /\ pc' = "returned" => result' = "terminate"
           /\ pc' = "terminate" => primary' # "none"
<1>1. now \in Int /\ Target \in Int
  BY TargetIsLeast DEF TypeInv
<1>2. \A t \in now..Target : t \in Int /\ now <= t /\ t <= Target
  BY <1>1
<1>3. now' = now \/ (now <= Target /\ now' = Target) \/ now' \in now..Target
  BY DEF Integrate, Arrive
<1>4. /\ pc' \in {"terminate", "event", "advance", "returned"}
      /\ pc' = "returned" => result' = "terminate"
      /\ pc' = "terminate" => primary' # "none"
  BY DEF Integrate, Arrive, EvaluationFails, Raise, Return
<1>. QED
  BY <1>1, <1>2, <1>3, <1>4 DEF Integrate, accumulatorVars, endVars

\* Every initial state is well typed.
LEMMA TypeInit == Init => TypeInv
<1>. SUFFICES ASSUME Init PROVE TypeInv
  OBVIOUS
<1>1. cfg \in Configs /\ cfg.start \in Int
  BY ConfigsAssumption DEF Init, Validated
<1>2. <<>> \in Seq(Int) /\ <<>> \in Seq(Chunk)
  OBVIOUS
<1>. QED BY <1>1, <1>2 DEF Init, TypeInv, AtMostOneTime

\* Every step keeps the types.
LEMMA TypeStep == TypeInv /\ [Next]_vars => TypeInv'
<1>. SUFFICES ASSUME TypeInv, [Next]_vars PROVE TypeInv'
  OBVIOUS
<1>. USE DEF TypeInv, Raise, Return, timeVars, eventVars, sessionVars, accumulatorVars, endVars
<1>1. CASE Create \/ FirstReport \/ OpenSolver \/ Top \/ Report \/ Decide
  BY <1>1 DEF Create, FirstReport, OpenSolver, Top, Report, Decide
<1>2. CASE Initialize
  BY <1>2, EventTypes DEF Initialize
<1>3. ASSUME NEW next, Recorded(next),
             UNCHANGED <<cfg, now, steps, nextEvent, applied>>
      PROVE  TypeInv'
  <2>1. PendingWith(now) \in Seq(Int)
    BY DEF PendingWith
  <2>2. Delivered(FALSE) \in Seq(Chunk)
    BY DEF Delivered, Chunk
  <2>3. Append(samples, now) \in Seq(Int)
    OBVIOUS
  <2>. QED BY <1>3, <2>1, <2>2, <2>3 DEF Recorded
<1>4. CASE FirstSample
  BY <1>3, <1>4 DEF FirstSample
<1>5. CASE Sample
  BY <1>3, <1>5 DEF Sample
<1>6. CASE FinalSample
  BY <1>3, <1>6 DEF FinalSample
<1>7. CASE Returned
  BY <1>7 DEF Returned, StepsAfter
<1>8. CASE Advance
  BY <1>8 DEF Advance
<1>9. CASE Integrate
  BY <1>9, IntegrateMoves
<1>10. CASE EnterEvent
  <2>1. InputConsumed \in Seq(Int)
    BY DEF InputConsumed
  <2>. QED BY <1>10, <2>1 DEF EnterEvent
<1>11. CASE Update
  BY <1>11, EventTypes DEF Update
<1>12. CASE LeaveEvent
  BY <1>12 DEF LeaveEvent
<1>13. CASE Terminate \/ CloseSolver \/ CloseSession \/ Finish
  BY <1>13 DEF Terminate, CloseSolver, CloseSession, Finish
<1>14. CASE FinalChunk
  <2>1. Delivered(TRUE) \in Seq(Chunk)
    BY DEF Delivered, Chunk
  <2>2. <<>> \in Seq(Int)
    OBVIOUS
  <2>. QED BY <1>14, <2>1, <2>2 DEF FinalChunk
<1>15. CASE FinalReport \/ Interrupt \/ RequestStop
  BY <1>15 DEF FinalReport, Interrupt, RequestStop
<1>16. CASE UNCHANGED vars
  BY <1>16 DEF vars
<1>. QED
  BY <1>1, <1>2, <1>4, <1>5, <1>6, <1>7, <1>8, <1>9, <1>10, <1>11, <1>12, <1>13,
     <1>14, <1>15, <1>16 DEF Next, Runner

-----------------------------------------------------------------------------
(* Time and the checkpoints. *)

\* Time stands in the checkpoint to come, and beyond its beginning while advance_to
\* works on it.
Advancing == {"advance", "integrate", "event", "update", "leave", "returned"}
ClockInv ==
    /\ cfg.start <= now /\ now <= Checkpoint
    /\ pc \in Advancing => Base <= now /\ Base < cfg.stop
    /\ primary = "none" =>
          /\ Base <= now \/ now = cfg.stop
          /\ pc \in Beginning \union {"firstReport", "solver"} => now = cfg.start /\ steps = 0
          /\ pc = "returned" /\ result \in {"checkpoint", "checkpointStop"} => now = Checkpoint

\* Initially: the times of the loop.
LEMMA ClockInit == TypeInv /\ Init => ClockInv
<1>. SUFFICES ASSUME TypeInv, Init PROVE ClockInv
  OBVIOUS
<1>1. now = cfg.start /\ steps = 0 /\ pc = "create"
  BY DEF Init
<1>2. Base = cfg.start /\ cfg.start \in Int
  <2>1. \A k \in Nat : 0 * k = 0
    OBVIOUS
  <2>. QED BY <1>1, <2>1, ConfigTypes DEF Base
<1>3. cfg.start <= Checkpoint /\ Base <= cfg.start
  BY <1>2, ConfigTypes
<1>. QED BY <1>1, <1>2, <1>3 DEF ClockInv, Advancing, Beginning

\* A checkpoint counts once time has reached it, and only then.
LEMMA ReturnKeepsClock == TypeInv /\ ClockInv /\ SyncInv /\ Returned => ClockInv'
<1>. SUFFICES ASSUME TypeInv, ClockInv, SyncInv, Returned PROVE ClockInv'
  OBVIOUS
<1>1. /\ UNCHANGED <<cfg, now, result>> /\ pc = "returned" /\ primary = "none"
      /\ pc' \in {"sample", "report"} /\ steps' = StepsAfter
  BY DEF Returned, eventVars, SyncInv, InTry, Returning
<1>2. TypeInv'
  BY TypeStep DEF Next, Runner
<1>. DEFINE k == cfg.step  b == Base  c == cfg.stop
<1>3. /\ k \in Nat \ {0} /\ b \in Int /\ c \in Int /\ now \in Int /\ cfg.start \in Int
      /\ Checkpoint = IF b + k < c THEN b + k ELSE c
      /\ cfg.start <= now /\ now <= Checkpoint /\ b <= now
  BY <1>1, ConfigTypes DEF ClockInv, TypeInv, Advancing
<1>4. CASE steps' = steps
  BY <1>1, <1>3, <1>4 DEF ClockInv, Advancing, Beginning, Base, Checkpoint, ConfiguredTarget
<1>5. CASE steps' = steps + 1 /\ result \in {"checkpoint", "checkpointStop"}
  <2>1. now = Checkpoint
    BY <1>1, <1>5 DEF ClockInv
  <2>2. Base' = b + k /\ cfg'.stop = c /\ cfg'.step = k /\ cfg'.start = cfg.start
    <3>1. (steps + 1) * k = steps * k + k /\ steps * k \in Nat
      BY <1>3, Distributes DEF TypeInv
    <3>. QED BY <1>1, <1>3, <1>5, <3>1 DEF Base
  <2>3. Checkpoint' = IF b + k + k < c THEN b + k + k ELSE c
    <3>1. /\ (steps + 1) * k = steps * k + k /\ steps * k \in Nat
          /\ (steps + 1 + 1) * k = (steps + 1) * k + k
      <4>1. steps \in Nat /\ steps + 1 \in Nat /\ k \in Nat
        BY <1>3 DEF TypeInv
      <4>. QED BY <4>1, Distributes
    <3>2. ConfiguredTarget' = cfg.start + (steps + 1 + 1) * k
      BY <1>1, <1>5 DEF ConfiguredTarget
    <3>3. b = cfg.start + steps * k
      BY DEF Base
    <3>. HIDE DEF k, b
    <3>4. ConfiguredTarget' = b + k + k
      BY <1>3, <3>1, <3>2, <3>3
    <3>. QED BY <2>2, <3>4 DEF Checkpoint
  <2>. HIDE DEF k, b, c
  <2>4. /\ cfg'.start <= now' /\ now' <= Checkpoint'
        /\ Base' <= now' \/ now' = cfg'.stop
    BY <1>1, <1>3, <2>1, <2>2, <2>3
  <2>. QED BY <1>1, <2>4 DEF ClockInv, Advancing, Beginning
<1>. QED BY <1>1, <1>4, <1>5 DEF StepsAfter

\* Every step keeps the times of the loop.
LEMMA ClockStep == TypeInv /\ ClockInv /\ SyncInv /\ [Next]_vars => ClockInv'
<1>. SUFFICES ASSUME TypeInv, ClockInv, SyncInv, [Next]_vars PROVE ClockInv'
  OBVIOUS
<1>1. CASE Returned
  BY <1>1, ReturnKeepsClock
<1>2. CASE Integrate
  <2>1. /\ UNCHANGED <<cfg, steps>> /\ now' \in Int /\ now <= now'
        /\ now' = now \/ now' <= Checkpoint
        /\ pc' \in {"terminate", "event", "advance", "returned"}
        /\ pc' = "returned" => result' = "terminate"
        /\ pc = "integrate" /\ primary = "none"
    <3>1. pc = "integrate" /\ primary = "none"
      BY <1>2 DEF Integrate, SyncInv, InTry, Looping
    <3>. QED BY <1>2, <3>1, IntegrateMoves, TargetIsLeast, ConfigTypes
  <2>2. UNCHANGED <<Base, Checkpoint>>
    BY <2>1 DEF Base, Checkpoint, ConfiguredTarget
  <2>3. /\ Base \in Int /\ now \in Int /\ cfg.start \in Int /\ Checkpoint \in Int
        /\ cfg.stop \in Int /\ Checkpoint <= cfg.stop
    BY ConfigTypes DEF TypeInv
  <2>4. Base <= now /\ Base < cfg.stop /\ cfg.start <= now /\ now <= Checkpoint
    BY <2>1 DEF ClockInv, Advancing
  <2>. QED BY <2>1, <2>2, <2>3, <2>4 DEF ClockInv, Advancing, Beginning
<1>3. CASE UNCHANGED <<cfg, now, steps>> /\ ~Returned /\ ~Integrate
  <2>1. UNCHANGED <<Base, Checkpoint>>
    BY <1>3 DEF Base, Checkpoint, ConfiguredTarget
  <2>2. Checkpoint <= cfg.stop /\ cfg.stop \in Int /\ Base \in Int /\ now \in Int
        /\ Checkpoint \in Int
    BY ConfigTypes DEF TypeInv
  <2>3. /\ pc' \in Advancing => Base <= now /\ Base < cfg.stop
        /\ primary' = "none" => primary = "none" \/ pc \notin InTry
        /\ pc' \in Beginning \union {"firstReport", "solver"} =>
              pc \in Beginning \union {"firstReport", "solver"}
        /\ pc' = "returned" /\ result' \in {"checkpoint", "checkpointStop"} =>
              \/ now = Checkpoint
              \/ pc = "returned" /\ result' = result
        /\ primary' = "none" => primary = "none"
    <3>. USE DEF Raise, Return, timeVars, eventVars, sessionVars, accumulatorVars, endVars,
                 Advancing, Beginning
    <3>1. CASE Create \/ Initialize
      BY <3>1 DEF Create, Initialize
    <3>2. CASE FirstSample
      BY <3>2 DEF FirstSample, Recorded
    <3>3. CASE FirstReport \/ OpenSolver
      BY <3>3 DEF FirstReport, OpenSolver
    <3>4. CASE Top
      <4>1. /\ primary = "none" /\ primary' = primary /\ pc' \in {"advance", "finalSample"}
            /\ pc' = "advance" => now < cfg.stop
        BY <3>4 DEF Top, SyncInv, InTry, Looping
      <4>2. Base <= now \/ now = cfg.stop
        BY <4>1 DEF ClockInv
      <4>3. now < cfg.stop => Base <= now /\ Base < cfg.stop
        BY <2>2, <4>2
      <4>4. \/ pc' = "finalSample"
            \/ pc' = "advance" /\ Base <= now /\ Base < cfg.stop
        BY <4>1, <4>3
      <4>. QED BY <4>1, <4>4
    <3>5. CASE Sample
      BY <3>5 DEF Sample, Recorded
    <3>6. CASE Report \/ Decide
      BY <3>6 DEF Report, Decide
    <3>7. CASE Advance
      BY <3>7 DEF Advance, ClockInv
    <3>8. CASE EnterEvent
      BY <3>8 DEF EnterEvent, ClockInv
    <3>9. CASE Update
      BY <3>9 DEF Update, ClockInv
    <3>10. CASE LeaveEvent
      BY <3>10 DEF LeaveEvent, AfterEvent, ClockInv
    <3>11. CASE FinalSample
      BY <3>11 DEF FinalSample, Recorded
    <3>12. CASE Terminate \/ CloseSolver \/ CloseSession \/ Finish
      BY <3>12 DEF Terminate, AfterTerminateRaised, CloseSolver, CloseSession, Finish
    <3>13. CASE FinalChunk \/ FinalReport \/ Interrupt
      BY <3>13 DEF FinalChunk, FinalReport, Interrupt
    <3>14. CASE RequestStop \/ UNCHANGED vars
      BY <3>14 DEF RequestStop, vars, ClockInv
    <3>. QED
      BY <1>3, <3>1, <3>2, <3>3, <3>4, <3>5, <3>6, <3>7, <3>8, <3>9, <3>10, <3>11,
         <3>12, <3>13, <3>14 DEF Next, Runner
  <2>. QED BY <1>3, <2>1, <2>3 DEF ClockInv
<1>4. Returned \/ Integrate \/ UNCHANGED <<cfg, now, steps>>
  BY DEF Next, Runner, Create, Initialize, FirstSample, FirstReport, OpenSolver, Top,
     Sample, Report, Decide, Advance, EnterEvent, Update, LeaveEvent, FinalSample, Terminate,
     CloseSolver, CloseSession, Finish, FinalChunk, FinalReport, Interrupt, RequestStop,
     vars, timeVars
<1>. QED BY <1>1, <1>2, <1>3, <1>4

-----------------------------------------------------------------------------
(* The events. *)

\* The inputs given to the session are the first of the schedule; neither the next
\* one nor the announced time event lies behind, and the solver starts at neither.
EventInv ==
    /\ Len(applied) <= Len(cfg.schedule)
    /\ \A i \in 1..Len(applied) : applied[i] = cfg.schedule[i]
    /\ primary = "none" =>
          /\ \A t \in NextInputs : now <= t
          /\ cfg.start >= 0 => \A t \in nextEvent : t >= cfg.start => now <= t
          /\ pc = "integrate" => ~InputDue /\ ~TimeDue

\* Initially: the events ahead of the clock.
LEMMA EventInit == TypeInv /\ Init => EventInv
<1>. SUFFICES ASSUME TypeInv, Init PROVE EventInv
  OBVIOUS
<1>1. applied = <<>> /\ Len(applied) = 0 /\ nextEvent = {} /\ now = cfg.start /\ pc = "create"
  BY DEF Init
<1>2. ASSUME Len(applied) < Len(cfg.schedule) PROVE now <= cfg.schedule[Len(applied) + 1]
  BY <1>1, <1>2, ScheduleTypes
<1>. QED BY <1>1, <1>2, ScheduleTypes DEF EventInv, NextInputs

\* Without the event that starts at 0, a run from 0 on reaches no time beyond the
\* next input or the announced event.
LEMMA IntegrateKeepsEvents ==
    TypeInv /\ ClockInv /\ SyncInv /\ EventInv /\ Integrate => EventInv'
<1>. SUFFICES ASSUME TypeInv, ClockInv, SyncInv, EventInv, Integrate PROVE EventInv'
  OBVIOUS
<1>1. /\ UNCHANGED <<cfg, applied, nextEvent>> /\ pc = "integrate" /\ primary = "none"
      /\ now' \in Int /\ now \in Int /\ now <= now' /\ (now' = now \/ now' <= Target)
      /\ pc' # "integrate" /\ cfg.start \in Int /\ Target \in Int /\ cfg.start <= now
  <2>1. pc = "integrate" /\ primary = "none"
    BY DEF Integrate, SyncInv, InTry, Looping
  <2>. QED BY <2>1, IntegrateMoves, TargetIsLeast, ConfigTypes DEF TypeInv, ClockInv
<1>2. NextInputs' = NextInputs
  BY <1>1 DEF NextInputs
<1>3. /\ \A t \in NextInputs : now <= t
      /\ cfg.start >= 0 => \A t \in nextEvent : t >= cfg.start => now <= t
      /\ now \notin nextEvent
  BY <1>1 DEF EventInv, TimeDue
<1>4. ASSUME NEW t \in NextInputs PROVE now' <= t
  BY <1>1, <1>3, TargetIsLeast
<1>5. ASSUME cfg.start >= 0, NEW t \in nextEvent, t >= cfg.start PROVE now' <= t
  <2>1. t \in Int /\ now <= t /\ t # now
    BY <1>3, <1>5, TargetIsLeast
  <2>2. t # 0
    BY <1>1, <1>5, <2>1
  <2>3. Target <= t
    BY <2>2, TargetIsLeast
  <2>. QED BY <1>1, <2>1, <2>3
<1>. QED BY <1>1, <1>2, <1>4, <1>5 DEF EventInv

\* An input is consumed at its own time, and the one after it comes later.
LEMMA EventConsumes ==
    TypeInv /\ SyncInv /\ EventInv /\ EnterEvent => EventInv'
<1>. SUFFICES ASSUME TypeInv, SyncInv, EventInv, EnterEvent PROVE EventInv'
  OBVIOUS
<1>. DEFINE sch == cfg.schedule  n == Len(applied)
<1>1. /\ UNCHANGED <<cfg, now, nextEvent>> /\ pc' # "integrate" /\ primary = "none"
      /\ applied' \in {applied, InputConsumed}
      /\ primary' # "none" \/ applied' = InputConsumed
      /\ primary' = "none" => primary' = primary
  BY DEF EnterEvent, timeVars, Raise, SyncInv, InTry, Looping
<1>2. /\ n \in Nat /\ Len(sch) \in Nat /\ n <= Len(sch) /\ now \in Int /\ applied \in Seq(Int)
      /\ \A i \in 1..Len(sch) : sch[i] \in Int
      /\ \A i \in 1..Len(sch) - 1 : sch[i] < sch[i + 1]
      /\ \A i \in 1..n : applied[i] = sch[i]
  BY ScheduleTypes DEF TypeInv, EventInv
<1>3. CASE applied' = applied /\ (primary' # "none" \/ ~InputDue)
  BY <1>1, <1>3 DEF EventInv, NextInputs, InputDue, TimeDue
<1>4. CASE applied' = Append(applied, now) /\ InputDue
  <2>1. n + 1 \in 1..Len(sch) /\ sch[n + 1] = now
    BY <1>2, <1>4 DEF InputDue, NextInputs
  <2>2. /\ Len(applied') = n + 1 /\ applied'[n + 1] = now
        /\ \A i \in 1..n : applied'[i] = applied[i]
    BY <1>2, <1>4
  <2>3. ASSUME NEW i \in 1..n + 1 PROVE applied'[i] = sch[i]
    <3>1. i \in 1..n \/ i = n + 1
      BY <1>2
    <3>. QED BY <1>2, <2>1, <2>2, <3>1
  <2>4. ASSUME n + 1 < Len(sch) PROVE now <= sch[n + 1 + 1]
    <3>1. n + 1 \in 1..Len(sch) - 1 /\ n + 1 + 1 \in 1..Len(sch)
      BY <1>2, <2>4
    <3>2. sch[n + 1] < sch[(n + 1) + 1] /\ sch[n + 1 + 1] \in Int
      BY <1>2, <3>1
    <3>. QED BY <1>2, <2>1, <3>2
  <2>5. NextInputs' = IF n + 1 < Len(sch) THEN {sch[n + 1 + 1]} ELSE {}
    BY <1>1, <2>2 DEF NextInputs
  <2>. HIDE DEF sch, n
  <2>6. \A t \in NextInputs' : now' <= t
    BY <1>1, <2>4, <2>5
  <2>7. Len(applied') <= Len(sch) /\ \A i \in 1..Len(applied') : applied'[i] = sch[i]
    BY <1>2, <2>1, <2>2, <2>3
  <2>. QED BY <1>1, <2>6, <2>7 DEF EventInv, sch
<1>. QED BY <1>1, <1>3, <1>4 DEF InputConsumed

\* Every step keeps the events ahead of the clock.
LEMMA EventStep ==
    TypeInv /\ ClockInv /\ SyncInv /\ EventInv /\ [Next]_vars => EventInv'
<1>. SUFFICES ASSUME TypeInv, ClockInv, SyncInv, EventInv, [Next]_vars PROVE EventInv'
  OBVIOUS
<1>1. CASE Integrate
  BY <1>1, IntegrateKeepsEvents
<1>2. CASE EnterEvent
  BY <1>2, EventConsumes
<1>3. CASE UNCHANGED <<cfg, now, applied>> /\ ~Integrate /\ ~EnterEvent
  <2>1. NextInputs' = NextInputs
    BY <1>3 DEF NextInputs
  <2>2. /\ primary' = "none" => primary = "none"
        /\ \/ nextEvent' = nextEvent
           \/ pc = "initialize" /\ pc' = "firstSample" /\ now = cfg.start
           \/ primary' # "none" \/ \A t \in nextEvent' : ~(t < now)
        /\ pc' = "integrate" =>
              \/ pc = "integrate"
              \/ nextEvent' = nextEvent /\ ~InputDue /\ ~TimeDue
        /\ pc' = "integrate" => nextEvent' = nextEvent
    <3>. USE DEF Raise, Return, timeVars, eventVars, sessionVars, accumulatorVars, endVars
    <3>1. CASE Create
      BY <3>1 DEF Create
    <3>2. CASE Initialize
      <4>1. pc = "initialize" /\ now = cfg.start
        BY <3>2 DEF Initialize, ClockInv, SyncInv, InTry, Beginning
      <4>. QED BY <3>2, <4>1 DEF Initialize
    <3>3. CASE FirstSample
      BY <3>3 DEF FirstSample, Recorded
    <3>4. CASE FirstReport \/ OpenSolver \/ Top \/ Returned
      BY <3>4 DEF FirstReport, OpenSolver, Top, Returned
    <3>5. CASE Sample
      BY <3>5 DEF Sample, Recorded
    <3>6. CASE Report \/ Decide
      BY <3>6 DEF Report, Decide
    <3>7. CASE Advance
      BY <3>7 DEF Advance
    <3>8. CASE Update
      BY <3>8 DEF Update
    <3>9. CASE LeaveEvent
      BY <3>9 DEF LeaveEvent, AfterEvent
    <3>10. CASE FinalSample
      BY <3>10 DEF FinalSample, Recorded
    <3>11. CASE Terminate \/ CloseSolver \/ CloseSession \/ Finish
      BY <3>11 DEF Terminate, AfterTerminateRaised, CloseSolver, CloseSession, Finish
    <3>12. CASE FinalChunk \/ FinalReport \/ Interrupt
      BY <3>12 DEF FinalChunk, FinalReport, Interrupt
    <3>13. CASE RequestStop \/ UNCHANGED vars
      BY <3>13 DEF RequestStop, vars
    <3>. QED
      BY <1>3, <3>1, <3>2, <3>3, <3>4, <3>5, <3>6, <3>7, <3>8, <3>9, <3>10, <3>11,
         <3>12, <3>13 DEF Next, Runner
  <2>3. TypeInv' /\ now \in Int /\ cfg.start \in Int
    BY TypeStep, ConfigTypes DEF TypeInv
  <2>4. \A t \in nextEvent' : t \in Int
    BY <2>3 DEF TypeInv, AtMostOneTime
  <2>5. ASSUME primary' = "none", cfg.start >= 0, NEW t \in nextEvent', t >= cfg.start
        PROVE  now <= t
    BY <2>2, <2>3, <2>4, <2>5 DEF EventInv
  <2>6. primary' = "none" /\ pc' = "integrate" => ~InputDue' /\ ~TimeDue'
    BY <1>3, <2>1, <2>2 DEF EventInv, InputDue, TimeDue
  <2>. QED BY <1>3, <2>1, <2>2, <2>5, <2>6 DEF EventInv
<1>4. Integrate \/ EnterEvent \/ UNCHANGED <<cfg, now, applied>>
  BY DEF Next, Runner, Create, Initialize, FirstSample, FirstReport, OpenSolver, Top,
     Returned, Sample, Report, Decide, Advance, Update, LeaveEvent, FinalSample, Terminate,
     CloseSolver, CloseSession, Finish, FinalChunk, FinalReport, Interrupt, RequestStop,
     vars, timeVars, eventVars
<1>. QED BY <1>1, <1>2, <1>3, <1>4

\* EventsOnTime, for the runs that do not start before 0: no event is late or
\* skipped.  A run that starts earlier can pass a time event at 0.0, which
\* `self._next_time_event or math.inf` takes for none.
THEOREM EventsAreOnTime == Spec => [](cfg.start >= 0 => EventsOnTime)
<1>1. TypeInv /\ EventInv => (cfg.start >= 0 => EventsOnTime)
  <2>. SUFFICES ASSUME TypeInv, EventInv, cfg.start >= 0 PROVE EventsOnTime
    OBVIOUS
  <2>1. /\ Len(applied) \in Nat /\ Len(cfg.schedule) \in Nat
        /\ cfg.schedule \in Seq(Int) /\ applied \in Seq(Int)
    BY ScheduleTypes DEF TypeInv
  <2>2. applied = SubSeq(cfg.schedule, 1, Len(applied))
    BY <2>1 DEF EventInv
  <2>. QED BY <2>2 DEF EventInv, EventsOnTime
<1>. QED
  BY <1>1, TypeInit, TypeStep, SyncInit, SyncStep, ClockInit, ClockStep, EventInit,
     EventStep, PTL DEF Spec

-----------------------------------------------------------------------------
(* The result. *)

Increasing(s) == \A i \in 1..Len(s) - 1 : s[i] < s[i + 1]
OnGrid(t) == (t - cfg.start) % cfg.interval = 0

RecordedBefore == \A t \in cfg.start..now : t \in Range(samples) <=> (OnGrid(t) /\ t < now)
RecordedUpTo == \A t \in cfg.start..now : t \in Range(samples) <=> (OnGrid(t) /\ t <= Base)
RecordedAll == \A t \in cfg.start..now : t \in Range(samples) <=> IsRecorded(t)

\* What is recorded at each point of run() that no exception has left: the points of
\* the output interval up to the last whole checkpoint.
SampleInv ==
    /\ Increasing(samples)
    /\ \A i \in 1..Len(samples) : samples[i] <= now
    /\ primary = "none" =>
          /\ pc \in Beginning => samples = <<>>
          /\ pc \in InTry \ Beginning => samples # <<>>
          /\ pc \in Beginning \union {"sample"} => OnGrid(now) /\ now = Base /\ RecordedBefore
          /\ pc \in InTry \ (Beginning \union {"sample"}) => RecordedUpTo
          /\ pc \in Ending => RecordedAll

\* An appended element is the only new one.
LEMMA AppendRange ==
    ASSUME NEW S, NEW s \in Seq(S), NEW x \in S
    PROVE  Range(Append(s, x)) = Range(s) \union {x}
<1>1. /\ Append(s, x) \in Seq(S) /\ Len(Append(s, x)) = Len(s) + 1 /\ Len(s) \in Nat
      /\ DOMAIN Append(s, x) = 1..Len(s) + 1 /\ DOMAIN s = 1..Len(s)
      /\ \A i \in 1..Len(s) : Append(s, x)[i] = s[i]
      /\ Append(s, x)[Len(s) + 1] = x
  OBVIOUS
<1>. HIDE <1>1
<1>2. ASSUME NEW y \in Range(Append(s, x)) PROVE y \in Range(s) \union {x}
  <2>1. PICK i \in 1..Len(s) + 1 : y = Append(s, x)[i]
    BY <1>1, <1>2 DEF Range
  <2>2. CASE i = Len(s) + 1
    BY <1>1, <2>1, <2>2
  <2>3. CASE i # Len(s) + 1
    <3>1. i \in 1..Len(s)
      BY <1>1, <2>3
    <3>. QED BY <1>1, <2>1, <3>1 DEF Range
  <2>. QED BY <2>2, <2>3
<1>3. x \in Range(Append(s, x))
  <2>1. Len(s) + 1 \in 1..Len(s) + 1
    BY <1>1
  <2>. QED BY <1>1, <2>1 DEF Range
<1>4. ASSUME NEW y \in Range(s) PROVE y \in Range(Append(s, x))
  <2>1. PICK i \in 1..Len(s) : y = s[i]
    BY <1>1, <1>4 DEF Range
  <2>2. i \in 1..Len(s) + 1 /\ y = Append(s, x)[i]
    BY <1>1, <2>1
  <2>. QED BY <1>1, <2>2 DEF Range
<1>. QED BY <1>2, <1>3, <1>4

\* A sequence stays increasing when something larger is appended.
LEMMA AppendIncreasing ==
    ASSUME NEW s \in Seq(Int), NEW x \in Int, Increasing(s),
           s # <<>> => s[Len(s)] < x
    PROVE  Increasing(Append(s, x))
<1>1. /\ Len(Append(s, x)) = Len(s) + 1 /\ Len(s) \in Nat
      /\ \A i \in 1..Len(s) : Append(s, x)[i] = s[i]
      /\ Append(s, x)[Len(s) + 1] = x
  OBVIOUS
<1>2. SUFFICES ASSUME NEW i \in 1..Len(s) PROVE Append(s, x)[i] < Append(s, x)[i + 1]
  BY <1>1 DEF Increasing
<1>3. CASE i = Len(s)
  BY <1>1, <1>3
<1>4. CASE i # Len(s)
  BY <1>1, <1>4 DEF Increasing
<1>. QED BY <1>3, <1>4

\* No point of the output interval lies inside a checkpoint.
LEMMA NoSampleTimeBetween ==
    ASSUME TypeInv, NEW u \in Int, OnGrid(u), Base < u
    PROVE  Base + cfg.step <= u
<1>. DEFINE k == cfg.step  m == cfg.interval  d == u - cfg.start  b == steps * k
<1>1. /\ k \in Nat \ {0} /\ m \in Nat \ {0} /\ m % k = 0 /\ cfg.start \in Int
      /\ b \in Nat /\ Base = cfg.start + b /\ steps \in Nat
  BY ConfigTypes DEF TypeInv, Base
<1>2. d \in Nat /\ b < d /\ d % m = 0
  <2>. HIDE DEF b
  <2>1. d \in Nat /\ b < d
    BY <1>1
  <2>. QED BY <2>1 DEF OnGrid
<1>3. d % k = 0
  <2>. HIDE DEF d, m, k
  <2>. QED BY <1>1, <1>2, MultipleOfMultiple
<1>4. b + k <= d
  <2>. HIDE DEF d, k
  <2>. QED BY <1>1, <1>2, <1>3, NoMultipleBetween DEF b
<1>. HIDE DEF b, k
<1>5. Base + k <= u
  BY <1>1, <1>4
<1>. QED BY <1>5 DEF k

\* Nothing is sampled before the first point of the run.
LEMMA SampleInit == TypeInv /\ Init => SampleInv
<1>. SUFFICES ASSUME TypeInv, Init PROVE SampleInv
  OBVIOUS
<1>1. samples = <<>> /\ now = cfg.start /\ steps = 0 /\ pc = "create" /\ Len(samples) = 0
  BY DEF Init
<1>2. cfg.start \in Int /\ cfg.interval \in Nat \ {0} /\ cfg.step \in Nat
  BY ConfigTypes
<1>3. Base = cfg.start
  <2>1. \A k \in Nat : 0 * k = 0
    OBVIOUS
  <2>. QED BY <1>1, <1>2, <2>1 DEF Base
<1>4. OnGrid(now)
  <2>1. \A m \in Nat \ {0} : 0 % m = 0
    OBVIOUS
  <2>2. now - cfg.start = 0
    BY <1>1, <1>2
  <2>. QED BY <1>2, <2>1, <2>2 DEF OnGrid
<1>5. RecordedBefore
  BY <1>1, <1>2 DEF RecordedBefore, Range
<1>. QED BY <1>1, <1>3, <1>4, <1>5 DEF SampleInv, Increasing, Beginning, InTry, Looping,
  Returning, Ending

\* The types the proofs about samples use.
LEMMA SampleTypes ==
    ASSUME TypeInv
    PROVE  /\ now \in Int /\ samples \in Seq(Int) /\ Len(samples) \in Nat
           /\ \A i \in 1..Len(samples) : samples[i] \in Int
           /\ DOMAIN samples = 1..Len(samples)
           /\ Range(samples) \subseteq Int
BY DEF TypeInv, Range

\* Time moves on from the last recorded checkpoint without reaching the next point
\* of the output interval but as the next checkpoint.
LEMMA IntegrateKeepsSamples ==
    TypeInv /\ ClockInv /\ SyncInv /\ SampleInv /\ Integrate => SampleInv'
<1>. SUFFICES ASSUME TypeInv, ClockInv, SyncInv, SampleInv, Integrate PROVE SampleInv'
  OBVIOUS
<1>1. pc = "integrate" /\ primary = "none"
  BY DEF Integrate, SyncInv, InTry, Looping
<1>2. /\ UNCHANGED <<cfg, steps, samples>> /\ now' \in Int /\ now <= now'
      /\ pc' \in {"event", "advance", "returned"} \/ primary' # "none"
  BY IntegrateMoves
<1>3. /\ Base <= now /\ Base \in Int /\ cfg.start \in Int /\ cfg.start <= now
  BY <1>1, ConfigTypes DEF ClockInv, Advancing
<1>4. /\ Increasing(samples) /\ samples # <<>> /\ RecordedUpTo
      /\ \A i \in 1..Len(samples) : samples[i] <= now
  BY <1>1 DEF SampleInv, InTry, Looping, Beginning
<1>5. \A i \in 1..Len(samples) : samples[i] <= now'
  BY <1>2, <1>4, SampleTypes
<1>6. ASSUME NEW t \in cfg.start..now' PROVE t \in Range(samples) <=> (OnGrid(t) /\ t <= Base)
  <2>1. CASE t <= now
    <3>1. t \in cfg.start..now
      BY <1>2, <1>3, <2>1, SampleTypes
    <3>. QED BY <1>4, <3>1 DEF RecordedUpTo
  <2>2. CASE ~(t <= now)
    <3>1. t \in Int /\ ~(t <= Base)
      BY <1>2, <1>3, <2>2, SampleTypes
    <3>2. t \notin Range(samples)
      BY <1>4, <2>2, SampleTypes DEF Range
    <3>. QED BY <3>1, <3>2
  <2>. QED BY <2>1, <2>2
<1>7. RecordedUpTo'
  <2>1. Base' = Base /\ cfg' = cfg /\ samples' = samples
    BY <1>2 DEF Base
  <2>2. \A t : OnGrid(t)' <=> OnGrid(t)
    BY <1>2 DEF OnGrid
  <2>. QED BY <1>6, <2>1 DEF RecordedUpTo, OnGrid
<1>. QED BY <1>2, <1>4, <1>5, <1>7 DEF SampleInv, Beginning, InTry, Looping, Returning, Ending,
  Increasing

\* A whole checkpoint is recorded before it counts, if it is to be.
LEMMA ReturnKeepsSamples ==
    TypeInv /\ ClockInv /\ SyncInv /\ SampleInv /\ Returned => SampleInv'
<1>. SUFFICES ASSUME TypeInv, ClockInv, SyncInv, SampleInv, Returned PROVE SampleInv'
  OBVIOUS
<1>1. /\ UNCHANGED <<cfg, now, samples, primary>> /\ pc = "returned" /\ primary = "none"
      /\ steps' = StepsAfter
      /\ pc' = IF result \in {"checkpoint", "checkpointStop"} /\ IsSampleTime
               THEN "sample" ELSE "report"
  BY DEF Returned, accumulatorVars, SyncInv, InTry, Returning
<1>2. /\ Increasing(samples) /\ samples # <<>> /\ RecordedUpTo
      /\ \A i \in 1..Len(samples) : samples[i] <= now
  BY <1>1 DEF SampleInv, InTry, Returning, Beginning
<1>3. \A t : OnGrid(t)' <=> OnGrid(t)
  BY <1>1 DEF OnGrid
<1>4. ASSUME pc' = "report", RecordedUpTo' PROVE SampleInv'
  BY <1>1, <1>2, <1>4 DEF SampleInv, InTry, Looping, Returning, Beginning, Ending, Increasing
<1>5. CASE result \notin {"checkpoint", "checkpointStop"}
  <2>1. pc' = "report" /\ Base' = Base
    BY <1>1, <1>5 DEF StepsAfter, Base
  <2>. QED BY <1>1, <1>2, <1>4, <2>1 DEF RecordedUpTo, OnGrid
<1>6. CASE result \in {"checkpoint", "checkpointStop"}
  <2>1. /\ now = Checkpoint /\ Base <= now /\ Base < cfg.stop /\ now \in Int
        /\ cfg.start <= now /\ Base \in Int /\ cfg.start \in Int /\ cfg.step \in Nat \ {0}
        /\ cfg.stop \in Int /\ cfg.start <= Base
        /\ Checkpoint = IF Base + cfg.step < cfg.stop THEN Base + cfg.step ELSE cfg.stop
    <3>1. cfg.start <= Base
      BY ConfigTypes DEF Base
    <3>. QED BY <1>1, <1>6, <3>1, ConfigTypes DEF ClockInv, Advancing, TypeInv
  <2>2. Base' = Base + cfg.step
    <3>1. steps' = steps + 1 /\ steps \in Nat
      BY <1>1, <1>6 DEF StepsAfter, TypeInv
    <3>2. (steps + 1) * cfg.step = steps * cfg.step + cfg.step /\ steps * cfg.step \in Nat
      BY <2>1, <3>1, Distributes
    <3>3. Base' = cfg.start + (steps + 1) * cfg.step /\ Base = cfg.start + steps * cfg.step
      BY <1>1, <3>1 DEF Base
    <3>. QED BY <2>1, <3>2, <3>3
  <2>3. Base < now /\ now <= Base + cfg.step
    BY <2>1
  <2>4. \A t \in cfg.start..now : OnGrid(t) /\ ~(t <= Base) => t = now /\ now = Base + cfg.step
    BY <2>1, <2>3, NoSampleTimeBetween
  <2>5. OnGrid(now) <=> IsSampleTime
    BY <2>1, <2>3 DEF OnGrid, IsSampleTime
  <2>6. CASE IsSampleTime
    <3>1. pc' = "sample"
      BY <1>1, <1>6, <2>6
    <3>2. now = Base + cfg.step
      BY <2>1, <2>3, <2>4, <2>5, <2>6
    <3>3. \A t \in cfg.start..now : t \in Range(samples) <=> (OnGrid(t) /\ t < now)
      <4>1. \A t \in cfg.start..now : OnGrid(t) => (t <= Base <=> t < now)
        BY <2>1, <2>3, <2>4
      <4>. QED BY <1>2, <4>1 DEF RecordedUpTo
    <3>4. RecordedBefore'
      BY <1>1, <3>3 DEF RecordedBefore, OnGrid
    <3>5. OnGrid(now)' /\ now' = Base'
      BY <1>1, <2>2, <2>5, <2>6, <3>2 DEF OnGrid
    <3>. QED BY <1>1, <1>2, <3>1, <3>4, <3>5 DEF SampleInv, InTry, Looping, Returning, Beginning,
      Ending, Increasing
  <2>7. CASE ~IsSampleTime
    <3>1. pc' = "report"
      BY <1>1, <2>7
    <3>2. \A t \in cfg.start..now : OnGrid(t) => (t <= Base <=> t <= Base + cfg.step)
      BY <2>1, <2>4, <2>5, <2>7
    <3>3. \A t \in cfg.start..now : t \in Range(samples) <=> (OnGrid(t) /\ t <= Base + cfg.step)
      BY <1>2, <3>2 DEF RecordedUpTo
    <3>4. RecordedUpTo'
      BY <1>1, <2>2, <3>3 DEF RecordedUpTo, OnGrid
    <3>. QED BY <1>4, <3>1, <3>4
  <2>. QED BY <2>6, <2>7
<1>. QED BY <1>5, <1>6

\* A sample is taken when the one before it is in the past.
LEMMA RecordKeepsSamples ==
    ASSUME TypeInv, ClockInv, SyncInv, SampleInv,
           NEW next \in {"firstReport", "report", "terminate"},
           Recorded(next), UNCHANGED <<cfg, now, steps>>,
           \/ pc = "firstSample" /\ next = "firstReport"
           \/ pc = "sample" /\ next = "report"
           \/ pc = "finalSample" /\ next = "terminate" /\ NeedsFinalSample
    PROVE  SampleInv'
<1>1. /\ Increasing(samples) /\ primary = "none"
      /\ \A i \in 1..Len(samples) : samples[i] <= now
  BY DEF SampleInv, SyncInv, InTry, Beginning, Returning
<1>2. /\ Base' = Base /\ cfg.start \in Int /\ Base \in Int /\ cfg.start <= now
      /\ \A t : OnGrid(t)' <=> OnGrid(t)
  BY ConfigTypes DEF Base, ClockInv, OnGrid
<1>3. CASE primary' # "none"
  <2>1. samples' = samples
    BY <1>1, <1>3 DEF Recorded, accumulatorVars
  <2>. QED BY <1>1, <1>3, <2>1 DEF SampleInv, Increasing
<1>4. CASE primary' = "none"
  <2>1. samples' = Append(samples, now) /\ pc' = next
    BY <1>4 DEF Recorded, Raise
  <2>2. ASSUME samples # <<>> PROVE samples[Len(samples)] < now
    <3>1. Len(samples) \in 1..Len(samples)
      BY <2>2, SampleTypes
    <3>2. CASE pc = "finalSample"
      BY <1>1, <3>1, <3>2, SampleTypes DEF NeedsFinalSample
    <3>3. CASE pc = "firstSample"
      BY <1>1, <2>2, <3>3 DEF SampleInv, Beginning
    <3>4. CASE pc = "sample"
      <4>1. RecordedBefore /\ now = Base
        BY <1>1, <3>4 DEF SampleInv
      <4>2. samples[Len(samples)] \in Range(samples) /\ samples[Len(samples)] \in Int
            /\ samples[Len(samples)] <= now
        BY <1>1, <3>1, SampleTypes DEF Range
      <4>3. now \notin Range(samples)
        BY <1>2, <4>1, SampleTypes DEF RecordedBefore
      <4>. QED BY <4>2, <4>3, SampleTypes
    <3>. QED BY <3>2, <3>3, <3>4
  <2>3. Increasing(samples')
    BY <1>1, <2>1, <2>2, SampleTypes, AppendIncreasing
  <2>4. Range(samples') = Range(samples) \union {now}
    BY <2>1, SampleTypes, AppendRange
  <2>5. samples' # <<>> /\ \A i \in 1..Len(samples') : samples'[i] <= now
    BY <1>1, <2>1, SampleTypes
  <2>6. CASE pc \in {"firstSample", "sample"}
    <3>1. RecordedBefore /\ OnGrid(now) /\ now = Base
      BY <1>1, <2>6 DEF SampleInv, Beginning
    <3>2. \A t \in cfg.start..now : t \in Range(samples') <=> (OnGrid(t) /\ t <= Base)
      BY <1>2, <2>4, <3>1, SampleTypes DEF RecordedBefore
    <3>3. RecordedUpTo'
      BY <1>2, <3>2 DEF RecordedUpTo
    <3>. QED BY <2>1, <2>3, <2>5, <2>6, <3>3 DEF SampleInv, Beginning, Ending, InTry, Returning,
      Looping
  <2>7. CASE pc = "finalSample"
    <3>1. RecordedUpTo
      BY <1>1, <2>7 DEF SampleInv, Beginning, InTry
    <3>2. ASSUME NEW t \in cfg.start..now, OnGrid(t), ~(t <= Base) PROVE t = now
      <4>1. Base + cfg.step <= t
        BY <1>2, <3>2, NoSampleTimeBetween
      <4>2. now <= Base + cfg.step
        BY ConfigTypes, SampleTypes DEF ClockInv
      <4>. QED BY <1>2, <4>1, <4>2, ConfigTypes, SampleTypes
    <3>3. OnGrid(cfg.start) /\ cfg.start <= Base
      <4>1. \A m \in Nat \ {0} : 0 % m = 0
        OBVIOUS
      <4>2. cfg.start - cfg.start = 0
        BY <1>2
      <4>3. cfg.start <= Base
        BY ConfigTypes DEF Base
      <4>. QED BY <4>1, <4>2, <4>3, ConfigTypes DEF OnGrid
    <3>4. \A t \in cfg.start..now :
             t \in Range(samples') <=> (t \in {cfg.start, now} \/ OnGrid(t))
      BY <2>4, <3>1, <3>2, <3>3 DEF RecordedUpTo
    <3>5. RecordedAll'
      BY <3>4 DEF RecordedAll, IsRecorded, OnGrid
    <3>. QED BY <2>1, <2>3, <2>5, <2>7, <3>5 DEF SampleInv, Beginning, Ending, InTry, Returning,
      Looping
  <2>. QED BY <2>6, <2>7
<1>. QED BY <1>3, <1>4

\* The final time may be recorded already.
LEMMA NoFinalSample ==
    TypeInv /\ ClockInv /\ SyncInv /\ SampleInv /\ FinalSample /\ ~NeedsFinalSample => SampleInv'
<1>. SUFFICES ASSUME TypeInv, ClockInv, SyncInv, SampleInv, FinalSample, ~NeedsFinalSample
              PROVE  SampleInv'
  OBVIOUS
<1>1. /\ UNCHANGED <<cfg, now, steps, samples, primary>>
      /\ pc = "finalSample" /\ pc' = "terminate" /\ primary = "none"
  BY DEF FinalSample, accumulatorVars, timeVars, SyncInv, InTry
<1>2. /\ Increasing(samples) /\ samples # <<>> /\ RecordedUpTo
      /\ \A i \in 1..Len(samples) : samples[i] <= now
  BY <1>1 DEF SampleInv, InTry, Beginning
<1>3. now \in Range(samples) /\ cfg.start \in Int /\ Base \in Int
  BY <1>2, SampleTypes, ConfigTypes DEF NeedsFinalSample, Range
<1>4. ASSUME NEW t \in cfg.start..now, OnGrid(t), ~(t <= Base) PROVE t = now
  <2>1. Base + cfg.step <= t
    BY <1>3, <1>4, NoSampleTimeBetween
  <2>2. now <= Base + cfg.step
    BY ConfigTypes, SampleTypes DEF ClockInv
  <2>. QED BY <1>3, <2>1, <2>2, ConfigTypes, SampleTypes
<1>5. OnGrid(cfg.start) /\ cfg.start <= Base
  <2>1. \A m \in Nat \ {0} : 0 % m = 0
    OBVIOUS
  <2>2. cfg.start - cfg.start = 0
    BY <1>3
  <2>3. cfg.start <= Base
    BY ConfigTypes DEF Base
  <2>. QED BY <2>1, <2>2, <2>3, ConfigTypes DEF OnGrid
<1>6. \A t \in cfg.start..now : t \in Range(samples) <=> (t \in {cfg.start, now} \/ OnGrid(t))
  BY <1>2, <1>3, <1>4, <1>5 DEF RecordedUpTo
<1>7. RecordedAll'
  BY <1>1, <1>6 DEF RecordedAll, IsRecorded, OnGrid
<1>. QED BY <1>1, <1>2, <1>7 DEF SampleInv, Increasing, Ending, InTry, Beginning, Looping, Returning

\* Every step keeps what the samples are.
LEMMA SampleStep ==
    TypeInv /\ ClockInv /\ SyncInv /\ SampleInv /\ [Next]_vars => SampleInv'
<1>. SUFFICES ASSUME TypeInv, ClockInv, SyncInv, SampleInv, [Next]_vars PROVE SampleInv'
  OBVIOUS
<1>1. CASE Integrate
  BY <1>1, IntegrateKeepsSamples
<1>2. CASE Returned
  BY <1>2, ReturnKeepsSamples
<1>3. CASE FirstSample
  BY <1>3, RecordKeepsSamples DEF FirstSample, timeVars
<1>4. CASE Sample
  BY <1>4, RecordKeepsSamples DEF Sample, timeVars
<1>5. CASE FinalSample /\ NeedsFinalSample
  BY <1>5, RecordKeepsSamples DEF FinalSample, timeVars
<1>6. CASE FinalSample /\ ~NeedsFinalSample
  BY <1>6, NoFinalSample
<1>7. CASE /\ UNCHANGED <<cfg, now, steps, samples>>
           /\ ~Integrate /\ ~Returned /\ ~FirstSample /\ ~Sample /\ ~FinalSample
  <2>1. /\ RecordedBefore' <=> RecordedBefore
        /\ RecordedUpTo' <=> RecordedUpTo
        /\ RecordedAll' <=> RecordedAll
        /\ OnGrid(now)' <=> OnGrid(now)
        /\ Increasing(samples)' <=> Increasing(samples)
        /\ Base' = Base
    BY <1>7 DEF RecordedBefore, RecordedUpTo, RecordedAll, IsRecorded, OnGrid, Increasing, Base
  <2>2. \/ primary' # "none"
        \/ pc' = pc /\ primary' = primary
        \/ /\ primary' = primary
           /\ \/ pc \in Ending /\ pc' \in Ending
              \/ pc \in Beginning /\ pc' \in Beginning
              \/ /\ pc \in InTry \ (Beginning \union {"sample"})
                 /\ pc' \in InTry \ (Beginning \union {"sample"})
    <3>. USE DEF Raise, Return, Ending, InTry, Beginning, Looping, Returning
    <3>1. CASE Create \/ Initialize
      BY <3>1 DEF Create, Initialize
    <3>2. CASE FirstReport \/ OpenSolver \/ Top
      BY <3>2 DEF FirstReport, OpenSolver, Top
    <3>3. CASE Report \/ Decide
      BY <3>3 DEF Report, Decide
    <3>4. CASE Advance
      BY <3>4 DEF Advance
    <3>5. CASE EnterEvent
      BY <3>5 DEF EnterEvent
    <3>6. CASE Update
      BY <3>6 DEF Update
    <3>7. CASE LeaveEvent
      BY <3>7 DEF LeaveEvent, AfterEvent
    <3>8. CASE Terminate \/ CloseSolver \/ CloseSession \/ Finish
      BY <3>8 DEF Terminate, AfterTerminateRaised, CloseSolver, CloseSession, Finish
    <3>9. CASE FinalChunk \/ FinalReport \/ Interrupt
      BY <3>9 DEF FinalChunk, FinalReport, Interrupt
    <3>10. CASE RequestStop \/ UNCHANGED vars
      BY <3>10 DEF RequestStop, vars
    <3>. QED BY <1>7, <3>1, <3>2, <3>3, <3>4, <3>5, <3>6, <3>7, <3>8, <3>9, <3>10
         DEF Next, Runner
  <2>3. /\ \A i \in 1..Len(samples') : samples'[i] <= now'
        /\ Increasing(samples')
    BY <1>7 DEF SampleInv
  <2>4. CASE primary' # "none"
    BY <2>3, <2>4 DEF SampleInv
  <2>5. CASE pc' = pc /\ primary' = primary
    BY <1>7, <2>1, <2>3, <2>5 DEF SampleInv
  <2>6. CASE primary' = primary /\ pc \in Ending /\ pc' \in Ending
    BY <1>7, <2>1, <2>3, <2>6 DEF SampleInv, Ending, InTry, Beginning, Looping, Returning
  <2>7. CASE primary' = primary /\ pc \in Beginning /\ pc' \in Beginning
    BY <1>7, <2>1, <2>3, <2>7 DEF SampleInv, Ending, InTry, Beginning, Looping, Returning
  <2>8. CASE /\ primary' = primary
             /\ pc \in InTry \ (Beginning \union {"sample"})
             /\ pc' \in InTry \ (Beginning \union {"sample"})
    BY <1>7, <2>1, <2>3, <2>8 DEF SampleInv, Ending, InTry, Beginning, Looping, Returning
  <2>. QED BY <2>2, <2>4, <2>5, <2>6, <2>7, <2>8
<1>8. \/ Integrate \/ Returned \/ FirstSample \/ Sample \/ FinalSample
      \/ UNCHANGED <<cfg, now, steps, samples>>
  BY DEF Next, Runner, Create, Initialize, FirstReport, OpenSolver, Top, Report, Decide,
     Advance, EnterEvent, Update, LeaveEvent, Terminate, CloseSolver, CloseSession, Finish,
     FinalChunk, FinalReport, Interrupt, RequestStop, vars, timeVars, accumulatorVars
<1>. QED BY <1>1, <1>2, <1>3, <1>4, <1>5, <1>6, <1>7, <1>8

\* Why the loop was left, and what is reported of it.
EndInv ==
    /\ stopped => stop
    /\ pc \in Returning /\ result \in {"stop", "checkpointStop"} => stop
    /\ primary = "none" /\ pc \in {"finalSample"} \union Ending /\ ~stopped =>
          now = cfg.stop \/ result = "terminate"
    /\ outcome \in Results =>
          /\ primary = "none" /\ pc = "done"
          /\ outcome = "STOPPED" <=> stopped

\* Initially: what an ended run has done.
LEMMA EndInit == Init => EndInv
BY DEF Init, EndInv, Results, Ending, Returning

\* The loop is left because time is up, because a stop was seen, or because the FMU
\* asked for the end.
LEMMA EndStep ==
    TypeInv /\ ClockInv /\ SyncInv /\ ReleaseInv /\ EndInv /\ [Next]_vars => EndInv'
<1>. SUFFICES ASSUME TypeInv, ClockInv, SyncInv, ReleaseInv, EndInv, [Next]_vars PROVE EndInv'
  OBVIOUS
<1>1. pc # "done" => outcome = "none"
  BY DEF ReleaseInv
<1>. USE DEF EndInv, Raise, Return, timeVars, eventVars, sessionVars, accumulatorVars, endVars,
             Returning, Ending, Results
<1>2. CASE Create \/ Initialize
  BY <1>1, <1>2 DEF Create, Initialize
<1>3. CASE FirstSample
  BY <1>1, <1>3 DEF FirstSample, Recorded
<1>4. CASE FirstReport \/ OpenSolver
  BY <1>1, <1>4 DEF FirstReport, OpenSolver
<1>5. CASE Top
  <2>1. ~(now < cfg.stop) => now = cfg.stop
    BY ConfigTypes DEF TypeInv, ClockInv
  <2>. QED BY <1>1, <1>5, <2>1 DEF Top
<1>6. CASE Returned
  BY <1>1, <1>6 DEF Returned
<1>7. CASE Sample
  BY <1>1, <1>7 DEF Sample, Recorded
<1>8. CASE Report
  BY <1>1, <1>8 DEF Report
<1>9. CASE Decide
  BY <1>1, <1>9 DEF Decide
<1>10. CASE Advance
  BY <1>1, <1>10 DEF Advance, ObservesStop
<1>11. CASE Integrate
  <2>1. pc = "integrate" /\ UNCHANGED <<stop, stopped, outcome>>
        /\ pc' \in {"terminate", "event", "advance", "returned"}
    BY <1>11, IntegrateMoves DEF Integrate
  <2>2. /\ pc' = "returned" => result' = "terminate"
        /\ pc' = "terminate" => primary' # "none"
    BY <1>11, IntegrateMoves
  <2>. QED BY <1>1, <2>1, <2>2
<1>12. CASE EnterEvent
  BY <1>1, <1>12 DEF EnterEvent
<1>13. CASE Update
  BY <1>1, <1>13 DEF Update
<1>14. CASE LeaveEvent
  BY <1>1, <1>14 DEF LeaveEvent, AfterEvent, ObservesStop
<1>15. CASE FinalSample
  BY <1>1, <1>15 DEF FinalSample, Recorded
<1>16. CASE Terminate \/ CloseSolver \/ CloseSession
  <2>1. CASE Terminate
    BY <1>1, <2>1 DEF Terminate, AfterTerminateRaised
  <2>2. CASE CloseSolver
    BY <1>1, <2>2 DEF CloseSolver
  <2>3. CASE CloseSession
    BY <1>1, <2>3 DEF CloseSession
  <2>. QED BY <1>16, <2>1, <2>2, <2>3
<1>17. CASE Finish
  BY <1>1, <1>17 DEF Finish
<1>18. CASE FinalChunk
  BY <1>1, <1>18 DEF FinalChunk
<1>19. CASE FinalReport
  BY <1>1, <1>19 DEF FinalReport, ReleaseInv
<1>20. CASE Interrupt
  BY <1>1, <1>20 DEF Interrupt
<1>21. CASE RequestStop \/ UNCHANGED vars
  BY <1>1, <1>21 DEF RequestStop, vars
<1>. QED
  BY <1>2, <1>3, <1>4, <1>5, <1>6, <1>7, <1>8, <1>9, <1>10, <1>11, <1>12, <1>13, <1>14,
     <1>15, <1>16, <1>17, <1>18, <1>19, <1>20, <1>21 DEF Next, Runner

\* ResultExact: the samples of a COMPLETED or STOPPED run are exactly the initial
\* point, the reached multiples of the output interval and the final time, in
\* order, and the run ended for the reason its outcome gives.
THEOREM ResultIsExact == Spec => []ResultExact
<1>1. TypeInv /\ ClockInv /\ ReleaseInv /\ SampleInv /\ EndInv => ResultExact
  <2>. SUFFICES ASSUME TypeInv, ClockInv, SampleInv, EndInv, outcome \in Results
                PROVE  /\ \A t \in cfg.start..now : IsRecorded(t) <=> t \in Range(samples)
                       /\ \A i \in 1..Len(samples) - 1 : samples[i] < samples[i + 1]
                       /\ (cfg.start + steps * cfg.step <= now \/ now = cfg.stop)
                       /\ now <= Checkpoint
                       /\ outcome = "STOPPED" => stop
                       /\ outcome = "COMPLETED" => (now = cfg.stop \/ result = "terminate")
    BY DEF ResultExact
  <2>1. primary = "none" /\ pc \in Ending /\ (outcome = "STOPPED" <=> stopped)
    BY DEF EndInv, Ending
  <2>2. RecordedAll /\ Increasing(samples)
    BY <2>1 DEF SampleInv
  <2>3. outcome = "COMPLETED" => ~stopped
    BY <2>1
  <2>. QED BY <2>1, <2>2, <2>3 DEF EndInv, ClockInv, RecordedAll, Increasing, Base
<1>. QED
  BY <1>1, TypeInit, TypeStep, SyncInit, SyncStep, ReleaseInit, ReleaseStep, ClockInit,
     ClockStep, SampleInit, SampleStep, EndInit, EndStep, PTL DEF Spec

-----------------------------------------------------------------------------
(* The chunks of the result. *)

\* The chunks `cs` follow each other through the samples `s`, k samples apart.
Sliced(cs, s, k) ==
    \A i \in 1..Len(cs) :
       /\ cs[i].time # <<>>
       /\ (i - 1) * k + Len(cs[i].time) <= Len(s)
       /\ \A j \in 1..Len(cs[i].time) : cs[i].time[j] = s[(i - 1) * k + j]

\* No chunk is the final one, and each is full.
AllFull(cs, k) == \A i \in 1..Len(cs) : ~cs[i].final /\ Len(cs[i].time) = k

\* The pending samples are those that the chunks `cs` have not delivered yet.
Remainder(p, cs, s, k) ==
    /\ Len(s) = Len(cs) * k + Len(p) /\ Len(p) <= k
    /\ \A j \in 1..Len(p) : p[j] = s[Len(cs) * k + j]

Streaming == (InTry \union Ending) \ {"finalReport", "done"}
ChunkInv ==
    /\ Sliced(chunks, samples, cfg.chunk)
    /\ cfg.chunk = 0 => pending = <<>> /\ chunks = <<>>
    /\ \A i \in 1..Len(chunks) - 1 :
          ~chunks[i].final /\ Len(chunks[i].time) = cfg.chunk
    /\ pc \in Streaming =>
          /\ ~terminal /\ AllFull(chunks, cfg.chunk)
          /\ cfg.chunk > 0 /\ primary = "none" =>
                /\ Remainder(pending, chunks, samples, cfg.chunk)
                /\ pc \notin Beginning => pending # <<>>
    /\ pc = "finalReport" => ~terminal /\ (HasFinalChunk \/ cfg.chunk = 0)
    /\ HasFinalChunk =>
          /\ Offset(Len(chunks)) + Len(chunks[Len(chunks)].time) = Len(samples)
          /\ pc \in {"finalReport", "done"} /\ ~failed /\ session # "none"
    /\ terminal => (HasFinalChunk \/ cfg.chunk = 0)

\* One more sample leaves the delivered chunks where they are.
LEMMA SampleKeepsSlices ==
    ASSUME NEW cs \in Seq(Chunk), NEW s \in Seq(Int), NEW k \in Nat, NEW x \in Int,
           Sliced(cs, s, k)
    PROVE  Sliced(cs, Append(s, x), k)
<1>1. /\ Len(Append(s, x)) = Len(s) + 1 /\ Len(s) \in Nat
      /\ \A i \in 1..Len(s) : Append(s, x)[i] = s[i]
  OBVIOUS
<1>. SUFFICES ASSUME NEW i \in 1..Len(cs)
              PROVE  /\ cs[i].time # <<>>
                     /\ (i - 1) * k + Len(cs[i].time) <= Len(s) + 1
                     /\ \A j \in 1..Len(cs[i].time) :
                           cs[i].time[j] = Append(s, x)[(i - 1) * k + j]
  BY <1>1 DEF Sliced
<1>2. Len(cs) \in Nat /\ Len(cs[i].time) \in Nat
  BY DEF Chunk
<1>. DEFINE o == (i - 1) * k
<1>3. o \in Nat
  BY <1>2
<1>4. /\ cs[i].time # <<>> /\ o + Len(cs[i].time) <= Len(s)
      /\ \A j \in 1..Len(cs[i].time) : cs[i].time[j] = s[o + j]
  BY DEF Sliced
<1>. HIDE DEF o
<1>5. \A j \in 1..Len(cs[i].time) : o + j \in 1..Len(s)
  BY <1>1, <1>2, <1>3, <1>4
<1>6. /\ o + Len(cs[i].time) <= Len(s) + 1
      /\ \A j \in 1..Len(cs[i].time) : cs[i].time[j] = Append(s, x)[o + j]
  BY <1>1, <1>2, <1>3, <1>4, <1>5
<1>. QED BY <1>4, <1>6 DEF o

\* What the samples still owe, delivered as a chunk, is the next slice.
LEMMA DeliveryIsNextSlice ==
    ASSUME NEW cs \in Seq(Chunk), NEW s \in Seq(Int), NEW k \in Nat, NEW c \in Chunk,
           Sliced(cs, s, k), Remainder(c.time, cs, s, k), c.time # <<>>
    PROVE  Sliced(Append(cs, c), s, k)
<1>1. /\ Len(Append(cs, c)) = Len(cs) + 1 /\ Len(cs) \in Nat
      /\ \A i \in 1..Len(cs) : Append(cs, c)[i] = cs[i]
      /\ Append(cs, c)[Len(cs) + 1] = c
  OBVIOUS
<1>. DEFINE ds == Append(cs, c)
<1>. HIDE DEF ds
<1>. SUFFICES ASSUME NEW i \in 1..Len(cs) + 1
              PROVE  /\ ds[i].time # <<>>
                     /\ (i - 1) * k + Len(ds[i].time) <= Len(s)
                     /\ \A j \in 1..Len(ds[i].time) : ds[i].time[j] = s[(i - 1) * k + j]
  BY <1>1 DEF Sliced, ds
<1>2. CASE i \in 1..Len(cs)
  <2>1. ds[i] = cs[i]
    BY <1>1, <1>2 DEF ds
  <2>. QED BY <1>2, <2>1 DEF Sliced
<1>3. CASE i = Len(cs) + 1
  <2>1. ds[i] = c /\ i - 1 = Len(cs) /\ Len(cs) * k \in Nat
    BY <1>1, <1>3 DEF ds
  <2>2. Len(c.time) \in Nat /\ Len(s) \in Nat
    BY DEF Chunk
  <2>. QED BY <2>1, <2>2 DEF Remainder
<1>4. i \in 1..Len(cs) \/ i = Len(cs) + 1
  BY <1>1
<1>. QED BY <1>2, <1>3, <1>4

\* Appending to full chunks leaves all but the last full, and a full one all.
LEMMA AppendFull ==
    ASSUME NEW cs \in Seq(Chunk), NEW k \in Nat, NEW c \in Chunk,
           AllFull(cs, k)
    PROVE  /\ \A i \in 1..Len(Append(cs, c)) - 1 :
                 ~Append(cs, c)[i].final /\ Len(Append(cs, c)[i].time) = k
           /\ ~c.final /\ Len(c.time) = k => AllFull(Append(cs, c), k)
<1>1. /\ Len(Append(cs, c)) = Len(cs) + 1 /\ Len(cs) \in Nat
      /\ \A i \in 1..Len(cs) : Append(cs, c)[i] = cs[i]
      /\ Append(cs, c)[Len(cs) + 1] = c
  OBVIOUS
<1>. DEFINE ds == Append(cs, c)
<1>. HIDE DEF ds
<1>2. \A i \in 1..Len(cs) : ~ds[i].final /\ Len(ds[i].time) = k
  BY <1>1 DEF AllFull, ds
<1>3. Len(ds) - 1 = Len(cs)
  BY <1>1 DEF ds
<1>4. ASSUME ~c.final, Len(c.time) = k, NEW i \in 1..Len(cs) + 1
      PROVE  ~ds[i].final /\ Len(ds[i].time) = k
  <2>1. CASE i = Len(cs) + 1
    BY <1>1, <1>4, <2>1 DEF ds
  <2>2. CASE i # Len(cs) + 1
    BY <1>1, <1>2, <1>4, <2>2
  <2>. QED BY <2>1, <2>2
<1>5. ~c.final /\ Len(c.time) = k => AllFull(ds, k)
  BY <1>1, <1>3, <1>4 DEF AllFull, ds
<1>. QED BY <1>2, <1>3, <1>5 DEF ds

\* The next sample becomes pending.
LEMMA PendingGrows ==
    ASSUME NEW p \in Seq(Int), NEW cs \in Seq(Chunk), NEW s \in Seq(Int),
           NEW k \in Nat \ {0}, NEW x \in Int, Remainder(p, cs, s, k), Len(p) # k
    PROVE  Remainder(Append(p, x), cs, Append(s, x), k)
<1>. DEFINE o == Len(cs) * k
<1>1. o \in Nat /\ Len(p) \in Nat /\ Len(s) \in Nat
  OBVIOUS
<1>2. /\ Len(Append(s, x)) = Len(s) + 1 /\ Len(Append(p, x)) = Len(p) + 1
      /\ \A i \in 1..Len(s) : Append(s, x)[i] = s[i]
      /\ Append(s, x)[Len(s) + 1] = x
      /\ \A i \in 1..Len(p) : Append(p, x)[i] = p[i]
      /\ Append(p, x)[Len(p) + 1] = x
  OBVIOUS
<1>3. /\ Len(s) = o + Len(p) /\ Len(p) <= k
      /\ \A j \in 1..Len(p) : p[j] = s[o + j]
  BY DEF Remainder
<1>. HIDE DEF o
<1>4. ASSUME NEW j \in 1..Len(p) + 1 PROVE Append(p, x)[j] = Append(s, x)[o + j]
  <2>1. CASE j = Len(p) + 1
    BY <1>1, <1>2, <1>3, <2>1
  <2>2. CASE j \in 1..Len(p)
    <3>1. o + j \in 1..Len(s)
      BY <1>1, <1>3, <2>2
    <3>. QED BY <1>2, <1>3, <2>2, <3>1
  <2>3. j = Len(p) + 1 \/ j \in 1..Len(p)
    BY <1>1, <1>4
  <2>. QED BY <2>1, <2>2, <2>3
<1>5. /\ Len(s) + 1 = o + (Len(p) + 1) /\ Len(p) + 1 <= k
  BY <1>1, <1>3
<1>. QED BY <1>2, <1>4, <1>5 DEF Remainder, o

\* After a delivery the next sample alone is pending.
LEMMA PendingRestarts ==
    ASSUME NEW p \in Seq(Int), NEW cs \in Seq(Chunk), NEW s \in Seq(Int), NEW c \in Chunk,
           NEW k \in Nat \ {0}, NEW x \in Int, Remainder(p, cs, s, k), Len(p) = k
    PROVE  Remainder(<<x>>, Append(cs, c), Append(s, x), k)
<1>1. /\ Len(cs) \in Nat /\ Len(s) \in Nat /\ Len(Append(cs, c)) = Len(cs) + 1
      /\ Len(Append(s, x)) = Len(s) + 1 /\ Append(s, x)[Len(s) + 1] = x
      /\ Len(<<x>>) = 1 /\ <<x>>[1] = x
  OBVIOUS
<1>2. (Len(cs) + 1) * k = Len(cs) * k + k /\ Len(cs) * k \in Nat
  BY <1>1, Distributes
<1>3. Len(s) = (Len(cs) + 1) * k
  BY <1>2 DEF Remainder
<1>. DEFINE o == (Len(cs) + 1) * k
<1>. HIDE DEF o
<1>4. Len(s) + 1 = o + 1 /\ 1 <= k /\ \A j \in 1..1 : <<x>>[j] = Append(s, x)[o + j]
  BY <1>1, <1>3 DEF o
<1>. QED BY <1>1, <1>4 DEF Remainder, o

\* Initially: what the chunks are.
LEMMA ChunkInit == TypeInv /\ Init => ChunkInv
<1>. SUFFICES ASSUME TypeInv, Init PROVE ChunkInv
  OBVIOUS
<1>1. /\ chunks = <<>> /\ pending = <<>> /\ samples = <<>> /\ pc = "create" /\ ~terminal
      /\ Len(chunks) = 0 /\ Len(samples) = 0 /\ Len(pending) = 0
  BY DEF Init
<1>2. cfg.chunk \in Nat /\ 0 * cfg.chunk = 0
  BY ConfigTypes
<1>3. Remainder(pending, chunks, samples, cfg.chunk)
  BY <1>1, <1>2 DEF Remainder
<1>. QED BY <1>1, <1>3 DEF ChunkInv, Sliced, AllFull, HasFinalChunk, Beginning

\* A sample either joins the pending ones or sends them off as a full chunk; a
\* chunk whose callback raises has been delivered all the same.
LEMMA RecordKeepsChunks ==
    ASSUME TypeInv, SyncInv, ChunkInv, NEW next \in {"firstReport", "report", "terminate"},
           pc \in {"firstSample", "sample", "finalSample"}, Recorded(next),
           UNCHANGED <<cfg, terminal, now>>
    PROVE  ChunkInv'
<1>. DEFINE k == cfg.chunk
<1>. DEFINE d == [time |-> pending, final |-> FALSE]
<1>1. /\ k \in Nat /\ now \in Int /\ samples \in Seq(Int) /\ pending \in Seq(Int)
      /\ chunks \in Seq(Chunk) /\ Len(chunks) \in Nat
  BY ConfigTypes DEF TypeInv
<1>2. /\ ~terminal /\ AllFull(chunks, k) /\ Sliced(chunks, samples, k)
      /\ primary = "none"
      /\ k > 0 => Remainder(pending, chunks, samples, k)
      /\ k = 0 => pending = <<>> /\ chunks = <<>>
  BY DEF ChunkInv, Streaming, InTry, SyncInv, Beginning, Returning
<1>3. d \in Chunk /\ d.time = pending /\ d.final = FALSE
  BY <1>1 DEF Chunk
<1>. HIDE DEF d
<1>4. next \in Streaming /\ next # "finalReport" /\ "terminate" \in Streaming
  BY DEF Streaming, InTry, Ending, Returning
<1>5. ASSUME NEW s \in Seq(Int), NEW p \in Seq(Int), NEW cs \in Seq(Chunk),
             samples' = s, pending' = p, chunks' = cs, Sliced(cs, s, k), AllFull(cs, k),
             k = 0 => p = <<>> /\ cs = <<>>,
             \/ pc' = "terminate" /\ primary' # "none"
             \/ pc' = next /\ (k > 0 => Remainder(p, cs, s, k) /\ p # <<>>)
      PROVE  ChunkInv'
  <2>1. Len(cs) \in Nat
    OBVIOUS
  <2>2. ~HasFinalChunk'
    <3>1. cs # <<>> => Len(cs) \in 1..Len(cs)
      OBVIOUS
    <3>. QED BY <1>5, <3>1 DEF HasFinalChunk, AllFull
  <2>3. \A i \in 1..Len(cs) - 1 : ~cs[i].final /\ Len(cs[i].time) = k
    BY <1>5, <2>1 DEF AllFull
  <2>4. CASE pc' = "terminate" /\ primary' # "none"
    BY <1>2, <1>4, <1>5, <2>2, <2>3, <2>4 DEF ChunkInv
  <2>5. CASE pc' = next /\ (k > 0 => Remainder(p, cs, s, k) /\ p # <<>>)
    BY <1>2, <1>4, <1>5, <2>2, <2>3, <2>5 DEF ChunkInv
  <2>. QED BY <1>5, <2>4, <2>5
<1>6. ASSUME ChunkIsFull
      PROVE  /\ k > 0 /\ Len(pending) = k /\ pending # <<>> /\ Delivered(FALSE) = Append(chunks, d)
             /\ Append(chunks, d) \in Seq(Chunk)
             /\ Sliced(Append(chunks, d), samples, k) /\ AllFull(Append(chunks, d), k)
  <2>1. k > 0 /\ Len(pending) = k /\ pending # <<>>
    BY <1>1, <1>6 DEF ChunkIsFull
  <2>2. Delivered(FALSE) = Append(chunks, d)
    BY DEF Delivered, d
  <2>3. Append(chunks, d) \in Seq(Chunk)
    BY <1>1, <1>3
  <2>4. Sliced(Append(chunks, d), samples, k)
    BY <1>1, <1>2, <1>3, <2>1, DeliveryIsNextSlice
  <2>5. AllFull(Append(chunks, d), k)
    BY <1>1, <1>2, <1>3, <2>1, AppendFull
  <2>. QED BY <2>1, <2>2, <2>3, <2>4, <2>5
<1>7. CASE Raise("error") /\ UNCHANGED accumulatorVars
  <2>1. /\ samples' = samples /\ pending' = pending /\ chunks' = chunks
        /\ pc' = "terminate" /\ primary' # "none"
    BY <1>7 DEF Raise, accumulatorVars
  <2>. QED BY <1>1, <1>2, <1>5, <2>1
<1>8. CASE ChunkIsFull /\ chunks' = Delivered(FALSE) /\ Raise("error")
           /\ UNCHANGED <<samples, pending>>
  <2>1. /\ samples' = samples /\ pending' = pending
        /\ pc' = "terminate" /\ primary' # "none"
    BY <1>8 DEF Raise
  <2>2. chunks' = Append(chunks, d)
    BY <1>6, <1>8
  <2>3. k # 0
    BY <1>1, <1>6, <1>8
  <2>. QED BY <1>1, <1>5, <1>6, <1>8, <2>1, <2>2, <2>3
<1>9. CASE /\ samples' = Append(samples, now) /\ pending' = PendingWith(now)
           /\ chunks' = IF ChunkIsFull THEN Delivered(FALSE) ELSE chunks
           /\ pc' = next
  <2>1. Append(samples, now) \in Seq(Int) /\ Append(pending, now) \in Seq(Int)
    BY <1>1
  <2>a. Append(pending, now) # <<>>
    BY <1>1
  <2>b. <<now>> \in Seq(Int) /\ <<now>> # <<>>
    BY <1>1
  <2>2. CASE k = 0
    <3>1. ~ChunkIsFull /\ PendingWith(now) = <<>>
      BY <2>2 DEF ChunkIsFull, PendingWith
    <3>2. Sliced(chunks, Append(samples, now), k)
      BY <1>1, <1>2, SampleKeepsSlices
    <3>3. /\ samples' = Append(samples, now) /\ pending' = pending /\ chunks' = chunks
          /\ pc' = next
      BY <1>2, <1>9, <2>2, <3>1
    <3>4. chunks = <<>> /\ pending = <<>> /\ ~(k > 0)
      BY <1>1, <1>2, <2>2
    <3>. HIDE DEF k
    <3>. QED BY <1>1, <1>2, <1>5, <2>1, <2>2, <3>2, <3>3, <3>4
  <2>3. CASE k # 0 /\ ChunkIsFull
    <3>1. PendingWith(now) = <<now>>
      BY <2>3 DEF PendingWith
    <3>2. Sliced(Append(chunks, d), Append(samples, now), k)
      BY <1>1, <1>6, <2>3, SampleKeepsSlices
    <3>3. Remainder(<<now>>, Append(chunks, d), Append(samples, now), k)
      BY <1>1, <1>2, <1>3, <1>6, <2>3, PendingRestarts
    <3>. QED BY <1>1, <1>5, <1>6, <1>9, <2>1, <2>b, <2>3, <3>1, <3>2, <3>3
  <2>4. CASE k # 0 /\ ~ChunkIsFull
    <3>1. PendingWith(now) = Append(pending, now) /\ k \in Nat \ {0} /\ Len(pending) # k
      BY <1>1, <2>4 DEF PendingWith, ChunkIsFull
    <3>2. Sliced(chunks, Append(samples, now), k)
      BY <1>1, <1>2, SampleKeepsSlices
    <3>3. Remainder(Append(pending, now), chunks, Append(samples, now), k)
      BY <1>1, <1>2, <3>1, PendingGrows
    <3>. QED BY <1>1, <1>2, <1>5, <1>9, <2>1, <2>a, <2>4, <3>1, <3>2, <3>3
  <2>. QED BY <2>2, <2>3, <2>4
<1>. QED BY <1>7, <1>8, <1>9 DEF Recorded

\* At the end every sample not yet delivered goes into the final chunk.
LEMMA FinalKeepsChunks ==
    ASSUME TypeInv, ReleaseInv, ChunkInv, FinalChunk
    PROVE  ChunkInv'
<1>. DEFINE k == cfg.chunk
<1>. DEFINE d == [time |-> pending, final |-> TRUE]
<1>1. /\ k \in Nat /\ samples \in Seq(Int) /\ pending \in Seq(Int)
      /\ chunks \in Seq(Chunk) /\ Len(chunks) \in Nat
  BY ConfigTypes DEF TypeInv
<1>2. /\ pc = "finalChunk" /\ primary = "none" /\ ~failed /\ session # "none"
      /\ UNCHANGED <<cfg, samples, terminal, failed, session>>
      /\ \/ pending' = <<>> /\ pc' = "finalReport"
         \/ pc' = "done" /\ pending' = pending /\ pending # <<>>
  BY DEF FinalChunk, ReleaseInv, sessionVars
<1>3. /\ ~terminal /\ AllFull(chunks, k) /\ Sliced(chunks, samples, k)
      /\ k > 0 => Remainder(pending, chunks, samples, k) /\ pending # <<>>
      /\ k = 0 => pending = <<>> /\ chunks = <<>>
  BY <1>2 DEF ChunkInv, Streaming, InTry, Ending, Beginning
<1>4. d \in Chunk /\ d.time = pending /\ d.final = TRUE
  BY <1>1 DEF Chunk
<1>5. "finalReport" \notin Streaming /\ "done" \notin Streaming
  BY DEF Streaming
<1>6. CASE k = 0
  <2>1. chunks' = <<>> /\ pending' = <<>>
    BY <1>2, <1>3, <1>6 DEF FinalChunk
  <2>2. ~HasFinalChunk' /\ Len(chunks') = 0
    BY <2>1 DEF HasFinalChunk
  <2>3. pc' = "finalReport"
    BY <1>2, <1>3, <1>6
  <2>. QED BY <1>2, <1>3, <1>5, <1>6, <2>1, <2>2, <2>3 DEF ChunkInv, Sliced
<1>7. CASE k # 0
  <2>1. k > 0 /\ pending # <<>>
    BY <1>1, <1>3, <1>7
  <2>2. chunks' = Append(chunks, d)
    BY <2>1 DEF FinalChunk, Delivered
  <2>. HIDE DEF d
  <2>3. Sliced(Append(chunks, d), samples, k)
    BY <1>1, <1>3, <1>4, <2>1, DeliveryIsNextSlice
  <2>4. \A i \in 1..Len(Append(chunks, d)) - 1 :
           ~Append(chunks, d)[i].final /\ Len(Append(chunks, d)[i].time) = k
    BY <1>1, <1>3, <1>4, AppendFull
  <2>5. /\ chunks' # <<>> /\ Len(chunks') = Len(chunks) + 1 /\ chunks'[Len(chunks')] = d
    <3>1. Len(Append(chunks, d)) = Len(chunks) + 1
      BY <1>1, <1>4
    <3>2. Append(chunks, d)[Len(chunks) + 1] = d
      BY <1>1, <1>4
    <3>3. Append(chunks, d) # <<>>
      BY SMTT(20), <1>1, <3>1
    <3>. QED BY <2>2, <3>1, <3>2, <3>3
  <2>6. HasFinalChunk'
    BY <1>4, <2>5 DEF HasFinalChunk
  <2>7. Offset(Len(chunks))' = Len(chunks) * k
    BY <1>1, <1>2, <2>5 DEF Offset
  <2>8. (Offset(Len(chunks)) + Len(chunks[Len(chunks)].time) = Len(samples))'
    BY <1>2, <1>3, <1>4, <2>1, <2>5, <2>7 DEF Remainder
  <2>9. pc' \in {"finalReport", "done"} /\ pc' \notin Streaming
    BY <1>2, <1>5
  <2>. QED BY <1>2, <1>3, <1>7, <2>2, <2>3, <2>4, <2>6, <2>8, <2>9 DEF ChunkInv
<1>. QED BY <1>6, <1>7

\* Nothing else touches the stream; the terminal report follows the final chunk.
LEMMA ChunkStep ==
    TypeInv /\ SyncInv /\ ReleaseInv /\ ChunkInv /\ [Next]_vars => ChunkInv'
<1>. SUFFICES ASSUME TypeInv, SyncInv, ReleaseInv, ChunkInv, [Next]_vars PROVE ChunkInv'
  OBVIOUS
<1>1. CASE FirstSample
  BY <1>1, RecordKeepsChunks DEF FirstSample, timeVars, endVars
<1>2. CASE Sample
  BY <1>2, RecordKeepsChunks DEF Sample, timeVars, endVars
<1>3. CASE FinalSample /\ NeedsFinalSample
  BY <1>3, RecordKeepsChunks DEF FinalSample, timeVars, endVars
<1>4. CASE FinalChunk
  BY <1>4, FinalKeepsChunks
<1>5. CASE UNCHANGED <<cfg, samples, pending, chunks>> /\ ~Sample /\ ~FirstSample /\ ~FinalChunk
  <2>1. /\ HasFinalChunk' <=> HasFinalChunk
        /\ Offset(Len(chunks))' = Offset(Len(chunks))
    BY <1>5 DEF HasFinalChunk, Offset
  <2>2. HasFinalChunk => pc \in {"finalReport", "done"}
    BY DEF ChunkInv
  <2>3. /\ pc' \in Streaming => pc \in Streaming
        /\ pc' \in Streaming /\ primary' = "none" =>
              primary = "none" /\ (pc' \in Beginning \/ pc \notin Beginning)
        /\ pc' = "finalReport" => pc = "finalReport"
        /\ pc \in {"finalReport", "done"} =>
              pc' \in {"finalReport", "done"} /\ UNCHANGED <<failed, session>>
        /\ terminal' = terminal \/ (pc = "finalReport" /\ pc' = "done")
    <3>. USE DEF Raise, Return, Streaming, InTry, Beginning, Looping, Returning, Ending,
             sessionVars, endVars
    <3>1. CASE Create \/ Initialize
      BY <3>1 DEF Create, Initialize
    <3>2. CASE FirstReport \/ OpenSolver \/ Top \/ Returned
      BY <3>2 DEF FirstReport, OpenSolver, Top, Returned
    <3>3. CASE Report \/ Decide
      BY <3>3 DEF Report, Decide
    <3>4. CASE Advance
      BY <3>4 DEF Advance
    <3>5. CASE Integrate
      <4>1. pc = "integrate" /\ terminal' = terminal /\ primary = "none"
        BY <3>5 DEF Integrate, SyncInv
      <4>2. pc' \in {"terminate", "event", "advance", "returned"}
        BY <3>5, IntegrateMoves
      <4>. QED BY <4>1, <4>2
    <3>6. CASE EnterEvent
      BY <3>6 DEF EnterEvent
    <3>7. CASE Update
      BY <3>7 DEF Update
    <3>8. CASE LeaveEvent
      BY <3>8 DEF LeaveEvent, AfterEvent
    <3>9. CASE FinalSample
      BY <3>9 DEF FinalSample, Recorded
    <3>10. CASE Terminate
      BY <3>10 DEF Terminate, AfterTerminateRaised
    <3>11. CASE CloseSolver
      BY <3>11 DEF CloseSolver
    <3>12. CASE CloseSession
      BY <3>12 DEF CloseSession
    <3>13. CASE Finish
      BY <3>13 DEF Finish
    <3>14. CASE FinalReport
      BY <3>14 DEF FinalReport
    <3>15. CASE Interrupt
      <4>1. pc \in InTry \union Ending
        BY DEF ReleaseInv
      <4>. QED BY <3>15, <4>1 DEF Interrupt, AfterCleanup
    <3>16. CASE RequestStop \/ UNCHANGED vars
      BY <3>16 DEF RequestStop, vars
    <3>. QED
      BY <1>5, <3>1, <3>2, <3>3, <3>4, <3>5, <3>6, <3>7, <3>8, <3>9, <3>10, <3>11, <3>12,
         <3>13, <3>14, <3>15, <3>16 DEF Next, Runner
  <2>4. "finalReport" \notin Streaming /\ "done" \notin Streaming
    BY DEF Streaming
  <2>. QED BY <1>5, <2>1, <2>2, <2>3, <2>4 DEF ChunkInv
<1>6. \/ FirstSample \/ Sample \/ FinalChunk \/ (FinalSample /\ NeedsFinalSample)
      \/ UNCHANGED <<cfg, samples, pending, chunks>>
  BY DEF Next, Runner, Create, Initialize, FirstReport, OpenSolver, Top, Returned, Report,
     Decide, Advance, Integrate, EnterEvent, Update, LeaveEvent, FinalSample, Terminate,
     CloseSolver, CloseSession, Finish, FinalReport, Interrupt, RequestStop, vars,
     accumulatorVars
<1>. QED BY <1>1, <1>2, <1>3, <1>4, <1>5, <1>6

\* ReleasedThenStreamed: whatever fails or is interrupted, everything that exists is
\* released once and in order, a final chunk comes only after that, and the chunks
\* are the samples cut into full ones.
THEOREM ReleaseThenStream == Spec => []ReleasedThenStreamed
<1>1. TypeInv /\ ReleaseInv /\ ChunkInv => ReleasedThenStreamed
  <2>. SUFFICES ASSUME TypeInv, ReleaseInv, ChunkInv PROVE ReleasedThenStreamed
    OBVIOUS
  <2>1. chunks \in Seq(Chunk) /\ DOMAIN chunks = 1..Len(chunks)
    BY DEF TypeInv
  <2>2. ASSUME NEW i \in DOMAIN chunks PROVE Segment(i)
    <3>1. chunks[i].time \in Seq(Int)
      <4>1. chunks[i] \in Chunk
        BY <2>1, <2>2
      <4>. QED BY <4>1 DEF Chunk
    <3>2. DOMAIN chunks[i].time = 1..Len(chunks[i].time)
      BY <3>1
    <3>. QED BY <2>1, <2>2, <3>2 DEF ChunkInv, Sliced, Segment, Offset
  <2>3. (outcome # "none" \/ pc \in AfterCleanup) =>
          /\ session \in {"none", "closed"} /\ solver \in {"none", "closed"}
          /\ released = ReleasedAll
    BY DEF ReleaseInv
  <2>4. HasFinalChunk => ~failed /\ Len(released) >= 2
    <3>1. ASSUME HasFinalChunk
          PROVE  released \in {<<"terminate", "session">>, <<"terminate", "solver", "session">>}
      BY <3>1 DEF ChunkInv, ReleaseInv, ReleasedAll, AfterCleanup
    <3>2. Len(<<"terminate", "session">>) = 2 /\ Len(<<"terminate", "solver", "session">>) = 3
      OBVIOUS
    <3>3. HasFinalChunk => Len(released) >= 2
      BY <3>1, <3>2
    <3>. QED BY <3>3 DEF ChunkInv
  <2>. QED BY <2>2, <2>3, <2>4 DEF ChunkInv, ReleasedThenStreamed, ReleasedAll
<1>. QED
  BY <1>1, TypeInit, TypeStep, SyncInit, SyncStep, ReleaseInit, ReleaseStep, ChunkInit,
     ChunkStep, PTL DEF Spec

-----------------------------------------------------------------------------
(* A run cannot go round for ever: every step of the calling thread takes it *)
(* closer to its end, in the order of checkpoints, points of the runner,     *)
(* cycles of the coordinator, points of a cycle and discrete iterations.     *)

CheckpointsLeft == cfg.stop - cfg.start - steps

\* How far the points of the runner still ahead reach.  One turn of its loop goes
\* from the sample of a checkpoint to the return of the next one; a stop and an end
\* the FMU asked for lead from there out of the loop.
EndsLoop == result \in {"stop", "terminate"}
PointsLeft ==
    CASE pc = "create"      -> 20
      [] pc = "initialize"  -> 19
      [] pc = "firstSample" -> 18
      [] pc = "firstReport" -> 17
      [] pc = "solver"      -> 16
      [] pc = "sample"      -> 15
      [] pc = "report"      -> IF EndsLoop THEN 9 ELSE 14
      [] pc = "decide"      -> IF EndsLoop THEN 8 ELSE 13
      [] pc = "top"         -> 12
      [] pc \in {"advance", "integrate", "event", "update", "leave"} -> 11
      [] pc = "returned"    -> 10
      [] pc = "finalSample" -> 7
      [] pc = "terminate"   -> 6
      [] pc = "closeSolver" -> 5
      [] pc = "close"       -> 4
      [] pc = "finish"      -> 3
      [] pc = "finalChunk"  -> 2
      [] pc = "finalReport" -> 1
      [] pc = "done"        -> 0

CyclesLeft == CycleLimit + 1 - cycles

\* The points still ahead in a cycle of advance_to: its head counts the next one.
CyclePointsLeft ==
    CASE pc = "integrate" -> 4
      [] pc = "event"     -> 3
      [] pc = "update"    -> 2
      [] pc = "leave"     -> 1
      [] OTHER            -> 0

IterationsLeft == IterationLimit - iterations

Counts == <<CheckpointsLeft, PointsLeft, CyclesLeft, CyclePointsLeft, IterationsLeft>>
Counted ==
    {CheckpointsLeft, PointsLeft, CyclesLeft, CyclePointsLeft, IterationsLeft} \subseteq Nat
Closer ==
    \/ CheckpointsLeft' < CheckpointsLeft
    \/ UNCHANGED CheckpointsLeft /\ PointsLeft' < PointsLeft
    \/ UNCHANGED <<CheckpointsLeft, PointsLeft>> /\ CyclesLeft' < CyclesLeft
    \/ /\ UNCHANGED <<CheckpointsLeft, PointsLeft, CyclesLeft>>
       /\ CyclePointsLeft' < CyclePointsLeft
    \/ /\ UNCHANGED <<CheckpointsLeft, PointsLeft, CyclesLeft, CyclePointsLeft>>
       /\ IterationsLeft' < IterationsLeft

\* The counters stay in their bounds: a checkpoint is completed before the stop
\* time, and the cycle or iteration past its limit ends the try block.
CountInv ==
    /\ pc \in InTry \union Ending
    /\ steps <= cfg.stop - cfg.start
    /\ cycles \in 0..CycleLimit + 1
    /\ pc \in Advancing => cycles <= CycleLimit
    /\ iterations \in 0..IterationLimit
    /\ pc = "event" => iterations = 0
    /\ pc = "update" => iterations < IterationLimit
    /\ pc = "returned" => result \in {"checkpoint", "checkpointStop", "stop", "terminate"}

\* A checkpoint is returned from a lap that began before the stop time, so that the
\* checkpoints completed before it are fewer than the instants up to there.
LEMMA StepsBeforeStop == TypeInv /\ ClockInv /\ pc = "returned" => steps < cfg.stop - cfg.start
<1>. SUFFICES ASSUME TypeInv, ClockInv, pc = "returned" PROVE steps < cfg.stop - cfg.start
  OBVIOUS
<1>1. cfg.step \in Nat \ {0} /\ cfg.stop \in Int /\ cfg.start \in Int /\ steps \in Nat
  BY ConfigTypes DEF TypeInv
<1>2. cfg.start + steps * cfg.step < cfg.stop
  BY DEF ClockInv, Advancing, Base
<1>3. \A n \in Nat, k \in Nat \ {0} : n <= n * k
  OBVIOUS
<1>4. steps <= steps * cfg.step /\ steps * cfg.step \in Nat
  BY <1>1, <1>3, ConfigTypes
<1>. QED BY <1>1, <1>2, <1>4

\* Initially nothing is counted yet.
LEMMA CountInit == TypeInv /\ Init => CountInv
<1>. SUFFICES ASSUME TypeInv, Init PROVE CountInv
  OBVIOUS
<1>1. /\ cfg.start \in Int /\ cfg.stop \in Int /\ cfg.start < cfg.stop
      /\ CycleLimit \in Nat /\ IterationLimit \in Nat
      /\ steps = 0 /\ cycles = 0 /\ iterations = 0 /\ pc = "create"
  BY ConfigTypes, LimitsAssumption DEF Init
<1>. QED BY <1>1 DEF CountInv, InTry, Beginning, Advancing

\* What moves each of the counters.
LEMMA CounterFrame ==
    ASSUME [Next]_vars
    PROVE  /\ UNCHANGED cfg
           /\ Returned \/ UNCHANGED steps
           /\ Top \/ Advance \/ UNCHANGED cycles
           /\ Advance \/ Integrate \/ Update \/ UNCHANGED iterations
<1>. USE DEF timeVars, eventVars
<1>1. CASE Create \/ Initialize \/ FirstSample \/ FirstReport \/ OpenSolver \/ Top
  BY <1>1 DEF Create, Initialize, FirstSample, FirstReport, OpenSolver, Top
<1>2. CASE Returned \/ Sample \/ Report \/ Decide \/ FinalSample
  BY <1>2 DEF Returned, Sample, Report, Decide, FinalSample
<1>3. CASE Advance
  BY <1>3 DEF Advance
<1>4. CASE Integrate
  BY <1>4 DEF Integrate
<1>5. CASE EnterEvent \/ Update \/ LeaveEvent
  BY <1>5 DEF EnterEvent, Update, LeaveEvent
<1>6. CASE Terminate \/ CloseSolver \/ CloseSession \/ Finish \/ FinalChunk \/ FinalReport
  BY <1>6 DEF Terminate, CloseSolver, CloseSession, Finish, FinalChunk, FinalReport
<1>7. CASE Interrupt \/ RequestStop \/ UNCHANGED vars
  BY <1>7 DEF Interrupt, RequestStop, vars
<1>. QED BY <1>1, <1>2, <1>3, <1>4, <1>5, <1>6, <1>7 DEF Next, Runner

\* Every step keeps the counters in their bounds.
LEMMA CountStep ==
    TypeInv /\ ClockInv /\ SyncInv /\ CountInv /\ [Next]_vars => CountInv'
<1>. SUFFICES ASSUME TypeInv, ClockInv, SyncInv, CountInv, [Next]_vars PROVE CountInv'
  OBVIOUS
<1>1. /\ cfg.stop \in Int /\ cfg.start \in Int /\ steps \in Nat
      /\ CycleLimit \in Nat \ {0} /\ IterationLimit \in Nat \ {0}
  BY ConfigTypes, LimitsAssumption DEF TypeInv
<1>2. steps' <= cfg.stop' - cfg.start'
  <2>1. CASE Returned
    <3>1. steps' \in {steps, steps + 1} /\ cfg' = cfg /\ pc = "returned"
      BY <2>1 DEF Returned, StepsAfter
    <3>. QED BY <1>1, <3>1, StepsBeforeStop DEF CountInv
  <2>2. CASE UNCHANGED <<cfg, steps>>
    BY <2>2 DEF CountInv
  <2>. QED BY <2>1, <2>2, CounterFrame
<1>. DEFINE Bounded ==
              /\ pc' \in InTry \union Ending
              /\ cycles' \in 0..CycleLimit + 1
              /\ pc' \in Advancing => cycles' <= CycleLimit
              /\ iterations' \in 0..IterationLimit
              /\ pc' = "event" => iterations' = 0
              /\ pc' = "update" => iterations' < IterationLimit
              /\ pc' = "returned" =>
                    result' \in {"checkpoint", "checkpointStop", "stop", "terminate"}
<1>3. Bounded
  <2>. USE <1>1 DEF CountInv, InTry, Beginning, Looping, Returning, Ending, Advancing,
                    Raise, Return, timeVars, eventVars
  <2>1. CASE Create \/ Initialize \/ FirstReport \/ OpenSolver \/ Top
    BY <2>1 DEF Create, Initialize, FirstReport, OpenSolver, Top
  <2>2. CASE FirstSample \/ Sample
    BY <2>2 DEF FirstSample, Sample, Recorded
  <2>3. CASE FinalSample
    BY <2>3 DEF FinalSample, Recorded
  <2>4. CASE Returned \/ Report \/ Decide
    BY <2>4 DEF Returned, Report, Decide
  <2>5. CASE Advance
    BY <2>5 DEF Advance, NextCycle
  <2>6. CASE Integrate
    BY <2>6 DEF Integrate, EvaluationFails, Arrive
  <2>7. CASE EnterEvent
    BY <2>7 DEF EnterEvent
  <2>8. CASE Update
    BY <2>8 DEF Update
  <2>9. CASE LeaveEvent
    BY <2>9 DEF LeaveEvent, AfterEvent
  <2>10. CASE Terminate \/ CloseSolver \/ CloseSession
    BY <2>10 DEF Terminate, AfterTerminateRaised, CloseSolver, CloseSession
  <2>11. CASE Finish \/ FinalChunk \/ FinalReport
    BY <2>11 DEF Finish, FinalChunk, FinalReport
  <2>12. CASE Interrupt
    BY <2>12 DEF Interrupt
  <2>13. CASE RequestStop \/ UNCHANGED vars
    BY <2>13 DEF RequestStop, vars
  <2>. QED
    BY <2>1, <2>2, <2>3, <2>4, <2>5, <2>6, <2>7, <2>8, <2>9, <2>10, <2>11, <2>12, <2>13
       DEF Next, Runner
<1>. QED
  <2>1. CycleLimit' = CycleLimit /\ IterationLimit' = IterationLimit
    OBVIOUS
  <2>. QED BY <1>2, <1>3, <2>1 DEF CountInv

\* The five counts are natural numbers.
LEMMA CountedType == TypeInv /\ CountInv => Counted
<1>. SUFFICES ASSUME TypeInv, CountInv PROVE Counted
  OBVIOUS
<1>1. /\ cfg.stop \in Int /\ cfg.start \in Int /\ steps \in Nat
      /\ CycleLimit \in Nat /\ IterationLimit \in Nat
  BY ConfigTypes, LimitsAssumption DEF TypeInv
<1>2. PointsLeft \in Nat
  BY DEF PointsLeft, CountInv, InTry, Beginning, Looping, Returning, Ending
<1>3. CyclePointsLeft \in Nat
  BY DEF CyclePointsLeft
<1>4. /\ CheckpointsLeft \in Nat /\ CyclesLeft \in Nat /\ IterationsLeft \in Nat
  BY <1>1 DEF CountInv, CheckpointsLeft, CyclesLeft, IterationsLeft
<1>. QED BY <1>2, <1>3, <1>4 DEF Counted

\* Inside advance_to a step leaves it, begins the next cycle, or goes on in the cycle
\* or the discrete iterations of its event.
LEMMA CycleStep ==
    ASSUME TypeInv, CountInv,
           Advance \/ Integrate \/ EnterEvent \/ Update \/ LeaveEvent
    PROVE  Closer
<1>. DEFINE InCycle == {"advance", "integrate", "event", "update", "leave"}
<1>1. /\ UNCHANGED <<cfg, steps>> /\ pc \in InCycle
      /\ cycles \in Nat /\ iterations \in Nat
      /\ CycleLimit \in Nat /\ IterationLimit \in Nat
  <2>1. UNCHANGED <<cfg, steps>> /\ pc \in InCycle
    BY DEF Advance, Integrate, EnterEvent, Update, LeaveEvent, timeVars
  <2>2. CycleLimit \in Nat /\ IterationLimit \in Nat
    BY LimitsAssumption
  <2>. QED BY <2>1, <2>2 DEF CountInv
<1>2. CheckpointsLeft' = CheckpointsLeft
  BY <1>1 DEF CheckpointsLeft
<1>3. CASE pc' \in {"returned", "terminate"}
  BY <1>1, <1>2, <1>3 DEF PointsLeft, Closer
<1>4. CASE pc' \in InCycle
  <2>1. PointsLeft' = PointsLeft
    BY <1>1, <1>4 DEF PointsLeft
  <2>2. CASE Advance
    <3>1. cycles' = cycles + 1
      BY <1>4, <2>2 DEF Advance, NextCycle, Return
    <3>. QED BY <1>1, <1>2, <2>1, <3>1 DEF CyclesLeft, Closer
  <2>3. CASE ~Advance
    <3>1. cycles' = cycles
      BY <2>3 DEF Advance, Integrate, EnterEvent, Update, LeaveEvent, timeVars
    <3>2. CyclesLeft' = CyclesLeft
      BY <3>1 DEF CyclesLeft
    <3>3. CASE Update /\ pc' = "update"
      <4>1. iterations' = iterations + 1 /\ pc = "update"
        BY <3>3 DEF Update, Return, Raise
      <4>2. CyclePointsLeft' = CyclePointsLeft
        BY <3>3, <4>1 DEF CyclePointsLeft
      <4>. QED BY <1>1, <1>2, <2>1, <3>2, <4>1, <4>2 DEF IterationsLeft, Closer
    <3>4. CASE ~(Update /\ pc' = "update")
      <4>1. \/ pc = "integrate" /\ pc' \in {"event", "advance"}
            \/ pc = "event" /\ pc' = "update"
            \/ pc = "update" /\ pc' = "leave"
            \/ pc = "leave" /\ pc' = "advance"
        <5>1. CASE Integrate
          BY <1>4, <5>1 DEF Integrate, EvaluationFails, Arrive, Return, Raise
        <5>2. CASE EnterEvent
          BY <1>4, <5>2 DEF EnterEvent, Raise
        <5>3. CASE Update
          BY <1>4, <3>4, <5>3 DEF Update, Return, Raise
        <5>4. CASE LeaveEvent
          BY <1>4, <5>4 DEF LeaveEvent, AfterEvent, Return, Raise
        <5>. QED BY <2>3, <5>1, <5>2, <5>3, <5>4
      <4>. QED BY <1>2, <2>1, <3>2, <4>1 DEF CyclePointsLeft, Closer
    <3>. QED BY <3>3, <3>4
  <2>. QED BY <2>2, <2>3
<1>5. pc' \in InCycle \union {"returned", "terminate"}
  BY DEF Advance, Integrate, EvaluationFails, Arrive, EnterEvent, Update, LeaveEvent,
         AfterEvent, Return, Raise
<1>. QED BY <1>3, <1>4, <1>5

\* The runner takes up what advance_to returned: a checkpoint is one more, and a stop
\* or an end leads out of the loop.
LEMMA ReturnStep == TypeInv /\ CountInv /\ Returned => Closer
<1>. SUFFICES ASSUME TypeInv, CountInv, Returned PROVE Closer
  OBVIOUS
<1>1. /\ cfg.stop \in Int /\ cfg.start \in Int /\ steps \in Nat
      /\ cfg' = cfg /\ result' = result /\ pc = "returned"
  BY ConfigTypes DEF TypeInv, Returned
<1>2. CASE result \in {"checkpoint", "checkpointStop"}
  <2>1. steps' = steps + 1
    BY <1>2 DEF Returned, StepsAfter
  <2>. QED BY <1>1, <2>1 DEF CheckpointsLeft, Closer
<1>3. CASE result \in {"stop", "terminate"}
  <2>1. steps' = steps /\ pc' = "report" /\ EndsLoop'
    BY <1>1, <1>3 DEF Returned, StepsAfter, EndsLoop
  <2>. QED BY <1>1, <2>1 DEF CheckpointsLeft, PointsLeft, Closer
<1>. QED BY <1>1, <1>2, <1>3 DEF CountInv

\* Every call, the ones that fail and the interrupted ones included, brings the run
\* closer to its end.
LEMMA CloserStep == TypeInv /\ CountInv /\ (Runner \/ Interrupt) => Closer
<1>. SUFFICES ASSUME TypeInv, CountInv, Runner \/ Interrupt PROVE Closer
  OBVIOUS
<1>1. CASE Advance \/ Integrate \/ EnterEvent \/ Update \/ LeaveEvent
  BY <1>1, CycleStep
<1>2. CASE Returned
  BY <1>2, ReturnStep
<1>3. ASSUME UNCHANGED <<cfg, steps>>, PointsLeft' < PointsLeft PROVE Closer
  BY <1>3 DEF Closer, CheckpointsLeft
<1>4. CASE ~Returned
  <2>1. UNCHANGED <<cfg, steps>>
    BY <1>4, CounterFrame DEF Next
  <2>2. CASE Create \/ Initialize
    <3>1. \/ pc = "create" /\ pc' \in {"initialize", "terminate"}
          \/ pc = "initialize" /\ pc' \in {"firstSample", "terminate"}
      BY <2>2 DEF Create, Initialize, Raise
    <3>2. PointsLeft' < PointsLeft
      BY <3>1 DEF PointsLeft
    <3>. QED BY <1>3, <2>1, <3>2
  <2>3. CASE FirstSample \/ FirstReport \/ OpenSolver
    <3>1. \/ pc = "firstSample" /\ pc' \in {"firstReport", "terminate"}
          \/ pc = "firstReport" /\ pc' \in {"finalSample", "solver", "terminate"}
          \/ pc = "solver" /\ pc' \in {"top", "terminate"}
      BY <2>3 DEF FirstSample, Recorded, FirstReport, OpenSolver, Raise
    <3>2. PointsLeft' < PointsLeft
      BY <3>1 DEF PointsLeft
    <3>. QED BY <1>3, <2>1, <3>2
  <2>4. CASE Top
    <3>1. pc = "top" /\ pc' \in {"advance", "finalSample"}
      BY <2>4 DEF Top
    <3>2. PointsLeft' < PointsLeft
      BY <3>1 DEF PointsLeft
    <3>. QED BY <1>3, <2>1, <3>2
  <2>5. CASE Sample \/ FinalSample
    <3>1. \/ pc = "sample" /\ pc' \in {"report", "terminate"}
          \/ pc = "finalSample" /\ pc' = "terminate"
      BY <2>5 DEF Sample, FinalSample, Recorded, Raise
    <3>2. PointsLeft' < PointsLeft
      BY <3>1 DEF PointsLeft
    <3>. QED BY <1>3, <2>1, <3>2
  <2>6. CASE Report \/ Decide
    <3>1. \/ pc = "report" /\ pc' \in {"decide", "terminate"} /\ EndsLoop' = EndsLoop
          \/ pc = "decide" /\ pc' = "finalSample"
          \/ pc = "decide" /\ pc' = "top" /\ ~EndsLoop
      BY <2>6 DEF Report, Decide, Raise, EndsLoop
    <3>2. PointsLeft' < PointsLeft
      BY <3>1 DEF PointsLeft
    <3>. QED BY <1>3, <2>1, <3>2
  <2>7. CASE Terminate \/ CloseSolver \/ CloseSession
    <3>1. \/ pc = "terminate" /\ pc' = "closeSolver"
          \/ pc = "closeSolver" /\ pc' = "close"
          \/ pc = "close" /\ pc' = "finish"
      BY <2>7 DEF Terminate, AfterTerminateRaised, CloseSolver, CloseSession
    <3>2. PointsLeft' < PointsLeft
      BY <3>1 DEF PointsLeft
    <3>. QED BY <1>3, <2>1, <3>2
  <2>8. CASE Finish \/ FinalChunk \/ FinalReport
    <3>1. \/ pc = "finish" /\ pc' \in {"finalChunk", "done"}
          \/ pc = "finalChunk" /\ pc' \in {"finalReport", "done"}
          \/ pc = "finalReport" /\ pc' = "done"
      BY <2>8 DEF Finish, FinalChunk, FinalReport
    <3>2. PointsLeft' < PointsLeft
      BY <3>1 DEF PointsLeft
    <3>. QED BY <1>3, <2>1, <3>2
  <2>9. CASE Interrupt
    <3>1. \/ pc \in AfterCleanup /\ pc' = "done"
          \/ pc \in InTry /\ pc' = "terminate"
      BY <2>9 DEF Interrupt, Raise, AfterCleanup, CountInv, Ending
    <3>2. PointsLeft' < PointsLeft
      BY <3>1 DEF PointsLeft, AfterCleanup, InTry, Beginning, Looping, Returning
    <3>. QED BY <1>3, <2>1, <3>2
  <2>. QED
    BY <1>1, <1>4, <2>2, <2>3, <2>4, <2>5, <2>6, <2>7, <2>8, <2>9 DEF Runner
<1>. QED BY <1>2, <1>4

\* Termination without the scheduler: however many events the FMU asks for at one
\* instant, whatever fails and whenever the stop is requested, the calling thread can
\* only take finitely many steps, because each takes it down a well-founded order
\* that a request leaves as it is.
THEOREM RunsDown ==
    Spec => /\ []Counted
            /\ [][/\ Runner \/ Interrupt => Closer
                  /\ RequestStop => UNCHANGED Counts]_vars
<1>1. TypeInv /\ CountInv /\ [Next]_vars =>
        [/\ Runner \/ Interrupt => Closer
         /\ RequestStop => UNCHANGED Counts]_vars
  BY CloserStep
     DEF RequestStop, timeVars, eventVars, Counts, CheckpointsLeft, PointsLeft, EndsLoop,
         CyclesLeft, CyclePointsLeft, IterationsLeft
<1>. QED
  BY <1>1, CountedType, TypeInit, TypeStep, ClockInit, ClockStep, SyncInit, SyncStep,
     CountInit, CountStep, PTL DEF Spec
=============================================================================
