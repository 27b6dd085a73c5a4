--------------------------- MODULE EngineSessions ---------------------------
(***************************************************************************)
(* The low-level Session API: FarcelEngine.create_session, initialize,     *)
(* step, read_outputs, terminate and close_session, over one FmpyFmi2-     *)
(* Session or FmpyFmi3Session and the native Co-Simulation instance below. *)
(*                                                                         *)
(* The client decides what is called next and with which step size.  A     *)
(* call of the API makes native calls one after the other, each of which   *)
(* may raise; what the FMI standard allows in each mode of the instance    *)
(* is the table NativeCalls, which belongs to the FMU and not to src/.     *)
(* Times are integers counted from start_time, updates with no value in    *)
(* them are included, several variables of one update are not told apart.  *)
(***************************************************************************)
EXTENDS Integers, Sequences

CONSTANTS
    Fmus,           \* what an FMU may be: version and capabilities
    Schedule,       \* config.input_schedule: [time |-> t, values |-> any values]
    Step,           \* config.communication_step
    Sizes,          \* step sizes a client asks for, Step standing for None
    Horizon,        \* bound: the client asks for no step beyond it
    IterationLimit  \* _MAX_EVENT_ITERATIONS

ASSUME FmusAssumption ==
    \A f \in Fmus : /\ f.version \in {2, 3}
                    /\ {f.events, f.early, f.structural} \subseteq BOOLEAN
                    /\ f.version = 2 => ~f.events /\ ~f.early /\ ~f.structural
ASSUME ScheduleAssumption ==
    /\ Schedule \in Seq([time : Nat, values : BOOLEAN])
    /\ \A i \in DOMAIN Schedule : Schedule[i].time % Step = 0
    /\ \A i \in 1..Len(Schedule) - 1 : Schedule[i].time < Schedule[i + 1].time
ASSUME SizesAssumption == Step \in Nat \ {0} /\ Step \in Sizes /\ Sizes \subseteq Int

VARIABLES
    fmu,          \* the FMU loaded, with its capabilities
    held,         \* the handle is a key of engine._sessions
    state,        \* record.state
    now,          \* record.current_time
    next,         \* record.next_input_update, counted from 1
    initialized, terminated, closed, released, \* the flags of the session
    op,           \* the API call in progress, "none" between two calls
    todo,         \* the native calls it has still to make
    target,       \* the time this step is to reach, or has reached
    iterations,   \* event_iteration_count
    native,       \* mode of the native instance
    fmuTime,      \* the time the instance has come to
    directory,    \* the extraction directory exists
    frees,        \* auxiliary: calls that released the instance
    delivered,    \* auxiliary: the updates set in full: <<index, time>>
    tried,        \* auxiliary: the times doStep was called from
    halfDone,     \* auxiliary: a call raised after it had changed the FMU
    misused       \* auxiliary: a native call was made out of its mode

record == <<held, state, now, next>>
flags == <<initialized, terminated, closed, released>>
call == <<op, todo, target, iterations>>
instance == <<native, fmuTime>>
history == <<delivered, tried, halfDone>>
vars == <<fmu, record, flags, call, instance, directory, frees, history, misused>>

Init ==
    /\ fmu \in Fmus
    /\ held = FALSE /\ state = "NONE" /\ now = 0 /\ next = 1
    /\ initialized = FALSE /\ terminated = FALSE /\ closed = FALSE /\ released = FALSE
    /\ op = "none" /\ todo = <<>> /\ target = 0 /\ iterations = 0
    /\ native = "none" /\ fmuTime = 0 /\ directory = FALSE /\ frees = 0
    /\ delivered = <<>> /\ tried = {} /\ halfDone = FALSE /\ misused = FALSE

-----------------------------------------------------------------------------
(* The native instance: the modes a call is allowed in and the mode it     *)
(* leads to, "same" when it leads nowhere else.                            *)

Entry(from, to) == [from |-> from, to |-> to]
Alive == {"instantiated", "setup", "configuration", "initialization", "step", "event"}

NativeCalls ==
    [extract |-> Entry({"none"}, "same"),
     loadLibrary |-> Entry({"none"}, "loaded"),
     instantiate |-> Entry({"loaded"}, "instantiated"),
     setupExperiment |-> Entry({"instantiated", "setup"}, "setup"),
     enterConfigurationMode |-> Entry({"instantiated"}, "configuration"),
     setStructural |-> Entry({"configuration"}, "same"),
     exitConfigurationMode |-> Entry({"configuration"}, "instantiated"),
     enterInitializationMode |->
        Entry({IF fmu.version = 2 THEN "setup" ELSE "instantiated"}, "initialization"),
     setParameters |-> Entry({"instantiated", "setup", "initialization"}, "same"),
     setInputs |-> Entry(Alive \ {"configuration"}, "same"),
     exitInitializationMode |->
        Entry({"initialization"}, IF fmu.events THEN "event" ELSE "step"),
     doStep |-> Entry({"step"}, "same"),
     enterEventMode |-> Entry({"step"}, "event"),
     updateDiscreteStates |-> Entry({"event"}, "same"),
     enterStepMode |-> Entry({"event"}, "step"),
     getOutputs |-> Entry({"initialization", "step", "event"}, "same"),
     terminate |-> Entry({"step", "event"}, "terminated")]

ModeAfter(c) == IF NativeCalls[c].to = "same" THEN native ELSE NativeCalls[c].to
Noted(c) == misused' = (misused \/ native \notin NativeCalls[c].from)

\* The native calls of an operation, in the order of its code.
EventModeCalls == <<"updateDiscreteStates", "enterStepMode">>

OpenCalls == <<"extract", "loadLibrary", "instantiate">>

InitializeCalls2 ==
    <<"setupExperiment", "setParameters", "setInputs",
      "enterInitializationMode", "exitInitializationMode">>

InitializeCalls3 ==
    (IF fmu.structural
     THEN <<"enterConfigurationMode", "setStructural", "exitConfigurationMode">>
     ELSE <<>>)
    \o <<"enterInitializationMode", "setParameters", "setInputs",
         "exitInitializationMode">>
    \o (IF fmu.events THEN EventModeCalls ELSE <<>>)

-----------------------------------------------------------------------------
(* The beginning and the end of a call of the API. *)

Idle == op = "none"
Begin(operation, calls) ==
    op' = operation /\ todo' = calls /\ iterations' = 0
Return == op' = "none" /\ todo' = <<>> /\ UNCHANGED <<target, iterations>>

\* What the call leaves behind when a native call of it raises.
HalfDoneBy(c) ==
    \/ op = "initialize" /\ native \notin {"instantiated", "setup"}
    \/ op = "step" /\ c \in {"enterEventMode", "updateDiscreteStates", "enterStepMode"}

RaiseAt(c) ==
    /\ Return
    /\ halfDone' = (halfDone \/ HalfDoneBy(c))
    /\ state' = IF op = "terminate" THEN "ERROR" ELSE state
    /\ UNCHANGED <<held, now, next, flags, instance, delivered, tried>>

-----------------------------------------------------------------------------
(* create_session: the record is made only for a session that opened. *)

CreateSession ==
    /\ Idle /\ state = "NONE" /\ native = "none" /\ ~directory
    /\ Begin("create", OpenCalls)
    /\ directory' = TRUE
    /\ UNCHANGED <<fmu, record, flags, target, instance, frees, history, misused>>

\* The except branch of open: nothing was instantiated, the library may
\* have been loaded, and either of the two may refuse to go.
OpenFails ==
    /\ op = "create"
    /\ native' \in {"none", native}
    /\ directory' \in BOOLEAN
    /\ Return
    /\ state' = "REFUSED"
    /\ UNCHANGED <<fmu, held, now, next, flags, fmuTime, frees, history, misused>>

-----------------------------------------------------------------------------
(* initialize *)

Initialize ==
    /\ Idle /\ held /\ state = "CREATED"
    /\ Begin("initialize",
             IF fmu.version = 2 THEN InitializeCalls2 ELSE InitializeCalls3)
    /\ UNCHANGED <<fmu, record, flags, target, instance, directory, frees,
                   history, misused>>

-----------------------------------------------------------------------------
(* step *)

Usable == held /\ state \in {"READY", "RUNNING"}

DueByNow == next <= Len(Schedule) /\ Schedule[next].time <= now
Due == next <= Len(Schedule) /\ Schedule[next].time = now
SetsInputs == Due /\ Schedule[next].values

\* _apply_scheduled_inputs: an update without values is passed at once.
BeginStep ==
    /\ Idle /\ Usable
    /\ \E size \in Sizes :
          /\ now + size <= Horizon
          /\ target' = now + size
          /\ Begin("step", (IF SetsInputs THEN <<"setInputs">> ELSE <<>>) \o <<"doStep">>)
    /\ next' = IF Due /\ ~SetsInputs THEN next + 1 ELSE next
    /\ delivered' = IF Due /\ ~SetsInputs THEN Append(delivered, <<next, now>>)
                                          ELSE delivered
    /\ UNCHANGED <<fmu, held, state, now, flags, instance, directory, frees,
                   tried, halfDone, misused>>

\* The session refuses a size that is not positive, after the inputs.
SizeRefused ==
    /\ op = "step" /\ todo = <<"doStep">> /\ target <= now
    /\ Return
    /\ UNCHANGED <<fmu, record, flags, instance, directory, frees, history, misused>>

ReachedAsAsked(reached) == target
ReachedTime(reached) == reached

Advanced(reached) ==
    /\ now' = ReachedTime(reached) /\ state' = "RUNNING"

\* doStep raises; a discarded step may have moved the FMU all the same.
DoStepRaises ==
    /\ fmuTime' \in {fmuTime, target}
    /\ halfDone' = (halfDone \/ fmuTime' # fmuTime)
    /\ Return /\ UNCHANGED <<state, now>>

DoStep2 ==
    /\ fmu.version = 2
    /\ \/ DoStepRaises
       \/ /\ fmuTime' = target
          /\ Advanced(target) /\ Return /\ UNCHANGED halfDone

\* FmpyFmi3Session.step: what the FMU answers is refused after it advanced.
Refused(answer) ==
    \/ answer.terminate
    \/ answer.event /\ ~fmu.events
    \/ answer.early /\ ~fmu.early
    \/ answer.reached <= now

Answers == [terminate : BOOLEAN, event : BOOLEAN, early : BOOLEAN, reached : 0..target]

DoStep3 ==
    /\ fmu.version = 3
    /\ \/ DoStepRaises
       \/ \E answer \in Answers :
            /\ fmuTime' = answer.reached
            /\ \/ /\ Refused(answer)
                  /\ halfDone' = TRUE
                  /\ Return /\ UNCHANGED <<state, now>>
               \/ /\ ~Refused(answer) /\ answer.event
                  /\ target' = answer.reached
                  /\ todo' = <<"enterEventMode">> \o EventModeCalls
                  /\ UNCHANGED <<op, iterations, state, now, halfDone>>
               \/ /\ ~Refused(answer) /\ ~answer.event
                  /\ Advanced(answer.reached)
                  /\ Return /\ UNCHANGED halfDone

DoStep ==
    /\ op = "step" /\ todo = <<"doStep">> /\ target > now
    /\ Noted("doStep")
    /\ tried' = tried \cup {now}
    /\ DoStep2 \/ DoStep3
    /\ UNCHANGED <<fmu, held, next, flags, native, directory, frees, delivered>>

-----------------------------------------------------------------------------
(* read_outputs, terminate, close_session *)

ReadOutputs ==
    /\ Idle /\ Usable
    /\ Noted("getOutputs")
    /\ UNCHANGED <<fmu, record, flags, call, instance, directory, frees, history>>

\* STOPPED returns at once; a session that is not initialized has nothing
\* to terminate; after an ERROR the client may try again.
Terminate ==
    /\ Idle /\ held /\ state # "STOPPED"
    /\ \/ /\ initialized /\ ~terminated
          /\ state' = "STOPPING"
          /\ Begin("terminate", <<"terminate">>)
       \/ /\ ~initialized \/ terminated
          /\ state' = "STOPPED"
          /\ UNCHANGED <<op, todo, iterations>>
    /\ UNCHANGED <<fmu, held, now, next, flags, target, instance, directory, frees,
                   history, misused>>

FreesAlways == TRUE
Frees == ~released

\* session.close: freeInstance may raise, as may freeLibrary after it and
\* the removal of the directory.
SessionCloses ==
    /\ IF Frees THEN /\ native' \in {"freed", "leaked"}
                     /\ frees' = frees + 1
                ELSE UNCHANGED <<native, frees>>
    /\ released' = TRUE
    /\ directory' \in {FALSE, directory}
    /\ closed' = ~directory'
    /\ UNCHANGED <<fmu, state, now, next, initialized, terminated, call, fmuTime,
                   history, misused>>

\* The engine forgets the handle first.
CloseSession ==
    /\ Idle /\ held
    /\ held' = FALSE
    /\ SessionCloses

\* Session.close may be called again by whoever holds the session itself: it
\* does what is left to do.
CloseAgain ==
    /\ Idle /\ ~held /\ released /\ ~closed
    /\ UNCHANGED held
    /\ SessionCloses

-----------------------------------------------------------------------------
(* The native call at the head of todo. *)

Head_ == Head(todo)
Simple == ~Idle /\ todo # <<>> /\ Head_ # "doStep"

Raises ==
    /\ Simple /\ op # "create"
    /\ Noted(Head_)
    /\ RaiseAt(Head_)
    /\ UNCHANGED <<fmu, directory, frees>>

\* updateDiscreteStates asks for another round, up to the limit, or wants
\* the simulation to end.
UpdatesAgain ==
    /\ Simple /\ Head_ = "updateDiscreteStates"
    /\ Noted(Head_)
    /\ iterations' = iterations + 1
    /\ iterations' < IterationLimit
    /\ UNCHANGED <<fmu, record, flags, op, todo, target, instance, directory, frees,
                   history>>

\* What the operation has achieved once its last native call returned.
Completed ==
    /\ Return
    /\ CASE op = "create" ->
              /\ held' = TRUE /\ state' = "CREATED"
              /\ UNCHANGED <<now, initialized, terminated>>
         [] op = "initialize" ->
              /\ initialized' = TRUE /\ state' = "READY"
              /\ UNCHANGED <<held, now, terminated>>
         [] op = "step" ->
              /\ Advanced(target) /\ UNCHANGED <<held, initialized, terminated>>
         [] op = "terminate" ->
              /\ terminated' = TRUE /\ state' = "STOPPED"
              /\ UNCHANGED <<held, now, initialized>>

Returns ==
    /\ Simple
    /\ Noted(Head_)
    /\ native' = ModeAfter(Head_)
    /\ IF Head_ = "setInputs" /\ op = "step"
       THEN next' = next + 1 /\ delivered' = Append(delivered, <<next, now>>)
       ELSE UNCHANGED <<next, delivered>>
    /\ IF Len(todo) = 1 THEN Completed
       ELSE /\ todo' = Tail(todo)
            /\ UNCHANGED <<held, state, now, initialized, terminated, op, target,
                           iterations>>
    /\ UNCHANGED <<fmu, closed, released, fmuTime, directory, frees, tried, halfDone>>

-----------------------------------------------------------------------------
Next ==
    \/ CreateSession \/ OpenFails \/ Initialize
    \/ BeginStep \/ SizeRefused \/ DoStep \/ ReadOutputs
    \/ Terminate \/ CloseSession \/ CloseAgain
    \/ Raises \/ UpdatesAgain \/ Returns

Spec == Init /\ [][Next]_vars

-----------------------------------------------------------------------------
(* Properties. *)

\* The engine and the FMU go hand in hand through every failure and retry,
\* as long as no call raised after it had changed the instance: no native
\* call is ever made out of its mode, and a session that can be stepped is
\* in Step Mode at the time the engine believes.  A failed set of inputs,
\* setupExperiment, read or terminate may therefore be tried again; a failed
\* initialize or an answer of doStep the session refuses may not.
InStep ==
    ~halfDone => /\ ~misused
                 /\ Idle /\ Usable => native = "step" /\ fmuTime = now

\* The updates are handed over in the order of the schedule, each once and
\* at its own time, whichever steps raise and are tried again; and none is
\* missing that the steps came to: when the steps were begun at the time of
\* this update and of all before it, it was set.
InputsInOrder ==
    /\ \A k \in DOMAIN delivered : delivered[k] = <<k, Schedule[k].time>>
    /\ \A k \in DOMAIN Schedule :
          (\A j \in 1..k : Schedule[j].time \in tried) => Len(delivered) >= k

\* The instance is released at most once, exactly once when the engine has
\* forgotten the session, whatever raised before and however often close is
\* called; and a close that reports success has left no directory.
ReleasedOnce ==
    /\ frees <= 1
    /\ ~held /\ state \notin {"NONE", "REFUSED"} => frees = 1
    /\ held => native \in Alive \cup {"terminated"}
    /\ closed => frees = 1 /\ ~directory
=============================================================================
