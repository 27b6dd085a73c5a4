----------------------------- MODULE NodeRuntime -----------------------------
(***************************************************************************)
(* One node of a graph: a CoSimulationNodeRuntime or a                     *)
(* ModelExchangeNodeRuntime, made by its factory and driven by a caller    *)
(* that keeps to the lifecycle as GraphSimulationRunner and the worker     *)
(* service do: initialize, then inputs and checkpoints in turn until a     *)
(* call raises, and terminate and close at any time and more than once.    *)
(* A call the runtime refuses for its state raises before it touches the   *)
(* session, and read_outputs changes nothing: neither is an action.        *)
(*                                                                         *)
(* Time is counted in units of the tolerance, from start_time: an early    *)
(* return may leave a node anywhere between two checkpoints, and a step    *)
(* that counts as complete may end one unit beside its target.             *)
(***************************************************************************)
EXTENDS Integers, Sequences, SequencesExt, FiniteSetsExt

CONSTANTS
    Interfaces,   \* the interfaces a node may have
    Step,         \* the macro step, in units
    Checkpoints,  \* how many of them the run has
    Schedules,    \* input_schedules, as numbers of checkpoints
    AttemptLimit  \* _step_attempt_limit

CoSim == "co_simulation"
ModelEx == "model_exchange"

ASSUME InterfacesAssumption == Interfaces \subseteq {CoSim, ModelEx}
ASSUME StepAssumption == Step \in Nat /\ Step > 2
ASSUME LimitAssumption == Checkpoints \in Nat /\ AttemptLimit \in Nat \ {0}
\* What validate_config accepts: updates on checkpoints, in order, before stop.
ASSUME SchedulesAssumption ==
    \A s \in Schedules :
        /\ s \in Seq(0..Checkpoints - 1)
        /\ \A i, j \in DOMAIN s : i < j => s[i] < s[j]

VARIABLES
    interface,   \* of this node
    schedule,    \* config.input_schedule
    point,       \* "idle" between two calls, or the point in advance_to
    checkpoint,  \* the checkpoints the caller has reached
    time,        \* _current_time, or that of the coordinator
    attempts,    \* step_attempt_count
    applied,     \* when each scheduled update was given to the session
    started,     \* _initialized, _session_initialized
    ready,       \* _initialized, _ready
    terminal,    \* _terminated, _terminal
    ended,       \* _terminated, _termination_attempted
    closed,      \* _closed
    released,    \* terminate and close calls on session and solver, in order
    raised       \* a call of the caller's has raised

flags == <<started, ready, terminal, ended, closed>>
clock == <<checkpoint, time, attempts, applied>>
node == <<interface, schedule>>
nodeVars == <<node, point, clock, flags, released, raised>>

NodeInit ==
    /\ interface \in Interfaces
    /\ schedule \in (IF interface = CoSim THEN Schedules ELSE {<<>>})
    /\ point = "absent"
    /\ checkpoint = 0 /\ time = 0 /\ attempts = 0 /\ applied = <<>>
    /\ started = FALSE /\ ready = FALSE /\ terminal = FALSE
    /\ ended = FALSE /\ closed = FALSE
    /\ released = <<>> /\ raised = FALSE

-----------------------------------------------------------------------------
(* The factories, initialize and set_inputs. *)

\* CoSimulationNodeRuntimeFactory.create: the interface is refused or the
\* session cannot be made, and nothing is left to release.
CreateCoSimulation ==
    /\ point = "absent" /\ interface = CoSim
    /\ point' \in {"idle", "none"}
    /\ UNCHANGED <<node, clock, flags, released, raised>>

\* ModelExchangeNodeRuntimeFactory.create: a session whose solver cannot be
\* made is closed by the factory.
CreateModelExchange ==
    /\ point = "absent" /\ interface = ModelEx
    /\ \/ point' \in {"idle", "none"} /\ UNCHANGED released
       \/ point' = "none" /\ released' = Append(released, "session")
    /\ UNCHANGED <<node, clock, flags, raised>>

Uninitialized == point = "idle" /\ ~raised /\ ~started /\ ~closed

InitializeCoSimulation ==
    /\ Uninitialized /\ interface = CoSim
    /\ \/ started' = TRUE /\ ready' = TRUE /\ UNCHANGED raised
       \/ raised' = TRUE /\ UNCHANGED <<started, ready>>
    /\ UNCHANGED <<node, point, clock, terminal, ended, closed, released>>

\* The session may fail, the FMU ask for the end at once, or the solver fail
\* when the session counts as initialized.
InitializeModelExchange ==
    /\ Uninitialized /\ interface = ModelEx
    /\ \/ started' = TRUE /\ ready' = TRUE /\ UNCHANGED <<terminal, raised>>
       \/ raised' = TRUE /\ UNCHANGED <<started, ready, terminal>>
       \/ started' = TRUE /\ raised' = TRUE /\ terminal' \in BOOLEAN /\ UNCHANGED ready
    /\ UNCHANGED <<node, point, clock, ended, closed, released>>

Running == point = "idle" /\ ~raised /\ ready /\ ~terminal /\ ~closed

\* Routed inputs: a call that succeeds leaves the runtime as it was.  A Model
\* Exchange FMU may answer them with the end of the run.
SetInputs ==
    /\ Running
    /\ raised' = TRUE
    /\ terminal' \in (IF interface = ModelEx THEN BOOLEAN ELSE {FALSE})
    /\ UNCHANGED <<node, point, clock, started, ready, ended, closed, released>>

-----------------------------------------------------------------------------
(* advance_to. *)

Near(a, b) == a - b \in -1..1
Target == (checkpoint + 1) * Step

\* The caller asks for the next checkpoint, in this call or in the next one.
AdvanceTo ==
    /\ Running /\ checkpoint < Checkpoints
    /\ point' = IF interface = CoSim THEN "apply" ELSE "coordinate"
    /\ attempts' = 0
    /\ UNCHANGED <<node, checkpoint, time, applied, flags, released, raised>>

Return == point' = "idle" /\ checkpoint' = checkpoint + 1 /\ UNCHANGED raised
Raise == point' = "idle" /\ raised' = TRUE /\ UNCHANGED checkpoint

NextUpdate == schedule[Len(applied) + 1] * Step
HasUpdate == Len(applied) < Len(schedule)

\* _apply_scheduled_input_at_current_time: one update, at its own time only.
DueExactly == HasUpdate /\ NextUpdate = time
Due == HasUpdate /\ Near(NextUpdate, time)
Missed == HasUpdate /\ NextUpdate < time - 1

ApplyInput ==
    /\ point = "apply"
    /\ \/ /\ ~Missed /\ point' = "step" /\ UNCHANGED <<raised, checkpoint>>
          /\ applied' = IF Due THEN Append(applied, time) ELSE applied
       \/ (Missed \/ Due) /\ Raise /\ UNCHANGED applied
    /\ UNCHANGED <<node, time, attempts, flags, released>>

\* _validate_step_result: `early` is early_return of the result.
Accepts(reached, early) ==
    /\ reached > time
    /\ reached <= Target + 1
    /\ early \/ reached >= Target - 1

\* One turn of the loop: the FMU may report any time and either flag.
StepSession ==
    /\ point = "step" /\ ~Near(time, Target)
    /\ attempts' = attempts + 1
    /\ \/ /\ attempts' <= AttemptLimit
          /\ \E reached \in time - 1..Target + 2, early \in BOOLEAN :
               /\ Accepts(reached, early)
               /\ time' = reached
          /\ UNCHANGED <<point, raised, checkpoint>>
       \/ Raise /\ UNCHANGED time
    /\ UNCHANGED <<node, applied, flags, released>>

Arrive ==
    /\ point = "step" /\ Near(time, Target)
    /\ Return
    /\ UNCHANGED <<node, time, attempts, applied, flags, released>>

\* ModelExchangeCheckpointCoordinator.advance_to: it reports where it stopped,
\* whether that is the checkpoint, and whether the FMU asked for the end.
Coordinate ==
    /\ point = "coordinate"
    /\ \E reached \in time..Target, outcome \in {"checkpoint", "terminate", "neither"} :
         /\ time' = reached
         /\ \/ outcome = "checkpoint" /\ Near(reached, Target) /\ Return /\ UNCHANGED terminal
            \/ outcome = "terminate" /\ Raise /\ terminal' = TRUE
            \/ outcome = "neither" /\ Raise /\ UNCHANGED terminal
    /\ UNCHANGED <<node, attempts, applied, started, ready, ended, closed, released>>

-----------------------------------------------------------------------------
(* terminate and close: what they call may raise, which changes nothing. *)

EndsUnlessClosed == ~closed /\ started
EndsOnce == ~ended /\ ~closed /\ started

Terminate ==
    /\ point = "idle"
    /\ IF EndsOnce
       THEN /\ ended' = TRUE /\ terminal' = TRUE
            /\ released' = Append(released, "terminate")
       ELSE UNCHANGED <<ended, terminal, released>>
    /\ UNCHANGED <<node, point, clock, started, ready, closed, raised>>

\* The solver first; the session whatever the solver did.
ReleaseOrder == IF interface = ModelEx THEN <<"solver", "session">> ELSE <<"session">>

Close ==
    /\ point = "idle"
    /\ closed' = TRUE
    /\ released' = IF closed THEN released ELSE released \o ReleaseOrder
    /\ UNCHANGED <<node, point, clock, started, ready, terminal, ended, raised>>

NodeNext ==
    \/ CreateCoSimulation \/ CreateModelExchange
    \/ InitializeCoSimulation \/ InitializeModelExchange \/ SetInputs
    \/ AdvanceTo \/ ApplyInput \/ StepSession \/ Arrive \/ Coordinate
    \/ Terminate \/ Close

NodeSpec == NodeInit /\ [][NodeNext]_nodeVars

-----------------------------------------------------------------------------
(* Properties. *)

\* As long as no call has raised, the node stands at the checkpoint its caller
\* has reached, however many steps an FMU that returns early has needed and
\* whatever remained of the tolerance from the checkpoints before, and every
\* update due before that checkpoint was given to the session at its own time
\* (advance_to, _validate_step_result, _apply_scheduled_input_at_current_time).
CheckpointKept ==
    /\ point = "idle" /\ ~raised =>
         /\ Near(time, checkpoint * Step)
         /\ \A i \in DOMAIN schedule : schedule[i] < checkpoint => i <= Len(applied)
    /\ \A i \in DOMAIN applied : Near(applied[i], schedule[i] * Step)

\* A node that was closed, or that its factory could not finish, has released
\* what it had exactly once, the solver before the session, and terminated the
\* session at most once, before that and only if it was initialized, in
\* whatever order and however often the caller terminates and closes.
ReleasedOnce ==
    /\ \A i, j \in DOMAIN released : released[i] = released[j] => i = j
    /\ closed =>
         released \in {ReleaseOrder} \cup (IF started THEN {<<"terminate">> \o ReleaseOrder} ELSE {})
    /\ point = "none" => Contains(released, "session") \/ released = <<>>
    /\ ended /\ ~closed => released = <<"terminate">>
=============================================================================
