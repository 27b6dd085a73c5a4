-------------------------- MODULE GlobalCheckpoint --------------------------
(***************************************************************************)
(* What one graph run promises its caller, with every node, route and      *)
(* native call hidden: simulated time is one counter of whole checkpoints, *)
(* a progress report never runs ahead of it or repeats one, every runtime  *)
(* acquired is released before the run returns or raises, and nothing      *)
(* moves once the first of them has been released.  GraphRun implements it.*)
(***************************************************************************)
EXTENDS Integers

CONSTANTS Nodes, \* the identifiers of the nodes of the graph
          Steps  \* the number of macro-steps between start_time and stop_time

VARIABLES live,      \* runtimes that exist and are not closed
          committed, \* the last committed checkpoint
          reported,  \* the last checkpoint given to on_progress, -1 before
          outcome    \* how the run ended

vars == <<live, committed, reported, outcome>>

\* The ways GraphSimulationRunner.run can end: two results, two errors, and an
\* exception that is no Exception (an interrupt of the interpreter).
Results == {"COMPLETED", "STOPPED"}
Outcomes == Results \union {"CANCELLED", "FAILED", "INTERRUPTED"}

Running == outcome = "none"

Init ==
    /\ live = {}
    /\ committed = 0
    /\ reported = -1
    /\ outcome = "none"

Acquire(n) ==
    /\ Running /\ committed = 0 /\ reported = -1
    /\ n \notin live
    /\ live' = live \union {n}
    /\ UNCHANGED <<committed, reported, outcome>>

Commit ==
    /\ Running /\ live = Nodes /\ committed < Steps
    /\ reported = committed
    /\ committed' = committed + 1
    /\ UNCHANGED <<live, reported, outcome>>

Report ==
    /\ Running /\ live = Nodes
    /\ reported < committed
    /\ (committed = 0 \/ committed < Steps)
    /\ reported' = committed
    /\ UNCHANGED <<live, committed, outcome>>

Release(n) ==
    /\ Running /\ n \in live
    /\ live' = live \ {n}
    /\ UNCHANGED <<committed, reported, outcome>>

\* A result is handed out with its own final report, an error without one.
Finish(how) ==
    /\ Running /\ live = {}
    /\ outcome' = how
    /\ \/ /\ how \in Results
          /\ how = "COMPLETED" => committed = Steps
          /\ reported' = committed
       \/ /\ how \notin Results
          /\ how = "CANCELLED" => reported = -1
          /\ reported' = reported
    /\ UNCHANGED <<live, committed>>

Abandon ==
    /\ Running
    /\ outcome' = "INTERRUPTED"
    /\ UNCHANGED <<live, committed, reported>>

Next ==
    \/ \E n \in Nodes : Acquire(n) \/ Release(n)
    \/ Commit
    \/ Report
    \/ \E how \in Outcomes : Finish(how)
    \/ Abandon

Spec == Init /\ [][Next]_vars
=============================================================================
