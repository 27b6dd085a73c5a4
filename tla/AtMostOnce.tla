---------------------------- MODULE AtMostOnce ----------------------------
(***************************************************************************)
(* What the coordinator is promised about the stateful commands            *)
(* (SET_INPUTS, ADVANCE_TO) of one remote runtime: a command is carried    *)
(* out before it is acknowledged, never twice, and once the caller has     *)
(* seen an error nothing is acknowledged any more.  A command whose caller *)
(* saw an error may have been carried out, or may be carried out yet, but  *)
(* no second one is.                                                       *)
(***************************************************************************)
EXTENDS Naturals

VARIABLES usable,  \* the caller may still issue commands
          done,    \* commands the runtime was asked to carry out
          acked    \* commands acknowledged to the caller

Init == usable = FALSE /\ done = 0 /\ acked = 0

\* The runtime carries the one outstanding command out.
Perform == done = acked /\ done' = done + 1 /\ UNCHANGED <<usable, acked>>

\* The caller learns that it was carried out.
Acknowledge ==
    usable /\ done = acked + 1 /\ acked' = done /\ UNCHANGED <<usable, done>>

\* The runtime becomes usable before the first command, and unusable for good.
Open == ~usable /\ done = 0 /\ usable' = TRUE /\ UNCHANGED <<done, acked>>
Fail == usable /\ usable' = FALSE /\ UNCHANGED <<done, acked>>

Next == Perform \/ Acknowledge \/ Open \/ Fail

view == <<usable, done, acked>>

Spec == Init /\ [][Next]_view
=============================================================================
