------------------------------- MODULE MCMERun -------------------------------
(* Two checkpoints of two instants each, the last one whole or partial, with  *)
(* time and state events at, before and after them.                          *)
EXTENDS MERun

\* The FMUs that need completedIntegratorStep run without a chunk callback: the
\* two have nothing to do with each other.
MCSchedules == {<<2>>, <<0, 2>>}
MCConfigs ==
    {c \in [start : {0}, step : {2}, stop : {3, 4}, interval : {2, 4},
            schedule : MCSchedules, chunk : {0, 2}, completes : BOOLEAN] :
        /\ Validated(c) /\ c.completes = (c.chunk = 0)
        /\ c.stop = 3 => c.interval = 2}

\* Checkpoints at -1 and 1 around a time event at 0.
MCNegativeStart ==
    {[start |-> -3, step |-> 2, stop |-> 1, interval |-> 2, schedule |-> <<>>,
      chunk |-> 0, completes |-> FALSE]}
=============================================================================
