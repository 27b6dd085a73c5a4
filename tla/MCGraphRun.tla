----------------------------- MODULE MCGraphRun -----------------------------
(* Three nodes in a feedback loop with a fan-out and a self-loop. *)
EXTENDS GraphRun

MCConns == {<<1, 2>>, <<2, 1>>, <<2, 3>>, <<3, 3>>}
=============================================================================
