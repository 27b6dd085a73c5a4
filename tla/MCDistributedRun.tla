-------------------------- MODULE MCDistributedRun --------------------------
EXTENDS DistributedRun

CONSTANTS n1, n2, w1, w2, p1, p2, shared

MCNodes == <<n1, n2>>
MCProcesses == {p1, p2}
MCWorkerIdOf == (p1 :> w1) @@ (p2 :> w2)
MCRootOf == (p1 :> shared) @@ (p2 :> shared)
MCLaunches == <<p1>>

Desc(w, p) == [id |-> w, at |-> p]
OnWorker(n, w) == [node |-> n, kind |-> "worker", worker |-> w]
Both == <<Desc(w1, p1), Desc(w2, p2)>>

\* Two workers, one worker and a local node, two ids at one endpoint in either
\* order, no remote node, and three plans that must be refused.
MCPlans ==
    {[workers |-> Both, placements |-> <<OnWorker(n1, w1), OnWorker(n2, w2)>>],
     [workers |-> Both, placements |-> <<OnWorker(n1, w2), OnWorker(n2, w1)>>],
     [workers |-> Both, placements |-> <<OnWorker(n2, w2)>>],
     [workers |-> Both, placements |-> <<OnWorker(n1, w1), OnWorker(n2, w1)>>],
     [workers |-> <<Desc(w1, p1), Desc(w2, p1)>>,
      placements |-> <<OnWorker(n1, w1), OnWorker(n2, w2)>>],
     [workers |-> <<Desc(w1, p1), Desc(w2, p1)>>,
      placements |-> <<OnWorker(n1, w2), OnWorker(n2, w1)>>],
     [workers |-> Both,
      placements |-> <<[node |-> n1, kind |-> "local", worker |-> NoWorker]>>],
     [workers |-> Both, placements |-> <<OnWorker(n1, w1), OnWorker(n1, w2)>>],
     [workers |-> <<Desc(w1, p1)>>, placements |-> <<OnWorker(n1, w2)>>],
     [workers |-> Both,
      placements |-> <<[node |-> n1, kind |-> "local", worker |-> w1]>>]}
=============================================================================
