--------------------------- MODULE DistributedRun ---------------------------
(***************************************************************************)
(* A graph run over several workers: LocalWorkerSubprocess launches worker *)
(* processes, FarcelEngine.run_graph checks the plan, the executor         *)
(* connects one client per used worker id, stages the FMU of every remote  *)
(* node into the worker's content-addressed cache, creates its runtime,    *)
(* runs, closes, and the launcher reaps its processes.                     *)
(*                                                                         *)
(* One thread coordinates, and stands for the caller too: the repository's *)
(* tests compose the two halves this way, the public backend takes the     *)
(* endpoints of workers somebody else started.  A request is sent, carried *)
(* out and answered; what happens inside one session is RemoteSession, and *)
(* inside the run GraphRun.  A digest is the content it stands for, and a  *)
(* model file has one of a few contents over time.                         *)
(***************************************************************************)
EXTENDS Sequences, SequencesExt, FiniteSets, Integers

CONSTANTS
    GraphNodes,  \* the sequence graph.nodes
    Plans,       \* execution plans: workers [id, at], placements [node, kind, worker]
    Processes,   \* worker processes
    WorkerIdOf,  \* --worker-id of each process
    RootOf,      \* --cache-root of each process
    Launches,    \* the sequence of processes this program starts and reaps
    NoWorker,    \* worker_id None
    MaxEdits     \* bound on edits of the model file while the run goes on

ASSUME MaxEditsAssumption == MaxEdits \in Nat
\* A launcher starts its process once.
ASSUME LaunchesAssumption == Launches \in Seq(Processes) /\ IsInjective(Launches)

Nodes == ToSet(GraphNodes)
\* What graph validation accepts: no two nodes have the same node_id.
ASSUME GraphNodesAssumption == GraphNodes \in Seq(Nodes) /\ IsInjective(GraphNodes)

Roots == {RootOf[p] : p \in Processes}
Contents == 0..MaxEdits
\* An entry holds the content of its name, or what somebody damaged, or what a PUT
\* filled with another content; or a directory stands in its place.
Damaged == {"absent", "other", "directory"}
Entries == {"good", "misnamed"} \union Damaged
Other == -1

VARIABLES
    plan,      \* the ExecutionPlan of the call
    pc,        \* phase of the coordinator
    todo,      \* what the phase still has to go through, in order
    call,      \* the round trip under way: operation, worker id, node, progress
    sock,      \* TcpWorkerClient._socket of each worker id
    clients,   \* the executor's list of clients
    bindings,  \* the remote runtimes created so far
    source,    \* content of the model file
    hashed,    \* the digest ensure_asset took for each node
    proc,      \* each worker process
    signal,    \* what the launcher has done to end it
    session,   \* the client whose connection the server serves
    backlog,   \* clients whose connection was not accepted yet
    runtimes,  \* the service's runtimes: node and the content it was made from
    cache,     \* entry of each root and digest
    spoiled    \* auxiliary: nodes whose entry was damaged between resolve and load

coordVars == <<pc, todo, call, sock, clients, bindings, hashed>>
procVars == <<proc, signal, session, backlog, runtimes>>
vars == <<plan, source, cache, spoiled, coordVars, procVars>>

-----------------------------------------------------------------------------
(* The plan. *)

Ids == {w.id : w \in UNION {ToSet(q.workers) : q \in Plans}}

\* resolve_node_placement: the first placement of the node, or LOCAL.
Placement(n) ==
    LET at == {i \in DOMAIN plan.placements : plan.placements[i].node = n}
    IN  IF at = {} THEN [node |-> n, kind |-> "local", worker |-> NoWorker]
        ELSE plan.placements[CHOOSE i \in at : \A j \in at : i <= j]
Remote(n) == Placement(n).kind = "worker"

\* ExecutionPlanValidator.validate: two ids may share an endpoint.
ValidPlan ==
    LET ids == {w.id : w \in ToSet(plan.workers)}
    IN  /\ NoWorker \notin ids
        /\ Cardinality(ids) = Len(plan.workers)
        /\ \A i, j \in DOMAIN plan.placements :
             plan.placements[i].node = plan.placements[j].node => i = j
        /\ \A q \in ToSet(plan.placements) :
             /\ q.node \in Nodes
             /\ q.kind \in {"local", "worker"}
             /\ q.kind = "local" => q.worker = NoWorker
             /\ q.kind = "worker" => q.worker \in ids

\* _used_worker_ids: in the order of the nodes, each once.
UsedWorkers ==
    LET placed == SelectSeq(GraphNodes, Remote)
        Later(ids, n) == IF Contains(ids, Placement(n).worker) THEN ids
                         ELSE Append(ids, Placement(n).worker)
    IN  FoldLeft(Later, <<>>, placed)
At(w) == (CHOOSE d \in ToSet(plan.workers) : d.id = w).at

-----------------------------------------------------------------------------
(* The coordinator. *)

\* `content` is the payload of PUT_ASSET.
Idle == [op |-> "idle", worker |-> NoWorker, node |-> NoWorker, at |-> "none",
         content |-> Other]
Sent(op, w, n) == [op |-> op, worker |-> w, node |-> n, at |-> "sent", content |-> Other]

Init ==
    /\ plan \in Plans
    /\ pc = "launch" /\ todo = Launches /\ call = Idle
    /\ sock = [w \in Ids |-> "idle"]
    /\ clients = <<>> /\ bindings = <<>>
    /\ source = 0 /\ hashed = [n \in Nodes |-> Other]
    /\ proc = [p \in Processes |-> IF Contains(Launches, p) THEN "off" ELSE "serving"]
    /\ signal = [p \in Processes |-> "none"]
    /\ session = [p \in Processes |-> NoWorker]
    /\ backlog = [p \in Processes |-> <<>>]
    /\ runtimes = [p \in Processes |-> {}]
    /\ spoiled = {}
    /\ \E first \in [Roots -> {"good"} \union Damaged] :
         cache = [r \in Roots |-> [d \in Contents |-> IF d = 0 THEN first[r] ELSE "absent"]]

\* The next phase and what it goes through; a phase that has nothing left goes on.
Enter(phase, work) == pc' = phase /\ todo' = work
GoOn == Enter(pc, Tail(todo))
\* The processes start() has created, the first of the launches: the one it
\* failed for goes first.
Started == SubSeq(Launches, 1, Cardinality({i \in DOMAIN Launches : proc[Launches[i]] # "off"}))

\* The error path of each phase: start() reaps what it started, the factory
\* closes the bindings made so far, run() cleans up, the executor disconnects.
FailForgetsClients ==
    CASE pc \in {"launch", "connect"} -> Enter("reap", Reverse(Started))
      [] pc \in {"create", "run"} -> Enter("close", bindings)
      [] OTHER -> GoOn
Fail ==
    CASE pc = "launch" -> Enter("reap", Reverse(Started))
      [] pc = "connect" -> Enter("disconnect", Reverse(clients))
      [] pc \in {"create", "run"} -> Enter("close", bindings)
      [] OTHER -> GoOn

\* LocalWorkerSubprocess.start: Popen may fail; then the readiness line, an
\* early exit or the start timeout, whichever the launcher sees first.
Spawn ==
    /\ pc = "launch" /\ todo # <<>> /\ proc[Head(todo)] = "off"
    /\ \/ proc' = [proc EXCEPT ![Head(todo)] = "booting"] /\ UNCHANGED <<pc, todo>>
       \/ Fail /\ UNCHANGED proc
    /\ UNCHANGED <<plan, source, cache, spoiled, call, sock, clients, bindings, hashed>>
    /\ UNCHANGED <<signal, session, backlog, runtimes>>
WaitReadiness ==
    /\ pc = "launch" /\ todo # <<>> /\ proc[Head(todo)] # "off"
    /\ \/ proc[Head(todo)] = "serving" /\ GoOn
       \/ Fail
    /\ UNCHANGED <<plan, source, cache, spoiled, call, sock, clients, bindings, hashed, procVars>>

\* run_graph: an invalid plan is refused before any connection, and a plan
\* without remote nodes does not reach the executor.
RunGraph ==
    /\ pc = "launch" /\ todo = <<>>
    /\ IF ValidPlan /\ UsedWorkers # <<>> THEN Enter("connect", UsedWorkers)
       ELSE Enter("reap", Started)
    /\ UNCHANGED <<plan, source, cache, spoiled, call, sock, clients, bindings, hashed, procVars>>

\* TcpWorkerClient.connect, as far as HELLO is sent.
Dial ==
    /\ pc = "connect" /\ todo # <<>> /\ call = Idle
    /\ LET w == Head(todo)  p == At(w)
       IN  IF proc[p] = "serving"
           THEN /\ sock' = [sock EXCEPT ![w] = "open"]
                /\ backlog' = [backlog EXCEPT ![p] = Append(@, w)]
                /\ call' = Sent("hello", w, NoWorker)
                /\ UNCHANGED <<pc, todo>>
           ELSE Fail /\ UNCHANGED <<sock, backlog, call>>
    /\ UNCHANGED <<plan, source, cache, spoiled, clients, bindings, hashed>>
    /\ UNCHANGED <<proc, signal, session, runtimes>>

\* One node of _create_bindings.  A local runtime may fail; a remote one is
\* staged first: _hash_source and HAS_ASSET.
CreateNode ==
    /\ pc = "create" /\ todo # <<>> /\ call = Idle
    /\ IF ~Remote(Head(todo))
       THEN (GoOn \/ Fail) /\ UNCHANGED <<call, hashed>>
       ELSE \/ /\ hashed' = [hashed EXCEPT ![Head(todo)] = source]
               /\ call' = Sent("has", Placement(Head(todo)).worker, Head(todo))
               /\ UNCHANGED <<pc, todo>>
            \/ Fail /\ UNCHANGED <<call, hashed>>
    /\ UNCHANGED <<plan, source, cache, spoiled, sock, clients, bindings, procVars>>

\* A remote runtime is advanced, or closed, by one request each: what the
\* runner sends in between is RemoteSession's.
AdvanceNode ==
    /\ pc = "run" /\ todo # <<>> /\ call = Idle
    /\ call' = Sent("advance", Placement(Head(todo)).worker, Head(todo))
    /\ UNCHANGED <<plan, source, cache, spoiled, pc, todo, sock, clients, bindings, hashed, procVars>>
CloseNode ==
    /\ pc = "close" /\ todo # <<>> /\ call = Idle
    /\ LET w == Placement(Head(todo)).worker
       IN  IF sock[w] = "open"
           THEN call' = Sent("close", w, Head(todo)) /\ UNCHANGED <<pc, todo>>
           ELSE GoOn /\ UNCHANGED call
    /\ UNCHANGED <<plan, source, cache, spoiled, sock, clients, bindings, hashed, procVars>>

PhaseOver ==
    /\ todo = <<>> /\ call = Idle
    /\ \/ pc = "connect" /\ Enter("create", GraphNodes)
       \/ pc = "create" /\ Enter("run", bindings)
       \/ pc = "run" /\ Enter("close", bindings)
       \/ pc = "close" /\ Enter("disconnect", Reverse(clients))
       \/ pc = "disconnect" /\ Enter("reap", Started)
       \/ pc = "reap" /\ Enter("done", <<>>)
    /\ UNCHANGED <<plan, source, cache, spoiled, call, sock, clients, bindings, hashed, procVars>>

\* WorkerAssetStager after HAS_ASSET said no: _read_source, hashed again.
HashedAgainNever == TRUE
HashedAgain == source = hashed[call.node]
Stage ==
    /\ call.at = "absent"
    /\ \/ /\ HashedAgain
          /\ call' = [Sent("put", call.worker, call.node) EXCEPT !.content = source]
          /\ UNCHANGED <<pc, todo>>
       \/ call' = Idle /\ Fail
    /\ UNCHANGED <<plan, source, cache, spoiled, sock, clients, bindings, hashed, procVars>>

\* A response that reports success.
Returns ==
    /\ call.at = "ok"
    /\ CASE call.op = "hello" ->
              /\ clients' = Append(clients, call.worker)
              /\ call' = Sent("ping", call.worker, NoWorker)
              /\ UNCHANGED <<pc, todo, bindings>>
         [] call.op \in {"has", "put"} ->
              /\ call' = Sent("create", call.worker, call.node)
              /\ UNCHANGED <<pc, todo, clients, bindings>>
         [] call.op = "create" ->
              /\ bindings' = Append(bindings, call.node)
              /\ call' = Idle /\ GoOn /\ UNCHANGED clients
         [] OTHER -> call' = Idle /\ GoOn /\ UNCHANGED <<clients, bindings>>
    /\ UNCHANGED <<plan, source, cache, spoiled, sock, hashed, procVars>>

\* The client closes its socket and the call raises.
Disconnected ==
    /\ sock' = [sock EXCEPT ![call.worker] = "closed"]
    /\ call' = Idle /\ Fail
    /\ UNCHANGED <<plan, source, cache, spoiled, clients, bindings, hashed, procVars>>

\* An error response leaves the connection open, except that of HELLO.
Raises ==
    /\ call.at = "error"
    /\ IF call.op = "hello" THEN Disconnected
       ELSE /\ call' = Idle /\ Fail
            /\ UNCHANGED <<plan, source, cache, spoiled, sock, clients, bindings, hashed, procVars>>

\* The worker's end of the connection is gone.
Answered == call.at \in {"absent", "ok", "error"}
ConnectionLost ==
    /\ call # Idle /\ ~Answered
    /\ session[At(call.worker)] # call.worker
    /\ ~Contains(backlog[At(call.worker)], call.worker)
    /\ Disconnected

\* Only HELLO has a timeout by default (operation_timeout is None).
HandshakeTimeout == call.op = "hello" /\ ~Answered /\ Disconnected

\* KeyboardInterrupt inside the runner: it skips the cleanup of the runner and
\* of the factory, and the executor's except BaseException still disconnects.
Interrupt ==
    /\ pc \in {"create", "run"}
    /\ call' = Idle /\ Enter("disconnect", Reverse(clients))
    /\ UNCHANGED <<plan, source, cache, spoiled, sock, clients, bindings, hashed, procVars>>

\* _close_clients.
Disconnect ==
    /\ pc = "disconnect" /\ todo # <<>>
    /\ sock' = [sock EXCEPT ![Head(todo)] = "closed"] /\ GoOn
    /\ UNCHANGED <<plan, source, cache, spoiled, call, clients, bindings, hashed, procVars>>

\* _terminate_and_reap: each wait ends with the process or with the timeout,
\* which escalates; after the last one the failure is reported and that is all.
After(s) == CASE s = "none" -> "stdin" [] s = "stdin" -> "terminate"
              [] s = "terminate" -> "kill" [] OTHER -> "given up"
Reap ==
    /\ pc = "reap" /\ todo # <<>>
    /\ LET p == Head(todo)
       IN  IF proc[p] = "ended" \/ signal[p] = "given up"
           THEN GoOn /\ UNCHANGED signal
           ELSE /\ signal' = [signal EXCEPT ![p] = After(@)] /\ UNCHANGED <<pc, todo>>
    /\ UNCHANGED <<plan, source, cache, spoiled, call, sock, clients, bindings, hashed>>
    /\ UNCHANGED <<proc, session, backlog, runtimes>>

-----------------------------------------------------------------------------
(* The worker processes. *)

Answer(how) == call' = [call EXCEPT !.at = how]
Serves(p) == proc[p] = "serving" /\ session[p] # NoWorker
Holds(p, op, at) == Serves(p) /\ call.worker = session[p] /\ call.op = op /\ call.at = at

\* The process is over: the system closes its connections.
Ends(p) ==
    /\ proc' = [proc EXCEPT ![p] = "ended"]
    /\ session' = [session EXCEPT ![p] = NoWorker]
    /\ backlog' = [backlog EXCEPT ![p] = <<>>]
    /\ runtimes' = [runtimes EXCEPT ![p] = {}]
    /\ UNCHANGED <<plan, source, cache, spoiled, coordVars, signal>>

Boot(p) ==
    /\ proc[p] = "booting"
    /\ proc' = [proc EXCEPT ![p] = "serving"]
    /\ UNCHANGED <<plan, source, cache, spoiled, coordVars, signal, session, backlog, runtimes>>

\* serve_forever serves one connection at a time.
Accept(p) ==
    /\ proc[p] = "serving" /\ session[p] = NoWorker /\ backlog[p] # <<>>
    /\ session' = [session EXCEPT ![p] = Head(backlog[p])]
    /\ backlog' = [backlog EXCEPT ![p] = Tail(@)]
    /\ UNCHANGED <<plan, source, cache, spoiled, coordVars, proc, signal, runtimes>>

\* HELLO names the worker the client means; PING, and the requests to a
\* runtime, which answer with success or with an error.
Handshake(p) ==
    /\ Holds(p, "hello", "sent")
    /\ Answer(IF call.worker = WorkerIdOf[p] THEN "ok" ELSE "error")
    /\ UNCHANGED <<plan, source, cache, spoiled, pc, todo, sock, clients, bindings, hashed, procVars>>
Serve(p) ==
    /\ \/ Holds(p, "ping", "sent") /\ Answer("ok") /\ UNCHANGED runtimes
       \/ Holds(p, "advance", "sent") /\ (Answer("ok") \/ Answer("error")) /\ UNCHANGED runtimes
       \/ /\ Holds(p, "close", "sent") /\ (Answer("ok") \/ Answer("error"))
          /\ runtimes' = [runtimes EXCEPT ![p] = {r \in @ : r.node # call.node}]
    /\ UNCHANGED <<plan, source, cache, spoiled, pc, todo, sock, clients, bindings, hashed>>
    /\ UNCHANGED <<proc, signal, session, backlog>>

\* LocalWorkerAssetCache: an entry counts when its own digest is its name.
ExistsUnverified(p, d) == cache[RootOf[p]][d] \in {"good", "other", "misnamed"}
Verified(p, d) == cache[RootOf[p]][d] = "good"
Directory(p, d) == cache[RootOf[p]][d] = "directory"
HasAsset(p) ==
    /\ Holds(p, "has", "sent")
    /\ LET d == hashed[call.node]
       IN  Answer(CASE Verified(p, d) -> "ok" [] Directory(p, d) -> "error" [] OTHER -> "absent")
    /\ UNCHANGED <<plan, source, cache, spoiled, pc, todo, sock, clients, bindings, hashed, procVars>>

\* put_asset: content that has not the digest is refused and a verified entry is
\* kept; anything else gives way to a new file, renamed into place after it was
\* written.  (An entry that is a directory has failed HAS_ASSET before.)
AdmitsAnything(content, d) == TRUE
Admits(content, d) == content = d
Written(content, d) == IF content = d THEN "good" ELSE "misnamed"

PutCheck(p) ==
    /\ Holds(p, "put", "sent")
    /\ LET d == hashed[call.node]
       IN  Answer(CASE ~Admits(call.content, d) -> "error"
                    [] Admits(call.content, d) /\ Verified(p, d) -> "ok"
                    [] OTHER -> "writing")
    /\ UNCHANGED <<plan, source, cache, spoiled, pc, todo, sock, clients, bindings, hashed, procVars>>
PutReplace(p) ==
    /\ Holds(p, "put", "writing")
    /\ LET d == hashed[call.node]
       IN  \/ Answer("ok") /\ cache' = [cache EXCEPT ![RootOf[p]][d] = Written(call.content, d)]
           \/ Answer("error") /\ UNCHANGED cache
    /\ UNCHANGED <<plan, source, spoiled, pc, todo, sock, clients, bindings, hashed, procVars>>

\* WorkerRuntimeFactory.create: the entry is resolved, then loaded from its path.
Resolve(p) ==
    /\ Holds(p, "create", "sent")
    /\ Answer(IF Verified(p, hashed[call.node]) THEN "loading" ELSE "error")
    /\ UNCHANGED <<plan, source, cache, spoiled, pc, todo, sock, clients, bindings, hashed, procVars>>
LoadAndCreate(p) ==
    /\ Holds(p, "create", "loading")
    /\ LET d == hashed[call.node]
           content == IF cache[RootOf[p]][d] = "good" THEN d ELSE Other
       IN  \/ /\ cache[RootOf[p]][d] \notin {"absent", "directory"}
              /\ Answer("ok")
              /\ runtimes' = [runtimes EXCEPT ![p] =
                                @ \union {[node |-> call.node, content |-> content]}]
           \/ Answer("error") /\ UNCHANGED runtimes
    /\ UNCHANGED <<plan, source, cache, spoiled, pc, todo, sock, clients, bindings, hashed>>
    /\ UNCHANGED <<proc, signal, session, backlog>>

\* The client left, or its HELLO was refused: the session ends, its runtimes are
\* released and the single-session process stops.
SessionOver(p) ==
    /\ Serves(p)
    /\ sock[session[p]] = "closed" \/ (session[p] # WorkerIdOf[p] /\ Answered)
    /\ Ends(p)

\* What the launcher sent arrives: the end of stdin, SIGTERM, SIGKILL.
Obey(p) ==
    /\ \/ proc[p] \in {"booting", "serving"} /\ signal[p] # "none"
       \/ proc[p] = "stuck" /\ signal[p] \in {"kill", "given up"}
    /\ Ends(p)

\* A process hangs while it starts, or while a native library shuts down: it
\* may ignore everything but a kill.
Hang(p) ==
    /\ proc[p] = "booting" \/ (Serves(p) /\ sock[session[p]] = "closed")
    /\ proc' = [proc EXCEPT ![p] = "stuck"]
    /\ UNCHANGED <<plan, source, cache, spoiled, coordVars, signal, session, backlog, runtimes>>
Crash(p) == proc[p] \in {"booting", "serving", "stuck"} /\ Ends(p)

-----------------------------------------------------------------------------
(* The world outside: the model file is rebuilt, another coordinator puts an   *)
(* asset through a worker of the same root, or an entry is damaged.            *)

EditSource ==
    /\ source < MaxEdits /\ source' = source + 1
    /\ UNCHANGED <<plan, cache, spoiled, coordVars, procVars>>

\* What that coordinator uploads may have any content: put_asset admits it or not.
OtherPut(r, d) ==
    /\ cache[r][d] \notin {"directory", "good"}
    /\ \E content \in Contents \union {Other} :
         /\ Admits(content, d)
         /\ cache' = [cache EXCEPT ![r][d] = Written(content, d)]
    /\ UNCHANGED <<plan, source, spoiled, coordVars, procVars>>

\* An entry is lost or overwritten, at any moment: also after it was resolved.
BeingLoaded(r, d) ==
    /\ call.op = "create" /\ call.at = "loading"
    /\ RootOf[At(call.worker)] = r /\ hashed[call.node] = d
Damage(r, d) ==
    /\ cache[r][d] # "directory"
    /\ \E entry \in {"absent", "other"} : cache' = [cache EXCEPT ![r][d] = entry]
    /\ spoiled' = IF BeingLoaded(r, d) THEN spoiled \union {call.node} ELSE spoiled
    /\ UNCHANGED <<plan, source, coordVars, procVars>>

-----------------------------------------------------------------------------
Coordinator ==
    \/ Spawn \/ WaitReadiness \/ RunGraph \/ Dial \/ CreateNode \/ AdvanceNode
    \/ CloseNode \/ PhaseOver \/ Stage \/ Returns \/ Raises \/ ConnectionLost
    \/ HandshakeTimeout \/ Disconnect \/ Reap
Worker(p) ==
    \/ Boot(p) \/ Accept(p) \/ Handshake(p) \/ Serve(p) \/ HasAsset(p) \/ PutCheck(p)
    \/ PutReplace(p) \/ Resolve(p) \/ LoadAndCreate(p) \/ SessionOver(p) \/ Obey(p)

Done == pc = "done" /\ UNCHANGED vars

Next ==
    \/ Coordinator \/ Interrupt \/ Done \/ EditSource
    \/ \E p \in Processes : Worker(p) \/ Hang(p) \/ Crash(p)
    \/ \E r \in Roots, d \in Contents : OtherPut(r, d) \/ Damage(r, d)

\* The coordinating thread runs, its waits with a timeout end, and a process
\* that is not stuck makes progress.
Fairness == WF_vars(Coordinator) /\ \A p \in Processes : WF_vars(Worker(p))
Spec == Init /\ [][Next]_vars /\ Fairness

-----------------------------------------------------------------------------
(* Properties. *)

\* The content of an FMU on its way from the model file to a runtime.  What is
\* uploaded under a digest has it, though the file may be edited between the
\* digest, the question to the worker and the upload.  No PUT, of this run or of
\* another, fills an entry with anything but the content of its name.  And what a
\* worker runs for a node is what the coordinator hashed for it, whatever was
\* damaged before the entry was resolved; only damage between resolve_asset and
\* the load of the path it returned goes unnoticed.
ServedVerified ==
    /\ call.op = "put" => call.content = hashed[call.node]
    /\ \A r \in Roots, d \in Contents : cache[r][d] # "misnamed"
    /\ \A p \in Processes : \A r \in runtimes[p] :
         r.content = hashed[r.node] \/ r.node \in spoiled

\* However the run ends (a refused plan, a handshake that waits for its own
\* client, a worker lost in the middle, an interrupt), in the end no worker
\* keeps a session or a runtime of it, unless it hangs on its way out and was
\* started by somebody else; and no launched process is left.
EverythingReleased ==
    <>[](pc = "done" /\ \A p \in Processes :
            /\ proc[p] # "stuck" => session[p] = NoWorker /\ runtimes[p] = {}
            /\ Contains(Launches, p) => proc[p] \in {"off", "ended"})
=============================================================================
