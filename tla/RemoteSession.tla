--------------------------- MODULE RemoteSession ---------------------------
(***************************************************************************)
(* One session between a coordinator and a worker process: the             *)
(* RemoteNodeRuntime proxies and the TcpWorkerClient they share, the       *)
(* connection, the sequential TcpWorkerServer with its watcher thread for  *)
(* the end of stdin, and the WorkerApplicationService with its registry of *)
(* runtimes.                                                               *)
(*                                                                         *)
(* The coordinator is any single thread that calls the proxies one at a    *)
(* time.  A runtime id is the node it was created for.  A native call of   *)
(* the worker may raise, a reply may not fit in a control frame, the       *)
(* worker process may crash, the client may give up waiting, and the       *)
(* parent may close the worker's stdin, each at any moment.                *)
(***************************************************************************)
EXTENDS Integers

CONSTANTS Nodes,        \* the nodes placed on this worker
          MaxCommands,  \* bound on the stateful commands of a node
          NoNode        \* the node of a message that names no runtime

ASSUME MaxCommandsAssumption == MaxCommands \in Nat
ASSUME NoNodeAssumption == NoNode \notin Nodes

VARIABLES
    sock,       \* TcpWorkerClient._socket: "idle" before connect, open, closed
    call,       \* the round trip the client waits for
    proxy,      \* RemoteNodeRuntime._state of each node
    acked,      \* stateful commands the proxy returned from
    req,        \* the request on its way to the worker
    resp,       \* the response on its way to the client
    conn,       \* the worker's end of the connection
    srv,        \* where the thread in serve_forever is
    hand,       \* the request, then the response, the server holds
    registry,   \* WorkerApplicationService._runtimes: state of each record
    closes,     \* close() calls on each native runtime, -1 while there is none
    executed,   \* stateful commands the native runtime was asked to carry out
    stopEvent,  \* run_worker's stop_event
    listener,   \* the listening socket is open
    active,     \* TcpWorkerServer._active is the connection
    watcher,    \* where the thread in _watch_parent_stdin is
    grabbed     \* TcpWorkerServer.close took the connection from _active

clientVars == <<sock, call, proxy, acked>>
wireVars == <<req, resp, conn>>
serviceVars == <<registry, closes, executed>>
serverVars == <<srv, hand, stopEvent, listener, active>>
watchVars == <<watcher, grabbed>>
vars == <<sock, call, proxy, acked, req, resp, conn, srv, hand, registry, closes,
          executed, stopEvent, listener, active, watcher, grabbed>>

-----------------------------------------------------------------------------
(* Messages and states. *)

Stateful == {"set", "advance"}
Commands == {"create", "initialize", "read", "terminate", "close"} \union Stateful

Nothing == [op |-> "none", node |-> NoNode]
Hello == [op |-> "hello", node |-> NoNode]
Requests == {Nothing, Hello} \union [op : Commands, node : Nodes]
NoReply == [op |-> "none", node |-> NoNode, ok |-> FALSE]
Reply(r, ok) == [op |-> r.op, node |-> r.node, ok |-> ok]
Replies == {Reply(r, ok) : r \in Requests, ok \in BOOLEAN}

ProxyStates == {"absent", "created", "initialized", "failed", "terminated", "closed"}
RecordStates == {"absent", "created", "initialized", "failed", "terminated"}

\* The states in which a proxy sends a command; in the others the method
\* returns at once or raises a lifecycle error, and changes nothing.
Sends(op) ==
    CASE op = "create" -> {"absent"}
      [] op = "initialize" -> {"created"}
      [] op \in Stateful \union {"read"} -> {"initialized"}
      [] op = "terminate" -> {"initialized", "failed"}
      [] op = "close" -> {"created", "initialized", "failed", "terminated"}

\* The proxy's state after a command that the worker acknowledged ...
Acknowledged(op, old) ==
    CASE op = "create" -> "created"
      [] op = "initialize" -> "initialized"
      [] op \in Stateful \union {"read"} -> old
      [] op = "terminate" -> "terminated"
      [] op = "close" -> "closed"

\* ... and after one that raised.
FailedButRead(op) == CASE op = "create" -> "absent" [] op = "close" -> "closed"
                       [] op = "read" -> "initialized" [] OTHER -> "failed"
Failed(op) == CASE op = "create" -> "absent" [] op = "close" -> "closed"
                [] OTHER -> "failed"

-----------------------------------------------------------------------------
(* The coordinator: WorkerRpcClient over TcpWorkerClient. *)

Init ==
    /\ sock = "idle" /\ call = Nothing
    /\ proxy = [n \in Nodes |-> "absent"] /\ acked = [n \in Nodes |-> 0]
    /\ req = Nothing /\ resp = NoReply /\ conn = "none"
    /\ srv = "loop" /\ hand = NoReply
    /\ registry = [n \in Nodes |-> "absent"]
    /\ closes = [n \in Nodes |-> -1] /\ executed = [n \in Nodes |-> 0]
    /\ stopEvent = FALSE /\ listener = TRUE /\ active = FALSE
    /\ watcher = "reading" /\ grabbed = FALSE

\* connect(): the kernel completes the connection while the listener is open,
\* and the client waits for the reply to HELLO.
Connect ==
    /\ sock = "idle"
    /\ IF listener
       THEN /\ sock' = "open" /\ call' = Hello /\ req' = Hello /\ conn' = "backlog"
       ELSE /\ sock' = "closed" /\ UNCHANGED <<call, req, conn>>
    /\ UNCHANGED <<proxy, acked, resp>>
    /\ UNCHANGED <<serviceVars, serverVars, watchVars>>

\* A call on a proxy.  Without a socket request() raises before it sends; a
\* frame sent into a connection the worker has left reaches nobody.
Issue(op, n) ==
    /\ call = Nothing /\ sock # "idle"
    /\ proxy[n] \in Sends(op)
    /\ op \in Stateful => acked[n] < MaxCommands
    /\ IF sock = "open"
       THEN /\ call' = [op |-> op, node |-> n]
            /\ req' = IF conn = "open" THEN call' ELSE req
            /\ UNCHANGED proxy
       ELSE /\ proxy' = [proxy EXCEPT ![n] = Failed(op)]
            /\ UNCHANGED <<call, req>>
    /\ UNCHANGED <<sock, acked, resp, conn>>
    /\ UNCHANGED <<serviceVars, serverVars, watchVars>>

\* Inputs that do not fit in a control frame are never sent, and the client
\* closes the connection as for any other EngineError.
FrameTooLarge(n) ==
    /\ call = Nothing /\ sock = "open"
    /\ proxy[n] \in Sends("set")
    /\ proxy' = [proxy EXCEPT ![n] = Failed("set")]
    /\ sock' = "closed" /\ resp' = NoReply
    /\ UNCHANGED <<call, acked, req, conn>>
    /\ UNCHANGED <<serviceVars, serverVars, watchVars>>

\* The round trip ends in an exception; HELLO has no proxy to fail.
CallFails ==
    /\ call' = Nothing
    /\ proxy' = IF call = Hello THEN proxy
                ELSE [proxy EXCEPT ![call.node] = Failed(call.op)]
    /\ UNCHANGED acked
CallReturns ==
    /\ call' = Nothing
    /\ proxy' = IF call = Hello THEN proxy
                ELSE [proxy EXCEPT ![call.node] = Acknowledged(call.op, @)]
    /\ acked' = IF call.op \in Stateful THEN [acked EXCEPT ![call.node] = @ + 1]
                ELSE acked

\* A response arrives: one that does not answer the call closes the
\* connection, an error response only fails the call (and refuses HELLO).
Receive ==
    /\ call # Nothing /\ resp # NoReply
    /\ resp' = NoReply
    /\ IF resp = Reply(call, TRUE) THEN CallReturns ELSE CallFails
    /\ sock' = IF resp = Reply(call, TRUE) \/ (resp = Reply(call, FALSE) /\ call # Hello)
               THEN sock ELSE "closed"
    /\ UNCHANGED <<req, conn>>
    /\ UNCHANGED <<serviceVars, serverVars, watchVars>>

\* The worker's end is gone and no response is left to read.
ConnectionLost ==
    /\ call # Nothing /\ resp = NoReply /\ conn \in {"shut", "closed"}
    /\ CallFails
    /\ sock' = "closed"
    /\ UNCHANGED <<resp, req, conn>>
    /\ UNCHANGED <<serviceVars, serverVars, watchVars>>

\* handshake_timeout or operation_timeout expires, however far the worker is.
TimeoutKeepsSocket ==
    /\ call # Nothing
    /\ CallFails
    /\ UNCHANGED <<sock, resp, req, conn>>
    /\ UNCHANGED <<serviceVars, serverVars, watchVars>>
TimeoutResends ==
    /\ call # Nothing
    /\ req' = call
    /\ UNCHANGED <<clientVars, resp, conn>>
    /\ UNCHANGED <<serviceVars, serverVars, watchVars>>
Timeout ==
    /\ call # Nothing
    /\ CallFails
    /\ sock' = "closed" /\ resp' = NoReply
    /\ UNCHANGED <<req, conn>>
    /\ UNCHANGED <<serviceVars, serverVars, watchVars>>

\* close(), by the owner of the connection.
Disconnect ==
    /\ call = Nothing /\ sock = "open"
    /\ sock' = "closed" /\ resp' = NoReply
    /\ UNCHANGED <<call, proxy, acked, req, conn>>
    /\ UNCHANGED <<serviceVars, serverVars, watchVars>>

-----------------------------------------------------------------------------
(* The worker: TcpWorkerServer.serve_forever and _serve_connection. *)

\* The loop's test of stop_event, and the return after the listener is gone.
LoopTop ==
    /\ srv = "loop"
    /\ srv' = IF stopEvent THEN "exit" ELSE "accept"
    /\ UNCHANGED <<hand, stopEvent, listener, active>>
    /\ UNCHANGED <<clientVars, wireVars, serviceVars, watchVars>>

\* accept() returns a connection, fails because the listener was closed, or
\* times out; _active is assigned after it has returned.
Accept ==
    /\ srv = "accept"
    /\ \/ conn = "backlog" /\ listener /\ srv' = "accepted" /\ conn' = "open"
       \/ ~listener /\ srv' = "exit" /\ UNCHANGED conn
       \/ conn # "backlog" /\ listener /\ srv' = "loop" /\ UNCHANGED conn
    /\ UNCHANGED <<hand, stopEvent, listener, active, req, resp>>
    /\ UNCHANGED <<clientVars, serviceVars, watchVars>>

Register ==
    /\ srv = "accepted"
    /\ active' = TRUE /\ srv' = "receive"
    /\ UNCHANGED <<hand, stopEvent, listener>>
    /\ UNCHANGED <<clientVars, wireVars, serviceVars, watchVars>>

\* _receive_request: what the client sent before it left is still delivered,
\* and may be even when the connection is being shut.
ReceiveRequest ==
    /\ srv = "receive"
    /\ \/ /\ req # Nothing
          /\ hand' = Reply(req, FALSE) /\ req' = Nothing /\ srv' = "execute"
       \/ /\ conn = "shut" \/ (req = Nothing /\ sock = "closed")
          /\ srv' = "cleanup" /\ UNCHANGED <<hand, req>>
    /\ UNCHANGED <<stopEvent, listener, active, resp, conn>>
    /\ UNCHANGED <<clientVars, serviceVars, watchVars>>

-----------------------------------------------------------------------------
(* WorkerApplicationService.handle_request. *)

\* The record states from which the service carries a command out; it answers
\* the others with an error.
Accepts(op) ==
    CASE op = "create" -> {"absent"}
      [] op = "initialize" -> {"created"}
      [] op \in Stateful \union {"read"} -> {"initialized"}
      [] op \in {"terminate", "close"} -> RecordStates \ {"absent"}

\* The record's state after a command carried out: `ok` tells whether the
\* native call returned or raised.
Carried(op, old) ==
    CASE op = "initialize" -> "initialized"
      [] op = "terminate" -> "terminated"
      [] OTHER -> old
After(op, old, ok) ==
    IF op = "create" THEN IF ok THEN "created" ELSE "absent"
    ELSE IF op = "close" THEN "absent"
    ELSE IF ok THEN Carried(op, old) ELSE "failed"

\* A creation that fails leaves no runtime, also when the record cannot be
\* registered; a terminated runtime is not terminated again.
Execute(ok) ==
    /\ srv = "execute" /\ srv' = "reply"
    /\ IF hand.node = NoNode
       THEN /\ hand' = [hand EXCEPT !.ok = ok]
            /\ UNCHANGED serviceVars
       ELSE LET n == hand.node  op == hand.op
                again == op = "terminate" /\ registry[n] = "terminated"
                run == registry[n] \in Accepts(op) /\ ~again
            IN  /\ hand' = [hand EXCEPT !.ok = again \/ (run /\ ok)]
                /\ registry' = IF run
                               THEN [registry EXCEPT ![n] = After(op, @, ok)]
                               ELSE registry
                /\ executed' = IF run /\ op \in Stateful
                               THEN [executed EXCEPT ![n] = @ + 1] ELSE executed
                /\ closes' = [closes EXCEPT ![n] =
                                CASE run /\ op = "create" /\ ok -> 0
                                  [] run /\ op = "close" -> @ + 1
                                  [] OTHER -> @]
    /\ UNCHANGED <<stopEvent, listener, active>>
    /\ UNCHANGED <<clientVars, wireVars, watchVars>>

\* _send_response: it fails when the connection was shut or the response does
\* not fit in a control frame, and the session ends after a refused HELLO.
SendResponse ==
    /\ srv = "reply" /\ hand' = NoReply
    /\ \/ /\ conn = "open"
          /\ resp' = IF sock = "open" THEN hand ELSE resp
          /\ srv' = IF hand = Reply(Hello, FALSE) THEN "cleanup" ELSE "receive"
       \/ /\ conn = "shut" \/ hand.op = "read"
          /\ srv' = "cleanup" /\ UNCHANGED resp
    /\ UNCHANGED <<req, conn, stopEvent, listener, active>>
    /\ UNCHANGED <<clientVars, serviceVars, watchVars>>

-----------------------------------------------------------------------------
(* The end of a session and of the process. *)

Alive == srv \notin {"down", "crashed"}

\* One turn of WorkerApplicationService.shutdown: whether the native
\* terminate() and close() return or raise, the record is popped.
ShutdownSkipsFailed(n) ==
    /\ srv = "cleanup" /\ registry[n] # "absent"
    /\ registry' = [registry EXCEPT ![n] = "absent"]
    /\ closes' = [closes EXCEPT ![n] = IF registry[n] = "failed" THEN @ ELSE @ + 1]
    /\ UNCHANGED executed
    /\ UNCHANGED <<clientVars, wireVars, serverVars, watchVars>>
ShutdownRuntime(n) ==
    /\ srv = "cleanup" /\ registry[n] # "absent"
    /\ registry' = [registry EXCEPT ![n] = "absent"]
    /\ closes' = [closes EXCEPT ![n] = @ + 1]
    /\ UNCHANGED executed
    /\ UNCHANGED <<clientVars, wireVars, serverVars, watchVars>>

\* _ProcessSessionHandler.shutdown sets stop_event once the service is shut down.
SessionOverServesOn ==
    /\ srv = "cleanup" /\ registry = [n \in Nodes |-> "absent"]
    /\ srv' = "release"
    /\ UNCHANGED <<hand, stopEvent, listener, active>>
    /\ UNCHANGED <<clientVars, wireVars, serviceVars, watchVars>>
SessionOver ==
    /\ srv = "cleanup" /\ registry = [n \in Nodes |-> "absent"]
    /\ stopEvent' = TRUE /\ srv' = "release"
    /\ UNCHANGED <<hand, listener, active>>
    /\ UNCHANGED <<clientVars, wireVars, serviceVars, watchVars>>

\* serve_forever's finally: _active is cleared and the connection closed.
ReleaseKeepsConnection ==
    /\ srv = "release"
    /\ active' = FALSE /\ srv' = "loop"
    /\ UNCHANGED <<hand, stopEvent, listener, wireVars>>
    /\ UNCHANGED <<clientVars, serviceVars, watchVars>>
Release ==
    /\ srv = "release"
    /\ active' = FALSE /\ conn' = "closed" /\ srv' = "loop"
    /\ UNCHANGED <<hand, stopEvent, listener, req, resp>>
    /\ UNCHANGED <<clientVars, serviceVars, watchVars>>

\* run_worker's finally: server.close(); the registry is already empty.
Exit ==
    /\ srv = "exit"
    /\ srv' = "down" /\ listener' = FALSE /\ active' = FALSE
    /\ conn' = IF conn = "backlog" THEN "closed" ELSE conn
    /\ UNCHANGED <<hand, stopEvent, req, resp>>
    /\ UNCHANGED <<clientVars, serviceVars, watchVars>>

\* The process dies: its sockets are closed by the system, and a response it
\* had sent may or may not still reach the client.
Crash ==
    /\ Alive
    /\ srv' = "crashed" /\ listener' = FALSE
    /\ conn' = IF conn = "none" THEN conn ELSE "closed"
    /\ resp' \in {resp, NoReply}
    /\ UNCHANGED <<req, hand, stopEvent, active>>
    /\ UNCHANGED <<clientVars, serviceVars, watchVars>>

-----------------------------------------------------------------------------
(* The parent closes stdin, and _watch_parent_stdin stops the server. *)

StdinEof ==
    /\ watcher = "reading" /\ Alive
    /\ watcher' = "eof"
    /\ UNCHANGED <<clientVars, wireVars, serviceVars, serverVars, grabbed>>

SetStop ==
    /\ watcher = "eof" /\ Alive
    /\ watcher' = "stopping" /\ stopEvent' = TRUE
    /\ UNCHANGED <<srv, hand, listener, active, grabbed>>
    /\ UNCHANGED <<clientVars, wireVars, serviceVars>>

\* close() takes the listener and the active connection ...
TakeSockets ==
    /\ watcher = "stopping" /\ Alive
    /\ watcher' = "closing" /\ grabbed' = active /\ active' = FALSE
    /\ UNCHANGED <<srv, hand, stopEvent, listener>>
    /\ UNCHANGED <<clientVars, wireVars, serviceVars>>

\* ... and shuts both down; a connection not yet accepted goes with the listener.
CloseSockets ==
    /\ watcher = "closing" /\ Alive
    /\ watcher' = "done" /\ listener' = FALSE
    /\ conn' = CASE conn = "backlog" -> "closed"
                 [] conn = "open" /\ grabbed -> "shut"
                 [] OTHER -> conn
    /\ UNCHANGED <<req, resp, srv, hand, stopEvent, active, grabbed>>
    /\ UNCHANGED <<clientVars, serviceVars>>

-----------------------------------------------------------------------------
Client == Connect \/ Disconnect \/ Timeout
          \/ (\E n \in Nodes, op \in Commands : Issue(op, n))
          \/ (\E n \in Nodes : FrameTooLarge(n))
Awaits == Receive \/ ConnectionLost
Server == LoopTop \/ Accept \/ Register \/ ReceiveRequest
          \/ (\E ok \in BOOLEAN : Execute(ok)) \/ SendResponse
          \/ (\E n \in Nodes : ShutdownRuntime(n)) \/ SessionOver \/ Release \/ Exit
Watcher == SetStop \/ TakeSockets \/ CloseSockets

Next == Client \/ Awaits \/ Server \/ Watcher \/ StdinEof \/ Crash

\* A blocked recv of the client returns once there is something to return; the
\* worker's threads are scheduled and its native calls return or raise.
Fairness == WF_vars(Awaits) /\ WF_vars(Server) /\ WF_vars(Watcher)
Spec == Init /\ [][Next]_vars /\ Fairness

-----------------------------------------------------------------------------
(* Properties. *)

\* While the session lasts, every proxy no call is pending for has the state of
\* the worker's record, and an initialized one has acknowledged every command
\* the worker carried out: the two state machines, on two sides of a wire,
\* never drift apart.  Nor does the worker ever have to refuse a command for
\* the state of its record: what a proxy still sends after any error is what
\* the record still accepts.
InStep ==
    /\ (sock = "open" /\ srv \in {"receive", "execute", "reply"}) =>
           \A n \in Nodes \ {call.node} :
               /\ registry[n] = IF proxy[n] = "closed" THEN "absent" ELSE proxy[n]
               /\ proxy[n] = "initialized" => executed[n] = acked[n]
    /\ (srv = "execute" /\ hand.node # NoNode) => registry[hand.node] \in Accepts(hand.op)

\* The response a waiting client would read is the one to its request: a late
\* response never meets another call, because a timeout ends the connection.
NoStaleReply ==
    (call # Nothing /\ resp # NoReply) => resp.op = call.op /\ resp.node = call.node

\* However the session ends, when the worker is done with it no native runtime
\* is left open, and none was closed twice by CLOSE and by shutdown.
ClosedExactlyOnce ==
    /\ \A n \in Nodes : closes[n] <= 1
    /\ srv \in {"release", "exit", "down"} => \A n \in Nodes : closes[n] # 0

\* Stateful commands are carried out at most once each and never replayed, with
\* timeouts, lost responses and crashes: see AtMostOnce.
Commanded(n) == INSTANCE AtMostOnce WITH
    usable <- proxy[n] \in {"created", "initialized"},
    done <- executed[n], acked <- acked[n]
NeverReplayed ==
    /\ \A n \in Nodes : Commanded(n)!Init
    /\ [][\A n \in Nodes : [Commanded(n)!Next]_(Commanded(n)!view)]_vars

\* Every round trip ends, with a response or an error.
EveryCallEnds == call # Nothing ~> call = Nothing

\* Once the client has left, the worker process ends (after its cleanup, by
\* ClosedExactlyOnce), unless it crashes.
WorkerEndsWithSession == sock = "closed" ~> ~Alive

\* The end of stdin ends the worker: its watcher stops the server and the
\* process exits, whatever the client does.
EofStopsWorker == watcher = "eof" ~> ~Alive
=============================================================================
