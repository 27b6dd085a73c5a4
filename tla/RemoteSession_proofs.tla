------------------------ MODULE RemoteSession_proofs ------------------------
(***************************************************************************)
(* Theorems about RemoteSession: a waiting client never reads the response *)
(* to another request, the worker closes every native runtime exactly once,*)
(* no command is replayed (a session implements AtMostOnce for every node),*)
(* proxy and record stay in step, a client that waits has a peer, and the  *)
(* worker winds down once its client has left.  They hold for any number   *)
(* of nodes and of commands.                                               *)
(***************************************************************************)
EXTENDS RemoteSession, TLAPS

\* The threads' points at which the server has no connection yet.
Unconnected == {"loop", "accept", "exit", "down", "crashed"}

\* The one call of an open session is at one place: on its way to the worker,
\* in the server's hand, or answered; a session that is not open has no call and
\* no response, and nothing has moved before the session is opened.
WireInv ==
    /\ call # Nothing => sock = "open"
    /\ sock # "open" => resp = NoReply
    /\ sock = "idle" => req = Nothing /\ conn = "none"
    /\ conn = "none" => srv \in Unconnected
    /\ sock = "open" =>
        /\ req # Nothing => req = call
        /\ srv \in {"execute", "reply"} =>
              /\ hand.op = call.op /\ hand.node = call.node
              /\ call # Nothing /\ req = Nothing /\ resp = NoReply
        /\ resp # NoReply =>
              /\ resp.op = call.op /\ resp.node = call.node
              /\ call # Nothing /\ req = Nothing

\* A record stands for a native runtime that is open, and there is none while
\* the server has no session.
RegistryInv ==
    /\ registry \in [Nodes -> RecordStates]
    /\ closes \in [Nodes -> -1..1]
    /\ \A n \in Nodes : registry[n] # "absent" <=> closes[n] = 0
    /\ srv \in {"loop", "accept", "accepted", "release", "exit", "down"} =>
          \A n \in Nodes : registry[n] = "absent"

\* What the server holds is an answer to a command on one of the nodes, or to
\* HELLO; so is what the client waits for.
MessagesInv ==
    /\ call \in Requests /\ req \in Requests /\ hand \in Replies

-----------------------------------------------------------------------------
(* Messages. *)

\* An answer to a request is a reply.
LEMMA ReplyType ==
    ASSUME NEW r \in Requests, NEW ok \in BOOLEAN PROVE Reply(r, ok) \in Replies
BY DEF Replies

\* The first messages are no messages.
LEMMA InitMessages == Init => MessagesInv
<1>. SUFFICES ASSUME Init PROVE MessagesInv
  OBVIOUS
<1>1. Nothing \in Requests /\ Reply(Nothing, FALSE) = NoReply
  BY DEF Requests, Nothing, Reply, NoReply
<1>2. NoReply \in Replies
  BY <1>1, ReplyType
<1>. QED
  BY <1>1, <1>2 DEF Init, MessagesInv

\* The session starts with nothing on the wire.
LEMMA InitWire == Init => WireInv
BY DEF Init, WireInv, Unconnected

\* There is no runtime before the first CREATE.
LEMMA InitRegistry == Init => RegistryInv
BY DEF Init, RegistryInv, RecordStates

-----------------------------------------------------------------------------
(* Every step keeps one call at one place. *)

\* The server gives its answer a verdict and leaves the rest of it alone.
LEMMA AnswerKept ==
    ASSUME NEW h \in Replies, NEW ok \in BOOLEAN
    PROVE LET h2 == [h EXCEPT !.ok = ok]
          IN  h2 \in Replies /\ h2.op = h.op /\ h2.node = h.node
<1>1. PICK r \in Requests, b \in BOOLEAN : h = Reply(r, b)
  BY DEF Replies
<1>2. [h EXCEPT !.ok = ok] = Reply(r, ok)
  BY <1>1 DEF Reply
<1>. QED
  BY <1>1, <1>2, ReplyType DEF Reply

\* A call on a node is a request, and not the empty one.
LEMMA CallType ==
    ASSUME NEW op \in Commands, NEW n \in Nodes
    PROVE LET c == [op |-> op, node |-> n] IN c \in Requests /\ c # Nothing
<1>1. op # "none"
  BY DEF Commands, Stateful
<1>. QED
  BY <1>1 DEF Requests, Nothing

\* Every message on its way is a request or an answer.
LEMMA MessagesStep == MessagesInv /\ [Next]_vars => MessagesInv'
<1>. SUFFICES ASSUME MessagesInv, [Next]_vars PROVE MessagesInv'
  OBVIOUS
<1>. USE DEF MessagesInv, clientVars, wireVars, serverVars
<1>0. /\ Nothing \in Requests /\ Hello \in Requests
      /\ NoReply \in Replies /\ Reply(req, FALSE) \in Replies
  <2>1. Nothing \in Requests /\ Hello \in Requests /\ Reply(Nothing, FALSE) = NoReply
    BY DEF Requests, Nothing, Reply, NoReply
  <2>. QED
    BY <2>1, ReplyType
<1>1. CASE Connect
  BY <1>0, <1>1 DEF Connect
<1>2. CASE Disconnect \/ Timeout
  BY <1>0, <1>2 DEF Disconnect, Timeout, CallFails
<1>3. ASSUME NEW n \in Nodes, NEW op \in Commands, Issue(op, n) PROVE MessagesInv'
  BY <1>3, CallType DEF Issue
<1>4. ASSUME NEW n \in Nodes, FrameTooLarge(n) PROVE MessagesInv'
  BY <1>4 DEF FrameTooLarge
<1>5. CASE Receive \/ ConnectionLost
  BY <1>0, <1>5 DEF Receive, ConnectionLost, CallFails, CallReturns
<1>6. CASE LoopTop \/ Accept \/ Register
  BY <1>6 DEF LoopTop, Accept, Register
<1>7. CASE ReceiveRequest
  BY <1>0, <1>7 DEF ReceiveRequest
<1>8. ASSUME NEW ok \in BOOLEAN, Execute(ok) PROVE MessagesInv'
  <2>1. call' = call /\ req' = req
    BY <1>8 DEF Execute
  <2>2. \E b \in BOOLEAN : hand' = [hand EXCEPT !.ok = b]
    BY <1>8 DEF Execute
  <2>. QED
    BY <2>1, <2>2, AnswerKept
<1>9. CASE SendResponse
  BY <1>0, <1>9 DEF SendResponse
<1>10. ASSUME NEW n \in Nodes, ShutdownRuntime(n) PROVE MessagesInv'
  BY <1>10 DEF ShutdownRuntime
<1>11. CASE SessionOver \/ Release \/ Exit
  BY <1>11 DEF SessionOver, Release, Exit
<1>12. CASE SetStop \/ TakeSockets \/ CloseSockets
  BY <1>12 DEF SetStop, TakeSockets, CloseSockets
<1>13. CASE StdinEof \/ Crash
  BY <1>13 DEF StdinEof, Crash
<1>14. CASE UNCHANGED vars
  BY <1>14 DEF vars
<1>. QED
  BY <1>1, <1>2, <1>3, <1>4, <1>5, <1>6, <1>7, <1>8, <1>9, <1>10, <1>11, <1>12,
     <1>13, <1>14 DEF Next, Client, Awaits, Server, Watcher

\* A call begins with nothing on the wire, its message moves from one place to
\* the next, and an exception of the client ends the call or the session.
LEMMA WireStep == MessagesInv /\ WireInv /\ [Next]_vars => WireInv'
<1>. SUFFICES ASSUME MessagesInv, WireInv, [Next]_vars PROVE WireInv'
  OBVIOUS
<1>. USE DEF WireInv, Unconnected, clientVars, wireVars, serverVars
<1>1. CASE Connect
  BY <1>1 DEF Connect, Hello, Nothing
<1>2. CASE Disconnect \/ Timeout
  BY <1>2 DEF Disconnect, Timeout, CallFails
<1>3. ASSUME NEW n \in Nodes, NEW op \in Commands, Issue(op, n) PROVE WireInv'
  BY <1>3, CallType DEF Issue
<1>4. ASSUME NEW n \in Nodes, FrameTooLarge(n) PROVE WireInv'
  BY <1>4 DEF FrameTooLarge
<1>5. CASE Receive \/ ConnectionLost
  BY <1>5 DEF Receive, ConnectionLost, CallFails, CallReturns
<1>6. CASE LoopTop \/ Accept \/ Register
  BY <1>6 DEF LoopTop, Accept, Register
<1>7. CASE ReceiveRequest
  BY <1>7 DEF ReceiveRequest, Reply, MessagesInv
<1>8. ASSUME NEW ok \in BOOLEAN, Execute(ok) PROVE WireInv'
  <2>1. /\ srv = "execute" /\ srv' = "reply"
        /\ UNCHANGED <<sock, call, req, resp, conn>>
    BY <1>8 DEF Execute
  <2>2. \E b \in BOOLEAN : hand' = [hand EXCEPT !.ok = b]
    BY <1>8 DEF Execute
  <2>3. hand'.op = hand.op /\ hand'.node = hand.node
    BY <2>2, AnswerKept DEF MessagesInv
  <2>. QED
    BY <2>1, <2>3
<1>9. CASE SendResponse
  BY <1>9 DEF SendResponse
<1>10. ASSUME NEW n \in Nodes, ShutdownRuntime(n) PROVE WireInv'
  BY <1>10 DEF ShutdownRuntime
<1>11. CASE SessionOver \/ Release \/ Exit
  BY <1>11 DEF SessionOver, Release, Exit
<1>12. CASE SetStop \/ TakeSockets \/ CloseSockets
  BY <1>12 DEF SetStop, TakeSockets, CloseSockets
<1>13. CASE StdinEof \/ Crash
  BY <1>13 DEF StdinEof, Crash
<1>14. CASE UNCHANGED vars
  BY <1>14 DEF vars
<1>. QED
  BY <1>1, <1>2, <1>3, <1>4, <1>5, <1>6, <1>7, <1>8, <1>9, <1>10, <1>11, <1>12,
     <1>13, <1>14 DEF Next, Client, Awaits, Server, Watcher

\* A timeout closes the connection, so that a late response never meets another
\* call: whatever response is there answers the request the client waits for.
THEOREM AnswersItsCall == Spec => []NoStaleReply
<1>1. WireInv => NoStaleReply
  BY DEF WireInv, NoStaleReply
<1>. QED
  BY <1>1, InitMessages, InitWire, MessagesStep, WireStep, PTL DEF Spec

-----------------------------------------------------------------------------
(* Every step keeps the registry and the closed runtimes in step. *)

\* A record the service keeps is one it can go on with.
LEMMA AfterType ==
    ASSUME NEW op \in Commands, NEW old \in RecordStates, NEW ok \in BOOLEAN,
           old \in Accepts(op)
    PROVE /\ After(op, old, ok) \in RecordStates
          /\ op = "close" => After(op, old, ok) = "absent" /\ old # "absent"
          /\ op = "create" =>
                /\ After(op, old, ok) = IF ok THEN "created" ELSE "absent"
                /\ old = "absent"
          /\ op \notin {"create", "close"} =>
                After(op, old, ok) # "absent" /\ old # "absent"
<1>1. op \in {"create", "close", "initialize", "terminate", "read", "set", "advance"}
  BY DEF Commands, Stateful
<1>2. CASE op = "create"
  <2>1. Accepts(op) = {"absent"}
    BY <1>2 DEF Accepts, Stateful
  <2>. QED
    BY <1>2, <2>1 DEF After, RecordStates
<1>3. CASE op = "close"
  <2>1. Accepts(op) = RecordStates \ {"absent"}
    BY <1>3 DEF Accepts, Stateful
  <2>. QED
    BY <1>3, <2>1 DEF After, RecordStates
<1>4. CASE op = "initialize"
  <2>1. Accepts(op) = {"created"}
    BY <1>4 DEF Accepts, Stateful
  <2>2. Carried(op, old) = "initialized"
    BY <1>4 DEF Carried
  <2>. QED
    BY <1>4, <2>1, <2>2 DEF After, RecordStates
<1>5. CASE op = "terminate"
  <2>1. Accepts(op) = RecordStates \ {"absent"}
    BY <1>5 DEF Accepts, Stateful
  <2>2. Carried(op, old) = "terminated"
    BY <1>5 DEF Carried
  <2>. QED
    BY <1>5, <2>1, <2>2 DEF After, RecordStates
<1>6. CASE op \in {"read", "set", "advance"}
  <2>1. Accepts(op) = {"initialized"}
    BY <1>6 DEF Accepts, Stateful
  <2>2. Carried(op, old) = old
    BY <1>6 DEF Carried
  <2>. QED
    BY <1>6, <2>1, <2>2 DEF After, RecordStates
<1>. QED
  BY <1>1, <1>2, <1>3, <1>4, <1>5, <1>6

\* The registry and the closed runtimes change together, in CREATE, CLOSE and
\* the turns of shutdown only.
LEMMA RegistryStep == MessagesInv /\ RegistryInv /\ [Next]_vars => RegistryInv'
<1>. SUFFICES ASSUME MessagesInv, RegistryInv, [Next]_vars PROVE RegistryInv'
  OBVIOUS
<1>. USE DEF RegistryInv, serviceVars, serverVars
<1>1. CASE Connect \/ Disconnect \/ Timeout
  BY <1>1 DEF Connect, Disconnect, Timeout
<1>3. ASSUME NEW n \in Nodes, NEW op \in Commands, Issue(op, n) PROVE RegistryInv'
  BY <1>3 DEF Issue
<1>4. ASSUME NEW n \in Nodes, FrameTooLarge(n) PROVE RegistryInv'
  BY <1>4 DEF FrameTooLarge
<1>5. CASE Receive \/ ConnectionLost
  BY <1>5 DEF Receive, ConnectionLost
<1>6. CASE LoopTop \/ Accept \/ Register
  BY <1>6 DEF LoopTop, Accept, Register
<1>7. CASE ReceiveRequest
  BY <1>7 DEF ReceiveRequest
<1>8. ASSUME NEW ok \in BOOLEAN, Execute(ok) PROVE RegistryInv'
  <2>1. srv' = "reply"
    BY <1>8 DEF Execute
  <2>2. CASE hand.node = NoNode
    BY <1>8, <2>1, <2>2 DEF Execute
  <2>3. CASE hand.node # NoNode
    <3>. DEFINE n == hand.node
                op == hand.op
                again == op = "terminate" /\ registry[n] = "terminated"
                run == registry[n] \in Accepts(op) /\ ~again
    <3>1. n \in Nodes /\ op \in Commands
      BY <2>3 DEF MessagesInv, Replies, Reply, Requests, Nothing, Hello
    <3>2. CASE ~run
      BY <1>8, <2>1, <2>3, <3>2 DEF Execute
    <3>3. CASE run
      <4>. DEFINE new == After(op, registry[n], ok)
      <4>1. registry' = [registry EXCEPT ![n] = new]
        BY <1>8, <2>3, <3>3 DEF Execute
      <4>2. closes' = [closes EXCEPT ![n] =
                          CASE op = "create" /\ ok -> 0
                            [] op = "close" -> closes[n] + 1
                            [] OTHER -> closes[n]]
        BY <1>8, <2>3, <3>3 DEF Execute
      <4>3. /\ new \in RecordStates
            /\ op = "close" => new = "absent" /\ registry[n] # "absent"
            /\ op = "create" =>
                  new = (IF ok THEN "created" ELSE "absent") /\ registry[n] = "absent"
            /\ op \notin {"create", "close"} => new # "absent" /\ registry[n] # "absent"
        BY <3>1, <3>3, AfterType
      <4>4. CASE op = "close"
        <5>1. closes' = [closes EXCEPT ![n] = closes[n] + 1]
          BY <4>2, <4>4
        <5>2. closes[n] = 0 /\ new = "absent"
          BY <4>3, <4>4, <3>1
        <5>. QED
          BY <2>1, <3>1, <4>1, <4>3, <5>1, <5>2
      <4>5. CASE op = "create" /\ ok
        <5>1. closes' = [closes EXCEPT ![n] = 0] /\ new = "created"
          BY <4>2, <4>3, <4>5
        <5>. QED
          BY <2>1, <3>1, <4>1, <4>3, <5>1
      <4>6. CASE op # "close" /\ ~(op = "create" /\ ok)
        <5>1. closes' = closes
          BY <3>1, <4>2, <4>6
        <5>2. new = "absent" <=> registry[n] = "absent"
          BY <4>3, <4>6
        <5>. QED
          BY <2>1, <3>1, <4>1, <4>3, <5>1, <5>2
      <4>. QED
        BY <4>4, <4>5, <4>6
    <3>. QED
      BY <3>2, <3>3
  <2>. QED
    BY <2>2, <2>3
<1>9. CASE SendResponse
  BY <1>9 DEF SendResponse
<1>10. ASSUME NEW n \in Nodes, ShutdownRuntime(n) PROVE RegistryInv'
  <2>1. closes[n] = 0 /\ "absent" \in RecordStates
    BY <1>10 DEF ShutdownRuntime, RecordStates
  <2>. QED
    BY <1>10, <2>1 DEF ShutdownRuntime
<1>11. CASE SessionOver \/ Release \/ Exit
  BY <1>11 DEF SessionOver, Release, Exit
<1>12. CASE SetStop \/ TakeSockets \/ CloseSockets
  BY <1>12 DEF SetStop, TakeSockets, CloseSockets
<1>13. CASE StdinEof \/ Crash
  BY <1>13 DEF StdinEof, Crash
<1>14. CASE UNCHANGED vars
  BY <1>14 DEF vars
<1>. QED
  BY <1>1, <1>3, <1>4, <1>5, <1>6, <1>7, <1>8, <1>9, <1>10, <1>11, <1>12,
     <1>13, <1>14 DEF Next, Client, Awaits, Server, Watcher

\* However the session ends, the worker leaves no native runtime open and closes
\* none twice: CLOSE and shutdown both go through the registry.
THEOREM ClosedOnce == Spec => []ClosedExactlyOnce
<1>1. RegistryInv => ClosedExactlyOnce
  BY DEF RegistryInv, ClosedExactlyOnce
<1>. QED
  BY <1>1, InitMessages, InitRegistry, MessagesStep, RegistryStep, PTL DEF Spec

-----------------------------------------------------------------------------
(* RemoteSession implements AtMostOnce: seen through its proxy and its     *)
(* native runtime, every node is a machine that carries each stateful      *)
(* command out at most once.                                               *)

\* A stateful command on n that the runtime has not been asked to carry out yet,
\* and an answer which says that one was carried out.
PendingOn(n) ==
    \/ req.op \in Stateful /\ req.node = n
    \/ srv = "execute" /\ hand.op \in Stateful /\ hand.node = n
AnsweredOn(n) ==
    \/ srv = "reply" /\ hand.ok /\ hand.op \in Stateful /\ hand.node = n
    \/ resp.ok /\ resp.op \in Stateful /\ resp.node = n
Usable(n) == proxy[n] \in {"created", "initialized"}


\* At most one command is ahead of the acknowledged ones; a proxy that can still
\* send waits for it, and one that was never initialized has sent none.
NodeInv(n) ==
    /\ executed[n] \in {acked[n], acked[n] + 1}
    /\ PendingOn(n) => executed[n] = acked[n] /\ proxy[n] \notin {"absent", "created"}
    /\ AnsweredOn(n) => executed[n] = acked[n] + 1
    /\ Usable(n) /\ (PendingOn(n) \/ executed[n] # acked[n]) =>
          sock = "open" /\ call.op \in Stateful /\ call.node = n
    /\ proxy[n] \in {"absent", "created"} => executed[n] = 0 /\ acked[n] = 0

\* A pending call is one its proxy may send, and no request waits while the
\* server is busy with one.
CommandTypes ==
    /\ executed \in [Nodes -> Nat] /\ acked \in [Nodes -> Nat]
    /\ proxy \in [Nodes -> ProxyStates] /\ resp \in Replies
CallInv ==
    /\ srv \in {"execute", "reply"} => req = Nothing
    /\ call.op \in Commands => call.node \in Nodes /\ proxy[call.node] \in Sends(call.op)
CommandInv == CommandTypes /\ CallInv /\ \A n \in Nodes : NodeInv(n)

Inv == MessagesInv /\ WireInv /\ CommandInv

-----------------------------------------------------------------------------
(* The states of a proxy. *)

\* What a command does to the state of the proxy that sent it: only a creation
\* makes it usable, an error makes it unusable, and a stateful command that was
\* acknowledged leaves it as it is.
LEMMA ProxyStep ==
    ASSUME NEW op \in Commands, NEW old \in Sends(op)
    PROVE /\ old \in ProxyStates
          /\ Failed(op) \in ProxyStates \ {"created", "initialized"}
          /\ Acknowledged(op, old) \in ProxyStates
          /\ Failed(op) = "absent" => old = "absent"
          /\ op \in Stateful => old = "initialized" /\ Acknowledged(op, old) = old
          /\ Acknowledged(op, old) = "absent" => old = "absent"
          /\ Acknowledged(op, old) = "created" => old \in {"absent", "created"}
          /\ Acknowledged(op, old) = "initialized" => old \in {"created", "initialized"}
<1>1. op \in {"create", "initialize", "set", "advance", "read", "terminate", "close"}
  BY DEF Commands, Stateful
<1>2. CASE op = "create"
  <2>1. Sends(op) = {"absent"}
    BY <1>2 DEF Sends, Stateful
  <2>2. Failed(op) = "absent"
    BY <1>2 DEF Failed
  <2>3. Acknowledged(op, old) = "created"
    BY <1>2 DEF Acknowledged, Stateful
  <2>. QED
    BY <1>2, <2>1, <2>2, <2>3 DEF ProxyStates, Stateful
<1>3. CASE op = "initialize"
  <2>1. Sends(op) = {"created"}
    BY <1>3 DEF Sends, Stateful
  <2>2. Failed(op) = "failed"
    BY <1>3 DEF Failed
  <2>3. Acknowledged(op, old) = "initialized"
    BY <1>3 DEF Acknowledged, Stateful
  <2>. QED
    BY <1>3, <2>1, <2>2, <2>3 DEF ProxyStates, Stateful
<1>4. CASE op \in {"set", "advance", "read"}
  <2>1. Sends(op) = {"initialized"}
    BY <1>4 DEF Sends, Stateful
  <2>2. Failed(op) = "failed"
    BY <1>4 DEF Failed
  <2>3. Acknowledged(op, old) = old
    BY <1>4 DEF Acknowledged, Stateful
  <2>. QED
    BY <1>4, <2>1, <2>2, <2>3 DEF ProxyStates, Stateful
<1>5. CASE op = "terminate"
  <2>1. Sends(op) = {"initialized", "failed"}
    BY <1>5 DEF Sends, Stateful
  <2>2. Failed(op) = "failed"
    BY <1>5 DEF Failed
  <2>3. Acknowledged(op, old) = "terminated"
    BY <1>5 DEF Acknowledged, Stateful
  <2>. QED
    BY <1>5, <2>1, <2>2, <2>3 DEF ProxyStates, Stateful
<1>6. CASE op = "close"
  <2>1. Sends(op) = {"created", "initialized", "failed", "terminated"}
    BY <1>6 DEF Sends, Stateful
  <2>2. Failed(op) = "closed"
    BY <1>6 DEF Failed
  <2>3. Acknowledged(op, old) = "closed"
    BY <1>6 DEF Acknowledged, Stateful
  <2>. QED
    BY <1>6, <2>1, <2>2, <2>3 DEF ProxyStates, Stateful
<1>. QED
  BY <1>1, <1>2, <1>3, <1>4, <1>5, <1>6

-----------------------------------------------------------------------------
(* The invariant. *)

\* Nothing has been commanded at first.
LEMMA InitCommands == Init => CommandInv
<1>. SUFFICES ASSUME Init PROVE CommandInv
  OBVIOUS
<1>1. MessagesInv
  BY InitMessages
<1>2. CommandTypes
  BY <1>1 DEF Init, CommandTypes, ProxyStates, MessagesInv
<1>3. CallInv
  BY DEF Init, CallInv, Commands, Nothing, Stateful
<1>4. ASSUME NEW n \in Nodes PROVE NodeInv(n)
  BY DEF Init, NodeInv, PendingOn, AnsweredOn, Usable, Nothing, NoReply, Stateful
<1>. QED
  BY <1>2, <1>3, <1>4 DEF CommandInv

\* What is read off the messages: NoNode is the node of none of the commands.
LEMMA CommandNode ==
    /\ \A r \in Requests : r.op \in Commands => r.node \in Nodes
    /\ \A r \in Replies : r.op \in Commands => r.node \in Nodes
<1>1. \A r \in Requests : r.op \in Commands => r.node \in Nodes
  BY DEF Requests, Nothing, Hello, Commands, Stateful
<1>. QED
  BY <1>1 DEF Replies, Reply

\* No message is a message without a command.
LEMMA NoMessage ==
    /\ Nothing \in Requests /\ NoReply \in Replies
    /\ Nothing.op \notin Commands /\ NoReply.op \notin Commands /\ Hello.op \notin Commands
    /\ Nothing # Hello /\ ~NoReply.ok
<1>1. Nothing \in Requests /\ Reply(Nothing, FALSE) = NoReply
  BY DEF Requests, Nothing, Reply, NoReply
<1>2. NoReply \in Replies
  BY <1>1, ReplyType
<1>. QED
  BY <1>1, <1>2 DEF Nothing, NoReply, Hello, Commands, Stateful

\* A call ends in an exception: the proxy that waited is of no more use.
LEMMA FailsStep ==
    ASSUME Inv, CallFails, UNCHANGED <<executed, srv, hand, req>>,
           resp' \in {resp, NoReply}, call # Nothing
    PROVE CommandInv' /\ \A n \in Nodes : [Commanded(n)!Next]_(Commanded(n)!view)
<1>. USE DEF Inv, CommandInv
<1>1. CASE call = Hello
  <2>1. CommandTypes' /\ CallInv'
    BY <1>1, NoMessage DEF CallFails, CommandTypes, CallInv
  <2>2. ASSUME NEW n \in Nodes PROVE NodeInv(n)' /\ UNCHANGED Commanded(n)!view
    BY <1>1, <2>2, NoMessage
    DEF CallFails, NodeInv, PendingOn, AnsweredOn, Usable, Commands, Commanded!view
  <2>. QED
    BY <2>1, <2>2
<1>2. CASE call # Hello
  <2>. DEFINE m == call.node
              op == call.op
  <2>1. op \in Commands /\ m \in Nodes
    BY <1>2 DEF MessagesInv, Requests
  <2>2. proxy[m] \in Sends(op)
    BY <2>1 DEF CallInv
  <2>3. /\ proxy' = [proxy EXCEPT ![m] = Failed(op)]
        /\ acked' = acked /\ call' = Nothing
    BY <1>2 DEF CallFails
  <2>4. /\ Failed(op) \in ProxyStates \ {"created", "initialized"}
        /\ Failed(op) = "absent" => proxy[m] = "absent"
        /\ op \in Stateful => proxy[m] = "initialized"
    BY <2>1, <2>2, ProxyStep
  <2>5. CommandTypes' /\ CallInv'
    BY <2>1, <2>3, <2>4, NoMessage DEF CommandTypes, CallInv
  <2>6. ASSUME NEW n \in Nodes
        PROVE NodeInv(n)' /\ [Commanded(n)!Next]_(Commanded(n)!view)
    <3>1. /\ executed'[n] = executed[n] /\ acked'[n] = acked[n]
          /\ proxy'[n] = IF n = m THEN Failed(op) ELSE proxy[n]
      BY <2>1, <2>3 DEF CommandTypes
    <3>2. (PendingOn(n)' <=> PendingOn(n)) /\ (AnsweredOn(n)' => AnsweredOn(n))
      BY NoMessage DEF PendingOn, AnsweredOn
    <3>3. NodeInv(n)'
      BY <2>3, <2>4, <3>1, <3>2 DEF NodeInv, Usable
    <3>4. [Commanded(n)!Next]_(Commanded(n)!view)
      BY <2>4, <3>1 DEF Commanded!Next, Commanded!Fail, Commanded!view
    <3>. QED
      BY <3>3, <3>4
  <2>. QED
    BY <2>5, <2>6
<1>. QED
  BY <1>1, <1>2

\* A step that moves messages only: it commands nothing and answers nothing new.
LEMMA QuietStep ==
    ASSUME CommandInv, UNCHANGED <<executed, acked, proxy, call, sock>>,
           resp' \in Replies, srv' \in {"execute", "reply"} => req' = Nothing,
           \A n \in Nodes : /\ PendingOn(n)' => PendingOn(n)
                            /\ AnsweredOn(n)' => AnsweredOn(n)
    PROVE CommandInv' /\ \A n \in Nodes : [Commanded(n)!Next]_(Commanded(n)!view)
<1>1. CommandTypes' /\ CallInv'
  BY DEF CommandInv, CommandTypes, CallInv
<1>2. ASSUME NEW n \in Nodes PROVE NodeInv(n)' /\ UNCHANGED Commanded(n)!view
  BY <1>2 DEF CommandInv, NodeInv, Usable, Commanded!view
<1>. QED
  BY <1>1, <1>2 DEF CommandInv

\* The runtime is asked to carry a command out: the node had none outstanding.
LEMMA ExecuteStep ==
    ASSUME Inv, NEW ok \in BOOLEAN, Execute(ok)
    PROVE CommandInv' /\ \A n \in Nodes : [Commanded(n)!Next]_(Commanded(n)!view)
<1>. USE DEF Inv
<1>1. /\ srv = "execute" /\ srv' = "reply"
      /\ UNCHANGED <<sock, call, proxy, acked, req, resp>>
  BY DEF Execute, clientVars, wireVars
<1>2. /\ req = Nothing /\ hand \in Replies
      /\ \E b \in BOOLEAN : hand' = [hand EXCEPT !.ok = b]
  BY <1>1 DEF Execute, CommandInv, CallInv, MessagesInv
<1>3. hand' \in Replies /\ hand'.op = hand.op /\ hand'.node = hand.node
  BY <1>2, AnswerKept
<1>. DEFINE m == hand.node
            op == hand.op
            run == registry[m] \in Accepts(op) /\ ~(op = "terminate" /\ registry[m] = "terminated")
<1>4. CASE m = NoNode
  <2>1. executed' = executed
    BY <1>4 DEF Execute, serviceVars
  <2>2. op \notin Commands
    BY <1>2, <1>4, CommandNode, NoNodeAssumption
  <2>3. \A n \in Nodes : ~PendingOn(n)' /\ (AnsweredOn(n)' => AnsweredOn(n))
    BY <1>1, <1>2, <1>3, <2>2, NoMessage DEF PendingOn, AnsweredOn, Commands
  <2>. QED
    BY <1>1, <1>2, <2>1, <2>3, QuietStep DEF CommandInv, CommandTypes
<1>5. CASE m # NoNode /\ ~(op \in Stateful /\ run)
  <2>1. executed' = executed
    BY <1>5 DEF Execute
  <2>2. op \in Stateful => hand'.ok = FALSE
    BY <1>5, <1>2 DEF Execute, Stateful, Replies, Reply
  <2>3. \A n \in Nodes : ~PendingOn(n)' /\ (AnsweredOn(n)' => AnsweredOn(n))
    BY <1>1, <1>2, <1>3, <2>2, NoMessage DEF PendingOn, AnsweredOn, Commands
  <2>. QED
    BY <1>1, <1>2, <2>1, <2>3, QuietStep DEF CommandInv, CommandTypes
<1>6. CASE m # NoNode /\ op \in Stateful /\ run
  <2>1. m \in Nodes
    BY <1>2, <1>6, CommandNode DEF Commands
  <2>2. executed' = [executed EXCEPT ![m] = @ + 1]
    BY <1>6 DEF Execute
  <2>3. CommandTypes' /\ CallInv'
    BY <1>1, <1>2, <2>1, <2>2 DEF CommandInv, CommandTypes, CallInv
  <2>4. ASSUME NEW n \in Nodes
        PROVE NodeInv(n)' /\ [Commanded(n)!Next]_(Commanded(n)!view)
    <3>1. ~PendingOn(n)'
      BY <1>1, <1>2, NoMessage DEF PendingOn, Commands
    <3>2. CASE n = m
      <4>1. PendingOn(n) /\ executed'[n] = executed[n] + 1 /\ acked'[n] = acked[n]
        BY <1>1, <1>6, <2>1, <2>2, <3>2 DEF PendingOn, CommandInv, CommandTypes
      <4>2. executed[n] = acked[n] /\ proxy[n] \notin {"absent", "created"}
        BY <4>1 DEF CommandInv, NodeInv
      <4>3. Usable(n) => sock = "open" /\ call.op \in Stateful /\ call.node = n
        BY <4>1 DEF CommandInv, NodeInv
      <4>4. NodeInv(n)'
        BY <1>1, <3>1, <4>1, <4>2, <4>3 DEF NodeInv, Usable, CommandInv, CommandTypes
      <4>5. Commanded(n)!Next
        BY <1>1, <4>1, <4>2 DEF Commanded!Next, Commanded!Perform
      <4>. QED
        BY <4>4, <4>5
    <3>3. CASE n # m
      <4>1. executed'[n] = executed[n] /\ (AnsweredOn(n)' => AnsweredOn(n))
        BY <1>1, <1>3, <2>1, <2>2, <3>3 DEF AnsweredOn, CommandInv, CommandTypes
      <4>2. NodeInv(n)'
        BY <1>1, <3>1, <4>1 DEF NodeInv, Usable, CommandInv
      <4>. QED
        BY <1>1, <4>1, <4>2 DEF Commanded!view
    <3>. QED
      BY <3>2, <3>3
  <2>. QED
    BY <2>3, <2>4 DEF CommandInv
<1>. QED
  BY <1>4, <1>5, <1>6

\* A response acknowledges the call: a stateful command was carried out once.
LEMMA ReturnsStep ==
    ASSUME Inv, CallReturns, UNCHANGED <<executed, srv, hand, req, sock>>,
           call # Nothing, resp = Reply(call, TRUE), resp' = NoReply
    PROVE CommandInv' /\ \A n \in Nodes : [Commanded(n)!Next]_(Commanded(n)!view)
<1>. USE DEF Inv
<1>. DEFINE m == call.node
            op == call.op
<1>1. resp.op = op /\ resp.node = m /\ resp.ok /\ resp # NoReply
  BY NoMessage DEF Reply
<1>2. req = Nothing /\ srv \notin {"execute", "reply"}
  BY <1>1 DEF WireInv
<1>3. \A n \in Nodes : ~PendingOn(n)' /\ ~AnsweredOn(n)'
  BY <1>2, NoMessage DEF PendingOn, AnsweredOn, Commands
<1>4. CASE call = Hello
  <2>1. UNCHANGED <<executed, acked, proxy>>
    BY <1>4 DEF CallReturns, Hello, Stateful
  <2>2. CommandTypes' /\ CallInv'
    BY <1>2, <2>1, NoMessage DEF CallReturns, CommandInv, CommandTypes, CallInv
  <2>3. ASSUME NEW n \in Nodes PROVE NodeInv(n)' /\ UNCHANGED Commanded(n)!view
    BY <1>3, <1>4, <2>1, <2>3, NoMessage
    DEF CommandInv, NodeInv, Usable, Commands, Commanded!view
  <2>. QED
    BY <2>2, <2>3 DEF CommandInv
<1>5. CASE call # Hello
  <2>1. op \in Commands /\ m \in Nodes
    BY <1>5 DEF MessagesInv, Requests
  <2>2. proxy[m] \in Sends(op)
    BY <2>1 DEF CommandInv, CallInv
  <2>3. /\ proxy' = [proxy EXCEPT ![m] = Acknowledged(op, proxy[m])]
        /\ acked' = IF op \in Stateful THEN [acked EXCEPT ![m] = @ + 1] ELSE acked
        /\ call' = Nothing
    BY <1>5 DEF CallReturns
  <2>. DEFINE old == proxy[m]
              new == Acknowledged(op, old)
  <2>4. /\ new \in ProxyStates
        /\ op \in Stateful => old = "initialized" /\ new = old
        /\ new = "absent" => old = "absent"
        /\ new = "created" => old \in {"absent", "created"}
        /\ new = "initialized" => old \in {"created", "initialized"}
    BY <2>1, <2>2, ProxyStep
  <2>5. CommandTypes' /\ CallInv'
    BY <1>2, <2>1, <2>3, <2>4, NoMessage DEF CommandInv, CommandTypes, CallInv
  <2>6. ASSUME NEW n \in Nodes
        PROVE NodeInv(n)' /\ [Commanded(n)!Next]_(Commanded(n)!view)
    <3>0. NodeInv(n) /\ executed'[n] = executed[n] /\ executed[n] \in Nat /\ acked[n] \in Nat
      BY DEF CommandInv, CommandTypes
    <3>1. CASE n # m
      <4>1. acked'[n] = acked[n] /\ proxy'[n] = proxy[n]
        BY <2>1, <2>3, <3>1 DEF CommandInv, CommandTypes
      <4>. QED
        BY <1>3, <3>0, <3>1, <4>1 DEF NodeInv, Usable, Commanded!view
    <3>2. CASE n = m /\ op \in Stateful
      <4>1. acked'[n] = acked[n] + 1 /\ proxy'[n] = proxy[n] /\ proxy[n] = "initialized"
        BY <2>1, <2>3, <2>4, <3>2 DEF CommandInv, CommandTypes
      <4>2. AnsweredOn(n)
        BY <1>1, <3>2 DEF AnsweredOn
      <4>3. executed[n] = acked[n] + 1
        BY <3>0, <4>2 DEF NodeInv
      <4>4. NodeInv(n)'
        BY <1>3, <3>0, <4>1, <4>3 DEF NodeInv
      <4>5. Commanded(n)!Next
        BY <3>0, <4>1, <4>3 DEF Commanded!Next, Commanded!Acknowledge
      <4>. QED
        BY <4>4, <4>5
    <3>3. CASE n = m /\ op \notin Stateful
      <4>1. acked'[n] = acked[n] /\ proxy'[n] = new
        BY <2>1, <2>3, <3>3 DEF CommandInv, CommandTypes
      <4>2. Usable(n) => executed[n] = acked[n]
        BY <3>0, <3>3 DEF NodeInv
      <4>3. Usable(n)' => Usable(n) \/ proxy[n] = "absent"
        BY <2>4, <3>3, <4>1 DEF Usable
      <4>4. NodeInv(n)'
        BY <1>3, <2>4, <3>0, <3>3, <4>1, <4>2, <4>3 DEF NodeInv
      <4>5. CASE Usable(n)' <=> Usable(n)
        BY <3>0, <4>1, <4>4, <4>5 DEF Usable, Commanded!view
      <4>6. CASE Usable(n)' /\ ~Usable(n)
        <5>1. executed[n] = 0
          BY <3>0, <4>3, <4>6 DEF NodeInv
        <5>2. Commanded(n)!Open
          BY <3>0, <4>1, <4>6, <5>1 DEF Usable, Commanded!Open
        <5>. QED
          BY <4>4, <5>2 DEF Commanded!Next
      <4>7. CASE ~Usable(n)' /\ Usable(n)
        <5>1. Commanded(n)!Fail
          BY <3>0, <4>1, <4>7 DEF Usable, Commanded!Fail
        <5>. QED
          BY <4>4, <5>1 DEF Commanded!Next
      <4>. QED
        BY <4>5, <4>6, <4>7
    <3>. QED
      BY <3>1, <3>2, <3>3
  <2>. QED
    BY <2>5, <2>6 DEF CommandInv
<1>. QED
  BY <1>4, <1>5

-----------------------------------------------------------------------------
(* Every step. *)

\* A call on n ends in an exception at once.
LEMMA FailedProxy ==
    ASSUME CommandInv, NEW n \in Nodes, NEW op \in Commands, proxy[n] \in Sends(op),
           call = Nothing, proxy' = [proxy EXCEPT ![n] = Failed(op)],
           UNCHANGED <<executed, acked, call, req, srv, hand>>, resp' \in {resp, NoReply}
    PROVE CommandInv' /\ \A k \in Nodes : [Commanded(k)!Next]_(Commanded(k)!view)
<1>1. /\ Failed(op) \in ProxyStates \ {"created", "initialized"}
      /\ Failed(op) = "absent" => proxy[n] = "absent"
      /\ op \in Stateful => proxy[n] = "initialized"
  BY ProxyStep
<1>2. CommandTypes' /\ CallInv'
  BY <1>1, NoMessage DEF CommandInv, CommandTypes, CallInv
<1>3. ASSUME NEW k \in Nodes
      PROVE NodeInv(k)' /\ [Commanded(k)!Next]_(Commanded(k)!view)
  <2>1. /\ executed'[k] = executed[k] /\ acked'[k] = acked[k]
        /\ proxy'[k] = IF k = n THEN Failed(op) ELSE proxy[k]
    BY DEF CommandInv, CommandTypes
  <2>2. (PendingOn(k)' <=> PendingOn(k)) /\ (AnsweredOn(k)' => AnsweredOn(k))
    BY NoMessage DEF PendingOn, AnsweredOn
  <2>3. call.op \notin Stateful
    BY NoMessage DEF Commands
  <2>4. NodeInv(k)'
    BY <1>1, <2>1, <2>2, <2>3 DEF CommandInv, NodeInv, Usable
  <2>5. [Commanded(k)!Next]_(Commanded(k)!view)
    BY <1>1, <2>1 DEF Commanded!Next, Commanded!Fail, Commanded!view
  <2>. QED
    BY <2>4, <2>5
<1>. QED
  BY <1>2, <1>3 DEF CommandInv

\* A command is sent on a proxy that has none outstanding, or fails at once.
LEMMA IssueStep ==
    ASSUME Inv, NEW n \in Nodes, NEW op \in Commands, Issue(op, n)
    PROVE CommandInv' /\ \A k \in Nodes : [Commanded(k)!Next]_(Commanded(k)!view)
<1>. USE DEF Inv
<1>1. /\ call = Nothing /\ proxy[n] \in Sends(op)
      /\ UNCHANGED <<executed, acked, sock, resp, srv, hand>>
  BY DEF Issue, serviceVars, serverVars
<1>2. \A k \in Nodes : Usable(k) => ~PendingOn(k) /\ executed[k] = acked[k]
  BY <1>1, NoMessage DEF CommandInv, NodeInv, Commands
<1>3. CASE sock = "open"
  <2>1. /\ call' = [op |-> op, node |-> n] /\ req' \in {call', req}
        /\ UNCHANGED proxy
    BY <1>3 DEF Issue
  <2>2. srv \notin {"execute", "reply"}
    BY <1>1, <1>3 DEF WireInv
  <2>3. CommandTypes' /\ CallInv'
    BY <1>1, <2>1, <2>2 DEF CommandInv, CommandTypes, CallInv
  <2>4. op \in Stateful => proxy[n] = "initialized"
    BY <1>1, ProxyStep
  <2>5. ASSUME NEW k \in Nodes PROVE NodeInv(k)' /\ UNCHANGED Commanded(k)!view
    <3>1. UNCHANGED <<executed[k], acked[k], Usable(k), AnsweredOn(k)>>
      BY <1>1, <2>1 DEF Usable, AnsweredOn
    <3>2. PendingOn(k)' => PendingOn(k) \/ (k = n /\ op \in Stateful)
      BY <1>1, <2>1 DEF PendingOn
    <3>3. CASE k = n /\ op \in Stateful
      BY <1>1, <1>2, <1>3, <2>1, <2>4, <3>1, <3>3
      DEF NodeInv, CommandInv, Usable, Commanded!view
    <3>4. CASE ~(k = n /\ op \in Stateful)
      BY <1>1, <1>2, <2>1, <3>1, <3>2, <3>4
      DEF NodeInv, CommandInv, Usable, Commanded!view
    <3>. QED
      BY <3>3, <3>4
  <2>. QED
    BY <2>3, <2>5 DEF CommandInv
<1>4. CASE sock # "open"
  <2>1. proxy' = [proxy EXCEPT ![n] = Failed(op)] /\ UNCHANGED <<call, req>>
    BY <1>4 DEF Issue
  <2>. QED
    BY <1>1, <1>2, <2>1, FailedProxy
<1>. QED
  BY <1>3, <1>4

\* Every step keeps the invariant and is, for every node, a step of its machine.
LEMMA CommandStep ==
    ASSUME Inv, [Next]_vars
    PROVE CommandInv' /\ \A n \in Nodes : [Commanded(n)!Next]_(Commanded(n)!view)
<1>. DEFINE Goal == CommandInv' /\ \A n \in Nodes : [Commanded(n)!Next]_(Commanded(n)!view)
<1>. USE DEF Inv
<1>1. CASE Connect
  <2>1. UNCHANGED <<executed, acked, proxy, resp, srv, hand>>
    BY <1>1 DEF Connect, serviceVars, serverVars
  <2>2. /\ call = Nothing /\ call' \in {Nothing, Hello}
        /\ req = Nothing /\ req' \in {Nothing, Hello} /\ srv \notin {"execute", "reply"}
    BY <1>1 DEF Connect, WireInv, Unconnected
  <2>3. CommandTypes' /\ CallInv'
    BY <2>1, <2>2, NoMessage DEF CommandInv, CommandTypes, CallInv
  <2>4. ASSUME NEW n \in Nodes PROVE NodeInv(n)' /\ UNCHANGED Commanded(n)!view
    BY <2>1, <2>2, NoMessage
    DEF CommandInv, NodeInv, PendingOn, AnsweredOn, Usable, Commands, Commanded!view
  <2>. QED
    BY <2>3, <2>4 DEF CommandInv
<1>2. CASE Disconnect
  <2>1. UNCHANGED <<executed, acked, proxy, call, req, srv, hand>> /\ resp' = NoReply
    BY <1>2 DEF Disconnect, serviceVars, serverVars
  <2>2. call = Nothing
    BY <1>2 DEF Disconnect
  <2>3. CommandTypes' /\ CallInv'
    BY <2>1, NoMessage DEF CommandInv, CommandTypes, CallInv
  <2>4. ASSUME NEW n \in Nodes PROVE NodeInv(n)' /\ UNCHANGED Commanded(n)!view
    BY <2>1, <2>2, NoMessage
    DEF CommandInv, NodeInv, PendingOn, AnsweredOn, Usable, Commands, Commanded!view
  <2>. QED
    BY <2>3, <2>4 DEF CommandInv
<1>3. CASE Timeout
  BY <1>3, FailsStep DEF Timeout, serviceVars, serverVars
<1>4. CASE ConnectionLost
  BY <1>4, FailsStep DEF ConnectionLost, serviceVars, serverVars
<1>5. CASE Receive
  <2>1. CASE resp = Reply(call, TRUE)
    BY <1>5, <2>1, ReturnsStep DEF Receive, serviceVars, serverVars
  <2>2. CASE resp # Reply(call, TRUE)
    BY <1>5, <2>2, FailsStep DEF Receive, serviceVars, serverVars
  <2>. QED
    BY <2>1, <2>2
<1>6. ASSUME NEW n \in Nodes, NEW op \in Commands, Issue(op, n) PROVE Goal
  BY <1>6, IssueStep
<1>7. ASSUME NEW n \in Nodes, FrameTooLarge(n) PROVE Goal
  <2>1. "set" \in Commands
    BY DEF Commands, Stateful
  <2>. QED
    BY <1>7, <2>1, FailedProxy DEF FrameTooLarge, serviceVars, serverVars
<1>8. CASE LoopTop \/ Accept \/ Register
  <2>1. /\ UNCHANGED <<executed, acked, proxy, call, sock, resp, req>>
        /\ srv' \notin {"execute", "reply"}
    BY <1>8 DEF LoopTop, Accept, Register, serviceVars, clientVars, wireVars
  <2>. QED
    BY <2>1, QuietStep DEF CommandInv, CommandTypes, PendingOn, AnsweredOn
<1>9. CASE ReceiveRequest
  <2>1. /\ UNCHANGED <<executed, acked, proxy, call, sock, resp>>
        /\ srv' # "reply" /\ (srv' = "execute" => req' = Nothing)
    BY <1>9 DEF ReceiveRequest, serviceVars, clientVars
  <2>2. \A n \in Nodes : PendingOn(n)' => PendingOn(n)
    BY <1>9, NoMessage DEF ReceiveRequest, Reply, PendingOn, Commands
  <2>. QED
    BY <2>1, <2>2, QuietStep DEF CommandInv, CommandTypes, AnsweredOn
<1>10. ASSUME NEW ok \in BOOLEAN, Execute(ok) PROVE Goal
  BY <1>10, ExecuteStep
<1>11. CASE SendResponse
  <2>1. /\ UNCHANGED <<executed, acked, proxy, call, sock, req>>
        /\ srv = "reply" /\ srv' \notin {"execute", "reply"} /\ resp' \in {hand, resp}
    BY <1>11 DEF SendResponse, serviceVars, clientVars
  <2>2. resp' \in Replies
    BY <2>1 DEF CommandInv, CommandTypes, MessagesInv
  <2>3. \A n \in Nodes : (PendingOn(n)' => PendingOn(n)) /\ (AnsweredOn(n)' => AnsweredOn(n))
    BY <2>1 DEF PendingOn, AnsweredOn
  <2>. QED
    BY <2>1, <2>2, <2>3, QuietStep DEF CommandInv
<1>12. CASE (\E n \in Nodes : ShutdownRuntime(n)) \/ SessionOver \/ Release \/ Exit
  <2>1. /\ UNCHANGED <<executed, acked, proxy, call, sock, resp, req>>
        /\ srv' \notin {"execute", "reply"}
    BY <1>12 DEF ShutdownRuntime, SessionOver, Release, Exit, serviceVars, serverVars,
                 clientVars, wireVars
  <2>. QED
    BY <2>1, QuietStep DEF CommandInv, CommandTypes, PendingOn, AnsweredOn
<1>13. CASE Watcher \/ StdinEof \/ UNCHANGED vars
  <2>1. UNCHANGED <<executed, acked, proxy, call, sock, resp, req, srv, hand>>
    BY <1>13 DEF Watcher, SetStop, TakeSockets, CloseSockets, StdinEof, serviceVars,
                 serverVars, clientVars, wireVars, vars
  <2>. QED
    BY <2>1, QuietStep DEF CommandInv, CommandTypes, CallInv, PendingOn, AnsweredOn
<1>14. CASE Crash
  <2>1. /\ UNCHANGED <<executed, acked, proxy, call, sock, req>>
        /\ srv' = "crashed" /\ resp' \in {resp, NoReply}
    BY <1>14 DEF Crash, serviceVars, clientVars
  <2>. QED
    BY <2>1, QuietStep, NoMessage DEF CommandInv, CommandTypes, PendingOn, AnsweredOn
<1>. QED
  BY <1>1, <1>2, <1>3, <1>4, <1>5, <1>6, <1>7, <1>8, <1>9, <1>10, <1>11, <1>12,
     <1>13, <1>14 DEF Next, Client, Awaits, Server

\* Stateful commands are carried out at most once each and never replayed: a
\* session implements AtMostOnce for each of its nodes, whatever is lost or late.
THEOREM Refinement == Spec => NeverReplayed
<1>1. Init => \A n \in Nodes : Commanded(n)!Init
  <2>. SUFFICES ASSUME Init, NEW n \in Nodes PROVE Commanded(n)!Init
    OBVIOUS
  <2>. QED
    BY DEF Init, Commanded!Init
<1>2. Inv /\ [Next]_vars =>
          CommandInv' /\ \A n \in Nodes : [Commanded(n)!Next]_(Commanded(n)!view)
  BY CommandStep
<1>3. Init => Inv
  BY InitMessages, InitWire, InitCommands DEF Inv
<1>4. Inv /\ [Next]_vars => Inv'
  BY <1>2, MessagesStep, WireStep DEF Inv
<1>. QED
  BY <1>1, <1>2, <1>3, <1>4, PTL DEF Spec, NeverReplayed

-----------------------------------------------------------------------------
(* The proxies and the worker's records in step. *)

\* The two state machines agree on a node: the record is that of the proxy, a
\* closed one is gone, and every command carried out was acknowledged.
Mirror(p) == IF p = "closed" THEN "absent" ELSE p
Settled(n) ==
    /\ registry[n] = Mirror(proxy[n])
    /\ proxy[n] = "initialized" => executed[n] = acked[n]

\* They will agree on it once the proxy has read the answer.
Owed(op) == IF op \in Stateful THEN 1 ELSE 0
Answered(n, op, ok) ==
    IF ok THEN /\ registry[n] = Mirror(Acknowledged(op, proxy[n]))
               /\ Acknowledged(op, proxy[n]) = "initialized" =>
                     executed[n] = acked[n] + Owed(op)
    ELSE registry[n] = Mirror(Failed(op))

\* The server has the connection, or is yet to have it.
Serving == srv \in {"receive", "execute", "reply"}
Arriving == srv = "accepted" \/ conn = "backlog"

\* What waits at the server finds its record as it needs it, also when the client
\* has given up waiting; a session begins with HELLO, before any proxy has a
\* runtime; and while it lasts every node is settled but the one of the call.
RequestOK ==
    /\ srv = "receive" /\ req.op \in Commands => registry[req.node] \in Accepts(req.op)
    /\ srv = "execute" /\ hand.op \in Commands => registry[hand.node] \in Accepts(hand.op)
ArrivalOK ==
    /\ conn = "backlog" => srv \in Unconnected
    /\ Arriving =>
          /\ resp = NoReply /\ req.op \notin Commands
          /\ sock = "open" => call = Hello
    /\ sock = "idle" \/ (sock = "open" /\ Arriving) => \A n \in Nodes : proxy[n] = "absent"
ServiceOK ==
    sock = "open" /\ Serving =>
       /\ \A n \in Nodes \ {call.node} : Settled(n)
       /\ call.op \in Commands =>
             /\ req = call \/ srv = "execute" => Settled(call.node)
             /\ srv = "reply" => Answered(call.node, call.op, hand.ok)
             /\ resp # NoReply => Answered(call.node, call.op, resp.ok)
SyncInv == RequestOK /\ ArrivalOK /\ ServiceOK

\* A proxy that sends a command finds its record ready for it, and the command
\* changes both sides alike, whether it returned or raised.
LEMMA CommandEffects ==
    ASSUME NEW op \in Commands, NEW old \in Sends(op), NEW reg, reg = Mirror(old)
    PROVE  /\ reg \in Accepts(op) /\ ~(op = "terminate" /\ reg = "terminated")
           /\ After(op, reg, TRUE) = Mirror(Acknowledged(op, old))
           /\ After(op, reg, FALSE) = Mirror(Failed(op))
           /\ Failed(op) # "initialized"
           /\ Acknowledged(op, old) = "initialized" =>
                 old = "initialized" \/ (old = "created" /\ op = "initialize")
<1>1. op \in {"create", "initialize", "set", "advance", "read", "terminate", "close"}
  BY DEF Commands, Stateful
<1>2. CASE op = "create"
  <2>1. Sends(op) = {"absent"} /\ Accepts(op) = {"absent"}
    BY <1>2 DEF Sends, Accepts, Stateful
  <2>2. Failed(op) = "absent"
    BY <1>2 DEF Failed
  <2>3. Acknowledged(op, old) = "created"
    BY <1>2 DEF Acknowledged, Stateful
  <2>. QED
    BY <1>2, <2>1, <2>2, <2>3 DEF Mirror, After
<1>3. CASE op = "initialize"
  <2>1. Sends(op) = {"created"}
    BY <1>3 DEF Sends, Stateful
  <2>2. Accepts(op) = {"created"}
    BY <1>3 DEF Accepts, Stateful
  <2>3. Failed(op) = "failed"
    BY <1>3 DEF Failed
  <2>4. Acknowledged(op, old) = "initialized"
    BY <1>3 DEF Acknowledged, Stateful
  <2>5. Carried(op, reg) = "initialized"
    BY <1>3 DEF Carried
  <2>. QED
    BY <1>3, <2>1, <2>2, <2>3, <2>4, <2>5 DEF Mirror, After
<1>4. CASE op \in {"set", "advance", "read"}
  <2>1. Sends(op) = {"initialized"}
    BY <1>4 DEF Sends, Stateful
  <2>2. Accepts(op) = {"initialized"}
    BY <1>4 DEF Accepts, Stateful
  <2>3. Failed(op) = "failed"
    BY <1>4 DEF Failed
  <2>4. Acknowledged(op, old) = old
    BY <1>4 DEF Acknowledged, Stateful
  <2>5. Carried(op, reg) = reg
    BY <1>4 DEF Carried
  <2>. QED
    BY <1>4, <2>1, <2>2, <2>3, <2>4, <2>5 DEF Mirror, After
<1>5. CASE op = "terminate"
  <2>1. Sends(op) = {"initialized", "failed"}
    BY <1>5 DEF Sends, Stateful
  <2>2. Accepts(op) = RecordStates \ {"absent"}
    BY <1>5 DEF Accepts, Stateful
  <2>3. Failed(op) = "failed"
    BY <1>5 DEF Failed
  <2>4. Acknowledged(op, old) = "terminated"
    BY <1>5 DEF Acknowledged, Stateful
  <2>5. Carried(op, reg) = "terminated"
    BY <1>5 DEF Carried
  <2>. QED
    BY <1>5, <2>1, <2>2, <2>3, <2>4, <2>5 DEF Mirror, After, RecordStates
<1>6. CASE op = "close"
  <2>1. Sends(op) = {"created", "initialized", "failed", "terminated"}
    BY <1>6 DEF Sends, Stateful
  <2>2. Accepts(op) = RecordStates \ {"absent"}
    BY <1>6 DEF Accepts, Stateful
  <2>3. Failed(op) = "closed"
    BY <1>6 DEF Failed
  <2>4. Acknowledged(op, old) = "closed"
    BY <1>6 DEF Acknowledged, Stateful
  <2>. QED
    BY <1>6, <2>1, <2>2, <2>3, <2>4 DEF Mirror, After, RecordStates
<1>. QED
  BY <1>1, <1>2, <1>3, <1>4, <1>5, <1>6

\* Before the session no proxy has a runtime.
LEMMA InitSync == Init => SyncInv
BY NoMessage DEF Init, SyncInv, RequestOK, ArrivalOK, ServiceOK, Arriving, Serving, Unconnected

AllInv == Inv /\ RegistryInv /\ SyncInv

\* The command is carried out from the state its record must have, and the record
\* goes where the answer will take the proxy.
LEMMA ExecuteSync ==
    ASSUME AllInv, NEW ok \in BOOLEAN, Execute(ok)
    PROVE  SyncInv'
<1>. USE DEF AllInv, Inv
<1>1. /\ srv = "execute" /\ srv' = "reply"
      /\ UNCHANGED <<sock, call, proxy, acked, req, resp, conn>>
  BY DEF Execute, clientVars, wireVars
<1>2. \E b \in BOOLEAN : hand' = [hand EXCEPT !.ok = b]
  BY DEF Execute
<1>3. /\ hand \in Replies /\ hand' \in Replies
      /\ hand'.op = hand.op /\ hand'.node = hand.node
  BY <1>2, AnswerKept DEF MessagesInv
<1>. DEFINE m == hand.node  op == hand.op
<1>4. RequestOK' /\ ArrivalOK'
  <2>1. ~Arriving /\ ~Arriving'
    BY <1>1 DEF SyncInv, ArrivalOK, Arriving, Unconnected
  <2>. QED
    BY <1>1, <2>1 DEF SyncInv, RequestOK, ArrivalOK, Arriving
<1>5. CASE sock # "open"
  BY <1>1, <1>4, <1>5 DEF SyncInv, ServiceOK
<1>6. CASE sock = "open"
  <2>1. op = call.op /\ m = call.node /\ call # Nothing /\ resp = NoReply /\ req = Nothing
    BY <1>1, <1>6 DEF WireInv
  <2>2. \A n \in Nodes \ {call.node} : Settled(n)
    BY <1>1, <1>6 DEF SyncInv, ServiceOK, Serving
  <2>3. CASE op \notin Commands
    <3>1. m = NoNode
      BY <1>3, <2>3 DEF Replies, Reply, Requests, Nothing, Hello
    <3>2. UNCHANGED <<registry, executed>>
      BY <3>1 DEF Execute, serviceVars
    <3>3. \A n \in Nodes \ {call'.node} : Settled(n)'
      BY <1>1, <2>2, <3>2 DEF Settled
    <3>. QED
      BY <1>1, <1>4, <2>1, <2>3, <3>3 DEF SyncInv, ServiceOK
  <2>4. CASE op \in Commands
    <3>1. m \in Nodes /\ m # NoNode
      BY <1>3, <2>4, CommandNode, NoNodeAssumption
    <3>2. Settled(m) /\ proxy[m] \in Sends(op)
      BY <1>1, <1>6, <2>1, <2>4 DEF SyncInv, ServiceOK, Serving, CommandInv, CallInv
    <3>3. /\ registry[m] = Mirror(proxy[m])
          /\ registry[m] \in Accepts(op) /\ ~(op = "terminate" /\ registry[m] = "terminated")
          /\ After(op, registry[m], TRUE) = Mirror(Acknowledged(op, proxy[m]))
          /\ After(op, registry[m], FALSE) = Mirror(Failed(op))
          /\ Acknowledged(op, proxy[m]) = "initialized" =>
                proxy[m] = "initialized" \/ (proxy[m] = "created" /\ op = "initialize")
      BY ZenonT(30), <2>4, <3>2, CommandEffects DEF Settled
    <3>4. /\ registry' = [registry EXCEPT ![m] = After(op, registry[m], ok)]
          /\ executed' = IF op \in Stateful THEN [executed EXCEPT ![m] = executed[m] + 1]
                                            ELSE executed
          /\ hand' = [hand EXCEPT !.ok = ok]
      BY <3>1, <3>3 DEF Execute
    <3>5. hand'.ok = ok
      BY <1>3, <3>4 DEF Replies, Reply
    <3>6. registry \in [Nodes -> RecordStates] /\ executed \in [Nodes -> Nat] /\ acked \in [Nodes -> Nat]
      BY DEF RegistryInv, CommandInv, CommandTypes
    <3>7. /\ registry'[m] = After(op, registry[m], ok)
          /\ executed'[m] = executed[m] + Owed(op)
          /\ \A n \in Nodes \ {m} : registry'[n] = registry[n] /\ executed'[n] = executed[n]
      BY <3>1, <3>4, <3>6 DEF Owed
    <3>8. \A n \in Nodes \ {m} : Settled(n)'
      BY <1>1, <2>1, <2>2, <3>7 DEF Settled
    <3>9. Acknowledged(op, proxy[m]) = "initialized" => executed[m] = acked[m]
      BY <3>1, <3>2, <3>3, <3>6 DEF Settled, CommandInv, NodeInv
    <3>10. IF ok THEN /\ registry'[m] = Mirror(Acknowledged(op, proxy[m]))
                      /\ Acknowledged(op, proxy[m]) = "initialized" =>
                            executed'[m] = acked[m] + Owed(op)
           ELSE registry'[m] = Mirror(Failed(op))
      BY <3>3, <3>7, <3>9
    <3>11. Answered(call.node, call.op, hand.ok)'
      BY <1>1, <2>1, <3>5, <3>10 DEF Answered
    <3>. QED
      BY <1>1, <1>3, <1>4, <2>1, <3>8, <3>11 DEF SyncInv, ServiceOK
  <2>. QED
    BY <2>3, <2>4
<1>. QED
  BY <1>5, <1>6

\* The proxy that reads the answer catches up with its record.
LEMMA ReceiveSync == AllInv /\ Receive => SyncInv'
<1>. SUFFICES ASSUME AllInv, Receive PROVE SyncInv'
  OBVIOUS
<1>. USE DEF AllInv, Inv
<1>1. /\ call # Nothing /\ resp # NoReply /\ resp' = NoReply /\ sock = "open" /\ req = Nothing
      /\ resp.op = call.op /\ resp.node = call.node
      /\ UNCHANGED <<req, conn, srv, hand, registry, executed>>
      /\ resp \in Replies /\ call \in Requests
  BY DEF Receive, WireInv, serviceVars, serverVars, CommandInv, CommandTypes, MessagesInv
<1>2. resp.ok \in BOOLEAN /\ resp = Reply(call, resp.ok)
  BY <1>1 DEF Replies, Reply
<1>3. RequestOK' /\ ~Arriving
  BY <1>1 DEF SyncInv, RequestOK, ArrivalOK
<1>4. ArrivalOK'
  BY <1>1, <1>3 DEF SyncInv, ArrivalOK, Arriving, Receive
<1>5. CASE ~(sock' = "open" /\ Serving)
  BY <1>1, <1>3, <1>4, <1>5 DEF SyncInv, ServiceOK, Serving
<1>6. CASE sock' = "open" /\ Serving
  <2>1. call' = Nothing /\ Nothing.node = NoNode
    BY DEF Receive, CallReturns, CallFails, Nothing
  <2>2. \A n \in Nodes \ {call.node} : Settled(n)
    BY <1>1, <1>6 DEF SyncInv, ServiceOK
  <2>3. proxy \in [Nodes -> ProxyStates] /\ acked \in [Nodes -> Nat]
    BY DEF CommandInv, CommandTypes
  <2>4. CASE call = Hello
    <3>1. UNCHANGED <<proxy, acked>> /\ call.node = NoNode
      BY <2>4 DEF Receive, CallReturns, CallFails, Hello, Stateful
    <3>2. \A n \in Nodes : Settled(n)'
      BY <1>1, <2>2, <3>1, NoNodeAssumption DEF Settled
    <3>. QED
      BY <1>1, <1>3, <1>4, <2>1, <3>2, NoMessage DEF SyncInv, ServiceOK
  <2>5. CASE call # Hello
    <3>. DEFINE m == call.node  op == call.op
    <3>1. op \in Commands /\ m \in Nodes
      BY <1>1, <2>5 DEF Requests
    <3>2. Answered(m, op, resp.ok) /\ proxy[m] \in Sends(op)
      BY <1>1, <1>6, <3>1 DEF SyncInv, ServiceOK, CommandInv, CallInv
    <3>3. \A n \in Nodes \ {m} :
             Settled(n) /\ proxy'[n] = proxy[n] /\ acked'[n] = acked[n]
      BY <2>2, <2>3, <2>5, <3>1 DEF Receive, CallReturns, CallFails
    <3>4. CASE resp.ok
      <4>1. CallReturns
        BY <1>1, <1>2, <3>4 DEF Receive
      <4>2. /\ proxy' = [proxy EXCEPT ![m] = Acknowledged(op, proxy[m])]
            /\ acked' = IF op \in Stateful THEN [acked EXCEPT ![m] = acked[m] + 1] ELSE acked
        BY <2>5, <4>1 DEF CallReturns
      <4>3. proxy'[m] = Acknowledged(op, proxy[m]) /\ acked'[m] = acked[m] + Owed(op)
        BY <2>3, <3>1, <4>2 DEF Owed
      <4>4. /\ registry'[m] = Mirror(proxy'[m])
            /\ proxy'[m] = "initialized" => executed'[m] = acked'[m]
        BY <1>1, <3>2, <3>4, <4>3 DEF Answered
      <4>5. \A n \in Nodes : Settled(n)'
        BY <1>1, <3>3, <4>4 DEF Settled
      <4>. QED
        BY <1>1, <1>3, <1>4, <2>1, <4>5, NoMessage DEF SyncInv, ServiceOK
    <3>5. CASE ~resp.ok
      <4>1. resp # Reply(call, TRUE)
        BY <3>5 DEF Reply
      <4>2. proxy' = [proxy EXCEPT ![m] = Failed(op)] /\ acked' = acked
        BY <2>5, <4>1 DEF Receive, CallFails
      <4>3. proxy'[m] = Failed(op) /\ Failed(op) # "initialized"
        BY <2>3, <3>1, <3>2, <4>2, CommandEffects
      <4>4. /\ registry'[m] = Mirror(proxy'[m])
            /\ proxy'[m] = "initialized" => executed'[m] = acked'[m]
        BY <1>1, <3>2, <3>5, <4>3 DEF Answered
      <4>5. \A n \in Nodes : Settled(n)'
        BY <1>1, <3>3, <4>4 DEF Settled
      <4>. QED
        BY <1>1, <1>3, <1>4, <2>1, <4>5, NoMessage DEF SyncInv, ServiceOK
    <3>. QED
      BY <3>4, <3>5
  <2>. QED
    BY <2>4, <2>5
<1>. QED
  BY <1>5, <1>6

\* A proxy calls when every node is settled.
LEMMA IssueSync ==
    ASSUME AllInv, NEW op \in Commands, NEW n \in Nodes, Issue(op, n)
    PROVE  SyncInv'
<1>. USE DEF AllInv, Inv
<1>1. /\ call = Nothing /\ sock # "idle" /\ proxy[n] \in Sends(op)
      /\ UNCHANGED <<sock, acked, resp, conn, srv, hand, registry, executed>>
      /\ Nothing.node = NoNode /\ NoNode \notin Nodes
  BY NoNodeAssumption DEF Issue, serviceVars, serverVars, Nothing
<1>2. CASE sock # "open"
  <2>1. UNCHANGED <<call, req>>
    BY <1>2 DEF Issue
  <2>. QED
    BY <1>1, <1>2, <2>1 DEF SyncInv, RequestOK, ArrivalOK, ServiceOK, Arriving
<1>3. CASE sock = "open"
  <2>1. /\ call' = [op |-> op, node |-> n] /\ proxy' = proxy
        /\ req' = IF conn = "open" THEN call' ELSE req
        /\ req = Nothing /\ resp = NoReply /\ srv \notin {"execute", "reply"}
    BY <1>1, <1>3 DEF Issue, WireInv
  <2>2. ~Arriving /\ ~Arriving'
    BY <1>1, <1>3 DEF SyncInv, ArrivalOK, Arriving, Hello, Nothing
  <2>3. ArrivalOK'
    BY <1>1, <1>3, <2>2 DEF SyncInv, ArrivalOK, Arriving
  <2>4. Serving => \A k \in Nodes : Settled(k) /\ Settled(k)'
    BY <1>1, <1>3, <2>1 DEF SyncInv, ServiceOK, Settled
  <2>5. srv = "receive" => registry[n] \in Accepts(op)
    BY <1>1, <2>4, CommandEffects DEF Settled, Serving
  <2>6. RequestOK'
    BY <1>1, <2>1, <2>5, NoMessage DEF RequestOK
  <2>7. ServiceOK'
    BY <1>1, <1>3, <2>1, <2>4 DEF ServiceOK, Serving
  <2>. QED
    BY <2>3, <2>6, <2>7 DEF SyncInv
<1>. QED
  BY <1>2, <1>3

\* Every step keeps the two sides in step.
LEMMA SyncStep == AllInv /\ [Next]_vars => SyncInv'
<1>. SUFFICES ASSUME AllInv, [Next]_vars PROVE SyncInv'
  OBVIOUS
<1>. USE DEF AllInv, Inv
<1>1. CASE Connect
  <2>1. /\ UNCHANGED <<proxy, resp, srv, hand, registry>> /\ sock = "idle"
        /\ \/ sock' = "open" /\ call' = Hello /\ req' = Hello /\ conn' = "backlog"
           \/ sock' = "closed" /\ UNCHANGED <<call, req, conn>>
    BY <1>1 DEF Connect, serviceVars, serverVars
  <2>2. resp = NoReply /\ req = Nothing /\ conn = "none" /\ srv \in Unconnected
    BY <2>1 DEF WireInv
  <2>. QED
    BY <2>1, <2>2, NoMessage
    DEF SyncInv, RequestOK, ArrivalOK, ServiceOK, Arriving, Serving, Unconnected
<1>2. CASE Disconnect \/ Timeout \/ ConnectionLost \/ \E n \in Nodes : FrameTooLarge(n)
  <2>1. /\ sock' = "closed" /\ UNCHANGED <<req, conn, srv, hand, registry>>
        /\ resp' = NoReply
    BY <1>2 DEF Disconnect, Timeout, ConnectionLost, FrameTooLarge, serviceVars, serverVars
  <2>. QED
    BY <2>1 DEF SyncInv, RequestOK, ArrivalOK, ServiceOK, Arriving
<1>3. CASE Receive
  BY <1>3, ReceiveSync
<1>4. ASSUME NEW n \in Nodes, NEW op \in Commands, Issue(op, n) PROVE SyncInv'
  BY <1>4, IssueSync
<1>5. CASE LoopTop
  <2>1. /\ srv = "loop" /\ srv' \in {"exit", "accept"}
        /\ UNCHANGED <<sock, call, proxy, resp, req, conn, hand>>
    BY <1>5 DEF LoopTop, clientVars, wireVars
  <2>. QED
    BY <2>1 DEF SyncInv, RequestOK, ArrivalOK, ServiceOK, Arriving, Serving, Unconnected
<1>6. CASE Accept
  <2>1. /\ srv = "accept" /\ UNCHANGED <<sock, call, proxy, resp, req, hand>>
        /\ \/ conn = "backlog" /\ srv' = "accepted" /\ conn' = "open"
           \/ srv' \in {"exit", "loop"} /\ conn' = conn
    BY <1>6 DEF Accept, clientVars
  <2>. QED
    BY <2>1 DEF SyncInv, RequestOK, ArrivalOK, ServiceOK, Arriving, Serving, Unconnected
<1>7. CASE Register
  <2>1. /\ srv = "accepted" /\ srv' = "receive"
        /\ UNCHANGED <<sock, call, proxy, acked, resp, req, conn, hand, registry, executed>>
    BY <1>7 DEF Register, clientVars, wireVars, serviceVars
  <2>2. /\ conn # "backlog" /\ resp = NoReply /\ req.op \notin Commands
        /\ sock # "idle" /\ (sock = "open" => call = Hello)
    BY <2>1 DEF SyncInv, ArrivalOK, Arriving, Unconnected, WireInv
  <2>3. sock = "open" => \A n \in Nodes : Settled(n)'
    BY <2>1 DEF SyncInv, ArrivalOK, Arriving, RegistryInv, Settled, Mirror
  <2>. QED
    BY <2>1, <2>2, <2>3, NoMessage DEF SyncInv, RequestOK, ArrivalOK, ServiceOK, Arriving
<1>8. CASE ReceiveRequest
  <2>1. /\ srv = "receive"
        /\ UNCHANGED <<sock, call, proxy, acked, resp, conn, registry, executed>>
        /\ \/ req # Nothing /\ hand' = Reply(req, FALSE) /\ req' = Nothing /\ srv' = "execute"
           \/ srv' = "cleanup" /\ UNCHANGED <<hand, req>>
    BY <1>8 DEF ReceiveRequest, clientVars, serviceVars
  <2>2. ~Arriving /\ ~Arriving'
    BY <2>1 DEF SyncInv, ArrivalOK, Arriving, Unconnected
  <2>3. ArrivalOK'
    BY <2>1, <2>2 DEF SyncInv, ArrivalOK, Arriving
  <2>4. CASE srv' = "cleanup"
    BY <2>1, <2>3, <2>4 DEF SyncInv, RequestOK, ServiceOK, Serving
  <2>5. CASE srv' = "execute"
    <3>1. req # Nothing /\ hand'.op = req.op /\ hand'.node = req.node /\ req' = Nothing
      BY <2>1, <2>5 DEF Reply
    <3>2. RequestOK'
      BY <2>1, <2>5, <3>1 DEF SyncInv, RequestOK
    <3>3. \A n \in Nodes : Settled(n)' <=> Settled(n)
      BY <2>1 DEF Settled
    <3>4. sock = "open" => req = call /\ resp = NoReply
      BY <3>1 DEF WireInv
    <3>5. call.op \in Commands => call.node \in Nodes
      BY CommandNode DEF MessagesInv
    <3>. QED
      BY <2>1, <2>3, <2>5, <3>2, <3>3, <3>4, <3>5 DEF SyncInv, ServiceOK, Serving
  <2>. QED
    BY <2>1, <2>4, <2>5
<1>9. ASSUME NEW ok \in BOOLEAN, Execute(ok) PROVE SyncInv'
  BY <1>9, ExecuteSync
<1>10. CASE SendResponse
  <2>1. /\ srv = "reply" /\ srv' \in {"receive", "cleanup"}
        /\ UNCHANGED <<sock, call, proxy, acked, req, conn, registry, executed>>
        /\ srv' = "receive" => resp' = IF sock = "open" THEN hand ELSE resp
    BY <1>10 DEF SendResponse, clientVars, serviceVars
  <2>2. ~Arriving /\ ~Arriving' /\ req = Nothing
    BY <2>1 DEF SyncInv, ArrivalOK, Arriving, Unconnected, CommandInv, CallInv
  <2>3. ArrivalOK' /\ RequestOK'
    BY <2>1, <2>2, NoMessage DEF SyncInv, ArrivalOK, Arriving, RequestOK
  <2>4. \A n \in Nodes : Settled(n)' <=> Settled(n)
    BY <2>1 DEF Settled
  <2>5. sock = "open" => call # Nothing
    BY <2>1 DEF WireInv
  <2>6. \A n, op, ok : Answered(n, op, ok)' <=> Answered(n, op, ok)
    BY <2>1 DEF Answered
  <2>7. ServiceOK'
    <3>. SUFFICES ASSUME sock = "open", srv' = "receive" PROVE ServiceOK'
      BY <2>1 DEF ServiceOK, Serving
    <3>1. resp' = hand /\ req' = Nothing
      BY <2>1, <2>2
    <3>2. /\ \A n \in Nodes \ {call.node} : Settled(n)
          /\ call.op \in Commands => Answered(call.node, call.op, hand.ok)
      BY <2>1 DEF SyncInv, ServiceOK, Serving
    <3>. QED
      BY <2>1, <2>4, <2>5, <2>6, <3>1, <3>2 DEF ServiceOK
  <2>. QED
    BY <2>3, <2>7 DEF SyncInv
<1>11. CASE (\E n \in Nodes : ShutdownRuntime(n)) \/ SessionOver \/ Release \/ Exit
  <2>1. /\ UNCHANGED <<sock, call, proxy, resp, req, hand>>
        /\ srv' \in {"cleanup", "release", "loop", "down"}
        /\ conn' = conn \/ conn' = "closed"
        /\ conn' = "backlog" => srv \in {"cleanup", "release"}
    BY <1>11 DEF ShutdownRuntime, SessionOver, Release, Exit, serverVars, clientVars, wireVars
  <2>2. conn = "backlog" => srv \in Unconnected
    BY DEF SyncInv, ArrivalOK
  <2>. QED
    BY <2>1, <2>2 DEF SyncInv, RequestOK, ArrivalOK, ServiceOK, Arriving, Serving, Unconnected
<1>12. CASE SetStop \/ TakeSockets \/ StdinEof \/ UNCHANGED vars
  <2>1. UNCHANGED <<sock, call, proxy, acked, resp, req, conn, srv, hand, registry, executed>>
    BY <1>12 DEF SetStop, TakeSockets, StdinEof, vars, clientVars, wireVars, serviceVars,
                 serverVars
  <2>. QED
    BY <2>1 DEF SyncInv, RequestOK, ArrivalOK, ServiceOK, Arriving, Serving, Settled, Answered
<1>13. CASE CloseSockets
  <2>1. /\ UNCHANGED <<sock, call, proxy, acked, resp, req, srv, hand, registry, executed>>
        /\ conn' \in {"closed", "shut", conn} /\ conn' # "backlog"
    BY <1>13 DEF CloseSockets, clientVars, serviceVars
  <2>. QED
    BY <2>1 DEF SyncInv, RequestOK, ArrivalOK, ServiceOK, Arriving, Serving, Settled, Answered
<1>14. CASE Crash
  <2>1. /\ UNCHANGED <<sock, call, proxy, req, hand>> /\ srv' = "crashed"
        /\ conn' \in {"none", "closed"}
    BY <1>14 DEF Crash, clientVars
  <2>. QED
    BY <2>1 DEF SyncInv, RequestOK, ArrivalOK, ServiceOK, Arriving, Serving
<1>. QED
  BY <1>1, <1>2, <1>3, <1>4, <1>5, <1>6, <1>7, <1>8, <1>9, <1>10, <1>11, <1>12,
     <1>13, <1>14 DEF Next, Client, Awaits, Server, Watcher

\* InStep: while the session lasts every proxy that waits for no call has the
\* state of the worker's record, and the worker never has to refuse a command for
\* the state of its record, whatever failed, timed out or was lost before.
THEOREM StaysInStep == Spec => []InStep
<1>1. AllInv => InStep
  <2>. SUFFICES ASSUME AllInv PROVE InStep
    OBVIOUS
  <2>1. ASSUME sock = "open", Serving, NEW n \in Nodes \ {call.node} PROVE Settled(n)
    BY <2>1 DEF AllInv, SyncInv, ServiceOK
  <2>2. ASSUME srv = "execute", hand.node # NoNode PROVE registry[hand.node] \in Accepts(hand.op)
    <3>1. hand.op \in Commands
      BY <2>2 DEF AllInv, Inv, MessagesInv, Replies, Reply, Requests, Nothing, Hello
    <3>. QED
      BY <2>2, <3>1 DEF AllInv, SyncInv, RequestOK
  <2>. QED
    BY <2>1, <2>2 DEF InStep, Settled, Mirror, Serving
<1>2. Init => AllInv
  BY InitMessages, InitWire, InitCommands, InitRegistry, InitSync DEF AllInv, Inv
<1>3. AllInv /\ [Next]_vars => AllInv'
  BY MessagesStep, WireStep, CommandStep, RegistryStep, SyncStep DEF AllInv, Inv
<1>. QED
  BY <1>1, <1>2, <1>3, PTL DEF Spec

-----------------------------------------------------------------------------
(* Nobody waits alone. *)

\* What a waiting client can still be given: a response or the end of the stream to
\* read, or a server that has its request or connection yet to deal with.
AnswerComes ==
    \/ resp # NoReply \/ conn \in {"shut", "closed"}
    \/ conn = "backlog" /\ srv \in {"loop", "accept", "exit"}
    \/ srv \in {"accepted", "receive"} /\ req # Nothing
    \/ srv \in {"execute", "reply", "cleanup", "release"}

\* An open connection has a thread that serves it, a waiting one a server that will
\* accept or close it, and the call of a connection that is being served is on its way.
PeerInv ==
    /\ conn \in {"none", "backlog", "open", "shut", "closed"}
    /\ sock = "open" => conn # "none"
    /\ conn = "backlog" => srv \in {"loop", "accept", "exit"}
    /\ conn = "open" => srv \in {"accepted", "release", "cleanup"} \/ Serving
    /\ srv \in {"down", "crashed"} => ~listener
    /\ call # Nothing /\ (conn = "backlog" \/ (conn = "open" /\ srv \in {"accepted", "receive"}))
          => req # Nothing \/ resp # NoReply

\* Before the session there is no connection, and the server waits for one.
LEMMA InitPeer == Init => PeerInv
BY DEF Init, PeerInv

\* A message the client waits for is not the empty one.
LEMMA CallHasOp == MessagesInv /\ call # Nothing => call.op # "none"
BY DEF MessagesInv, Requests, Nothing, Hello, Commands, Stateful

\* A response the server sends to a waiting client can be read.
LEMMA SendPeer == AllInv /\ PeerInv /\ SendResponse => PeerInv'
<1>. SUFFICES ASSUME AllInv, PeerInv, SendResponse PROVE PeerInv'
  OBVIOUS
<1>1. /\ srv = "reply" /\ srv' \in {"receive", "cleanup"}
      /\ UNCHANGED <<sock, call, req, conn, listener>>
      /\ srv' = "receive" => resp' = IF sock = "open" THEN hand ELSE resp
  BY DEF SendResponse, clientVars
<1>2. srv' = "receive" /\ call # Nothing => resp' # NoReply
  <2>. SUFFICES ASSUME srv' = "receive", call # Nothing PROVE resp' # NoReply
    OBVIOUS
  <2>1. resp' = hand /\ hand.op = call.op
    BY <1>1 DEF AllInv, Inv, WireInv
  <2>2. hand.op # "none"
    BY <2>1, CallHasOp DEF AllInv, Inv
  <2>. QED BY <2>1, <2>2 DEF NoReply
<1>. QED BY <1>1, <1>2 DEF PeerInv, Serving

\* Every step of the client, the server, its watcher and the system keeps a peer for
\* the client that waits.
LEMMA PeerStep == AllInv /\ PeerInv /\ [Next]_vars => PeerInv'
<1>. SUFFICES ASSUME AllInv, PeerInv, [Next]_vars PROVE PeerInv'
  OBVIOUS
<1>. USE DEF PeerInv, Serving
<1>1. CASE Connect
  BY <1>1 DEF Connect, Hello, Nothing, serverVars, AllInv, Inv, WireInv, Unconnected
<1>2. CASE Disconnect \/ Timeout \/ ConnectionLost \/ Receive \/ \E n \in Nodes : FrameTooLarge(n)
  <2>1. /\ UNCHANGED <<req, conn, srv, listener>> /\ call' = Nothing
        /\ sock' \in {sock, "closed"}
    BY <1>2
       DEF Disconnect, Timeout, ConnectionLost, Receive, CallFails, CallReturns,
           FrameTooLarge, serverVars
  <2>. QED BY <2>1
<1>3. ASSUME NEW n \in Nodes, NEW op \in Commands, Issue(op, n) PROVE PeerInv'
  <2>1. /\ call = Nothing /\ UNCHANGED <<sock, resp, conn, srv, listener>>
        /\ \/ UNCHANGED <<call, req>>
           \/ /\ sock = "open" /\ call' = [op |-> op, node |-> n]
              /\ req' = IF conn = "open" THEN call' ELSE req
    BY <1>3 DEF Issue, serverVars
  <2>2. [op |-> op, node |-> n] # Nothing
    BY CallType
  <2>3. sock = "open" => conn # "backlog"
    BY <2>1 DEF AllInv, SyncInv, ArrivalOK, Arriving, Hello, Nothing
  <2>. QED BY <2>1, <2>2, <2>3
<1>4. CASE LoopTop \/ Accept \/ Register
  BY <1>4 DEF LoopTop, Accept, Register, clientVars, wireVars, AllInv, Inv, WireInv, Unconnected
<1>5. CASE ReceiveRequest
  BY <1>5 DEF ReceiveRequest, clientVars
<1>6. ASSUME NEW ok \in BOOLEAN, Execute(ok) PROVE PeerInv'
  BY <1>6 DEF Execute, clientVars, wireVars
<1>7. CASE SendResponse
  BY <1>7, SendPeer
<1>8. CASE (\E n \in Nodes : ShutdownRuntime(n)) \/ SessionOver \/ Release \/ Exit
  BY <1>8 DEF ShutdownRuntime, SessionOver, Release, Exit, serverVars, clientVars, wireVars
<1>9. CASE SetStop \/ TakeSockets \/ CloseSockets \/ StdinEof
  BY <1>9 DEF SetStop, TakeSockets, CloseSockets, StdinEof, clientVars, wireVars, serverVars
<1>10. CASE Crash
  BY <1>10 DEF Crash, clientVars
<1>11. CASE UNCHANGED vars
  BY <1>11 DEF vars
<1>. QED
  BY <1>1, <1>2, <1>3, <1>4, <1>5, <1>6, <1>7, <1>8, <1>9, <1>10, <1>11
     DEF Next, Client, Awaits, Server, Watcher

\* Whenever a proxy waits there is something for it to read, or a server that still
\* has its connection or its request to deal with: no crash, refusal, failed send or
\* end of stdin leaves the client waiting for nobody, its own timeout apart.
THEOREM NobodyWaitsAlone == Spec => [](call # Nothing => AnswerComes)
<1>1. AllInv /\ PeerInv => (call # Nothing => AnswerComes)
  <2>. SUFFICES ASSUME AllInv, PeerInv, call # Nothing PROVE AnswerComes
    OBVIOUS
  <2>1. conn # "none"
    BY DEF AllInv, Inv, WireInv, PeerInv
  <2>. QED BY <2>1 DEF PeerInv, AnswerComes, Serving
<1>2. Init => AllInv /\ PeerInv
  BY InitMessages, InitWire, InitCommands, InitRegistry, InitSync, InitPeer DEF AllInv, Inv
<1>3. AllInv /\ PeerInv /\ [Next]_vars => AllInv' /\ PeerInv'
  BY MessagesStep, WireStep, CommandStep, RegistryStep, SyncStep, PeerStep DEF AllInv, Inv
<1>. QED BY <1>1, <1>2, <1>3, PTL DEF Spec

-----------------------------------------------------------------------------
(* The end of the worker, once the client has left. *)

\* Where the thread in serve_forever and the watcher may be.
ThreadsInv ==
    /\ srv \in {"loop", "accept", "accepted", "receive", "execute", "reply", "cleanup",
                "release", "exit", "down", "crashed"}
    /\ watcher \in {"reading", "eof", "stopping", "closing", "done"}
    /\ watcher \in {"stopping", "closing", "done"} => stopEvent
    /\ srv \in {"loop", "accept"} /\ conn \notin {"none", "backlog"} => stopEvent
    /\ srv = "release" => stopEvent
    /\ sock = "closed" /\ conn = "none" => ~listener

\* How far the server still has to go: through the session if one waits or is served,
\* and then out of its loop.
ServerLeft ==
    CASE srv = "loop" /\ conn = "backlog"   -> 13
      [] srv = "accept" /\ conn = "backlog" -> 12
      [] srv = "accepted"                   -> 11
      [] srv = "receive" /\ req # Nothing   -> 10
      [] srv = "execute"                    -> 9
      [] srv = "reply"                      -> 8
      [] srv = "receive" /\ req = Nothing   -> 7
      [] srv = "cleanup"                    -> 6
      [] srv = "release"                    -> 5
      [] srv = "accept" /\ conn # "backlog" /\ stopEvent  -> 4
      [] srv = "loop" /\ conn # "backlog"                 -> 3
      [] srv = "accept" /\ conn # "backlog" /\ ~stopEvent -> 2
      [] srv = "exit"                       -> 1
      [] srv \in {"down", "crashed"}        -> 0

\* How far the watcher still has to go, and the runtimes the worker still holds.
WatcherLeft ==
    CASE watcher = "reading"  -> 4
      [] watcher = "eof"      -> 3
      [] watcher = "stopping" -> 2
      [] watcher = "closing"  -> 1
      [] watcher = "done"     -> 0
RuntimesLeft == {n \in Nodes : registry[n] # "absent"}

Closer ==
    \/ WatcherLeft' < WatcherLeft
    \/ WatcherLeft' = WatcherLeft /\ ServerLeft' < ServerLeft
    \/ /\ WatcherLeft' = WatcherLeft /\ ServerLeft' = ServerLeft
       /\ RuntimesLeft' \subseteq RuntimesLeft /\ RuntimesLeft' # RuntimesLeft

Worker == Server \/ Watcher \/ StdinEof \/ Crash

\* Before the session the server waits for one and nothing has stopped it.
LEMMA InitThreads == Init => ThreadsInv
BY DEF Init, ThreadsInv

\* The server leaves its loop, and a session, only when it was told to stop.
LEMMA ThreadsStep == AllInv /\ PeerInv /\ ThreadsInv /\ [Next]_vars => ThreadsInv'
<1>. SUFFICES ASSUME AllInv, PeerInv, ThreadsInv, [Next]_vars PROVE ThreadsInv'
  OBVIOUS
<1>. USE DEF ThreadsInv
<1>1. CASE Connect
  BY <1>1 DEF Connect, serverVars, watchVars, AllInv, Inv, WireInv
<1>2. CASE Disconnect \/ Timeout \/ ConnectionLost \/ Receive \/ \E n \in Nodes : FrameTooLarge(n)
  <2>1. UNCHANGED <<conn, srv, listener, stopEvent, watcher>> /\ sock = "open"
    BY <1>2
       DEF Disconnect, Timeout, ConnectionLost, Receive, FrameTooLarge, serverVars, watchVars,
           AllInv, Inv, WireInv
  <2>. QED BY <2>1 DEF PeerInv
<1>3. CASE \E n \in Nodes, op \in Commands : Issue(op, n)
  BY <1>3 DEF Issue, serverVars, watchVars
<1>4. CASE LoopTop \/ Accept \/ Register
  BY <1>4 DEF LoopTop, Accept, Register, clientVars, wireVars, watchVars, PeerInv
<1>5. CASE ReceiveRequest \/ SendResponse
  <2>1. /\ srv \in {"receive", "reply"} /\ srv' \in {"receive", "execute", "cleanup"}
        /\ UNCHANGED <<sock, conn, listener, stopEvent, watcher>>
    BY <1>5 DEF ReceiveRequest, SendResponse, clientVars, watchVars
  <2>. QED BY <2>1
<1>6. CASE \E ok \in BOOLEAN : Execute(ok)
  BY <1>6 DEF Execute, clientVars, wireVars, watchVars
<1>7. CASE (\E n \in Nodes : ShutdownRuntime(n)) \/ SessionOver \/ Release \/ Exit
  BY <1>7
     DEF ShutdownRuntime, SessionOver, Release, Exit, serverVars, clientVars, wireVars, watchVars
<1>8. CASE SetStop \/ TakeSockets \/ CloseSockets \/ StdinEof
  BY <1>8 DEF SetStop, TakeSockets, CloseSockets, StdinEof, clientVars, wireVars, serverVars
<1>9. CASE Crash
  BY <1>9 DEF Crash, clientVars, watchVars
<1>10. CASE UNCHANGED vars
  BY <1>10 DEF vars
<1>. QED
  BY <1>1, <1>2, <1>3, <1>4, <1>5, <1>6, <1>7, <1>8, <1>9, <1>10
     DEF Next, Client, Awaits, Server, Watcher

\* What is left to do is a natural number.
LEMMA LeftType == ThreadsInv => ServerLeft \in Nat /\ WatcherLeft \in Nat
<1>. SUFFICES ASSUME ThreadsInv PROVE ServerLeft \in Nat /\ WatcherLeft \in Nat
  OBVIOUS
<1>1. WatcherLeft \in Nat
  BY DEF ThreadsInv, WatcherLeft
<1>2. ServerLeft \in Nat
  BY DEF ThreadsInv, ServerLeft
<1>. QED BY <1>1, <1>2

\* A client that has left does nothing more that the worker would notice.
LEMMA ClientGone ==
    ASSUME AllInv, sock = "closed", Client \/ Awaits
    PROVE sock' = "closed" /\ UNCHANGED <<wireVars, serviceVars, serverVars, watchVars>>
<1>1. call = Nothing
  BY DEF AllInv, Inv, WireInv
<1>2. PICK n \in Nodes, op \in Commands : Issue(op, n)
  BY <1>1 DEF Client, Awaits, Connect, Disconnect, Timeout, FrameTooLarge, Receive, ConnectionLost
<1>. QED BY <1>2 DEF Issue, wireVars

\* The steps that take the server through the session.
LEMMA ServerCloser ==
    ASSUME AllInv, PeerInv, ThreadsInv, sock = "closed",
           \/ LoopTop \/ Accept \/ Register \/ ReceiveRequest \/ SendResponse
           \/ SessionOver \/ Release \/ Exit \/ Crash \/ \E ok \in BOOLEAN : Execute(ok)
    PROVE ServerLeft' < ServerLeft
<1>. USE DEF ThreadsInv
<1>1. CASE LoopTop
  <2>1. /\ srv = "loop" /\ srv' = IF stopEvent THEN "exit" ELSE "accept"
        /\ UNCHANGED <<conn, stopEvent>>
    BY <1>1 DEF LoopTop, wireVars
  <2>. QED BY <2>1 DEF ServerLeft
<1>2. CASE Accept
  <2>1. /\ srv = "accept" /\ UNCHANGED stopEvent
        /\ \/ conn = "backlog" /\ srv' = "accepted"
           \/ srv' = "exit"
           \/ conn # "backlog" /\ conn # "none" /\ srv' = "loop" /\ conn' = conn
    BY <1>2 DEF Accept
  <2>2. ServerLeft \in {12, 4, 2}
    BY <2>1 DEF ServerLeft
  <2>3. CASE conn = "backlog" /\ srv' = "accepted"
    BY <2>1, <2>3 DEF ServerLeft
  <2>4. CASE srv' = "exit"
    <3>1. ServerLeft' = 1 BY <2>4 DEF ServerLeft
    <3>. QED BY <3>1, <2>2
  <2>5. CASE conn # "backlog" /\ conn # "none" /\ srv' = "loop" /\ conn' = conn
    BY <2>1, <2>5 DEF ServerLeft
  <2>. QED BY <2>1, <2>3, <2>4, <2>5
<1>3. CASE Register
  <2>1. srv = "accepted" /\ srv' = "receive"
    BY <1>3 DEF Register
  <2>. QED BY <2>1 DEF ServerLeft
<1>4. CASE ReceiveRequest
  <2>1. /\ srv = "receive"
        /\ (req # Nothing /\ srv' = "execute") \/ srv' = "cleanup"
    BY <1>4 DEF ReceiveRequest
  <2>. QED BY <2>1 DEF ServerLeft
<1>5. CASE SendResponse
  <2>1. srv = "reply" /\ srv' \in {"receive", "cleanup"} /\ req' = Nothing
    BY <1>5 DEF SendResponse, AllInv, Inv, CommandInv, CallInv
  <2>2. ServerLeft = 8
    BY <2>1 DEF ServerLeft
  <2>3. ServerLeft' \in {7, 6}
    BY <2>1 DEF ServerLeft
  <2>. QED BY <2>2, <2>3
<1>6. CASE \E ok \in BOOLEAN : Execute(ok)
  <2>1. srv = "execute" /\ srv' = "reply"
    BY <1>6 DEF Execute
  <2>. QED BY <2>1 DEF ServerLeft
<1>7. CASE SessionOver
  <2>1. srv = "cleanup" /\ srv' = "release"
    BY <1>7 DEF SessionOver
  <2>. QED BY <2>1 DEF ServerLeft
<1>8. CASE Release
  <2>1. srv = "release" /\ srv' = "loop" /\ conn' = "closed"
    BY <1>8 DEF Release
  <2>. QED BY <2>1 DEF ServerLeft
<1>9. CASE Exit
  <2>1. srv = "exit" /\ srv' = "down"
    BY <1>9 DEF Exit
  <2>. QED BY <2>1 DEF ServerLeft
<1>10. CASE Crash
  <2>1. srv \notin {"down", "crashed"} /\ srv' = "crashed"
    BY <1>10 DEF Crash, Alive
  <2>2. ServerLeft' = 0
    BY <2>1 DEF ServerLeft
  <2>3. ServerLeft > 0
    BY <2>1 DEF ServerLeft
  <2>. QED BY <2>2, <2>3
<1>. QED BY <1>1, <1>2, <1>3, <1>4, <1>5, <1>6, <1>7, <1>8, <1>9, <1>10

\* Every step of the worker takes it closer to its end once the client has left.
LEMMA WorkerCloser ==
    ASSUME AllInv, PeerInv, ThreadsInv, sock = "closed", Worker
    PROVE sock' = "closed" /\ Closer
<1>0. sock' = sock
  BY DEF Worker, Server, Watcher, LoopTop, Accept, Register, ReceiveRequest, Execute,
         SendResponse, ShutdownRuntime, SessionOver, Release, Exit, SetStop, TakeSockets,
         CloseSockets, StdinEof, Crash, clientVars
<1>1. CASE Watcher \/ StdinEof
  <2>1. \/ watcher = "reading" /\ watcher' = "eof"
        \/ watcher = "eof" /\ watcher' = "stopping"
        \/ watcher = "stopping" /\ watcher' = "closing"
        \/ watcher = "closing" /\ watcher' = "done"
    BY <1>1 DEF Watcher, SetStop, TakeSockets, CloseSockets, StdinEof
  <2>2. WatcherLeft' < WatcherLeft
    BY <2>1 DEF WatcherLeft
  <2>. QED BY <1>0, <2>2 DEF Closer
<1>2. CASE \E n \in Nodes : ShutdownRuntime(n)
  <2>1. PICK n \in Nodes : ShutdownRuntime(n)
    BY <1>2
  <2>2. /\ registry[n] # "absent" /\ registry' = [registry EXCEPT ![n] = "absent"]
        /\ UNCHANGED <<watcher, srv, conn, req, stopEvent>>
    BY <2>1 DEF ShutdownRuntime, wireVars, serverVars, watchVars
  <2>3. WatcherLeft' = WatcherLeft /\ ServerLeft' = ServerLeft
    BY <2>2 DEF WatcherLeft, ServerLeft
  <2>4. registry \in [Nodes -> RecordStates]
    BY DEF AllInv, RegistryInv
  <2>5. RuntimesLeft' \subseteq RuntimesLeft /\ n \in RuntimesLeft /\ n \notin RuntimesLeft'
    BY <2>2, <2>4 DEF RuntimesLeft
  <2>. QED BY <1>0, <2>3, <2>5 DEF Closer
<1>3. CASE \/ LoopTop \/ Accept \/ Register \/ ReceiveRequest \/ SendResponse
           \/ SessionOver \/ Release \/ Exit \/ Crash \/ \E ok \in BOOLEAN : Execute(ok)
  <2>1. ServerLeft' < ServerLeft
    BY <1>3, ServerCloser
  <2>2. watcher' = watcher
    BY <1>3
       DEF LoopTop, Accept, Register, ReceiveRequest, Execute, SendResponse, SessionOver,
           Release, Exit, Crash, watchVars
  <2>3. WatcherLeft' = WatcherLeft
    BY <2>2 DEF WatcherLeft
  <2>. QED BY <1>0, <2>1, <2>3 DEF Closer
<1>. QED BY <1>1, <1>2, <1>3 DEF Worker, Server

\* The safety half of WorkerEndsWithSession: once the client has left it stays away, and
\* every step of the worker's threads takes it down a well-founded order on what is left
\* of the watcher, of the serving thread and of the runtimes to release.  The server
\* neither waits in accept() nor serves on, whoever stops it first.
THEOREM WindsDown ==
    Spec => /\ [](ServerLeft \in Nat /\ WatcherLeft \in Nat)
            /\ [][sock = "closed" =>
                    /\ sock' = "closed"
                    /\ Worker => Closer
                    /\ Client \/ Awaits =>
                          UNCHANGED <<WatcherLeft, ServerLeft, RuntimesLeft>>]_vars
<1>1. AllInv /\ PeerInv /\ ThreadsInv /\ [Next]_vars =>
        [sock = "closed" =>
            /\ sock' = "closed"
            /\ Worker => Closer
            /\ Client \/ Awaits => UNCHANGED <<WatcherLeft, ServerLeft, RuntimesLeft>>]_vars
  <2>. SUFFICES ASSUME AllInv, PeerInv, ThreadsInv, Next, sock = "closed"
                PROVE /\ sock' = "closed"
                      /\ Worker => Closer
                      /\ Client \/ Awaits =>
                            UNCHANGED <<WatcherLeft, ServerLeft, RuntimesLeft>>
    OBVIOUS
  <2>1. Worker => sock' = "closed" /\ Closer
    BY WorkerCloser
  <2>2. Client \/ Awaits =>
          sock' = "closed" /\ UNCHANGED <<wireVars, serviceVars, serverVars, watchVars>>
    BY ClientGone
  <2>3. Client \/ Awaits => UNCHANGED <<WatcherLeft, ServerLeft, RuntimesLeft>>
    <3>1. Client \/ Awaits => UNCHANGED <<req, conn, registry, srv, stopEvent, watcher>>
      BY <2>2 DEF wireVars, serviceVars, serverVars, watchVars
    <3>2. UNCHANGED watcher => UNCHANGED WatcherLeft
      BY DEF WatcherLeft
    <3>3. UNCHANGED <<srv, conn, req, stopEvent>> => UNCHANGED ServerLeft
      BY DEF ServerLeft
    <3>4. UNCHANGED registry => UNCHANGED RuntimesLeft
      BY DEF RuntimesLeft
    <3>. QED BY <3>1, <3>2, <3>3, <3>4
  <2>. QED BY <2>1, <2>2, <2>3 DEF Next, Worker
<1>2. Init => AllInv /\ PeerInv /\ ThreadsInv
  BY InitMessages, InitWire, InitCommands, InitRegistry, InitSync, InitPeer, InitThreads
     DEF AllInv, Inv
<1>3. AllInv /\ PeerInv /\ ThreadsInv /\ [Next]_vars => AllInv' /\ PeerInv' /\ ThreadsInv'
  BY MessagesStep, WireStep, CommandStep, RegistryStep, SyncStep, PeerStep, ThreadsStep
     DEF AllInv, Inv
<1>. QED BY <1>1, <1>2, <1>3, LeftType, PTL DEF Spec
=============================================================================
