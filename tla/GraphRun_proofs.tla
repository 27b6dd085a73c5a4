--------------------------- MODULE GraphRun_proofs ---------------------------
(***************************************************************************)
(* Theorems about GraphRun for every number of nodes, macro-steps, stride  *)
(* and set of connections.  The inductive invariant IInv says, for each    *)
(* point of run(), how far every loop over the bindings has come: which    *)
(* runtimes are in which life cycle state, which nodes have advanced, whose*)
(* outputs were read and which inputs were set.  From it follow the safety *)
(* properties, that a run implements GlobalCheckpoint, and, with SampleInv,*)
(* that its result is exact.                                               *)
(***************************************************************************)
EXTENDS GraphRun, TLAPS

Early == {"entry", "create", "discard", "initialize", "readInitial",
          "recordInitial"}
Stepping == {"progress", "route", "set", "advance", "read"}
Live == Stepping \union {"readInitial", "recordInitial", "check", "record",
                         "flush"}
Ending == {"terminate", "close", "finish", "done"}

\* The life cycle of the runtimes at each point of run().
LifeInv ==
    /\ pc = "entry" => idx = 1 /\ \A n \in Nodes : life[n] = "absent"
    /\ pc = "create" => \A n \in Nodes :
          life[n] = IF n < idx THEN "created" ELSE "absent"
    /\ pc = "discard" =>
          /\ life[idx] = "created"
          /\ \A n \in Nodes : life[n] \in {"absent", "created", "closed"}
          /\ \A n \in Nodes : life[n] = "created" =>
                n >= idx /\ \A m \in idx..n : life[m] = "created"
    /\ pc = "initialize" => \A n \in Nodes :
          life[n] = IF n < idx THEN "ready" ELSE "created"
    /\ pc \in Live => \A n \in Nodes : life[n] = "ready"
    /\ pc = "terminate" => \A n \in Nodes :
          /\ life[n] \in {"created", "partial", "ready", "terminated"}
          /\ n < idx => life[n] \notin {"partial", "ready"}
    /\ pc = "close" => \A n \in Nodes :
          life[n] \in IF n < idx THEN {"closed"} ELSE {"created", "terminated"}
    /\ pc = "finish" => \A n \in Nodes : life[n] \in {"absent", "closed"}
    /\ pc # "done" <=> outcome = "none"
    /\ outcome \notin {"none", "INTERRUPTED"} =>
          \A n \in Nodes : life[n] \in {"absent", "closed"}

\* Where the nodes, the snapshot and the inputs stand at each point.
TimeInv ==
    /\ pc \in Early => completed = 0
    /\ pc \in Stepping => completed < Steps
    /\ \A n \in Nodes : time[n] \in {completed, completed + 1}
    /\ pc \in Early \union {"progress", "check", "route", "set", "record",
                            "flush"} =>
          \A n \in Nodes : time[n] = completed
    /\ pc = "advance" => \A n \in Nodes :
          time[n] = IF n < idx THEN completed + 1 ELSE completed
    /\ pc = "read" => \A n \in Nodes : time[n] = completed + 1
    /\ pc \in {"readInitial", "read"} => \A n \in Nodes :
          n < idx => fresh[n] = time[n]
    /\ pc \in Live \ {"readInitial"} =>
          \A n \in Nodes : snapshot[n] = completed
    /\ pc = "set" => \A c \in Conns : c[2] < idx => held[c] = completed
    /\ pc = "advance" => \A c \in Conns : held[c] = completed

\* A request made before the last look at the flag has been obeyed.
StopInv ==
    /\ stop => stopAt \in 0..completed /\ completed <= stopAt + 1
    /\ stop /\ pc \in Early \union Stepping => stopAt = completed

IInv == TypeOK /\ LifeInv /\ TimeInv /\ StopInv

-----------------------------------------------------------------------------
(* The values the code's lists and per-node tables are given keep their type. *)

\* A list stays a list of its elements when one is appended.
LEMMA AppendType ==
    ASSUME NEW S, NEW s \in Seq(S), NEW e \in S
    PROVE Append(s, e) \in Seq(S)
OBVIOUS

\* A table stays a table when one entry is given another value.
LEMMA UpdateType ==
    ASSUME NEW D, NEW R, NEW f \in [D -> R], NEW d \in D, NEW r \in R
    PROVE [f EXCEPT ![d] = r] \in [D -> R]
OBVIOUS

-----------------------------------------------------------------------------
(* Every step keeps the types and the inductive invariant. *)

\* No step takes the point, the loop index or the flags out of their type: a
\* loop over the bindings ends at its last node, a failed creation included.
LEMMA ControlStep == IInv /\ [Next]_vars => ControlOK'
<1>. SUFFICES ASSUME IInv, [Next]_vars PROVE ControlOK'
  OBVIOUS
<1>. USE NAssumption
     DEF IInv, TypeOK, ControlOK, Nodes, Points, Calls, Causes, Results, 
         LifeInv
<1>1. CASE Enter
  BY <1>1 DEF Enter
<1>2. CASE Create
  BY <1>2 DEF Create, Loop
<1>3. CASE Discard
  BY <1>3 DEF Discard, Discardable
<1>4. CASE Initialize
  BY <1>4 DEF Initialize, Loop, Raise
<1>5. CASE ReadInitial
  BY <1>5 DEF ReadInitial, Loop, Raise
<1>6. CASE RecordInitial
  BY <1>6 DEF RecordInitial, Raise
<1>7. CASE Progress
  BY <1>7 DEF Progress, AfterProgress, Raise
<1>8. CASE Check
  BY <1>8 DEF Check, ObservedStop, IsComplete
<1>9. CASE Route
  BY <1>9 DEF Route, Raise
<1>10. CASE SetInputs
  BY <1>10 DEF SetInputs, Loop, Raise, Routed
<1>11. CASE Advance
  BY <1>11 DEF Advance, AfterAdvance, Loop, Raise
<1>12. CASE Read
  BY <1>12 DEF Read, Commit, Loop, Raise
<1>13. CASE Record
  BY <1>13 DEF Record, Raise
<1>14. CASE Flush
  BY <1>14 DEF Flush, NeedsFlush, Raise
<1>15. CASE Terminate
  BY <1>15 DEF Terminate, AfterTerminate, Loop
<1>16. CASE Close
  BY <1>16 DEF Close, AfterClose, Loop
<1>17. CASE Finish
  BY <1>17 DEF Finish
<1>18. CASE Interrupt
  BY <1>18 DEF Interrupt
<1>19. CASE RequestStop
  BY <1>19 DEF RequestStop, runVars
<1>20. CASE UNCHANGED vars
  BY <1>20 DEF vars
<1>. QED BY <1>1, <1>2, <1>3, <1>4, <1>5, <1>6, <1>7, <1>8, <1>9, <1>10, <1>11,
            <1>12, <1>13, <1>14, <1>15, <1>16, <1>17, <1>18, <1>19, <1>20
         DEF Next, Runner

\* No step gives a node a checkpoint past stop_time: the macro-step is only
\* entered before the last one is done.
LEMMA NodesStep == IInv /\ [Next]_vars => NodesOK'
<1>. SUFFICES ASSUME IInv, [Next]_vars PROVE NodesOK'
  OBVIOUS
<1>. USE NAssumption, StepsAssumption, ConnsAssumption
     DEF IInv, TypeOK, NodesOK, ControlOK, RecordsOK, Nodes, Lives, TimeInv, 
         Stepping
<1>1. CASE Enter
  BY <1>1 DEF Enter
<1>2. CASE Create
  BY <1>2 DEF Create, Loop
<1>3. CASE Discard
  BY <1>3 DEF Discard, Discardable
<1>4. CASE Initialize
  BY ZenonT(20), <1>4 DEF Initialize, Loop, Raise
<1>5. CASE ReadInitial
  <2>1. [fresh EXCEPT ![idx] = time[idx]] \in [Nodes -> -1..Steps]
    <3>1. time[idx] \in -1..Steps
      OBVIOUS
    <3>. QED BY <3>1, UpdateType
  <2>2. fresh' \in [Nodes -> -1..Steps] /\ snapshot' \in [Nodes -> -1..Steps]
    <3>1. /\ fresh' \in {fresh, [fresh EXCEPT ![idx] = time[idx]]}
          /\ snapshot' \in {snapshot, fresh'}
      BY <1>5 DEF ReadInitial
    <3>2. fresh \in [Nodes -> -1..Steps] /\ snapshot \in [Nodes -> -1..Steps]
      OBVIOUS
    <3>. HIDE DEF IInv, TypeOK, NodesOK, ControlOK, RecordsOK, Lives, TimeInv, Stepping
    <3>. QED BY <2>1, <3>1, <3>2
  <2>. QED BY <1>5, <2>2 DEF ReadInitial
<1>6. CASE RecordInitial
  BY <1>6 DEF RecordInitial, Raise
<1>7. CASE Progress
  BY <1>7 DEF Progress, AfterProgress, Raise
<1>8. CASE Check
  BY <1>8 DEF Check, ObservedStop, IsComplete
<1>9. CASE Route
  BY <1>9 DEF Route, Raise
<1>10. CASE SetInputs
  <2>1. \A c \in Conns : snapshot[c[1]] \in -1..Steps /\ held[c] \in -1..Steps
    OBVIOUS
  <2>2. [c \in Conns |-> IF c[2] = idx THEN Routed(c) ELSE held[c]]
           \in [Conns -> -1..Steps]
    BY <2>1 DEF Routed
  <2>3. held' \in [Conns -> -1..Steps]
    BY <1>10, <2>2 DEF SetInputs
  <2>. QED BY <1>10, <2>3 DEF SetInputs
<1>11. CASE Advance
  <2>1. completed + 1 \in 0..Steps
    BY <1>11 DEF Advance
  <2>2. time' \in [Nodes -> 0..Steps]
    BY <1>11, <2>1 DEF Advance
  <2>. QED BY <1>11, <2>2 DEF Advance
<1>12. CASE Read
  <2>1. [fresh EXCEPT ![idx] = time[idx]] \in [Nodes -> -1..Steps]
    <3>1. time[idx] \in -1..Steps
      OBVIOUS
    <3>. QED BY <3>1, UpdateType
  <2>2. fresh' \in [Nodes -> -1..Steps] /\ snapshot' \in [Nodes -> -1..Steps]
    <3>1. /\ fresh' \in {fresh, [fresh EXCEPT ![idx] = time[idx]]}
          /\ snapshot' \in {snapshot, fresh'}
      BY <1>12 DEF Read, Commit
    <3>2. fresh \in [Nodes -> -1..Steps] /\ snapshot \in [Nodes -> -1..Steps]
      OBVIOUS
    <3>. HIDE DEF IInv, TypeOK, NodesOK, ControlOK, RecordsOK, Lives, TimeInv, Stepping
    <3>. QED BY <2>1, <3>1, <3>2
  <2>. QED BY <1>12, <2>2 DEF Read
<1>13. CASE Record
  BY <1>13 DEF Record, Raise
<1>14. CASE Flush
  BY <1>14 DEF Flush, NeedsFlush, Raise
<1>15. CASE Terminate
  BY <1>15 DEF Terminate, AfterTerminate, Loop
<1>16. CASE Close
  BY <1>16 DEF Close, AfterClose, Loop
<1>17. CASE Finish
  BY <1>17 DEF Finish
<1>18. CASE Interrupt
  BY <1>18 DEF Interrupt
<1>19. CASE RequestStop
  BY <1>19 DEF RequestStop, runVars
<1>20. CASE UNCHANGED vars
  BY <1>20 DEF vars
<1>. QED BY <1>1, <1>2, <1>3, <1>4, <1>5, <1>6, <1>7, <1>8, <1>9, <1>10, <1>11,
            <1>12, <1>13, <1>14, <1>15, <1>16, <1>17, <1>18, <1>19, <1>20
         DEF Next, Runner

\* No step commits, records or reports a checkpoint past the last one.
LEMMA RecordsStep == IInv /\ [Next]_vars => RecordsOK'
<1>. SUFFICES ASSUME IInv, [Next]_vars PROVE RecordsOK'
  OBVIOUS
<1>. USE NAssumption, StepsAssumption
     DEF IInv, TypeOK, RecordsOK, ControlOK, Nodes, TimeInv, Stepping
<1>1. CASE Enter
  BY <1>1 DEF Enter
<1>2. CASE Create
  BY <1>2 DEF Create, Loop
<1>3. CASE Discard
  <2>1. Append(failures, <<"close", idx>>) \in Seq({"terminate", "close"} \X Nodes)
    BY AppendType
  <2>. QED BY <1>3, <2>1 DEF Discard
<1>4. CASE Initialize
  BY <1>4 DEF Initialize, Loop, Raise
<1>5. CASE ReadInitial
  BY <1>5 DEF ReadInitial, Loop, Raise
<1>6. CASE RecordInitial
  <2>1. Append(samples, completed) \in Seq(0..Steps)
    BY AppendType
  <2>. QED BY <1>6, <2>1 DEF RecordInitial
<1>7. CASE Progress
  BY <1>7 DEF Progress, AfterProgress, Raise
<1>8. CASE Check
  BY <1>8 DEF Check, ObservedStop, IsComplete
<1>9. CASE Route
  BY <1>9 DEF Route, Raise
<1>10. CASE SetInputs
  BY <1>10 DEF SetInputs, Loop, Raise, Routed
<1>11. CASE Advance
  BY <1>11 DEF Advance, AfterAdvance, Loop, Raise
<1>12. CASE Read
  BY <1>12 DEF Read, Commit, Loop, Raise
<1>13. CASE Record
  <2>1. Append(samples, completed) \in Seq(0..Steps)
    BY AppendType
  <2>. QED BY <1>13, <2>1 DEF Record
<1>14. CASE Flush
  <2>1. Append(samples, completed) \in Seq(0..Steps)
    BY AppendType
  <2>. QED BY <1>14, <2>1 DEF Flush, NeedsFlush
<1>15. CASE Terminate
  <2>1. Append(failures, <<"terminate", idx>>) \in Seq({"terminate", "close"} \X Nodes)
    BY AppendType
  <2>. QED BY <1>15, <2>1 DEF Terminate
<1>16. CASE Close
  <2>1. Append(failures, <<"close", idx>>) \in Seq({"terminate", "close"} \X Nodes)
    BY AppendType
  <2>. QED BY <1>16, <2>1 DEF Close
<1>17. CASE Finish
  BY <1>17 DEF Finish
<1>18. CASE Interrupt
  BY <1>18 DEF Interrupt
<1>19. CASE RequestStop
  BY <1>19 DEF RequestStop, runVars
<1>20. CASE UNCHANGED vars
  BY <1>20 DEF vars
<1>. QED BY <1>1, <1>2, <1>3, <1>4, <1>5, <1>6, <1>7, <1>8, <1>9, <1>10, <1>11,
            <1>12, <1>13, <1>14, <1>15, <1>16, <1>17, <1>18, <1>19, <1>20
         DEF Next, Runner

\* Each loop over the bindings leaves the runtimes behind it in the state the
\* next one expects, whichever call fails.
LEMMA LifeStep == IInv /\ [Next]_vars => LifeInv'
<1>. SUFFICES ASSUME IInv, [Next]_vars PROVE LifeInv'
  OBVIOUS
<1>. USE NAssumption
     DEF IInv, TypeOK, ControlOK, NodesOK, Nodes, LifeInv, Live, Stepping
<1>1. CASE Enter
  <2>1. CASE stop
    BY <1>1, <2>1 DEF Enter
  <2>2. CASE ~stop
    BY <1>1, <2>2 DEF Enter
  <2>. QED BY <2>1, <2>2
<1>2. CASE Create
  <2>1. UNCHANGED outcome
    BY <1>2 DEF Create
  <2>2. CASE life' = [life EXCEPT ![idx] = "created"] /\ Loop("initialize")
    <3>1. \A n \in Nodes : life'[n] = IF n = idx THEN "created" ELSE life[n]
      BY <2>2
    <3>2. CASE idx < N
      <4>1. pc' = "create" /\ idx' = idx + 1
        BY <1>2, <2>2, <3>2 DEF Create, Loop
      <4>. QED BY SMTT(20), <1>2, <2>1, <3>1, <3>2, <4>1 DEF Create
    <3>3. CASE ~(idx < N)
      <4>1. pc' = "initialize" /\ idx' = 1
        BY <1>2, <2>2, <3>3 DEF Create, Loop
      <4>2. \A n \in Nodes : life'[n] = "created"
        BY <1>2, <3>1, <3>3 DEF Create
      <4>. QED BY SMTT(20), <1>2, <2>1, <4>1, <4>2 DEF Create
    <3>. QED BY <3>2, <3>3
  <2>3. CASE /\ UNCHANGED life /\ idx' = 1
             /\ pc' = IF idx = 1 THEN "finish" ELSE "discard"
    BY <1>2, <2>1, <2>3 DEF Create
  <2>. QED BY <1>2, <2>2, <2>3 DEF Create
<1>3. CASE Discard
  <2>1. \A n \in Nodes : life'[n] = IF n = idx THEN "closed" ELSE life[n]
    BY <1>3 DEF Discard
  <2>2. CASE Discardable = {idx}
    <3>1. pc' = "finish" /\ UNCHANGED outcome
      BY <1>3, <2>2 DEF Discard
    <3>2. \A n \in Nodes : life'[n] \in {"absent", "closed"}
      BY <1>3, <2>1, <2>2 DEF Discard, Discardable
    <3>. QED BY <1>3, <3>1, <3>2 DEF Discard
  <2>3. CASE Discardable # {idx}
    <3>1. pc' = "discard" /\ idx' = idx + 1 /\ UNCHANGED outcome
      BY <1>3, <2>3 DEF Discard
    <3>2. PICK n \in Nodes : n # idx /\ life[n] = "created"
      BY <1>3, <2>3 DEF Discard, Discardable
    <3>3. idx + 1 \in idx..n
      BY <1>3, <3>2 DEF Discard
    <3>4. life'[idx + 1] = "created"
      BY <1>3, <2>1, <3>2, <3>3 DEF Discard
    <3>5. ASSUME NEW m \in Nodes, life'[m] = "created"
          PROVE  m >= idx + 1 /\ \A k \in (idx + 1)..m : life'[k] = "created"
      BY SMTT(20), <1>3, <2>1, <3>5 DEF Discard
    <3>. QED BY <1>3, <2>1, <3>1, <3>4, <3>5 DEF Discard
  <2>. QED BY <2>2, <2>3
<1>4. CASE Initialize
  <2>1. UNCHANGED outcome
    BY <1>4 DEF Initialize
  <2>2. CASE life' = [life EXCEPT ![idx] = "ready"] /\ Loop("readInitial")
    <3>1. \A n \in Nodes : life'[n] = IF n = idx THEN "ready" ELSE life[n]
      BY <2>2
    <3>2. CASE idx < N
      <4>1. pc' = "initialize" /\ idx' = idx + 1
        BY <1>4, <2>2, <3>2 DEF Initialize, Loop
      <4>. QED BY SMTT(20), <1>4, <2>1, <3>1, <3>2, <4>1 DEF Initialize
    <3>3. CASE ~(idx < N)
      <4>1. pc' = "readInitial" /\ \A n \in Nodes : life'[n] = "ready"
        BY <1>4, <2>2, <3>1, <3>3 DEF Initialize, Loop
      <4>. QED BY <1>4, <2>1, <4>1 DEF Initialize
    <3>. QED BY <3>2, <3>3
  <2>3. CASE Raise("initialize")
    <3>1. pc' = "terminate" /\ idx' = 1
      BY <2>3 DEF Raise
    <3>2. \A n \in Nodes : life'[n] \in {"created", "partial", "ready"}
      BY <1>4 DEF Initialize
    <3>. QED BY SMTT(20), <1>4, <2>1, <3>1, <3>2 DEF Initialize
  <2>. QED BY <1>4, <2>2, <2>3 DEF Initialize
<1>5. CASE ReadInitial
  BY <1>5 DEF ReadInitial, Loop, Raise
<1>6. CASE RecordInitial
  BY <1>6 DEF RecordInitial, Raise
<1>7. CASE Progress
  BY <1>7 DEF Progress, AfterProgress, Raise
<1>8. CASE Check
  BY <1>8 DEF Check, ObservedStop, IsComplete
<1>9. CASE Route
  BY <1>9 DEF Route, Raise
<1>10. CASE SetInputs
  BY <1>10 DEF SetInputs, Loop, Raise, Routed
<1>11. CASE Advance
  <2>1. UNCHANGED <<life, outcome>> /\ pc' \in {"advance", "read", "terminate"}
    BY <1>11 DEF Advance, AfterAdvance, Loop, Raise
  <2>2. pc' = "terminate" => idx' = 1
    BY <1>11 DEF Advance, AfterAdvance, Loop, Raise
  <2>. QED BY <1>11, <2>1, <2>2 DEF Advance
<1>12. CASE Read
  BY <1>12 DEF Read, Commit, Loop, Raise
<1>13. CASE Record
  BY <1>13 DEF Record, Raise
<1>14. CASE Flush
  BY <1>14 DEF Flush, NeedsFlush, Raise
<1>15. CASE Terminate
  <2>1. \A n \in Nodes : life'[n] =
           IF n = idx /\ life[n] \in {"ready", "partial"} THEN "terminated"
                                                        ELSE life[n]
    BY <1>15 DEF Terminate
  <2>2. UNCHANGED outcome /\ Loop("close")
    BY <1>15 DEF Terminate, AfterTerminate
  <2>3. CASE idx < N
    <3>1. pc' = "terminate" /\ idx' = idx + 1
      BY <1>15, <2>2, <2>3 DEF Terminate, Loop
    <3>2. ASSUME NEW n \in Nodes
          PROVE  /\ life'[n] \in {"created", "partial", "ready", "terminated"}
                 /\ n < idx + 1 => ~(life'[n] \in {"partial", "ready"})
      <4>1. CASE n = idx
        BY <1>15, <2>1, <4>1 DEF Terminate
      <4>2. CASE n # idx
        <5>1. life'[n] = life[n] /\ (n < idx + 1 => n < idx)
          BY <2>1, <4>2
        <5>. QED BY <1>15, <5>1 DEF Terminate
      <4>. QED BY <4>1, <4>2
    <3>. QED BY <1>15, <2>2, <3>1, <3>2 DEF Terminate
  <2>4. CASE ~(idx < N)
    <3>1. pc' = "close" /\ idx' = 1
      BY <1>15, <2>2, <2>4 DEF Terminate, Loop
    <3>2. \A n \in Nodes : life'[n] \in {"created", "terminated"}
      BY <1>15, <2>1, <2>4 DEF Terminate
    <3>. QED BY SMTT(20), <1>15, <2>2, <3>1, <3>2 DEF Terminate
  <2>. QED BY <2>3, <2>4
<1>16. CASE Close
  <2>1. \A n \in Nodes : life'[n] = IF n = idx THEN "closed" ELSE life[n]
    BY <1>16 DEF Close
  <2>2. UNCHANGED outcome /\ Loop("finish")
    BY <1>16 DEF Close, AfterClose
  <2>3. CASE idx < N
    <3>1. pc' = "close" /\ idx' = idx + 1
      BY <1>16, <2>2, <2>3 DEF Close, Loop
    <3>. QED BY <1>16, <2>1, <2>2, <2>3, <3>1 DEF Close
  <2>4. CASE ~(idx < N)
    <3>1. pc' = "finish" /\ \A n \in Nodes : life'[n] = "closed"
      BY <1>16, <2>1, <2>2, <2>4 DEF Close, Loop
    <3>. QED BY <1>16, <2>2, <3>1 DEF Close
  <2>. QED BY <2>3, <2>4
<1>17. CASE Finish
  BY <1>17 DEF Finish
<1>18. CASE Interrupt
  BY <1>18 DEF Interrupt
<1>19. CASE RequestStop
  BY <1>19 DEF RequestStop, runVars
<1>20. CASE UNCHANGED vars
  BY <1>20 DEF vars
<1>. QED BY <1>1, <1>2, <1>3, <1>4, <1>5, <1>6, <1>7, <1>8, <1>9, <1>10, <1>11,
            <1>12, <1>13, <1>14, <1>15, <1>16, <1>17, <1>18, <1>19, <1>20
         DEF Next, Runner

\* Inputs, advances and reads come in whole passes over the nodes, so the
\* checkpoint is committed only when every node has reached it.
LEMMA TimeStep == IInv /\ [Next]_vars => TimeInv'
<1>. SUFFICES ASSUME IInv, [Next]_vars PROVE TimeInv'
  OBVIOUS
<1>. USE NAssumption, StepsAssumption, ConnsAssumption
     DEF IInv, TypeOK, ControlOK, NodesOK, RecordsOK, Nodes, TimeInv, Live, 
         Stepping, Early
<1>1. CASE Enter
  BY <1>1 DEF Enter
<1>2. CASE Create
  BY <1>2 DEF Create, Loop
<1>3. CASE Discard
  BY <1>3 DEF Discard, Discardable
<1>4. CASE Initialize
  <2>1. /\ UNCHANGED <<time, completed>>
        /\ pc' \in {"initialize", "readInitial", "terminate"}
        /\ pc' = "readInitial" => idx' = 1
    BY <1>4 DEF Initialize, Loop, Raise
  <2>. QED BY <1>4, <2>1 DEF Initialize
<1>5. CASE ReadInitial
  <2>1. UNCHANGED <<time, completed>>
    BY <1>5 DEF ReadInitial
  <2>2. CASE Raise("readInitial")
    BY <1>5, <2>1, <2>2 DEF ReadInitial, Raise
  <2>3. CASE /\ fresh' = [fresh EXCEPT ![idx] = time[idx]]
             /\ snapshot' = IF idx = N THEN fresh' ELSE snapshot
             /\ Loop("recordInitial")
    <3>1. \A n \in Nodes : fresh'[n] = IF n = idx THEN time[n] ELSE fresh[n]
      BY <2>3
    <3>2. CASE idx < N
      <4>1. pc' = "readInitial" /\ idx' = idx + 1
        BY <1>5, <2>3, <3>2 DEF ReadInitial, Loop
      <4>2. \A n \in Nodes : n < idx + 1 => fresh'[n] = time[n]
        BY SMTT(20), <1>5, <3>1 DEF ReadInitial
      <4>. QED BY <1>5, <2>1, <4>1, <4>2 DEF ReadInitial
    <3>3. CASE ~(idx < N)
      <4>1. pc' = "recordInitial" /\ snapshot' = fresh'
        BY <1>5, <2>3, <3>3 DEF ReadInitial, Loop
      <4>2. \A n \in Nodes : fresh'[n] = completed
        BY <1>5, <3>1, <3>3 DEF ReadInitial
      <4>. QED BY <1>5, <2>1, <4>1, <4>2 DEF ReadInitial
    <3>. QED BY <3>2, <3>3
  <2>. QED BY <1>5, <2>2, <2>3 DEF ReadInitial
<1>6. CASE RecordInitial
  BY <1>6 DEF RecordInitial, Raise
<1>7. CASE Progress
  BY <1>7 DEF Progress, AfterProgress, Raise
<1>8. CASE Check
  BY <1>8 DEF Check, ObservedStop, IsComplete
<1>9. CASE Route
  BY <1>9 DEF Route, Raise
<1>10. CASE SetInputs
  <2>1. UNCHANGED <<time, completed, snapshot>>
    BY <1>10 DEF SetInputs
  <2>2. CASE Raise("set")
    BY <1>10, <2>1, <2>2 DEF SetInputs, Raise
  <2>3. CASE /\ held' = [c \in Conns |->
                           IF c[2] = idx THEN Routed(c) ELSE held[c]]
             /\ Loop("advance")
    <3>1. \A c \in Conns : c[1] \in Nodes /\ c[2] \in Nodes
      OBVIOUS
    <3>2. \A c \in Conns : c[2] < idx + 1 => held'[c] = completed
      BY SMTT(20), <1>10, <2>3, <3>1 DEF SetInputs, Routed
    <3>3. CASE idx < N
      <4>1. pc' = "set" /\ idx' = idx + 1
        BY <1>10, <2>3, <3>3 DEF SetInputs, Loop
      <4>. QED BY <1>10, <2>1, <3>2, <4>1 DEF SetInputs
    <3>4. CASE ~(idx < N)
      <4>1. pc' = "advance" /\ idx' = 1
        BY <1>10, <2>3, <3>4 DEF SetInputs, Loop
      <4>2. \A c \in Conns : c[2] < idx + 1
        BY <3>1, <3>4
      <4>3. \A c \in Conns : held'[c] = completed
        BY <3>2, <4>2
      <4>. QED BY <1>10, <2>1, <4>1, <4>3 DEF SetInputs
    <3>. QED BY <3>3, <3>4
  <2>. QED BY <1>10, <2>2, <2>3 DEF SetInputs
<1>11. CASE Advance
  <2>1. UNCHANGED <<completed, snapshot, held>>
    BY <1>11 DEF Advance
  <2>2. CASE /\ time' \in {time, [time EXCEPT ![idx] = completed + 1]}
             /\ Raise("advance")
    <3>1. \A n \in Nodes : time'[n] \in {completed, completed + 1}
      BY <2>2
    <3>. QED BY <1>11, <2>1, <2>2, <3>1 DEF Raise
  <2>3. CASE /\ time' = [time EXCEPT ![idx] = completed + 1]
             /\ Loop("read")
    <3>1. \A n \in Nodes :
             time'[n] = IF n = idx THEN completed + 1 ELSE time[n]
      BY <2>3
    <3>2. CASE idx < N
      <4>1. pc' = "advance" /\ idx' = idx + 1
        BY <1>11, <2>3, <3>2 DEF Advance, Loop
      <4>2. \A n \in Nodes :
               time'[n] = IF n < idx + 1 THEN completed + 1 ELSE completed
        BY SMTT(20), <1>11, <3>1 DEF Advance
      <4>. QED BY <1>11, <2>1, <4>1, <4>2 DEF Advance
    <3>3. CASE ~(idx < N)
      <4>1. pc' = "read" /\ idx' = 1
        BY <1>11, <2>3, <3>3 DEF Advance, Loop
      <4>2. \A n \in Nodes : time'[n] = completed + 1
        BY <1>11, <3>1, <3>3 DEF Advance
      <4>. QED BY SMTT(20), <1>11, <2>1, <4>1, <4>2 DEF Advance
    <3>. QED BY <3>2, <3>3
  <2>. QED BY <1>11, <2>2, <2>3 DEF Advance, AfterAdvance
<1>12. CASE Read
  <2>1. UNCHANGED <<time, held>>
    BY <1>12 DEF Read
  <2>2. CASE Raise("read") /\ UNCHANGED <<fresh, snapshot, completed>>
    BY <1>12, <2>1, <2>2 DEF Read, Raise
  <2>3. CASE /\ fresh' = [fresh EXCEPT ![idx] = time[idx]]
             /\ Commit
             /\ Loop("record")
    <3>1. \A n \in Nodes : fresh'[n] = IF n = idx THEN time[n] ELSE fresh[n]
      BY <2>3
    <3>2. CASE idx < N
      <4>1. /\ pc' = "read" /\ idx' = idx + 1
            /\ UNCHANGED <<completed, snapshot>>
        BY <1>12, <2>3, <3>2 DEF Read, Loop, Commit
      <4>2. \A n \in Nodes : n < idx + 1 => fresh'[n] = time[n]
        BY <1>12, <3>1 DEF Read
      <4>. QED BY <1>12, <2>1, <4>1, <4>2 DEF Read
    <3>3. CASE ~(idx < N)
      <4>1. /\ pc' = "record" /\ snapshot' = fresh'
            /\ completed' = completed + 1
        BY <1>12, <2>3, <3>3 DEF Read, Loop, Commit
      <4>2. \A n \in Nodes : fresh'[n] = completed + 1 /\ time[n] = completed + 1
        BY <1>12, <3>1, <3>3 DEF Read
      <4>. QED BY <1>12, <2>1, <4>1, <4>2 DEF Read
    <3>. QED BY <3>2, <3>3
  <2>. QED BY <1>12, <2>2, <2>3 DEF Read
<1>13. CASE Record
  BY <1>13 DEF Record, Raise
<1>14. CASE Flush
  BY <1>14 DEF Flush, NeedsFlush, Raise
<1>15. CASE Terminate
  BY <1>15 DEF Terminate, AfterTerminate, Loop
<1>16. CASE Close
  BY <1>16 DEF Close, AfterClose, Loop
<1>17. CASE Finish
  BY <1>17 DEF Finish
<1>18. CASE Interrupt
  BY <1>18 DEF Interrupt
<1>19. CASE RequestStop
  BY <1>19 DEF RequestStop, runVars
<1>20. CASE UNCHANGED vars
  BY <1>20 DEF vars
<1>. QED BY <1>1, <1>2, <1>3, <1>4, <1>5, <1>6, <1>7, <1>8, <1>9, <1>10, <1>11,
            <1>12, <1>13, <1>14, <1>15, <1>16, <1>17, <1>18, <1>19, <1>20
         DEF Next, Runner

\* A request made after the flag was last read lets one macro-step finish.
LEMMA StopStep == IInv /\ [Next]_vars => StopInv'
<1>. SUFFICES ASSUME IInv, [Next]_vars PROVE StopInv'
  OBVIOUS
<1>. USE StepsAssumption
     DEF IInv, TypeOK, ControlOK, RecordsOK, StopInv, Stepping, Early, 
         TimeInv
<1>1. CASE Enter
  BY <1>1 DEF Enter
<1>2. CASE Create
  BY <1>2 DEF Create, Loop
<1>3. CASE Discard
  BY <1>3 DEF Discard, Discardable
<1>4. CASE Initialize
  BY <1>4 DEF Initialize, Loop, Raise
<1>5. CASE ReadInitial
  BY <1>5 DEF ReadInitial, Loop, Raise
<1>6. CASE RecordInitial
  BY <1>6 DEF RecordInitial, Raise
<1>7. CASE Progress
  BY <1>7 DEF Progress, AfterProgress, Raise
<1>8. CASE Check
  BY <1>8 DEF Check, ObservedStop, IsComplete
<1>9. CASE Route
  BY <1>9 DEF Route, Raise
<1>10. CASE SetInputs
  BY <1>10 DEF SetInputs, Loop, Raise, Routed
<1>11. CASE Advance
  BY <1>11 DEF Advance, AfterAdvance, Loop, Raise
<1>12. CASE Read
  <2>1. UNCHANGED <<stop, stopAt>> /\ completed' \in {completed, completed + 1}
    BY <1>12 DEF Read, Commit
  <2>2. pc' \in {"read", "record", "terminate"}
    BY <1>12 DEF Read, Loop, Raise
  <2>3. pc' = "read" => completed' = completed
    <3>1. CASE idx < N
      BY <1>12, <3>1, NAssumption DEF Nodes, Read, Commit
    <3>2. CASE ~(idx < N)
      BY <1>12, <3>2, NAssumption DEF Nodes, Read, Loop, Raise
    <3>. QED BY <3>1, <3>2
  <2>. QED BY <1>12, <2>1, <2>2, <2>3 DEF Read
<1>13. CASE Record
  BY <1>13 DEF Record, Raise
<1>14. CASE Flush
  BY <1>14 DEF Flush, NeedsFlush, Raise
<1>15. CASE Terminate
  BY <1>15 DEF Terminate, AfterTerminate, Loop
<1>16. CASE Close
  BY <1>16 DEF Close, AfterClose, Loop
<1>17. CASE Finish
  BY <1>17 DEF Finish
<1>18. CASE Interrupt
  BY <1>18 DEF Interrupt
<1>19. CASE RequestStop
  BY <1>19 DEF RequestStop, runVars
<1>20. CASE UNCHANGED vars
  BY <1>20 DEF vars
<1>. QED BY <1>1, <1>2, <1>3, <1>4, <1>5, <1>6, <1>7, <1>8, <1>9, <1>10, <1>11,
            <1>12, <1>13, <1>14, <1>15, <1>16, <1>17, <1>18, <1>19, <1>20
         DEF Next, Runner

-----------------------------------------------------------------------------
(* The initial state, and the theorems. *)

\* A run that has not started satisfies the inductive invariant.
LEMMA InitIInv == Init => IInv
<1>. SUFFICES ASSUME Init PROVE IInv
  OBVIOUS
<1>1. ControlOK
  <2>1. pc \in Points /\ primary \in Causes /\ idx \in Nodes
    BY NAssumption DEF Init, Points, Calls, Causes, Nodes
  <2>2. stop \in BOOLEAN /\ stopped \in BOOLEAN /\ outcome = "none"
    BY DEF Init
  <2>. QED BY <2>1, <2>2 DEF ControlOK
<1>. USE NAssumption, StepsAssumption, ConnsAssumption DEF Init, Nodes
<1>2. NodesOK
  BY DEF NodesOK, Lives
<1>3. RecordsOK
  BY DEF RecordsOK
<1>4. LifeInv
  BY DEF LifeInv, Live, Stepping
<1>5. TimeInv
  BY DEF TimeInv, Live, Stepping, Early
<1>6. StopInv
  BY DEF StopInv
<1>. QED BY <1>1, <1>2, <1>3, <1>4, <1>5, <1>6 DEF IInv, TypeOK

\* The invariant is inductive.
LEMMA InductiveStep == IInv /\ [Next]_vars => IInv'
<1>. SUFFICES ASSUME IInv, [Next]_vars PROVE IInv'
  OBVIOUS
<1>1. ControlOK' /\ NodesOK' /\ RecordsOK'
  BY ControlStep, NodesStep, RecordsStep
<1>2. TypeOK'
  BY <1>1 DEF TypeOK
<1>3. LifeInv' /\ TimeInv' /\ StopInv'
  BY LifeStep, TimeStep, StopStep
<1>. QED BY <1>2, <1>3 DEF IInv

\* Every reachable state satisfies it.
THEOREM Invariance == Spec => []IInv
BY InitIInv, InductiveStep, PTL DEF Spec

\* The state of a run is always well typed: no loop over the bindings runs past
\* its last node, and no step is taken past stop_time.
THEOREM TypeCorrect == Spec => []TypeOK
<1>1. IInv => TypeOK
  BY DEF IInv
<1>. QED BY <1>1, Invariance, PTL

\* Whenever a run stands at a checkpoint, every node stands there and the
\* snapshot is exactly that checkpoint's; in between no node is more than one
\* macro-step ahead of the last commit.
THEOREM Barrier == Spec => []CheckpointBarrier
<1>1. IInv => CheckpointBarrier
  BY DEF IInv, TimeInv, CheckpointBarrier, AtCheckpoint, Live, Stepping, Early
<1>. QED BY <1>1, Invariance, PTL

\* A requested stop never costs more than the macro-step under way.
THEOREM StopBounded == Spec => []StopWithinOneStep
<1>1. IInv => StopWithinOneStep
  BY DEF IInv, StopInv, StopWithinOneStep
<1>. QED BY <1>1, Invariance, PTL

\* A run that returns or raises has closed every runtime it created.
THEOREM Released == Spec => []EveryRuntimeReleased
<1>1. IInv => EveryRuntimeReleased
  BY DEF IInv, LifeInv, EveryRuntimeReleased
<1>. QED BY <1>1, Invariance, PTL

\* A node that advances holds, on every connection into it, the output its
\* source had at the checkpoint the macro-step starts from.
THEOREM Jacobi == Spec => JacobiStep
<1>. DEFINE Step == \A n \in Nodes : time'[n] # time[n] =>
                       \A c \in Conns : c[2] = n => held[c] = time[n]
<1>1. IInv /\ [Next]_vars => [Step]_vars
  <2>. SUFFICES ASSUME IInv, Next, NEW n \in Nodes, time'[n] # time[n],
                       NEW c \in Conns, c[2] = n
                PROVE  held[c] = time[n]
    OBVIOUS
  <2>1. Advance
    BY DEF Next, Runner, Enter, Create, Discard, Initialize, ReadInitial,
           RecordInitial, Progress, Check, Route, SetInputs, Read, Record,
           Flush, Terminate, Close, Finish, Interrupt, RequestStop, runVars
  <2>2. n = idx /\ pc = "advance"
    BY <2>1 DEF Advance, IInv, TypeOK, NodesOK
  <2>3. held[c] = completed /\ time[n] = completed
    BY <2>2 DEF IInv, TypeOK, ControlOK, TimeInv, Nodes
  <2>. QED BY <2>3
<1>. QED BY <1>1, Invariance, PTL DEF Spec, JacobiStep

\* No runtime is closed while another one is initialized and not terminated.
THEOREM TerminateFirst == Spec => TerminateAllThenClose
<1>. DEFINE Step == \A n \in Nodes : life[n] # "closed" /\ life'[n] = "closed" =>
                       \A m \in Nodes : life[m] \notin {"ready", "partial"}
<1>1. IInv /\ [Next]_vars => [Step]_vars
  <2>. SUFFICES ASSUME IInv, Next, NEW n \in Nodes,
                       life[n] # "closed", life'[n] = "closed",
                       NEW m \in Nodes
                PROVE  life[m] \notin {"ready", "partial"}
    OBVIOUS
  <2>1. Discard \/ Close
    BY DEF Next, Runner, Enter, Create, Initialize, ReadInitial, RecordInitial,
           Progress, Check, Route, SetInputs, Advance, Read, Record, Flush,
           Terminate, Finish, Interrupt, RequestStop, runVars,
           IInv, TypeOK, NodesOK
  <2>2. CASE Discard
    BY <2>2 DEF Discard, IInv, LifeInv
  <2>3. CASE Close
    BY <2>3 DEF Close, IInv, LifeInv
  <2>. QED BY <2>1, <2>2, <2>3
<1>. QED BY <1>1, Invariance, PTL DEF Spec, TerminateAllThenClose

-----------------------------------------------------------------------------
(* GraphRun implements GlobalCheckpoint: hiding the nodes, a run is a      *)
(* counter of committed checkpoints, each reported before the next is      *)
(* begun, and a set of runtimes that is empty when the run ends.           *)

\* The last checkpoint reported at each point of run(), and the absence of a
\* primary error until the cleanup.
ReportInv ==
    /\ pc \in Early => reported = -1
    /\ pc \in {"progress", "record"} => reported = completed - 1
    /\ pc = "record" => completed > 0
    /\ pc = "check" => reported = IF completed = 0 THEN 0 ELSE completed - 1
    /\ pc \in Stepping \ {"progress"} => reported = completed
    /\ pc \notin Ending \union {"discard"} => primary = "none"
    /\ pc = "discard" => primary # "none"
    /\ pc \in {"flush", "terminate", "close", "finish"} =>
          primary # "none" \/ stopped \/ completed = Steps

RInv == IInv /\ ReportInv

\* What was reported and whether an error is pending follow run() step by step.
LEMMA ReportStep == RInv /\ [Next]_vars => ReportInv'
<1>. SUFFICES ASSUME RInv, [Next]_vars PROVE ReportInv'
  OBVIOUS
<1>. USE NAssumption, StepsAssumption
     DEF RInv, IInv, TypeOK, ControlOK, RecordsOK, Nodes, LifeInv, TimeInv,
         ReportInv, Stepping, Early, Ending
<1>1. CASE Enter
  BY <1>1 DEF Enter
<1>2. CASE Create
  BY <1>2 DEF Create, Loop
<1>3. CASE Discard
  BY <1>3 DEF Discard, Discardable
<1>4. CASE Initialize
  BY <1>4 DEF Initialize, Loop, Raise
<1>5. CASE ReadInitial
  BY <1>5 DEF ReadInitial, Loop, Raise
<1>6. CASE RecordInitial
  BY <1>6 DEF RecordInitial, Raise
<1>7. CASE Progress
  BY <1>7 DEF Progress, AfterProgress, Raise
<1>8. CASE Check
  BY <1>8 DEF Check, ObservedStop, IsComplete
<1>9. CASE Route
  BY <1>9 DEF Route, Raise
<1>10. CASE SetInputs
  BY <1>10 DEF SetInputs, Loop, Raise, Routed
<1>11. CASE Advance
  BY <1>11 DEF Advance, AfterAdvance, Loop, Raise
<1>12. CASE Read
  <2>1. UNCHANGED <<reported, stopped>>
    BY <1>12 DEF Read
  <2>2. CASE Raise("read")
    BY <1>12, <2>1, <2>2 DEF Read, Raise
  <2>3. CASE Commit /\ Loop("record") /\ UNCHANGED primary
    <3>1. CASE idx < N
      <4>1. pc' = "read" /\ completed' = completed
        BY <1>12, <2>3, <3>1 DEF Read, Commit, Loop
      <4>. QED BY <1>12, <2>1, <2>3, <4>1 DEF Read
    <3>2. CASE ~(idx < N)
      <4>1. pc' = "record" /\ completed' = completed + 1
        BY <1>12, <2>3, <3>2 DEF Read, Commit, Loop
      <4>. QED BY <1>12, <2>1, <2>3, <4>1 DEF Read
    <3>. QED BY <3>1, <3>2
  <2>. QED BY <1>12, <2>2, <2>3 DEF Read
<1>13. CASE Record
  BY <1>13 DEF Record, Raise
<1>14. CASE Flush
  BY <1>14 DEF Flush, NeedsFlush, Raise
<1>15. CASE Terminate
  BY <1>15 DEF Terminate, AfterTerminate, Loop
<1>16. CASE Close
  BY <1>16 DEF Close, AfterClose, Loop
<1>17. CASE Finish
  BY <1>17 DEF Finish
<1>18. CASE Interrupt
  BY <1>18 DEF Interrupt
<1>19. CASE RequestStop
  BY <1>19 DEF RequestStop, runVars
<1>20. CASE UNCHANGED vars
  BY <1>20 DEF vars
<1>. QED BY <1>1, <1>2, <1>3, <1>4, <1>5, <1>6, <1>7, <1>8, <1>9, <1>10, <1>11,
            <1>12, <1>13, <1>14, <1>15, <1>16, <1>17, <1>18, <1>19, <1>20
         DEF Next, Runner

-----------------------------------------------------------------------------
(* The refinement mapping: the runtimes that exist and are not closed. *)

live == {n \in Nodes : life[n] \notin {"absent", "closed"}}

\* A step that touches no runtime and nothing the caller sees is a stutter.
LEMMA Stutter ==
    ASSUME live' = live, UNCHANGED <<completed, reported, outcome>>
    PROVE  UNCHANGED Checkpoints!vars
BY DEF Checkpoints!vars, live

\* Every step of run() is a step of GlobalCheckpoint or a stutter.
LEMMA RefinedStep == RInv /\ [Next]_vars => [Checkpoints!Next]_(Checkpoints!vars)
<1>. SUFFICES ASSUME RInv, [Next]_vars
              PROVE  Checkpoints!Next \/ UNCHANGED Checkpoints!vars
  OBVIOUS
<1>1. CASE Enter
  <2>1. UNCHANGED <<life, completed, reported>>
    BY <1>1 DEF Enter
  <2>2. CASE outcome' = "CANCELLED"
    <3>1. outcome = "none" /\ reported = -1 /\ live = {}
      BY <1>1 DEF Enter, RInv, IInv, LifeInv, ReportInv, Early, live
    <3>2. Checkpoints!Finish("CANCELLED")
      BY <2>1, <2>2, <3>1
         DEF Checkpoints!Finish, Checkpoints!Running, Checkpoints!Results, live
    <3>. QED BY <3>2 DEF Checkpoints!Next, Checkpoints!Outcomes
  <2>3. CASE UNCHANGED outcome
    BY <2>1, <2>3, Stutter DEF live
  <2>. QED BY <1>1, <2>2, <2>3 DEF Enter
<1>2. CASE Create
  <2>1. UNCHANGED <<completed, reported, outcome>>
    BY <1>2 DEF Create
  <2>2. CASE life' = [life EXCEPT ![idx] = "created"]
    <3>1. /\ idx \in Nodes /\ life \in [Nodes -> Lives]
          /\ life[idx] = "absent" /\ outcome = "none"
          /\ completed = 0 /\ reported = -1
      BY <1>2 DEF Create, RInv, IInv, TypeOK, ControlOK, NodesOK, Nodes,
                  LifeInv, TimeInv, ReportInv, Early
    <3>2. PICK n \in Nodes : n = idx
      BY <3>1
    <3>3. live' = live \union {n} /\ n \notin live
      BY <2>2, <3>1, <3>2 DEF live
    <3>4. Checkpoints!Acquire(n)
      BY <2>1, <3>1, <3>3 DEF Checkpoints!Acquire, Checkpoints!Running, live
    <3>. QED BY <3>4 DEF Checkpoints!Next
  <2>3. CASE UNCHANGED life
    BY <2>1, <2>3, Stutter DEF live
  <2>. QED BY <1>2, <2>2, <2>3 DEF Create
<1>3. CASE Discard \/ Close
  <2>1. /\ life' = [life EXCEPT ![idx] = "closed"]
        /\ UNCHANGED <<completed, reported, outcome>>
    BY <1>3 DEF Discard, Close
  <2>2. /\ idx \in Nodes /\ life \in [Nodes -> Lives] /\ outcome = "none"
        /\ life[idx] \notin {"absent", "closed"}
    BY <1>3 DEF Discard, Close, RInv, IInv, TypeOK, ControlOK, NodesOK, Nodes,
                LifeInv
  <2>3. PICK n \in Nodes : n = idx
    BY <2>2
  <2>4. live' = live \ {n} /\ n \in live
    BY <2>1, <2>2, <2>3 DEF live
  <2>5. Checkpoints!Release(n)
    BY <2>1, <2>2, <2>4 DEF Checkpoints!Release, Checkpoints!Running, live
  <2>. QED BY <2>5 DEF Checkpoints!Next
<1>4. CASE Initialize \/ Terminate
  <2>1. UNCHANGED <<completed, reported, outcome>>
    BY <1>4 DEF Initialize, Terminate
  <2>2. \A n \in Nodes : life'[n] \in {"absent", "closed"}
                            <=> life[n] \in {"absent", "closed"}
    <3>1. life \in [Nodes -> Lives] /\ idx \in Nodes
      BY DEF RInv, IInv, TypeOK, ControlOK, NodesOK
    <3>2. life[idx] \notin {"absent", "closed"}
      BY <1>4, <3>1 DEF Initialize, Terminate, RInv, IInv, LifeInv, Nodes
    <3>3. life' = life \/ \E l \in Lives \ {"absent", "closed"} :
                             life' = [life EXCEPT ![idx] = l]
      BY <1>4 DEF Initialize, Terminate, Raise, Lives
    <3>. QED BY <3>1, <3>2, <3>3
  <2>. QED BY <2>1, <2>2, Stutter DEF live
<1>5. CASE Progress
  <2>1. UNCHANGED <<life, completed, outcome>>
    BY <1>5 DEF Progress
  <2>2. CASE reported' = completed
    <3>1. /\ outcome = "none" /\ reported < completed /\ completed < Steps
          /\ \A n \in Nodes : life[n] = "ready"
      BY <1>5 DEF Progress, RInv, IInv, TypeOK, RecordsOK, LifeInv, TimeInv,
                  ReportInv, Live, Stepping
    <3>2. live = Nodes
      BY <3>1 DEF live
    <3>3. Checkpoints!Report
      BY <2>1, <2>2, <3>1, <3>2 DEF Checkpoints!Report, Checkpoints!Running, live
    <3>. QED BY <3>3 DEF Checkpoints!Next
  <2>3. CASE UNCHANGED reported
    BY <2>1, <2>3, Stutter DEF live
  <2>. QED BY <1>5, <2>2, <2>3 DEF Progress
<1>6. CASE Read
  <2>1. UNCHANGED <<life, reported, outcome>>
    BY <1>6 DEF Read
  <2>2. CASE completed' = completed + 1
    <3>1. /\ outcome = "none" /\ reported = completed /\ completed < Steps
          /\ \A n \in Nodes : life[n] = "ready"
      BY <1>6 DEF Read, RInv, IInv, LifeInv, TimeInv, ReportInv, Live, Stepping
    <3>2. live = Nodes
      BY <3>1 DEF live
    <3>3. Checkpoints!Commit
      BY <2>1, <2>2, <3>1, <3>2 DEF Checkpoints!Commit, Checkpoints!Running, live
    <3>. QED BY <3>3 DEF Checkpoints!Next
  <2>3. CASE UNCHANGED completed
    BY <2>1, <2>3, Stutter DEF live
  <2>. QED BY <1>6, <2>2, <2>3 DEF Read, Commit
<1>7. CASE Finish
  <2>1. UNCHANGED <<life, completed>>
    BY <1>7 DEF Finish
  <2>2. outcome = "none" /\ live = {}
    BY <1>7 DEF Finish, RInv, IInv, LifeInv, live
  <2>3. CASE outcome' = "FAILED" /\ UNCHANGED reported
    <3>1. Checkpoints!Finish("FAILED")
      BY <2>1, <2>2, <2>3
         DEF Checkpoints!Finish, Checkpoints!Running, Checkpoints!Results, live
    <3>. QED BY <3>1 DEF Checkpoints!Next, Checkpoints!Outcomes
  <2>4. CASE /\ primary = "none" /\ reported' = completed
             /\ outcome' = IF stopped THEN "STOPPED" ELSE "COMPLETED"
    <3>1. stopped \/ completed = Steps
      BY <1>7, <2>4 DEF Finish, RInv, ReportInv
    <3>2. outcome' \in Checkpoints!Results
      BY <2>4 DEF Checkpoints!Results
    <3>3. Checkpoints!Finish(outcome')
      BY <2>1, <2>2, <2>4, <3>1, <3>2
         DEF Checkpoints!Finish, Checkpoints!Running, live
    <3>. QED BY <3>2, <3>3 DEF Checkpoints!Next, Checkpoints!Outcomes
  <2>. QED BY <1>7, <2>3, <2>4 DEF Finish
<1>8. CASE Interrupt
  <2>1. outcome = "none"
    BY <1>8 DEF Interrupt, RInv, IInv, LifeInv
  <2>2. Checkpoints!Abandon
    BY <1>8, <2>1 DEF Interrupt, Checkpoints!Abandon, Checkpoints!Running
  <2>. QED BY <2>2 DEF Checkpoints!Next
<1>9. CASE \/ ReadInitial \/ RecordInitial \/ Check \/ Route \/ SetInputs
           \/ Advance \/ Record \/ Flush \/ RequestStop \/ UNCHANGED vars
  <2>1. UNCHANGED <<life, completed, reported, outcome>>
    BY <1>9 DEF ReadInitial, RecordInitial, Check, Route, SetInputs, Advance,
                Record, Flush, RequestStop, runVars, vars
  <2>. QED BY <2>1, Stutter DEF live
<1>. QED BY <1>1, <1>2, <1>3, <1>4, <1>5, <1>6, <1>7, <1>8, <1>9
         DEF Next, Runner

\* What was reported and whether an error is pending agree with the point of run().
LEMMA ReportInvariance == Spec => []RInv
<1>1. Init => RInv
  <2>1. Init => ReportInv
    BY StepsAssumption DEF Init, ReportInv, Early, Stepping, Ending
  <2>. QED BY <2>1, InitIInv DEF RInv
<1>2. RInv /\ [Next]_vars => RInv'
  BY ReportStep, InductiveStep DEF RInv
<1>. QED BY <1>1, <1>2, PTL DEF Spec

\* A graph run is a GlobalCheckpoint run.
THEOREM Refinement == Spec => ImplementsGlobalCheckpoint
<1>1. Init => Checkpoints!Init
  BY DEF Init, Checkpoints!Init
<1>. QED BY <1>1, ReportInvariance, RefinedStep, PTL
         DEF Spec, ImplementsGlobalCheckpoint, Checkpoints!Spec

-----------------------------------------------------------------------------
(* The samples of the result. *)

Has(s, k) == \E i \in 1..Len(s) : s[i] = k
Increasing(s) == \A i \in 1..Len(s) - 1 : s[i] < s[i + 1]

RecordedBefore ==
    \A k \in 0..completed : Has(samples, k) <=> (k % Stride = 0 /\ k < completed)
RecordedUpTo == \A k \in 0..completed : Has(samples, k) <=> k % Stride = 0
RecordedAll == \A k \in 0..completed : Has(samples, k) <=> IsRecorded(k)
EndReached == IF stopped THEN stop ELSE completed = Steps

\* The try block was left without an error.
Succeeded ==
    /\ primary = "none"
    /\ pc \in {"terminate", "close", "finish"} \/ outcome \in Results

\* Which checkpoints are recorded at each point of run(), and what holds once the
\* loop was left.
SampleInv ==
    /\ Increasing(samples)
    /\ \A i \in 1..Len(samples) : samples[i] <= completed
    /\ pc \in Early => samples = <<>>
    /\ pc \in Stepping \union {"check", "flush"} => samples # <<>> /\ RecordedUpTo
    /\ pc = "record" => samples # <<>> /\ RecordedBefore
    /\ pc = "flush" => EndReached
    /\ outcome \in Results => primary = "none"
    /\ Succeeded =>
          RecordedAll /\ EndReached /\ \A n \in Nodes : time[n] = completed

\* An appended element is the only new one.
LEMMA AppendHas ==
    ASSUME NEW s \in Seq(Nat), NEW x \in Nat
    PROVE  \A k : Has(Append(s, x), k) <=> (Has(s, k) \/ k = x)
<1>1. /\ Len(Append(s, x)) = Len(s) + 1 /\ Len(s) \in Nat
      /\ \A i \in 1..Len(s) : Append(s, x)[i] = s[i]
      /\ Append(s, x)[Len(s) + 1] = x
  OBVIOUS
<1>2. \A i : i \in 1..Len(s) + 1 <=> (i \in 1..Len(s) \/ i = Len(s) + 1)
  BY <1>1
<1>. QED BY <1>1, <1>2 DEF Has

\* A sequence stays increasing when something larger is appended.
LEMMA AppendIncreasing ==
    ASSUME NEW s \in Seq(Nat), NEW x \in Nat, Increasing(s),
           s # <<>> => s[Len(s)] < x
    PROVE  Increasing(Append(s, x))
<1>1. /\ Len(Append(s, x)) = Len(s) + 1 /\ Len(s) \in Nat
      /\ \A i \in 1..Len(s) : Append(s, x)[i] = s[i]
      /\ Append(s, x)[Len(s) + 1] = x
  OBVIOUS
<1>2. SUFFICES ASSUME NEW i \in 1..Len(s) PROVE Append(s, x)[i] < Append(s, x)[i + 1]
  BY <1>1 DEF Increasing
<1>3. CASE i = Len(s)
  BY <1>1, <1>3
<1>4. CASE i # Len(s)
  BY <1>1, <1>4 DEF Increasing
<1>. QED BY <1>3, <1>4

\* The types of what the proofs below compare.
LEMMA RecordTypes ==
    ASSUME IInv
    PROVE  /\ completed \in Nat /\ samples \in Seq(Nat) /\ Len(samples) \in Nat
           /\ \A i \in 1..Len(samples) : samples[i] \in Nat
           /\ Steps \in Nat /\ Stride \in Nat \ {0}
<1>1. completed \in Nat /\ samples \in Seq(0..Steps)
  BY StepsAssumption DEF IInv, TypeOK, RecordsOK
<1>2. Len(samples) \in Nat /\ \A i \in 1..Len(samples) : samples[i] \in Nat
  BY <1>1, StepsAssumption
<1>3. samples = [i \in 1..Len(samples) |-> samples[i]]
  BY <1>1
<1>4. samples \in Seq(Nat)
  BY <1>2, <1>3
<1>. QED BY <1>1, <1>2, <1>4, StepsAssumption, StrideAssumption

\* A checkpoint is recorded when every recorded one is behind it.
LEMMA RecordKeepsSamples ==
    IInv /\ SampleInv /\ (RecordInitial \/ Record \/ Flush) => SampleInv'
<1>. SUFFICES ASSUME IInv, SampleInv, RecordInitial \/ Record \/ Flush PROVE SampleInv'
  OBVIOUS
<1>1. /\ completed \in Nat /\ samples \in Seq(Nat) /\ Len(samples) \in Nat
      /\ \A i \in 1..Len(samples) : samples[i] \in Nat
      /\ Steps \in Nat /\ Stride \in Nat \ {0}
  BY RecordTypes
<1>2. /\ UNCHANGED <<completed, stop, stopped, time, outcome>> /\ outcome = "none"
      /\ pc \in {"recordInitial", "record", "flush"}
  BY DEF RecordInitial, Record, Flush, Raise, IInv, LifeInv
<1>3. /\ Increasing(samples)
      /\ \A i \in 1..Len(samples) : samples[i] <= completed
  BY DEF SampleInv
<1>4. /\ outcome' \notin Results
      /\ "terminate" \notin Early \union Stepping \union {"check", "flush", "record"}
  BY <1>2 DEF Results, Early, Stepping
<1>5. CASE primary' # "none" /\ samples' = samples /\ pc' = "terminate"
  BY <1>2, <1>3, <1>4, <1>5 DEF SampleInv, Succeeded
<1>6. CASE
        /\ primary' = primary
        /\ pc = "recordInitial" =>
              pc' = "progress" /\ samples' = Append(samples, completed)
        /\ pc = "record" =>
              /\ pc' = "check"
              /\ samples' = IF completed % Stride = 0 THEN Append(samples, completed)
                                                      ELSE samples
        /\ pc = "flush" =>
              /\ pc' = "terminate"
              /\ samples' = IF NeedsFlush THEN Append(samples, completed) ELSE samples
  <2>1. \/ samples' = Append(samples, completed)
        \/ samples' = samples
    BY <1>2, <1>6
  <2>2. ASSUME samples' = Append(samples, completed), samples # <<>>
        PROVE  samples[Len(samples)] < completed
    <3>1. Len(samples) \in 1..Len(samples)
      BY <1>1, <2>2
    <3>2. CASE pc = "recordInitial"
      BY <2>2, <3>2 DEF SampleInv, Early
    <3>3. CASE pc = "record"
      <4>1. Has(samples, samples[Len(samples)]) /\ samples[Len(samples)] \in 0..completed
        BY <1>1, <1>3, <3>1 DEF Has
      <4>. QED BY <3>3, <4>1 DEF SampleInv, RecordedBefore
    <3>4. CASE pc = "flush"
      <4>1. samples' # samples
        BY <1>1, <2>2
      <4>2. samples[Len(samples)] # completed
        BY <1>6, <3>4, <4>1 DEF NeedsFlush, FinalSample
      <4>. QED BY <1>1, <1>3, <3>1, <4>2
    <3>. QED BY <1>2, <3>2, <3>3, <3>4
  <2>3. Increasing(samples')
    BY <1>1, <1>3, <2>1, <2>2, AppendIncreasing
  <2>4. /\ \A i \in 1..Len(samples') : samples'[i] <= completed
        /\ samples' = Append(samples, completed) => samples' # <<>>
    BY <1>1, <1>3, <2>1
  <2>5. samples' = Append(samples, completed) =>
           \A k : Has(samples', k) <=> (Has(samples, k) \/ k = completed)
    BY <1>1, AppendHas
  <2>6. CASE pc = "recordInitial"
    <3>1. samples = <<>> /\ completed = 0
      BY <2>6 DEF SampleInv, Early, IInv, TimeInv
    <3>2. samples' = Append(samples, completed)
      BY <1>6, <2>6
    <3>3. ~Has(samples, 0) /\ 0 % Stride = 0
      BY <1>1, <3>1 DEF Has
    <3>4. RecordedUpTo'
      BY <1>2, <2>5, <3>1, <3>2, <3>3 DEF RecordedUpTo
    <3>. QED BY <1>2, <1>4, <1>6, <2>3, <2>4, <2>6, <3>2, <3>4
             DEF SampleInv, Succeeded, Early, Stepping
  <2>7. CASE pc = "record"
    <3>1. samples # <<>> /\ RecordedBefore
      BY <2>7 DEF SampleInv
    <3>2. samples' = IF completed % Stride = 0 THEN Append(samples, completed) ELSE samples
      BY <1>6, <2>7
    <3>3. RecordedUpTo'
      BY <1>1, <1>2, <2>5, <3>1, <3>2 DEF RecordedUpTo, RecordedBefore
    <3>4. samples' # <<>>
      BY <2>4, <3>1, <3>2
    <3>. QED BY <1>2, <1>4, <1>6, <2>3, <2>4, <2>7, <3>3, <3>4
             DEF SampleInv, Succeeded, Early, Stepping
  <2>8. CASE pc = "flush"
    <3>1. samples # <<>> /\ RecordedUpTo /\ EndReached
      BY <2>8 DEF SampleInv
    <3>2. samples' = IF samples[Len(samples)] # completed
                     THEN Append(samples, completed) ELSE samples
      BY <1>6, <2>8 DEF NeedsFlush, FinalSample
    <3>3. samples[Len(samples)] = completed => Has(samples, completed)
      BY <1>1, <3>1 DEF Has
    <3>4. RecordedAll'
      BY <1>1, <1>2, <2>5, <3>1, <3>2, <3>3 DEF RecordedUpTo, RecordedAll, IsRecorded
    <3>5. EndReached' /\ \A n \in Nodes : time'[n] = completed'
      BY <1>2, <2>8, <3>1 DEF EndReached, IInv, TimeInv
    <3>. QED BY <1>2, <1>4, <1>6, <2>3, <2>4, <2>8, <3>4, <3>5 DEF SampleInv, Succeeded
  <2>. QED BY <1>2, <2>6, <2>7, <2>8
<1>7. CASE RecordInitial
  BY <1>5, <1>6, <1>7 DEF RecordInitial, Raise
<1>8. CASE Record
  BY <1>5, <1>6, <1>8 DEF Record, Raise
<1>9. CASE Flush
  BY <1>5, <1>6, <1>9 DEF Flush, Raise
<1>. QED BY <1>7, <1>8, <1>9

\* The commit of a checkpoint makes it the one still to be recorded.
LEMMA CommitKeepsSamples == IInv /\ SampleInv /\ Read => SampleInv'
<1>. SUFFICES ASSUME IInv, SampleInv, Read PROVE SampleInv'
  OBVIOUS
<1>1. /\ completed \in Nat /\ samples \in Seq(Nat) /\ Len(samples) \in Nat
      /\ \A i \in 1..Len(samples) : samples[i] \in Nat
  BY RecordTypes
<1>2. /\ pc = "read" /\ UNCHANGED <<samples, outcome>> /\ outcome = "none"
  BY DEF Read, IInv, LifeInv
<1>3. /\ Increasing(samples) /\ samples # <<>> /\ RecordedUpTo
      /\ \A i \in 1..Len(samples) : samples[i] <= completed
  BY <1>2 DEF SampleInv, Stepping
<1>4. CASE Raise("read") /\ UNCHANGED completed
  BY <1>2, <1>3, <1>4 DEF Raise, SampleInv, Succeeded, Results, Early, Stepping
<1>5. CASE Commit /\ Loop("record") /\ UNCHANGED primary
  <2>1. CASE idx < N
    <3>1. pc' = "read" /\ completed' = completed
      <4>1. idx # N
        BY <2>1, NAssumption DEF IInv, TypeOK, ControlOK, Nodes
      <4>. QED BY <1>2, <1>5, <2>1, <4>1 DEF Commit, Loop
    <3>2. RecordedUpTo'
      BY <1>2, <1>3, <3>1 DEF RecordedUpTo
    <3>. QED BY <1>2, <1>3, <3>1, <3>2
             DEF SampleInv, Succeeded, Results, Early, Stepping
  <2>2. CASE ~(idx < N)
    <3>1. idx = N /\ pc' = "record" /\ completed' = completed + 1
      BY <1>2, <1>5, <2>2, NAssumption DEF Commit, Loop, IInv, TypeOK, ControlOK, Nodes
    <3>2. ~Has(samples, completed + 1) /\ \A i \in 1..Len(samples) : samples[i] <= completed + 1
      BY <1>1, <1>3 DEF Has
    <3>3. RecordedBefore'
      <4>1. ASSUME NEW k \in 0..completed + 1
            PROVE Has(samples, k) <=> (k % Stride = 0 /\ k < completed + 1)
        <5>1. CASE k = completed + 1
          BY <1>1, <3>2, <5>1
        <5>2. CASE k # completed + 1
          <6>1. k \in 0..completed /\ k < completed + 1
            BY <1>1, <4>1, <5>2
          <6>. QED BY <1>3, <6>1 DEF RecordedUpTo
        <5>. QED BY <5>1, <5>2
      <4>. QED BY <1>2, <3>1, <4>1 DEF RecordedBefore
    <3>. QED BY <1>2, <1>3, <3>1, <3>2, <3>3
             DEF SampleInv, Succeeded, Results, Early, Stepping
  <2>. QED BY <2>1, <2>2
<1>. QED BY <1>4, <1>5 DEF Read

\* Only a run that leaves its loop without an error comes to be Succeeded.
LEMMA SampleStep == RInv /\ SampleInv /\ [Next]_vars => SampleInv'
<1>. SUFFICES ASSUME IInv, ReportInv, SampleInv, [Next]_vars PROVE SampleInv'
  BY DEF RInv
<1>1. CASE RecordInitial \/ Record \/ Flush
  BY <1>1, RecordKeepsSamples
<1>2. CASE Read
  BY <1>2, CommitKeepsSamples
<1>3. CASE /\ UNCHANGED <<samples, completed>>
           /\ ~RecordInitial /\ ~Record /\ ~Flush /\ ~Read
  <2>1. /\ RecordedBefore' <=> RecordedBefore
        /\ RecordedUpTo' <=> RecordedUpTo
        /\ RecordedAll' <=> RecordedAll
        /\ Increasing(samples)' <=> Increasing(samples)
    BY <1>3 DEF RecordedBefore, RecordedUpTo, RecordedAll, IsRecorded, Increasing
  <2>2. stop => stop'
    BY <1>3 DEF Next, Runner, Enter, Create, Discard, Initialize, ReadInitial, Progress, Check,
       Route, SetInputs, Advance, Terminate, Close, Finish, Interrupt, RequestStop, vars
  <2>3. /\ \A i \in 1..Len(samples') : samples'[i] <= completed'
        /\ EndReached /\ UNCHANGED stopped => EndReached'
    BY <1>3, <2>2 DEF SampleInv, EndReached
  <2>4. /\ pc' \in Early => pc \in Early
        /\ pc' \in Stepping \union {"check", "flush"} =>
              pc \in Stepping \union {"check", "flush"}
        /\ pc' = "record" => pc = "record"
        /\ pc' = "flush" => (pc = "flush" /\ UNCHANGED stopped) \/ Check
        /\ outcome' \in Results =>
              \/ UNCHANGED <<pc, outcome, primary>>
              \/ pc = "finish" /\ primary = "none" /\ UNCHANGED primary
        /\ Succeeded' => Succeeded /\ UNCHANGED <<stopped, time>>
    <3>. USE DEF Raise, Loop, Early, Stepping, Succeeded, Results, IInv, LifeInv
    <3>1. CASE Enter
      BY <3>1 DEF Enter
    <3>a. CASE Create
      BY <3>a DEF Create
    <3>b. CASE Discard
      BY <3>b DEF Discard, ReportInv
    <3>c. CASE Initialize
      BY <3>c DEF Initialize
    <3>2. CASE ReadInitial
      BY <1>3, <3>2 DEF ReadInitial, TypeOK, ControlOK
    <3>3. CASE Progress \/ Check
      BY <3>3 DEF Progress, AfterProgress, Check
    <3>4. CASE Route \/ SetInputs
      BY <3>4 DEF Route, SetInputs
    <3>5. CASE Advance
      BY <3>5 DEF Advance, AfterAdvance
    <3>6. CASE Terminate \/ Close
      BY <3>6 DEF Terminate, AfterTerminate, Close, AfterClose
    <3>7. CASE Finish
      BY <3>7 DEF Finish
    <3>8. CASE Interrupt
      BY <3>8 DEF Interrupt
    <3>9. CASE RequestStop \/ UNCHANGED vars
      BY <3>9 DEF RequestStop, runVars, vars
    <3>. QED BY <1>3, <3>1, <3>a, <3>b, <3>c, <3>2, <3>3, <3>4, <3>5, <3>6, <3>7, <3>8, <3>9
             DEF Next, Runner
  <2>5. CASE Check
    <3>1. pc' = "flush" => EndReached'
      BY <1>3, <2>5 DEF Check, ObservedStop, IsComplete, EndReached
    <3>2. pc = "check" /\ ~Succeeded' /\ outcome' \notin Results
      BY <2>4, <2>5 DEF Check, Succeeded, Results, IInv, LifeInv
    <3>. QED BY <1>3, <2>1, <2>3, <2>4, <2>5, <3>1, <3>2 DEF SampleInv
  <2>6. CASE ~Check
    <3>1. outcome' \in Results => primary' = "none"
      BY <2>4 DEF SampleInv
    <3>2. Succeeded' =>
             RecordedAll' /\ EndReached' /\ \A n \in Nodes : time'[n] = completed'
      BY <1>3, <2>1, <2>3, <2>4 DEF SampleInv
    <3>. QED BY <1>3, <2>1, <2>3, <2>4, <2>6, <3>1, <3>2 DEF SampleInv
  <2>. QED BY <2>5, <2>6
<1>4. \/ RecordInitial \/ Record \/ Flush \/ Read
      \/ UNCHANGED <<samples, completed>>
  BY DEF Next, Runner, Enter, Create, Discard, Initialize, ReadInitial, Progress, Check,
     Route, SetInputs, Advance, Terminate, Close, Finish, Interrupt, RequestStop, vars, runVars
<1>. QED BY <1>1, <1>2, <1>3, <1>4

\* Nothing is sampled before the first point of the run.
LEMMA SampleInit == Init => SampleInv
BY StepsAssumption DEF Init, SampleInv, Increasing, Stepping, Succeeded, Results

\* ResultExact: a COMPLETED or STOPPED result is a whole checkpoint, at which all
\* nodes stand, and its samples are the initial one, each multiple of the stride
\* and the last checkpoint, once each and in order.
THEOREM ResultIsExact == Spec => []ResultExact
<1>1. SampleInv => ResultExact
  <2>. SUFFICES ASSUME SampleInv, outcome \in Results
                PROVE  /\ \A n \in Nodes : time[n] = completed
                       /\ IF stopped THEN stop ELSE completed = Steps
                       /\ \A k \in 0..completed :
                             IsRecorded(k) <=> \E i \in 1..Len(samples) : samples[i] = k
                       /\ \A i \in 1..Len(samples) - 1 : samples[i] < samples[i + 1]
    BY DEF ResultExact
  <2>1. Succeeded /\ Increasing(samples)
    BY DEF SampleInv, Succeeded
  <2>. QED BY <2>1 DEF SampleInv, RecordedAll, EndReached, Has, Increasing
<1>. QED BY <1>1, ReportInvariance, SampleInit, SampleStep, PTL DEF Spec

-----------------------------------------------------------------------------
(* A run cannot go round for ever: every step of the calling thread takes it *)
(* closer to its end, in the order of macro-steps, points and nodes.         *)

MacroStepsLeft == Steps - completed
NodesLeft == N - idx

\* How far the points still ahead reach.  A macro-step goes from the record of the
\* last one to its own reads; only the first report comes before the first look
\* at the stop flag.
PointsLeft ==
    CASE pc = "entry"         -> 18
      [] pc = "create"        -> 17
      [] pc = "discard"       -> 16
      [] pc = "initialize"    -> 15
      [] pc = "readInitial"   -> 14
      [] pc = "recordInitial" -> 13
      [] pc = "progress"      -> IF completed = 0 THEN 12 ELSE 9
      [] pc = "record"        -> 11
      [] pc = "check"         -> 10
      [] pc = "route"         -> 8
      [] pc = "set"           -> 7
      [] pc = "advance"       -> 6
      [] pc = "read"          -> 5
      [] pc = "flush"         -> 4
      [] pc = "terminate"     -> 3
      [] pc = "close"         -> 2
      [] pc = "finish"        -> 1
      [] pc = "done"          -> 0

Counted == {MacroStepsLeft, PointsLeft, NodesLeft} \subseteq Nat
Closer ==
    \/ MacroStepsLeft' < MacroStepsLeft
    \/ MacroStepsLeft' = MacroStepsLeft /\ PointsLeft' < PointsLeft
    \/ /\ MacroStepsLeft' = MacroStepsLeft /\ PointsLeft' = PointsLeft
       /\ NodesLeft' < NodesLeft

\* The three counts are natural numbers: no commit goes past the last macro-step
\* and no loop past the last node.
LEMMA CountedType == IInv => Counted
BY NAssumption, StepsAssumption
   DEF IInv, TypeOK, ControlOK, RecordsOK, Nodes, Counted, MacroStepsLeft,
       NodesLeft, PointsLeft, Points, Calls

\* Every call, the ones that fail and the interrupted ones included, brings the run
\* closer to its end.
LEMMA CloserStep == IInv /\ IInv' /\ (Runner \/ Interrupt) => Closer
<1>. SUFFICES ASSUME IInv, IInv', Runner \/ Interrupt PROVE Closer
  OBVIOUS
<1>0. /\ idx \in 1..N /\ completed \in 0..Steps /\ N \in Nat /\ Steps \in Nat
      /\ idx' \in 1..N
      /\ pc \in Early => completed = 0
  BY NAssumption, StepsAssumption
     DEF IInv, TypeOK, ControlOK, RecordsOK, TimeInv, Nodes
<1>. USE <1>0 DEF Closer, MacroStepsLeft, NodesLeft, PointsLeft, Early
<1>1. CASE Enter
  BY <1>1 DEF Enter
<1>2. CASE Create
  BY <1>2 DEF Create, Loop
<1>3. CASE Discard
  BY <1>3 DEF Discard, Discardable
<1>4. CASE Initialize
  BY <1>4 DEF Initialize, Loop, Raise
<1>5. CASE ReadInitial
  BY <1>5 DEF ReadInitial, Loop, Raise
<1>6. CASE RecordInitial
  BY <1>6 DEF RecordInitial, Raise
<1>7. CASE Progress
  BY <1>7 DEF Progress, AfterProgress, Raise
<1>8. CASE Check
  BY <1>8 DEF Check, ObservedStop, IsComplete
<1>9. CASE Route
  BY <1>9 DEF Route, Raise
<1>10. CASE SetInputs
  BY <1>10 DEF SetInputs, Loop, Raise
<1>11. CASE Advance
  BY <1>11 DEF Advance, AfterAdvance, Loop, Raise
<1>12. CASE Read
  BY <1>12 DEF Read, Commit, Loop, Raise
<1>13. CASE Record
  BY <1>13 DEF Record, Raise
<1>14. CASE Flush
  BY <1>14 DEF Flush, NeedsFlush, Raise
<1>15. CASE Terminate
  BY <1>15 DEF Terminate, AfterTerminate, Loop
<1>16. CASE Close
  BY <1>16 DEF Close, AfterClose, Loop
<1>17. CASE Finish
  BY <1>17 DEF Finish
<1>18. CASE Interrupt
  <2>1. pc \in Points
    BY DEF IInv, TypeOK, ControlOK
  <2>. QED BY <1>18, <2>1 DEF Interrupt, Points, Calls
<1>. QED
  BY <1>1, <1>2, <1>3, <1>4, <1>5, <1>6, <1>7, <1>8, <1>9, <1>10, <1>11,
     <1>12, <1>13, <1>14, <1>15, <1>16, <1>17, <1>18
     DEF Runner

\* Termination without the scheduler: whatever fails and whenever the stop is
\* requested, the calling thread can only take finitely many steps, because each
\* takes it down a well-founded order that a request leaves as it is.
THEOREM RunsDown ==
    Spec => /\ []Counted
            /\ [][/\ Runner \/ Interrupt => Closer
                  /\ RequestStop => UNCHANGED <<MacroStepsLeft, PointsLeft, NodesLeft>>]_vars
<1>1. IInv => Counted
  BY CountedType
<1>2. IInv /\ IInv' /\ [Next]_vars =>
        [/\ Runner \/ Interrupt => Closer
         /\ RequestStop => UNCHANGED <<MacroStepsLeft, PointsLeft, NodesLeft>>]_vars
  BY CloserStep
     DEF RequestStop, runVars, MacroStepsLeft, PointsLeft, NodesLeft
<1>. QED BY <1>1, <1>2, Invariance, PTL DEF Spec
=============================================================================
