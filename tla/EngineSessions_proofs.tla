------------------------- MODULE EngineSessions_proofs -------------------------
(***************************************************************************)
(* Theorems about EngineSessions: the engine and the native instance go    *)
(* hand in hand through failures and retries, the updates of the schedule  *)
(* are handed over in order and none is missed, and the instance is        *)
(* released once.  They hold for every FMU, schedule and step size the     *)
(* assumptions allow, and for every horizon.                               *)
(***************************************************************************)
EXTENDS EngineSessions, TLAPS

\* The modes of the instance, and the names of the native calls.
Modes == Alive \union {"none", "loaded", "terminated", "freed", "leaked"}
Names == {"extract", "loadLibrary", "instantiate", "setupExperiment", "enterConfigurationMode",
          "setStructural", "exitConfigurationMode", "enterInitializationMode", "setParameters",
          "setInputs", "exitInitializationMode", "doStep", "enterEventMode",
          "updateDiscreteStates", "enterStepMode", "getOutputs", "terminate"}
Updates == Seq(Nat \X Int)
TypeInv ==
    /\ fmu \in Fmus
    /\ held \in BOOLEAN /\ now \in Nat /\ next \in Nat \ {0}
    /\ state \in {"NONE", "REFUSED", "CREATED", "READY", "RUNNING", "STOPPING", "STOPPED", "ERROR"}
    /\ initialized \in BOOLEAN /\ terminated \in BOOLEAN
    /\ closed \in BOOLEAN /\ released \in BOOLEAN
    /\ op \in {"none", "create", "initialize", "step", "terminate"}
    /\ target \in Int
    /\ native \in Modes /\ directory \in BOOLEAN
    /\ delivered \in Updates /\ tried \subseteq Nat
    /\ halfDone \in BOOLEAN /\ misused \in BOOLEAN

-----------------------------------------------------------------------------
(* The calls of an operation as a path through the modes. *)

EventCalls == {"enterEventMode", "updateDiscreteStates", "enterStepMode"}

\* The modes operation o makes a native call in.
Before(o, c) ==
    CASE c \in {"extract", "loadLibrary"} -> {"none"}
      [] c = "instantiate" -> {"loaded"}
      [] c = "setupExperiment" ->
            IF fmu.version = 2 THEN {"instantiated", "setup"} ELSE {"instantiated"}
      [] c = "enterConfigurationMode" -> {"instantiated"}
      [] c \in {"setStructural", "exitConfigurationMode"} -> {"configuration"}
      [] c = "enterInitializationMode" ->
            {IF fmu.version = 2 THEN "setup" ELSE "instantiated"}
      [] c \in {"setParameters", "setInputs"} ->
            {IF o = "step" THEN "step" ELSE IF fmu.version = 2 THEN "setup" ELSE "initialization"}
      [] c = "exitInitializationMode" -> {"initialization"}
      [] c \in {"updateDiscreteStates", "enterStepMode"} -> {"event"}
      [] OTHER -> {"step"}
After(o, c) ==
    IF NativeCalls[c].to = "same" THEN Before(o, c) ELSE {NativeCalls[c].to}

CallsOf(o) ==
    CASE o = "create" -> {"extract", "loadLibrary", "instantiate"}
      [] o = "step" -> {"setInputs", "doStep"} \union EventCalls
      [] o = "terminate" -> {"terminate"}
      [] OTHER -> Names \ {"extract", "loadLibrary", "instantiate", "doStep", "terminate"}
Goal(o) ==
    CASE o = "create" -> "instantiated"
      [] o = "terminate" -> "terminated"
      [] OTHER -> "step"

\* Calls of operation o that lead from the modes of the set from to the mode to.
Path(o, calls, from, to) ==
    /\ calls \in Seq(CallsOf(o)) /\ Len(calls) > 0
    /\ from \subseteq Before(o, calls[1])
    /\ \A i \in 1..Len(calls) - 1 : After(o, calls[i]) \subseteq Before(o, calls[i + 1])
    /\ After(o, calls[Len(calls)]) \subseteq {to}


\* A call of an operation is allowed in the modes it is made in, and leads where
\* After says; only loadLibrary leaves the modes of a living instance.
LEMMA Table ==
    ASSUME NEW o, NEW c \in CallsOf(o), o \in {"create", "initialize", "step", "terminate"}
    PROVE  /\ Before(o, c) \subseteq NativeCalls[c].from /\ Before(o, c) \subseteq Modes
           /\ native \in Before(o, c) => ModeAfter(c) \in After(o, c)
           /\ o # "create" => ModeAfter(c) \in {native, "terminated"} \union Alive
           /\ ModeAfter(c) \in {native, "loaded", "terminated"} \union Alive
<1>1. Before(o, c) \subseteq NativeCalls[c].from /\ Before(o, c) \subseteq Modes
  BY DEF CallsOf, EventCalls, Before, NativeCalls, Entry, Names, Modes, Alive
<1>2. NativeCalls[c].to \in {"same", "loaded", "terminated"} \union Alive
      /\ (o # "create" => NativeCalls[c].to # "loaded")
  BY DEF CallsOf, EventCalls, NativeCalls, Entry, Names, Alive
<1>. QED BY <1>1, <1>2 DEF ModeAfter, After

\* What follows the first call of a path is a path, and paths can be joined.
LEMMA PathTail ==
    ASSUME NEW o, NEW calls, NEW from, NEW to, Path(o, calls, from, to), Len(calls) # 1
    PROVE  Path(o, Tail(calls), After(o, calls[1]), to)
<1>. DEFINE S == CallsOf(o)
<1>0. calls \in Seq(S) /\ Len(calls) > 0
  BY DEF Path
<1>1. calls \in Seq(S) /\ Len(calls) \in Nat /\ Len(calls) > 1 /\ calls # <<>>
  <2>. HIDE DEF S
  <2>. QED BY <1>0
<1>2. /\ Tail(calls) \in Seq(S) /\ Len(Tail(calls)) = Len(calls) - 1
      /\ \A i \in 1..Len(Tail(calls)) : Tail(calls)[i] = calls[i + 1]
  <2>. HIDE DEF S
  <2>. QED BY <1>1
<1>3. \A i \in 1..Len(calls) - 1 : After(o, calls[i]) \subseteq Before(o, calls[i + 1])
  BY DEF Path
<1>4. After(o, calls[Len(calls)]) \subseteq {to}
  BY DEF Path
<1>. HIDE DEF S
<1>5. After(o, calls[1]) \subseteq Before(o, Tail(calls)[1])
  BY <1>1, <1>2, <1>3
<1>6. Tail(calls)[Len(Tail(calls))] = calls[Len(calls)]
  BY <1>1, <1>2
<1>7. ASSUME NEW i \in 1..Len(Tail(calls)) - 1
      PROVE  After(o, Tail(calls)[i]) \subseteq Before(o, Tail(calls)[i + 1])
  BY <1>1, <1>2, <1>3
<1>. QED BY SMTT(20), <1>1, <1>2, <1>4, <1>5, <1>6, <1>7 DEF Path, S

\* Two paths joined where one ends and the other begins are a path.
LEMMA PathConcat ==
    ASSUME NEW o, NEW first, NEW second, NEW from, NEW between, NEW to,
           Path(o, first, from, between), Path(o, second, {between}, to)
    PROVE  Path(o, first \o second, from, to)
<1>. DEFINE S == CallsOf(o)  m == Len(first)  n == Len(second)  both == first \o second
<1>1. first \in Seq(S) /\ second \in Seq(S) /\ m \in Nat /\ n \in Nat /\ m > 0 /\ n > 0
  BY DEF Path
<1>2. /\ both \in Seq(S) /\ Len(both) = m + n
      /\ \A i \in 1..m + n : both[i] = IF i <= m THEN first[i] ELSE second[i - m]
  <2>. HIDE DEF S
  <2>. QED BY <1>1
<1>3. /\ from \subseteq Before(o, first[1]) /\ After(o, first[m]) \subseteq {between}
      /\ \A i \in 1..m - 1 : After(o, first[i]) \subseteq Before(o, first[i + 1])
  BY DEF Path
<1>4. /\ {between} \subseteq Before(o, second[1]) /\ After(o, second[n]) \subseteq {to}
      /\ \A i \in 1..n - 1 : After(o, second[i]) \subseteq Before(o, second[i + 1])
  BY DEF Path
<1>. HIDE DEF S, m, n, both
<1>5. from \subseteq Before(o, both[1])
  BY <1>1, <1>2, <1>3
<1>6. After(o, both[Len(both)]) \subseteq {to}
  <2>1. both[Len(both)] = second[n]
    BY <1>1, <1>2
  <2>. QED BY <1>4, <2>1
<1>7. ASSUME NEW i \in 1..Len(both) - 1
      PROVE  After(o, both[i]) \subseteq Before(o, both[i + 1])
  <2>1. CASE i < m
    <3>1. both[i] = first[i] /\ both[i + 1] = first[i + 1] /\ i \in 1..m - 1
      BY <1>1, <1>2, <2>1
    <3>. QED BY <1>3, <3>1
  <2>2. CASE i = m
    <3>1. both[i] = first[m] /\ both[i + 1] = second[1]
      BY <1>1, <1>2, <2>2
    <3>. QED BY <1>3, <1>4, <3>1
  <2>3. CASE i > m
    <3>1. both[i] = second[i - m] /\ both[i + 1] = second[i - m + 1] /\ i - m \in 1..n - 1
      BY <1>1, <1>2, <2>3
    <3>. QED BY <1>4, <3>1
  <2>. QED BY <1>1, <1>2, <2>1, <2>2, <2>3
<1>8. both \in Seq(S) /\ Len(both) > 0
  BY <1>1, <1>2
<1>9. Path(o, both, from, to)
  BY <1>5, <1>6, <1>7, <1>8 DEF Path, S
<1>. QED BY <1>9 DEF both

\* Sequences of one call, joined with others.
LEMMA Joined ==
    ASSUME NEW S, NEW s \in Seq(S), NEW t \in Seq(S)
    PROVE  /\ s \o t \in Seq(S) /\ Len(s \o t) = Len(s) + Len(t)
           /\ \A i \in 1..Len(s) + Len(t) :
                 (s \o t)[i] = IF i <= Len(s) THEN s[i] ELSE t[i - Len(s)]
OBVIOUS

\* The elements of a sequence that follows a single element.
LEMMA OneAndMore ==
    ASSUME NEW S, NEW s \in Seq(S), NEW t \in Seq(S), Len(s) = 1
    PROVE  /\ s \o t \in Seq(S) /\ Len(s \o t) = 1 + Len(t)
           /\ (s \o t)[1] = s[1]
           /\ \A i \in 1..Len(t) : (s \o t)[1 + i] = t[i]
<1>1. Len(s) \in Nat /\ Len(t) \in Nat
  OBVIOUS
<1>2. /\ s \o t \in Seq(S) /\ Len(s \o t) = Len(s) + Len(t)
      /\ \A i \in 1..Len(s) + Len(t) : (s \o t)[i] = IF i <= Len(s) THEN s[i] ELSE t[i - Len(s)]
  BY Joined
<1>3. (s \o t)[1] = s[1]
  BY <1>1, <1>2
<1>4. ASSUME NEW i \in 1..Len(t) PROVE (s \o t)[1 + i] = t[i]
  <2>1. 1 + i \in 1..Len(s) + Len(t) /\ ~(1 + i <= Len(s)) /\ 1 + i - Len(s) = i
    BY <1>1
  <2>. QED BY <1>2, <2>1
<1>. QED BY <1>2, <1>3, <1>4

\* Sequences with the same elements at the same indices are equal.
LEMMA SameSequence ==
    ASSUME NEW S, NEW s \in Seq(S), NEW t \in Seq(S), Len(s) = Len(t),
           \A i \in 1..Len(s) : s[i] = t[i]
    PROVE  s = t
<1>1. s = [i \in 1..Len(s) |-> s[i]] /\ t = [i \in 1..Len(t) |-> t[i]]
  OBVIOUS
<1>. QED BY <1>1

-----------------------------------------------------------------------------
(* The calls of each operation. *)

\* Opening a session leads from no instance to an instantiated one.
LEMMA OpenPath == Path("create", OpenCalls, {"none"}, "instantiated")
<1>1. OpenCalls \in Seq(CallsOf("create")) /\ Len(OpenCalls) = 3
  BY DEF OpenCalls, CallsOf
<1>2. /\ OpenCalls[1] = "extract" /\ OpenCalls[2] = "loadLibrary" /\ OpenCalls[3] = "instantiate"
      /\ \A i \in 1..2 : i = 1 \/ i = 2
  BY DEF OpenCalls
<1>. QED BY <1>1, <1>2 DEF Path, Before, After, NativeCalls, Entry

\* Event handling leads from Event Mode back to Step Mode.
LEMMA EventPath ==
    ASSUME NEW o \in {"initialize", "step"}
    PROVE  Path(o, EventModeCalls, {"event"}, "step")
<1>0. "updateDiscreteStates" \in CallsOf(o) /\ "enterStepMode" \in CallsOf(o)
  BY DEF CallsOf, EventCalls, Names
<1>1. EventModeCalls \in Seq(CallsOf(o)) /\ Len(EventModeCalls) = 2
  BY <1>0 DEF EventModeCalls
<1>2. /\ EventModeCalls[1] = "updateDiscreteStates" /\ EventModeCalls[2] = "enterStepMode"
  BY DEF EventModeCalls
<1>. QED BY <1>1, <1>2 DEF Path, Before, After, NativeCalls, Entry

\* A single call is a path of its own.
LEMMA OneCall ==
    ASSUME NEW o, NEW c \in CallsOf(o), NEW to, After(o, c) \subseteq {to}
    PROVE  Path(o, <<c>>, Before(o, c), to)
<1>1. <<c>> \in Seq(CallsOf(o)) /\ Len(<<c>>) = 1 /\ <<c>>[1] = c
  OBVIOUS
<1>. QED BY <1>1 DEF Path

\* Each list of calls that step and terminate make is a path from Step Mode.
LEMMA StepPath ==
    /\ Path("step", <<"doStep">>, {"step"}, "step")
    /\ Path("step", <<"setInputs">>, {"step"}, "step")
    /\ Path("step", <<"enterEventMode">>, {"step"}, "event")
    /\ Path("step", <<"enterEventMode">> \o EventModeCalls, {"step"}, "step")
    /\ Path("terminate", <<"terminate">>, {"step"}, "terminated")
<1>1. /\ Path("step", <<"doStep">>, {"step"}, "step")
      /\ Path("step", <<"setInputs">>, {"step"}, "step")
      /\ Path("step", <<"enterEventMode">>, {"step"}, "event")
      /\ Path("terminate", <<"terminate">>, {"step"}, "terminated")
  <2>1. /\ "doStep" \in CallsOf("step") /\ "setInputs" \in CallsOf("step")
        /\ "enterEventMode" \in CallsOf("step") /\ "terminate" \in CallsOf("terminate")
    BY DEF CallsOf, EventCalls
  <2>2. /\ After("step", "doStep") = {"step"} /\ Before("step", "doStep") = {"step"}
        /\ After("step", "setInputs") = {"step"} /\ Before("step", "setInputs") = {"step"}
        /\ After("step", "enterEventMode") = {"event"}
        /\ Before("step", "enterEventMode") = {"step"}
        /\ After("terminate", "terminate") = {"terminated"}
        /\ Before("terminate", "terminate") = {"step"}
    BY DEF After, Before, NativeCalls, Entry
  <2>. QED BY <2>1, <2>2, OneCall
<1>. QED BY <1>1, PathConcat, EventPath

\* The initialization of an FMI 2.0 session ends in Step Mode.
LEMMA InitializePath2 ==
    ASSUME fmu \in Fmus, fmu.version = 2
    PROVE  Path("initialize", InitializeCalls2, {"instantiated", "setup"}, "step")
<1>0. ~fmu.events
  BY FmusAssumption
<1>1. InitializeCalls2 \in Seq(CallsOf("initialize")) /\ Len(InitializeCalls2) = 5
  BY DEF InitializeCalls2, CallsOf, Names
<1>2. /\ InitializeCalls2[1] = "setupExperiment" /\ InitializeCalls2[2] = "setParameters"
      /\ InitializeCalls2[3] = "setInputs" /\ InitializeCalls2[4] = "enterInitializationMode"
      /\ InitializeCalls2[5] = "exitInitializationMode"
  BY DEF InitializeCalls2
<1>. DEFINE o == "initialize"
<1>3. /\ Before(o, "setupExperiment") = {"instantiated", "setup"}
      /\ After(o, "setupExperiment") = {"setup"} /\ Before(o, "setParameters") = {"setup"}
      /\ After(o, "setParameters") = {"setup"} /\ Before(o, "setInputs") = {"setup"}
      /\ After(o, "setInputs") = {"setup"} /\ Before(o, "enterInitializationMode") = {"setup"}
      /\ After(o, "enterInitializationMode") = {"initialization"}
      /\ Before(o, "exitInitializationMode") = {"initialization"}
      /\ After(o, "exitInitializationMode") = {"step"}
  BY <1>0 DEF Before, After, NativeCalls, Entry
<1>4. \A i \in 1..4 : i = 1 \/ i = 2 \/ i = 3 \/ i = 4
  OBVIOUS
<1>. QED BY <1>1, <1>2, <1>3, <1>4 DEF Path

\* The initialization of an FMI 3.0 session ends in Step Mode, whatever its capabilities.
LEMMA InitializePath3 ==
    ASSUME fmu \in Fmus, fmu.version = 3
    PROVE  Path("initialize", InitializeCalls3, {"instantiated"}, "step")
<1>. DEFINE o == "initialize"
            structural == <<"enterConfigurationMode", "setStructural", "exitConfigurationMode">>
            plain == <<"enterInitializationMode", "setParameters", "setInputs",
                       "exitInitializationMode">>
            reached == IF fmu.events THEN "event" ELSE "step"
            start == IF fmu.structural THEN structural ELSE <<>>
            finish == IF fmu.events THEN EventModeCalls ELSE <<>>
<1>0. InitializeCalls3 = (start \o plain) \o finish
  BY DEF InitializeCalls3
<1>1. Path(o, structural, {"instantiated"}, "instantiated")
  <2>1. structural \in Seq(CallsOf(o)) /\ Len(structural) = 3
    BY DEF CallsOf, Names
  <2>2. /\ structural[1] = "enterConfigurationMode" /\ structural[2] = "setStructural"
        /\ structural[3] = "exitConfigurationMode"
    OBVIOUS
  <2>3. /\ Before(o, "enterConfigurationMode") = {"instantiated"}
        /\ After(o, "enterConfigurationMode") = {"configuration"}
        /\ Before(o, "setStructural") = {"configuration"}
        /\ After(o, "setStructural") = {"configuration"}
        /\ Before(o, "exitConfigurationMode") = {"configuration"}
        /\ After(o, "exitConfigurationMode") = {"instantiated"}
    BY DEF Before, After, NativeCalls, Entry
  <2>4. \A i \in 1..2 : i = 1 \/ i = 2
    OBVIOUS
  <2>. HIDE DEF structural, o
  <2>. QED BY <2>1, <2>2, <2>3, <2>4 DEF Path
<1>2. Path(o, plain, {"instantiated"}, reached)
  <2>1. plain \in Seq(CallsOf(o)) /\ Len(plain) = 4
    BY DEF CallsOf, Names
  <2>2. /\ plain[1] = "enterInitializationMode" /\ plain[2] = "setParameters"
        /\ plain[3] = "setInputs" /\ plain[4] = "exitInitializationMode"
    OBVIOUS
  <2>3. /\ Before(o, "enterInitializationMode") = {"instantiated"}
        /\ After(o, "enterInitializationMode") = {"initialization"}
        /\ Before(o, "setParameters") = {"initialization"}
        /\ After(o, "setParameters") = {"initialization"}
        /\ Before(o, "setInputs") = {"initialization"}
        /\ After(o, "setInputs") = {"initialization"}
        /\ Before(o, "exitInitializationMode") = {"initialization"}
        /\ After(o, "exitInitializationMode") = {reached}
    BY DEF Before, After, NativeCalls, Entry
  <2>4. \A i \in 1..3 : i = 1 \/ i = 2 \/ i = 3
    OBVIOUS
  <2>. HIDE DEF plain, o, reached
  <2>. QED BY <2>1, <2>2, <2>3, <2>4 DEF Path
<1>3. Path(o, start \o plain, {"instantiated"}, reached)
  <2>1. CASE fmu.structural
    BY <1>1, <1>2, <2>1, PathConcat
  <2>2. CASE ~fmu.structural
    <3>1. plain \in Seq(CallsOf(o))
      BY <1>2 DEF Path
    <3>2. start \o plain = plain
      <4>. HIDE DEF plain
      <4>. QED BY <2>2, <3>1
    <3>. QED BY <1>2, <3>2
  <2>. QED BY <2>1, <2>2
<1>4. Path(o, (start \o plain) \o finish, {"instantiated"}, "step")
  <2>1. CASE fmu.events
    BY <1>3, <2>1, PathConcat, EventPath
  <2>2. CASE ~fmu.events
    <3>1. start \o plain \in Seq(CallsOf(o))
      BY <1>3 DEF Path
    <3>2. (start \o plain) \o finish = start \o plain /\ reached = "step"
      <4>. DEFINE body == start \o plain
      <4>. HIDE DEF body
      <4>. QED BY <2>2, <3>1
    <3>. QED BY <1>3, <3>2
  <2>. QED BY <2>1, <2>2
<1>. QED BY <1>0, <1>4

-----------------------------------------------------------------------------
(* The invariant. *)

\* What the engine knows of the session, and what a call presupposes.
RecordInv ==
    /\ released => ~held /\ op = "none"
    /\ op = "create" => ~held /\ state = "NONE" /\ native \in {"none", "loaded"}
    /\ ~held /\ ~released => op \in {"none", "create"} /\ state \in {"NONE", "REFUSED"}
    /\ held \/ released => state \notin {"NONE", "REFUSED"}
    /\ ~held /\ ~released => ~initialized /\ now = 0 /\ fmuTime = 0 /\ ~halfDone
    /\ held => native \in Alive \union {"terminated"}
    /\ ~initialized => ~terminated /\ state \notin {"READY", "RUNNING", "STOPPING", "ERROR"}
    /\ initialized => state # "CREATED"
    /\ terminated => state = "STOPPED"
    /\ op = "initialize" => held /\ state = "CREATED"
    /\ op = "step" => Usable
    /\ op = "terminate" => held /\ initialized /\ ~terminated

\* How often the instance was released.
CloseInv ==
    /\ frees = IF released THEN 1 ELSE 0
    /\ closed => released /\ ~directory

\* What the operation in progress has still to call, and where the instance stands
\* as long as nothing was left half done.
InPath == Path(op, todo, Before(op, todo[1]), Goal(op))
InstanceInv ==
    /\ op = "none" => todo = <<>>
    /\ op # "none" => InPath
    /\ ~halfDone =>
          /\ ~misused
          /\ op # "none" => native \in Before(op, todo[1])
          /\ op = "none" /\ held /\ ~initialized => native \in {"instantiated", "setup"}
          /\ op = "none" /\ held /\ ~initialized /\ native = "setup" => fmu.version = 2
          /\ op = "none" /\ held /\ initialized /\ ~terminated => native = "step"
          /\ held /\ ~initialized => now = 0 /\ fmuTime = 0
          /\ held => fmuTime = IF op = "step" /\ todo[1] \in EventCalls THEN target ELSE now

\* The updates handed over, and the one that is next.
DeliveryInv ==
    /\ next = Len(delivered) + 1 /\ next <= Len(Schedule) + 1
    /\ \A k \in 1..Len(delivered) : delivered[k] = <<k, Schedule[k].time>>
    /\ \A time \in tried : time <= now
    /\ next <= Len(Schedule) => Schedule[next].time \notin tried

\* What a step in progress has still to call, and what it did before.
PendingInv ==
    op = "step" =>
        /\ todo[1] = "setInputs" => Due /\ todo = <<"setInputs", "doStep">>
        /\ todo[1] = "doStep" => ~Due /\ todo = <<"doStep">>
        /\ todo[1] \in EventCalls =>
              ~Due /\ target > now /\ \A i \in 1..Len(todo) : todo[i] \in EventCalls
InputInv == DeliveryInv /\ PendingInv

Inv == TypeInv /\ RecordInv /\ CloseInv /\ InstanceInv /\ InputInv

\* A path that begins where the instance is.
LEMMA InPathNext ==
    ASSUME fmu' = fmu, NEW from, Path(op', todo', from, Goal(op'))
    PROVE  InPath' /\ (native' \in from => (native \in Before(op, todo[1]))')
<1>1. \A o, c : Before(o, c)' = Before(o, c)
  BY DEF Before
<1>2. \A o, c : After(o, c)' = After(o, c)
  BY <1>1 DEF After, NativeCalls
<1>. QED BY <1>1, <1>2 DEF InPath, Path, Goal, CallsOf

\* Every initial state satisfies the invariant.
LEMMA InvInit == Init => Inv
<1>. SUFFICES ASSUME Init PROVE Inv
  OBVIOUS
<1>1. TypeInv
  <2>1. <<>> \in Updates
    BY DEF Updates
  <2>2. delivered \in Updates
    BY <2>1, Zenon DEF Init
  <2>3. tried \subseteq Nat /\ native \in Modes /\ misused \in BOOLEAN /\ halfDone \in BOOLEAN
    BY DEF Init, Modes
  <2>4. /\ now \in Nat /\ next \in Nat \ {0} /\ target \in Int /\ fmu \in Fmus
        /\ state = "NONE" /\ op = "none"
    BY DEF Init
  <2>5. /\ held \in BOOLEAN /\ initialized \in BOOLEAN /\ terminated \in BOOLEAN
        /\ closed \in BOOLEAN /\ released \in BOOLEAN /\ directory \in BOOLEAN
    BY DEF Init
  <2>. QED BY <2>2, <2>3, <2>4, <2>5 DEF TypeInv
<1>2. RecordInv /\ CloseInv
  BY DEF Init, RecordInv, CloseInv
<1>3. InstanceInv
  BY DEF Init, InstanceInv
<1>4. InputInv
  <2>1. Len(Schedule) \in Nat
    BY ScheduleAssumption
  <2>2. delivered = <<>> /\ Len(<<>>) = 0 /\ next = 1 /\ tried = {} /\ op = "none"
    BY DEF Init
  <2>. QED BY <2>1, <2>2 DEF InputInv, DeliveryInv, PendingInv
<1>. QED BY <1>1, <1>2, <1>3, <1>4 DEF Inv

\* The call at the head of what is left.
LEMMA HeadCall ==
    ASSUME Inv, op # "none"
    PROVE  /\ todo # <<>> /\ Len(todo) \in Nat \ {0}
           /\ Head(todo) = todo[1] /\ todo[1] \in CallsOf(op)
           /\ op \in {"create", "initialize", "step", "terminate"}
           /\ Len(todo) = 1 => After(op, todo[1]) \subseteq {Goal(op)}
           /\ Len(todo) # 1 =>
                 Path(op, Tail(todo), After(op, todo[1]), Goal(op))
<1>1. InPath /\ op \in {"create", "initialize", "step", "terminate"}
  BY DEF Inv, InstanceInv, TypeInv
<1>2. /\ todo \in Seq(CallsOf(op)) /\ Len(todo) > 0
      /\ After(op, todo[Len(todo)]) \subseteq {Goal(op)}
  BY <1>1 DEF InPath, Path
<1>3. todo # <<>> /\ Len(todo) \in Nat \ {0} /\ Head(todo) = todo[1] /\ todo[1] \in CallsOf(op)
  <2>. DEFINE S == CallsOf(op)
  <2>. HIDE DEF S
  <2>. QED BY <1>2 DEF S
<1>4. Len(todo) # 1 => Path(op, Tail(todo), After(op, todo[1]), Goal(op))
  BY <1>1, PathTail DEF InPath
<1>. QED BY <1>1, <1>2, <1>3, <1>4

\* Handing over the next update gives a sequence of updates again.
LEMMA DeliveredNext ==
    ASSUME Inv
    PROVE  Append(delivered, <<next, now>>) \in Updates
<1>1. delivered \in Seq(Nat \X Int) /\ <<next, now>> \in Nat \X Int
  BY DEF Inv, TypeInv, Updates
<1>2. Append(delivered, <<next, now>>) \in Seq(Nat \X Int)
  BY <1>1
<1>. QED BY <1>2 DEF Updates

\* Every step keeps the types.
LEMMA TypeStep ==
    ASSUME Inv, [Next]_vars
    PROVE  TypeInv'
<1>0. TypeInv /\ RecordInv
  BY DEF Inv
<1>. USE <1>0 DEF TypeInv, RecordInv, record, flags, call, instance, history, Begin, Return, Idle, Usable
<1>1. CASE CreateSession
  BY <1>1 DEF CreateSession
<1>2. CASE OpenFails
  BY <1>2 DEF OpenFails, Modes
<1>3. CASE Initialize
  BY <1>3 DEF Initialize
<1>4. CASE BeginStep
  <2>1. delivered' \in Updates /\ next' \in Nat \ {0}
    BY <1>4, DeliveredNext DEF BeginStep
  <2>2. target' \in Int
    BY <1>4, SizesAssumption DEF BeginStep
  <2>. QED BY <1>4, <2>1, <2>2 DEF BeginStep
<1>5. CASE SizeRefused \/ ReadOutputs \/ UpdatesAgain
  BY <1>5 DEF SizeRefused, ReadOutputs, UpdatesAgain, Noted
<1>6. CASE DoStep
  <2>0. misused' \in BOOLEAN /\ tried' \subseteq Nat
    BY <1>6 DEF DoStep, Noted
  <2>1. /\ tried' \subseteq Nat /\ misused' \in BOOLEAN /\ target > now /\ target \in Nat
        /\ UNCHANGED <<fmu, held, next, flags, native, directory, delivered>>
    BY <1>6, <2>0 DEF DoStep
  <2>2. /\ now' \in Nat /\ state' \in {state, "RUNNING"} /\ halfDone' \in BOOLEAN
        /\ target' \in Int /\ op' \in {"none", op}
    <3>1. CASE DoStepRaises
      BY <3>1 DEF DoStepRaises
    <3>2. CASE DoStep2 /\ ~DoStepRaises
      BY <2>1, <3>2 DEF DoStep2, Advanced, ReachedTime
    <3>3. CASE DoStep3 /\ ~DoStepRaises
      <4>1. PICK answer \in Answers :
               \/ halfDone' = TRUE /\ Return /\ UNCHANGED <<state, now>>
               \/ /\ target' = answer.reached
                  /\ UNCHANGED <<op, state, now, halfDone>>
               \/ /\ Advanced(answer.reached)
                  /\ Return /\ UNCHANGED halfDone
        BY <3>3 DEF DoStep3
      <4>2. answer.reached \in 0..target
        BY DEF Answers
      <4>3. answer.reached \in Nat /\ answer.reached \in Int
        BY <2>1, <4>2
      <4>. QED BY <4>1, <4>3 DEF Advanced, ReachedTime
    <3>. QED BY <1>6, <3>1, <3>2, <3>3 DEF DoStep
  <2>. QED BY <2>1, <2>2
<1>7. CASE Terminate
  BY <1>7 DEF Terminate
<1>8. CASE CloseSession \/ CloseAgain
  BY <1>8 DEF CloseSession, CloseAgain, SessionCloses, Modes
<1>9. CASE Raises
  <2>1. halfDone' \in BOOLEAN
    BY <1>9 DEF Raises, RaiseAt, HalfDoneBy
  <2>. QED BY <1>9, <2>1 DEF Raises, RaiseAt, Noted
<1>10. CASE Returns
  <2>1. native' \in Modes
    BY <1>9, <1>10, HeadCall, Table DEF Returns, Simple, Head_, Modes
  <2>2. delivered' \in Updates /\ next' \in Nat \ {0}
    <3>. DEFINE more == Append(delivered, <<next, now>>)
    <3>1. more \in Updates
      BY DeliveredNext
    <3>2. \/ next' = next + 1 /\ delivered' = more
          \/ UNCHANGED <<next, delivered>>
      BY <1>10 DEF Returns
    <3>. HIDE DEF more
    <3>. QED BY <3>1, <3>2
  <2>3. /\ held' \in BOOLEAN /\ initialized' \in BOOLEAN /\ terminated' \in BOOLEAN /\ now' \in Int
        /\ state' \in {state, "CREATED", "READY", "RUNNING", "STOPPED"} /\ op' \in {op, "none"}
        /\ target' \in Int
    <3>1. CASE Completed
      <4>1. op \in {"create", "initialize", "step", "terminate"} /\ target \in Int
        BY <1>10, HeadCall DEF Returns, Simple
      <4>2. CASE op = "create"
        BY <3>1, <4>2 DEF Completed
      <4>3. CASE op = "initialize"
        BY <3>1, <4>3 DEF Completed
      <4>4. CASE op = "step"
        BY <3>1, <4>1, <4>4 DEF Completed, Advanced, ReachedTime
      <4>5. CASE op = "terminate"
        BY <3>1, <4>5 DEF Completed
      <4>. QED BY <4>1, <4>2, <4>3, <4>4, <4>5
    <3>. QED BY <1>10, <3>1 DEF Returns
  <2>4. now' \in Nat
    <3>1. CASE op = "step" /\ Completed
      <4>1. Len(todo) = 1 /\ todo[1] # "doStep" /\ now' = target
        BY <1>10, <3>1, HeadCall DEF Returns, Simple, Head_, Completed, Advanced, ReachedTime
      <4>2. todo[1] # "setInputs"
        <5>1. Len(<<"setInputs", "doStep">>) = 2
          OBVIOUS
        <5>2. todo[1] = "setInputs" => todo = <<"setInputs", "doStep">>
          BY <3>1 DEF Inv, InputInv, PendingInv
        <5>. QED BY <4>1, <5>1, <5>2
      <4>3. todo[1] \in EventCalls
        BY <1>10, <3>1, <4>1, <4>2, HeadCall DEF Returns, Simple, CallsOf
      <4>4. target > now
        BY <3>1, <4>3 DEF Inv, InputInv, PendingInv
      <4>. QED BY <4>1, <4>4
    <3>2. now' = now \/ (op = "step" /\ Completed)
      BY <1>10, HeadCall DEF Returns, Completed, Simple
    <3>. QED BY <3>1, <3>2
  <2>5. misused' \in BOOLEAN
    BY <1>10 DEF Returns, Noted
  <2>. QED BY <1>10, <2>1, <2>2, <2>3, <2>4, <2>5 DEF Returns
<1>11. CASE UNCHANGED vars
  BY <1>11 DEF vars
<1>. QED BY <1>1, <1>2, <1>3, <1>4, <1>5, <1>6, <1>7, <1>8, <1>9, <1>10, <1>11 DEF Next

\* A native call that returned: where the instance is then, and what is left.
LEMMA ReturnLeads ==
    ASSUME Inv, Returns
    PROVE  /\ native \in Before(op, todo[1]) => native' \in After(op, todo[1])
           /\ op # "create" => native' \in {native, "terminated"} \union Alive
           /\ \/ Len(todo) = 1 /\ Completed
              \/ /\ Len(todo) # 1 /\ todo' = Tail(todo) /\ todo'[1] \in CallsOf(op)
                 /\ Path(op, todo', After(op, todo[1]), Goal(op))
                 /\ After(op, todo[1]) \subseteq Before(op, todo'[1])
                 /\ UNCHANGED <<held, state, now, initialized, terminated, op, target>>
<1>1. /\ Head(todo) = todo[1] /\ todo[1] \in CallsOf(op) /\ op # "none"
      /\ op \in {"create", "initialize", "step", "terminate"}
      /\ Len(todo) # 1 => Path(op, Tail(todo), After(op, todo[1]), Goal(op))
  BY HeadCall DEF Returns, Simple, Idle
<1>2. native' = ModeAfter(todo[1])
  BY <1>1 DEF Returns, Head_
<1>3. /\ native \in Before(op, todo[1]) => native' \in After(op, todo[1])
      /\ op # "create" => native' \in {native, "terminated"} \union Alive
  BY <1>1, <1>2, Table
<1>4. CASE Len(todo) = 1
  BY <1>3, <1>4 DEF Returns
<1>5. CASE Len(todo) # 1
  <2>1. todo' = Tail(todo) /\ UNCHANGED <<held, state, now, initialized, terminated, op, target>>
    BY <1>5 DEF Returns
  <2>2. Path(op, todo', After(op, todo[1]), Goal(op))
    BY <1>1, <1>5, <2>1
  <2>3. todo' \in Seq(CallsOf(op)) /\ Len(todo') > 0
        /\ After(op, todo[1]) \subseteq Before(op, todo'[1])
    BY <2>2 DEF Path
  <2>4. todo'[1] \in CallsOf(op)
    <3>. DEFINE S == CallsOf(op)  s == todo'
    <3>. HIDE DEF S, s
    <3>. QED BY <2>3 DEF S, s
  <2>. QED BY <1>3, <1>5, <2>1, <2>2, <2>3, <2>4
<1>. QED BY <1>4, <1>5

\* Every step keeps the engine's record.
LEMMA RecordStep ==
    ASSUME Inv, [Next]_vars
    PROVE  RecordInv'
<1>0. TypeInv /\ RecordInv
  BY DEF Inv
<1>. USE <1>0 DEF RecordInv, record, flags, call, instance, history, Begin, Return, Idle, Usable
<1>1. CASE CreateSession \/ OpenFails
  BY <1>1 DEF CreateSession, OpenFails
<1>2. CASE Initialize
  BY <1>2 DEF Initialize
<1>3. CASE BeginStep
  BY <1>3 DEF BeginStep
<1>4. CASE SizeRefused \/ ReadOutputs \/ UpdatesAgain
  BY <1>4 DEF SizeRefused, ReadOutputs, UpdatesAgain
<1>5. CASE DoStep
  <2>1. /\ op = "step" /\ state' \in {state, "RUNNING"} /\ op' \in {"none", op}
        /\ UNCHANGED <<held, flags, native>>
    BY <1>5 DEF DoStep, DoStep2, DoStep3, DoStepRaises, Advanced
  <2>. QED BY <2>1
<1>6. CASE Terminate
  BY <1>6 DEF Terminate
<1>7. CASE CloseSession
  BY <1>7 DEF CloseSession, SessionCloses, TypeInv
<1>8. CASE CloseAgain
  BY <1>8 DEF CloseAgain, SessionCloses
<1>9. CASE Raises
  <2>1. /\ op \notin {"none", "create"} /\ op' = "none"
        /\ state' = IF op = "terminate" THEN "ERROR" ELSE state
        /\ UNCHANGED <<held, now, flags, native, fmuTime>>
    BY <1>9 DEF Raises, RaiseAt, Simple
  <2>. QED BY <2>1 DEF TypeInv
<1>10. CASE Returns
  <2>1. /\ op # "none" /\ op \in {"create", "initialize", "step", "terminate"}
        /\ UNCHANGED <<closed, released, fmuTime, halfDone>>
    BY <1>10 DEF Returns, Simple, TypeInv
  <2>2. op = "create" => native \in Before(op, todo[1]) /\ ~halfDone
    BY <2>1 DEF Inv, InstanceInv
  <2>3. CASE Len(todo) = 1 /\ Completed
    <3>1. op = "create" => native' = "instantiated"
      <4>1. op = "create" => After(op, todo[1]) \subseteq {"instantiated"}
        BY <2>1, <2>3, HeadCall DEF Goal
      <4>. QED BY <1>10, <2>2, <4>1, ReturnLeads
    <3>2. op # "create" => native' \in {native, "terminated"} \union Alive
      BY <1>10, ReturnLeads
    <3>3. CASE op = "create"
      BY <2>1, <2>3, <3>1, <3>3 DEF Completed, Alive
    <3>4. CASE op = "initialize"
      BY <2>1, <2>3, <3>2, <3>4 DEF Completed
    <3>5. CASE op = "step"
      BY <2>1, <2>3, <3>2, <3>5 DEF Completed, Advanced
    <3>6. CASE op = "terminate"
      BY <2>1, <2>3, <3>2, <3>6 DEF Completed
    <3>. QED BY <2>1, <3>3, <3>4, <3>5, <3>6
  <2>4. CASE Len(todo) # 1
    <3>1. /\ UNCHANGED <<held, state, now, initialized, terminated, op>>
          /\ op # "create" => native' \in {native, "terminated"} \union Alive
          /\ native \in Before(op, todo[1]) => native' \in Before(op, todo'[1])
          /\ todo'[1] \in CallsOf(op)
      BY <1>10, <2>4, ReturnLeads
    <3>2. op = "create" => native' \in {"none", "loaded"}
      BY <2>2, <3>1 DEF CallsOf, Before
    <3>. QED BY <2>1, <3>1, <3>2
  <2>. QED BY <1>10, <2>3, <2>4, ReturnLeads
<1>11. CASE UNCHANGED vars
  BY <1>11 DEF vars
<1>. QED BY <1>1, <1>2, <1>3, <1>4, <1>5, <1>6, <1>7, <1>8, <1>9, <1>10, <1>11 DEF Next

\* Every step keeps what is known of a closing session.
LEMMA CloseStep ==
    ASSUME Inv, [Next]_vars
    PROVE  CloseInv'
<1>0. TypeInv /\ RecordInv /\ CloseInv
  BY DEF Inv
<1>. USE <1>0 DEF CloseInv, record, flags, call, instance, history
<1>1. CASE CreateSession \/ OpenFails
  BY <1>1 DEF CreateSession, OpenFails, RecordInv
<1>2. CASE Initialize \/ BeginStep \/ SizeRefused \/ ReadOutputs \/ UpdatesAgain
  BY <1>2 DEF Initialize, BeginStep, SizeRefused, ReadOutputs, UpdatesAgain
<1>3. CASE DoStep \/ Terminate
  BY <1>3 DEF DoStep, Terminate
<1>4. CASE CloseSession \/ CloseAgain
  <2>1. SessionCloses
    BY <1>4 DEF CloseSession, CloseAgain
  <2>2. released' = TRUE /\ closed' = ~directory'
    BY <2>1 DEF SessionCloses
  <2>3. frees' = IF released THEN frees ELSE frees + 1
    BY <2>1 DEF SessionCloses, Frees
  <2>. QED BY <2>2, <2>3 DEF TypeInv
<1>5. CASE Raises \/ Returns
  BY <1>5 DEF Raises, RaiseAt, Returns
<1>6. CASE UNCHANGED vars
  BY <1>6 DEF vars
<1>. QED BY <1>1, <1>2, <1>3, <1>4, <1>5, <1>6 DEF Next

\* A doStep moves the instance and the engine together, or leaves something half
\* done, or opens Event Mode at the time the instance has come to.
LEMMA DoStepLeads ==
    ASSUME Inv, DoStep
    PROVE  /\ op = "step" /\ todo = <<"doStep">> /\ target > now
           /\ halfDone' = halfDone \/ halfDone' = TRUE
           /\ \/ op' = "none" /\ todo' = <<>> /\ UNCHANGED <<state, now>>
                 /\ (halfDone' = TRUE \/ fmuTime' = fmuTime)
              \/ op' = "none" /\ todo' = <<>> /\ state' = "RUNNING" /\ fmuTime' = now' /\ now' > now
                 /\ now' \in Nat
              \/ /\ op' = "step" /\ todo' = <<"enterEventMode">> \o EventModeCalls
                 /\ fmuTime' = target' /\ target' > now /\ UNCHANGED <<state, now>>
<1>1. op = "step" /\ todo = <<"doStep">> /\ target > now /\ target \in Nat /\ now \in Nat
      /\ halfDone \in BOOLEAN
  BY DEF DoStep, Inv, TypeInv
<1>2. CASE DoStepRaises
  <2>1. halfDone' = (halfDone \/ fmuTime' # fmuTime) /\ Return /\ UNCHANGED <<state, now>>
    BY <1>2 DEF DoStepRaises
  <2>. QED BY <1>1, <2>1 DEF Return
<1>3. CASE DoStep2 /\ ~DoStepRaises
  BY <1>1, <1>3 DEF DoStep2, Advanced, ReachedTime, Return
<1>4. CASE DoStep3 /\ ~DoStepRaises
  <2>1. PICK answer \in Answers :
           /\ fmuTime' = answer.reached
           /\ \/ halfDone' = TRUE /\ Return /\ UNCHANGED <<state, now>>
              \/ /\ ~Refused(answer) /\ target' = answer.reached
                 /\ todo' = <<"enterEventMode">> \o EventModeCalls
                 /\ UNCHANGED <<op, iterations, state, now, halfDone>>
              \/ /\ ~Refused(answer) /\ Advanced(answer.reached)
                 /\ Return /\ UNCHANGED halfDone
    BY <1>4 DEF DoStep3
  <2>2. answer.reached \in Nat /\ (~Refused(answer) => answer.reached > now)
    BY <1>1 DEF Answers, Refused
  <2>. QED BY <1>1, <2>1, <2>2 DEF Advanced, ReachedTime, Return
<1>. QED BY <1>2, <1>3, <1>4 DEF DoStep

\* Event handling begins by entering Event Mode and makes no other kind of call.
LEMMA EventCallsFirst ==
    LET calls == <<"enterEventMode">> \o EventModeCalls
    IN  /\ calls[1] = "enterEventMode" /\ Len(calls) \in Nat \ {0}
        /\ \A i \in 1..Len(calls) : calls[i] \in EventCalls
<1>. DEFINE first == <<"enterEventMode">>  calls == first \o EventModeCalls
<1>1. first \in Seq(EventCalls) /\ Len(first) = 1 /\ first[1] = "enterEventMode"
  BY DEF EventCalls
<1>2. EventModeCalls \in Seq(EventCalls)
  BY DEF EventModeCalls, EventCalls
<1>3. /\ calls \in Seq(EventCalls) /\ Len(calls) = 1 + Len(EventModeCalls) /\ calls[1] = first[1]
  BY <1>1, <1>2, OneAndMore
<1>. QED BY <1>1, <1>2, <1>3

\* BeginStep: with or without an update to hand over first.
LEMMA BeginStepPath ==
    ASSUME BeginStep
    PROVE  /\ Path("step", todo', {"step"}, "step") /\ op' = "step"
           /\ \/ Due /\ SetsInputs /\ todo' = <<"setInputs", "doStep">> /\ todo'[1] = "setInputs"
              \/ ~SetsInputs /\ todo' = <<"doStep">> /\ todo'[1] = "doStep"
<1>1. op' = "step" /\ todo' = (IF SetsInputs THEN <<"setInputs">> ELSE <<>>) \o <<"doStep">>
  BY DEF BeginStep, Begin
<1>2. CASE SetsInputs
  <2>1. todo' = <<"setInputs">> \o <<"doStep">>
    BY <1>1, <1>2
  <2>2. <<"setInputs">> \o <<"doStep">> = <<"setInputs", "doStep">>
    <3>. DEFINE S == {"setInputs", "doStep"}  first == <<"setInputs">>  second == <<"doStep">>
                both == <<"setInputs", "doStep">>
    <3>1. /\ first \in Seq(S) /\ second \in Seq(S) /\ both \in Seq(S)
          /\ Len(first) = 1 /\ Len(second) = 1 /\ Len(both) = 2
          /\ both[1] = first[1] /\ both[2] = second[1]
      OBVIOUS
    <3>. HIDE DEF S, first, second, both
    <3>2. /\ first \o second \in Seq(S) /\ Len(first \o second) = 2
          /\ (first \o second)[1] = both[1] /\ (first \o second)[2] = both[2]
      BY <3>1, OneAndMore
    <3>3. first \o second = both
      <4>1. \A i \in 1..2 : i = 1 \/ i = 2
        OBVIOUS
      <4>. QED BY <3>1, <3>2, <4>1, SameSequence
    <3>. QED BY <3>3 DEF first, second, both
  <2>3. Path("step", todo', {"step"}, "step")
    BY <2>1, StepPath, PathConcat
  <2>. QED BY <1>1, <1>2, <2>1, <2>2, <2>3 DEF SetsInputs
<1>3. CASE ~SetsInputs
  <2>1. todo' = <<>> \o <<"doStep">>
    BY <1>1, <1>3
  <2>2. <<>> \o <<"doStep">> = <<"doStep">>
    OBVIOUS
  <2>. QED BY <1>1, <1>3, <2>1, <2>2, StepPath
<1>. QED BY <1>2, <1>3

\* What is left of a step in progress after a call that returned.
LEMMA StepLeft ==
    ASSUME Inv, op = "step", todo[1] # "doStep"
    PROVE  /\ todo[1] \in {"setInputs"} \union EventCalls /\ "setInputs" \notin EventCalls
           /\ todo[1] = "setInputs" => Due /\ Len(todo) = 2 /\ Tail(todo) = <<"doStep">>
           /\ todo[1] \in EventCalls =>
                 /\ ~Due /\ target > now
                 /\ Len(todo) # 1 =>
                       /\ Tail(todo)[1] \in EventCalls
                       /\ \A i \in 1..Len(Tail(todo)) : Tail(todo)[i] \in EventCalls
<1>1. todo[1] \in {"setInputs"} \union EventCalls /\ "setInputs" \notin EventCalls
  BY HeadCall DEF CallsOf, EventCalls
<1>2. CASE todo[1] = "setInputs"
  <2>1. Due /\ todo = <<"setInputs", "doStep">>
    BY <1>2 DEF Inv, InputInv, PendingInv
  <2>2. Len(<<"setInputs", "doStep">>) = 2 /\ Tail(<<"setInputs", "doStep">>) = <<"doStep">>
    <3>. DEFINE S == {"setInputs", "doStep"}  both == <<"setInputs", "doStep">>  last == <<"doStep">>
    <3>1. /\ both \in Seq(S) /\ last \in Seq(S) /\ Len(both) = 2 /\ Len(last) = 1
          /\ both[2] = last[1]
      OBVIOUS
    <3>. HIDE DEF S, both, last
    <3>2. Tail(both) \in Seq(S) /\ Len(Tail(both)) = 1 /\ Tail(both)[1] = both[2]
      BY <3>1
    <3>3. Tail(both) = last
      <4>1. \A i \in 1..1 : i = 1
        OBVIOUS
      <4>. QED BY <3>1, <3>2, <4>1, SameSequence
    <3>. QED BY <3>1, <3>3 DEF both, last
  <2>. QED BY <1>1, <1>2, <2>1, <2>2
<1>3. CASE todo[1] \in EventCalls
  <2>1. ~Due /\ target > now /\ \A i \in 1..Len(todo) : todo[i] \in EventCalls
    BY <1>3 DEF Inv, InputInv, PendingInv
  <2>2. todo \in Seq(CallsOf(op)) /\ todo # <<>> /\ Len(todo) \in Nat \ {0}
    BY HeadCall DEF Inv, InstanceInv, InPath, Path
  <2>3. /\ Len(Tail(todo)) = Len(todo) - 1
        /\ \A i \in 1..Len(Tail(todo)) : Tail(todo)[i] = todo[i + 1]
    <3>. DEFINE S == CallsOf(op)
    <3>. HIDE DEF S
    <3>. QED BY <2>2 DEF S
  <2>4. \A i \in 1..Len(Tail(todo)) : Tail(todo)[i] \in EventCalls
    BY <2>1, <2>2, <2>3
  <2>5. Len(todo) # 1 => 1 \in 1..Len(Tail(todo))
    BY <2>2, <2>3
  <2>. QED BY <1>1, <1>3, <2>1, <2>4, <2>5
<1>. QED BY <1>1, <1>2, <1>3

\* Every step keeps the mode of the instance.
LEMMA InstanceStep ==
    ASSUME Inv, [Next]_vars
    PROVE  InstanceInv'
<1>0. TypeInv /\ RecordInv /\ InstanceInv /\ RecordInv'
  BY RecordStep DEF Inv
<1>. USE DEF record, flags, call, instance, history
<1>1. CASE CreateSession
  <2>1. /\ op' = "create" /\ todo' = OpenCalls /\ native' = "none" /\ ~halfDone /\ ~held
        /\ UNCHANGED <<fmu, held, initialized, terminated, misused, halfDone>>
    BY <1>0, <1>1 DEF CreateSession, Begin, RecordInv, Idle
  <2>2. InPath' /\ (native \in Before(op, todo[1]))'
    BY <2>1, OpenPath, InPathNext DEF Goal
  <2>. QED BY <1>0, <2>1, <2>2 DEF InstanceInv
<1>2. CASE OpenFails
  BY <1>0, <1>2 DEF OpenFails, Return, InstanceInv, RecordInv
<1>3. CASE Initialize
  <2>1. /\ op = "none" /\ held /\ ~initialized /\ op' = "initialize" /\ fmu \in Fmus
        /\ UNCHANGED <<fmu, held, native, initialized, terminated, misused, halfDone, fmuTime, now>>
        /\ todo' = IF fmu.version = 2 THEN InitializeCalls2 ELSE InitializeCalls3
    BY <1>0, <1>3 DEF Initialize, Begin, RecordInv, Idle, TypeInv
  <2>2. InPath' /\ (~halfDone => (native \in Before(op, todo[1]))')
    <3>1. CASE fmu.version = 2
      <4>1. InPath' /\ (native' \in {"instantiated", "setup"} => (native \in Before(op, todo[1]))')
        BY <2>1, <3>1, InitializePath2, InPathNext DEF Goal
      <4>. QED BY <1>0, <2>1, <4>1 DEF InstanceInv
    <3>2. CASE fmu.version = 3
      <4>1. InPath' /\ (native' \in {"instantiated"} => (native \in Before(op, todo[1]))')
        BY <2>1, <3>2, InitializePath3, InPathNext DEF Goal
      <4>. QED BY <1>0, <2>1, <3>2, <4>1 DEF InstanceInv
    <3>. QED BY <2>1, <3>1, <3>2, FmusAssumption
  <2>. QED BY <1>0, <2>1, <2>2 DEF InstanceInv
<1>4. CASE BeginStep
  <2>1. /\ op = "none" /\ held /\ initialized /\ ~terminated
        /\ UNCHANGED <<fmu, held, native, initialized, terminated, misused, halfDone, fmuTime, now>>
    BY <1>0, <1>4 DEF BeginStep, RecordInv, Idle, Usable
  <2>2. op' = "step" /\ todo'[1] \notin EventCalls /\ Path("step", todo', {"step"}, "step")
    BY <1>4, BeginStepPath DEF EventCalls
  <2>3. InPath' /\ (native' = "step" => (native \in Before(op, todo[1]))')
    BY <2>1, <2>2, InPathNext DEF Goal
  <2>. QED BY <1>0, <2>1, <2>2, <2>3 DEF InstanceInv
<1>5. CASE SizeRefused
  <2>1. /\ op = "step" /\ todo = <<"doStep">> /\ op' = "none" /\ todo' = <<>>
        /\ UNCHANGED <<fmu, record, flags, instance, history, misused>>
        /\ initialized /\ ~terminated /\ held
    BY <1>0, <1>5 DEF SizeRefused, Return, RecordInv, Usable
  <2>2. todo[1] = "doStep" /\ Before(op, todo[1]) = {"step"} /\ "doStep" \notin EventCalls
    BY <2>1 DEF Before, EventCalls
  <2>. QED BY <1>0, <2>1, <2>2 DEF InstanceInv
<1>6. CASE ReadOutputs
  <2>1. /\ op = "none" /\ held /\ initialized /\ ~terminated
        /\ misused' = (misused \/ native \notin {"initialization", "step", "event"})
        /\ UNCHANGED <<fmu, record, flags, call, instance, history>>
    BY <1>0, <1>6 DEF ReadOutputs, Noted, NativeCalls, Entry, RecordInv, Usable, Idle
  <2>. QED BY <1>0, <2>1 DEF InstanceInv
<1>7. CASE UpdatesAgain
  <2>1. /\ op # "none" /\ todo[1] = "updateDiscreteStates"
        /\ misused' = (misused \/ native \notin {"event"})
        /\ UNCHANGED <<fmu, record, flags, op, todo, target, instance, history>>
    BY <1>7, HeadCall DEF UpdatesAgain, Simple, Head_, Noted, NativeCalls, Entry, Idle
  <2>2. Before(op, todo[1]) = {"event"} /\ InPath
    BY <1>0, <2>1 DEF Before, InstanceInv
  <2>3. InPath' /\ (native' \in {"event"} => (native \in Before(op, todo[1]))')
    BY <2>1, <2>2, InPathNext DEF InPath
  <2>. QED BY <1>0, <2>1, <2>2, <2>3 DEF InstanceInv
<1>8. CASE DoStep
  <2>1. /\ op = "step" /\ todo = <<"doStep">> /\ held /\ initialized /\ ~terminated
        /\ misused' = (misused \/ native \notin {"step"})
        /\ UNCHANGED <<fmu, held, flags, native>>
    BY <1>0, <1>8 DEF DoStep, Noted, NativeCalls, Entry, RecordInv, Usable
  <2>2. Before(op, todo[1]) = {"step"} /\ "doStep" \notin EventCalls /\ todo[1] = "doStep"
    BY <2>1 DEF Before, EventCalls
  <2>3. /\ ~halfDone' => ~halfDone /\ ~misused' /\ native' = "step" /\ fmuTime = now
    BY <1>0, <1>8, <2>1, <2>2, DoStepLeads DEF InstanceInv, TypeInv
  <2>4. CASE op' = "none" /\ todo' = <<>>
    BY <1>8, <2>1, <2>3, <2>4, DoStepLeads DEF InstanceInv
  <2>5. CASE /\ op' = "step" /\ todo' = <<"enterEventMode">> \o EventModeCalls
             /\ fmuTime' = target' /\ UNCHANGED <<state, now>>
    <3>1. todo'[1] \in EventCalls
      BY <2>5, EventCallsFirst DEF EventCalls
    <3>2. InPath' /\ (native' \in {"step"} => (native \in Before(op, todo[1]))')
      BY <2>1, <2>5, StepPath, InPathNext DEF Goal
    <3>. QED BY <2>1, <2>3, <2>5, <3>1, <3>2 DEF InstanceInv
  <2>. QED BY <1>8, <2>4, <2>5, DoStepLeads
<1>9. CASE Terminate
  <2>1. /\ op = "none" /\ held
        /\ UNCHANGED <<fmu, held, now, flags, instance, history, misused>>
    BY <1>9 DEF Terminate, Idle
  <2>2. CASE initialized /\ ~terminated /\ Begin("terminate", <<"terminate">>)
    <3>1. op' = "terminate" /\ todo' = <<"terminate">>
      BY <2>2 DEF Begin
    <3>2. InPath' /\ (native' \in {"step"} => (native \in Before(op, todo[1]))')
      BY <2>1, <3>1, StepPath, InPathNext DEF Goal
    <3>. QED BY <1>0, <2>1, <2>2, <3>1, <3>2 DEF InstanceInv
  <2>3. CASE (~initialized \/ terminated) /\ UNCHANGED <<op, todo>>
    BY <1>0, <2>1, <2>3 DEF InstanceInv
  <2>. QED BY <1>9, <2>2, <2>3 DEF Terminate
<1>10. CASE CloseSession \/ CloseAgain
  <2>1. /\ op = "none" /\ ~held' /\ UNCHANGED <<op, todo, halfDone, misused>>
    <3>1. CASE CloseSession
      BY <3>1 DEF CloseSession, SessionCloses, Idle
    <3>2. CASE CloseAgain
      BY <3>2 DEF CloseAgain, SessionCloses, Idle
    <3>. QED BY <1>10, <3>1, <3>2
  <2>. QED BY <1>0, <2>1 DEF InstanceInv
<1>11. CASE Raises
  <2>1. /\ op \notin {"none", "create"} /\ op' = "none" /\ todo' = <<>> /\ Head_ = todo[1]
        /\ todo[1] # "doStep" /\ todo[1] \in CallsOf(op)
        /\ misused' = (misused \/ native \notin NativeCalls[todo[1]].from)
        /\ halfDone' = (halfDone \/ HalfDoneBy(todo[1]))
        /\ UNCHANGED <<fmu, held, now, flags, instance>>
    BY <1>11, HeadCall DEF Raises, RaiseAt, Return, Simple, Head_, Noted, Idle
  <2>2. op \in {"initialize", "step", "terminate"}
    BY <1>0, <2>1 DEF TypeInv
  <2>3. ~halfDone' => ~halfDone /\ ~HalfDoneBy(todo[1]) /\ native \in Before(op, todo[1]) /\ ~misused
                      /\ native \in NativeCalls[todo[1]].from
    BY <1>0, <2>1, <2>2, Table DEF InstanceInv
  <2>4. CASE op = "initialize"
    <3>1. held /\ ~initialized
      BY <1>0, <2>4 DEF RecordInv
    <3>2. ~halfDone' => native \in {"instantiated", "setup"} /\ (native = "setup" => fmu.version = 2)
      BY <2>1, <2>3, <2>4 DEF HalfDoneBy, Before
    <3>. QED BY <1>0, <2>1, <2>3, <2>4, <3>1, <3>2 DEF InstanceInv
  <2>5. CASE op = "step"
    <3>1. held /\ initialized /\ ~terminated
      BY <1>0, <2>5 DEF RecordInv, Usable
    <3>2. ~halfDone' => todo[1] = "setInputs"
      BY <2>1, <2>3, <2>5 DEF HalfDoneBy, CallsOf, EventCalls
    <3>3. ~halfDone' => native = "step" /\ todo[1] \notin EventCalls
      BY <2>3, <2>5, <3>2 DEF Before, EventCalls
    <3>. QED BY <1>0, <2>1, <2>3, <2>5, <3>1, <3>3 DEF InstanceInv
  <2>6. CASE op = "terminate"
    <3>1. held /\ initialized /\ ~terminated /\ Before(op, todo[1]) = {"step"}
      BY <1>0, <2>1, <2>6 DEF RecordInv, CallsOf, Before
    <3>. QED BY <1>0, <2>1, <2>3, <2>6, <3>1 DEF InstanceInv
  <2>. QED BY <2>2, <2>4, <2>5, <2>6
<1>12. CASE Returns
  <2>1. /\ op # "none" /\ op \in {"create", "initialize", "step", "terminate"}
        /\ todo[1] # "doStep" /\ todo[1] \in CallsOf(op)
        /\ misused' = (misused \/ native \notin NativeCalls[todo[1]].from)
        /\ UNCHANGED <<fmu, fmuTime, halfDone>>
    BY <1>12, HeadCall DEF Returns, Simple, Head_, Noted, Idle
  <2>2. ~halfDone => ~misused' /\ native \in Before(op, todo[1]) /\ native' \in After(op, todo[1])
    BY <1>0, <1>12, <2>1, Table, ReturnLeads DEF InstanceInv
  <2>3. CASE Len(todo) # 1
    <3>1. /\ UNCHANGED <<held, now, initialized, terminated, op, target>> /\ todo' = Tail(todo)
          /\ Path(op, todo', After(op, todo[1]), Goal(op))
      BY <1>12, <2>3, ReturnLeads
    <3>2. InPath' /\ (native' \in After(op, todo[1]) => (native \in Before(op, todo[1]))')
      BY <2>1, <3>1, InPathNext
    <3>3. op = "step" => (todo[1] \in EventCalls <=> todo'[1] \in EventCalls)
      <4>1. <<"doStep">>[1] = "doStep" /\ "doStep" \notin EventCalls
        BY DEF EventCalls
      <4>. QED BY <2>1, <2>3, <3>1, <4>1, StepLeft
    <3>. QED BY <1>0, <2>1, <2>2, <3>1, <3>2, <3>3 DEF InstanceInv
  <2>4. CASE Len(todo) = 1 /\ Completed
    <3>1. op' = "none" /\ todo' = <<>> /\ (~halfDone => native' = Goal(op))
      BY <1>12, <2>1, <2>2, <2>4, HeadCall DEF Completed, Return
    <3>2. CASE op = "create"
      BY <1>0, <2>1, <2>2, <2>4, <3>1, <3>2 DEF Completed, InstanceInv, RecordInv, Goal
    <3>3. CASE op = "initialize"
      BY <1>0, <2>1, <2>2, <2>4, <3>1, <3>3 DEF Completed, InstanceInv, RecordInv, Goal
    <3>4. CASE op = "step"
      <4>1. todo[1] \in EventCalls
        BY <2>1, <2>4, <3>4, StepLeft
      <4>. QED BY <1>0, <2>1, <2>2, <2>4, <3>1, <3>4, <4>1 DEF Completed, Advanced, ReachedTime,
           InstanceInv, RecordInv, Goal
    <3>5. CASE op = "terminate"
      BY <1>0, <2>1, <2>2, <2>4, <3>1, <3>5 DEF Completed, InstanceInv, RecordInv
    <3>. QED BY <2>1, <3>2, <3>3, <3>4, <3>5
  <2>. QED BY <1>12, <2>3, <2>4, ReturnLeads
<1>13. CASE UNCHANGED vars
  <2>1. op # "none" => InPath'
    BY <1>0, <1>13, InPathNext DEF vars, InstanceInv, InPath
  <2>2. Before(op, todo[1])' = Before(op, todo[1])
    BY <1>13 DEF vars, Before
  <2>. QED BY <1>0, <1>13, <2>1, <2>2 DEF vars, InstanceInv
<1>. QED BY <1>1, <1>2, <1>3, <1>4, <1>5, <1>6, <1>7, <1>8, <1>9, <1>10, <1>11, <1>12, <1>13 DEF Next

\* An update handed over at its time: the one after it is still to come.
LEMMA DeliveryStep ==
    ASSUME Inv, Due, next' = next + 1, delivered' = Append(delivered, <<next, now>>),
           UNCHANGED <<now, tried>>
    PROVE  DeliveryInv' /\ ~Due'
<1>0. /\ DeliveryInv /\ next \in Nat \ {0} /\ now \in Nat /\ delivered \in Seq(Nat \X Int)
      /\ tried \subseteq Nat /\ <<next, now>> \in Nat \X Int
  BY DEF Inv, InputInv, TypeInv, Updates
<1>1. /\ Len(Schedule) \in Nat
      /\ \A i \in 1..Len(Schedule) : Schedule[i].time \in Nat
      /\ \A i \in 1..Len(Schedule) - 1 : Schedule[i].time < Schedule[i + 1].time
  <2>. DEFINE S == [time : Nat, values : BOOLEAN]
  <2>1. Schedule \in Seq(S) /\ \A u \in S : u.time \in Nat
    BY ScheduleAssumption
  <2>. HIDE DEF S
  <2>2. Len(Schedule) \in Nat /\ \A i \in 1..Len(Schedule) : Schedule[i] \in S
    BY <2>1
  <2>. QED BY <2>1, <2>2, ScheduleAssumption
<1>2. next <= Len(Schedule) /\ Schedule[next].time = now /\ next = Len(delivered) + 1
  BY <1>0 DEF Due, DeliveryInv
<1>3. /\ Len(delivered') = Len(delivered) + 1 /\ Len(delivered) \in Nat
      /\ delivered'[next] = <<next, now>>
      /\ \A k \in 1..Len(delivered) : delivered'[k] = delivered[k]
  <2>. DEFINE update == <<next, now>>  S == Nat \X Int
  <2>1. update \in S /\ delivered \in Seq(S) /\ delivered' = Append(delivered, update)
    BY <1>0
  <2>. HIDE DEF update, S
  <2>2. /\ Len(delivered') = Len(delivered) + 1 /\ Len(delivered) \in Nat
        /\ delivered'[Len(delivered) + 1] = update
        /\ \A k \in 1..Len(delivered) : delivered'[k] = delivered[k]
    BY <2>1
  <2>. QED BY <1>2, <2>2 DEF update
<1>4. next' <= Len(Schedule) => Schedule[next'].time > now
  <2>1. next' <= Len(Schedule) => next \in 1..Len(Schedule) - 1
    BY <1>0, <1>1
  <2>2. next' = next + 1
    OBVIOUS
  <2>. QED BY <1>1, <1>2, <2>1, <2>2
<1>5. next' <= Len(Schedule) => Schedule[next'].time \notin tried /\ Schedule[next'].time # now
  <2>1. \A time \in tried : time <= now /\ time \in Nat
    BY <1>0 DEF DeliveryInv
  <2>2. next' <= Len(Schedule) => next' \in 1..Len(Schedule)
    BY <1>0
  <2>3. next' <= Len(Schedule) => Schedule[next'].time \in Nat
    BY <1>1, <2>2
  <2>. QED BY <1>0, <1>4, <2>1, <2>3
<1>6. ASSUME NEW k \in 1..Len(delivered') PROVE delivered'[k] = <<k, Schedule[k].time>>
  <2>1. CASE k = next
    BY <1>2, <1>3, <2>1
  <2>2. CASE k \in 1..Len(delivered)
    BY <1>0, <1>3, <2>2 DEF DeliveryInv
  <2>. QED BY <1>2, <1>3, <2>1, <2>2
<1>7. next' = Len(delivered') + 1 /\ next' <= Len(Schedule) + 1
  BY <1>0, <1>1, <1>2, <1>3
<1>8. \A time \in tried' : time <= now'
  BY <1>0 DEF DeliveryInv
<1>9. ~Due'
  BY <1>5 DEF Due
<1>10. next' <= Len(Schedule) => Schedule[next'].time \notin tried'
  BY <1>5
<1>. QED BY <1>6, <1>7, <1>8, <1>9, <1>10 DEF DeliveryInv

\* Every step keeps the updates delivered and pending.
LEMMA InputStep ==
    ASSUME Inv, [Next]_vars
    PROVE  InputInv'
<1>0. DeliveryInv /\ PendingInv /\ now \in Nat /\ tried \subseteq Nat
  BY DEF Inv, TypeInv, InputInv
<1>. USE DEF record, flags, call, instance, history
<1>1. CASE CreateSession \/ Initialize \/ Terminate
  <2>1. UNCHANGED <<next, delivered, now, tried>> /\ (op' # "step")
    BY <1>1 DEF CreateSession, Initialize, Terminate, Begin, Idle
  <2>. QED BY <1>0, <2>1 DEF InputInv, DeliveryInv, PendingInv
<1>2. CASE OpenFails \/ SizeRefused \/ CloseSession \/ CloseAgain \/ Raises
  <2>1. UNCHANGED <<next, delivered, now, tried>> /\ op' = "none"
    <3>1. CASE OpenFails \/ SizeRefused
      BY <3>1 DEF OpenFails, SizeRefused, Return
    <3>2. CASE CloseSession \/ CloseAgain
      BY <3>2 DEF CloseSession, CloseAgain, SessionCloses, Idle
    <3>3. CASE Raises
      BY <3>3 DEF Raises, RaiseAt, Return
    <3>. QED BY <1>2, <3>1, <3>2, <3>3
  <2>. QED BY <1>0, <2>1 DEF InputInv, DeliveryInv, PendingInv
<1>3. CASE BeginStep
  <2>1. /\ op' = "step" /\ UNCHANGED <<now, tried>>
        /\ next' = (IF Due /\ ~SetsInputs THEN next + 1 ELSE next)
        /\ delivered' = (IF Due /\ ~SetsInputs THEN Append(delivered, <<next, now>>)
                                               ELSE delivered)
    BY <1>3 DEF BeginStep, Begin
  <2>2. CASE Due /\ SetsInputs
    <3>1. /\ UNCHANGED <<next, delivered>> /\ todo'[1] = "setInputs"
          /\ todo' = <<"setInputs", "doStep">>
      BY <1>3, <2>1, <2>2, BeginStepPath
    <3>2. Due' /\ DeliveryInv'
      BY <1>0, <2>1, <2>2, <3>1 DEF Due, DeliveryInv
    <3>. QED BY <2>1, <3>1, <3>2 DEF InputInv, PendingInv, EventCalls
  <2>3. CASE ~SetsInputs
    <3>1. todo'[1] = "doStep" /\ todo' = <<"doStep">>
      BY <1>3, <2>3, BeginStepPath
    <3>2. CASE Due
      <4>1. DeliveryInv' /\ ~Due'
        BY <2>1, <2>3, <3>2, DeliveryStep
      <4>. QED BY <2>1, <3>1, <4>1 DEF InputInv, PendingInv, EventCalls
    <3>3. CASE ~Due
      <4>1. DeliveryInv' /\ ~Due'
        BY <1>0, <2>1, <3>3 DEF Due, DeliveryInv
      <4>. QED BY <2>1, <3>1, <4>1 DEF InputInv, PendingInv, EventCalls
    <3>. QED BY <3>2, <3>3
  <2>. QED BY <2>2, <2>3 DEF SetsInputs
<1>4. CASE ReadOutputs \/ UpdatesAgain
  BY <1>0, <1>4 DEF ReadOutputs, UpdatesAgain, InputInv, DeliveryInv, PendingInv, Due
<1>5. CASE DoStep
  <2>1. /\ op = "step" /\ todo = <<"doStep">> /\ tried' = tried \union {now}
        /\ UNCHANGED <<next, delivered>>
    BY <1>5 DEF DoStep
  <2>2. todo[1] = "doStep" /\ ~Due
    BY <1>0, <2>1 DEF PendingInv
  <2>3. now' >= now /\ now' \in Nat
    <3>1. now' = now \/ (now' > now /\ now' \in Nat)
      BY <1>5, DoStepLeads
    <3>. QED BY <1>0, <3>1
  <2>4. DeliveryInv'
    <3>1. next <= Len(Schedule) => Schedule[next].time # now
      BY <2>2 DEF Due
    <3>2. \A time \in tried' : time <= now'
      BY <1>0, <2>1, <2>3 DEF DeliveryInv
    <3>. QED BY <1>0, <2>1, <3>1, <3>2 DEF DeliveryInv
  <2>5. PendingInv'
    <3>1. CASE op' = "none"
      BY <3>1 DEF PendingInv
    <3>2. CASE /\ op' = "step" /\ todo' = <<"enterEventMode">> \o EventModeCalls
               /\ target' > now /\ UNCHANGED <<state, now>>
      <4>1. /\ todo'[1] = "enterEventMode"
            /\ \A i \in 1..Len(todo') : todo'[i] \in EventCalls
        BY <3>2, EventCallsFirst
      <4>2. ~Due'
        BY <2>1, <2>2, <3>2 DEF Due
      <4>. QED BY <3>2, <4>1, <4>2 DEF PendingInv
    <3>. QED BY <1>5, <3>1, <3>2, DoStepLeads
  <2>. QED BY <2>4, <2>5 DEF InputInv
<1>6. CASE Returns
  <2>1. op # "none" /\ Head_ = todo[1] /\ todo[1] # "doStep" /\ UNCHANGED tried
    BY <1>6, HeadCall DEF Returns, Simple, Head_, Idle
  <2>2. CASE op = "step" /\ todo[1] = "setInputs"
    <3>1. Due /\ Len(todo) = 2 /\ Tail(todo) = <<"doStep">>
      BY <2>1, <2>2, StepLeft
    <3>2. /\ next' = next + 1 /\ delivered' = Append(delivered, <<next, now>>)
      BY <1>6, <2>1, <2>2 DEF Returns
    <3>3. UNCHANGED <<now, op>> /\ todo' = Tail(todo)
      BY <1>6, <3>1 DEF Returns
    <3>4. DeliveryInv' /\ ~Due'
      BY <2>1, <3>1, <3>2, <3>3, DeliveryStep
    <3>5. todo' = <<"doStep">>
      BY <3>1, <3>3, Zenon
    <3>6. <<"doStep">>[1] = "doStep"
      OBVIOUS
    <3>. QED BY <3>4, <3>5, <3>6 DEF InputInv, PendingInv, EventCalls
  <2>3. CASE op = "step" /\ todo[1] \in EventCalls
    <3>1. UNCHANGED <<next, delivered>>
      BY <1>6, <2>1, <2>3 DEF Returns, EventCalls
    <3>2. CASE Len(todo) # 1
      <4>1. UNCHANGED <<now, op, target>> /\ todo' = Tail(todo)
        BY <1>6, <3>2, ReturnLeads
      <4>2. /\ target > now /\ ~Due /\ todo'[1] \in EventCalls
            /\ \A i \in 1..Len(todo') : todo'[i] \in EventCalls
        BY <2>1, <2>3, <3>2, <4>1, StepLeft
      <4>. QED BY <1>0, <2>1, <3>1, <4>1, <4>2 DEF InputInv, DeliveryInv, PendingInv, Due, EventCalls
    <3>3. CASE Len(todo) = 1 /\ Completed
      <4>1. now' = target /\ op' = "none" /\ target > now /\ target \in Int
        BY <2>1, <2>3, <3>3, StepLeft DEF Completed, Return, Advanced, ReachedTime, Inv, TypeInv
      <4>2. \A time \in tried : time <= target
        BY <1>0, <4>1 DEF DeliveryInv
      <4>. QED BY <1>0, <2>1, <3>1, <4>1, <4>2 DEF InputInv, DeliveryInv, PendingInv
    <3>. QED BY <1>6, <3>2, <3>3, ReturnLeads
  <2>4. CASE op # "step"
    <3>1. UNCHANGED <<next, delivered>>
      BY <1>6, <2>4 DEF Returns
    <3>2. now' = now /\ op' # "step"
      <4>1. op \in {"create", "initialize", "step", "terminate"}
        BY <2>1, HeadCall
      <4>. QED BY <1>6, <2>4, <4>1, ReturnLeads DEF Completed, Return
    <3>. QED BY <1>0, <2>1, <3>1, <3>2 DEF InputInv, DeliveryInv, PendingInv
  <2>. QED BY <2>1, <2>2, <2>3, <2>4, StepLeft
<1>7. CASE UNCHANGED vars
  BY <1>0, <1>7 DEF vars, InputInv, DeliveryInv, PendingInv, Due
<1>. QED BY <1>1, <1>2, <1>3, <1>4, <1>5, <1>6, <1>7 DEF Next

\* The inductive invariant holds in every state.
LEMMA InvHolds == Spec => []Inv
<1>1. Inv /\ [Next]_vars => Inv'
  BY TypeStep, RecordStep, CloseStep, InstanceStep, InputStep DEF Inv
<1>. QED BY <1>1, InvInit, PTL DEF Spec

-----------------------------------------------------------------------------
(* The theorems. *)

\* The engine and the FMU go hand in hand through every failure and retry, as
\* long as no call raised after it had changed the instance: no native call is
\* made out of its mode, and a session that can be stepped is in Step Mode at
\* the time the engine believes.
THEOREM StaysInStep == Spec => []InStep
<1>1. Inv => InStep
  BY DEF Inv, RecordInv, InstanceInv, InStep, Idle, Usable
<1>. QED BY <1>1, InvHolds, PTL

\* The updates of the schedule are handed over in order, each once and at its
\* own time, and none is missing that the steps came to.
THEOREM InputsAreInOrder == Spec => []InputsInOrder
<1>1. Inv => InputsInOrder
  <2>. SUFFICES ASSUME Inv PROVE InputsInOrder
    OBVIOUS
  <2>1. DeliveryInv /\ delivered \in Seq(Nat \X Int) /\ next \in Nat
    BY DEF Inv, TypeInv, InputInv, Updates
  <2>2. DOMAIN delivered = 1..Len(delivered) /\ Len(delivered) \in Nat
    BY <2>1
  <2>3. DOMAIN Schedule = 1..Len(Schedule) /\ Len(Schedule) \in Nat
    BY ScheduleAssumption
  <2>4. ASSUME NEW k \in DOMAIN Schedule, \A j \in 1..k : Schedule[j].time \in tried,
               ~(Len(delivered) >= k)
        PROVE  FALSE
    <3>1. next \in 1..k /\ next <= Len(Schedule)
      BY <2>1, <2>2, <2>3, <2>4 DEF DeliveryInv
    <3>. QED BY <2>1, <2>4, <3>1 DEF DeliveryInv
  <2>. QED BY <2>1, <2>2, <2>4 DEF InputsInOrder, DeliveryInv
<1>. QED BY <1>1, InvHolds, PTL

\* The instance is released at most once, and exactly once when the engine has
\* forgotten the session, whatever raised before; a session the engine knows has
\* a living instance, and a close that reports success has left no directory.
THEOREM ReleasesOnce == Spec => []ReleasedOnce
<1>1. Inv => ReleasedOnce
  BY DEF Inv, RecordInv, CloseInv, ReleasedOnce
<1>. QED BY <1>1, InvHolds, PTL
=============================================================================
