--------------------------- MODULE EbpfHostProofs ---------------------------
(***************************************************************************)
(* EbpfHost for any containers, Stores, failing system calls and messages: *)
(* the inductive invariant, the two invariants and the two action          *)
(* properties that follow from it.                                         *)
(***************************************************************************)
EXTENDS EbpfHost, TLAPS

-----------------------------------------------------------------------------
(* The inductive invariant                                                 *)

Message   == [store : Stores, action : Waiting]
FrameType == [who : {"server", "monitor"}, op : {"register", "unregister"},
              at : {"sock", "route", "info"}, c : Containers, conn : Seq(Message)]
Step == proc[1]   \* the statement under way

(* What the (un)registration under way has done of its three tables.       *)
FrameInv ==
  proc # <<>> =>
    /\ Step.op = "unregister" \/ Step.at # "info" => containers[Step.c] # "none"
    /\ Step.op = "unregister" /\ Step.at # "sock" => Step.c \notin sockMap
    /\ Step.op = "unregister" /\ Step.at = "info" => Step.c \notin routeMap
    /\ Step.at # "info" => program
    /\ Step.who = "server" => Step.conn # <<>>
    /\ Step.op = "register" => Step.who = "server"

(* Without the program the tables are never written.                       *)
ProgramInv == ~program => sockMap = {} /\ routeMap = {}

(* Between two sleeps of the monitor nothing renews what it has collected. *)
MonitorInv ==
  mode = "running" =>
    /\ doomed \subseteq Old
    /\ proc # <<>> /\ Step.who = "monitor" =>
         Step.c \notin doomed /\ containers[Step.c] = "old"
    /\ proc # <<>> /\ doomed # {} => Step.who = "monitor"

MessageInv == msg # <<>> => last.n < MaxMessages

IInv == TypeOK /\ FrameInv /\ ProgramInv /\ RoutesBacked /\ MonitorInv /\ MessageInv

-----------------------------------------------------------------------------
(* Lemmas                                                                  *)

(* The statement under way, and what it becomes.                           *)
LEMMA StepType ==
  ASSUME TypeOK, proc # <<>>
  PROVE  /\ Step \in FrameType
         /\ proc \in Seq(FrameType)
         /\ Step.who \in {"server", "monitor"} /\ Step.op \in {"register", "unregister"}
         /\ Step.at \in {"sock", "route", "info"}
         /\ Step.c \in Containers /\ Step.conn \in Seq(Message)
<1>1. proc \in Seq(FrameType)
  BY DEF TypeOK, FrameType, Message
<1>2. Step \in FrameType
  BY <1>1 DEF Step
<1> QED BY <1>1, <1>2 DEF FrameType

LEMMA GotoStep ==
  ASSUME TypeOK, proc # <<>>, NEW at \in {"sock", "route", "info"}, Goto(at)
  PROVE  /\ proc' # <<>> /\ proc' \in Seq(FrameType)
         /\ Step'.who = Step.who /\ Step'.op = Step.op /\ Step'.at = at
         /\ Step'.c = Step.c /\ Step'.conn = Step.conn /\ reply' = reply
<1>1. Step \in FrameType
  BY StepType
<1>2. [Step EXCEPT !.at = at] \in FrameType
  BY <1>1 DEF FrameType
<1>3. proc' = <<[Step EXCEPT !.at = at]>> /\ reply' = reply
  BY DEF Goto, Step
<1>4. Step' = [Step EXCEPT !.at = at]
  BY <1>3 DEF Step
<1> QED BY <1>1, <1>2, <1>3, <1>4 DEF FrameType

(* An answer reaches only Stores that wait for it.                         *)
LEMMA AnswerType ==
  ASSUME TypeOK, NEW conn \in Seq(Message), Answer(conn)
  PROVE  /\ reply' \in [Stores -> BOOLEAN]
         /\ \A s \in Stores : reply'[s] => pc[s] \in Waiting
<1>1. reply' \in [Stores -> BOOLEAN]
  BY DEF Answer, TypeOK
<1>2. ASSUME NEW s \in Stores, reply'[s] PROVE pc[s] \in Waiting
  <2>1. CASE reply[s]
    BY <2>1 DEF TypeOK
  <2>2. CASE \E i \in 1..Len(conn) : conn[i].store = s /\ Delivers(conn[i])
    <3>1. PICK i \in 1..Len(conn) : conn[i].store = s /\ Delivers(conn[i])
      BY <2>2
    <3>2. conn[i] \in Message
      OBVIOUS
    <3> QED BY <3>1, <3>2 DEF Delivers, Message
  <2> QED BY <1>2, <2>1, <2>2 DEF Answer
<1> QED BY <1>1, <1>2

LEMMA ReturnType ==
  ASSUME TypeOK, proc # <<>>, Return
  PROVE  /\ proc' = <<>>
         /\ reply' \in [Stores -> BOOLEAN]
         /\ \A s \in Stores : reply'[s] => pc[s] \in Waiting
<1>1. proc[1].conn \in Seq(Message)
  BY StepType DEF Step
<1> QED BY <1>1, AnswerType DEF Return

-----------------------------------------------------------------------------
(* Initial states                                                          *)

LEMMA InitIInv == Init => IInv
<1> SUFFICES ASSUME Init PROVE IInv
  OBVIOUS
<1> USE DEF Init
<1>1. TypeOK
  <2>1. last \in [n : 0..MaxMessages, dst : Containers \cup {Gateway}, to : Containers \cup {"drop"}]
    BY ContainersAssumption
  <2>2. faults \in 0..MaxFaults
    BY ContainersAssumption
  <2> QED BY <2>1, <2>2 DEF TypeOK
<1>2. FrameInv /\ ProgramInv /\ RoutesBacked /\ MonitorInv /\ MessageInv
  BY DEF FrameInv, ProgramInv, RoutesBacked, MonitorInv, MessageInv
<1> QED BY <1>1, <1>2 DEF IInv

-----------------------------------------------------------------------------
(* The steps                                                               *)

LEMMA ClientIInv ==
  ASSUME IInv, NEW s \in Stores, Client(s)
  PROVE  IInv'
<1> USE DEF Client, hostVars, mapVars, kernelVars
<1>1. TypeOK'
  <2>1. /\ pc' \in [Stores -> Waiting \cup {"new", "connected", "ready", "off", "done"}]
        /\ reply' \in [Stores -> BOOLEAN]
        /\ \A t \in Stores : reply'[t] => pc'[t] \in Waiting
        /\ backlog' \in Seq(Message)
    <3> USE DEF IInv, TypeOK, Waiting, NextCall, After, Calls, Message
    <3>1. CASE Call(s)
      <4>1. NextCall[pc[s]] \in Waiting
        BY <3>1 DEF Call
      <4>2. [store |-> s, action |-> NextCall[pc[s]]] \in Message
        BY <4>1
      <4>3. backlog' \in Seq(Message)
        BY <4>2, <3>1 DEF Call
      <4>4. ~reply[s]
        BY <3>1 DEF Call
      <4> QED BY <3>1, <4>1, <4>3, <4>4 DEF Call
    <3>2. CASE Refused(s)
      BY <3>2 DEF Refused
    <3>3. CASE Answered(s)
      BY <3>3 DEF Answered
    <3>4. CASE TimesOut(s)
      BY <3>4 DEF TimesOut
    <3> QED BY <3>1, <3>2, <3>3, <3>4
  <2> QED BY <2>1 DEF IInv, TypeOK, Message
<1>2. (FrameInv /\ ProgramInv /\ RoutesBacked /\ MonitorInv /\ MessageInv)'
  BY DEF IInv, FrameInv, ProgramInv, RoutesBacked, MonitorInv, MessageInv, Step, Registered, Old
<1> QED BY <1>1, <1>2 DEF IInv

(* A frame that has just been made.                                        *)
LEMMA FrameMade ==
  ASSUME NEW who \in {"server", "monitor"}, NEW op \in {"register", "unregister"},
         NEW at \in {"sock", "route", "info"}, NEW c \in Containers, NEW conn \in Seq(Message),
         proc' = Frame(who, op, at, c, conn)
  PROVE  /\ proc' # <<>> /\ proc' \in Seq(FrameType)
         /\ Step'.who = who /\ Step'.op = op /\ Step'.at = at
         /\ Step'.c = c /\ Step'.conn = conn
BY DEF Frame, Step, FrameType

LEMMA AcceptIInv ==
  ASSUME IInv, Accept
  PROVE  IInv'
<1> USE DEF Accept, ServerMayRun, mapVars, kernelVars
<1> DEFINE m == Head(backlog)
           c == ContainerOf[m.store]
<1>1. /\ m \in Message /\ m.store \in Stores /\ c \in Containers
      /\ <<m>> \in Seq(Message) /\ <<m>> # <<>> /\ backlog' \in Seq(Message)
  <2>1. backlog \in Seq(Message) /\ backlog # <<>>
    BY DEF IInv, TypeOK, Message
  <2>2. m \in Message
    BY <2>1
  <2>3. m.store \in Stores /\ c \in Containers
    BY <2>2, ContainersAssumption DEF Message
  <2>4. backlog' \in Seq(Message)
    BY <2>1
  <2> QED BY <2>2, <2>3, <2>4
<1>2. proc = <<>> /\ doomed = {} /\ doomed' = {}
  OBVIOUS
<1>3. \/ proc' = <<>> /\ Answer(<<m>>)
      \/ proc' = Frame("server", "register", "info", c, <<m>>) /\ reply' = reply
      \/ /\ proc' = Frame("server", "unregister", UnregisterStart, c, <<m>>) /\ reply' = reply
         /\ containers[c] # "none"
  BY <1>2
<1>4. UNCHANGED <<pc, mode, doomed, program, containers, sockMap, routeMap, msg, last, faults>>
  OBVIOUS
<1>5. server' \in {"accept", "closed"}
  OBVIOUS
<1> HIDE DEF Accept, m, c
<1>6. CASE proc' = <<>> /\ Answer(<<m>>)
  <2>1. TypeOK'
    BY <1>1, <1>4, <1>5, <1>6, AnswerType DEF IInv, TypeOK, Message
  <2>2. (FrameInv /\ ProgramInv /\ RoutesBacked /\ MonitorInv /\ MessageInv)'
    BY <1>2, <1>4, <1>6 DEF IInv, FrameInv, ProgramInv, RoutesBacked, MonitorInv, MessageInv, Registered
  <2> QED BY <2>1, <2>2 DEF IInv
<1>7. CASE proc' = Frame("server", "register", "info", c, <<m>>) /\ reply' = reply
  <2>1. /\ proc' # <<>> /\ proc' \in Seq(FrameType)
        /\ Step'.who = "server" /\ Step'.op = "register" /\ Step'.at = "info"
        /\ Step'.c = c /\ Step'.conn = <<m>>
    BY <1>1, <1>7, FrameMade
  <2>2. TypeOK'
    BY <1>1, <1>4, <1>5, <1>7, <2>1 DEF IInv, TypeOK, Message, FrameType
  <2>3. FrameInv'
    BY <1>1, <2>1 DEF FrameInv
  <2>4. (ProgramInv /\ RoutesBacked /\ MonitorInv /\ MessageInv)'
    BY <1>2, <1>4, <2>1 DEF IInv, ProgramInv, RoutesBacked, MonitorInv, MessageInv, Registered
  <2> QED BY <2>2, <2>3, <2>4 DEF IInv
<1>8. CASE /\ proc' = Frame("server", "unregister", UnregisterStart, c, <<m>>) /\ reply' = reply
           /\ containers[c] # "none"
  <2>0. UnregisterStart \in {"sock", "route", "info"}
    BY DEF UnregisterStart
  <2>1. /\ proc' # <<>> /\ proc' \in Seq(FrameType)
        /\ Step'.who = "server" /\ Step'.op = "unregister" /\ Step'.at = UnregisterStart
        /\ Step'.c = c /\ Step'.conn = <<m>>
    BY <1>1, <1>8, <2>0, FrameMade
  <2>2. TypeOK'
    BY <1>1, <1>4, <1>5, <1>8, <2>1 DEF IInv, TypeOK, Message, FrameType
  <2>3. FrameInv'
    BY <1>1, <1>4, <1>8, <2>1 DEF FrameInv, IInv, ProgramInv, UnregisterStart
  <2>4. (ProgramInv /\ RoutesBacked /\ MonitorInv /\ MessageInv)'
    BY <1>2, <1>4, <2>1 DEF IInv, ProgramInv, RoutesBacked, MonitorInv, MessageInv, Registered
  <2> QED BY <2>2, <2>3, <2>4 DEF IInv
<1> QED BY <1>3, <1>6, <1>7, <1>8

LEMMA RegisterInfoIInv ==
  ASSUME IInv, RegisterInfo
  PROVE  IInv'
<1> USE DEF RegisterInfo, AtStep, hostVars, mapVars, kernelVars
<1>1. /\ Step \in FrameType /\ Step.op = "register" /\ Step.at = "info" /\ Step.who = "server"
      /\ Step.c \in Containers /\ proc # <<>> /\ TypeOK
  BY StepType DEF IInv, FrameInv, FrameType, Step
<1>2. /\ containers \in [Containers -> {"none", "fresh", "old"}]
      /\ containers' = [containers EXCEPT ![Step.c] = "fresh"]
      /\ UNCHANGED <<pc, backlog, mode, server, doomed, program, sockMap, routeMap, msg, last, faults>>
  BY DEF IInv, TypeOK, Step
<1>3. (program /\ Goto("sock")) \/ Return
  OBVIOUS
<1> HIDE DEF RegisterInfo, AtStep
<1>4. /\ containers' \in [Containers -> {"none", "fresh", "old"}] /\ containers'[Step.c] = "fresh"
      /\ \A c \in Containers : c # Step.c => containers'[c] = containers[c]
  BY <1>1, <1>2
<1>5. mode = "running" => doomed = {}
  BY <1>1 DEF IInv, MonitorInv
<1>6. ProgramInv' /\ RoutesBacked' /\ MessageInv'
  BY <1>1, <1>2, <1>4 DEF IInv, ProgramInv, RoutesBacked, MessageInv, Registered, TypeOK
<1>7. CASE program /\ Goto("sock")
  <2>1. /\ proc' # <<>> /\ proc' \in Seq(FrameType) /\ reply' = reply
        /\ Step'.who = Step.who /\ Step'.op = Step.op /\ Step'.at = "sock"
        /\ Step'.c = Step.c /\ Step'.conn = Step.conn
    BY <1>1, <1>7, GotoStep
  <2>2. TypeOK'
    BY <1>1, <1>2, <1>4, <2>1 DEF TypeOK, FrameType, Message
  <2>3. FrameInv'
    BY <1>1, <1>2, <1>4, <1>7, <2>1 DEF IInv, FrameInv
  <2>4. MonitorInv'
    BY <1>1, <1>2, <1>5, <2>1 DEF MonitorInv
  <2> QED BY <1>6, <2>2, <2>3, <2>4 DEF IInv
<1>8. CASE Return
  <2>1. /\ proc' = <<>> /\ reply' \in [Stores -> BOOLEAN]
        /\ \A s \in Stores : reply'[s] => pc[s] \in Waiting
    BY <1>1, <1>8, ReturnType
  <2>2. TypeOK'
    BY <1>1, <1>2, <1>4, <2>1 DEF TypeOK
  <2>3. FrameInv' /\ MonitorInv'
    BY <1>2, <1>5, <2>1 DEF FrameInv, MonitorInv
  <2> QED BY <1>6, <2>2, <2>3 DEF IInv
<1> QED BY <1>3, <1>7, <1>8

(* A step on the two kernel tables leaves the manager's own table alone.   *)
LEMMA TableStepIInv ==
  ASSUME IInv, proc # <<>>, Step.at # "info",
         sockMap' \subseteq sockMap \cup {Step.c}, routeMap' \subseteq routeMap \cup {Step.c},
         UNCHANGED <<pc, backlog, hostVars, containers, kernelVars, faults>>
  PROVE  /\ ProgramInv' /\ RoutesBacked' /\ MessageInv'
         /\ sockMap' \subseteq Containers /\ routeMap' \subseteq Containers
<1> USE DEF hostVars, kernelVars
<1>1. Step.c \in Containers /\ containers[Step.c] # "none" /\ program
  BY StepType DEF IInv, FrameInv
<1> QED BY <1>1 DEF IInv, TypeOK, ProgramInv, RoutesBacked, MessageInv, Registered

LEMMA GotoIInv ==
  ASSUME IInv, proc # <<>>, Step.at # "info", NEW at \in {"sock", "route", "info"}, Goto(at),
         sockMap' \subseteq sockMap \cup {Step.c}, routeMap' \subseteq routeMap \cup {Step.c},
         Step.op = "register" => at # "info",
         Step.op = "unregister" /\ at # "sock" => Step.c \notin sockMap',
         Step.op = "unregister" /\ at = "info" => Step.c \notin routeMap',
         UNCHANGED <<pc, backlog, hostVars, containers, kernelVars, faults>>
  PROVE  IInv'
<1>1. /\ proc' # <<>> /\ proc' \in Seq(FrameType) /\ reply' = reply
      /\ Step'.who = Step.who /\ Step'.op = Step.op /\ Step'.at = at
      /\ Step'.c = Step.c /\ Step'.conn = Step.conn
  BY GotoStep DEF IInv
<1>2. /\ ProgramInv' /\ RoutesBacked' /\ MessageInv'
      /\ sockMap' \subseteq Containers /\ routeMap' \subseteq Containers
  BY TableStepIInv
<1>3. TypeOK'
  BY <1>1, <1>2 DEF IInv, TypeOK, FrameType, Message, hostVars, kernelVars
<1>4. FrameInv'
  BY <1>1 DEF IInv, FrameInv, hostVars
<1>5. MonitorInv'
  BY <1>1 DEF IInv, MonitorInv, Old, hostVars
<1> QED BY <1>2, <1>3, <1>4, <1>5 DEF IInv

(* The end of a handler, or an exception in it.                            *)
LEMMA ReturnIInv ==
  ASSUME IInv, proc # <<>>, Step.at # "info", Return,
         sockMap' \subseteq sockMap \cup {Step.c}, routeMap' \subseteq routeMap \cup {Step.c},
         faults' \in 0..MaxFaults,
         UNCHANGED <<pc, backlog, hostVars, containers, kernelVars>>
  PROVE  IInv'
<1>1. /\ proc' = <<>> /\ reply' \in [Stores -> BOOLEAN]
      /\ \A s \in Stores : reply'[s] => pc[s] \in Waiting
  BY ReturnType DEF IInv
<1>2. Step.c \in Containers /\ containers[Step.c] # "none" /\ program
  BY StepType DEF IInv, FrameInv
<1>3. TypeOK'
  BY <1>1, <1>2 DEF IInv, TypeOK, hostVars, kernelVars
<1>4. (FrameInv /\ MonitorInv)'
  BY <1>1 DEF IInv, FrameInv, MonitorInv, Old, hostVars
<1>5. (ProgramInv /\ RoutesBacked /\ MessageInv)'
  BY <1>2 DEF IInv, ProgramInv, RoutesBacked, MessageInv, Registered, hostVars, kernelVars
<1> QED BY <1>3, <1>4, <1>5 DEF IInv

LEMMA TablesIInv ==
  ASSUME IInv, RegisterSock \/ RegisterRoute \/ UnregisterSock \/ UnregisterRoute \/ Raise
  PROVE  IInv'
<1>1. CASE RegisterSock
  BY <1>1, GotoIInv DEF RegisterSock, AtStep, Step
<1>2. CASE RegisterRoute
  BY <1>2, ReturnIInv DEF RegisterRoute, AtStep, Step, IInv, TypeOK
<1>3. CASE UnregisterSock
  BY <1>3, GotoIInv DEF UnregisterSock, AtStep, Step
<1>4. CASE UnregisterRoute
  BY <1>4, GotoIInv DEF UnregisterRoute, AtStep, Step, IInv, FrameInv
<1>5. CASE Raise
  <2>1. faults' \in 0..MaxFaults
    BY <1>5, ContainersAssumption DEF Raise, IInv, TypeOK
  <2> QED BY <1>5, <2>1, ReturnIInv DEF Raise, Step, mapVars
<1> QED BY <1>1, <1>2, <1>3, <1>4, <1>5

LEMMA UnregisterInfoIInv ==
  ASSUME IInv, UnregisterInfo
  PROVE  IInv'
<1> USE DEF UnregisterInfo, AtStep, hostVars, mapVars, kernelVars
<1>1. /\ Step.op = "unregister" /\ Step.at = "info" /\ proc # <<>> /\ TypeOK
      /\ Step.c \in Containers /\ Step.c \notin sockMap /\ Step.c \notin routeMap
  BY StepType DEF IInv, FrameInv, Step
<1>2. /\ containers \in [Containers -> {"none", "fresh", "old"}]
      /\ containers' = [containers EXCEPT ![Step.c] = "none"]
      /\ UNCHANGED <<pc, backlog, mode, server, doomed, program, sockMap, routeMap, msg, last, faults>>
  BY DEF IInv, TypeOK, Step
<1>3. /\ proc' = <<>> /\ reply' \in [Stores -> BOOLEAN]
      /\ \A s \in Stores : reply'[s] => pc[s] \in Waiting
  BY <1>1, ReturnType
<1> HIDE DEF UnregisterInfo, AtStep
<1>4. /\ containers' \in [Containers -> {"none", "fresh", "old"}]
      /\ \A c \in Containers : c # Step.c => containers'[c] = containers[c]
  BY <1>1, <1>2
<1>5. TypeOK'
  BY <1>1, <1>2, <1>3, <1>4 DEF TypeOK
<1>6. (FrameInv /\ ProgramInv /\ MessageInv)'
  BY <1>2, <1>3 DEF IInv, FrameInv, ProgramInv, MessageInv
<1>7. RoutesBacked'
  BY <1>1, <1>2, <1>4 DEF IInv, RoutesBacked, Registered
<1>8. MonitorInv'
  <2>1. mode = "running" => doomed \subseteq Old /\ Step.c \notin doomed
    BY <1>1, StepType DEF IInv, MonitorInv
  <2> QED BY <2>1, <1>2, <1>3, <1>4 DEF MonitorInv, Old
<1> QED BY <1>5, <1>6, <1>7, <1>8 DEF IInv

LEMMA MonitorCollectIInv ==
  ASSUME IInv, MonitorCollect
  PROVE  IInv'
<1> USE DEF MonitorCollect, clientVars, mapVars, kernelVars
<1>1. TypeOK'
  BY DEF IInv, TypeOK, Old
<1>2. (FrameInv /\ ProgramInv /\ RoutesBacked /\ MonitorInv /\ MessageInv)'
  BY DEF IInv, FrameInv, ProgramInv, RoutesBacked, MonitorInv, MessageInv, Registered, Old
<1> QED BY <1>1, <1>2 DEF IInv

LEMMA UnregisterIInv ==
  ASSUME IInv, Unregister
  PROVE  IInv'
<1> USE DEF Unregister, clientVars, mapVars, kernelVars
<1>1. PICK c \in doomed :
        /\ doomed' = doomed \ {c}
        /\ proc' = IF containers[c] = "none" THEN <<>>
                   ELSE Frame("monitor", "unregister", UnregisterStart, c, <<>>)
  OBVIOUS
<1>2. proc = <<>> /\ c \in Containers
  BY <1>1 DEF IInv, TypeOK
<1>3. UNCHANGED <<pc, reply, backlog, mode, server, program, containers, sockMap, routeMap, msg, last, faults>>
  OBVIOUS
<1> HIDE DEF Unregister
<1>4. (ProgramInv /\ RoutesBacked /\ MessageInv)'
  BY <1>3 DEF IInv, ProgramInv, RoutesBacked, MessageInv, Registered
<1>5. CASE containers[c] = "none"
  <2>1. proc' = <<>>
    BY <1>1, <1>5
  <2>2. TypeOK'
    BY <1>1, <1>3, <2>1 DEF IInv, TypeOK
  <2>3. (FrameInv /\ MonitorInv)'
    BY <1>1, <1>3, <2>1 DEF IInv, FrameInv, MonitorInv, Old
  <2> QED BY <1>4, <2>2, <2>3 DEF IInv
<1>6. CASE containers[c] # "none"
  <2>0. UnregisterStart \in {"sock", "route", "info"} /\ <<>> \in Seq(Message)
    BY DEF UnregisterStart
  <2>1. /\ proc' # <<>> /\ proc' \in Seq(FrameType)
        /\ Step'.who = "monitor" /\ Step'.op = "unregister" /\ Step'.at = UnregisterStart
        /\ Step'.c = c /\ Step'.conn = <<>>
    BY <1>1, <1>2, <1>6, <2>0, FrameMade
  <2>2. TypeOK'
    BY <1>1, <1>3, <2>1 DEF IInv, TypeOK, FrameType, Message
  <2>3. FrameInv'
    BY <1>3, <1>6, <2>1 DEF FrameInv, IInv, ProgramInv, UnregisterStart
  <2>4. MonitorInv'
    BY <1>1, <1>3, <2>1 DEF IInv, MonitorInv, Old
  <2> QED BY <1>4, <2>2, <2>3, <2>4 DEF IInv
<1> QED BY <1>5, <1>6

LEMMA StopIInv ==
  ASSUME IInv, Stop
  PROVE  IInv'
<1> USE DEF Stop, clientVars, mapVars, kernelVars
<1>1. TypeOK'
  BY DEF IInv, TypeOK, Registered
<1>2. (FrameInv /\ ProgramInv /\ RoutesBacked /\ MonitorInv /\ MessageInv)'
  BY DEF IInv, FrameInv, ProgramInv, RoutesBacked, MonitorInv, MessageInv, Registered
<1> QED BY <1>1, <1>2 DEF IInv

LEMMA ExitIInv ==
  ASSUME IInv, Exit
  PROVE  IInv'
<1> USE DEF Exit, clientVars
<1>1. TypeOK'
  BY DEF IInv, TypeOK
<1>2. (FrameInv /\ ProgramInv /\ RoutesBacked /\ MonitorInv /\ MessageInv)'
  BY DEF IInv, FrameInv, ProgramInv, RoutesBacked, MonitorInv, MessageInv
<1> QED BY <1>1, <1>2 DEF IInv

LEMMA AgeIInv ==
  ASSUME IInv, NEW c \in Containers, Age(c)
  PROVE  IInv'
<1> USE DEF Age, clientVars, hostVars, mapVars, kernelVars
<1>1. /\ containers' \in [Containers -> {"none", "fresh", "old"}] /\ containers'[c] = "old"
      /\ containers[c] = "fresh"
      /\ \A d \in Containers : d # c => containers'[d] = containers[d]
  BY DEF IInv, TypeOK
<1>2. TypeOK'
  BY <1>1 DEF IInv, TypeOK
<1>3. FrameInv'
  BY <1>1, StepType DEF IInv, FrameInv, Step
<1>4. (ProgramInv /\ RoutesBacked /\ MessageInv)'
  BY <1>1 DEF IInv, ProgramInv, RoutesBacked, MessageInv, Registered
<1>5. MonitorInv'
  BY <1>1, StepType DEF IInv, MonitorInv, Old, Step
<1> QED BY <1>2, <1>3, <1>4, <1>5 DEF IInv

(* Where a message goes: to the container it names, or nowhere.            *)
LEMMA TargetIs ==
  ASSUME IInv, msg # <<>>
  PROVE  /\ msg[1].dst \in Containers
         /\ Target(msg[1]) \in {"drop", msg[1].dst}
         /\ Target(msg[1]) # "drop" => msg[1].dst \in Registered
<1>1. msg[1] \in [dst : Containers, routed : BOOLEAN]
  <2> DEFINE S == [dst : Containers, routed : BOOLEAN]
  <2>1. msg \in Seq(S)
    BY DEF IInv, TypeOK
  <2> HIDE DEF S
  <2>2. msg[1] \in S
    BY <2>1
  <2> QED BY <2>2 DEF S
<1>2. Redirected(Gateway) = "drop"
  BY ContainersAssumption DEF Redirected, IInv, TypeOK
<1> QED BY <1>1, <1>2 DEF Target, IInv, RoutesBacked

LEMMA SkMsgIInv ==
  ASSUME IInv, SkMsg
  PROVE  IInv'
<1> USE DEF SkMsg, clientVars, hostVars, mapVars
<1>1. (FrameInv /\ ProgramInv /\ RoutesBacked /\ MonitorInv)'
  BY DEF IInv, FrameInv, ProgramInv, RoutesBacked, MonitorInv, Registered, Old, Step
<1>2. /\ msg' = <<>> \/ msg' \in Seq([dst : Containers, routed : BOOLEAN])
      /\ last' \in [n : 0..MaxMessages, dst : Containers \cup {Gateway}, to : Containers \cup {"drop"}]
      /\ MessageInv'
  <2>1. CASE Redirect
    <3>1. last.n + 1 \in 0..MaxMessages
      BY <2>1, ContainersAssumption DEF Redirect, IInv, MessageInv, TypeOK
    <3>2. /\ msg' = <<>>
          /\ last' = [n |-> last.n + 1, dst |-> msg[1].dst, to |-> Target(msg[1])]
      BY <2>1 DEF Redirect
    <3>3. msg[1].dst \in Containers /\ Target(msg[1]) \in Containers \cup {"drop"}
      BY <2>1, TargetIs DEF Redirect
    <3> QED BY <3>1, <3>2, <3>3 DEF MessageInv
  <2>2. CASE \E c \in Containers : Lookup(c)
    BY <2>2 DEF Lookup, IInv, TypeOK, MessageInv
  <2> QED BY <2>1, <2>2
<1>3. TypeOK'
  BY <1>2 DEF IInv, TypeOK
<1> QED BY <1>1, <1>2, <1>3 DEF IInv

LEMMA StutterIInv ==
  ASSUME IInv, UNCHANGED vars
  PROVE  IInv'
<1> USE DEF vars, clientVars, hostVars, mapVars, kernelVars
<1>1. TypeOK'
  BY DEF IInv, TypeOK
<1>2. (FrameInv /\ ProgramInv /\ RoutesBacked /\ MonitorInv /\ MessageInv)'
  BY DEF IInv, FrameInv, ProgramInv, RoutesBacked, MonitorInv, MessageInv, Registered, Old, Step
<1> QED BY <1>1, <1>2 DEF IInv

LEMMA NextIInv == IInv /\ [Next]_vars => IInv'
<1> SUFFICES ASSUME IInv, [Next]_vars PROVE IInv'
  OBVIOUS
<1>1. ASSUME NEW s \in Stores, Client(s) PROVE IInv'
  BY <1>1, ClientIInv
<1>2. CASE Accept
  BY <1>2, AcceptIInv
<1>3. CASE Handler \/ Raise
  BY <1>3, RegisterInfoIInv, TablesIInv, UnregisterInfoIInv DEF Handler
<1>4. CASE MonitorCollect \/ Unregister \/ Stop \/ Exit
  BY <1>4, MonitorCollectIInv, UnregisterIInv, StopIInv, ExitIInv
<1>5. ASSUME NEW c \in Containers, Age(c) PROVE IInv'
  BY <1>5, AgeIInv
<1>6. CASE SkMsg
  BY <1>6, SkMsgIInv
<1>7. CASE UNCHANGED vars
  BY <1>7, StutterIInv
<1> QED BY <1>1, <1>2, <1>3, <1>4, <1>5, <1>6, <1>7 DEF Next

-----------------------------------------------------------------------------
(* Theorems                                                                *)

(* The manager keeps its three tables in step at every statement of a      *)
(* handler, whichever call raises and wherever a signal stops it.          *)
THEOREM Invariance == Spec => []IInv
<1> QED BY InitIInv, NextIInv, PTL DEF Spec

(* Every variable keeps its type, and an answer is there only for a Store  *)
(* that waits for it.                                                      *)
THEOREM TypeCorrect == Spec => []TypeOK
<1>1. IInv => TypeOK
  BY DEF IInv
<1> QED BY <1>1, Invariance, PTL

(* register_container and unregister_container never leave a kernel entry  *)
(* of a container that the manager does not know.                          *)
THEOREM RoutesAreBacked == Spec => []RoutesBacked
<1>1. IInv => RoutesBacked
  BY DEF IInv
<1> QED BY <1>1, Invariance, PTL

(* faasflow_sk_msg_prog redirects to no container the manager has          *)
(* forgotten, although it reads the two maps in two steps.                 *)
THEOREM DeliveriesAreCurrent == Spec => NoStaleDelivery
<1> DEFINE Fresh == last' # last => /\ last'.to \in {"drop", last'.dst}
                                    /\ last'.to # "drop" => containers[last'.dst] # "none"
<1>1. IInv /\ [Next]_vars => [Fresh]_vars
  <2> SUFFICES ASSUME IInv, [Next]_vars, last' # last PROVE Fresh
    OBVIOUS
  <2>1. Redirect
    BY DEF Next, Client, Accept, Handler, RegisterInfo, RegisterSock, RegisterRoute,
           UnregisterSock, UnregisterRoute, UnregisterInfo, Raise, MonitorCollect, Unregister,
           Stop, Exit, Age, SkMsg, Lookup, kernelVars, vars
  <2>2. msg # <<>> /\ last' = [n |-> last.n + 1, dst |-> msg[1].dst, to |-> Target(msg[1])]
    BY <2>1 DEF Redirect
  <2> QED BY <2>2, TargetIs DEF Registered
<1> QED BY <1>1, Invariance, PTL DEF Spec, NoStaleDelivery

(* The monitor never unregisters a container that is not expired at that   *)
(* moment: nothing runs between its list and its last removal.             *)
THEOREM FreshIsKept == Spec => FreshKept
<1> DEFINE Kept == \A c \in Containers :
                     containers[c] = "fresh" /\ containers'[c] = "none"
                       => mode # "running" \/ (proc # <<>> /\ proc[1].who = "server")
<1>1. IInv /\ [Next]_vars => [Kept]_vars
  <2> SUFFICES ASSUME IInv, [Next]_vars, NEW c \in Containers,
                      containers[c] = "fresh", containers'[c] = "none", mode = "running"
               PROVE  proc # <<>> /\ proc[1].who = "server"
    OBVIOUS
  <2>1. containers \in [Containers -> {"none", "fresh", "old"}]
    BY DEF IInv, TypeOK
  <2>2. UnregisterInfo
    BY <2>1 DEF Next, Client, Accept, Handler, RegisterInfo, RegisterSock, RegisterRoute,
           UnregisterSock, UnregisterRoute, Raise, MonitorCollect, Unregister,
           Stop, Exit, Age, SkMsg, vars
  <2>3. proc # <<>> /\ Step.c = c
    BY <2>1, <2>2 DEF UnregisterInfo, AtStep, Step
  <2>4. Step.who \in {"server", "monitor"}
    BY <2>3, StepType DEF IInv
  <2> QED BY <2>3, <2>4 DEF IInv, MonitorInv, Step
<1> QED BY <1>1, Invariance, PTL DEF Spec, FreshKept
=============================================================================
