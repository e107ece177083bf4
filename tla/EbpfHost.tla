------------------------------ MODULE EbpfHost ------------------------------
(***************************************************************************)
(* The eBPF host manager of a worker: the Unix socket on which containers  *)
(* register, the two kernel tables it keeps for them, the monitor that     *)
(* expires them, and the kernel program that redirects messages by those   *)
(* tables.                                                                 *)
(*                                                                         *)
(* The manager runs in proxy.py, where monkey.patch_all makes its threads  *)
(* greenlets: the socket server keeps the process from accept to its       *)
(* answer, the monitor from waking up to its next sleep.  proc is the      *)
(* (un)registration under way, doomed the containers the monitor, or stop, *)
(* has collected and not yet unregistered.  Containers and the kernel run  *)
(* on between any two steps, so every system call on a table is a step.    *)
(* A container's id and its 32-bit hash are one name here.                 *)
(***************************************************************************)
EXTENDS Naturals, Sequences

CONSTANTS
  Containers,   \* container ids
  Stores,       \* Store objects, one for every run of a block
  ContainerOf,  \* Store -> $HOSTNAME of the container it runs in
  WithFd,       \* the Stores whose registration carries a socket_fd
  CleansUp,     \* the Stores that call cleanup_ebpf at their end
  Gateway,      \* entry 0 of the socket table, which nothing fills
  MaxFaults,    \* bound on system calls that fail
  MaxMessages   \* bound on messages through the kernel program

ASSUME ContainersAssumption ==
  /\ ContainerOf \in [Stores -> Containers]
  /\ WithFd \subseteq Stores /\ CleansUp \subseteq Stores
  /\ Gateway \notin Containers /\ {MaxFaults, MaxMessages} \subseteq Nat

VARIABLES
  pc,         \* Store -> where its init_ebpf, or cleanup_ebpf, is
  reply,      \* Store -> an answer has arrived on its connection
  backlog,    \* connections the server has not accepted, with their message
  mode,       \* "running", "stopping" (inside stop) or "exited"
  server,     \* the socket server: "accept" or "closed"
  proc,       \* <<[who, op, at, c, conn]>> or <<>>
  doomed,     \* expired_containers or, in stop, container_ids
  containers, \* container -> "none", "fresh" or "old" (300 s)
  program,    \* BCC has loaded the program
  sockMap, routeMap,  \* the kernel tables' entries
  msg,        \* the kernel's message: <<>>, or its destination, routed or not
  last,       \* history: the number of the last message, and where it went
  faults

clientVars == <<pc, reply>>
hostVars   == <<mode, server, doomed, program>>
mapVars    == <<sockMap, routeMap>>
kernelVars == <<msg, last>>
vars == <<clientVars, backlog, hostVars, proc, containers, mapVars, kernelVars, faults>>

Init ==
  /\ pc = [s \in Stores |-> "new"] /\ reply = [s \in Stores |-> FALSE]
  /\ backlog = <<>>
  /\ mode = "running" /\ server = "accept" /\ proc = <<>> /\ doomed = {}
  /\ containers = [c \in Containers |-> "none"]
  /\ program \in BOOLEAN
  /\ sockMap = {} /\ routeMap = {}
  /\ msg = <<>> /\ last = [n |-> 0, dst |-> Gateway, to |-> "drop"]
  /\ faults = 0

Waiting == {"ping", "register", "unregister"}
Registered == {c \in Containers : containers[c] # "none"}

-----------------------------------------------------------------------------
(* Containers: a Store calls the manager, and each call may time out       *)

(* A Store pings the manager, then registers; cleanup_ebpf unregisters.    *)
NextCall == [new |-> "ping", connected |-> "register", ready |-> "unregister"]

(* What the Store does when a call ends.  An answer is enough: its content *)
(* is not looked at, and the outcome of the registration is not kept.      *)
After(action, ok) ==
  CASE action = "ping"       -> IF ok THEN "connected" ELSE "off"
    [] action = "register"   -> "ready"
    [] action = "unregister" -> "done"

Calls(s) == pc[s] \in DOMAIN NextCall /\ (pc[s] = "ready" => s \in CleansUp)

(* A call: connect, send one message, wait for its answer.                 *)
Call(s) ==
  /\ mode # "exited" /\ Calls(s)
  /\ pc' = [pc EXCEPT ![s] = NextCall[@]]
  /\ backlog' = Append(backlog, [store |-> s, action |-> NextCall[pc[s]]])
  /\ UNCHANGED reply
(* A manager that has exited refuses the connection.                       *)
Refused(s) ==
  /\ mode = "exited" /\ Calls(s)
  /\ pc' = [pc EXCEPT ![s] = After(NextCall[@], FALSE)]
  /\ UNCHANGED <<reply, backlog>>
Answered(s) ==
  /\ pc[s] \in Waiting /\ reply[s]
  /\ pc' = [pc EXCEPT ![s] = After(pc[s], TRUE)]
  /\ reply' = [reply EXCEPT ![s] = FALSE]
  /\ UNCHANGED backlog
TimesOut(s) ==
  /\ pc[s] \in Waiting
  /\ pc' = [pc EXCEPT ![s] = After(pc[s], FALSE)]
  /\ reply' = [reply EXCEPT ![s] = FALSE]
  /\ UNCHANGED backlog

Client(s) ==
  /\ Call(s) \/ Refused(s) \/ Answered(s) \/ TimesOut(s)
  /\ UNCHANGED <<hostVars, proc, containers, mapVars, kernelVars, faults>>

-----------------------------------------------------------------------------
(* The manager                                                             *)

(* The answer to a client that has given up fails, and is forgotten.       *)
MutantAnswerAll(m) == pc[m.store] # "new"
Delivers(m) == pc[m.store] = m.action
Answer(conn) ==
  reply' = [s \in Stores |->
              reply[s] \/ \E i \in 1..Len(conn) : conn[i].store = s /\ Delivers(conn[i])]

Frame(who, op, at, c, conn) == <<[who |-> who, op |-> op, at |-> at, c |-> c, conn |-> conn]>>
AtStep(op, at) == proc # <<>> /\ proc[1].op = op /\ proc[1].at = at
Goto(at) == proc' = <<[proc[1] EXCEPT !.at = at]>> /\ UNCHANGED reply
Return   == proc' = <<>> /\ Answer(proc[1].conn)

(* The server waits in accept, and no other greenlet is between two waits. *)
MutantMonitorYields == server = "accept" /\ proc = <<>>
ServerMayRun == server = "accept" /\ proc = <<>> /\ doomed = {}

MutantInfoFirst == "info"
UnregisterStart == IF program THEN "sock" ELSE "info"

(* A message is handled even if its client has closed the connection.      *)
Accept ==
  /\ ServerMayRun /\ mode # "exited" /\ backlog # <<>>
  /\ backlog' = Tail(backlog)
  /\ server' = IF mode = "running" THEN "accept" ELSE "closed"
  /\ LET m == Head(backlog)
         c == ContainerOf[m.store]
     IN \/ m.action = "ping" /\ Answer(<<m>>) /\ UNCHANGED proc
        \/ /\ m.action = "register"
           /\ proc' = Frame("server", "register", "info", c, <<m>>)
           /\ UNCHANGED reply
        \/ /\ m.action = "unregister" /\ containers[c] # "none"
           /\ proc' = Frame("server", "unregister", UnregisterStart, c, <<m>>)
           /\ UNCHANGED reply
        \/ m.action = "unregister" /\ containers[c] = "none" /\ Answer(<<m>>) /\ UNCHANGED proc
  /\ UNCHANGED <<pc, mode, doomed, program, containers, mapVars, kernelVars, faults>>

RegisterInfo ==
  /\ AtStep("register", "info")
  /\ containers' = [containers EXCEPT ![proc[1].c] = "fresh"]
  /\ IF program /\ proc[1].conn[1].store \in WithFd THEN Goto("sock") ELSE Return
  /\ UNCHANGED <<pc, backlog, hostVars, mapVars, kernelVars, faults>>
RegisterSock ==
  /\ AtStep("register", "sock")
  /\ sockMap' = sockMap \cup {proc[1].c}
  /\ Goto("route")
  /\ UNCHANGED <<pc, backlog, hostVars, containers, routeMap, kernelVars, faults>>
RegisterRoute ==
  /\ AtStep("register", "route")
  /\ routeMap' = routeMap \cup {proc[1].c}
  /\ Return
  /\ UNCHANGED <<pc, backlog, hostVars, containers, sockMap, kernelVars, faults>>

MutantNotInSock ==
  /\ AtStep("unregister", "sock")
  /\ sockMap' = sockMap \ {proc[1].c}
  /\ IF proc[1].c \in sockMap THEN Goto("route") ELSE Return
  /\ UNCHANGED <<pc, backlog, hostVars, containers, routeMap, kernelVars, faults>>
UnregisterSock ==
  /\ AtStep("unregister", "sock")
  /\ sockMap' = sockMap \ {proc[1].c}
  /\ Goto("route")
  /\ UNCHANGED <<pc, backlog, hostVars, containers, routeMap, kernelVars, faults>>
UnregisterRoute ==
  /\ AtStep("unregister", "route")
  /\ routeMap' = routeMap \ {proc[1].c}
  /\ Goto("info")
  /\ UNCHANGED <<pc, backlog, hostVars, containers, sockMap, kernelVars, faults>>
UnregisterInfo ==
  /\ AtStep("unregister", "info")
  /\ containers' = [containers EXCEPT ![proc[1].c] = "none"]
  /\ Return
  /\ UNCHANGED <<pc, backlog, hostVars, mapVars, kernelVars, faults>>

(* A system call on a table raises: the handler returns FALSE, and what it *)
(* has done stays.  The client is told that all is well.                   *)
MutantForget ==
  /\ proc # <<>> /\ proc[1].at \in {"sock", "route"}
  /\ faults < MaxFaults /\ faults' = faults + 1
  /\ containers' = [containers EXCEPT ![proc[1].c] = "none"]
  /\ Return
  /\ UNCHANGED <<pc, backlog, hostVars, mapVars, kernelVars>>
Raise ==
  /\ proc # <<>> /\ proc[1].at \in {"sock", "route"}
  /\ faults < MaxFaults /\ faults' = faults + 1
  /\ Return
  /\ UNCHANGED <<pc, backlog, hostVars, containers, mapVars, kernelVars>>

(* The monitor wakes up every 30 s.                                        *)
Old == {c \in Containers : containers[c] = "old"}
MonitorCollect ==
  /\ mode = "running" /\ proc = <<>> /\ doomed = {} /\ Old # {}
  /\ doomed' = Old
  /\ UNCHANGED <<clientVars, backlog, mode, server, program, proc, containers, mapVars,
                 kernelVars, faults>>
Unregister ==
  /\ proc = <<>>
  /\ \E c \in doomed :
       /\ doomed' = doomed \ {c}
       /\ proc' = IF containers[c] = "none" THEN <<>>
                  ELSE Frame("monitor", "unregister", UnregisterStart, c, <<>>)
  /\ UNCHANGED <<clientVars, backlog, mode, server, program, containers, mapVars,
                 kernelVars, faults>>

(* A signal: stop runs in whatever greenlet the signal has interrupted,    *)
(* which does not go on.  The server, if it was waiting, takes one more    *)
(* message before it sees that running is FALSE.                           *)
Stop ==
  /\ mode = "running" /\ mode' = "stopping"
  /\ server' = IF proc # <<>> /\ proc[1].who = "server" THEN "closed" ELSE server
  /\ proc' = <<>> /\ doomed' = Registered
  /\ UNCHANGED <<clientVars, backlog, program, containers, mapVars, kernelVars, faults>>
Exit ==
  /\ mode = "stopping" /\ proc = <<>> /\ doomed = {}
  /\ mode' = "exited" /\ server' = "closed"
  /\ backlog' = <<>> /\ containers' = [c \in Containers |-> "none"]
  /\ sockMap' = {} /\ routeMap' = {} /\ msg' = <<>>
  /\ UNCHANGED <<clientVars, doomed, program, proc, last, faults>>

(* 300 s pass since the registration of c; nothing else renews it.         *)
Age(c) ==
  /\ containers[c] = "fresh" /\ containers' = [containers EXCEPT ![c] = "old"]
  /\ UNCHANGED <<clientVars, backlog, hostVars, proc, mapVars, kernelVars, faults>>

-----------------------------------------------------------------------------
(* The kernel program, faasflow_sk_msg_prog                                *)

Lookup(c) ==
  /\ program /\ mode # "exited" /\ msg = <<>> /\ last.n < MaxMessages
  /\ msg' = <<[dst |-> c, routed |-> c \in routeMap]>>
  /\ UNCHANGED last
(* bpf_msg_redirect_map, which passes or drops.                            *)
Redirected(c) == IF c \in sockMap THEN c ELSE "drop"
(* Without a route, or without a socket, the gateway; every route written  *)
(* by the manager is local and has gateway 0.                              *)
Target(m) == IF m.routed /\ m.dst \in sockMap THEN m.dst ELSE Redirected(Gateway)
Redirect ==
  /\ msg # <<>> /\ msg' = <<>>
  /\ last' = [n |-> last.n + 1, dst |-> msg[1].dst, to |-> Target(msg[1])]

SkMsg ==
  /\ Redirect \/ \E c \in Containers : Lookup(c)
  /\ UNCHANGED <<clientVars, backlog, hostVars, proc, containers, mapVars, faults>>

-----------------------------------------------------------------------------
Handler ==
  \/ RegisterInfo \/ RegisterSock \/ RegisterRoute
  \/ UnregisterSock \/ UnregisterRoute \/ UnregisterInfo
Next ==
  \/ \E s \in Stores : Client(s)
  \/ Accept \/ Handler \/ Raise
  \/ MonitorCollect \/ Unregister \/ Stop \/ Exit
  \/ \E c \in Containers : Age(c)
  \/ SkMsg
Spec == Init /\ [][Next]_vars

(* The greenlets of the manager go on; clients, time, signals, failing     *)
(* calls and messages need not come.                                       *)
Fairness == WF_vars(Accept) /\ WF_vars(Handler) /\ WF_vars(MonitorCollect) /\ WF_vars(Unregister)
FairSpec == Spec /\ Fairness

-----------------------------------------------------------------------------
(* Properties                                                              *)

(* Types; and an answer is only there for a Store that is waiting for it.  *)
TypeOK ==
  /\ pc \in [Stores -> Waiting \cup {"new", "connected", "ready", "off", "done"}]
  /\ reply \in [Stores -> BOOLEAN] /\ \A s \in Stores : reply[s] => pc[s] \in Waiting
  /\ backlog \in Seq([store : Stores, action : Waiting])
  /\ mode \in {"running", "stopping", "exited"} /\ server \in {"accept", "closed"}
  /\ proc = <<>> \/ proc \in
       Seq([who : {"server", "monitor"}, op : {"register", "unregister"},
            at : {"sock", "route", "info"}, c : Containers,
            conn : Seq([store : Stores, action : Waiting])])
  /\ doomed \subseteq Containers /\ program \in BOOLEAN
  /\ containers \in [Containers -> {"none", "fresh", "old"}]
  /\ sockMap \subseteq Containers /\ routeMap \subseteq Containers
  /\ msg = <<>> \/ msg \in Seq([dst : Containers, routed : BOOLEAN])
  /\ last \in [n : 0..MaxMessages, dst : Containers \cup {Gateway},
               to : Containers \cup {"drop"}]
  /\ faults \in 0..MaxFaults

(* Whatever fails on the way, the tables have entries only of containers   *)
(* the manager knows, so that a later expiry or stop finds and deletes     *)
(* them (register_container, unregister_container).                        *)
RoutesBacked == sockMap \cup routeMap \subseteq Registered

(* The kernel never redirects a message to a container that the manager    *)
(* has forgotten, whichever of its system calls the program runs between.  *)
NoStaleDelivery ==
  [][last' # last => last'.to \in {"drop", last'.dst}
                     /\ (last'.to # "drop" => containers[last'.dst] # "none")]_vars

(* The monitor removes no container that has registered again since it was *)
(* found to have expired.                                                  *)
FreshKept ==
  [][\A c \in Containers :
       containers[c] = "fresh" /\ containers'[c] = "none"
         => mode # "running" \/ (proc # <<>> /\ proc[1].who = "server")]_vars

(* A container whose registration has expired is removed, or registers     *)
(* again, whatever the system calls on the tables do.                      *)
ExpiredRemoved ==
  \A c \in Containers :
    (containers[c] = "old") ~> (containers[c] # "old" \/ mode # "running")

=============================================================================
