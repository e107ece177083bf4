---------------------------- MODULE ContainerPool ----------------------------
(***************************************************************************)
(* The function manager of a worker: one pool of containers per template   *)
(* and the port manager they share.                                        *)
(*                                                                         *)
(* dispatch_event spawns a dispatch_request greenlet per template every    *)
(* few milliseconds: any number of them wait at once, for docker or for    *)
(* the /run_block of a container, and each is the only one that runs       *)
(* between two waits.  A container has parallel_limit slots, one per block *)
(* of its template; it is in idle_containers while one of them is free.    *)
(* A container carries the name of the request it was created for.         *)
(***************************************************************************)
EXTENDS Integers, FiniteSets, SequencesExt

CONSTANTS
  Requests,       \* the block requests that will be allocated
  TemplateOf,     \* request -> its template
  WorkDirOf,      \* request -> the name of its work directory: the id of its
                  \* workflow request and its block, the same for all items
  MaxContainers,  \* template -> max_containers
  ParallelLimit,  \* template -> parallel_limit, its number of blocks
  Ports,          \* the ports of the port manager, in order
  NoPort,
  None,
  MaxFailures     \* bound on failing docker calls and block runs

Templates == {TemplateOf[r] : r \in Requests}

ASSUME LimitsAssumption ==
  /\ MaxContainers \in [Templates -> Nat]
  /\ ParallelLimit \in [Templates -> Nat \ {0}]
  /\ MaxFailures \in Nat
ASSUME PortsAssumption ==
  Ports \in Seq(Range(Ports)) /\ IsInjective(Ports) /\ NoPort \notin Range(Ports)

VARIABLES
  queue,      \* template -> request_queue
  stage,      \* request -> how far its dispatch_request greenlet is
  on,         \* request -> the container it holds a slot of
  numExec,    \* template -> num_exec
  idle,       \* template -> idle_containers
  cnt,        \* container -> idle_blocks_cnt
  docker,     \* container -> its state in docker
  port,       \* container -> its port
  portList,   \* port_list
  fresh,      \* containers with last_time within idle_lifetime, oldest first
  lockHeld,   \* templates whose lock a failed regular_clean holds for ever
  removing,   \* the lists of containers that regular_clean greenlets remove
  abandoned,  \* containers whose removal raised or was after one that did
  failures    \* failures so far

requestVars   == <<queue, stage, on>>
containerVars == <<cnt, docker, port, fresh>>
cleanVars     == <<lockHeld, removing, abandoned>>
vars == <<requestVars, numExec, idle, containerVars, portList, cleanVars, failures>>

Init ==
  /\ queue = [t \in Templates |-> <<>>]
  /\ stage = [r \in Requests |-> "new"]
  /\ on = [r \in Requests |-> None]
  /\ numExec = [t \in Templates |-> 0]
  /\ idle = [t \in Templates |-> <<>>]
  /\ cnt = [c \in Requests |-> 0]
  /\ docker = [c \in Requests |-> "none"]
  /\ port = [c \in Requests |-> NoPort]
  /\ portList = Ports
  /\ fresh = <<>>
  /\ lockHeld = {} /\ removing = {} /\ abandoned = {}
  /\ failures = 0

(* The requests that have a slot of container c, and the work directories  *)
(* there: one is made when a run starts and removed when it succeeds.      *)
Holders(c) == {r \in Requests : on[r] = c /\ stage[r] \in {"running", "delayed", "failed"}}
WorkDirs(c) == {WorkDirOf[r] : r \in {r \in Holders(c) : stage[r] # "delayed"}}

-----------------------------------------------------------------------------
(* allocate_block *)
AllocateBlock(r) ==
  /\ stage[r] = "new"
  /\ stage' = [stage EXCEPT ![r] = "queued"]
  /\ queue' = [queue EXCEPT ![TemplateOf[r]] = Append(@, r)]
  /\ UNCHANGED <<on, numExec, idle, containerVars, portList, cleanVars, failures>>

-----------------------------------------------------------------------------
(* dispatch_request, up to its first wait: the head of the queue takes the *)
(* idle container used last, or has one created, or goes back to the tail. *)

\* Mutant of ListAfterGet: a container with no slot left stays in the list.
MutantStaysListed(t) == idle[t]

ListAfterGet(t) == IF cnt[Last(idle[t])] = 1 THEN Front(idle[t]) ELSE idle[t]

(* A run starts in container c with a mkdir.  It raises, and the run fails, *)
(* if the directory is there when the call of /run_block gets that far.    *)
StartRun(r, c) ==
  \E s \in {"running"} \cup (IF WorkDirOf[r] \in WorkDirs(c) THEN {"failed"} ELSE {}) :
    stage' = [stage EXCEPT ![r] = s]

GetIdle(t) ==
  /\ queue[t] # <<>> /\ idle[t] # <<>>
  /\ LET r == Head(queue[t])
         c == Last(idle[t])
     IN /\ StartRun(r, c)
        /\ on' = [on EXCEPT ![r] = c]
        /\ cnt' = [cnt EXCEPT ![c] = @ - 1]
  /\ idle' = [idle EXCEPT ![t] = ListAfterGet(t)]
  /\ queue' = [queue EXCEPT ![t] = Tail(@)]
  /\ UNCHANGED <<numExec, docker, port, fresh, portList, cleanVars, failures>>

MayCreate(t) == numExec[t] <= MaxContainers[t] /\ portList # <<>>

StartCreate(t) ==
  /\ queue[t] # <<>> /\ idle[t] = <<>> /\ MayCreate(t)
  /\ LET r == Head(queue[t]) IN
       /\ stage' = [stage EXCEPT ![r] = "creating"]
       /\ docker' = [docker EXCEPT ![r] = "creating"]
       /\ port' = [port EXCEPT ![r] = Head(portList)]
  /\ numExec' = [numExec EXCEPT ![t] = @ + 1]
  /\ portList' = Tail(portList)
  /\ queue' = [queue EXCEPT ![t] = Tail(@)]
  /\ UNCHANGED <<on, idle, cnt, fresh, cleanVars, failures>>

\* Mutant of DispatchFailed: the request is not put back.
MutantDropRequest(t) ==
  /\ queue[t] # <<>> /\ idle[t] = <<>> /\ ~MayCreate(t)
  /\ queue' = [queue EXCEPT ![t] = Tail(@)]
  /\ UNCHANGED <<stage, on, numExec, idle, containerVars, portList, cleanVars, failures>>

DispatchFailed(t) ==
  /\ queue[t] # <<>> /\ idle[t] = <<>> /\ ~MayCreate(t)
  /\ queue' = [queue EXCEPT ![t] = Append(Tail(@), Head(@))]
  /\ UNCHANGED <<stage, on, numExec, idle, containerVars, portList, cleanVars, failures>>

DispatchRequest(t) == GetIdle(t) \/ StartCreate(t) \/ DispatchFailed(t)

-----------------------------------------------------------------------------
(* Container.create, and the end of create_container                       *)

(* docker has run the image: last_time is now, and wait_start polls.       *)
ContainerRun(r) ==
  /\ stage[r] = "creating"
  /\ stage' = [stage EXCEPT ![r] = "starting"]
  /\ docker' = [docker EXCEPT ![r] = "up"]
  /\ cnt' = [cnt EXCEPT ![r] = ParallelLimit[TemplateOf[r]]]
  /\ fresh' = Append(fresh, r)
  /\ UNCHANGED <<queue, on, numExec, idle, port, portList, cleanVars, failures>>

(* docker raises: the slot is given back and the request too; the port the *)
(* call had already taken is not.                                          *)
CreateFails(r) ==
  /\ failures < MaxFailures
  /\ stage[r] = "creating"
  /\ failures' = failures + 1
  /\ stage' = [stage EXCEPT ![r] = "queued"]
  /\ docker' = [docker EXCEPT ![r] = "none"]
  /\ port' = [port EXCEPT ![r] = NoPort]
  /\ LET t == TemplateOf[r] IN
       /\ numExec' = [numExec EXCEPT ![t] = @ - 1]
       /\ queue' = [queue EXCEPT ![t] = Append(@, r)]
  /\ UNCHANGED <<on, idle, cnt, fresh, portList, cleanVars>>

WaitStart(r) ==
  /\ stage[r] = "starting"
  /\ StartRun(r, r)
  /\ on' = [on EXCEPT ![r] = r]
  /\ cnt' = [cnt EXCEPT ![r] = @ - 1]
  /\ idle' = IF cnt[r] > 1 THEN [idle EXCEPT ![TemplateOf[r]] = Append(@, r)] ELSE idle
  /\ UNCHANGED <<queue, numExec, docker, port, fresh, portList, cleanVars, failures>>

-----------------------------------------------------------------------------
(* run_block *)

\* Mutant of ListAfterPut: every put lists the container.
MutantListTwice(c) == [idle EXCEPT ![TemplateOf[c]] = Append(@, c)]

ListAfterPut(c) ==
  IF cnt[c] = 0 THEN [idle EXCEPT ![TemplateOf[c]] = Append(@, c)] ELSE idle

PutContainer(c) ==
  /\ cnt' = [cnt EXCEPT ![c] = @ + 1]
  /\ idle' = ListAfterPut(c)

(* last_time of c is now.                                                  *)
Used(c) ==
  Append(IF c \in Range(fresh)
         THEN RemoveAt(fresh, CHOOSE i \in DOMAIN fresh : fresh[i] = c) ELSE fresh, c)

\* Mutant of RunReturns: a delayed slot is already free when it is delayed.
MutantPutTwice(r) ==
  /\ stage[r] = "running"
  /\ fresh' = Used(on[r])
  /\ \E s \in {"delayed", "done"} : stage' = [stage EXCEPT ![r] = s]
  /\ PutContainer(on[r])
  /\ UNCHANGED <<queue, on, numExec, docker, port, portList, cleanVars, failures>>

(* /run_block answers; the slot is free at once, or after delay_time when  *)
(* the bypass store is under pressure.                                     *)
RunReturns(r) ==
  /\ stage[r] = "running"
  /\ fresh' = Used(on[r])
  /\ \/ /\ stage' = [stage EXCEPT ![r] = "delayed"]
        /\ UNCHANGED <<cnt, idle>>
     \/ /\ stage' = [stage EXCEPT ![r] = "done"]
        /\ PutContainer(on[r])
  /\ UNCHANGED <<queue, on, numExec, docker, port, portList, cleanVars, failures>>

DelayedPut(r) ==
  /\ stage[r] = "delayed"
  /\ stage' = [stage EXCEPT ![r] = "done"]
  /\ PutContainer(on[r])
  /\ UNCHANGED <<queue, on, numExec, docker, port, fresh, portList, cleanVars, failures>>

(* The code raises, or the answer has no delay_time: the greenlet ends and *)
(* its slot is never put back.                                             *)
RunFails(r) ==
  /\ failures < MaxFailures
  /\ stage[r] = "running"
  /\ failures' = failures + 1
  /\ stage' = [stage EXCEPT ![r] = "failed"]
  /\ UNCHANGED <<queue, on, numExec, idle, containerVars, portList, cleanVars>>

-----------------------------------------------------------------------------
(* Time passes: the container unused for longest exceeds idle_lifetime.  A *)
(* container is taken to start in less than that.                          *)
Age ==
  /\ fresh # <<>> /\ stage[Head(fresh)] # "starting"
  /\ fresh' = Tail(fresh)
  /\ UNCHANGED <<requestVars, numExec, idle, cnt, docker, port, portList, cleanVars, failures>>

(* regular_clean, up to the removals                                       *)

Stale(c) == c \notin Range(fresh)

(* The scan from the front passes the stale containers before the first    *)
(* fresh one.                                                              *)
Outdated(t) ==
  {i \in 1..Len(idle[t]) : \A j \in 1..i : Stale(idle[t][j])}

\* Mutant of AssertionHolds: the assertion is not there.
MutantNoAssertion(t) == TRUE

AssertionHolds(t) == \A i \in Outdated(t) : cnt[idle[t][i]] = ParallelLimit[t]

\* Mutant of RegularClean: num_exec keeps counting the outdated containers.
MutantKeepsCounting(t) ==
  /\ t \notin lockHeld /\ Outdated(t) # {}
  /\ LET pos == Cardinality(Outdated(t)) IN
       /\ idle' = [idle EXCEPT ![t] = SubSeq(@, pos + 1, Len(@))]
       /\ removing' = removing \cup {SubSeq(idle[t], 1, pos)}
  /\ UNCHANGED <<requestVars, numExec, containerVars, portList, lockHeld, abandoned, failures>>

\* Mutant of RegularClean: the ports are back before the containers are gone.
MutantEarlyPorts(t) ==
  /\ t \notin lockHeld /\ Outdated(t) # {}
  /\ LET pos == Cardinality(Outdated(t)) IN
       /\ numExec' = [numExec EXCEPT ![t] = @ - pos]
       /\ idle' = [idle EXCEPT ![t] = SubSeq(@, pos + 1, Len(@))]
       /\ removing' = removing \cup {SubSeq(idle[t], 1, pos)}
       /\ portList' = portList \o [i \in 1..pos |-> port[idle[t][i]]]
  /\ UNCHANGED <<requestVars, containerVars, lockHeld, abandoned, failures>>

RegularClean(t) ==
  /\ t \notin lockHeld /\ Outdated(t) # {}
  /\ IF AssertionHolds(t)
     THEN LET pos == Cardinality(Outdated(t)) IN
            /\ numExec' = [numExec EXCEPT ![t] = @ - pos]
            /\ idle' = [idle EXCEPT ![t] = SubSeq(@, pos + 1, Len(@))]
            /\ removing' = removing \cup {SubSeq(idle[t], 1, pos)}
            /\ UNCHANGED lockHeld
     ELSE /\ lockHeld' = lockHeld \cup {t}
          /\ UNCHANGED <<numExec, idle, removing>>
  /\ UNCHANGED <<requestVars, containerVars, portList, abandoned, failures>>

\* Mutant of RemoveContainer: the port is not given back.
MutantKeepPort(s) ==
  /\ s \in removing
  /\ docker' = [docker EXCEPT ![Head(s)] = "gone"]
  /\ port' = [port EXCEPT ![Head(s)] = NoPort]
  /\ removing' = (removing \ {s}) \cup (IF Tail(s) = <<>> THEN {} ELSE {Tail(s)})
  /\ UNCHANGED <<requestVars, numExec, idle, cnt, fresh, portList, lockHeld, abandoned, failures>>

(* remove_container of the next outdated container                         *)
RemoveContainer(s) ==
  /\ s \in removing
  /\ docker' = [docker EXCEPT ![Head(s)] = "gone"]
  /\ port' = [port EXCEPT ![Head(s)] = NoPort]
  /\ portList' = Append(portList, port[Head(s)])
  /\ removing' = (removing \ {s}) \cup (IF Tail(s) = <<>> THEN {} ELSE {Tail(s)})
  /\ UNCHANGED <<requestVars, numExec, idle, cnt, fresh, lockHeld, abandoned, failures>>

(* docker raises: the rest of the list is never removed.                   *)
RemoveFails(s) ==
  /\ failures < MaxFailures
  /\ s \in removing
  /\ failures' = failures + 1
  /\ removing' = removing \ {s}
  /\ abandoned' = abandoned \cup Range(s)
  /\ UNCHANGED <<requestVars, numExec, idle, containerVars, portList, lockHeld>>

-----------------------------------------------------------------------------
Serve(r) == ContainerRun(r) \/ WaitStart(r) \/ RunReturns(r) \/ DelayedPut(r)

Next ==
  \/ \E r \in Requests : AllocateBlock(r) \/ Serve(r) \/ CreateFails(r) \/ RunFails(r)
  \/ \E t \in Templates : DispatchRequest(t) \/ RegularClean(t)
  \/ \E s \in removing : RemoveContainer(s) \/ RemoveFails(s)
  \/ Age

Spec == Init /\ [][Next]_vars

(* The two timer events spawn their greenlets for ever, docker and the     *)
(* containers answer, and time passes.  Requests and failures are not fair. *)
Fairness ==
  /\ \A r \in Requests : WF_vars(Serve(r))
  /\ \A t \in Templates : WF_vars(DispatchRequest(t)) /\ WF_vars(RegularClean(t))
  /\ WF_vars(\E s \in removing : RemoveContainer(s))
  /\ WF_vars(Age)
FairSpec == Spec /\ Fairness

-----------------------------------------------------------------------------
(* Properties                                                              *)

Containers(t) == {c \in Requests : TemplateOf[c] = t}
Leaving == UNION {Range(s) : s \in removing}

(* The types of the variables; num_exec stays below the bound the code     *)
(* enforces, which is one above max_containers.                            *)
TypeOK ==
  /\ \A t \in Templates : Range(queue[t]) \cup Range(idle[t]) \subseteq Containers(t)
  /\ stage \in [Requests -> {"new", "queued", "creating", "starting", "running",
                             "delayed", "done", "failed"}]
  /\ on \in [Requests -> Requests \cup {None}]
  /\ \A t \in Templates : numExec[t] \in 0 .. MaxContainers[t] + 1
  /\ \A c \in Requests : cnt[c] \in 0 .. ParallelLimit[TemplateOf[c]]
  /\ docker \in [Requests -> {"none", "creating", "up", "gone"}]
  /\ port \in [Requests -> Range(Ports) \cup {NoPort}]
  /\ Range(portList) \subseteq Range(Ports)
  /\ Range(fresh) \subseteq Requests
  /\ lockHeld \subseteq Templates
  /\ \A s \in removing : s # <<>> /\ Range(s) \subseteq Requests
  /\ abandoned \subseteq Requests
  /\ failures \in 0 .. MaxFailures

(* num_exec counts the containers that exist or are being created, those   *)
(* being cleaned away excepted: the pool neither starves nor overgrows.    *)
NumExecExact ==
  \A t \in Templates :
     numExec[t] = Cardinality({c \in Containers(t) \ (Leaving \cup abandoned) :
                                 docker[c] \in {"creating", "up"}})

(* A container's free slots and the requests that hold or lost one add up  *)
(* to parallel_limit: no slot is freed twice, and none but a failed run's  *)
(* is lost.                                                                *)
SlotAccounting ==
  \A c \in Requests :
     docker[c] = "up" => cnt[c] + Cardinality(Holders(c)) = ParallelLimit[TemplateOf[c]]

(* idle_containers lists, once, exactly the containers with a free slot    *)
(* that are started and not being cleaned away.                            *)
IdleExact ==
  \A t \in Templates :
     /\ IsInjective(idle[t])
     /\ \A c \in Containers(t) :
          c \in Range(idle[t]) <=>
            /\ docker[c] = "up" /\ cnt[c] > 0 /\ stage[c] # "starting"
            /\ c \notin Leaving \cup abandoned

Service == INSTANCE BlockService WITH
  Rooms <- Requests, Slots <- ParallelLimit, Nowhere <- None,
  Bound <- [t \in Templates |-> MaxContainers[t] + 1],
  status <- [r \in Requests |->
    CASE stage[r] = "new" -> "new"
      [] stage[r] \in {"queued", "creating", "starting"} -> "waiting"
      [] stage[r] \in {"running", "delayed", "failed"} -> "inside"
      [] OTHER -> "over"],
  place <- on,
  open <- {c \in Requests : docker[c] = "up" /\ c \notin Leaving \cup abandoned}

(* The pool implements BlockService: no request enters a container that is *)
(* full or on its way out, regular_clean closes none in which a block runs *)
(* or whose slot is still to be put back, and the number of containers is  *)
(* bounded, whatever fails and whichever greenlets are between two waits.  *)
ImplementsService == Service!Spec

(* No two containers share a port, and none has a port that is free.       *)
PortsDistinct ==
  /\ IsInjective(portList)
  /\ \A c \in Requests : port[c] \notin Range(portList)
  /\ \A c, d \in Requests : c # d /\ port[c] = port[d] => port[c] = NoPort

(* template.py:230: a container that regular_clean takes has no slot in    *)
(* use, so the assertion before the lock is released holds.                *)
CleanAssertion == \A t \in Templates : t \notin lockHeld => AssertionHolds(t)

(* Every request allocated is served, although more of them than           *)
(* containers wait and a failed dispatch sends them to the tail.  In a     *)
(* template of one block no item finds the directory of another; in one of *)
(* several blocks two items of a request that meet in a container do.      *)
Served == \A r \in Requests : stage[r] = "queued" ~> stage[r] = "done"

(* When requests stop the pool drains: containers are removed, every port  *)
(* is back and num_exec is zero.                                           *)
Drained ==
  <>[](/\ Range(portList) = Range(Ports)
       /\ \A t \in Templates : numExec[t] = 0 /\ idle[t] = <<>>)
=============================================================================
