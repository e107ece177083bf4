------------------------------ MODULE WorkerSP ------------------------------
(***************************************************************************)
(* The dataflow engine of FaaSFlow: the gateway's /run handler, one proxy  *)
(* process per worker host (WorkerSPManager) and the function containers   *)
(* it triggers.                                                            *)
(*                                                                         *)
(* A worker is one process of gevent greenlets: a greenlet keeps the       *)
(* process until it sleeps or waits.  running[h] is the dispatch greenlet  *)
(* that is executing on h, between its pop and its next wait, and no other *)
(* greenlet of h takes a step meanwhile; parked[h] are the dispatch        *)
(* greenlets that wait, for VIRTUAL.CNT or for a prefetch.  Containers,    *)
(* the gateway and the network interleave with all of them.                *)
(*                                                                         *)
(* A datum is posted once by one block and has a serial number: FOREACH    *)
(* outputs number their items, and the blocks an item triggers hand their  *)
(* serial on.  Every template of the workflows has one block, so a         *)
(* template and its block are one name here.                               *)
(***************************************************************************)
EXTENDS Integers, FiniteSets, SequencesExt

CONSTANTS
  Requests,      \* request ids; each is run once
  Home,          \* block -> the worker its template is placed on
  Inputs,        \* block -> [input name -> "NORMAL" or "LIST"]
  Fetches,       \* block -> the inputs its code fetches, in order
  Programs,      \* block -> the sequences of outputs its code may post
  GlobalInputs,  \* the outputs the user posts, in order
  OutType,       \* output -> "NORMAL", "FOREACH" or "MERGE"
  Dest,          \* output -> its destinations [block, input], in file order
  Big,           \* outputs above db_threshold: sent by reference
  User,          \* the destination $USER
  MaxFaults,     \* bound on lost posts, dead prefetches and crashes
  Cnt            \* the input and output name VIRTUAL.CNT

Blocks == DOMAIN Home
Hosts  == {Home[b] : b \in Blocks}
Outs   == DOMAIN Dest
CntOuts == {o \in Outs : \E i \in 1..Len(Dest[o]) : Dest[o][i].input = Cnt}

(***************************************************************************)
(* A workflow's outputs go to declared inputs of its blocks, or to $USER,  *)
(* those of a MERGE to LISTs, and its blocks post outputs of the workflow. *)
(***************************************************************************)
ASSUME WorkflowAssumption ==
  /\ User \notin Blocks
  /\ \A o \in Outs :
        /\ Dest[o] \in Seq(Range(Dest[o])) /\ IsInjective(Dest[o])
        /\ \A x \in Range(Dest[o]) :
              x.block # User =>
                /\ x.block \in Blocks /\ x.input \in DOMAIN Inputs[x.block]
                /\ OutType[o] = "MERGE" <=> Inputs[x.block][x.input] = "LIST"
        /\ OutType[o] \in {"NORMAL", "FOREACH", "MERGE"}
  /\ GlobalInputs \in Seq(Outs)
  /\ \A b \in Blocks : Programs[b] \subseteq Seq(Outs)

(***************************************************************************)
(* A large output never goes to $USER and to a remote worker at once: no   *)
(* workflow of the repository does it, and workersp.py:365 would raise.    *)
(***************************************************************************)
ASSUME BigStaysApart ==
  \A o \in Big \cap Outs :
     (\E i \in 1..Len(Dest[o]) : Dest[o][i].block = User) => Len(Dest[o]) = 1

(* The blocks that a FOREACH item triggers, and what a block may post.     *)
ForeachBlock(b) ==
  \E o \in Outs : OutType[o] = "FOREACH" /\ \E x \in Range(Dest[o]) : x.block = b
Outputs(b) == UNION {Range(p) : p \in Programs[b]}

(***************************************************************************)
(* Outputs are named after the block that posts them.  The user's are      *)
(* NORMAL, and a block that an item triggers posts each of its outputs     *)
(* once, for all of them get the serial number of the item.                *)
(***************************************************************************)
ASSUME PostingAssumption ==
  /\ \A o \in Range(GlobalInputs) :
        /\ OutType[o] = "NORMAL" /\ o \notin CntOuts
        /\ \A b \in Blocks : o \notin Outputs(b)
  /\ \A b, c \in Blocks : Outputs(b) \cap Outputs(c) # {} => b = c
  /\ \A b \in Blocks : ForeachBlock(b) => \A p \in Programs[b] : IsInjective(p)

(***************************************************************************)
(* Items come to a block at one input, which no NORMAL output goes to, and *)
(* a LIST collects one output.                                             *)
(***************************************************************************)
ASSUME ItemsAssumption ==
  /\ \A o, u \in Outs : \A x \in Range(Dest[o]), y \in Range(Dest[u]) :
       x.block = y.block =>
         /\ OutType[o] = "FOREACH" /\ OutType[u] = "FOREACH" => o = u /\ x = y
         /\ OutType[o] = "FOREACH" /\ OutType[u] = "NORMAL" => x.input # y.input
         /\ OutType[o] = "MERGE" /\ OutType[u] = "MERGE" /\ x.input = y.input => o = u /\ x = y
  /\ \A b \in Blocks :
       /\ IsFiniteSet(DOMAIN Inputs[b])
       /\ \A i \in DOMAIN Inputs[b] : Inputs[b][i] \in {"NORMAL", "LIST"}
       /\ Cnt \in DOMAIN Inputs[b] => Inputs[b][Cnt] = "NORMAL"

(***************************************************************************)
(* A list holds what the items of one split became, and its count is that  *)
(* split's: block.py posts VIRTUAL.CNT when the code has posted its items. *)
(***************************************************************************)
Splits(a, b) ==
  \E o \in Outputs(a) : OutType[o] = "FOREACH" /\ \E x \in Range(Dest[o]) : x.block = b

ASSUME CountsAssumption ==
  /\ \A o \in CntOuts : OutType[o] = "NORMAL"
  /\ \A b \in Blocks : \A p \in Programs[b] : \A i, j \in 1..Len(p) :
       i < j /\ p[i] \in CntOuts => OutType[p[j]] # "FOREACH"
  /\ \A b \in Blocks : \A i \in DOMAIN Inputs[b] :
       Inputs[b][i] = "LIST" => Cnt \in DOMAIN Inputs[b] /\ ~ForeachBlock(b)
  /\ \A a, b \in Blocks : \A o \in Outputs(b), u \in Outputs(a) :
       \A x \in Range(Dest[o]), y \in Range(Dest[u]) :
         OutType[o] = "MERGE" /\ x.block = y.block /\ x.block # User /\ y.input = Cnt =>
           Splits(a, b) /\ ~ForeachBlock(a)

(***************************************************************************)
(* A large output goes to a block at one input, which the code of that     *)
(* block fetches, once.                                                    *)
(***************************************************************************)
ASSUME FetchesAssumption ==
  /\ \A b \in Blocks : Fetches[b] \in Seq(DOMAIN Inputs[b]) /\ IsInjective(Fetches[b])
  /\ \A o \in Big \cap Outs : \A x, y \in Range(Dest[o]) :
       /\ x.block = y.block => x = y
       /\ x.block # User => x.input \in Range(Fetches[x.block])

VARIABLES
  phase, result,              \* gateway: the /run handlers, AsyncResult set
  infoNet, dataNet, userNet,  \* HTTP posts in flight
  known,      \* worker -> requests in workflows_state
  serving,    \* worker -> its socket_server greenlet is alive
  backlog,    \* worker -> messages waiting on port 5999
  queue,      \* worker -> incoming_data_queue
  running,    \* worker -> <<g>> or <<>>
  parked,     \* worker -> waiting dispatch greenlets
  inputDatas, inputCnt,       \* WorkflowState of a request, per block
  prefetch,   \* worker -> [key -> "running", "done" or "dead"]
  deps,       \* worker -> [key -> dependencies_cnt of flow_monitor]
  runs,       \* every block handed to a container so far
  faults      \* faults so far

gatewayVars == <<phase, result>>
netVars     == <<infoNet, dataNet, userNet>>
inboxVars   == <<known, serving, backlog, queue>>
greenVars   == <<running, parked>>
stateVars   == <<inputDatas, inputCnt>>
keyVars     == <<prefetch, deps>>
vars == <<gatewayVars, netVars, inboxVars, greenVars, stateVars, keyVars, runs, faults>>

-----------------------------------------------------------------------------
(* Data *)

NoSerial == -1

Datum(q, o, s, v, kind) ==
  [req |-> q, out |-> o, serial |-> s, val |-> v, kind |-> kind, fromLocal |-> TRUE]
Key(d) == <<d.req, d.out, d.serial>>

ByReference(d) == d.kind \in {"redis", "kafka"}

(* The destination blocks of o on host h: local_cnt, remote_cnt, ips_cnt.  *)
BlocksAt(o, h) ==
  {b \in Blocks : Home[b] = h /\ \E i \in 1..Len(Dest[o]) : Dest[o][i].block = b}

(* The elements of s at the positions in P, in order: SelectSeq written as *)
(* a recursive function, which a proof can unfold.                         *)
Subsequence(s, P) ==
  LET upTo[n \in 0..Len(s)] ==
        IF n = 0 THEN <<>>
        ELSE IF n \in P THEN Append(upTo[n - 1], s[n]) ELSE upTo[n - 1]
  IN upTo[Len(s)]

EmptyFn == [x \in {} |-> x]
With(f, x, v) == [y \in DOMAIN f \cup {x} |-> IF y = x THEN v ELSE f[y]]

(* The items a block reads of input i: a LIST is indexed by serial number. *)
ItemsOf(b, ins, i) ==
  IF Inputs[b][i] = "LIST"
  THEN [n \in 1..Cardinality(DOMAIN ins[i]) |-> ins[i][n - 1]]
  ELSE <<ins[i]>>

ReferencesIn(b, ins) ==
  {d \in UNION {Range(ItemsOf(b, ins, i)) : i \in DOMAIN ins} : ByReference(d)}

-----------------------------------------------------------------------------
Init ==
  /\ phase = [q \in Requests |-> "idle"]
  /\ result = [q \in Requests |-> FALSE]
  /\ infoNet = {} /\ dataNet = {} /\ userNet = {}
  /\ known = [h \in Hosts |-> {}]
  /\ serving = [h \in Hosts |-> TRUE]
  /\ backlog = [h \in Hosts |-> <<>>]
  /\ queue = [h \in Hosts |-> <<>>]
  /\ running = [h \in Hosts |-> <<>>]
  /\ parked = [h \in Hosts |-> {}]
  /\ inputDatas = [q \in Requests |-> [b \in Blocks |-> EmptyFn]]
  /\ inputCnt = [q \in Requests |-> [b \in Blocks |-> 0]]
  /\ prefetch = [h \in Hosts |-> EmptyFn]
  /\ deps = [h \in Hosts |-> EmptyFn]
  /\ runs = {}
  /\ faults = 0

-----------------------------------------------------------------------------
(* Gateway: run() posts request_info to every worker of the placement,     *)
(* waits for all answers, posts the inputs, waits again, waits for result. *)

Run(q) ==
  /\ phase[q] = "idle"
  /\ phase' = [phase EXCEPT ![q] = "info"]
  /\ infoNet' = infoNet \cup {<<h, q>> : h \in Hosts}
  /\ UNCHANGED <<result, dataNet, userNet, inboxVars, greenVars, stateVars, keyVars, runs>>

InputsFor(q, h) ==
  LET there == {i \in 1..Len(GlobalInputs) : BlocksAt(GlobalInputs[i], h) # {}}
      mine == Subsequence(GlobalInputs, there)
  IN [i \in 1..Len(mine) |->
        [Datum(q, mine[i], 0, 0, "direct") EXCEPT !.fromLocal = FALSE]]

Gateway == "gateway"

\* Mutant of InfoAnswered: the inputs are sent without the joinall.
MutantNoJoin(q) == TRUE

InfoAnswered(q) == \A h \in Hosts : <<h, q>> \notin infoNet

SendInputs(q) ==
  /\ phase[q] = "info"
  /\ InfoAnswered(q)
  /\ phase' = [phase EXCEPT ![q] = "inputs"]
  /\ dataNet' = dataNet \cup
       {[to |-> h, datas |-> InputsFor(q, h), sender |-> Gateway] :
          h \in {h \in Hosts : InputsFor(q, h) # <<>>}}
  /\ UNCHANGED <<result, infoNet, userNet, inboxVars, greenVars, stateVars, keyVars, runs>>

Answer(q) ==
  /\ phase[q] = "inputs"
  /\ \A m \in dataNet : m.sender = Gateway => m.datas[1].req # q
  /\ result[q]
  /\ phase' = [phase EXCEPT ![q] = "done"]
  /\ UNCHANGED <<result, netVars, inboxVars, greenVars, stateVars, keyVars, runs>>

PostUserData(q) ==
  /\ q \in userNet
  /\ userNet' = userNet \ {q}
  /\ result' = [result EXCEPT ![q] = TRUE]
  /\ UNCHANGED <<phase, infoNet, dataNet, inboxVars, greenVars, stateVars, keyVars, runs, faults>>

-----------------------------------------------------------------------------
(* Worker: the handlers that feed incoming_data_queue                      *)

Free(h) == running[h] = <<>>

RequestInfo(h, q) ==
  /\ Free(h)
  /\ <<h, q>> \in infoNet
  /\ infoNet' = infoNet \ {<<h, q>>}
  /\ known' = [known EXCEPT ![h] = @ \cup {q}]
  /\ inputDatas' = [inputDatas EXCEPT ![q] =
                      [b \in Blocks |-> IF Home[b] = h THEN EmptyFn ELSE @[b]]]
  /\ inputCnt' = [inputCnt EXCEPT ![q] =
                    [b \in Blocks |-> IF Home[b] = h THEN 0 ELSE @[b]]]
  /\ UNCHANGED <<gatewayVars, dataNet, userNet, serving, backlog, queue, greenVars, keyVars, runs>>

\* Mutant of Admitted: the check of an uninitialised request is gone.
MutantAdmitAll(h, q) == TRUE

Admitted(h, q) == q \in known[h]

(* receive_incoming_data raises for an unknown request: the POST is        *)
(* answered 500, which no sender looks at, and the data are dropped.       *)
TransferData(m) ==
  /\ Free(m.to)
  /\ dataNet' = dataNet \ {m}
  /\ queue' = IF Admitted(m.to, m.datas[1].req)
              THEN [queue EXCEPT ![m.to] = @ \o m.datas] ELSE queue
  /\ UNCHANGED <<gatewayVars, infoNet, userNet, known, serving, backlog, greenVars, stateVars, keyVars, runs>>

(* The same exception inside socket_server ends its only greenlet.         *)
SocketServer(h) ==
  /\ Free(h) /\ serving[h] /\ backlog[h] # <<>>
  /\ backlog' = [backlog EXCEPT ![h] = Tail(@)]
  /\ IF Head(backlog[h]).req \in known[h]
     THEN /\ queue' = [queue EXCEPT ![h] = Append(@, Head(backlog[h]))]
          /\ UNCHANGED serving
     ELSE /\ serving' = [serving EXCEPT ![h] = FALSE]
          /\ UNCHANGED queue
  /\ UNCHANGED <<gatewayVars, netVars, known, greenVars, stateVars, keyVars, runs, faults>>

-----------------------------------------------------------------------------
(* Worker: dispatch_incoming_data                                          *)

(* The destinations a greenlet on h has work for: $USER; a local block,    *)
(* unless h only forwards a large datum; a remote one, if the datum was    *)
(* produced here and is not served from this host's redis.                 *)
WorkFor(h, d, dest) ==
  IF dest.block = User THEN TRUE
  ELSE IF Home[dest.block] = h THEN ~(d.kind = "kafka" /\ d.fromLocal)
  ELSE d.fromLocal /\ d.kind # "redis"

Greenlet(h, d) ==
  LET todo == {i \in 1..Len(Dest[d.out]) : WorkFor(h, d, Dest[d.out][i])}
  IN [data |-> d, sent |-> {}, call |-> <<>>,
      dests |-> Subsequence(Dest[d.out], todo)]

Continue(g) == IF g.dests = <<>> THEN <<>> ELSE <<g>>

(* handle_data_fetched -> decrease_key_dependencies *)
DispatchFetched(h) ==
  /\ Free(h) /\ queue[h] # <<>>
  /\ Head(queue[h]).kind = "fetched"
  /\ queue' = [queue EXCEPT ![h] = Tail(@)]
  /\ deps' = [deps EXCEPT ![h][Key(Head(queue[h]))] = @ - 1]
  /\ UNCHANGED <<gatewayVars, netVars, known, serving, backlog, greenVars, stateVars, prefetch, runs>>

\* Mutant of Counted: the producer's local_cnt stands in for ips_cnt.
MutantLocalCount(h, d) == IF d.kind = "redis" THEN Cardinality(BlocksAt(d.out, h)) ELSE 0

(* add_key's count: the destination blocks on this host.                   *)
Counted(h, d) == Cardinality(BlocksAt(d.out, h))

(* Every other datum: handle_redis_data_ready, handle_remote_data_ready    *)
(* and the direct branch, up to the walk over the destinations.            *)
Dispatch(h) ==
  /\ Free(h) /\ queue[h] # <<>>
  /\ LET d == Head(queue[h])
         registered == d.kind = "redis" \/ (d.kind = "kafka" /\ ~d.fromLocal)
     IN /\ d.kind # "fetched"
        /\ queue' = [queue EXCEPT ![h] = Tail(@)]
        /\ deps' = IF registered
                   THEN [deps EXCEPT ![h] = With(@, Key(d), Counted(h, d))]
                   ELSE deps
        /\ prefetch' = IF registered /\ d.kind = "kafka" /\ Key(d) \notin DOMAIN prefetch[h]
                       THEN [prefetch EXCEPT ![h] = With(@, Key(d), "running")]
                       ELSE prefetch
        /\ running' = [running EXCEPT ![h] = Continue(Greenlet(h, d))]
  /\ UNCHANGED <<gatewayVars, netVars, known, serving, backlog, parked, stateVars, runs>>

(* prefetch_kafka_data: the prefetcher has answered, the key is set.       *)
PrefetchData(h, k) ==
  /\ Free(h)
  /\ k \in DOMAIN prefetch[h] /\ prefetch[h][k] = "running"
  /\ prefetch' = [prefetch EXCEPT ![h][k] = "done"]
  /\ UNCHANGED <<gatewayVars, netVars, inboxVars, greenVars, stateVars, deps, runs>>

-----------------------------------------------------------------------------
(* Worker: one destination of the running greenlet                         *)

Advance(g) == [g EXCEPT !.dests = Tail(@)]

ToUser(h) ==
  /\ running[h] # <<>>
  /\ LET g == running[h][1] IN
       /\ Head(g.dests).block = User
       /\ userNet' = userNet \cup {g.data.req}
       /\ running' = [running EXCEPT ![h] = Continue(Advance(g))]
  /\ UNCHANGED <<gatewayVars, infoNet, dataNet, inboxVars, parked, stateVars, keyVars, runs>>

(* send_data_remote, once for each remote worker.                          *)
ToRemote(h) ==
  /\ running[h] # <<>>
  /\ LET g == running[h][1]
         b == Head(g.dests).block
     IN /\ b # User /\ Home[b] # h
        /\ dataNet' =
             IF Home[b] \in g.sent THEN dataNet
             ELSE dataNet \cup {[to |-> Home[b], sender |-> b,
                                 datas |-> <<[g.data EXCEPT !.fromLocal = FALSE]>>]}
        /\ running' = [running EXCEPT ![h] =
             Continue(Advance([g EXCEPT !.sent = @ \cup {Home[b]}]))]
  /\ UNCHANGED <<gatewayVars, infoNet, userNet, inboxVars, parked, stateVars, keyVars, runs>>

(* The running greenlet is at a local destination of an output of type t.  *)
Flowing(h, t) ==
  /\ running[h] # <<>>
  /\ LET g == running[h][1]
         b == Head(g.dests).block
     IN b # User /\ Home[b] = h /\ OutType[g.data.out] = t

(* Store.__init__: a block triggered by a FOREACH item has its serial.     *)
BlockSerial(b, ins) ==
  LET foreach == {i \in DOMAIN ins : Inputs[b][i] = "NORMAL" /\ OutType[ins[i].out] = "FOREACH"}
  IN IF foreach = {} THEN NoSerial ELSE ins[CHOOSE i \in foreach : TRUE].serial

(* allocate_block: the n-th request for this instance joins the queue.     *)
Allocate(q, b, ins) ==
  LET s == BlockSerial(b, ins)
      before == {r \in runs : r.req = q /\ r.block = b /\ r.serial = s}
  IN runs' = runs \cup
       {[req |-> q, block |-> b, serial |-> s, nth |-> Cardinality(before) + 1,
         inputs |-> ins, state |-> "queued",
         reads |-> <<>>, posts |-> <<>>, posted |-> <<>>, uploads |-> <<>>]}

\* Mutant of Prefetched: a prefetch that was started counts as complete.
MutantPrefetchStarted(h, b, ins) ==
  \A d \in ReferencesIn(b, ins) : d.kind = "kafka" => Key(d) \in DOMAIN prefetch[h]

(* check_input_datas: every datum that comes over Kafka is on disk.        *)
Prefetched(h, b, ins) ==
  \A d \in ReferencesIn(b, ins) :
     d.kind = "kafka" => Key(d) \in DOMAIN prefetch[h] /\ prefetch[h][Key(d)] = "done"

(* trigger_normal, called by greenlet g of host h.                         *)
TriggerNormal(h, g, b, ins) ==
  IF Prefetched(h, b, ins)
  THEN /\ Allocate(g.data.req, b, ins)
       /\ running' = [running EXCEPT ![h] = Continue(g)]
       /\ UNCHANGED parked
  ELSE /\ parked' = [parked EXCEPT ![h] =
             @ \cup {[g EXCEPT !.call = <<[block |-> b, inputs |-> ins]>>]}]
       /\ running' = [running EXCEPT ![h] = <<>>]
       /\ UNCHANGED runs

\* Mutant of LastInput: the count is compared before it is incremented.
MutantLateCount(q, b) == inputCnt[q][b] = Cardinality(DOMAIN Inputs[b])

\* Mutant of LastInput: the count of another request is taken for this one's.
MutantAnyRequest(q, b) ==
  \E p \in Requests : inputCnt[p][b] + 1 = Cardinality(DOMAIN Inputs[b])

LastInput(q, b) == inputCnt[q][b] + 1 = Cardinality(DOMAIN Inputs[b])

(* One more input of b is complete: count it, trigger when it is the last. *)
CountInput(h, g, b, ins) ==
  LET q == g.data.req IN
    /\ inputCnt' = [inputCnt EXCEPT ![q][b] = @ + 1]
    /\ IF LastInput(q, b)
       THEN TriggerNormal(h, g, b, ins)
       ELSE /\ running' = [running EXCEPT ![h] = Continue(g)]
            /\ UNCHANGED <<parked, runs>>

FlowForeach(h) ==
  /\ Flowing(h, "FOREACH")
  /\ LET g == running[h][1]
         dest == Head(g.dests)
     IN TriggerNormal(h, Advance(g), dest.block,
                      With(inputDatas[g.data.req][dest.block], dest.input, g.data))
  /\ UNCHANGED <<gatewayVars, netVars, inboxVars, stateVars, keyVars>>

ListInput(q, dest) ==
  IF dest.input \in DOMAIN inputDatas[q][dest.block]
  THEN inputDatas[q][dest.block][dest.input] ELSE EmptyFn

FlowMerge(h) ==
  /\ Flowing(h, "MERGE")
  /\ LET g == running[h][1]
         q == g.data.req
         dest == Head(g.dests)
         stored == inputDatas[q][dest.block]
         counted == Cnt \in DOMAIN stored
         list == IF counted THEN With(ListInput(q, dest), g.data.serial, g.data)
                 ELSE ListInput(q, dest)
         ins == With(stored, dest.input, list)
     IN /\ inputDatas' = [inputDatas EXCEPT ![q][dest.block] = ins]
        /\ IF counted /\ Cardinality(DOMAIN list) = stored[Cnt].val
           THEN CountInput(h, Advance(g), dest.block, ins)
           ELSE /\ running' = [running EXCEPT ![h] =
                                 IF counted THEN Continue(Advance(g)) ELSE <<>>]
                /\ parked' = IF counted THEN parked
                             ELSE [parked EXCEPT ![h] = @ \cup {g}]
                /\ UNCHANGED <<inputCnt, runs>>
  /\ UNCHANGED <<gatewayVars, netVars, inboxVars, keyVars>>

\* Mutant of FlowNormal: no count and no test for a repeated input, every
\* arrival triggers the block once all its inputs are there.
MutantByPresence(h) ==
  /\ Flowing(h, "NORMAL")
  /\ LET g == running[h][1]
         q == g.data.req
         dest == Head(g.dests)
         ins == With(inputDatas[q][dest.block], dest.input, g.data)
     IN /\ inputDatas' = [inputDatas EXCEPT ![q][dest.block] = ins]
        /\ IF DOMAIN ins = DOMAIN Inputs[dest.block]
           THEN TriggerNormal(h, Advance(g), dest.block, ins)
           ELSE /\ running' = [running EXCEPT ![h] = Continue(Advance(g))]
                /\ UNCHANGED <<parked, runs>>
  /\ UNCHANGED <<gatewayVars, netVars, inboxVars, inputCnt, keyVars>>

Repeated(q, dest) == dest.input \in DOMAIN inputDatas[q][dest.block]

FlowNormal(h) ==
  /\ Flowing(h, "NORMAL")
  /\ LET g == running[h][1]
         q == g.data.req
         dest == Head(g.dests)
         ins == With(inputDatas[q][dest.block], dest.input, g.data)
     IN IF Repeated(q, dest)
        THEN /\ running' = [running EXCEPT ![h] = Continue(Advance(g))]
             /\ UNCHANGED <<parked, stateVars, runs>>
        ELSE /\ inputDatas' = [inputDatas EXCEPT ![q][dest.block] = ins]
             /\ CountInput(h, Advance(g), dest.block, ins)
  /\ UNCHANGED <<gatewayVars, netVars, inboxVars, keyVars>>

(* A parked greenlet wakes: the count it polled for has arrived, and it    *)
(* goes on inside flow_data; or its prefetch is done, and it allocates.    *)
ResumeMerge(h, g) ==
  /\ Free(h) /\ g \in parked[h] /\ g.call = <<>>
  /\ Cnt \in DOMAIN inputDatas[g.data.req][Head(g.dests).block]
  /\ parked' = [parked EXCEPT ![h] = @ \ {g}]
  /\ running' = [running EXCEPT ![h] = <<g>>]
  /\ UNCHANGED <<gatewayVars, netVars, inboxVars, stateVars, keyVars, runs>>

ResumeTrigger(h, g) ==
  /\ Free(h) /\ g \in parked[h] /\ g.call # <<>>
  /\ Prefetched(h, g.call[1].block, g.call[1].inputs)
  /\ Allocate(g.data.req, g.call[1].block, g.call[1].inputs)
  /\ parked' = [parked EXCEPT ![h] = @ \ {g}]
  /\ running' = [running EXCEPT ![h] = Continue([g EXCEPT !.call = <<>>])]
  /\ UNCHANGED <<gatewayVars, netVars, inboxVars, stateVars, keyVars>>

-----------------------------------------------------------------------------
(* Containers: Block.run, with its Store                                   *)

Become(r, r2) == runs' = (runs \ {r}) \cup {r2}
Send(h, d) == backlog' = [backlog EXCEPT ![h] = Append(@, d)]

(* The code starts.  It fetches its inputs in order, and an input that is  *)
(* not there raises; what it posts is one of the block's programs.         *)
StartRun(r) ==
  LET b == r.block
      absent == {k \in 1..Len(Fetches[b]) : Fetches[b][k] \notin DOMAIN r.inputs}
      fetchable == IF absent = {} THEN Len(Fetches[b])
                   ELSE (CHOOSE k \in absent : \A j \in absent : k <= j) - 1
      items == FlattenSeq([k \in 1..fetchable |-> ItemsOf(b, r.inputs, Fetches[b][k])])
      references == {n \in 1..Len(items) : ByReference(items[n])}
      started == [r EXCEPT !.state = IF absent = {} THEN "started" ELSE "failed",
                           !.reads = Subsequence(items, references)]
  IN /\ r.state = "queued"
     /\ IF absent = {} THEN \E p \in Programs[b] : Become(r, [started EXCEPT !.posts = p])
        ELSE Become(r, started)
     /\ UNCHANGED <<gatewayVars, netVars, inboxVars, greenVars, stateVars, keyVars>>

Report(r, d) == Datum(r.req, d.out, d.serial, d.val, "fetched")

\* Mutant of Fetch: a value read from disk is not reported to the host.
MutantSilentFetch(r) ==
  /\ r.reads # <<>> /\ r.state # "crashed"
  /\ Become(r, [r EXCEPT !.reads = Tail(@)])
  /\ IF Head(r.reads).kind = "kafka" THEN UNCHANGED backlog
     ELSE Send(Home[r.block], Report(r, Head(r.reads)))
  /\ UNCHANGED <<gatewayVars, netVars, known, serving, queue, greenVars, stateVars, keyVars>>

(* fetch_from_redis or fetch_from_disk, then post_data_fetched_to_host.    *)
Fetch(r) ==
  /\ r.reads # <<>> /\ r.state # "crashed"
  /\ Become(r, [r EXCEPT !.reads = Tail(@)])
  /\ Send(Home[r.block], Report(r, Head(r.reads)))
  /\ UNCHANGED <<gatewayVars, netVars, known, serving, queue, greenVars, stateVars, keyVars>>

\* Mutant of ForeachCount: the last serial is announced, not the count.
MutantLastSerial(r) ==
  Cardinality({n \in 1..Len(r.posted) : OutType[r.posted[n]] = "FOREACH"}) - 1

ForeachCount(r) ==
  Cardinality({n \in 1..Len(r.posted) : OutType[r.posted[n]] = "FOREACH"})

(* store.post: the serial is the block's own or counts the earlier posts   *)
(* of that output; VIRTUAL.CNT carries the number of FOREACH items.        *)
NextDatum(r, kind) ==
  LET o == Head(r.posts)
      before == {n \in 1..Len(r.posted) : r.posted[n] = o}
  IN Datum(r.req, o,
           IF r.serial = NoSerial THEN Cardinality(before) ELSE r.serial,
           IF o \in CntOuts THEN ForeachCount(r) ELSE 0,
           kind)

(* block.py:64: the serial number of an output that was never posted.      *)
NoItems(r) == Head(r.posts) \in CntOuts /\ ForeachCount(r) = 0

(* The count of no items raises a KeyError, and the run ends there.        *)
CountFails(r) ==
  /\ r.reads = <<>> /\ r.posts # <<>> /\ NoItems(r)
  /\ Become(r, [r EXCEPT !.state = "failed", !.posts = <<>>])
  /\ UNCHANGED <<gatewayVars, netVars, inboxVars, greenVars, stateVars, keyVars>>

(* put_bigdata: to redis for local readers, to the bypass store for remote *)
(* ones; a small value goes to the host directly.                          *)
Post(r) ==
  LET h == Home[r.block]
      o == Head(r.posts)
      here == BlocksAt(o, h) # {} \/ Dest[o][1].block = User
      remote == \E g \in Hosts \ {h} : BlocksAt(o, g) # {}
      after == [r EXCEPT !.posts = Tail(@), !.posted = Append(@, o)]
  IN /\ r.reads = <<>> /\ r.posts # <<>> /\ ~NoItems(r)
     /\ IF o \in Big
        THEN /\ IF here THEN Send(h, NextDatum(r, "redis")) ELSE UNCHANGED backlog
             /\ Become(r, IF remote
                          THEN [after EXCEPT !.uploads = Append(@, NextDatum(r, "kafka"))]
                          ELSE after)
        ELSE Send(h, NextDatum(r, "direct")) /\ Become(r, after)
     /\ UNCHANGED <<gatewayVars, netVars, known, serving, queue, greenVars, stateVars, keyVars>>

(* The container's bypass store announces the head of its store_queue.     *)
Upload(r) ==
  /\ r.uploads # <<>>
  /\ Send(Home[r.block], Head(r.uploads))
  /\ Become(r, [r EXCEPT !.uploads = Tail(@)])
  /\ UNCHANGED <<gatewayVars, netVars, known, serving, queue, greenVars, stateVars, keyVars>>

-----------------------------------------------------------------------------
(* Faults: a greenlet's requests.post raises and the message is lost with  *)
(* it, a prefetch request raises before it sets its key, a run's code      *)
(* raises, or its container dies with what it had still to upload.  Nothing *)
(* retries.                                                                *)

LosePost ==
  /\ \/ \E m \in infoNet : infoNet' = infoNet \ {m} /\ UNCHANGED <<dataNet, userNet>>
     \/ \E m \in dataNet : dataNet' = dataNet \ {m} /\ UNCHANGED <<infoNet, userNet>>
     \/ \E q \in userNet : userNet' = userNet \ {q} /\ UNCHANGED <<infoNet, dataNet>>
  /\ UNCHANGED <<gatewayVars, inboxVars, greenVars, stateVars, keyVars, runs>>

LosePrefetch(h, k) ==
  /\ prefetch[h][k] = "running"
  /\ prefetch' = [prefetch EXCEPT ![h][k] = "dead"]
  /\ UNCHANGED <<gatewayVars, netVars, inboxVars, greenVars, stateVars, deps, runs>>

Crash(r) ==
  /\ r.state = "started" /\ r.posts # <<>>
  /\ \E u \in {r.uploads, <<>>} :
       Become(r, [r EXCEPT !.state = "crashed", !.posts = <<>>, !.uploads = u])
  /\ UNCHANGED <<gatewayVars, netVars, inboxVars, greenVars, stateVars, keyVars>>

Fault ==
  /\ faults < MaxFaults
  /\ faults' = faults + 1
  /\ \/ LosePost
     \/ \E h \in Hosts : \E k \in DOMAIN prefetch[h] : LosePrefetch(h, k)
     \/ \E r \in runs : Crash(r)

-----------------------------------------------------------------------------
Step ==
  \/ \E q \in Requests : Run(q) \/ SendInputs(q) \/ Answer(q) \/ PostUserData(q)
  \/ \E h \in Hosts, q \in Requests : RequestInfo(h, q)
  \/ \E m \in dataNet : TransferData(m)
  \/ \E h \in Hosts :
       \/ SocketServer(h) \/ DispatchFetched(h) \/ Dispatch(h)
       \/ ToUser(h) \/ ToRemote(h)
       \/ FlowForeach(h) \/ FlowMerge(h) \/ FlowNormal(h)
       \/ \E k \in DOMAIN prefetch[h] : PrefetchData(h, k)
       \/ \E g \in parked[h] : ResumeMerge(h, g) \/ ResumeTrigger(h, g)
  \/ \E r \in runs : StartRun(r) \/ Fetch(r) \/ Post(r) \/ CountFails(r) \/ Upload(r)

Next == (Step /\ UNCHANGED faults) \/ Fault

Spec == Init /\ [][Next]_vars

(* Every greenlet that can run is run by the hub, every post is delivered, *)
(* every container executes; no step is ever undone, so fairness of the    *)
(* whole is fairness of each.                                              *)
FairSpec == Spec /\ WF_vars(Step /\ UNCHANGED faults)

-----------------------------------------------------------------------------
(* Properties                                                              *)

IsDatum(d) ==
  /\ d.req \in Requests /\ d.out \in Outs
  /\ d.serial \in Nat /\ d.val \in Nat
  /\ d.kind \in {"direct", "redis", "kafka", "fetched"}
  /\ d.fromLocal \in BOOLEAN

(* The types of all variables.  deps in Nat is the assertion of            *)
(* decrease_key_dependencies: no reader notifies that was not counted.     *)
TypeOK ==
  /\ phase \in [Requests -> {"idle", "info", "inputs", "done"}]
  /\ result \in [Requests -> BOOLEAN]
  /\ infoNet \subseteq Hosts \X Requests
  /\ userNet \subseteq Requests
  /\ \A m \in dataNet : m.to \in Hosts /\ \A d \in Range(m.datas) : IsDatum(d)
  /\ known \in [Hosts -> SUBSET Requests]
  /\ serving \in [Hosts -> BOOLEAN]
  /\ \A h \in Hosts : \A d \in Range(backlog[h]) \cup Range(queue[h]) : IsDatum(d)
  /\ \A h \in Hosts : Len(running[h]) <= 1
  /\ inputCnt \in [Requests -> [Blocks -> Nat]]
  /\ \A q \in Requests, b \in Blocks : DOMAIN inputDatas[q][b] \subseteq DOMAIN Inputs[b]
  /\ \A h \in Hosts : Range(prefetch[h]) \subseteq {"running", "done", "dead"}
  /\ \A h \in Hosts : Range(deps[h]) \subseteq Nat
  /\ \A r \in runs : r.state \in {"queued", "started", "failed", "crashed"}

(* receive_incoming_data never raises inside socket_server, which would    *)
(* end it and make the worker deaf to its containers for good, even when   *)
(* posts are lost and workers miss a request_info.                         *)
SocketServerLives ==
  \A h \in Hosts : serving[h] /\ \A d \in Range(backlog[h]) : d.req \in known[h]

(* No instance of a block, one per request or one per FOREACH item, is     *)
(* handed to a container twice, in whatever order its inputs arrive and    *)
(* are repeated.                                                           *)
TriggerOnce == \A r \in runs : r.nth = 1

(* A block runs only with every input its workflow declares, so no fetch   *)
(* of its code raises.                                                     *)
RunsComplete == \A r \in runs : DOMAIN r.inputs = DOMAIN Inputs[r.block]

(* A block that merges a LIST gets exactly the results of the items that   *)
(* the announcing block split off: none missing, none of a stray serial.   *)
MergeComplete ==
  \A r \in runs : \A i \in DOMAIN r.inputs :
     Inputs[r.block][i] = "LIST" =>
       \E p \in runs :
          /\ p.req = r.req /\ r.inputs[Cnt].out \in Range(p.posted)
          /\ Cardinality(DOMAIN r.inputs[i]) =
               Cardinality({n \in 1..Len(p.posted) : OutType[p.posted[n]] = "FOREACH"})

Unread(r) == IF r.state = "queued" THEN ReferencesIn(r.block, r.inputs) ELSE Range(r.reads)

(* What a run has still to read is registered with its host's flow monitor *)
(* and counted, and if it comes from a remote host its file is complete.   *)
ReadsBacked ==
  \A r \in runs : \A d \in Unread(r) :
     LET h == Home[r.block] IN
       /\ Key(d) \in DOMAIN deps[h] /\ deps[h][Key(d)] > 0
       /\ d.kind = "kafka" => prefetch[h][Key(d)] = "done"

HasRead(b, k) ==
  \E r \in runs :
     /\ r.req = k[1] /\ r.block = b /\ r.state # "queued"
     /\ \E d \in ReferencesIn(b, r.inputs) : Key(d) = k
     /\ \A d \in Range(r.reads) : Key(d) # k

ReportsIn(s, k) == Cardinality({n \in 1..Len(s) : s[n].kind = "fetched" /\ Key(s[n]) = k})
ReportsOf(h, k) == ReportsIn(backlog[h], k) + ReportsIn(queue[h], k)

(* The count of a key is that of the local blocks that have not read it,   *)
(* triggered yet or not, and of the reports on their way: it reaches zero, *)
(* and the key may be reclaimed, exactly when all have read and reported.  *)
KeptUntilRead ==
  \A h \in Hosts : \A k \in DOMAIN deps[h] :
     deps[h][k] = Cardinality({b \in BlocksAt(k[2], h) : ~HasRead(b, k)}) + ReportsOf(h, k)

AtRest == ~ENABLED Step

Failed(q) == \E r \in runs : r.req = q /\ r.state \in {"failed", "crashed"}

(* Without a fault the system never comes to rest with a request that is   *)
(* not answered, unless a run of it has failed.                            *)
AnsweredAtRest ==
  AtRest /\ faults = 0 => \A q \in Requests : phase[q] = "done" \/ Failed(q)

(* At rest every key is released and no greenlet is left waiting.          *)
ReleasedAtRest ==
  AtRest => \A h \in Hosts : parked[h] = {} /\ Range(deps[h]) \subseteq {0}

DatumPosted(r, n) ==
  <<r.req, r.posted[n],
    IF r.serial = NoSerial
    THEN Cardinality({m \in 1..(n - 1) : r.posted[m] = r.posted[n]}) ELSE r.serial>>

(* What the user and the blocks have posted, and what has fired.           *)
PostedByUser ==
  {<<q, o, 0>> : q \in {q \in Requests : phase[q] \in {"inputs", "done"}},
                 o \in Range(GlobalInputs)}
PostedByRuns == UNION {{DatumPosted(r, n) : n \in 1..Len(r.posted)} : r \in runs}
FiredRuns == {<<r.req, r.block, r.serial, r.nth>> : r \in runs}

Promise == INSTANCE Dataflow WITH
  posted <- PostedByUser \cup PostedByRuns,
  fired <- FiredRuns,
  answered <- {q \in Requests : phase[q] = "done"}

(* The engine implements Dataflow: an instance fires once and only on all  *)
(* its inputs, across hosts, whatever is delayed, reordered or lost.       *)
ImplementsDataflow == Promise!Spec

(* Every request that is run is answered, unless one of its own runs fails, *)
(* as a split of no items does: another request is not held up by it.      *)
Answered == \A q \in Requests : phase[q] = "info" ~> phase[q] = "done" \/ Failed(q)
=============================================================================
