----------------------------- MODULE WorkerHost -----------------------------
(***************************************************************************)
(* The dataflow engine and the flow monitor of one worker host together.   *)
(* WorkerSP keeps of a large datum its count and the state of its prefetch; *)
(* here the host Watched has its whole FlowMonitor as well: redis, files,  *)
(* expiry, transfer and deletion.  A step in which the engine, or one of   *)
(* its containers, touches a large datum is a step of both modules.        *)
(*                                                                         *)
(* The greenlets of the monitor and of Container.run_block are greenlets   *)
(* of the proxy: they run when no dispatch greenlet holds the process.     *)
(***************************************************************************)
EXTENDS WorkerSP

CONSTANTS
  Watched,      \* the host
  SerialNumbers,      \* serial numbers of the data of an instance
  DeleteBatch, WriteFails

(* The count of the earlier posts of an output is a serial number.         *)
ASSUME HostAssumption ==
  /\ Watched \in Hosts /\ IsFiniteSet(Blocks)
  /\ DeleteBatch \in Nat /\ WriteFails \in BOOLEAN
  /\ \A b \in Blocks : \A p \in Programs[b] : \A n \in 1..Len(p) :
       Cardinality({m \in 1..(n - 1) : p[m] = p[n]}) \in SerialNumbers

VARIABLES
  redis, disk, inRedis, inDisk, removing, expireQueue, waitingDelete, batches,
  remover, diskRemover, removals, reader,   \* as in FlowMonitor
  kept, cnt     \* FlowMonitor's known and deps

monitorVars == <<redis, disk, kept, cnt, inRedis, inDisk, removing, expireQueue,
                 waitingDelete, batches, remover, diskRemover, removals, reader>>
hostVars == <<vars, monitorVars>>

(* The blocks whose code may post o; user inputs have none.                *)
Producers(o) == {b \in Blocks : \E p \in Programs[b] : o \in Range(p)}
BigFrom(homes) ==
  {o \in Big : /\ \E b \in Producers(o) : Home[b] \in homes
               /\ BlocksAt(o, Watched) # {} \/ Dest[o][1].block = User}

LocalKeys  == Requests \X BigFrom({Watched}) \X SerialNumbers
RemoteKeys == Requests \X {o \in BigFrom(Hosts \ {Watched}) : BlocksAt(o, Watched) # {}} \X SerialNumbers
ReadersOf  == [k \in LocalKeys \cup RemoteKeys |-> BlocksAt(k[2], Watched)]

Monitor == INSTANCE FlowMonitor WITH known <- kept, deps <- cnt, Readers <- Blocks

HostInit == Init /\ Monitor!Init

-----------------------------------------------------------------------------
(* Steps of both.  On another host the monitor is not looked at.           *)

Here(h, A) == IF h = Watched THEN A ELSE UNCHANGED monitorVars

(* put_to_redis: the value first, then its announcement.                   *)
PostHere(r) ==
  /\ Post(r)
  /\ IF NextDatum(r, "redis") \in Range(backlog'[Watched]) /\ Home[r.block] = Watched
     THEN Monitor!PutToRedis(Key(NextDatum(r, "redis")))
     ELSE UNCHANGED monitorVars

(* add_key, of a datum in the host's redis or of one that is prefetched.   *)
DispatchHere(h) ==
  /\ Dispatch(h)
  /\ LET d == Head(queue[h]) IN
     Here(h, CASE d.kind = "redis" -> Monitor!AddRedisKey(Key(d))
               [] d.kind = "kafka" /\ ~d.fromLocal -> Monitor!AddDiskKey(Key(d))
               [] OTHER -> UNCHANGED monitorVars)

PrefetchHere(h, k) == PrefetchData(h, k) /\ Here(h, Monitor!Prefetch(k))

(* Container.link_prefetch_data decides for an input of a run whether it   *)
(* is read from redis or from disk.  The code does so for all inputs of    *)
(* the run in one go; here they may be apart, which allows more.           *)
LinkPrefetchData(r, d) ==
  /\ r.state = "queued" /\ Home[r.block] = Watched /\ Free(Watched)
  /\ Monitor!StartReader(Key(d), r.block)
  /\ UNCHANGED vars

Linked(r) ==
  \A d \in ReferencesIn(r.block, r.inputs) : reader[Key(d)][r.block] # "idle"

StartHere(r) ==
  /\ Home[r.block] = Watched => Linked(r)
  /\ StartRun(r) /\ UNCHANGED monitorVars

(* A fetch that ends, with a value or without, is reported to the host;    *)
(* one that misses in redis goes on to the disk.                           *)
FetchHere(r) ==
  /\ Fetch(r)
  /\ LET k == Key(Head(r.reads)) IN
     Here(Home[r.block],
          \/ Monitor!FetchFromDisk(k, r.block)
          \/ k \in redis /\ Monitor!FetchFromRedis(k, r.block))

MissInRedis(r) ==
  /\ r.reads # <<>> /\ r.state # "crashed" /\ Home[r.block] = Watched
  /\ Key(Head(r.reads)) \notin redis
  /\ Monitor!FetchFromRedis(Key(Head(r.reads)), r.block)
  /\ UNCHANGED vars

ReportHere(h) ==
  /\ DispatchFetched(h)
  /\ Here(h, \E b \in Blocks : Monitor!DecreaseKeyDependencies(Key(Head(queue[h])), b))

(* Steps of the monitor's own greenlets, and of the redis server.          *)
MonitorStep ==
  /\ \/ /\ Free(Watched)
        /\ \/ \E k \in LocalKeys : \/ Monitor!CheckRedis(k) \/ Monitor!TransferToDisk(k)
                                   \/ Monitor!TransferFails(k)
           \/ \E k \in LocalKeys \cup RemoteKeys : Monitor!RemoveDiskKey(k)
           \/ Monitor!StartDeletion \/ Monitor!Expire
     \/ \E b \in batches : Monitor!DeleteFromRedis(b)
  /\ UNCHANGED vars

(* Steps of the engine that touch no large datum.                          *)
EngineStep ==
  /\ \/ \E q \in Requests : Run(q) \/ SendInputs(q) \/ Answer(q) \/ PostUserData(q)
     \/ \E h \in Hosts, q \in Requests : RequestInfo(h, q)
     \/ \E m \in dataNet : TransferData(m)
     \/ \E h \in Hosts :
          \/ SocketServer(h) \/ ToUser(h) \/ ToRemote(h)
          \/ FlowForeach(h) \/ FlowMerge(h) \/ FlowNormal(h)
          \/ \E g \in parked[h] : ResumeMerge(h, g) \/ ResumeTrigger(h, g)
     \/ \E r \in runs : CountFails(r) \/ Upload(r)
  /\ UNCHANGED monitorVars

Joint ==
  \/ \E h \in Hosts : DispatchHere(h) \/ ReportHere(h)
  \/ \E h \in Hosts : \E k \in DOMAIN prefetch[h] : PrefetchHere(h, k)
  \/ \E r \in runs : PostHere(r) \/ StartHere(r) \/ FetchHere(r) \/ MissInRedis(r)
  \/ \E r \in runs : \E d \in ReferencesIn(r.block, r.inputs) : LinkPrefetchData(r, d)

HostStep == Joint \/ MonitorStep \/ EngineStep
HostNext == (HostStep /\ UNCHANGED faults) \/ (Fault /\ UNCHANGED monitorVars)

HostSpec == HostInit /\ [][HostNext]_hostVars

-----------------------------------------------------------------------------
(* Properties                                                              *)

PutsNext(r) ==
  /\ r.reads = <<>> /\ r.posts # <<>> /\ ~NoItems(r)
  /\ Head(r.posts) \in BigFrom({Home[r.block]})

(* What the monitor relies on and the engine provides, wherever a call of  *)
(* the engine is next: a key is put and registered once, its value first;  *)
(* only a registered key is read, by a block it was counted for and that   *)
(* has not read it, and a prefetched one when its file is whole; only a    *)
(* fetched one is reported.  Otherwise a joint step would be missing here  *)
(* that the code takes.                                                    *)
EngineKeepsContract ==
  /\ Free(Watched) /\ queue[Watched] # <<>> =>
       LET d == Head(queue[Watched])
           k == Key(d)
       IN CASE d.kind = "redis"   -> Monitor!MayAddRedisKey(k)
            [] d.kind = "kafka" /\ ~d.fromLocal -> Monitor!MayAddDiskKey(k)
            [] d.kind = "fetched" -> \E b \in Blocks : Monitor!MayReport(k, b)
            [] OTHER -> TRUE
  /\ \A r \in {r \in runs : Home[r.block] = Watched} :
       /\ r.state = "queued" => \A d \in ReferencesIn(r.block, r.inputs) :
            Monitor!MayStart(Key(d), r.block) \/ reader[Key(d)][r.block] \in {"redis", "disk"}
       /\ \A d \in Range(r.reads) : reader[Key(d)][r.block] \in {"redis", "disk"}
       /\ PutsNext(r) => Monitor!MayPut(Key(NextDatum(r, "redis")))
  /\ \A k \in DOMAIN prefetch[Watched] :
       prefetch[Watched][k] = "running" => Monitor!MayPrefetch(k)

(* When nothing is left to do and no fault has happened, the request is    *)
(* answered or one of its runs has failed, and the host keeps no file and  *)
(* at most a batch of values.  One file may stay: the last report may come *)
(* between a write that fails and the new attempt, which then skips the    *)
(* transfer (flow_monitor.py:96) and leaves what was written.              *)
HostClean ==
  ~ENABLED HostStep /\ faults = 0 =>
    /\ \A q \in Requests : phase[q] = "done" \/ Failed(q)
    /\ \A k \in DOMAIN disk : disk[k] = "none" \/ (WriteFails /\ disk[k] = "partial")
    /\ redis \subseteq waitingDelete /\ Cardinality(waitingDelete) <= DeleteBatch
=============================================================================
